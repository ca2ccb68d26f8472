SPECIFICATION FairSpec
CONSTANTS
  None = None
  Key <- AllKeys
  Cooldown = 1
  MaxIssues = 0
  Channel = "null"
  Faults = {}
  Repo = {"p"}
  Runner = {"r1"}
  RepoOf <- OneRepo
  RunId = {"run1"}
  Branches <- BothBranches
  Reports <- Fine
  Talks = {"status", "queue", "branches", "gates", "drift", "workflow", "check_runs"}
  MonFaults = {"silent", "unreachable", "log", "restart"}
  Moves = {"time", "heartbeat", "revoke"}
VIEW WithoutLogged
INVARIANTS
  NothingDefaultAllows
PROPERTY
  CyclesComplete

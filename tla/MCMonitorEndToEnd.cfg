SPECIFICATION RobustSpec
CONSTANTS
  None = None
  Key <- RunnerKeys
  Cooldown = 1
  MaxIssues = 2
  Channel = "github_issue"
  Faults = {"refused", "unreachable", "lost", "close"}
  Repo = {"p"}
  Runner = {"r1"}
  RepoOf <- OneRepo
  RunId = {}
  Branches <- MainBranch
  Reports <- Fine
  Talks = {"status"}
  MonFaults = {"silent", "unreachable"}
  Moves = {"time", "heartbeat"}
INVARIANTS
  OneOpenIssue
  SuppressionIsEarned
PROPERTY
  DeadRunnerSurfaces

SPECIFICATION MCSpec
CONSTANTS
  None = None
  Key <- AllKeys
  Cooldown = 1
  MaxIssues = 0
  Channel = "null"
  Faults = {}
  Repo = {"p", "q"}
  Runner = {"r1", "r2"}
  RepoOf <- TwoRepos
  RunId = {}
  Branches <- DefaultOnly
  Reports <- Troubled
  Talks = {}
  MonFaults = {"silent", "unreachable", "log"}
  Moves = {"heartbeat", "revoke"}
  Interval = 6
  BackoffMax = 12
  Timeout = 3
  Floor = 30
  RetryAfter = {1, 4}
  Calls = 4
VIEW MCView
INVARIANTS
  RegistryAlarms
  OneSlowCallNeverPages
PROPERTY
  DeadHubIsPaged

\* Two dispatches for a session at a time, whose lane may be cleared once; two
\* holders of the lock, whose file is stale after two ticks; a reply of two
\* chunks, each tried three times, and an attachment.
CONSTANTS
  None = None
  Dispatches = {"r1", "r2"}
  WithMedia = {"r1"}
  Stoppable = {"r1"}
  MainLane = "main"
  Session = "s1"
  MaxIncs = 2
  MaxOpen = 2
  Preserved = {1}
  KeepLast = 2
  Holders = {"h1", "h2"}
  StaleAfter = 2
  Timeout = 2
  MaxTime = 4
  Texts = 2
  Media = 1
  MaxRetries = 2
  Conns = {"c1", "c2"}
  Params <- SomeParams
  Requests <- SomeRequests
  Builtin = {"ping"}
  MaxRequests = 1
  Closers = {"k1"}
  ModelCalls = {"x", "y"}
  Providers = {1, 2}
  Cooldown = 3
  RetryAfter = {2}
  MaxWait = 1
  Keys = {"k1"}
  Lines = {"system", "result", "text", "wide", "junk"}
  MaxInbox = 3
  MaxLines = 2
  Versions = {"v2", "v3"}
  LaunchFails = FALSE
  MaxChecks = 3
  MaxDownloads = 2
SPECIFICATION Spec
INVARIANTS PipelineHolds ConnectionsHold ExclusiveIfApart UnconfiguredOnlyIfCleared ClaudeReplies
  ResultsAreTrue UpdateIsTrue CancelStopsWork DoneIsTold
PROPERTY EveryWaitEnds
\* Parts end: calls are made once, the process exits, the lock's clock stops.
CHECK_DEADLOCK FALSE

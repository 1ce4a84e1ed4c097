\* A stop during a backoff is undone by the restart (expected violation).
CONSTANTS
  a = a
  x = x
  d = d
  Starts = {a}
  Stops = {x}
  Logouts = {}
  Resets = {}
  Shutdowns = {}
  Results = {"err"}
  MaxTokens = 4
SPECIFICATION Spec
PROPERTY NoRestartWhenStopped
CHECK_DEADLOCK FALSE

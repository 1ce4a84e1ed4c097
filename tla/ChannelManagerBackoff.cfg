\* The second failure in a row waits no longer than the first (expected violation).
CONSTANTS
  a = a
  Starts = {a}
  Adapterless = {}
  MaxFailures = 2
SPECIFICATION Spec
INVARIANT BackoffGrows
CHECK_DEADLOCK FALSE

\* Two starts of one account, one of them with a plugin that may have no gateway
\* adapter; stops of every kind at any moment.
CONSTANTS
  a = a
  b = b
  Starts = {a, b}
  Adapterless = {b}
  MaxFailures = 2
SPECIFICATION Spec
INVARIANT RunningIsLive
PROPERTIES StopIsFinal StopsArrive
CHECK_DEADLOCK FALSE

\* A cleared lane leaves its session busy for good (expected violation).
CONSTANTS
  c1 = c1
  c2 = c2
  main = main
  s1 = s1
  Dispatches = {c1, c2}
  WithMedia = {c1}
  Stoppable = {}
  MainLane = main
  Session = s1
  MaxIncs = 2
  MaxOpen = 1
  Preserved = {1, 2}
  KeepLast = 2
SPECIFICATION PipelineSpec
PROPERTY SessionFreed
CHECK_DEADLOCK FALSE

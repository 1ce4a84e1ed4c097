\* Three callers, one of which may drop its future; the main lane and one
\* other lane that may be added with two permits; three incarnations.
CONSTANTS
  c1 = c1
  c2 = c2
  c3 = c3
  main = main
  cron = cron
  Cmds = {c1, c2, c3}
  Droppable = {c3}
  Lanes = {main, cron}
  MainLane = main
  Widths = {2}
  MaxIncs = 3
SPECIFICATION Spec
INVARIANTS BooksBalance QueueIsSound
PROPERTIES FirstComeFirstServed KeepsContract CallsSettle
CHECK_DEADLOCK FALSE

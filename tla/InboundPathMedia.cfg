\* Two documents of one name: the second download takes the first one's place
\* (expected violation).
CONSTANTS
  Updates = {1, 2}
  Messages = {1, 2}
  Documents = {1, 2}
  MaxLives = 1
SPECIFICATION Spec
INVARIANT MediaIsThere
CHECK_DEADLOCK FALSE

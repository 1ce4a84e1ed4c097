\* Three updates, the second of them no message; the account is started up to
\* twice, the process may be restarted in between.
CONSTANTS
  Updates = {1, 2, 3}
  Messages = {1, 3}
  Documents = {1}
  MaxLives = 2
SPECIFICATION Spec
INVARIANTS NothingSkipped OnceInOrder
PROPERTY PathMovesOn
CHECK_DEADLOCK FALSE

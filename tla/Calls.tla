-------------------------------- MODULE Calls --------------------------------
(***************************************************************************)
(* A part that computes a result and keeps no state: a behaviour chooses a *)
(* function and its first argument, then the other arguments.              *)
(***************************************************************************)
VARIABLES
  function,  \* the function that the behaviour calls
  one,       \* its first argument
  others     \* its other arguments, <<>> until they are chosen

callVars == <<function, one, others>>

Called(f) == function = f /\ others # <<>>
=============================================================================

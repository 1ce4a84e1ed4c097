------------------------------- MODULE Options -------------------------------
(***************************************************************************)
(* What an Option of the code holds when it is not set: one value, that    *)
(* every module with such options means.                                   *)
(***************************************************************************)
CONSTANT None
=============================================================================

--------------------------------- MODULE MCGui ---------------------------------
(* The panel on a small configuration: a file with an entry in the agents,  *)
(* and settings to which the user may give a value that is an error.        *)
EXTENDS GuiConfig

SomeFiles ==
  {[settings |-> [tab \in Tabs |-> "variable"],
    lists |-> [l \in Lists |-> IF l = "agents" THEN <<NewEntry("a", None)>> ELSE <<>>]]}
================================================================================

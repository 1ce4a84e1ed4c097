---------------------------- MODULE LaneContract ----------------------------
(***************************************************************************)
(* What the command queue of claw-dispatch promises its callers, without   *)
(* semaphores, tokens and polls.                                           *)
(*                                                                         *)
(* A lane is open in some generation, which has a number of slots.  A call *)
(* is admitted into the generation that is open when it arrives, takes one *)
(* of its slots when one is free, and leaves the slot when it completes.   *)
(* Closing a generation (or the whole queue) is the only thing that turns  *)
(* an admitted call away, and it turns away every call that has not        *)
(* completed by then.                                                      *)
(***************************************************************************)
EXTENDS Naturals, FiniteSets

CONSTANTS Calls, LaneNames, Generations, Slots

VARIABLES
  open,    \* lane name -> its generation, 0 for none
  slots,   \* slots of each generation
  closed,  \* generations that were closed
  shut,    \* the whole queue was closed
  phase,   \* where each call stands
  gen      \* the generation that admitted it

cvars == <<open, slots, closed, shut, phase, gen>>

Gone == {"completed", "turned_away", "refused", "abandoned"}
Using(g) == {c \in Calls : gen[c] = g /\ phase[c] = "in_slot"}
Closed(g) == shut \/ g \in closed

CInit ==
  /\ open \in [LaneNames -> Generations \cup {0}]
  /\ slots \in [Generations -> Slots \cup {0, 1}]
  /\ closed = {}
  /\ shut = FALSE
  /\ phase = [c \in Calls |-> "new"]
  /\ gen \in [Calls -> Generations]

\* A lane is opened in a generation nobody was admitted to yet.
OpenNew(l) ==
  /\ open[l] = 0
  /\ \E g \in Generations, s \in Slots :
       /\ \A c \in Calls : phase[c] # "new" => gen[c] # g
       /\ open' = [open EXCEPT ![l] = g]
       /\ slots' = [slots EXCEPT ![g] = s]
  /\ UNCHANGED <<closed, shut, phase, gen>>

\* Closing a lane's generation opens the next one, with as many slots.
Reopen(l) ==
  /\ open[l] # 0
  /\ closed' = closed \cup {open[l]}
  /\ \E g \in Generations \ closed' :
       /\ \A c \in Calls : phase[c] # "new" => gen[c] # g
       /\ open' = [open EXCEPT ![l] = g]
       /\ slots' = [slots EXCEPT ![g] = slots[open[l]]]
  /\ UNCHANGED <<shut, phase, gen>>

Shut == shut' = TRUE /\ UNCHANGED <<open, slots, closed, phase, gen>>

Admit(c) ==
  /\ phase[c] = "new"
  /\ \E l \in LaneNames :
       \/ /\ open[l] = 0
          /\ phase' = [phase EXCEPT ![c] = "refused"]
          /\ UNCHANGED gen
       \/ /\ open[l] # 0
          /\ phase' = [phase EXCEPT ![c] = "admitted"]
          /\ gen' = [gen EXCEPT ![c] = open[l]]
  /\ UNCHANGED <<open, slots, closed, shut>>

TakeSlot(c) ==
  /\ phase[c] = "admitted"
  /\ Cardinality(Using(gen[c])) < slots[gen[c]]
  /\ phase' = [phase EXCEPT ![c] = "in_slot"]
  /\ UNCHANGED <<open, slots, closed, shut, gen>>

Complete(c) ==
  /\ phase[c] = "in_slot"
  /\ phase' = [phase EXCEPT ![c] = "completed"]
  /\ UNCHANGED <<open, slots, closed, shut, gen>>

TurnAway(c) ==
  /\ phase[c] \in {"admitted", "in_slot"}
  /\ Closed(gen[c])
  /\ phase' = [phase EXCEPT ![c] = "turned_away"]
  /\ UNCHANGED <<open, slots, closed, shut, gen>>

\* The caller goes away.
Abandon(c) ==
  /\ phase[c] \in {"admitted", "in_slot"}
  /\ phase' = [phase EXCEPT ![c] = "abandoned"]
  /\ UNCHANGED <<open, slots, closed, shut, gen>>

CNext ==
  \/ \E l \in LaneNames : OpenNew(l) \/ Reopen(l)
  \/ Shut
  \/ \E c \in Calls :
       Admit(c) \/ TakeSlot(c) \/ Complete(c) \/ TurnAway(c) \/ Abandon(c)

\* A closed generation gets rid of its calls.
CSpec == CInit /\ [][CNext]_cvars /\ \A c \in Calls : WF_cvars(TurnAway(c))
=============================================================================

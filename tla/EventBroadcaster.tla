-------------------------- MODULE EventBroadcaster --------------------------
(***************************************************************************)
(* The event broadcaster of claw-gateway.  A broadcast takes a sequence    *)
(* number, may change the state version under its lock, and then sends; in *)
(* between other tasks do the same.  The tokio channel keeps the last      *)
(* Capacity frames, and a receiver that is too slow skips what is gone.    *)
(***************************************************************************)
EXTENDS Naturals, Sequences, FiniteSets

CONSTANTS
  Tasks,       \* tasks that broadcast, one event after the other
  Receivers,   \* calls of subscribe
  Updates,     \* kinds of StateVersionUpdate that tasks use, and "none" for broadcast
  Capacity,    \* of the channel
  MaxSeq       \* bound: broadcasts

ASSUME BroadcasterAssumption ==
  /\ Updates \subseteq {"none", "presence", "health", "both", "custom"}
  /\ Capacity \in Nat \ {0} /\ MaxSeq \in Nat

StateVersion == [presence : Nat, health : Nat]
NoVersion == [presence |-> 0, health |-> 0]
EventFrame == [seq : Nat, by : Tasks, version : StateVersion]

VARIABLES
  seq,       \* EventBroadcaster::seq
  version,   \* EventBroadcaster::state_version
  taskPc,    \* where each task stands
  frame,     \* the frame it is about to send
  channel,   \* frames sent while somebody listened; the last Capacity are kept
  cursor,    \* next frame of each receiver, 0 before it subscribes
  lagged,    \* receivers that skipped frames
  received,  \* frames each receiver got
  customs    \* history: a custom version replaced the counted one

eventVars == <<seq, version, taskPc, frame, channel, cursor, lagged, received, customs>>
receiverVars == <<cursor, lagged, received>>

EventInit ==
  /\ seq = 0 /\ version = NoVersion /\ customs = FALSE
  /\ taskPc = [t \in Tasks |-> "idle"]
  /\ frame = [t \in Tasks |-> [seq |-> 0, by |-> t, version |-> NoVersion]]
  /\ channel = <<>>
  /\ cursor = [r \in Receivers |-> 0] /\ lagged = {}
  /\ received = [r \in Receivers |-> <<>>]

\* StateVersionUpdate applied to a version.
Updated(v, kind) ==
  CASE kind = "presence" -> [v EXCEPT !.presence = @ + 1]
    [] kind = "health"   -> [v EXCEPT !.health = @ + 1]
    [] kind = "both"     -> [presence |-> v.presence + 1, health |-> v.health + 1]
    [] kind = "custom"   -> NoVersion
    [] OTHER             -> v

\* Mutant: load and store instead of fetch_add, with the store at the send.
TakeSeqUnowned(t) ==
  /\ taskPc[t] = "idle" /\ seq < MaxSeq
  /\ seq' = IF \E o \in Tasks \ {t} : taskPc[o] # "idle" THEN seq ELSE seq + 1
  /\ frame' = [frame EXCEPT ![t] = [seq |-> seq', by |-> t, version |-> NoVersion]]
  /\ \E kind \in Updates : taskPc' = [taskPc EXCEPT ![t] = kind]
  /\ UNCHANGED <<version, channel, receiverVars, customs>>

\* fetch_add: the task now owns a number.
TakeSeq(t) ==
  /\ taskPc[t] = "idle" /\ seq < MaxSeq
  /\ seq' = seq + 1
  /\ frame' = [frame EXCEPT ![t] = [seq |-> seq + 1, by |-> t, version |-> NoVersion]]
  /\ \E kind \in Updates : taskPc' = [taskPc EXCEPT ![t] = kind]
  /\ UNCHANGED <<version, channel, receiverVars, customs>>

\* Mutant: the frame carries the version that was there before.
UpdateAfterwards(t) ==
  /\ taskPc[t] \notin {"idle", "none", "send"}
  /\ version' = Updated(version, taskPc[t])
  /\ frame' = [frame EXCEPT ![t].version = version]
  /\ customs' = (customs \/ taskPc[t] = "custom")
  /\ taskPc' = [taskPc EXCEPT ![t] = "send"]
  /\ UNCHANGED <<seq, channel, receiverVars>>

\* broadcast_with_state holds the lock of the version while it changes it and
\* copies it into the frame.
Update(t) ==
  /\ taskPc[t] \notin {"idle", "none", "send"}
  /\ version' = Updated(version, taskPc[t])
  /\ frame' = [frame EXCEPT ![t].version = version']
  /\ customs' = (customs \/ taskPc[t] = "custom")
  /\ taskPc' = [taskPc EXCEPT ![t] = "send"]
  /\ UNCHANGED <<seq, channel, receiverVars>>

\* send: without a receiver the frame is gone.
Send(t) ==
  /\ taskPc[t] \in {"none", "send"}
  /\ channel' = IF \E r \in Receivers : cursor[r] # 0 THEN Append(channel, frame[t]) ELSE channel
  /\ taskPc' = [taskPc EXCEPT ![t] = "idle"]
  /\ UNCHANGED <<seq, version, frame, receiverVars, customs>>

Subscribe(r) ==
  /\ cursor[r] = 0
  /\ cursor' = [cursor EXCEPT ![r] = Len(channel) + 1]
  /\ UNCHANGED <<seq, version, taskPc, frame, channel, lagged, received, customs>>

Oldest == IF Len(channel) > Capacity THEN Len(channel) - Capacity + 1 ELSE 1

Recv(r) ==
  /\ cursor[r] # 0 /\ cursor[r] >= Oldest /\ cursor[r] <= Len(channel)
  /\ received' = [received EXCEPT ![r] = Append(@, channel[cursor[r]])]
  /\ cursor' = [cursor EXCEPT ![r] = @ + 1]
  /\ UNCHANGED <<seq, version, taskPc, frame, channel, lagged, customs>>

\* The receiver is told that it missed frames, and goes on with the oldest one.
Lag(r) ==
  /\ cursor[r] # 0 /\ cursor[r] < Oldest
  /\ lagged' = lagged \cup {r}
  /\ cursor' = [cursor EXCEPT ![r] = Oldest]
  /\ UNCHANGED <<seq, version, taskPc, frame, channel, received, customs>>

EventNext ==
  \/ \E t \in Tasks : TakeSeq(t) \/ Update(t) \/ Send(t)
  \/ \E r \in Receivers : Subscribe(r) \/ Recv(r) \/ Lag(r)

EventSpec == EventInit /\ [][EventNext]_eventVars

-----------------------------------------------------------------------------

EventTypeOK ==
  /\ seq \in 0..MaxSeq /\ version \in StateVersion
  /\ taskPc \in [Tasks -> Updates \cup {"idle", "send"}]
  /\ frame \in [Tasks -> EventFrame]
  /\ channel \in Seq(EventFrame) /\ received \in [Receivers -> Seq(EventFrame)]
  /\ cursor \in [Receivers -> Nat] /\ lagged \subseteq Receivers

\* A number names one event, and what one task broadcasts arrives in its order
\* under increasing numbers, though tasks overtake each other between taking a
\* number and sending.
NumbersName ==
  \A r \in Receivers : \A j, k \in DOMAIN received[r] : j < k =>
    /\ received[r][j].seq # received[r][k].seq
    /\ received[r][j].by = received[r][k].by => received[r][j].seq < received[r][k].seq

Sum(v) == v.presence + v.health
Quiet == \A t \in Tasks : taskPc[t] = "idle"

\* A client that keeps the greatest version it was sent is up to date as soon
\* as nothing is on its way, if it listened from the first frame on, missed
\* none and nobody replaced the version: no change of the state stays untold,
\* in whatever order the frames came.
GreatestVersionIsCurrent ==
  \A r \in Receivers :
    Quiet /\ ~customs /\ Len(received[r]) = seq =>
      /\ version # NoVersion => \E k \in DOMAIN received[r] : received[r][k].version = version
      /\ \A k \in DOMAIN received[r] : Sum(received[r][k].version) <= Sum(version)

\* Sequence numbers as the module's comment states them.
SeqIsMonotonic ==
  \A r \in Receivers : \A j, k \in DOMAIN received[r] :
    j < k => received[r][j].seq < received[r][k].seq
=============================================================================

---------------------------- MODULE CommandQueue ----------------------------
(***************************************************************************)
(* The lane-based command queue of claw-dispatch.                          *)
(*                                                                         *)
(* A lane of the queue is a record in a map: a tokio semaphore, a          *)
(* cancellation token that is a child of the queue's root token, and a     *)
(* counter of pending commands.  Clearing a lane cancels the token and     *)
(* puts a new record into the map, so a lane name has a sequence of        *)
(* *incarnations*; a command keeps the incarnation it looked up, whatever  *)
(* happens to the map afterwards.                                          *)
(*                                                                         *)
(* A command is one call of enqueue_command_in_lane, driven by polls of    *)
(* its future.  A poll of one of its two biased select!s first looks at    *)
(* the token and then polls the other branch; other tasks may run between  *)
(* the two, so they are two steps here.                                    *)
(*                                                                         *)
(* The semaphore is tokio's: a released permit is handed to the waiter at  *)
(* the head of a FIFO queue, or goes back to the counter if nobody waits.  *)
(***************************************************************************)
EXTENDS Naturals, Sequences, FiniteSets

CONSTANTS
  Cmds,       \* calls of enqueue_command_in_lane
  Droppable,  \* the calls whose caller may drop the future before it is done
  Lanes,      \* lane names
  MainLane,   \* MAIN_LANE
  Widths,     \* the concurrency limits callers give to add_lane
  MaxIncs     \* bound: lane incarnations created in a behaviour

ASSUME QueueAssumption ==
  /\ IsFiniteSet(Cmds)
  /\ Droppable \subseteq Cmds
  /\ MainLane \in Lanes
  /\ Widths \subseteq Nat
  /\ MaxIncs \in Nat \ {0}

VARIABLES
  lanes,          \* the map: lane name -> its incarnation, or NoInc
  created,        \* number of incarnations created so far
  width,          \* Lane::concurrency of each incarnation
  permits,        \* permits its semaphore has to give
  waiters,        \* the semaphore's FIFO queue of waiting commands
  pending,        \* Lane::pending of each incarnation
  cancelled,      \* incarnations whose own token was cancelled (clear_lane)
  rootCancelled,  \* whether the root token was cancelled (drain)
  pc,             \* where each call stands
  inc,            \* the incarnation each call looked up
  granted         \* waiters the semaphore has handed a permit, not yet polled

laneVars == <<lanes, created, width>>
semVars  == <<permits, waiters, granted>>
vars == <<lanes, created, width, permits, waiters, pending, cancelled,
          rootCancelled, pc, inc, granted>>

Incs  == 1..MaxIncs
NoInc == 0

\* "snapshot": holds the lane's parts, has not counted itself yet.
\* "waiting" / "polling": in the first select!, between polls / past the
\*   token's check.  "holding" / "executing": the same for the second select!.
Settled == {"done", "cleared", "nolane", "dropped"}
PCs == {"idle", "snapshot", "waiting", "polling", "holding", "executing"}
         \cup Settled

\* The token of incarnation i is cancelled: by itself or through its parent.
Cancelled(i) == rootCancelled \/ i \in cancelled

\* A call owns a permit of its incarnation's semaphore.
Owns(c) == pc[c] \in {"holding", "executing"} \/ c \in granted

\* A call is in waiters' queue of its incarnation.
Queued(c) == \E k \in DOMAIN waiters[inc[c]] : waiters[inc[c]][k] = c

\* Only the woken are polled: the first poll, a permit handed over, the token.
Woken(c) == ~Queued(c) \/ c \in granted \/ Cancelled(inc[c])

-----------------------------------------------------------------------------
(* The semaphore (tokio), as the queue uses it.                            *)

\* Mutant: the permit only goes back to the counter, no waiter is woken.
ReleaseWakesNobody(c) ==
  /\ permits' = [permits EXCEPT ![inc[c]] = @ + 1]
  /\ granted' = granted \ {c}
  /\ UNCHANGED waiters

\* Mutant: the permit is handed over and goes back to the counter as well.
ReleaseTwice(c) ==
  LET i == inc[c] IN
  /\ permits' = [permits EXCEPT ![i] = @ + 1]
  /\ granted' = (granted \ {c})
                  \cup (IF waiters[i] = <<>> THEN {} ELSE {Head(waiters[i])})
  /\ waiters' = [waiters EXCEPT ![i] = IF @ = <<>> THEN @ ELSE Tail(@)]

\* Mutant: the permit goes to the waiter that came last.
ReleaseToLast(c) ==
  LET i == inc[c]
      q == waiters[i]
  IN IF q = <<>>
       THEN /\ permits' = [permits EXCEPT ![i] = @ + 1]
            /\ granted' = granted \ {c}
            /\ UNCHANGED waiters
       ELSE /\ granted' = (granted \ {c}) \cup {q[Len(q)]}
            /\ waiters' = [waiters EXCEPT ![i] = SubSeq(q, 1, Len(q) - 1)]
            /\ UNCHANGED permits

\* c's permit goes to the first waiter, if there is one.
Release(c) ==
  LET i == inc[c] IN
  IF waiters[i] = <<>>
    THEN /\ permits' = [permits EXCEPT ![i] = @ + 1]
         /\ granted' = granted \ {c}
         /\ UNCHANGED waiters
    ELSE /\ granted' = (granted \ {c}) \cup {Head(waiters[i])}
         /\ waiters' = [waiters EXCEPT ![i] = Tail(@)]
         /\ UNCHANGED permits

\* Mutant: a waiter that leaves after it was handed a permit keeps it.
LeaveSemaphoreLeaks(c) ==
  LET q == waiters[inc[c]] IN
  /\ granted' = granted \ {c}
  /\ waiters' = [waiters EXCEPT ![inc[c]] = SelectSeq(q, LAMBDA d : d # c)]
  /\ UNCHANGED permits

\* Mutant: a waiter that leaves stays in the queue.
LeaveSemaphoreStays(c) ==
  \/ /\ c \in granted
     /\ Release(c)
  \/ /\ c \notin granted
     /\ UNCHANGED semVars

\* The acquire future of c is dropped: out of the queue, or its permit back.
LeaveSemaphore(c) ==
  LET i == inc[c]
      q == waiters[i]
  IN \/ /\ c \in granted
        /\ Release(c)
     \/ /\ c \notin granted
        /\ \E k \in DOMAIN q :
             /\ q[k] = c
             /\ waiters' = [waiters EXCEPT
                              ![i] = SubSeq(q, 1, k-1) \o SubSeq(q, k+1, Len(q))]
        /\ UNCHANGED <<permits, granted>>
     \/ /\ c \notin granted
        /\ ~Queued(c)
        /\ UNCHANGED semVars

-----------------------------------------------------------------------------
(* Lane management.                                                        *)

\* Lane::new under the map's write lock; a child of a cancelled root is born
\* cancelled, which Cancelled covers.
NewLane(l, w) ==
  /\ created < MaxIncs
  /\ created' = created + 1
  /\ lanes'   = [lanes EXCEPT ![l] = created']
  /\ width'   = [width EXCEPT ![created'] = w]
  /\ permits' = [permits EXCEPT ![created'] = w]
  /\ UNCHANGED <<waiters, granted, pending, pc, inc>>

\* add_lane; on a lane that exists it returns without a change.
AddLane(l, w) ==
  /\ lanes[l] = NoInc
  /\ NewLane(l, w)
  /\ UNCHANGED <<cancelled, rootCancelled>>

\* clear_lane; it is an error on a lane that does not exist.
ClearLane(l) ==
  /\ lanes[l] # NoInc
  /\ cancelled' = cancelled \cup {lanes[l]}
  /\ NewLane(l, width[lanes[l]])
  /\ UNCHANGED rootCancelled

\* drain
Drain ==
  /\ ~rootCancelled
  /\ rootCancelled' = TRUE
  /\ UNCHANGED <<laneVars, semVars, pending, cancelled, pc, inc>>

-----------------------------------------------------------------------------
(* One call of enqueue_command_in_lane.                                    *)

Goto(c, label) == pc' = [pc EXCEPT ![c] = label]

\* The snapshot of the lane under the read lock.
Lookup(c, l) ==
  /\ pc[c] = "idle"
  /\ \/ /\ lanes[l] = NoInc
        /\ Goto(c, "nolane")
        /\ UNCHANGED inc
     \/ /\ lanes[l] # NoInc
        /\ inc' = [inc EXCEPT ![c] = lanes[l]]
        /\ Goto(c, "snapshot")
  /\ UNCHANGED <<laneVars, semVars, pending, cancelled, rootCancelled>>

\* Mutant: the call does not count itself.
CountForgotten(c) ==
  /\ pc[c] = "snapshot"
  /\ Goto(c, "waiting")
  /\ UNCHANGED <<laneVars, semVars, pending, cancelled, rootCancelled, inc>>

\* pending.fetch_add
Count(c) ==
  /\ pc[c] = "snapshot"
  /\ pending' = [pending EXCEPT ![inc[c]] = @ + 1]
  /\ Goto(c, "waiting")
  /\ UNCHANGED <<laneVars, semVars, cancelled, rootCancelled, inc>>

\* First select!, the token's branch: not cancelled, poll the semaphore next.
CheckWaiting(c) ==
  /\ pc[c] = "waiting"
  /\ Woken(c)
  /\ ~Cancelled(inc[c])
  /\ Goto(c, "polling")
  /\ UNCHANGED <<laneVars, semVars, pending, cancelled, rootCancelled, inc>>

\* First select!, the token's branch: cancelled.
RejectWaiting(c) ==
  /\ pc[c] = "waiting"
  /\ Cancelled(inc[c])
  /\ pending' = [pending EXCEPT ![inc[c]] = @ - 1]
  /\ LeaveSemaphore(c)
  /\ Goto(c, "cleared")
  /\ UNCHANGED <<laneVars, cancelled, rootCancelled, inc>>

\* First select!, the semaphore's branch.
Acquire(c) ==
  LET i == inc[c] IN
  /\ pc[c] = "polling"
  /\ \/ /\ c \in granted
        /\ granted' = granted \ {c}
        /\ Goto(c, "holding")
        /\ UNCHANGED <<permits, waiters>>
     \/ /\ c \notin granted
        /\ permits[i] > 0
        /\ permits' = [permits EXCEPT ![i] = @ - 1]
        /\ Goto(c, "holding")
        /\ UNCHANGED <<waiters, granted>>
     \/ /\ c \notin granted
        /\ permits[i] = 0
        /\ waiters' = [waiters EXCEPT ![i] = Append(@, c)]
        /\ Goto(c, "waiting")
        /\ UNCHANGED <<permits, granted>>
  /\ UNCHANGED <<laneVars, pending, cancelled, rootCancelled, inc>>

\* Second select!, the token's branch: not cancelled, poll the command next.
CheckRunning(c) ==
  /\ pc[c] = "holding"
  /\ ~Cancelled(inc[c])
  /\ Goto(c, "executing")
  /\ UNCHANGED <<laneVars, semVars, pending, cancelled, rootCancelled, inc>>

\* Mutant: the cancelled call does not take itself off the counter.
RejectRunningUncounted(c) ==
  /\ pc[c] = "holding"
  /\ Cancelled(inc[c])
  /\ Release(c)
  /\ Goto(c, "cleared")
  /\ UNCHANGED <<laneVars, pending, cancelled, rootCancelled, inc>>

\* Mutant: the lane's token is not a child of the root token.
RejectRunningOrphan(c) ==
  /\ pc[c] = "holding"
  /\ inc[c] \in cancelled
  /\ pending' = [pending EXCEPT ![inc[c]] = @ - 1]
  /\ Release(c)
  /\ Goto(c, "cleared")
  /\ UNCHANGED <<laneVars, cancelled, rootCancelled, inc>>

\* Second select!, the token's branch: cancelled; the command is dropped.
RejectRunning(c) ==
  /\ pc[c] = "holding"
  /\ Cancelled(inc[c])
  /\ pending' = [pending EXCEPT ![inc[c]] = @ - 1]
  /\ Release(c)
  /\ Goto(c, "cleared")
  /\ UNCHANGED <<laneVars, cancelled, rootCancelled, inc>>

\* Second select!, the command's branch: the command is not ready yet.
Yield(c) ==
  /\ pc[c] = "executing"
  /\ Goto(c, "holding")
  /\ UNCHANGED <<laneVars, semVars, pending, cancelled, rootCancelled, inc>>

\* Second select!, the command's branch: the command returned.
Finish(c) ==
  /\ pc[c] = "executing"
  /\ pending' = [pending EXCEPT ![inc[c]] = @ - 1]
  /\ Release(c)
  /\ Goto(c, "done")
  /\ UNCHANGED <<laneVars, cancelled, rootCancelled, inc>>

\* The caller drops the future at one of its awaits: the acquire future and
\* the permit clean up after themselves, pending is not decremented.
DropCall(c) ==
  /\ c \in Droppable
  /\ \/ pc[c] = "waiting" /\ LeaveSemaphore(c)
     \/ pc[c] = "holding" /\ Release(c)
  /\ Goto(c, "dropped")
  /\ UNCHANGED <<laneVars, pending, cancelled, rootCancelled, inc>>

-----------------------------------------------------------------------------
\* CommandQueue::new: the main lane with one permit.
Init ==
  /\ lanes = [l \in Lanes |-> IF l = MainLane THEN 1 ELSE NoInc]
  /\ created = 1
  /\ width   = [i \in Incs |-> IF i = 1 THEN 1 ELSE 0]
  /\ permits = [i \in Incs |-> IF i = 1 THEN 1 ELSE 0]
  /\ waiters = [i \in Incs |-> <<>>]
  /\ pending = [i \in Incs |-> 0]
  /\ cancelled = {}
  /\ rootCancelled = FALSE
  /\ pc  = [c \in Cmds |-> "idle"]
  /\ inc = [c \in Cmds |-> 1]
  /\ granted = {}

Poll(c) ==
  \/ Count(c)
  \/ CheckWaiting(c)
  \/ RejectWaiting(c)
  \/ Acquire(c)
  \/ CheckRunning(c)
  \/ RejectRunning(c)
  \/ Yield(c)
  \/ Finish(c)

Next ==
  \/ \E l \in Lanes, w \in Widths : AddLane(l, w)
  \/ \E l \in Lanes : ClearLane(l)
  \/ Drain
  \/ \E c \in Cmds, l \in Lanes : Lookup(c, l)
  \/ \E c \in Cmds : Poll(c)
  \/ \E c \in Cmds : DropCall(c)

\* tokio polls every woken task again.
Spec == Init /\ [][Next]_vars /\ \A c \in Cmds : WF_vars(Poll(c))

-----------------------------------------------------------------------------
(* Invariants.                                                             *)

TypeOK ==
  /\ lanes \in [Lanes -> Incs \cup {NoInc}]
  /\ created \in Incs
  /\ width \in [Incs -> Nat]
  /\ permits \in [Incs -> Nat]
  /\ waiters \in [Incs -> Seq(Cmds)]
  /\ pending \in [Incs -> Nat]
  /\ cancelled \subseteq Incs
  /\ rootCancelled \in BOOLEAN
  /\ pc \in [Cmds -> PCs]
  /\ inc \in [Cmds -> Incs]
  /\ granted \subseteq Cmds

Owners(i)  == {c \in Cmds : inc[c] = i /\ Owns(c)}
Running(i) == {c \in Cmds : inc[c] = i /\ pc[c] \in {"holding", "executing"}}

\* No permit is lost or made up, whatever clears, drains, drops and hand-overs
\* of permits do: the permits of an incarnation and its owners add up to the
\* lane's concurrency.
PermitsConserved ==
  \A i \in 1..created : permits[i] + Cardinality(Owners(i)) = width[i]

\* A lane runs at most as many commands of one incarnation as its concurrency:
\* "wait for an available permit before running".
WidthRespected == \A i \in 1..created : Cardinality(Running(i)) <= width[i]

\* A permit never sits in a semaphore while somebody waits for it, so a
\* newcomer cannot overtake the queue and no waiter sleeps beside a permit.
NoIdlePermit == \A i \in Incs : permits[i] > 0 => waiters[i] = <<>>

\* pending counts the commands waiting or executing in the incarnation, and
\* those whose caller dropped the future before it was done.
Counted(i) == {c \in Cmds : inc[c] = i /\
                 pc[c] \in {"waiting", "polling", "holding", "executing", "dropped"}}
PendingCounts == \A i \in Incs : pending[i] = Cardinality(Counted(i))

\* A waiter sleeps: whoever is in a semaphore's queue is there once, in the
\* queue of the incarnation it looked up, between polls, and holds no permit;
\* whoever was handed a permit has yet to pick it up.
WaitersSleep ==
  /\ \A i \in Incs : \A k \in DOMAIN waiters[i] :
       /\ inc[waiters[i][k]] = i
       /\ pc[waiters[i][k]] = "waiting"
       /\ waiters[i][k] \notin granted
       /\ \A j \in DOMAIN waiters[i] : waiters[i][j] = waiters[i][k] => j = k
  /\ \A c \in granted : pc[c] \in {"waiting", "polling"}

\* The books of a lane balance: its permits, its width and its count.
BooksBalance == PermitsConserved /\ WidthRespected /\ PendingCounts

\* Nobody sleeps beside a free permit, and whoever waits will be found.
QueueIsSound == NoIdlePermit /\ WaitersSleep

\* The map and the calls only know incarnations that were created.
KnownIncs ==
  /\ \A l \in Lanes : lanes[l] <= created
  /\ \A c \in Cmds : inc[c] <= created

-----------------------------------------------------------------------------
(* Action properties.                                                      *)

\* FIFO: a command that gets a permit of an incarnation was ahead of those
\* left in the queue (it was at the head, or nobody was waiting).
FirstComeFirstServed ==
  [][\A c, d \in Cmds :
       /\ ~Owns(c) /\ Owns(c)'
       /\ c # d /\ inc[d] = inc[c] /\ Queued(d) /\ Queued(d)'
       => /\ Queued(c)
          /\ \A j, k \in DOMAIN waiters[inc[c]] :
               waiters[inc[c]][j] = c /\ waiters[inc[c]][k] = d => j < k]_vars

-----------------------------------------------------------------------------
(* Liveness.                                                               *)

Counting(c) == pc[c] \notin Settled \cup {"idle"}

\* A cleared or drained lane lets go of every command it had, even if no
\* command ever returns by itself.
CancelSettles ==
  \A c \in Cmds : Counting(c) /\ Cancelled(inc[c]) ~> pc[c] \in Settled

\* If every command returns after finitely many polls, no call waits forever.
EveryCallSettles ==
  (\A c \in Cmds : SF_vars(Finish(c)))
    => \A c \in Cmds : Counting(c) ~> pc[c] \in Settled

CallsSettle == CancelSettles /\ EveryCallSettles

-----------------------------------------------------------------------------
(* The contract.                                                           *)

PhaseOf(c) ==
  CASE pc[c] = "idle" -> "new"
    [] pc[c] \in {"snapshot", "waiting", "polling"} -> "admitted"
    [] pc[c] \in {"holding", "executing"} -> "in_slot"
    [] pc[c] = "done" -> "completed"
    [] pc[c] = "cleared" -> "turned_away"
    [] pc[c] = "nolane" -> "refused"
    [] pc[c] = "dropped" -> "abandoned"

Contract == INSTANCE LaneContract WITH
  Calls <- Cmds, LaneNames <- Lanes, Generations <- Incs, Slots <- Widths,
  open <- lanes, slots <- width, closed <- cancelled, shut <- rootCancelled,
  phase <- [c \in Cmds |-> PhaseOf(c)], gen <- inc

\* The queue keeps the contract: slots are never overbooked, only a clear or a
\* drain turns an admitted call away, and they turn away all that remain.
KeepsContract == Contract!CSpec

=============================================================================

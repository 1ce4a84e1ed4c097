--------------------------- MODULE ChannelManager ---------------------------
(***************************************************************************)
(* The channel manager of claw-channels, the one the application runs: the *)
(* life of one channel account under start_account, the three stops,       *)
(* reset_restart_attempts, stop_all, and the restart loops that the starts *)
(* spawn.  Accounts share nothing but the manager's token.                 *)
(*                                                                         *)
(* Operations are synchronous and hold the state lock throughout, so each  *)
(* is one step.  A restart loop takes one step per section of that lock    *)
(* and per await.  The gateway adapter runs until it fails, ends by        *)
(* itself, or notices its cancelled token.                                 *)
(***************************************************************************)
EXTENDS Naturals, FiniteSets

CONSTANTS
  Starts,       \* calls of start_account; each names its token and its loop
  Adapterless,  \* those whose plugin may answer that it has no gateway adapter
  MaxFailures   \* bound: consecutive failures that are told apart

ASSUME ChannelManagerAssumption ==
  /\ IsFiniteSet(Starts)
  /\ Adapterless \subseteq Starts
  /\ MaxFailures \in Nat \ {0}

NoStart == "none"
ASSUME NoStartAssumption == NoStart \notin Starts

VARIABLES
  status,     \* AccountState::status, or "absent" before the first start
  attempts,   \* AccountState::restart_attempts
  token,      \* AccountState::cancel: the start whose token the entry holds
  down,       \* whether the manager's token is cancelled
  fired,      \* starts whose own token was cancelled
  pc,         \* where each restart loop stands
  failed,     \* whether the loop's adapter ended with an error
  delay,      \* the exponent of the loop's last backoff
  failures,   \* history: consecutive failures of the loop
  doomed,     \* history: loops cancelled elsewhere than past their check
  latest,     \* history: the last start
  asked       \* history: whether a stop was asked for since

entryVars == <<status, attempts, token>>
tokenVars == <<down, fired, doomed, latest, asked>>
loopVars  == <<pc, failed, delay, failures>>
vars == <<status, attempts, token, down, fired, pc, failed, delay, failures,
          doomed, latest, asked>>

Statuses == {"absent", "starting", "running", "stopped", "errored",
             "manually_stopped", "logged_out"}

PCs == {"none", "top", "mark", "reset", "running", "exited", "recheck",
        "increment", "backoff", "ended"}
Live(t) == pc[t] \notin {"none", "ended"}

\* Past the check at the head of the loop, and about to call the adapter.
Committed == {"mark", "reset"}

Goto(t, label) == pc' = [pc EXCEPT ![t] = label]

\* Mutant: the account's token is no child of the manager's.
CancelledAlone(t) == t \in fired

\* account_cancel or its parent.
Cancelled(t) == down \/ t \in fired

-----------------------------------------------------------------------------
(* The operations.                                                         *)

\* Mutant: an entry that is there keeps its token.
StartKeepsToken(t) ==
  /\ pc[t] = "none"
  /\ status' = "starting"
  /\ token' = IF status = "absent" THEN t ELSE token
  /\ latest' = t
  /\ asked' = FALSE
  /\ Goto(t, "top")
  /\ UNCHANGED <<attempts, down, fired, failed, delay, failures, doomed>>

\* start_account replaces the token of the entry and spawns a loop, whether or
\* not one is running.
StartAccount(t) ==
  /\ pc[t] = "none"
  /\ status' = "starting"
  /\ token' = t
  /\ latest' = t
  /\ asked' = FALSE
  /\ Goto(t, "top")
  /\ UNCHANGED <<attempts, down, fired, failed, delay, failures, doomed>>

\* stop_account, stop_account_manual and mark_channel_logged_out.
Stop(how) ==
  /\ status # "absent"
  /\ status' = how
  /\ fired' = fired \cup {token}
  /\ doomed' = doomed \cup {t \in {token} : pc[t] \notin Committed}
  /\ asked' = TRUE
  /\ UNCHANGED <<attempts, token, down, loopVars, latest>>

ResetAttempts ==
  /\ attempts' = 0
  /\ UNCHANGED <<status, token, tokenVars, loopVars>>

\* stop_all leaves the entries alone.
StopAll ==
  /\ down' = TRUE
  /\ doomed' = doomed \cup {t \in Starts : Live(t) /\ pc[t] \notin Committed}
  /\ UNCHANGED <<entryVars, fired, loopVars, latest, asked>>

-----------------------------------------------------------------------------
(* run_account_loop.                                                       *)

\* Mutant: only the status is looked at.
LoopHeadByStatus(t) ==
  /\ pc[t] = "top"
  /\ \/ /\ status = "manually_stopped"
        /\ Goto(t, "ended")
        /\ UNCHANGED status
     \/ /\ status # "manually_stopped"
        /\ t \in Adapterless
        /\ status' = "errored"
        /\ Goto(t, "ended")
     \/ /\ status # "manually_stopped"
        /\ Goto(t, "mark")
        /\ UNCHANGED status
  /\ UNCHANGED <<attempts, token, tokenVars, failed, delay, failures>>

\* The checks at the head of the loop.
LoopHead(t) ==
  /\ pc[t] = "top"
  /\ \/ /\ Cancelled(t) \/ status = "manually_stopped"
        /\ Goto(t, "ended")
        /\ UNCHANGED status
     \/ /\ ~Cancelled(t) /\ status # "manually_stopped"
        /\ t \in Adapterless
        /\ status' = "errored"
        /\ Goto(t, "ended")
     \/ /\ ~Cancelled(t) /\ status # "manually_stopped"
        /\ Goto(t, "mark")
        /\ UNCHANGED status
  /\ UNCHANGED <<attempts, token, tokenVars, failed, delay, failures>>

\* The status becomes Running, whatever it is by now.
MarkRunning(t) ==
  /\ pc[t] = "mark"
  /\ status' = "running"
  /\ Goto(t, "reset")
  /\ UNCHANGED <<attempts, token, tokenVars, failed, delay, failures>>

\* Mutant: the counter is not reset.
CallAdapterOnly(t) ==
  /\ pc[t] = "reset"
  /\ Goto(t, "running")
  /\ UNCHANGED <<entryVars, tokenVars, failed, delay, failures>>

\* reset_restart_attempts, then the adapter is called.
CallAdapter(t) ==
  /\ pc[t] = "reset"
  /\ attempts' = 0
  /\ Goto(t, "running")
  /\ UNCHANGED <<status, token, tokenVars, failed, delay, failures>>

AdapterEnds(t) ==
  /\ pc[t] = "running"
  /\ \E e \in BOOLEAN : failed' = [failed EXCEPT ![t] = e]
  /\ Goto(t, "exited")
  /\ UNCHANGED <<entryVars, tokenVars, delay, failures>>

\* Mutant: a clean exit leaves the status as it is.
SetFinalQuietly(t) ==
  /\ pc[t] = "exited"
  /\ status' = IF failed[t] THEN "errored" ELSE status
  /\ failures' = [failures EXCEPT ![t] =
                    IF failed[t] /\ @ < MaxFailures THEN @ + 1 ELSE @]
  /\ failed' = [failed EXCEPT ![t] = FALSE]
  /\ Goto(t, IF failed[t] THEN "recheck" ELSE "ended")
  /\ UNCHANGED <<attempts, token, tokenVars, delay>>

\* The status after the adapter has ended, whatever it is by now; the result
\* and, after the sleep, the delay are gone.
SetFinal(t) ==
  /\ pc[t] = "exited"
  /\ status' = IF failed[t] THEN "errored" ELSE "stopped"
  /\ failures' = [failures EXCEPT ![t] =
                    IF failed[t] /\ @ < MaxFailures THEN @ + 1 ELSE @]
  /\ failed' = [failed EXCEPT ![t] = FALSE]
  /\ Goto(t, IF failed[t] THEN "recheck" ELSE "ended")
  /\ UNCHANGED <<attempts, token, tokenVars, delay>>

\* The checks before a restart.
Recheck(t) ==
  /\ pc[t] = "recheck"
  /\ Goto(t, IF Cancelled(t) \/ status = "manually_stopped" THEN "ended" ELSE "increment")
  /\ UNCHANGED <<entryVars, tokenVars, failed, delay, failures>>

\* The delay is base * factor^(attempts - 1).
Increment(t) ==
  /\ pc[t] = "increment"
  /\ attempts' = attempts + 1
  /\ delay' = [delay EXCEPT ![t] = attempts]
  /\ Goto(t, "backoff")
  /\ UNCHANGED <<status, token, tokenVars, failed, failures>>

\* sleep_with_abort: when the delay is over and the token cancelled, either
\* branch of the select! may be taken.
SleepOver(t) ==
  /\ pc[t] = "backoff"
  /\ delay' = [delay EXCEPT ![t] = 0]
  /\ Goto(t, "top")
  /\ UNCHANGED <<entryVars, tokenVars, failed, failures>>

SleepAborted(t) ==
  /\ pc[t] = "backoff"
  /\ Cancelled(t)
  /\ delay' = [delay EXCEPT ![t] = 0]
  /\ Goto(t, "ended")
  /\ UNCHANGED <<entryVars, tokenVars, failed, failures>>

-----------------------------------------------------------------------------
Init ==
  /\ status = "absent"
  /\ attempts = 0
  /\ token = NoStart
  /\ down = FALSE
  /\ fired = {}
  /\ pc = [t \in Starts |-> "none"]
  /\ failed = [t \in Starts |-> FALSE]
  /\ delay = [t \in Starts |-> 0]
  /\ failures = [t \in Starts |-> 0]
  /\ doomed = {}
  /\ latest = NoStart
  /\ asked = FALSE

LoopStep(t) ==
  \/ LoopHead(t)
  \/ MarkRunning(t)
  \/ CallAdapter(t)
  \/ SetFinal(t)
  \/ Recheck(t)
  \/ Increment(t)
  \/ SleepOver(t)
  \/ SleepAborted(t)

Next ==
  \/ \E t \in Starts : StartAccount(t) \/ LoopStep(t) \/ AdapterEnds(t)
  \/ \E how \in {"stopped", "manually_stopped", "logged_out"} : Stop(how)
  \/ ResetAttempts
  \/ StopAll

\* Spawned loops run and delays pass; an adapter whose token is cancelled
\* returns, a healthy one need not.
Spec ==
  /\ Init /\ [][Next]_vars
  /\ \A t \in Starts : WF_vars(LoopStep(t)) /\ WF_vars(Cancelled(t) /\ AdapterEnds(t))

-----------------------------------------------------------------------------
(* Invariants.                                                             *)

\* In particular the counter of restart attempts never exceeds the number of
\* loops.
TypeOK ==
  /\ status \in Statuses
  /\ attempts \in 0..Cardinality(Starts)
  /\ token \in Starts \cup {NoStart}
  /\ down \in BOOLEAN
  /\ fired \subseteq Starts
  /\ pc \in [Starts -> PCs]
  /\ failed \in [Starts -> BOOLEAN]
  /\ delay \in [Starts -> 0..Cardinality(Starts)]
  /\ failures \in [Starts -> 0..MaxFailures]
  /\ doomed \subseteq Starts
  /\ latest \in Starts \cup {NoStart}
  /\ asked \in BOOLEAN

\* A snapshot that says "running" is right: whatever stops, restarts and other
\* loops write to the entry, some loop is in its adapter, or about to call it
\* or to record how it ended.
RunningIsLive ==
  status = "running" => \E t \in Starts : pc[t] \in {"reset", "running", "exited"}

\* No stop comes too late for a loop that waits, decides or sleeps: once its
\* token is cancelled there, it never calls the adapter again, though the
\* select! of the backoff may prefer the delay to the cancellation.
StopIsFinal ==
  [][\A t \in doomed : pc[t] # "running" => pc'[t] # "running"]_vars

-----------------------------------------------------------------------------
(* Liveness.                                                               *)

\* stop_all ends every loop, in whatever state it is.
StopAllEnds == \A t \in Starts : down /\ Live(t) ~> pc[t] = "ended"

\* A stop reaches the loop of the last start, unless a new start overtakes it.
StopReachesLatest ==
  \A t \in Starts : latest = t /\ asked ~> pc[t] = "ended" \/ latest # t

\* Every stop arrives where it is meant to.
StopsArrive == StopAllEnds /\ StopReachesLatest

-----------------------------------------------------------------------------
(* What the documentation says and the code does not do.                   *)

\* "Failed accounts are automatically restarted with exponential backoff."
BackoffGrows ==
  \A t \in Starts : pc[t] = "backoff" => delay[t] + 1 >= failures[t]
=============================================================================

----------------------- MODULE GatewayChannelManager -----------------------
(***************************************************************************)
(* The channel manager of claw-gateway: the life of one channel account    *)
(* under concurrent calls of start_channel, stop_channel,                  *)
(* mark_channel_logged_out, reset_restart_attempts and shutdown.  Accounts *)
(* share nothing but the manager's token, which shutdown cancels.          *)
(*                                                                         *)
(* Every section of the accounts lock is one step; so is what an account's *)
(* task does between two awaits.  The channel has a plugin with a gateway  *)
(* adapter; the adapter runs until it fails, ends by itself, or its        *)
(* cancellation token fires.                                               *)
(***************************************************************************)
EXTENDS Naturals, FiniteSets

CONSTANTS
  Starts, Stops, Logouts, Resets, Shutdowns,  \* the calls, by operation
  Results,    \* how the adapter may end: "ok", "err"
  MaxTokens   \* bound: account tokens created

Calls == Starts \cup Stops \cup Logouts \cup Resets \cup Shutdowns
AccountTasks == Starts     \* start_channel spawns at most one task per call
Tokens == 1..MaxTokens
NoTask == "none"

ManagerAssumption ==
  /\ IsFiniteSet(Calls)
  /\ Stops \cap Shutdowns = {}
  /\ Results \subseteq {"ok", "err"}
  /\ MaxTokens \in Nat
  /\ NoTask \notin Starts

VARIABLES
  acct,        \* the account's entry in the map
  down,        \* whether the manager's token is cancelled
  tokens,      \* number of account tokens created
  fired,       \* account tokens cancelled by themselves
  pc,          \* where each call stands
  mine,        \* the task handle a call has in hand
  tpc,         \* where each account task stands
  ctx,         \* the token in its gateway context
  ended        \* how its adapter ended last

vars == <<acct, down, tokens, fired, pc, mine, tpc, ctx, ended>>
taskVars == <<tpc, ctx, ended>>

Statuses == {"absent", "starting", "running", "stopping", "stopped", "error", "logged_out"}

\* ManagedAccount; "absent" stands for no entry.
Absent == [status |-> "absent", token |-> 0, handle |-> NoTask,
           restarts |-> 0, manual |-> FALSE]
Known == acct.status # "absent"

\* Mutant: the account's token is not a child of the manager's.
CancelledAlone(k) == k \in fired

Cancelled(k) == down \/ k \in fired
Live(t) == tpc[t] \notin {"none", "ended"}

CallAt(c, label) == pc' = [pc EXCEPT ![c] = label]
TaskAt(t, label) == tpc' = [tpc EXCEPT ![t] = label]

-----------------------------------------------------------------------------
(* start_channel                                                           *)

\* The check under the read lock; then a token, and the account's config.
StartCheck(c) ==
  /\ pc[c] = "idle"
  /\ \/ /\ acct.status \in {"running", "starting"}
        /\ CallAt(c, "returned")
     \/ /\ acct.status \notin {"running", "starting"}
        /\ CallAt(c, "spawn")
  /\ UNCHANGED <<acct, down, tokens, fired, mine, taskVars>>

\* The task is spawned with a token of its own.
StartSpawn(c) ==
  /\ pc[c] = "spawn"
  /\ tokens < MaxTokens
  /\ tokens' = tokens + 1
  /\ ctx' = [ctx EXCEPT ![c] = tokens']
  /\ TaskAt(c, "top")
  /\ CallAt(c, "store")
  /\ UNCHANGED <<acct, down, fired, mine, ended>>

\* The entry is stored after the task was spawned; an entry that is there
\* already keeps its token.
StartStore(c) ==
  /\ pc[c] = "store"
  /\ acct' = [IF Known THEN acct ELSE [Absent EXCEPT !.token = ctx[c]]
                EXCEPT !.handle = c, !.status = "starting", !.manual = FALSE]
  /\ CallAt(c, "returned")
  /\ UNCHANGED <<down, tokens, fired, mine, taskVars>>

-----------------------------------------------------------------------------
(* stop_channel                                                            *)

StopMark(c) ==
  /\ pc[c] = "idle"
  /\ \/ /\ ~Known
        /\ CallAt(c, "returned")
        /\ UNCHANGED <<acct, fired, mine>>
     \/ /\ Known
        /\ fired' = fired \cup {acct.token}
        /\ mine' = [mine EXCEPT ![c] = acct.handle]
        /\ acct' = [acct EXCEPT !.status = "stopping", !.manual = TRUE, !.handle = NoTask]
        /\ CallAt(c, "await")
  /\ UNCHANGED <<down, tokens, taskVars>>

\* handle.await, then the final status.
StopDone(c) ==
  /\ pc[c] = "await"
  /\ mine[c] # NoTask => tpc[mine[c]] = "ended"
  /\ acct' = [acct EXCEPT !.status = "stopped"]
  /\ CallAt(c, "returned")
  /\ UNCHANGED <<down, tokens, fired, mine, taskVars>>

-----------------------------------------------------------------------------
(* mark_channel_logged_out, reset_restart_attempts, shutdown               *)

MarkLoggedOut(c) ==
  /\ pc[c] = "idle"
  /\ \/ /\ ~Known
        /\ UNCHANGED <<acct, fired>>
     \/ /\ Known
        /\ acct' = [acct EXCEPT !.status = "logged_out", !.manual = TRUE]
        /\ fired' = fired \cup {acct.token}
  /\ CallAt(c, "returned")
  /\ UNCHANGED <<down, tokens, mine, taskVars>>

\* Mutant: the counter goes down by one.
ResetDecrements(c) ==
  /\ pc[c] = "idle"
  /\ acct' = [acct EXCEPT !.restarts = @ - 1]
  /\ CallAt(c, "returned")
  /\ UNCHANGED <<down, tokens, fired, mine, taskVars>>

ResetAttempts(c) ==
  /\ pc[c] = "idle"
  /\ acct' = [acct EXCEPT !.restarts = 0]
  /\ CallAt(c, "returned")
  /\ UNCHANGED <<down, tokens, fired, mine, taskVars>>

ShutdownCancel(c) ==
  /\ pc[c] = "idle"
  /\ down' = TRUE
  /\ CallAt(c, "take")
  /\ UNCHANGED <<acct, tokens, fired, mine, taskVars>>

ShutdownTake(c) ==
  /\ pc[c] = "take"
  /\ \/ /\ ~Known
        /\ UNCHANGED <<acct, mine>>
     \/ /\ Known
        /\ mine' = [mine EXCEPT ![c] = acct.handle]
        /\ acct' = [acct EXCEPT !.status = "stopping", !.handle = NoTask]
  /\ CallAt(c, "await")
  /\ UNCHANGED <<down, tokens, fired, taskVars>>

\* The handles are awaited, then what is in the map is stopped.
ShutdownDone(c) ==
  /\ pc[c] = "await"
  /\ mine[c] # NoTask => tpc[mine[c]] = "ended"
  /\ acct' = IF Known THEN [acct EXCEPT !.status = "stopped"] ELSE acct
  /\ CallAt(c, "returned")
  /\ UNCHANGED <<down, tokens, fired, mine, taskVars>>

-----------------------------------------------------------------------------
(* run_account_loop                                                        *)

\* The head of the loop: the status becomes Running, whatever it was.
LoopTop(t) ==
  /\ tpc[t] = "top"
  /\ acct' = IF Known THEN [acct EXCEPT !.status = "running"] ELSE acct
  /\ TaskAt(t, "running")
  /\ UNCHANGED <<down, tokens, fired, pc, mine, ctx, ended>>

\* The gateway adapter returns.
AdapterEnds(t) ==
  /\ tpc[t] = "running"
  /\ \E r \in Results : ended' = [ended EXCEPT ![t] = r]
  /\ TaskAt(t, "judge")
  /\ UNCHANGED <<acct, down, tokens, fired, pc, mine, ctx>>

\* Mutant: a failure always leads to a restart.
JudgeAlwaysRestarts(t) ==
  /\ tpc[t] = "judge"
  /\ \/ /\ ~Known
        /\ TaskAt(t, "ended")
        /\ UNCHANGED acct
     \/ /\ Known
        /\ ended[t] = "ok"
        /\ acct' = [acct EXCEPT !.status = "stopped"]
        /\ TaskAt(t, "ended")
     \/ /\ Known
        /\ ended[t] = "err"
        /\ acct' = [acct EXCEPT !.status = "error", !.restarts = @ + 1]
        /\ TaskAt(t, "backoff")
  /\ UNCHANGED <<down, tokens, fired, pc, mine, ctx, ended>>

\* Whether to restart.
Judge(t) ==
  /\ tpc[t] = "judge"
  /\ \/ /\ ~Known
        /\ TaskAt(t, "ended")
        /\ UNCHANGED acct
     \/ /\ Known
        /\ ended[t] = "ok"
        /\ acct' = [acct EXCEPT !.status = "stopped"]
        /\ TaskAt(t, "ended")
     \/ /\ Known
        /\ ended[t] = "err"
        /\ acct.manual \/ down
        /\ acct' = [acct EXCEPT !.status = "error"]
        /\ TaskAt(t, "ended")
     \/ /\ Known
        /\ ended[t] = "err"
        /\ ~(acct.manual \/ down)
        /\ acct' = [acct EXCEPT !.status = "error", !.restarts = @ + 1]
        /\ TaskAt(t, "backoff")
  /\ UNCHANGED <<down, tokens, fired, pc, mine, ctx, ended>>

\* sleep_with_abort: the delay is over, there is a fresh token for the new
\* attempt (the bound leaves a token for every start still to come) ...
BackoffOver(t) ==
  /\ tpc[t] = "backoff"
  /\ tokens + Cardinality({c \in Starts : tpc[c] = "none"}) < MaxTokens
  /\ tokens' = tokens + 1
  /\ ctx' = [ctx EXCEPT ![t] = tokens']
  /\ TaskAt(t, "refresh")
  /\ UNCHANGED <<acct, down, fired, pc, mine, ended>>

\* ... or the manager's token fires.
BackoffAborted(t) ==
  /\ tpc[t] = "backoff"
  /\ down
  /\ TaskAt(t, "ended")
  /\ UNCHANGED <<acct, down, tokens, fired, pc, mine, ctx, ended>>

\* The fresh token goes into the entry.
Refresh(t) ==
  /\ tpc[t] = "refresh"
  /\ acct' = IF Known THEN [acct EXCEPT !.token = ctx[t], !.status = "starting"] ELSE acct
  /\ TaskAt(t, "top")
  /\ UNCHANGED <<down, tokens, fired, pc, mine, ctx, ended>>

-----------------------------------------------------------------------------
Init ==
  /\ acct = Absent
  /\ down = FALSE
  /\ tokens = 0
  /\ fired = {}
  /\ pc = [c \in Calls |-> "idle"]
  /\ mine = [c \in Calls |-> NoTask]
  /\ tpc = [t \in AccountTasks |-> "none"]
  /\ ctx = [t \in AccountTasks |-> 0]
  /\ ended = [t \in AccountTasks |-> "ok"]

LoopStep(t) ==
  \/ LoopTop(t)
  \/ Judge(t)
  \/ BackoffOver(t)
  \/ BackoffAborted(t)
  \/ Refresh(t)

\* A task goes on; its adapter, once its token is cancelled.
AccountStep(t) == LoopStep(t) \/ (Cancelled(ctx[t]) /\ AdapterEnds(t))

Proceed(c) ==
  \/ c \in Starts /\ (StartSpawn(c) \/ StartStore(c))
  \/ c \in Stops /\ StopDone(c)
  \/ c \in Shutdowns /\ (ShutdownTake(c) \/ ShutdownDone(c))

Next ==
  \/ \E c \in Starts : StartCheck(c)
  \/ \E c \in Stops : StopMark(c)
  \/ \E c \in Logouts : MarkLoggedOut(c)
  \/ \E c \in Resets : ResetAttempts(c)
  \/ \E c \in Shutdowns : ShutdownCancel(c)
  \/ \E c \in Calls : Proceed(c)
  \/ \E t \in AccountTasks : LoopStep(t) \/ AdapterEnds(t)

\* Calls that were made and tasks go on; delays pass; an adapter whose token
\* is cancelled returns (a healthy one need not).
Fairness ==
  /\ \A c \in Calls : WF_vars(Proceed(c))
  /\ \A t \in AccountTasks : WF_vars(AccountStep(t))

Spec == Init /\ [][Next]_vars /\ Fairness

-----------------------------------------------------------------------------
(* Invariants.                                                             *)

TypeOK ==
  /\ acct \in [status : Statuses, token : 0..MaxTokens, handle : AccountTasks \cup {NoTask},
               restarts : 0..MaxTokens, manual : BOOLEAN]
  /\ down \in BOOLEAN
  /\ tokens \in 0..MaxTokens
  /\ fired \subseteq Tokens
  /\ pc \in [Calls -> {"idle", "spawn", "store", "take", "await", "returned"}]
  /\ mine \in [Calls -> AccountTasks \cup {NoTask}]
  /\ tpc \in [AccountTasks -> {"none", "top", "running", "judge", "backoff", "refresh", "ended"}]
  /\ ctx \in [AccountTasks -> 0..MaxTokens]
  /\ ended \in [AccountTasks -> {"ok", "err"}]

\* A token is in the context of one task only, whatever starts overlap and
\* however often they are restarted: what cancels one attempt never ends
\* another (start_channel and run_account_loop make a token for each attempt).
TokensAreOwn ==
  \A t, u \in AccountTasks : t # u /\ tpc[t] # "none" /\ tpc[u] # "none" => ctx[t] # ctx[u]

-----------------------------------------------------------------------------
(* Liveness.                                                               *)

\* shutdown gets every task to end, those in a backoff and those whose start
\* overlaps with it too.
ShutdownEndsAll == \A t \in AccountTasks : down /\ Live(t) ~> ~Live(t)

\* A call of shutdown returns, though it awaits the handles it found.
ShutdownReturns == \A c \in Shutdowns : pc[c] = "take" ~> pc[c] = "returned"

\* A stop or a logout that reaches the token of a running adapter ends the
\* account's task for good: there is no further attempt, unless a start takes
\* the stop back meanwhile.  (stop_channel awaits that task.)
StopPending(t) == tpc[t] = "running" /\ acct.manual /\ Cancelled(ctx[t])
StopTaken(t) == tpc[t] = "ended" \/ ~acct.manual
StopEndsTask == \A t \in AccountTasks : StopPending(t) ~> StopTaken(t)

-----------------------------------------------------------------------------
(* What the documentation says and the code does not do.                   *)

\* "automatically restarts it ... (unless the account was manually stopped or
\* logged out)"
NoRestartWhenStopped ==
  [][\A t \in AccountTasks : tpc[t] = "refresh" /\ tpc'[t] = "top" => ~acct.manual]_vars

=============================================================================

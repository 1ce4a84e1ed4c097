---------------------------- MODULE AgentRunner ----------------------------
(***************************************************************************)
(* The agent runner of claw-agent-runtime: run_agent with its lifecycle    *)
(* and the drain of queued messages, queue_message, abort_run and          *)
(* wait_for_run_end.                                                       *)
(*                                                                         *)
(* A step is what happens between two awaits, or in one section of a lock. *)
(* Texts have no size: any history may be too long for the context window, *)
(* and any summary too long to stay whole.  Messages are taken to begin    *)
(* differently.  The model, the tools and the transcript store answer,     *)
(* fail, or ask for tools as they like.                                    *)
(***************************************************************************)
EXTENDS Naturals, Sequences, FiniteSets, SequencesExt

CONSTANTS
  Runs,       \* calls of run_agent; a call is also the name of its message
  Queued,     \* messages given to queue_message
  Sessions,   \* session keys
  Waiters,    \* calls of wait_for_run_end
  Droppable,  \* calls whose caller may drop the future (a lane is cleared)
  Parallel,   \* run_agent calls that callers keep in progress at a time
  MaxIter,    \* max_tool_iterations
  Preserved,  \* messages that the attempts of a compaction preserve: by default
              \* 10, 5, 2 and 1 (0 acts as 1: the new message always stays)
  KeepLast,   \* messages that are left where compaction fails: 20
  MaxCalls,   \* bound: tool calls in one response of the model
  Aborts      \* whether abort_run is called at all

NoRun == "none"

\* The mark that pruning leaves at the end of what it cuts.
Truncated == "... [truncated]"

RunnerAssumption ==
  /\ IsFiniteSet(Runs)
  /\ NoRun \notin Runs \cup Queued
  /\ Runs \cap Queued = {}
  /\ Droppable \subseteq Runs
  /\ Parallel \in Nat \ {0}
  /\ MaxIter \in Nat
  /\ Preserved \subseteq Nat \ {0}
  /\ KeepLast \in Nat \ {0}
  /\ MaxCalls \in Nat
  /\ Aborts \in BOOLEAN

VARIABLES
  active,      \* active_runs: session -> the call whose token the entry holds
  streaming,   \* sessions whose entry has is_streaming set
  queue,       \* message_queues
  transcript,  \* the transcript store
  pc,          \* where each call of run_agent stands
  sess,        \* its session
  msg,         \* the message of its current lifecycle
  hist,        \* history in that lifecycle
  iter,        \* iteration in that lifecycle
  calls,       \* tool calls of the last response not yet begun
  outcome,     \* outcome of that lifecycle
  result,      \* result of the call's own message: what run_agent returns
  cancelled,   \* calls whose token is cancelled
  aborting,    \* sessions with a spawned, not yet run, abort task
  wpc,         \* where each wait_for_run_end stands
  wsess,       \* its session
  arrived,     \* history: messages queue_message took, in order
  late         \* history: requests, tools and messages a call began to work on
               \* after its token was cancelled

runVars == <<pc, sess, msg, hist, iter, calls, outcome, result>>
sharedVars == <<active, streaming, queue, transcript>>
waitVars == <<wpc, wsess, arrived>>
vars == <<active, streaming, queue, transcript, pc, sess, msg, hist, iter, calls,
          outcome, result, cancelled, aborting, wpc, wsess, arrived, late>>

Messages == Runs \cup Queued

\* Entries of a history: a user message, a response with its number of tool
\* calls, a tool result, and the summary of what was removed, in which the
\* beginning of each message can be read (if it has a text).  Of a summary that
\* was cut, only the mark is known to be there.
User(m)      == [role |-> "user", of |-> m, n |-> 0]
Assistant(n) == [role |-> "assistant", of |-> NoRun, n |-> n]
Tool         == [role |-> "tool", of |-> NoRun, n |-> 0]
Summary(S)   == [role |-> "system", of |-> NoRun, n |-> 0, tells |-> S]
Cut == Summary({Truncated})
Entries == {User(m) : m \in Messages} \cup {Assistant(n) : n \in 0..MaxCalls}
             \cup {Tool} \cup {Summary(S) : S \in SUBSET (Messages \cup {Truncated})}

InLifecycle == {"load", "prompt", "loop", "ask", "stream", "tools", "execute", "save"}
PCs == {"idle", "insert", "release", "notify", "drain", "take", "reinsert",
        "busy", "done", "dropped"} \cup InLifecycle
Over == {"busy", "done", "dropped"}
InProgress(r) == pc[r] \notin Over \cup {"idle"}

Goto(r, label) == pc' = [pc EXCEPT ![r] = label]

\* The call begins a piece of work.
Works(r) == late' = IF r \in cancelled THEN [late EXCEPT ![r] = @ + 1] ELSE late

-----------------------------------------------------------------------------
(* run_agent up to its lifecycle.                                          *)

\* Phase 1: the busy check, in a section of the lock of its own.
Call(r, s) ==
  /\ pc[r] = "idle"
  /\ Cardinality({q \in Runs : InProgress(q)}) < Parallel
  /\ sess' = [sess EXCEPT ![r] = s]
  /\ Goto(r, IF active[s] # NoRun THEN "busy" ELSE "insert")
  /\ UNCHANGED <<sharedVars, msg, hist, iter, calls, outcome, result,
                 cancelled, aborting, waitVars, late>>

\* Phase 2: the entry is inserted, whatever is there by now.
Insert(r) ==
  /\ pc[r] = "insert"
  /\ active' = [active EXCEPT ![sess[r]] = r]
  /\ streaming' = streaming \ {sess[r]}
  /\ msg' = [msg EXCEPT ![r] = r]
  /\ Goto(r, "load")
  /\ UNCHANGED <<queue, transcript, sess, hist, iter, calls, outcome, result,
                 cancelled, aborting, waitVars, late>>

-----------------------------------------------------------------------------
(* Making a history fit.                                                   *)

\* The first p messages are the system messages at the head: summaries.
Heads(h, p) == /\ \A k \in 1..p : h[k].role = "system"
               /\ p < Len(h) => h[p+1].role # "system"

\* The places of the summaries that stay: one that is dropped is repeated by those
\* behind it, up to one that stays.
Stays(h, p) ==
  {at \in UNION {[1..m -> 1..p] : m \in 0..p} :
     /\ \A i, j \in DOMAIN at : i < j => at[i] < at[j]
     /\ \A k \in 1..p : \E i \in DOMAIN at :
          k <= at[i] /\ \A j \in k..at[i] : h[j] = h[at[i]]}

\* Pruning drops repeated summaries and cuts long ones, depending on sizes.  Other
\* entries are cut too, but begin as they did.
Pruned(h) ==
  UNION {{[i \in DOMAIN at |-> IF i \in C THEN Cut ELSE h[at[i]]] \o SubSeq(h, p+1, Len(h)) :
             at \in Stays(h, p), C \in SUBSET (1..p)} :
         p \in {p \in 0..Len(h) : Heads(h, p)}}

HasPendingToolCall(h) ==
  LET callers == {k \in DOMAIN h : h[k].role = "assistant" /\ h[k].n > 0} IN
  \E k \in callers :
    /\ \A j \in callers : j <= k
    /\ Cardinality({j \in DOMAIN h : j > k /\ h[j] = Tool}) < h[k].n

\* Mutant: what is removed leaves no summary.
CompactedSilently(h, p, q) == SubSeq(h, 1, p) \o SubSeq(h, Len(h) - q + 1, Len(h))

\* One attempt: between the p messages at the head and the last q, a summary.
Compacted(h, p, q) ==
  LET end == Len(h) - q
      removed == {h[k].of : k \in {k \in (p+1)..end : h[k].role = "user"}}
  IN SubSeq(h, 1, p) \o <<Summary(removed)>> \o SubSeq(h, end + 1, Len(h))

\* Compaction takes one of its attempts, depending on sizes; where there is
\* nothing to compact for any of them, the last messages are kept.
Shortened(h, p) ==
  LET can == {q \in Preserved : Len(h) - p > q} IN
  IF can # {} THEN {Compacted(h, p, q) : q \in can}
  ELSE {IF Len(h) <= KeepLast THEN h ELSE SubSeq(h, Len(h) - KeepLast + 1, Len(h))}

\* Phases 3.5 and 4: what becomes of a history, fit or not.
Fitted(h) ==
  UNION {{g} \cup (IF HasPendingToolCall(g) /\ MaxIter > 1 THEN {}
                   ELSE UNION {Shortened(g, p) : p \in {p \in 0..Len(g) : Heads(g, p)}}) :
         g \in Pruned(h)}

-----------------------------------------------------------------------------
(* execute_lifecycle.                                                      *)

Leave(r, how) ==
  /\ outcome' = [outcome EXCEPT ![r] = how]
  /\ Goto(r, "release")

\* Mutant: the stored history is not loaded.
LoadNothing(r) ==
  /\ pc[r] = "load"
  /\ hist' = [hist EXCEPT ![r] = <<User(msg[r])>>]
  /\ iter' = [iter EXCEPT ![r] = 0]
  /\ Goto(r, "prompt")
  /\ UNCHANGED <<sharedVars, sess, msg, calls, outcome, result, cancelled,
                 aborting, waitVars, late>>

\* Mutant: a transcript that cannot be loaded is taken for an empty one.
LoadOrEmpty(r) ==
  /\ pc[r] = "load"
  /\ \E stored \in {transcript[sess[r]], <<>>} :
       hist' = [hist EXCEPT ![r] = Append(stored, User(msg[r]))]
  /\ iter' = [iter EXCEPT ![r] = 0]
  /\ Goto(r, "prompt")
  /\ UNCHANGED <<sharedVars, sess, msg, calls, outcome, result, cancelled, aborting, waitVars, late>>

\* Phases 3 to 4: the history is loaded, the message appended, and the whole made
\* to fit.
Load(r) ==
  /\ pc[r] = "load"
  /\ \/ /\ \E h \in Fitted(Append(transcript[sess[r]], User(msg[r]))) :
             hist' = [hist EXCEPT ![r] = h]
        /\ iter' = [iter EXCEPT ![r] = 0]
        /\ Goto(r, "prompt")
        /\ UNCHANGED outcome
     \/ Leave(r, "err") /\ UNCHANGED <<hist, iter>>
  /\ UNCHANGED <<sharedVars, sess, msg, calls, result, cancelled, aborting, waitVars, late>>

\* Phases 5 and 6: the prompt is built, the model may not be resolved.
ResolveModel(r) ==
  /\ pc[r] = "prompt"
  /\ \/ Goto(r, "loop") /\ UNCHANGED outcome
     \/ Leave(r, "err")
  /\ UNCHANGED <<sharedVars, sess, msg, hist, iter, calls, result,
                 cancelled, aborting, waitVars, late>>

\* Mutant: no guard against runaway tool loops.
CallModelUnguarded(r) ==
  /\ pc[r] = "loop"
  /\ \/ r \in cancelled /\ Leave(r, "err") /\ UNCHANGED iter
     \/ /\ r \notin cancelled
        /\ iter' = [iter EXCEPT ![r] = @ + 1]
        /\ Goto(r, "ask")
        /\ UNCHANGED outcome
  /\ UNCHANGED <<sharedVars, sess, msg, hist, calls, result, cancelled, aborting, waitVars, late>>

\* Mutant: the token is only looked at before the first request.
CallModelBlind(r) ==
  /\ pc[r] = "loop"
  /\ \/ /\ (r \in cancelled /\ iter[r] = 0) \/ iter[r] >= MaxIter
        /\ Leave(r, "err")
        /\ UNCHANGED iter
     \/ /\ r \notin cancelled \/ iter[r] > 0
        /\ iter[r] < MaxIter
        /\ iter' = [iter EXCEPT ![r] = @ + 1]
        /\ Goto(r, "ask")
        /\ UNCHANGED outcome
  /\ UNCHANGED <<sharedVars, sess, msg, hist, calls, result, cancelled, aborting, waitVars, late>>

\* The head of the tool loop.
CallModel(r) ==
  /\ pc[r] = "loop"
  /\ \/ /\ r \in cancelled \/ iter[r] >= MaxIter
        /\ Leave(r, "err")
        /\ UNCHANGED iter
     \/ /\ r \notin cancelled
        /\ iter[r] < MaxIter
        /\ iter' = [iter EXCEPT ![r] = @ + 1]
        /\ Goto(r, "ask")
        /\ UNCHANGED outcome
  /\ UNCHANGED <<sharedVars, sess, msg, hist, calls, result, cancelled, aborting, waitVars, late>>

\* set_streaming(true) waits for the lock of active_runs, under which a task of
\* abort_run may cancel meanwhile; then the request goes out.
Request(r) ==
  /\ pc[r] = "ask"
  /\ streaming' = IF active[sess[r]] # NoRun THEN streaming \cup {sess[r]} ELSE streaming
  /\ Works(r)
  /\ Goto(r, "stream")
  /\ UNCHANGED <<active, queue, transcript, sess, msg, hist, iter, calls, outcome, result,
                 cancelled, aborting, waitVars>>

\* Mutant: a failed request returns from run_agent at once.
RespondReturns(r) ==
  /\ pc[r] = "stream"
  /\ \/ Goto(r, "done") /\ UNCHANGED <<streaming, hist, calls>>
     \/ \E n \in 0..MaxCalls :
          /\ streaming' = streaming \ {sess[r]}
          /\ hist' = [hist EXCEPT ![r] = Append(@, Assistant(n))]
          /\ calls' = [calls EXCEPT ![r] = n]
          /\ Goto(r, IF n = 0 THEN "save" ELSE "tools")
  /\ UNCHANGED <<active, queue, transcript, sess, msg, iter, outcome, result,
                 cancelled, aborting, waitVars, late>>

\* Mutant: a failed request is retried, and the retry is not counted.
RespondRetries(r) ==
  /\ pc[r] = "stream"
  /\ \/ /\ Goto(r, "loop")
        /\ iter' = [iter EXCEPT ![r] = @ - 1]
        /\ UNCHANGED <<streaming, hist, calls>>
     \/ \E n \in 0..MaxCalls :
          /\ streaming' = streaming \ {sess[r]}
          /\ hist' = [hist EXCEPT ![r] = Append(@, Assistant(n))]
          /\ calls' = [calls EXCEPT ![r] = n]
          /\ Goto(r, IF n = 0 THEN "save" ELSE "tools")
          /\ UNCHANGED iter
  /\ UNCHANGED <<active, queue, transcript, sess, msg, outcome, result,
                 cancelled, aborting, waitVars, late>>

\* Phases 7 and 9: the response ends; a failed one leaves is_streaming set.
Respond(r) ==
  /\ pc[r] = "stream"
  /\ \/ Leave(r, "err") /\ UNCHANGED <<streaming, hist, calls>>
     \/ \E n \in 0..MaxCalls :
          /\ streaming' = streaming \ {sess[r]}
          /\ hist' = [hist EXCEPT ![r] = Append(@, Assistant(n))]
          /\ calls' = [calls EXCEPT ![r] = n]
          /\ Goto(r, IF n = 0 THEN "save" ELSE "tools")
          /\ UNCHANGED outcome
  /\ UNCHANGED <<active, queue, transcript, sess, msg, iter, result,
                 cancelled, aborting, waitVars, late>>

\* Mutant: a cancelled turn is saved as far as it got.
CallToolBreaks(r) ==
  /\ pc[r] = "tools"
  /\ \/ calls[r] = 0 /\ Goto(r, "loop") /\ UNCHANGED calls
     \/ /\ calls[r] > 0
        /\ Goto(r, IF r \in cancelled THEN "save" ELSE "execute")
        /\ calls' = [calls EXCEPT ![r] = @ - 1]
  /\ UNCHANGED <<sharedVars, sess, msg, hist, iter, outcome, result, cancelled, aborting,
                 waitVars, late>>

\* Mutant: cancellation is not looked at between tool calls.
CallToolAnyway(r) ==
  /\ pc[r] = "tools"
  /\ \/ calls[r] = 0 /\ Goto(r, "loop") /\ UNCHANGED calls
     \/ calls[r] > 0 /\ Goto(r, "execute") /\ calls' = [calls EXCEPT ![r] = @ - 1]
  /\ UNCHANGED <<sharedVars, sess, msg, hist, iter, outcome, result, cancelled, aborting,
                 waitVars, late>>

\* Phase 8: the token is looked at before each tool call; after the last it goes
\* back to the head of the loop.
CallTool(r) ==
  /\ pc[r] = "tools"
  /\ \/ calls[r] = 0 /\ Goto(r, "loop") /\ UNCHANGED <<calls, outcome>>
     \/ calls[r] > 0 /\ r \in cancelled /\ Leave(r, "err") /\ UNCHANGED calls
     \/ /\ calls[r] > 0 /\ r \notin cancelled
        /\ calls' = [calls EXCEPT ![r] = @ - 1]
        /\ Goto(r, "execute")
        /\ UNCHANGED outcome
  /\ UNCHANGED <<sharedVars, sess, msg, hist, iter, result, cancelled, aborting, waitVars, late>>

\* Mutant: the result of a tool that fails is left out.
RunToolForgets(r) ==
  /\ pc[r] = "execute"
  /\ hist' \in {hist, [hist EXCEPT ![r] = Append(@, Tool)]}
  /\ Works(r)
  /\ Goto(r, "tools")
  /\ UNCHANGED <<sharedVars, sess, msg, iter, calls, outcome, result, cancelled, aborting,
                 waitVars>>

\* ... the tool is executed, and its result, an error or not, appended.
RunTool(r) ==
  /\ pc[r] = "execute"
  /\ hist' = [hist EXCEPT ![r] = Append(@, Tool)]
  /\ Works(r)
  /\ Goto(r, "tools")
  /\ UNCHANGED <<sharedVars, sess, msg, iter, calls, outcome, result, cancelled, aborting,
                 waitVars>>

\* Phase 10: the transcript is replaced.
Save(r) ==
  /\ pc[r] = "save"
  /\ \/ /\ transcript' = [transcript EXCEPT ![sess[r]] = hist[r]]
        /\ Leave(r, "ok")
     \/ /\ Leave(r, "err")
        /\ UNCHANGED transcript
  /\ UNCHANGED <<active, streaming, queue, sess, msg, hist, iter, calls, result,
                 cancelled, aborting, waitVars, late>>

-----------------------------------------------------------------------------
(* run_agent after a lifecycle.                                            *)

\* Mutant: the drain goes by the outcome of the last message.
ReleaseByLast(r) ==
  /\ pc[r] = "release"
  /\ active' = [active EXCEPT ![sess[r]] = NoRun]
  /\ streaming' = streaming \ {sess[r]}
  /\ result' = [result EXCEPT ![r] = outcome[r]]
  /\ outcome' = [outcome EXCEPT ![r] = "none"]
  /\ hist' = [hist EXCEPT ![r] = <<>>]
  /\ iter' = [iter EXCEPT ![r] = 0]
  /\ calls' = [calls EXCEPT ![r] = 0]
  /\ Goto(r, "notify")
  /\ UNCHANGED <<queue, transcript, sess, msg, cancelled, aborting, waitVars, late>>

\* Phase 11: the entry is removed by its key, whosever it is.  The lifecycle's
\* own variables are gone.
Release(r) ==
  /\ pc[r] = "release"
  /\ active' = [active EXCEPT ![sess[r]] = NoRun]
  /\ streaming' = streaming \ {sess[r]}
  /\ result' = [result EXCEPT ![r] = IF @ = "none" THEN outcome[r] ELSE @]
  /\ outcome' = [outcome EXCEPT ![r] = "none"]
  /\ hist' = [hist EXCEPT ![r] = <<>>]
  /\ iter' = [iter EXCEPT ![r] = 0]
  /\ calls' = [calls EXCEPT ![r] = 0]
  /\ Goto(r, "notify")
  /\ UNCHANGED <<queue, transcript, sess, msg, cancelled, aborting, waitVars, late>>

\* Mutant: waiters are only notified of a run that succeeded.
NotifySuccess(r) ==
  /\ pc[r] = "notify"
  /\ wpc' = [w \in DOMAIN wpc |-> IF wpc[w] = "registered" /\ result[r] = "ok"
                                 THEN "check" ELSE wpc[w]]
  /\ Goto(r, IF result[r] = "ok" THEN "drain" ELSE "done")
  /\ UNCHANGED <<sharedVars, sess, msg, hist, iter, calls, outcome, result,
                 cancelled, aborting, wsess, arrived, late>>

\* run_ended.notify_waiters(): wakes those registered now, stores nothing.
Notify(r) ==
  /\ pc[r] = "notify"
  /\ wpc' = [w \in DOMAIN wpc |-> IF wpc[w] = "registered" THEN "check" ELSE wpc[w]]
  /\ Goto(r, IF result[r] = "ok" THEN "drain" ELSE "done")
  /\ UNCHANGED <<sharedVars, sess, msg, hist, iter, calls, outcome, result,
                 cancelled, aborting, wsess, arrived, late>>

\* Mutant: the drain goes on in spite of a cancellation.
DrainAnyway(r) ==
  /\ pc[r] = "drain"
  /\ Goto(r, "take")
  /\ UNCHANGED <<sharedVars, sess, msg, hist, iter, calls, outcome, result, cancelled, aborting,
                 waitVars, late>>

\* Phase 11b: the token is looked at between queued messages ...
Drain(r) ==
  /\ pc[r] = "drain"
  /\ Goto(r, IF r \in cancelled THEN "done" ELSE "take")
  /\ UNCHANGED <<sharedVars, sess, msg, hist, iter, calls, outcome, result, cancelled, aborting,
                 waitVars, late>>

\* Mutant: the message that arrived last is taken first.
DequeueLast(r) ==
  LET s == sess[r]
      q == queue[s]
  IN
  /\ pc[r] = "take"
  /\ \/ /\ q = <<>>
        /\ Goto(r, "done")
        /\ UNCHANGED <<queue, msg, late>>
     \/ /\ q # <<>>
        /\ msg' = [msg EXCEPT ![r] = q[Len(q)]]
        /\ queue' = [queue EXCEPT ![s] = SubSeq(q, 1, Len(q) - 1)]
        /\ Works(r)
        /\ Goto(r, "reinsert")
  /\ UNCHANGED <<active, streaming, transcript, sess, hist, iter, calls,
                 outcome, result, cancelled, aborting, waitVars>>

\* ... and the next one is taken under the lock of message_queues.
Dequeue(r) ==
  LET s == sess[r] IN
  /\ pc[r] = "take"
  /\ \/ /\ queue[s] = <<>>
        /\ Goto(r, "done")
        /\ UNCHANGED <<queue, msg, late>>
     \/ /\ queue[s] # <<>>
        /\ msg' = [msg EXCEPT ![r] = Head(queue[s])]
        /\ queue' = [queue EXCEPT ![s] = Tail(@)]
        /\ Works(r)
        /\ Goto(r, "reinsert")
  /\ UNCHANGED <<active, streaming, transcript, sess, hist, iter, calls,
                 outcome, result, cancelled, aborting, waitVars>>

\* The entry for the queued message is inserted, whatever is there.
Reinsert(r) ==
  /\ pc[r] = "reinsert"
  /\ active' = [active EXCEPT ![sess[r]] = r]
  /\ streaming' = streaming \ {sess[r]}
  /\ Goto(r, "load")
  /\ UNCHANGED <<queue, transcript, sess, msg, hist, iter, calls, outcome,
                 result, cancelled, aborting, waitVars, late>>

\* The caller drops the future: nothing of the above runs any more.
DropCall(r) ==
  /\ r \in Droppable
  /\ InProgress(r)
  /\ Goto(r, "dropped")
  /\ UNCHANGED <<sharedVars, sess, msg, hist, iter, calls, outcome, result,
                 cancelled, aborting, waitVars, late>>

-----------------------------------------------------------------------------
(* The other operations.                                                   *)

\* queue_message
QueueMessage(m, s) ==
  /\ \A q \in Sessions : ~Contains(arrived[q], m)
  /\ queue' = [queue EXCEPT ![s] = Append(@, m)]
  /\ arrived' = [arrived EXCEPT ![s] = Append(@, m)]
  /\ UNCHANGED <<active, streaming, transcript, runVars, cancelled, aborting,
                 wpc, wsess, late>>

\* abort_run spawns a task ...
Abort(s) ==
  /\ Aborts
  /\ aborting' = aborting \cup {s}
  /\ UNCHANGED <<sharedVars, runVars, cancelled, waitVars, late>>

\* ... that cancels the token in the entry it finds when it gets the lock.
AbortTask(s) ==
  /\ s \in aborting
  /\ aborting' = aborting \ {s}
  /\ cancelled' = IF active[s] = NoRun THEN cancelled ELSE cancelled \cup {active[s]}
  /\ UNCHANGED <<sharedVars, runVars, waitVars, late>>

\* wait_for_run_end is called.
Wait(w, s) ==
  /\ wpc[w] = "idle"
  /\ wpc' = [wpc EXCEPT ![w] = "check"]
  /\ wsess' = [wsess EXCEPT ![w] = s]
  /\ UNCHANGED <<sharedVars, runVars, cancelled, aborting, arrived, late>>

\* is_run_active, under the lock.
WaitCheck(w) ==
  /\ wpc[w] = "check"
  /\ wpc' = [wpc EXCEPT ![w] = IF active[wsess[w]] = NoRun THEN "returned" ELSE "active"]
  /\ UNCHANGED <<sharedVars, runVars, cancelled, aborting, wsess, arrived, late>>

\* run_ended.notified() is created and awaited.
WaitRegister(w) ==
  /\ wpc[w] = "active"
  /\ wpc' = [wpc EXCEPT ![w] = "registered"]
  /\ UNCHANGED <<sharedVars, runVars, cancelled, aborting, wsess, arrived, late>>

-----------------------------------------------------------------------------
Init ==
  /\ active = [s \in Sessions |-> NoRun]
  /\ streaming = {}
  /\ queue = [s \in Sessions |-> <<>>]
  /\ transcript = [s \in Sessions |-> <<>>]
  /\ pc = [r \in Runs |-> "idle"]
  /\ sess \in [Runs -> Sessions]
  /\ msg = [r \in Runs |-> r]
  /\ hist = [r \in Runs |-> <<>>]
  /\ iter = [r \in Runs |-> 0]
  /\ calls = [r \in Runs |-> 0]
  /\ outcome = [r \in Runs |-> "none"]
  /\ result = [r \in Runs |-> "none"]
  /\ cancelled = {}
  /\ aborting = {}
  /\ wpc = [w \in Waiters |-> "idle"]
  /\ wsess \in [Waiters -> Sessions]
  /\ arrived = [s \in Sessions |-> <<>>]
  /\ late = [r \in Runs |-> 0]

Step(r) ==
  \/ Insert(r)
  \/ Load(r)
  \/ ResolveModel(r)
  \/ CallModel(r)
  \/ Request(r)
  \/ Respond(r)
  \/ CallTool(r)
  \/ RunTool(r)
  \/ Save(r)
  \/ Release(r)
  \/ Notify(r)
  \/ Drain(r)
  \/ Dequeue(r)
  \/ Reinsert(r)

WaitStep(w) == WaitCheck(w) \/ WaitRegister(w)

Next ==
  \/ \E r \in Runs, s \in Sessions : Call(r, s)
  \/ \E r \in Runs : Step(r)
  \/ \E r \in Runs : DropCall(r)
  \/ \E m \in Queued, s \in Sessions : QueueMessage(m, s)
  \/ \E s \in Sessions : Abort(s) \/ AbortTask(s)
  \/ \E w \in Waiters, s \in Sessions : Wait(w, s)
  \/ \E w \in Waiters : WaitStep(w)

\* Calls that were made, waiters and spawned tasks are polled again; the
\* model, the tools and the store answer.
Fairness ==
  /\ \A r \in Runs : WF_vars(Step(r))
  /\ \A w \in Waiters : WF_vars(WaitStep(w))
  /\ \A s \in Sessions : WF_vars(AbortTask(s))

Spec == Init /\ [][Next]_vars /\ Fairness

-----------------------------------------------------------------------------
(* Invariants.                                                             *)

TypeOK ==
  /\ active \in [Sessions -> Runs \cup {NoRun}]
  /\ streaming \subseteq Sessions
  /\ queue \in [Sessions -> Seq(Queued)]
  /\ transcript \in [Sessions -> Seq(Entries)]
  /\ pc \in [Runs -> PCs]
  /\ sess \in [Runs -> Sessions]
  /\ msg \in [Runs -> Messages]
  /\ hist \in [Runs -> Seq(Entries)]
  /\ iter \in [Runs -> 0..MaxIter]
  /\ calls \in [Runs -> 0..MaxCalls]
  /\ outcome \in [Runs -> {"none", "ok", "err"}]
  /\ result \in [Runs -> {"none", "ok", "err"}]
  /\ cancelled \subseteq Runs
  /\ aborting \subseteq Sessions
  /\ wpc \in [Waiters -> {"idle", "check", "active", "registered", "returned"}]
  /\ wsess \in [Waiters -> Sessions]
  /\ arrived \in [Sessions -> Seq(Queued)]
  /\ late \in [Runs -> Nat]

InRun(r) == pc[r] \in InLifecycle \cup {"release"}

\* active_runs tells the truth, on every path through a run: a session is busy
\* exactly while a call of run_agent is in a lifecycle for it.  ("ensuring
\* cleanup on any outcome")
EntryIsTheRun ==
  \A s \in Sessions, r \in Runs : active[s] = r <=> sess[r] = s /\ InRun(r)

\* A stored transcript is made of whole turns: every response with n tool
\* calls is followed by its n results and another response, and the last entry
\* answers.  A cancelled, failed or runaway turn leaves nothing behind.
WholeTurns ==
  \A s \in Sessions : \A k \in DOMAIN transcript[s] :
    LET t == transcript[s]
        e == t[k]
    IN e.role = "assistant" =>
         IF e.n = 0
           THEN k = Len(t) \/ t[k+1].role = "user"
           ELSE /\ k + e.n < Len(t)
                /\ \A j \in 1..e.n : t[k+j] = Tool
                /\ t[k+e.n+1].role = "assistant"

\* The messages buffered during a run reach the transcript at most once each
\* and in the order they arrived.
BufferedInOrder ==
  \A s \in Sessions : \A j, k \in DOMAIN transcript[s] :
    LET m == transcript[s][j].of
        n == transcript[s][k].of
    IN (j < k /\ {m, n} \subseteq Queued) =>
         \E a, b \in DOMAIN arrived[s] : arrived[s][a] = m /\ arrived[s][b] = n /\ a < b

\* Entry e is message m, or a summary in which m can be read or that says that it
\* was cut; there is one in g up to u.
Reads(e, m) ==
  e = User(m) \/ (e.role = "system" /\ \E x \in {m, Truncated} : x \in e.tells)
Tells(g, u, m) == \E k \in 1..u : Reads(g[k], m)

\* What run_agent reports as done is not forgotten without a trace: while a
\* compaction tries at last to keep one message, the message of a call that
\* returned Ok is in the transcript of its session or in a summary there, or a
\* summary there says that it was cut, whatever runs later.
Told(m, s) == Tells(transcript[s], Len(transcript[s]), m)
OkIsTold ==
  (\E p \in Preserved : p = 1) => \A r \in Runs : result[r] = "ok" => Told(r, sess[r])

\* What holds of a transcript that one call at a time writes, dropped by nobody.
TranscriptHolds == TypeOK /\ WholeTurns /\ BufferedInOrder /\ OkIsTold

\* After the token of a call is cancelled it begins to work on one thing more at
\* the most, be it a request, a tool or a buffered message: the one for which it
\* had looked at the token before.
CancelStopsWork == \A r \in Runs : late[r] <= 1

-----------------------------------------------------------------------------
(* Action properties.                                                      *)

\* Entries of g up to u, but for summaries, are those at the end of t.
EndOf(g, u, t) ==
  \A i \in 1..u : g[i].role # "system" =>
    \A j \in i..u : j + Len(t) - u \in DOMAIN t /\ g[j] = t[j + Len(t) - u]

\* A transcript g continues t: it is the end of t behind summaries, then one
\* message with its turn.  All messages of t can still be read in it, or it says
\* that a summary was cut, or the last KeepLast entries were kept without one.
Continues(g, t) ==
  \E u \in DOMAIN g :
    /\ g[u].role = "user"
    /\ \A j \in (u+1)..Len(g) : g[j].role \in {"assistant", "tool"}
    /\ EndOf(g, u - 1, t)
    /\ (\A m \in Messages : Tells(t, Len(t), m) => Tells(g, u - 1, m)) \/ u = KeepLast

\* No turn is lost silently: what is saved continues what was stored.
Continued ==
  \A s \in Sessions : transcript'[s] # transcript[s] => Continues(transcript'[s], transcript[s])
TranscriptContinues == [][Continued]_vars

-----------------------------------------------------------------------------
(* Liveness.                                                               *)

\* However often the model asks for tools, a call of run_agent returns.
EveryCallEnds == \A r \in Runs : InProgress(r) ~> pc[r] \in Over

\* A run that succeeded works off the messages buffered by then, unless it is
\* aborted; a failure of one of them does not stop it.
Draining(r) == pc[r] = "drain"
Drained(r) == queue[sess[r]] = <<>> \/ r \in cancelled
DrainEmpties == \A r \in Runs : Draining(r) ~> Drained(r)

\* A waiter that registered while a run of its session was still in progress
\* is woken when that run ends, however it ends short of being dropped.
Registered(w, r) == wpc[w] = "registered" /\ sess[r] = wsess[w] /\ InRun(r)
Awake(w, r) == wpc[w] # "registered" \/ pc[r] = "dropped"
RegisteredWakes == \A w \in Waiters, r \in Runs : Registered(w, r) ~> Awake(w, r)

-----------------------------------------------------------------------------
(* What the documentation says and the code does not do.                   *)

\* wait_for_run_end: "Wait until the session's active run finishes."
WaitReturns == \A w \in Waiters : wpc[w] = "check" ~> wpc[w] = "returned"
=============================================================================

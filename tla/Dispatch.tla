------------------------------ MODULE Dispatch ------------------------------
(***************************************************************************)
(* dispatch_with_agent of claw-dispatch: the typing indicator, the command *)
(* queue's main lane with the agent runner inside, the reply, the removal  *)
(* of the downloaded media file.                                           *)
(*                                                                         *)
(* The module composes CommandQueue and AgentRunner: a dispatch is a       *)
(* command of the queue (Q) and a call of run_agent (R).  The runner only  *)
(* takes steps inside a poll of the command's body, and a command that the *)
(* queue drops takes the call of run_agent with it.                        *)
(***************************************************************************)
EXTENDS Naturals, Sequences, FiniteSets

CONSTANTS
  Dispatches,     \* calls of dispatch_with_agent
  WithMedia, \* those that carry a downloaded media file
  Stoppable, \* those whose GetReplyOptions::cancel may be cancelled
  MainLane,
  Session,   \* all calls are for one session key
  MaxIncs,   \* bound: incarnations of the lane, 1 for no clear_lane
  MaxOpen,   \* dispatches in progress at a time, 1 in run_dispatch_loop
  Preserved, \* AgentRunner's: what a compaction preserves ...
  KeepLast   \* ... and what is left where it fails

DispatchAssumption ==
  /\ IsFiniteSet(Dispatches) /\ "none" \notin Dispatches
  /\ WithMedia \subseteq Dispatches
  /\ Stoppable \subseteq Dispatches
  /\ MaxIncs \in Nat \ {0}
  /\ MaxOpen \in Nat \ {0}
  /\ Preserved \subseteq Nat \ {0}
  /\ KeepLast \in Nat \ {0}

VARIABLES
  \* the queue
  lanes, created, width, permits, waiters, pending, cleared, rootCancelled,
  qpc, inc, granted,
  \* the runner
  active, streaming, transcript, rpc, hist, iter, outcome, result, stopped,
  \* the dispatches
  phase,    \* where each dispatch stands outside the queue
  typing,   \* dispatches whose typing indicator is on
  reply,    \* what the command returned: "none", "reply", "silent", "error"
  media     \* media files on disk

queueVars == <<lanes, created, width, permits, waiters, pending, cleared,
               rootCancelled, qpc, inc, granted>>
runnerVars == <<active, streaming, transcript, rpc, hist, iter, outcome, result>>
pipelineVars == <<queueVars, runnerVars, stopped, phase, typing, reply, media>>

Q == INSTANCE CommandQueue WITH
  Cmds <- Dispatches, Droppable <- {}, Lanes <- {MainLane}, Widths <- {},
  pc <- qpc, cancelled <- cleared

\* No message is queued for the session, and no abort_run comes in.  The model
\* answers without tools, so a lifecycle has one iteration.
R == INSTANCE AgentRunner WITH
  Runs <- Dispatches, Queued <- {}, Sessions <- {Session}, Waiters <- {},
  Droppable <- Dispatches, Parallel <- Cardinality(Dispatches), MaxIter <- 1,
  MaxCalls <- 0, Aborts <- FALSE,
  pc <- rpc, cancelled <- {}, aborting <- {},
  queue <- [s \in {Session} |-> <<>>], arrived <- [s \in {Session} |-> <<>>],
  sess <- [c \in Dispatches |-> Session], msg <- [c \in Dispatches |-> c],
  calls <- [c \in Dispatches |-> 0], late <- [c \in Dispatches |-> 0],
  wpc <- <<>>, wsess <- <<>>

Enter(c, p) == phase' = [phase EXCEPT ![c] = p]
dispatchVars == <<stopped, phase, typing, reply, media>>

-----------------------------------------------------------------------------
\* send_typing, then the call of enqueue_command_in_lane: its lookup.
Begin(c) ==
  /\ phase[c] = "idle"
  /\ Cardinality({d \in Dispatches : phase[d] \notin {"idle", "returned", "failed"}}) < MaxOpen
  /\ typing' = typing \cup {c}
  /\ Q!Lookup(c, MainLane)
  /\ Enter(c, "lane")
  /\ UNCHANGED <<runnerVars, stopped, reply, media>>

\* Mutant: the command enters the lane without being counted as pending.
QueueStepUncounted(c) ==
  /\ \/ /\ qpc[c] = "snapshot"
        /\ qpc' = [qpc EXCEPT ![c] = "waiting"]
        /\ UNCHANGED <<lanes, created, width, permits, waiters, pending,
                       cleared, rootCancelled, inc, granted>>
     \/ Q!CheckWaiting(c)
     \/ Q!RejectWaiting(c)
     \/ Q!Acquire(c)
     \/ Q!CheckRunning(c)
  /\ UNCHANGED <<runnerVars, dispatchVars>>

\* The queue drives the command, short of its body.
QueueStep(c) ==
  /\ \/ Q!Count(c)
     \/ Q!CheckWaiting(c)
     \/ Q!RejectWaiting(c)
     \/ Q!Acquire(c)
     \/ Q!CheckRunning(c)
  /\ UNCHANGED <<runnerVars, dispatchVars>>

\* The body: the caller's cancellation comes first, then a command is answered,
\* and any other text goes to the agent.
Body(c) ==
  /\ qpc[c] = "executing"
  /\ reply[c] = "none"
  /\ rpc[c] = "idle"
  /\ \/ /\ c \in stopped
        /\ reply' = [reply EXCEPT ![c] = "error"]
        /\ UNCHANGED runnerVars
     \/ /\ c \notin stopped
        /\ reply' = [reply EXCEPT ![c] = "reply"]
        /\ UNCHANGED runnerVars
     \/ /\ c \notin stopped
        /\ R!Call(c, Session)
        /\ UNCHANGED reply
  /\ UNCHANGED <<queueVars, stopped, phase, typing, media>>

\* The body: run_agent goes on.
Agent(c) ==
  /\ qpc[c] = "executing"
  /\ R!Step(c)
  /\ UNCHANGED <<queueVars, dispatchVars>>

\* Mutant: the body starts run_agent and does not await it.
AgentDoneEarly(c) ==
  /\ qpc[c] = "executing"
  /\ reply[c] = "none"
  /\ rpc[c] # "idle"
  /\ reply' = [reply EXCEPT ![c] = "silent"]
  /\ UNCHANGED <<queueVars, runnerVars, stopped, phase, typing, media>>

\* The body: run_agent has returned; an empty response makes no reply.
AgentDone(c) ==
  /\ qpc[c] = "executing"
  /\ reply[c] = "none"
  /\ rpc[c] \in {"busy", "done"}
  /\ \E what \in (IF result[c] = "ok" THEN {"reply", "silent"} ELSE {"error"}) :
       reply' = [reply EXCEPT ![c] = what]
  /\ UNCHANGED <<queueVars, runnerVars, stopped, phase, typing, media>>

\* The poll of the body ends: pending inside run_agent, or with the result.
Yield(c) ==
  /\ R!InProgress(c)
  /\ Q!Yield(c)
  /\ UNCHANGED <<runnerVars, dispatchVars>>

Finish(c) ==
  /\ reply[c] # "none"
  /\ Q!Finish(c)
  /\ UNCHANGED <<runnerVars, dispatchVars>>

\* The lane was cleared: the future of the body is dropped.
Reject(c) ==
  /\ Q!RejectRunning(c)
  /\ IF R!InProgress(c) THEN R!DropCall(c) ELSE UNCHANGED runnerVars
  /\ UNCHANGED dispatchVars

\* Mutant: only the error of a missing lane is propagated.
LaneFailedMissing(c) ==
  /\ phase[c] = "lane"
  /\ qpc[c] = "nolane"
  /\ Enter(c, "failed")
  /\ UNCHANGED <<queueVars, runnerVars, stopped, typing, reply, media>>

\* `?` on the queue's result: an error ends the dispatch here.
LaneFailed(c) ==
  /\ phase[c] = "lane"
  /\ qpc[c] \in {"cleared", "nolane"}
  /\ Enter(c, "failed")
  /\ UNCHANGED <<queueVars, runnerVars, stopped, typing, reply, media>>

\* Mutant: the indicator is only stopped when there is a reply to send.
StopTypingOnReply(c) ==
  /\ phase[c] = "lane"
  /\ qpc[c] = "done"
  /\ typing' = IF reply[c] = "reply" THEN typing \ {c} ELSE typing
  /\ Enter(c, IF reply[c] = "reply" THEN "send" ELSE "clean")
  /\ UNCHANGED <<queueVars, runnerVars, stopped, reply, media>>

\* After the lane: stop typing ...
StopTyping(c) ==
  /\ phase[c] = "lane"
  /\ qpc[c] = "done"
  /\ typing' = typing \ {c}
  /\ Enter(c, IF reply[c] = "reply" THEN "send" ELSE "clean")
  /\ UNCHANGED <<queueVars, runnerVars, stopped, reply, media>>

\* ... send the reply, whose failure is only logged ...
SendReply(c) ==
  /\ phase[c] = "send"
  /\ Enter(c, "clean")
  /\ UNCHANGED <<queueVars, runnerVars, stopped, typing, reply, media>>

\* ... and remove the media file.
RemoveMedia(c) ==
  /\ phase[c] = "clean"
  /\ media' = media \ {c}
  /\ Enter(c, "returned")
  /\ UNCHANGED <<queueVars, runnerVars, stopped, typing, reply>>

\* The environment: clear_lane, and the caller's cancellation.
ClearLane ==
  /\ Q!ClearLane(MainLane)
  /\ UNCHANGED <<runnerVars, dispatchVars>>

Stop(c) ==
  /\ c \in Stoppable \ stopped
  /\ stopped' = stopped \cup {c}
  /\ UNCHANGED <<queueVars, runnerVars, phase, typing, reply, media>>

-----------------------------------------------------------------------------
PipelineInit ==
  /\ Q!Init
  /\ active = [s \in {Session} |-> R!NoRun]
  /\ streaming = {}
  /\ transcript = [s \in {Session} |-> <<>>]
  /\ rpc = [c \in Dispatches |-> "idle"]
  /\ hist = [c \in Dispatches |-> <<>>]
  /\ iter = [c \in Dispatches |-> 0]
  /\ outcome = [c \in Dispatches |-> "none"]
  /\ result = [c \in Dispatches |-> "none"]
  /\ stopped = {}
  /\ phase = [c \in Dispatches |-> "idle"]
  /\ typing = {}
  /\ reply = [c \in Dispatches |-> "none"]
  /\ media = WithMedia

DispatchStep(c) ==
  \/ QueueStep(c)
  \/ Body(c)
  \/ Agent(c)
  \/ AgentDone(c)
  \/ Finish(c)
  \/ Reject(c)
  \/ LaneFailed(c)
  \/ StopTyping(c)
  \/ SendReply(c)
  \/ RemoveMedia(c)

PipelineNext ==
  \/ \E c \in Dispatches : Begin(c) \/ DispatchStep(c) \/ Yield(c) \/ Stop(c)
  \/ ClearLane

\* Every dispatch goes on; the model and the store answer a call of run_agent
\* that is polled again and again.
PipelineFairness ==
  /\ \A c \in Dispatches : WF_pipelineVars(DispatchStep(c)) /\ SF_pipelineVars(Agent(c))

PipelineSpec == PipelineInit /\ [][PipelineNext]_pipelineVars /\ PipelineFairness

-----------------------------------------------------------------------------
(* Invariants.                                                             *)

PipelineTypeOK ==
  /\ Q!TypeOK
  /\ rpc \in [Dispatches -> R!PCs]
  /\ phase \in [Dispatches -> {"idle", "lane", "send", "clean", "returned", "failed"}]
  /\ typing \subseteq Dispatches
  /\ reply \in [Dispatches -> {"none", "reply", "silent", "error"}]
  /\ media \subseteq WithMedia

\* The lane makes the runner's busy check moot: until a clear_lane, however
\* many dispatches come in for a session, none is turned away with SessionBusy
\* and no two of them are in a lifecycle together.
LaneSerializesRuns ==
  cleared = {} =>
    /\ \A c \in Dispatches : rpc[c] # "busy"
    /\ \A c, d \in Dispatches : R!InRun(c) /\ R!InRun(d) => c = d

\* A dispatch that has returned to its caller without an error has left nothing
\* behind: no indicator, no file, no entry in active_runs.
ReturnsClean ==
  \A c \in Dispatches : phase[c] = "returned" =>
    /\ c \notin typing \cup media
    /\ active[Session] # c

\* The transcript under the pipeline: turns are whole even when a clear_lane
\* drops a run between a request and its answer; and until then the session is
\* busy with a dispatch that has begun exactly while its run is in the lifecycle,
\* and what its run reported as done can be read in the transcript or in a summary
\* there, whatever dispatches follow.
RunsKeepTranscript ==
  /\ R!WholeTurns
  /\ cleared = {} => \A c \in Dispatches : phase[c] # "idle" =>
       /\ active[Session] = c <=> R!InRun(c)
       /\ result[c] = "ok" /\ (\E p \in Preserved : p = 1) => R!Told(c, Session)

\* What the pipeline promises of its lane, its runs and its replies.
PipelineHolds == PipelineTypeOK /\ LaneSerializesRuns /\ ReturnsClean /\ RunsKeepTranscript

\* Every dispatch comes back to its caller, cleared lanes or not.
CameBack(c) == phase[c] \in {"returned", "failed"}
EveryDispatchReturns == \A c \in Dispatches : phase[c] = "lane" ~> CameBack(c)

-----------------------------------------------------------------------------
(* What the documentation says and the code does not do.                   *)

\* run_agent's "Execute the lifecycle, ensuring cleanup on any outcome": the
\* session does not stay busy.
SessionFreed == active[Session] # R!NoRun ~> active[Session] = R!NoRun

=============================================================================

---------------------------- MODULE DispatchProofs ----------------------------
(***************************************************************************)
(* Proofs about the dispatch pipeline, from those about the command queue. *)
(* A step of the pipeline is, for the queue, one of its own steps or none  *)
(* (QueueMoves), so what is proved of the queue holds of the pipeline's;   *)
(* and a call of run_agent is in progress only while its command owns the  *)
(* lane's permit (Together).  As long as no lane was cleared there is one  *)
(* lane, of width 1: hence one run at a time, and none that is turned away *)
(* (Undisturbed).  So the runner's own theorems hold of the pipeline too:  *)
(* those of any calls always, those of calls one at a time until a lane is *)
(* cleared (RunnerActs).                                                   *)
(***************************************************************************)
EXTENDS Dispatch, FiniteSetTheorems, TLAPS

\* The queue's theorems, about the pipeline's queue.
QP == INSTANCE CommandQueueProofs WITH
  Cmds <- Dispatches, Droppable <- {}, Lanes <- {MainLane}, Widths <- {},
  pc <- qpc, cancelled <- cleared

Phases == {"idle", "lane", "send", "clean", "returned", "failed"}
Replies == {"none", "reply", "silent", "error"}

DispatchTypes ==
  /\ rpc \in [Dispatches -> R!PCs]
  /\ phase \in [Dispatches -> Phases]
  /\ typing \subseteq Dispatches
  /\ reply \in [Dispatches -> Replies]
  /\ media \subseteq WithMedia
  /\ active \in [{Session} -> Dispatches \cup {R!NoRun}]

\* Where queue, runner and dispatch stand together.
Together(c) ==
  /\ phase[c] = "idle" <=> qpc[c] = "idle"
  /\ phase[c] \in {"send", "clean", "returned"} => qpc[c] = "done" /\ c \notin typing
  /\ phase[c] = "returned" => c \notin media
  /\ qpc[c] = "done" => reply[c] # "none"
  /\ reply[c] # "none" => rpc[c] \in {"idle", "busy", "done"}
  /\ R!InProgress(c) => qpc[c] \in {"holding", "executing"}
  /\ active[Session] = c => R!InRun(c) \/ rpc[c] = "dropped"

\* Nothing drains the queue; and while no lane was cleared there is the one
\* that new() made, of one permit, and runs are neither dropped nor refused.
Undisturbed ==
  /\ rootCancelled = FALSE
  /\ cleared = {} =>
       /\ created = 1 /\ width[1] = 1
       /\ \A c \in Dispatches : rpc[c] \notin {"busy", "dropped"}

DispatchInv ==
  /\ QP!Inv /\ DispatchTypes
  /\ \A c \in Dispatches : Together(c)
  /\ Undisturbed

-----------------------------------------------------------------------------
(* The queue's part.                                                       *)

\* The queue's assumption follows from the pipeline's.
LEMMA QueueAssumed == ASSUME DispatchAssumption PROVE QP!QueueAssumption
BY DEF DispatchAssumption, QP!QueueAssumption, IsFiniteSet, QP!IsFiniteSet

\* The queue of the pipeline is the queue of the theorems.
LEMMA SameQueue ==
  /\ Q!Init => QP!Init
  /\ Q!TypeOK <=> QP!TypeOK
BY DEF Q!Init, QP!Init, Q!Incs, QP!Incs, Q!NoInc, QP!NoInc, Q!TypeOK, QP!TypeOK,
       Q!PCs, QP!PCs, Q!Settled, QP!Settled

\* What a step does to the queue.
LEMMA QueueMoves == ASSUME [PipelineNext]_pipelineVars PROVE [QP!Next]_QP!vars
<1>1. ASSUME NEW c \in Dispatches, Begin(c) PROVE QP!Next
  <2>1. QP!Lookup(c, MainLane)
    BY <1>1 DEF Begin, Q!Lookup, QP!Lookup, Q!NoInc, QP!NoInc, Q!Goto, QP!Goto, Q!laneVars, QP!laneVars,
                Q!semVars, QP!semVars
  <2> QED BY <2>1 DEF QP!Next
<1>2. ASSUME NEW c \in Dispatches, QueueStep(c) PROVE QP!Poll(c)
  <2>1. Q!Count(c) => QP!Count(c)
    BY DEF Q!Count, QP!Count, Q!Goto, QP!Goto, Q!laneVars, QP!laneVars, Q!semVars, QP!semVars
  <2>2. Q!CheckWaiting(c) => QP!CheckWaiting(c)
    BY DEF Q!CheckWaiting, QP!CheckWaiting, Q!Woken, QP!Woken, Q!Queued, QP!Queued, Q!Cancelled, QP!Cancelled,
           Q!Goto, QP!Goto, Q!laneVars, QP!laneVars, Q!semVars, QP!semVars
  <2>3. Q!RejectWaiting(c) => QP!RejectWaiting(c)
    BY DEF Q!RejectWaiting, QP!RejectWaiting, Q!LeaveSemaphore, QP!LeaveSemaphore, Q!Release, QP!Release,
           Q!Queued, QP!Queued, Q!Cancelled, QP!Cancelled,
           Q!Goto, QP!Goto, Q!laneVars, QP!laneVars, Q!semVars, QP!semVars
  <2>4. Q!Acquire(c) => QP!Acquire(c)
    BY DEF Q!Acquire, QP!Acquire, Q!Goto, QP!Goto, Q!laneVars, QP!laneVars
  <2>5. Q!CheckRunning(c) => QP!CheckRunning(c)
    BY DEF Q!CheckRunning, QP!CheckRunning, Q!Cancelled, QP!Cancelled, Q!Goto, QP!Goto,
           Q!laneVars, QP!laneVars, Q!semVars, QP!semVars
  <2> QED BY <1>2, <2>1, <2>2, <2>3, <2>4, <2>5 DEF QueueStep, QP!Poll
<1>3. ASSUME NEW c \in Dispatches, Finish(c) PROVE QP!Poll(c)
  BY <1>3 DEF Finish, Q!Finish, QP!Finish, QP!Poll, Q!Release, QP!Release, Q!Goto, QP!Goto,
              Q!laneVars, QP!laneVars
<1>4. ASSUME NEW c \in Dispatches, Reject(c) PROVE QP!Poll(c)
  BY <1>4 DEF Reject, Q!RejectRunning, QP!RejectRunning, QP!Poll, Q!Release, QP!Release,
              Q!Cancelled, QP!Cancelled, Q!Goto, QP!Goto, Q!laneVars, QP!laneVars
<1>5. ASSUME NEW c \in Dispatches, Yield(c) PROVE QP!Poll(c)
  BY <1>5 DEF Yield, Q!Yield, QP!Yield, QP!Poll, Q!Goto, QP!Goto, Q!laneVars, QP!laneVars, Q!semVars, QP!semVars
<1>6. ASSUME ClearLane PROVE QP!ClearLane(MainLane)
  BY <1>6 DEF ClearLane, Q!ClearLane, QP!ClearLane, Q!NewLane, QP!NewLane, Q!NoInc, QP!NoInc
<1>7. ASSUME NEW c \in Dispatches,
             \/ Body(c) \/ Agent(c) \/ AgentDone(c) \/ LaneFailed(c) \/ StopTyping(c)
             \/ SendReply(c) \/ RemoveMedia(c) \/ Stop(c)
      PROVE  UNCHANGED QP!vars
  BY <1>7 DEF Body, Agent, AgentDone, LaneFailed, StopTyping, SendReply, RemoveMedia, Stop, queueVars, QP!vars
<1>8. CASE UNCHANGED pipelineVars
  BY <1>8 DEF pipelineVars, queueVars, QP!vars
<1> QED BY <1>1, <1>2, <1>3, <1>4, <1>5, <1>6, <1>7, <1>8 DEF PipelineNext, DispatchStep, QP!Next

-----------------------------------------------------------------------------
(* The runner's part.                                                      *)

\* A step of the runner moves its own call: on in the lifecycle, whose entry
\* is its own or stays, or on after it, when the entry is gone.
LEMMA RunnerMoves ==
  ASSUME DispatchTypes, NEW c \in Dispatches, R!Step(c)
  PROVE  \E lbl \in R!PCs :
           /\ R!InProgress(c) /\ rpc' = [rpc EXCEPT ![c] = lbl]
           /\ \/ /\ lbl \in R!InLifecycle \cup {"release"}
                 /\ active' \in {active, [active EXCEPT ![Session] = c]}
              \/ /\ lbl \in {"notify", "drain", "take", "reinsert", "done"}
                 /\ \/ active' = [active EXCEPT ![Session] = R!NoRun]
                    \/ active' = active /\ ~R!InRun(c)
<1>1. CASE R!Insert(c) \/ R!Reinsert(c)
  BY <1>1 DEF R!Insert, R!Reinsert, R!Goto, R!PCs, R!InLifecycle, R!InProgress, R!Over
<1>2. CASE R!Load(c) \/ R!ResolveModel(c) \/ R!Save(c)
  BY <1>2 DEF R!Load, R!ResolveModel, R!Save, R!Leave, R!Goto, R!sharedVars, R!PCs, R!InLifecycle,
              R!InProgress, R!Over
<1>3. CASE R!CallModel(c) \/ R!Request(c) \/ R!Respond(c)
  BY <1>3 DEF R!CallModel, R!Request, R!Respond, R!Leave, R!Goto, R!sharedVars, R!PCs, R!InLifecycle,
              R!InProgress, R!Over
<1>4. CASE R!CallTool(c) \/ R!RunTool(c)
  BY <1>4 DEF R!CallTool, R!RunTool, R!Leave, R!Goto, R!sharedVars, R!PCs, R!InLifecycle, R!InProgress, R!Over, DispatchTypes
<1>5. CASE R!Release(c)
  BY <1>5 DEF R!Release, R!Goto, R!PCs, R!InLifecycle, R!InProgress, R!Over
<1>6. CASE R!Notify(c) \/ R!Drain(c) \/ R!Dequeue(c)
  BY <1>6 DEF R!Notify, R!Drain, R!Dequeue, R!Goto, R!sharedVars, R!PCs, R!InLifecycle, R!InProgress, R!InRun, R!Over
<1> QED BY <1>1, <1>2, <1>3, <1>4, <1>5, <1>6 DEF R!Step

-----------------------------------------------------------------------------
(* The invariant.                                                          *)

\* What a step of call c leaves to the others.
Alone(c) ==
  /\ \A d \in Dispatches \ {c} :
       /\ qpc'[d] = qpc[d] /\ rpc'[d] = rpc[d] /\ phase'[d] = phase[d] /\ reply'[d] = reply[d]
       /\ active'[Session] = d => active[Session] = d
  /\ typing' \subseteq typing \cup {c} /\ media' \subseteq media

\* The queue's part, the types, and what a call's own step has to show.
LEMMA OwnStepKeeps ==
  ASSUME DispatchInv, NEW c \in Dispatches, DispatchAssumption, [PipelineNext]_pipelineVars,
         DispatchTypes', Alone(c), Together(c)',
         UNCHANGED <<created, width, cleared, rootCancelled>>,
         cleared = {} => rpc'[c] \notin {"busy", "dropped"}
  PROVE  DispatchInv'
<1>1. QP!Inv'
  BY QueueAssumed, QueueMoves, QP!NextInv DEF DispatchInv
<1>2. ASSUME NEW d \in Dispatches, d # c PROVE Together(d)'
  <2>1. /\ Together(d)
        /\ qpc'[d] = qpc[d] /\ rpc'[d] = rpc[d] /\ phase'[d] = phase[d] /\ reply'[d] = reply[d]
        /\ active'[Session] = d => active[Session] = d
        /\ d \in typing' => d \in typing
        /\ d \in media' => d \in media
    BY <1>2 DEF DispatchInv, Alone
  <2> QED BY <2>1 DEF Together, R!InProgress, R!InRun
<1>3. Undisturbed'
  BY DEF DispatchInv, Undisturbed, Alone
<1> QED BY <1>1, <1>2, <1>3 DEF DispatchInv

\* While no lane was cleared, a call whose command owns the permit is alone:
\* no other is in progress, and the session's entry is not another's.
LEMMA OneRuns ==
  ASSUME DispatchAssumption, DispatchInv, cleared = {},
         NEW c \in Dispatches, qpc[c] \in {"holding", "executing"},
         NEW d \in Dispatches, qpc[d] \in {"holding", "executing"}
  PROVE  c = d
<1>1. created = 1 /\ width[1] = 1
  BY DEF DispatchInv, Undisturbed
<1>2. inc[c] = 1 /\ inc[d] = 1
  <2>1. \A e \in Dispatches : inc[e] \in 1..MaxIncs /\ inc[e] <= 1
    BY <1>1 DEF DispatchInv, QP!Inv, QP!TypeOK, QP!KnownIncs, QP!Incs
  <2> QED BY <2>1 DEF DispatchAssumption
<1>3. c \in QP!Running(1) /\ d \in QP!Running(1)
  BY <1>2 DEF QP!Running
<1> QED BY <1>1, <1>3, QueueAssumed, QP!OneRunsInLane DEF DispatchInv

\* Where a call of run_agent may stand.
LEMMA Standing ==
  ASSUME NEW c
  PROVE  /\ R!InProgress(c) <=> rpc[c] \notin {"idle", "busy", "done", "dropped"}
         /\ R!InRun(c) <=> rpc[c] \in {"load", "prompt", "loop", "ask", "stream", "tools", "execute", "save", "release"}
         /\ R!InProgress(c)' <=> rpc'[c] \notin {"idle", "busy", "done", "dropped"}
         /\ R!InRun(c)' <=> rpc'[c] \in {"load", "prompt", "loop", "ask", "stream", "tools", "execute", "save", "release"}
BY DEF R!InProgress, R!InRun, R!Over, R!InLifecycle

\* The functions of the pipeline, as their updates need them.
LEMMA DispatchShapes ==
  ASSUME DispatchInv
  PROVE  /\ qpc \in [Dispatches -> QP!PCs] /\ rpc \in [Dispatches -> R!PCs] /\ phase \in [Dispatches -> Phases]
         /\ reply \in [Dispatches -> Replies] /\ active \in [{Session} -> Dispatches \cup {R!NoRun}]
BY DEF DispatchInv, QP!Inv, QP!TypeOK, DispatchTypes

\* A dispatch begins with an idle call.
LEMMA BeginKeeps ==
  ASSUME DispatchAssumption, DispatchInv, [PipelineNext]_pipelineVars,
         NEW c \in Dispatches, Begin(c)
  PROVE  DispatchInv'
<1>1. PICK lbl \in {"nolane", "snapshot"} : qpc' = [qpc EXCEPT ![c] = lbl]
  BY DEF Begin, Q!Lookup, Q!Goto
<1>2. /\ qpc[c] = "idle" /\ phase[c] = "idle"
      /\ phase' = [phase EXCEPT ![c] = "lane"] /\ typing' = typing \cup {c}
      /\ UNCHANGED <<rpc, active, reply, media, created, width, cleared, rootCancelled>>
  BY DEF Begin, Q!Lookup, Q!laneVars, Enter, runnerVars
<1>3. Alone(c) /\ DispatchTypes'
  BY <1>1, <1>2, DispatchShapes DEF Alone, DispatchTypes, DispatchInv, Phases
<1>4. Together(c)'
  <2>1. Together(c) /\ qpc'[c] = lbl /\ phase'[c] = "lane"
    BY <1>1, <1>2, DispatchShapes DEF DispatchInv
  <2> QED BY <1>2, <2>1, Standing DEF Together
<1> QED BY <1>2, <1>3, <1>4, OwnStepKeeps DEF DispatchInv, Undisturbed

\* The queue's steps short of the body.
LEMMA QueueStepKeeps ==
  ASSUME DispatchAssumption, DispatchInv, [PipelineNext]_pipelineVars,
         NEW c \in Dispatches, QueueStep(c)
  PROVE  DispatchInv'
<1> DEFINE Moves(lbl) == /\ qpc' = [qpc EXCEPT ![c] = lbl]
                         /\ qpc[c] \notin {"idle", "done"} /\ lbl \notin {"idle", "done"}
                         /\ qpc[c] \in {"holding", "executing"} => lbl \in {"holding", "executing"}
<1>1. PICK lbl : Moves(lbl)
  <2>1. Q!Count(c) => Moves("waiting")
    BY DEF Q!Count, Q!Goto
  <2>2. Q!CheckWaiting(c) => Moves("polling")
    BY DEF Q!CheckWaiting, Q!Goto
  <2>3. Q!RejectWaiting(c) => Moves("cleared")
    BY DEF Q!RejectWaiting, Q!Goto
  <2>4. Q!Acquire(c) => Moves("holding") \/ Moves("waiting")
    BY DEF Q!Acquire, Q!Goto
  <2>5. Q!CheckRunning(c) => Moves("executing")
    BY DEF Q!CheckRunning, Q!Goto
  <2> HIDE DEF Moves
  <2> QED BY <2>1, <2>2, <2>3, <2>4, <2>5 DEF QueueStep
<1>2. UNCHANGED <<created, width, cleared, rootCancelled>>
  BY DEF QueueStep, Q!Count, Q!CheckWaiting, Q!RejectWaiting, Q!Acquire, Q!CheckRunning, Q!laneVars
<1>3. UNCHANGED <<rpc, active, phase, typing, reply, media>>
  BY DEF QueueStep, runnerVars, dispatchVars
<1>4. Alone(c) /\ DispatchTypes'
  BY <1>1, <1>3, DispatchShapes DEF Alone, DispatchTypes, DispatchInv
<1>5. Together(c)'
  <2>1. Together(c) /\ qpc'[c] = lbl
    BY <1>1, DispatchShapes DEF DispatchInv
  <2> QED BY <1>1, <1>3, <2>1, Standing DEF Together
<1> QED BY <1>2, <1>3, <1>4, <1>5, OwnStepKeeps DEF DispatchInv, Undisturbed

\* While no lane was cleared, a command that is polled finds no entry.
LEMMA NoEntry ==
  ASSUME DispatchAssumption, DispatchInv, cleared = {},
         NEW c \in Dispatches, qpc[c] = "executing", rpc[c] = "idle"
  PROVE  active[Session] = R!NoRun
<1> SUFFICES ASSUME active[Session] # R!NoRun PROVE FALSE
  OBVIOUS
<1>1. PICK d \in Dispatches : active[Session] = d
  BY DispatchShapes
<1>2. Together(d) /\ rpc[d] # "dropped"
  BY DEF DispatchInv, Undisturbed
<1>3. R!InRun(d) /\ qpc[d] \in {"holding", "executing"}
  BY <1>1, <1>2, Standing DEF Together
<1>4. c = d
  BY <1>3, OneRuns
<1> QED BY <1>3, <1>4, Standing

\* The body answers by itself, or calls run_agent.
LEMMA BodyKeeps ==
  ASSUME DispatchAssumption, DispatchInv, [PipelineNext]_pipelineVars,
         NEW c \in Dispatches, Body(c)
  PROVE  DispatchInv'
<1>1. /\ qpc[c] = "executing" /\ reply[c] = "none" /\ rpc[c] = "idle"
      /\ UNCHANGED <<qpc, active, phase, typing, media, created, width, cleared, rootCancelled>>
  BY DEF Body, queueVars, runnerVars, R!Call, R!sharedVars
<1>2. PICK lbl, what :
        /\ rpc' = [rpc EXCEPT ![c] = lbl] /\ reply' = [reply EXCEPT ![c] = what]
        /\ \/ lbl = "idle" /\ what \in {"error", "reply"}
           \/ lbl = (IF active[Session] # R!NoRun THEN "busy" ELSE "insert") /\ what = "none"
  <2>1. CASE UNCHANGED runnerVars
    <3>1. rpc' = [rpc EXCEPT ![c] = "idle"]
      BY <1>1, <2>1, DispatchShapes DEF runnerVars
    <3>2. PICK what \in {"error", "reply"} : reply' = [reply EXCEPT ![c] = what]
      <4>1. CASE R!Call(c, Session)
        BY <1>1, <2>1, <4>1, DispatchShapes DEF R!Call, R!Goto, runnerVars
      <4> QED BY <4>1 DEF Body
    <3> QED BY <3>1, <3>2
  <2>2. CASE R!Call(c, Session) /\ UNCHANGED reply
    <3>1. rpc' = [rpc EXCEPT ![c] = IF active[Session] # R!NoRun THEN "busy" ELSE "insert"]
      BY <2>2 DEF R!Call, R!Goto
    <3>2. reply' = [reply EXCEPT ![c] = "none"]
      BY <1>1, <2>2, DispatchShapes
    <3> QED BY <3>1, <3>2
  <2> QED BY <2>1, <2>2 DEF Body
<1>3. rpc'[c] = lbl /\ reply'[c] = what
  BY <1>2, DispatchShapes
<1>4. Alone(c) /\ DispatchTypes'
  <2>1. lbl \in R!PCs /\ what \in Replies
    BY <1>2 DEF R!PCs, Replies
  <2> QED BY <1>1, <1>2, <2>1, DispatchShapes DEF Alone, DispatchTypes, DispatchInv
<1>5. Together(c)'
  <2>1. Together(c)
    BY DEF DispatchInv
  <2> QED BY <1>1, <1>2, <1>3, <2>1, Standing DEF Together
<1>6. cleared = {} => rpc'[c] \notin {"busy", "dropped"}
  BY <1>1, <1>2, <1>3, NoEntry
<1> QED BY <1>1, <1>4, <1>5, <1>6, OwnStepKeeps

\* The runner's steps.
LEMMA AgentKeeps ==
  ASSUME DispatchAssumption, DispatchInv, [PipelineNext]_pipelineVars,
         NEW c \in Dispatches, Agent(c)
  PROVE  DispatchInv'
<1>1. /\ qpc[c] = "executing" /\ R!Step(c)
      /\ UNCHANGED <<qpc, phase, typing, reply, media, created, width, cleared, rootCancelled>>
  BY DEF Agent, queueVars, dispatchVars
<1>2. PICK lbl \in R!PCs :
           /\ R!InProgress(c) /\ rpc' = [rpc EXCEPT ![c] = lbl]
           /\ \/ /\ lbl \in R!InLifecycle \cup {"release"}
                 /\ active' \in {active, [active EXCEPT ![Session] = c]}
              \/ /\ lbl \in {"notify", "drain", "take", "reinsert", "done"}
                 /\ \/ active' = [active EXCEPT ![Session] = R!NoRun]
                    \/ active' = active /\ ~R!InRun(c)
  BY <1>1, RunnerMoves DEF DispatchInv
<1>3. Alone(c) /\ DispatchTypes'
  <2>1. \A d \in Dispatches : d # R!NoRun
    BY DEF DispatchAssumption, R!NoRun
  <2>2. /\ active' \in [{Session} -> Dispatches \cup {R!NoRun}]
        /\ \A d \in Dispatches \ {c} : active'[Session] = d => active[Session] = d
    BY <1>2, <2>1, DispatchShapes
  <2> QED BY <1>1, <1>2, <2>2, DispatchShapes DEF Alone, DispatchTypes, DispatchInv
<1>4. rpc'[c] = lbl /\ lbl \notin {"busy", "dropped", "idle"}
  BY <1>2, DispatchShapes DEF R!InLifecycle
<1>5. Together(c)'
  <2>1. Together(c) /\ c # R!NoRun
    BY DEF DispatchInv, DispatchAssumption, R!NoRun
  <2>2. active'[Session] = c => R!InRun(c)'
    <3>1. CASE lbl \in R!InLifecycle \cup {"release"}
      BY <1>4, <3>1 DEF R!InRun
    <3>2. CASE active' = [active EXCEPT ![Session] = R!NoRun]
      BY <2>1, <3>2, DispatchShapes
    <3>3. CASE active' = active /\ ~R!InRun(c)
      BY <1>2, <2>1, <3>3, Standing DEF Together
    <3> QED BY <1>2, <3>1, <3>2, <3>3
  <2> QED BY <1>1, <1>2, <2>1, <2>2, Standing DEF Together
<1> QED BY <1>1, <1>3, <1>4, <1>5, OwnStepKeeps

\* The ends of a poll of the body.
LEMMA PollEndKeeps ==
  ASSUME DispatchAssumption, DispatchInv, [PipelineNext]_pipelineVars,
         NEW c \in Dispatches, Yield(c) \/ Finish(c)
  PROVE  DispatchInv'
<1>1. PICK lbl : /\ qpc' = [qpc EXCEPT ![c] = lbl] /\ qpc[c] = "executing"
                 /\ \/ lbl = "holding"
                    \/ /\ lbl = "done"
                       /\ reply[c] # "none"
  BY DEF Yield, Finish, Q!Yield, Q!Finish, Q!Goto
<1>2. UNCHANGED <<rpc, active, phase, typing, reply, media, created, width, cleared, rootCancelled>>
  BY DEF Yield, Finish, Q!Yield, Q!Finish, Q!laneVars, runnerVars, dispatchVars
<1>3. Alone(c) /\ DispatchTypes'
  BY <1>1, <1>2, DispatchShapes DEF Alone, DispatchTypes, DispatchInv
<1>4. Together(c)'
  <2>1. Together(c) /\ qpc'[c] = lbl
    BY <1>1, DispatchShapes DEF DispatchInv
  <2> QED BY <1>1, <1>2, <2>1, Standing DEF Together
<1> QED BY <1>2, <1>3, <1>4, OwnStepKeeps DEF DispatchInv, Undisturbed

\* A lane that was cleared drops its commands.
LEMMA RejectKeeps ==
  ASSUME DispatchAssumption, DispatchInv, [PipelineNext]_pipelineVars,
         NEW c \in Dispatches, Reject(c)
  PROVE  DispatchInv'
<1>1. /\ qpc' = [qpc EXCEPT ![c] = "cleared"] /\ qpc[c] = "holding" /\ cleared # {}
      /\ UNCHANGED <<active, phase, typing, reply, media, created, width, cleared, rootCancelled>>
  BY DEF Reject, Q!RejectRunning, Q!Goto, Q!Cancelled, Q!laneVars, dispatchVars, runnerVars, R!DropCall,
         R!sharedVars, DispatchInv, Undisturbed
<1>2. PICK lbl : /\ rpc' = [rpc EXCEPT ![c] = lbl]
                 /\ \/ R!InProgress(c) /\ lbl = "dropped"
                    \/ ~R!InProgress(c) /\ lbl = rpc[c]
  BY DispatchShapes DEF Reject, R!DropCall, R!Goto, runnerVars
<1>3. rpc'[c] = lbl /\ qpc'[c] = "cleared" /\ lbl \in R!PCs
  BY <1>1, <1>2, DispatchShapes DEF R!PCs
<1>4. Alone(c) /\ DispatchTypes'
  BY <1>1, <1>2, <1>3, DispatchShapes DEF Alone, DispatchTypes, DispatchInv
<1>5. Together(c)'
  <2>1. Together(c)
    BY DEF DispatchInv
  <2> QED BY <1>1, <1>2, <1>3, <2>1, Standing DEF Together
<1> QED BY <1>1, <1>4, <1>5, OwnStepKeeps

\* What a dispatch does outside its command.
LEMMA OutsideKeeps ==
  ASSUME DispatchAssumption, DispatchInv, [PipelineNext]_pipelineVars, NEW c \in Dispatches,
         \/ AgentDone(c) \/ LaneFailed(c) \/ StopTyping(c) \/ SendReply(c) \/ RemoveMedia(c) \/ Stop(c)
  PROVE  DispatchInv'
<1>1. UNCHANGED <<qpc, rpc, active, created, width, cleared, rootCancelled>>
  BY DEF AgentDone, LaneFailed, StopTyping, SendReply, RemoveMedia, Stop, queueVars, runnerVars
<1>2. /\ Together(c) /\ typing \subseteq Dispatches /\ media \subseteq WithMedia
  BY DEF DispatchInv, DispatchTypes
<1>3. /\ Alone(c) /\ DispatchTypes' /\ Together(c)'
  <2>1. CASE AgentDone(c)
    <3>1. PICK what \in {"reply", "silent", "error"} : reply' = [reply EXCEPT ![c] = what]
      BY <2>1 DEF AgentDone
    <3>2. rpc[c] \in {"busy", "done"} /\ UNCHANGED <<phase, typing, media>>
      BY <2>1 DEF AgentDone
    <3>3. reply'[c] = what /\ reply' \in [Dispatches -> Replies] /\ \A d \in Dispatches \ {c} : reply'[d] = reply[d]
      BY <3>1, DispatchShapes DEF Replies
    <3> QED BY <1>1, <1>2, <3>2, <3>3, DispatchShapes, Standing DEF Alone, DispatchTypes, Together
  <2>2. ASSUME NEW p \in Phases, phase' = [phase EXCEPT ![c] = p],
               phase[c] # "idle", p # "idle", UNCHANGED reply,
               typing' \subseteq typing, media' \subseteq media,
               p \in {"send", "clean", "returned"} => qpc[c] = "done" /\ c \notin typing',
               p = "returned" => c \notin media'
        PROVE  Alone(c) /\ DispatchTypes' /\ Together(c)'
    <3>1. phase'[c] = p /\ phase' \in [Dispatches -> Phases] /\ \A d \in Dispatches \ {c} : phase'[d] = phase[d]
      BY <2>2, DispatchShapes
    <3> QED BY <1>1, <1>2, <2>2, <3>1, DispatchShapes, Standing DEF Alone, DispatchTypes, Together
  <2>3. CASE LaneFailed(c)
    BY <2>2, <2>3 DEF LaneFailed, Enter, Phases
  <2>4. CASE StopTyping(c)
    BY <2>2, <2>4 DEF StopTyping, Enter, Phases
  <2>5. CASE SendReply(c)
    BY <1>2, <2>2, <2>5 DEF SendReply, Enter, Phases, Together
  <2>6. CASE RemoveMedia(c)
    BY <1>2, <2>2, <2>6 DEF RemoveMedia, Enter, Phases, Together
  <2>7. CASE Stop(c)
    BY <1>1, <1>2, <2>7, DispatchShapes, Standing DEF Stop, Alone, DispatchTypes, Together
  <2> QED BY <2>1, <2>3, <2>4, <2>5, <2>6, <2>7
<1> QED BY <1>1, <1>3, OwnStepKeeps DEF DispatchInv, Undisturbed

\* A lane that is cleared ends what Undisturbed says; nothing moves.
LEMMA ClearKeeps ==
  ASSUME DispatchAssumption, DispatchInv, [PipelineNext]_pipelineVars, ClearLane PROVE DispatchInv'
<1>1. UNCHANGED <<qpc, rpc, active, phase, typing, reply, media, rootCancelled>> /\ cleared' # {}
  BY DEF ClearLane, Q!ClearLane, Q!NewLane, runnerVars, dispatchVars
<1>2. QP!Inv'
  BY QueueAssumed, QueueMoves, QP!NextInv DEF DispatchInv
<1> QED BY <1>1, <1>2 DEF DispatchInv, DispatchTypes, Together, Undisturbed, R!InProgress, R!InRun

\* All steps.
LEMMA DispatchNextInv == ASSUME DispatchAssumption, DispatchInv, [PipelineNext]_pipelineVars PROVE DispatchInv'
<1>1. CASE UNCHANGED pipelineVars
  <2>1. QP!Inv'
    BY QueueAssumed, QueueMoves, QP!NextInv DEF DispatchInv
  <2> QED BY <1>1, <2>1 DEF DispatchInv, DispatchTypes, Together, Undisturbed, R!InProgress, R!InRun,
                            pipelineVars, queueVars, runnerVars
<1> QED BY <1>1, BeginKeeps, QueueStepKeeps, BodyKeeps, AgentKeeps, PollEndKeeps, RejectKeeps, OutsideKeeps,
           ClearKeeps DEF PipelineNext, DispatchStep

\* No dispatch at first.
LEMMA DispatchInitInv == ASSUME DispatchAssumption, PipelineInit PROVE DispatchInv
<1>1. QP!Inv
  BY QueueAssumed, SameQueue, QP!InitInv DEF PipelineInit
<1>2. /\ qpc = [c \in Dispatches |-> "idle"] /\ cleared = {} /\ rootCancelled = FALSE /\ created = 1
      /\ width[1] = 1
  BY DEF PipelineInit, Q!Init, Q!Incs, DispatchAssumption
<1>3. DispatchTypes
  BY DEF PipelineInit, DispatchTypes, Phases, Replies, R!PCs
<1>4. ASSUME NEW c \in Dispatches PROVE Together(c)
  BY <1>2, Standing DEF PipelineInit, Together, R!NoRun, DispatchAssumption
<1>5. Undisturbed
  BY <1>2 DEF PipelineInit, Undisturbed
<1> QED BY <1>1, <1>3, <1>4, <1>5 DEF DispatchInv

-----------------------------------------------------------------------------
(* The runner's theorems, under the pipeline.                              *)

\* The runner with what the lane promises it: one call at a time, not dropped.
RP == INSTANCE AgentRunnerProofs WITH
  Runs <- Dispatches, Queued <- {}, Sessions <- {Session}, Waiters <- {},
  Droppable <- {}, Parallel <- 1, MaxIter <- 1, MaxCalls <- 0, Aborts <- FALSE,
  pc <- rpc, cancelled <- {}, aborting <- {},
  queue <- [s \in {Session} |-> <<>>], arrived <- [s \in {Session} |-> <<>>],
  sess <- [c \in Dispatches |-> Session], msg <- [c \in Dispatches |-> c],
  calls <- [c \in Dispatches |-> 0], late <- [c \in Dispatches |-> 0], wpc <- <<>>, wsess <- <<>>

\* The runner with nothing promised.
RA == INSTANCE AgentRunnerProofs WITH
  Runs <- Dispatches, Queued <- {}, Sessions <- {Session}, Waiters <- {},
  Droppable <- Dispatches, Parallel <- Cardinality(Dispatches) + 1, MaxIter <- 1, MaxCalls <- 0,
  Aborts <- FALSE, pc <- rpc, cancelled <- {}, aborting <- {},
  queue <- [s \in {Session} |-> <<>>], arrived <- [s \in {Session} |-> <<>>],
  sess <- [c \in Dispatches |-> Session], msg <- [c \in Dispatches |-> c],
  calls <- [c \in Dispatches |-> 0], late <- [c \in Dispatches |-> 0], wpc <- <<>>, wsess <- <<>>

\* The runner's assumptions follow from the pipeline's.
LEMMA RunnerAssumed ==
  ASSUME DispatchAssumption
  PROVE  RP!RunnerAssumption /\ RP!OneAtATime /\ RA!RunnerAssumption
<1>1. Cardinality(Dispatches) \in Nat
  BY FS_CardinalityType DEF DispatchAssumption
<1>2. Cardinality(Dispatches) + 1 \in Nat \ {0}
  BY <1>1
<1>3. RP!RunnerAssumption
  BY DEF DispatchAssumption, RP!RunnerAssumption, RP!NoRun, IsFiniteSet, RP!IsFiniteSet
<1>4. RA!RunnerAssumption
  BY <1>2 DEF DispatchAssumption, RA!RunnerAssumption, RA!NoRun, IsFiniteSet, RA!IsFiniteSet
<1> QED BY <1>3, <1>4 DEF RP!OneAtATime

\* The states the runner starts in.
LEMMA SameRunner == ASSUME DispatchAssumption, PipelineInit PROVE RP!Init /\ RA!Init
<1>1. /\ [c \in Dispatches |-> Session] \in [Dispatches -> {Session}]
      /\ <<>> = [w \in {} |-> "idle"] /\ <<>> \in [{} -> {Session}]
  OBVIOUS
<1>2. RP!Init
  BY <1>1 DEF PipelineInit, RP!Init, RP!NoRun, R!NoRun
<1>3. RA!Init
  BY <1>1 DEF PipelineInit, RA!Init, RA!NoRun, R!NoRun
<1> QED BY <1>2, <1>3

\* Making a history fit is the same whatever is promised.
LEMMA SameFitted == ASSUME NEW h PROVE R!Fitted(h) = RP!Fitted(h) /\ R!Fitted(h) = RA!Fitted(h)
<1>1. ASSUME NEW g PROVE R!Pruned(g) = RP!Pruned(g) /\ R!Pruned(g) = RA!Pruned(g)
  BY DEF R!Pruned, RP!Pruned, RA!Pruned, R!Stays, RP!Stays, RA!Stays, R!Heads, RP!Heads, RA!Heads, R!Cut,
         RP!Cut, RA!Cut, R!Summary, RP!Summary, RA!Summary, R!NoRun, RP!NoRun, RA!NoRun, R!Truncated,
         RP!Truncated, RA!Truncated
<1>2. ASSUME NEW g PROVE /\ R!HasPendingToolCall(g) = RP!HasPendingToolCall(g)
                         /\ R!HasPendingToolCall(g) = RA!HasPendingToolCall(g)
  <2>1. R!Tool = RP!Tool /\ R!Tool = RA!Tool
    BY DEF R!Tool, RP!Tool, RA!Tool, R!NoRun, RP!NoRun, RA!NoRun
  <2>2. ASSUME NEW S PROVE R!Cardinality(S) = RP!Cardinality(S) /\ R!Cardinality(S) = RA!Cardinality(S)
    BY DEF R!Cardinality, RP!Cardinality, RA!Cardinality
  <2>3. R!HasPendingToolCall(g) = RP!HasPendingToolCall(g)
    BY <2>1, <2>2, Zenon DEF R!HasPendingToolCall, RP!HasPendingToolCall
  <2>4. R!HasPendingToolCall(g) = RA!HasPendingToolCall(g)
    BY <2>1, <2>2, Zenon DEF R!HasPendingToolCall, RA!HasPendingToolCall
  <2> QED BY <2>3, <2>4
<1>3. ASSUME NEW g, NEW p PROVE R!Heads(g, p) = RP!Heads(g, p) /\ R!Heads(g, p) = RA!Heads(g, p)
  BY DEF R!Heads, RP!Heads, RA!Heads
<1>4. ASSUME NEW g, NEW p, NEW q
      PROVE  R!Compacted(g, p, q) = RP!Compacted(g, p, q) /\ R!Compacted(g, p, q) = RA!Compacted(g, p, q)
  BY DEF R!Compacted, RP!Compacted, RA!Compacted, R!Summary, RP!Summary, RA!Summary, R!NoRun, RP!NoRun, RA!NoRun
<1>5. ASSUME NEW g, NEW p PROVE R!Shortened(g, p) = RP!Shortened(g, p) /\ R!Shortened(g, p) = RA!Shortened(g, p)
  <2> DEFINE can == {q \in Preserved : Len(g) - p > q}
  <2>1. {R!Compacted(g, p, q) : q \in can} = {RP!Compacted(g, p, q) : q \in can}
    BY <1>4, Zenon
  <2>2. {R!Compacted(g, p, q) : q \in can} = {RA!Compacted(g, p, q) : q \in can}
    BY <1>4, Zenon
  <2> QED BY <2>1, <2>2, Zenon DEF R!Shortened, RP!Shortened, RA!Shortened
<1> QED BY <1>1, <1>2, <1>3, <1>5 DEF R!Fitted, RP!Fitted, RA!Fitted

\* A step of run_agent is one whatever is promised.
LEMMA SameStep == ASSUME NEW c \in Dispatches, R!Step(c) PROVE RP!Step(c) /\ RA!Step(c)
<1> USE DEF R!Goto, RP!Goto, RA!Goto, R!Leave, RP!Leave, RA!Leave, R!sharedVars, RP!sharedVars, RA!sharedVars,
            R!waitVars, RP!waitVars, RA!waitVars, R!NoRun, RP!NoRun, RA!NoRun, RP!Step, RA!Step,
            R!Works, RP!Works, RA!Works
<1>1. CASE R!Insert(c)
  BY <1>1 DEF R!Insert, RP!Insert, RA!Insert
<1>2. CASE R!Load(c)
  BY <1>2, SameFitted DEF R!Load, RP!Load, RA!Load, R!User, RP!User, RA!User
<1>3. CASE R!ResolveModel(c)
  BY <1>3 DEF R!ResolveModel, RP!ResolveModel, RA!ResolveModel
<1>4. CASE R!CallModel(c) \/ R!Request(c)
  BY <1>4 DEF R!CallModel, RP!CallModel, RA!CallModel, R!Request, RP!Request, RA!Request
<1>5. CASE R!Respond(c)
  BY <1>5 DEF R!Respond, RP!Respond, RA!Respond, R!Assistant, RP!Assistant, RA!Assistant
<1>6. CASE R!CallTool(c) \/ R!RunTool(c)
  BY <1>6 DEF R!CallTool, RP!CallTool, RA!CallTool, R!RunTool, RP!RunTool, RA!RunTool, R!Tool, RP!Tool, RA!Tool
<1>7. CASE R!Save(c)
  BY <1>7 DEF R!Save, RP!Save, RA!Save
<1>8. CASE R!Release(c)
  BY <1>8 DEF R!Release, RP!Release, RA!Release
<1>9. CASE R!Notify(c)
  BY <1>9 DEF R!Notify, RP!Notify, RA!Notify
<1>10. CASE R!Drain(c) \/ R!Dequeue(c)
  BY <1>10 DEF R!Drain, RP!Drain, RA!Drain, R!Dequeue, RP!Dequeue, RA!Dequeue
<1>11. CASE R!Reinsert(c)
  BY <1>11 DEF R!Reinsert, RP!Reinsert, RA!Reinsert
<1> QED BY <1>1, <1>2, <1>3, <1>4, <1>5, <1>6, <1>7, <1>8, <1>9, <1>10, <1>11 DEF R!Step

\* A call of run_agent from the body of a command: with nothing promised there
\* is always room, and while no lane was cleared no other call is in progress.
LEMMA SameCall ==
  ASSUME DispatchAssumption, DispatchInv, NEW c \in Dispatches, qpc[c] = "executing", R!Call(c, Session)
  PROVE  RA!Call(c, Session) /\ (cleared = {} => RP!Call(c, Session))
<1> DEFINE A == {d \in Dispatches : RA!InProgress(d)}
           P == {d \in Dispatches : RP!InProgress(d)}
<1>1. A \subseteq Dispatches /\ IsFiniteSet(Dispatches) /\ \A m, n \in Nat : m <= n => m < n + 1
  BY DEF DispatchAssumption
<1>2. /\ Cardinality(A) \in Nat /\ Cardinality(Dispatches) \in Nat
      /\ Cardinality(A) <= Cardinality(Dispatches)
  BY <1>1, FS_Subset, FS_CardinalityType
<1>3. Cardinality(A) < Cardinality(Dispatches) + 1
  BY <1>1, <1>2
<1>4. RA!Call(c, Session)
  BY <1>3 DEF R!Call, RA!Call, R!Goto, RA!Goto, R!sharedVars, RA!sharedVars, R!waitVars, RA!waitVars, R!NoRun,
              RA!NoRun, RA!Cardinality, Cardinality
<1>5. ASSUME cleared = {} PROVE RP!Call(c, Session)
  <2>1. rpc[c] = "idle"
    BY DEF R!Call
  <2>2. ASSUME NEW d \in Dispatches, RP!InProgress(d) PROVE FALSE
    <3>1. R!InProgress(d)
      BY <2>2 DEF RP!InProgress, R!InProgress, RP!Over, R!Over
    <3>2. qpc[d] \in {"holding", "executing"}
      BY <3>1 DEF DispatchInv, Together
    <3>3. d = c
      BY <1>5, <3>2, OneRuns
    <3> QED BY <2>1, <3>1, <3>3, Standing
  <2>3. P = {}
    BY <2>2
  <2>4. Cardinality(P) < 1
    BY <2>3, FS_EmptySet
  <2> QED BY <2>4 DEF R!Call, RP!Call, R!Goto, RP!Goto, R!sharedVars, RP!sharedVars, R!waitVars, RP!waitVars,
                      R!NoRun, RP!NoRun, RP!Cardinality, Cardinality
<1> QED BY <1>4, <1>5

\* What a step of the pipeline does to the runner: nothing, or one of its own
\* steps; and while no lane was cleared, one that keeps what the lane promises.
LEMMA RunnerActs ==
  ASSUME DispatchAssumption, DispatchInv, [PipelineNext]_pipelineVars
  PROVE  /\ [RA!Next]_RA!vars
         /\ cleared' = {} => cleared = {} /\ [RP!Next]_RP!vars
<1>1. ASSUME UNCHANGED runnerVars PROVE UNCHANGED RA!vars /\ UNCHANGED RP!vars
  BY <1>1 DEF runnerVars, RA!vars, RP!vars
<1>2. cleared' = {} => cleared = {}
  <2>1. ASSUME NEW c, Begin(c) \/ QueueStep(c) PROVE cleared' = cleared
    BY <2>1 DEF Begin, QueueStep, Q!Lookup, Q!Count, Q!CheckWaiting, Q!RejectWaiting, Q!Acquire, Q!CheckRunning
  <2>2. ASSUME NEW c, Yield(c) \/ Finish(c) \/ Reject(c) PROVE cleared' = cleared
    BY <2>2 DEF Yield, Finish, Reject, Q!Yield, Q!Finish, Q!RejectRunning
  <2>3. ASSUME NEW c, Body(c) \/ Agent(c) \/ AgentDone(c) \/ Stop(c) PROVE cleared' = cleared
    BY <2>3 DEF Body, Agent, AgentDone, Stop, queueVars
  <2>4. ASSUME NEW c, LaneFailed(c) \/ StopTyping(c) \/ SendReply(c) \/ RemoveMedia(c) PROVE cleared' = cleared
    BY <2>4 DEF LaneFailed, StopTyping, SendReply, RemoveMedia, queueVars
  <2>5. CASE ClearLane
    BY <2>5 DEF ClearLane, Q!ClearLane
  <2>6. CASE UNCHANGED pipelineVars
    BY <2>6 DEF pipelineVars, queueVars
  <2> QED BY <2>1, <2>2, <2>3, <2>4, <2>5, <2>6 DEF PipelineNext, DispatchStep
<1>3. ASSUME NEW c \in Dispatches, Body(c), R!Call(c, Session)
      PROVE  RA!Next /\ (cleared = {} => RP!Next)
  <2>1. qpc[c] = "executing"
    BY <1>3 DEF Body
  <2> QED BY <1>3, <2>1, SameCall DEF RA!Next, RP!Next
<1>4. ASSUME NEW c \in Dispatches, Agent(c) PROVE RA!Next /\ RP!Next
  BY <1>4, SameStep DEF Agent, RA!Next, RP!Next
<1>5. ASSUME NEW c \in Dispatches, Reject(c), R!DropCall(c) PROVE RA!Next /\ cleared # {}
  <2>1. RA!DropCall(c)
    BY <1>5 DEF R!DropCall, RA!DropCall, R!Goto, RA!Goto, R!sharedVars, RA!sharedVars, R!waitVars, RA!waitVars,
                R!InProgress, RA!InProgress, R!Over, RA!Over
  <2>2. cleared # {}
    BY <1>5 DEF Reject, Q!RejectRunning, Q!Cancelled, DispatchInv, Undisturbed
  <2> QED BY <2>1, <2>2 DEF RA!Next
<1>6. \/ UNCHANGED runnerVars
      \/ \E c \in Dispatches : Body(c) /\ R!Call(c, Session)
      \/ \E c \in Dispatches : Agent(c)
      \/ \E c \in Dispatches : Reject(c) /\ R!DropCall(c)
  <2>1. ASSUME NEW c, Begin(c) \/ QueueStep(c) \/ Yield(c) \/ Finish(c) \/ AgentDone(c) \/ Stop(c)
        PROVE  UNCHANGED runnerVars
    BY <2>1 DEF Begin, QueueStep, Yield, Finish, AgentDone, Stop
  <2>2. ASSUME NEW c, LaneFailed(c) \/ StopTyping(c) \/ SendReply(c) \/ RemoveMedia(c)
        PROVE  UNCHANGED runnerVars
    BY <2>2 DEF LaneFailed, StopTyping, SendReply, RemoveMedia
  <2>3. ASSUME NEW c, Body(c) PROVE R!Call(c, Session) \/ UNCHANGED runnerVars
    BY <2>3 DEF Body
  <2>4. ASSUME NEW c, Reject(c) PROVE R!DropCall(c) \/ UNCHANGED runnerVars
    BY <2>4 DEF Reject
  <2>5. ASSUME ClearLane PROVE UNCHANGED runnerVars
    BY <2>5 DEF ClearLane
  <2>6. ASSUME UNCHANGED pipelineVars PROVE UNCHANGED runnerVars
    BY <2>6 DEF pipelineVars
  <2> QED BY <2>1, <2>2, <2>3, <2>4, <2>5, <2>6 DEF PipelineNext, DispatchStep
<1> QED BY <1>1, <1>2, <1>3, <1>4, <1>5, <1>6

\* Hence the runner's invariants: that of its histories in any case, that of
\* the lane while none was cleared, and that of its reports if a compaction may
\* go down to one message.
RunsInv ==
  /\ DispatchInv /\ RA!TurnsInv
  /\ cleared = {} => RP!LaneInv /\ (RP!OneIsKept => RP!KeptInv)

\* At first and from then on.
LEMMA RunsInitInv == ASSUME DispatchAssumption, PipelineInit PROVE RunsInv
BY DispatchInitInv, RunnerAssumed, SameRunner, RA!TurnsInit, RP!LaneInit, RP!KeptInit DEF RunsInv

LEMMA RunsNextInv == ASSUME DispatchAssumption, RunsInv, [PipelineNext]_pipelineVars PROVE RunsInv'
<1>1. DispatchInv'
  BY DispatchNextInv DEF RunsInv
<1>2. RA!TurnsInv'
  BY RunnerAssumed, RunnerActs, RA!TurnsNext DEF RunsInv
<1>3. cleared' = {} => RP!LaneInv'
  BY RunnerAssumed, RunnerActs, RP!LaneNext DEF RunsInv
<1>4. cleared' = {} => (RP!OneIsKept => RP!KeptInv')
  BY RunnerAssumed, RunnerActs, RP!KeptNext DEF RunsInv
<1>5. RP!OneIsKept' <=> RP!OneIsKept
  BY DEF RP!OneIsKept
<1> QED BY <1>1, <1>2, <1>3, <1>4, <1>5 DEF RunsInv

THEOREM RunsInvariance == ASSUME DispatchAssumption PROVE PipelineSpec => []RunsInv
<1>1. PipelineInit => RunsInv
  BY RunsInitInv
<1>2. RunsInv /\ [PipelineNext]_pipelineVars => RunsInv'
  BY RunsNextInv
<1> QED BY <1>1, <1>2, PTL DEF PipelineSpec

-----------------------------------------------------------------------------
(* The theorems.                                                           *)

\* Queue, runner and dispatches fit together in every behaviour of the pipeline.
THEOREM DispatchInvariance == ASSUME DispatchAssumption PROVE PipelineSpec => []DispatchInv
<1>1. PipelineInit => DispatchInv
  BY DispatchInitInv
<1>2. DispatchInv /\ [PipelineNext]_pipelineVars => DispatchInv'
  BY DispatchNextInv
<1> QED BY <1>1, <1>2, PTL DEF PipelineSpec

\* The types of the state.
THEOREM DispatchTypeCorrect == ASSUME DispatchAssumption PROVE PipelineSpec => []PipelineTypeOK
<1>1. DispatchInv => PipelineTypeOK
  BY SameQueue DEF DispatchInv, QP!Inv, DispatchTypes, PipelineTypeOK, Phases, Replies
<1> QED BY <1>1, DispatchInvariance, PTL

\* The lane makes the runner's busy check moot: until a lane is cleared, no
\* dispatch is turned away as busy and no two runs are in a lifecycle together,
\* however many dispatches come in for the session (dispatch_with_agent through
\* enqueue_command_in_lane).
THEOREM LaneSerializes == ASSUME DispatchAssumption PROVE PipelineSpec => []LaneSerializesRuns
<1>1. DispatchInv => LaneSerializesRuns
  <2> SUFFICES ASSUME DispatchInv, cleared = {}
               PROVE  /\ \A c \in Dispatches : rpc[c] # "busy"
                      /\ \A c, d \in Dispatches : R!InRun(c) /\ R!InRun(d) => c = d
    BY DEF LaneSerializesRuns
  <2>1. ASSUME NEW c \in Dispatches, R!InRun(c) PROVE qpc[c] \in {"holding", "executing"}
    BY <2>1, Standing DEF DispatchInv, Together
  <2> QED BY <2>1, OneRuns DEF DispatchInv, Undisturbed
<1> QED BY <1>1, DispatchInvariance, PTL

\* A dispatch that returned without an error has left no indicator, no media
\* file and no entry in active_runs behind.
THEOREM ReturnsAreClean == ASSUME DispatchAssumption PROVE PipelineSpec => []ReturnsClean
<1>1. DispatchInv => ReturnsClean
  BY Standing DEF DispatchInv, Together, ReturnsClean
<1> QED BY <1>1, DispatchInvariance, PTL

\* Turns are whole in the transcript even when a clear_lane drops a run between a
\* request and its answer (clear_lane, run_agent, save_transcript).
LEMMA RunsTurns == ASSUME RunsInv PROVE R!WholeTurns
<1>1. RA!WholeTurns
  BY RA!TurnsMean DEF RunsInv
<1> QED BY <1>1 DEF RA!WholeTurns, R!WholeTurns, RA!Tool, R!Tool, RA!NoRun, R!NoRun

\* Being told is the same, however the runner is instantiated.
LEMMA SameTold == ASSUME NEW c PROVE RP!Told(c, Session) <=> R!Told(c, Session)
BY DEF RP!Told, R!Told, RP!Tells, R!Tells, RP!Reads, R!Reads, RP!Truncated, R!Truncated, RP!User, R!User,
       RP!NoRun, R!NoRun

\* What the lane's promise gives: the entry tells the truth, and what a run
\* reported as done is not forgotten.
LEMMA RunsKept ==
  ASSUME RunsInv, cleared = {}, NEW c \in Dispatches
  PROVE  /\ active[Session] = c <=> R!InRun(c)
         /\ (\E p \in Preserved : p = 1) /\ result[c] = "ok" => R!Told(c, Session)
<1>1. active[Session] = c <=> RP!InRun(c)
  BY DEF RunsInv, RP!LaneInv, RP!EntryIsTheRun
<1>2. (\E p \in Preserved : p = 1) /\ result[c] = "ok" => RP!Told(c, Session)
  BY DEF RunsInv, RP!KeptInv, RP!Kept, RP!OneIsKept
<1>3. RP!InRun(c) <=> R!InRun(c)
  BY DEF RP!InRun, R!InRun, RP!InLifecycle, R!InLifecycle
<1> QED BY <1>1, <1>2, <1>3, SameTold

\* The transcript under the pipeline, for any dispatches: turns are whole, lanes
\* cleared or not, and until one is cleared the busy entry and the transcript
\* agree with the runs (dispatch_with_agent, run_agent).
THEOREM PipelineKeepsTranscript == ASSUME DispatchAssumption PROVE PipelineSpec => []RunsKeepTranscript
<1>1. RunsInv => RunsKeepTranscript
  BY RunsTurns, RunsKept DEF RunsKeepTranscript
<1> QED BY <1>1, RunsInvariance, PTL

\* Continuing is the same, however the runner is instantiated.
LEMMA SameContinues == ASSUME NEW g, NEW t, RP!Continues(g, t) PROVE R!Continues(g, t)
<1>1. ASSUME NEW h, NEW u, NEW m PROVE RP!Tells(h, u, m) <=> R!Tells(h, u, m)
  BY DEF RP!Tells, R!Tells, RP!Reads, R!Reads, RP!Truncated, R!Truncated, RP!User, R!User,
         RP!NoRun, R!NoRun
<1>2. ASSUME NEW u PROVE RP!EndOf(g, u, t) <=> R!EndOf(g, u, t)
  BY DEF RP!EndOf, R!EndOf
<1>3. RP!Messages = R!Messages
  BY DEF RP!Messages, R!Messages
<1> QED BY <1>1, <1>2, <1>3 DEF RP!Continues, R!Continues

\* No turn is lost silently in the pipeline: until a lane is cleared, what a
\* dispatch saves continues what the dispatches before it left, as far as it was
\* not summed up or cut to the last messages (run_agent, save_transcript).
THEOREM PipelineLosesNoTurn ==
  ASSUME DispatchAssumption PROVE PipelineSpec => [][cleared' = {} => R!Continued]_pipelineVars
<1>1. ASSUME RunsInv, [PipelineNext]_pipelineVars, cleared' = {} PROVE R!Continued
  <2>1. RP!LaneInv /\ [RP!Next]_RP!vars
    BY <1>1, RunnerActs DEF RunsInv
  <2>2. transcript'[Session] # transcript[Session] => RP!Continues(transcript'[Session], transcript[Session])
    BY <2>1, RP!SaveContinues
  <2> QED BY <2>2, SameContinues DEF R!Continued
<1> QED BY <1>1, RunsInvariance, PTL DEF PipelineSpec

\* Together: what the run of the pipeline checks on two dispatches, for any dispatches.
THEOREM PipelineAlwaysHolds == ASSUME DispatchAssumption PROVE PipelineSpec => []PipelineHolds
BY DispatchTypeCorrect, LaneSerializes, ReturnsAreClean, PipelineKeepsTranscript, PTL DEF PipelineHolds
=============================================================================

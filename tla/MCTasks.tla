------------------------------- MODULE MCTasks -------------------------------
(***************************************************************************)
(* The parts that wait, on small instances: the agent runner driven one    *)
(* turn after the other and by racing callers, the dispatch pipeline, the  *)
(* gateway's channel manager and its connections, the session write lock,  *)
(* the failover chain, the Claude Code loop, the delivery of a reply, the  *)
(* platforms' event loops, the panel's updates, and the process that       *)
(* starts the others.  Apart from the runner, which the pipeline contains, *)
(* they share no state that the models keep, so a behaviour exercises one. *)
(***************************************************************************)
EXTENDS
  Options, Dispatch, SessionWriteLock, Outbound, GatewayServer, FailoverChain, ClaudeCode, GuiUpdate

VARIABLES
  sel,    \* the part that the behaviour exercises
  watch,  \* which of its waits is watched
  \* the agent runner, turn by turn or racing, besides what the pipeline has
  queue, pc, sess, msg, calls, cancelled, aborting, wpc, wsess, arrived, late,
  \* the gateway's channel manager
  acct, down, tokens, fired, callPc, mine, tpc, ctx, ended,
  \* the process
  main, found, receiver, waiting, delivered, lost,
  \* the platforms' event loops
  platform, wait, reconnects, told

\* A run with two buffered messages and an abort; two calls that race for a
\* session, one of which may be dropped, and a waiter.  (MCState drives the
\* runner through more turns.)
Turns == INSTANCE AgentRunner WITH
  Runs <- {"r1"}, Queued <- {"q1", "q2"}, Sessions <- {"s1"}, Waiters <- {},
  Droppable <- {}, Parallel <- 1, MaxIter <- 2, MaxCalls <- 1, Aborts <- TRUE
Racing == INSTANCE AgentRunner WITH
  Runs <- {"r1", "r2"}, Queued <- {}, Sessions <- {"s1"}, Waiters <- {"w1"},
  Droppable <- {"r2"}, Parallel <- 2, MaxIter <- 1, MaxCalls <- 0, Aborts <- TRUE
\* Two starts, a shutdown, and a stop, a logout or a reset.
Manager == INSTANCE GatewayChannelManager WITH
  Starts <- {"a", "b"}, Stops <- {"x"}, Logouts <- {"x"}, Resets <- {"x"},
  Shutdowns <- {"d"}, Results <- {"ok", "err"}, MaxTokens <- 2, pc <- callPc
\* One start, whose task is restarted twice at most.
Restarting == INSTANCE GatewayChannelManager WITH
  Starts <- {"a"}, Stops <- {"x"}, Logouts <- {"x"}, Resets <- {"x"},
  Shutdowns <- {"d"}, Results <- {"ok", "err"}, MaxTokens <- 3, pc <- callPc
Process == INSTANCE App WITH MaxMessages <- 3
Platform == INSTANCE Platforms WITH
  MaxReconnects <- 2, stopped <- told

ASSUME /\ Turns!RunnerAssumption /\ Racing!RunnerAssumption
       /\ DispatchAssumption /\ Manager!ManagerAssumption
       /\ Restarting!ManagerAssumption

\* Handshakes that fit, that show no credentials, and that are too old or too
\* new; requests for a method that is there and for one that is not.
SomeParams == {[min |-> 1, max |-> 2, auth |-> "right"], [min |-> 1, max |-> 1, auth |-> "absent"],
               [min |-> 0, max |-> 0, auth |-> "right"], [min |-> 2, max |-> 2, auth |-> "right"]}
SomeRequests == {[id |-> "1", method |-> "ping"], [id |-> "2", method |-> "chat.sned"]}

turnVars == <<queue, pc, sess, msg, calls, cancelled, aborting, wpc, wsess, arrived, late>>
sharedVars == <<active, streaming, transcript, hist, iter, outcome, result>>
laneVars == <<queueVars, rpc, dispatchVars>>
managerVars == <<acct, down, tokens, fired, callPc, mine, tpc, ctx, ended>>
processVars == <<main, found, receiver, waiting, delivered, lost>>
platformVars == <<platform, wait, reconnects, told>>

sessionVars == <<pipelineVars, turnVars>>
hostVars == <<managerVars, gatewayVars, processVars>>
otherVars == <<lockVars, failoverVars, claudeVars, outboundVars, platformVars, updateVars>>
vars == <<sel, watch, sessionVars, hostVars, otherVars>>

Init ==
  /\ sel \in {"turns", "racing", "pipeline", "manager", "restarts", "server", "process", "lock", "failover",
              "claude", "delivery", "platform", "panel"}
  /\ watch \in 1..(CASE sel = "process" -> 3 [] sel \in {"turns", "manager", "restarts", "panel"} -> 2
                      [] OTHER -> 1)
  /\ Racing!Init
  /\ PipelineInit /\ ServerInit /\ Process!AppInit
  /\ IF sel = "restarts" THEN Restarting!Init ELSE Manager!Init
  /\ LockInit /\ FailoverInit /\ ClaudeInit
  /\ OutboundInit /\ Platform!PlatformInit /\ UpdateInit
  /\ sel # "server" => authMode = "none"
  /\ sel # "platform" => platform = "discord"

SessionNext ==
  /\ \/ sel = "turns" /\ Turns!Next /\ UNCHANGED laneVars
     \/ sel = "racing" /\ Racing!Next /\ UNCHANGED laneVars
     \/ sel = "pipeline" /\ PipelineNext /\ UNCHANGED turnVars
  /\ UNCHANGED <<hostVars, otherVars>>

HostNext ==
  /\ \/ /\ (sel = "manager" /\ Manager!Next) \/ (sel = "restarts" /\ Restarting!Next)
        /\ UNCHANGED <<gatewayVars, processVars>>
     \/ sel = "server" /\ ServerNext /\ UNCHANGED <<managerVars, processVars>>
     \/ sel = "process" /\ Process!AppNext /\ UNCHANGED <<managerVars, gatewayVars>>
  /\ UNCHANGED <<sessionVars, otherVars>>

OtherNext ==
  /\ \/ /\ \/ sel = "lock" /\ LockNext /\ UNCHANGED <<failoverVars, claudeVars>>
           \/ sel = "failover" /\ FailoverNext /\ UNCHANGED <<lockVars, claudeVars>>
           \/ sel = "claude" /\ ClaudeNext /\ UNCHANGED <<lockVars, failoverVars>>
        /\ UNCHANGED <<outboundVars, platformVars, updateVars>>
     \/ /\ \/ sel = "delivery" /\ OutboundNext /\ UNCHANGED <<platformVars, updateVars>>
           \/ sel = "platform" /\ Platform!PlatformNext /\ UNCHANGED <<outboundVars, updateVars>>
           \/ sel = "panel" /\ UpdateNext /\ UNCHANGED <<outboundVars, platformVars>>
        /\ UNCHANGED <<lockVars, failoverVars, claudeVars>>
  /\ UNCHANGED <<sessionVars, hostVars>>

Next == UNCHANGED <<sel, watch>> /\ (SessionNext \/ HostNext \/ OtherNext)

\* The variables of the part that the behaviour exercises.
partVars ==
  CASE sel \in {"turns", "racing"} -> <<sharedVars, turnVars>>
    [] sel = "pipeline" -> pipelineVars
    [] sel \in {"manager", "restarts"} -> managerVars
    [] sel = "server" -> gatewayVars
    [] sel = "process" -> processVars   [] sel = "lock" -> lockVars
    [] sel = "failover" -> failoverVars [] sel = "claude" -> claudeVars
    [] sel = "delivery" -> outboundVars [] sel = "platform" -> platformVars
    [] sel = "panel" -> updateVars

Run(i) == <<"r1", "r2">>[i]

\* The fairness that the module of each part asks for, condition by condition:
\* a behaviour exercises one part, so the i-th condition of them all is one.
WeakStep(i) ==
  /\ UNCHANGED <<sel, watch>>
  /\ CASE sel = "turns"    -> \/ i = 1 /\ Turns!Step("r1")
                              \/ i = 2 /\ Turns!AbortTask("s1")
       [] sel = "racing"   -> \/ i \in 1..2 /\ Racing!Step(Run(i))
                              \/ i = 3 /\ Racing!AbortTask("s1")
                              \/ i = 4 /\ Racing!WaitStep("w1")
       [] sel = "pipeline" -> i \in 1..2 /\ DispatchStep(Run(i))
       [] sel = "manager"  -> \/ i \in 1..4 /\ Manager!Proceed(<<"a", "b", "x", "d">>[i])
                              \/ i \in 5..6 /\ Manager!AccountStep(<<"a", "b">>[i - 4])
       [] sel = "restarts" -> \/ i \in 1..3 /\ Restarting!Proceed(<<"a", "x", "d">>[i])
                              \/ i = 4 /\ Restarting!AccountStep("a")
       [] sel = "server"   -> i = 1 /\ ServerStep
       [] sel = "process"  -> \/ i = 1 /\ Process!StartStep
                              \/ i = 2 /\ Process!StopStep
                              \/ i = 3 /\ Process!Takes
       [] sel = "lock"     -> \/ i = 1 /\ Tick
                              \/ i \in 2..3 /\ Attempt(<<"h1", "h2">>[i - 1])
       [] sel = "failover" -> \/ i = 1 /\ FailoverTick
                              \/ i \in 2..3 /\ CallStep(<<"x", "y">>[i - 1])
       [] sel = "claude"   -> \/ i = 1 /\ RunStep
                              \/ i = 2 /\ StreamStep
                              \/ i = 3 /\ ProcessExits
       [] sel = "delivery" -> i = 1 /\ OutboundSteps
       [] sel = "platform" -> i = 1 /\ Platform!PlatformSteps
       [] sel = "panel"    -> \/ i = 1 /\ CheckForUpdate
                              \/ i \in 2..3 /\ DownloadStep(i - 1)
                              \/ i = 4 /\ Update
StrongStep(i) ==
  /\ UNCHANGED <<sel, watch>>
  /\ \/ sel = "pipeline" /\ Agent(Run(i))
     \/ sel = "server" /\ TaskStep(<<"c1", "c2">>[i])

Fairness ==
  /\ \A i \in 1..6 : WF_partVars(WeakStep(i))
  /\ \A i \in 1..2 : SF_partVars(StrongStep(i))

Spec == Init /\ [][Next]_vars /\ Fairness

----------------------------------------------------------------------------
(* The parts' properties: the modules say what each of them means.  Those  *)
(* of the extended modules are checked under their names.                  *)

\* No token of the channel manager cancels two tasks, and its state has its types.
CancelsOwn ==
  /\ sel = "manager" => Manager!TypeOK /\ Manager!TokensAreOwn
  /\ sel = "restarts" => Restarting!TypeOK

\* What is cancelled is what was meant: a run of the agent (abort_run), which begins
\* one thing more at the most, and a task of the channel manager (stop_channel).
CancelStopsWork ==
  /\ CancelsOwn
  /\ sel = "turns" => Turns!CancelStopsWork
  /\ sel = "racing" => Racing!CancelStopsWork

\* Whatever a history loses to make it fit, the transcript's turns are whole, and
\* what was reported as done can be read in it or in a summary, or a summary says
\* that it was cut.
DoneIsTold == sel = "turns" => Turns!WholeTurns /\ Turns!BufferedInOrder /\ Turns!OkIsTold

\* What waits, and when it is over with.  Of calls that are alike one is watched.
Waits ==
  CASE sel = "turns"    -> <<Turns!InProgress("r1"), Turns!Draining("r1")>>[watch]
    [] sel = "racing"   -> Racing!Registered("w1", "r1")
    [] sel = "pipeline" -> phase["r1"] = "lane"
    [] sel \in {"manager", "restarts"} -> <<down, Manager!StopPending("a")>>[watch]
    [] sel = "server"   -> closer["k1"] = "waiting"
    [] sel = "process"  -> <<main = "config", main = "closing", waiting > 0>>[watch]
    [] sel = "lock"     -> Acquiring("h1")
    [] sel = "failover" -> Asking("x")
    [] sel = "claude"   -> loopPc = "reading"
    [] sel = "delivery" -> Delivering
    [] sel = "platform" -> told
    [] sel = "panel"    -> <<about.status = "checking", about.progress = "downloading">>[watch]

Over ==
  CASE sel = "turns"    -> <<~Turns!InProgress("r1"), Turns!Drained("r1")>>[watch]
    [] sel = "racing"   -> Racing!Awake("w1", "r1")
    [] sel = "pipeline" -> CameBack("r1")
    [] sel = "manager"  -> <<callPc["d"] = "returned" /\ \A t \in {"a", "b"} : ~Manager!Live(t),
                             Manager!StopTaken("a")>>[watch]
    [] sel = "restarts" -> <<callPc["d"] = "returned" /\ ~Restarting!Live("a"),
                             Restarting!StopTaken("a")>>[watch]
    [] sel = "server"   -> Closed("k1")
    [] sel = "process"  -> <<main \in {"ready", "failed"}, main = "exited",
                             waiting = 0 \/ main \in {"exited", "failed"}>>[watch]
    [] sel = "lock"     -> Acquired("h1")
    [] sel = "failover" -> Answered("x") \/ TakesLong("x")
    [] sel = "claude"   -> loopPc # "reading"
    [] sel = "delivery" -> ~Delivering
    [] sel = "platform" -> Platform!PlatformEnded
    [] sel = "panel"    -> <<about.status # "checking", about.progress # "downloading">>[watch]

\* Whatever waits is over with some day: a call of run_agent, the buffered
\* messages and a waiter; a dispatch; a stopped task and the shutdown of all; a
\* close; the start and the end of the process and its messages; an acquire; a
\* model call, unless its providers take as long to fail as the shortest
\* cooldown; a run of the CLI; a delivery; a gateway that is told to stop; a
\* check and a download.
EveryWaitEnds == Waits ~> Over
============================================================================

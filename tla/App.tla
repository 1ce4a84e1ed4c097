-------------------------------- MODULE App --------------------------------
(***************************************************************************)
(* The process of crates/claw-app/src/main.rs: the parts it starts, in     *)
(* their order, the configuration and the environment each one needs, and  *)
(* the shutdown on Ctrl+C.  The channel tasks and the dispatch loop appear *)
(* as the producer and the consumer of the one message channel main makes. *)
(***************************************************************************)
EXTENDS Naturals

CONSTANTS MaxMessages   \* how many messages the platforms deliver

VARIABLES
  main,       \* the step main is at, "exited" or "failed"
  found,      \* what main found: "key", "channels", "cli"
  receiver,   \* dispatch_rx: "main" holds it, "loop" took it, "dropped"
  waiting,    \* messages in the channel
  delivered,  \* messages the adapters tried to send
  lost        \* messages accepted by a channel whose receiver was dropped

appVars == <<main, found, receiver, waiting, delivered, lost>>

\* The steps that may fail end the process; the next step of each.
NextStep == [config |-> "database", database |-> "gateway",
             gateway |-> "agent",   agent |-> "channels",
             channels |-> "claude", claude |-> "loop",
             closing |-> "stopping", stopping |-> "cancelling",
             cancelling |-> "exited"]
CanFail == {"config", "database", "gateway", "agent"}

AppInit == /\ main = "config" /\ found = {} /\ receiver = "main"
           /\ waiting = 0 /\ delivered = 0 /\ lost = 0

\* The agent runtime fails only when its workspace cannot be made.
Fail == /\ main \in CanFail /\ main' = "failed"
        /\ UNCHANGED <<found, receiver, waiting, delivered, lost>>

\* load_config, Database::open + initialize, start_gateway_server.
StartBase == /\ main \in {"config", "database", "gateway"}
             /\ main' = NextStep[main]
             /\ UNCHANGED <<found, receiver, waiting, delivered, lost>>

\* An empty key counts as no key: the app runs without an agent.
InitAgentRuntime ==
  /\ main = "agent" /\ main' = NextStep[main]
  /\ found' \in {found, found \cup {"key"}}
  /\ UNCHANGED <<receiver, waiting, delivered, lost>>

\* start_channels runs before anything reads the channel.
StartChannelTasks ==
  /\ main = "channels" /\ main' = NextStep[main]
  /\ found' \in {found, found \cup {"channels"}}
  /\ UNCHANGED <<receiver, waiting, delivered, lost>>

\* The CLI is on the PATH, and the session store opens on the database.
InitClaudeCodeDispatcher ==
  /\ main = "claude" /\ main' = NextStep[main]
  /\ found' \in {found, found \cup {"cli"}}
  /\ UNCHANGED <<receiver, waiting, delivered, lost>>

KeepReceiver ==
  /\ main = "loop" /\ main' = "ready"
  /\ receiver' = IF {"key", "cli"} \subseteq found THEN "loop" ELSE "main"
  /\ UNCHANGED <<found, waiting, delivered, lost>>

\* The loop is spawned with both contexts, but only for an agent runtime.
SpawnDispatchLoop ==
  /\ main = "loop" /\ main' = "ready"
  /\ IF "key" \in found
       THEN receiver' = "loop" /\ UNCHANGED <<waiting, lost>>
       ELSE receiver' = "dropped" /\ waiting' = 0 /\ lost' = lost + waiting
  /\ UNCHANGED <<found, delivered>>

CtrlC == /\ main = "ready" /\ main' = "closing"
         /\ UNCHANGED <<found, receiver, waiting, delivered, lost>>

\* gateway.close is awaited, stop_all and cancel are calls; nothing waits for
\* the loop.
CloseServer == /\ main = "closing" /\ main' = NextStep[main]
               /\ UNCHANGED <<found, receiver, waiting, delivered, lost>>

StopParts == /\ main \in {"stopping", "cancelling"}
             /\ main' = NextStep[main]
             /\ UNCHANGED <<found, receiver, waiting, delivered, lost>>

\* An adapter's task sends what its platform delivers; the send fails once the
\* receiver is dropped.
Arrives ==
  /\ "channels" \in found /\ main \in {"claude", "loop", "ready", "closing", "stopping"}
  /\ delivered < MaxMessages /\ delivered' = delivered + 1
  /\ waiting' = IF receiver = "dropped" THEN waiting ELSE waiting + 1
  /\ UNCHANGED <<main, found, receiver, lost>>

\* run_dispatch_loop takes a message until it is cancelled; its task ends with
\* the process.
Takes == /\ receiver = "loop" /\ waiting > 0
         /\ main \in {"ready", "closing", "stopping", "cancelling"}
         /\ waiting' = waiting - 1
         /\ UNCHANGED <<main, found, receiver, delivered, lost>>

StartStep == \/ StartBase \/ InitAgentRuntime \/ StartChannelTasks
             \/ InitClaudeCodeDispatcher \/ SpawnDispatchLoop
StopStep == CloseServer \/ StopParts

\* Ctrl+C is the user's: a process that serves may run for ever.
AppNext == Fail \/ StartStep \/ CtrlC \/ StopStep \/ Arrives \/ Takes

AppFairness ==
  WF_appVars(StartStep) /\ WF_appVars(StopStep) /\ WF_appVars(Takes)

AppSpec == AppInit /\ [][AppNext]_appVars /\ AppFairness

----------------------------------------------------------------------------
\* Step 8 of main logs that messages "will route through" the claude CLI when
\* its dispatcher could be initialized; the loop that would route them is only
\* spawned for an agent runtime.
ClaudeServes == main = "ready" /\ "cli" \in found => receiver = "loop"

\* A start that does not fail ends in a process that is ready, a Ctrl+C ends
\* it, and a message that was sent before the loop existed is taken, lost with
\* the receiver, or overtaken by the end of the process.
AppServes ==
  /\ main = "config" ~> main \in {"ready", "failed"}
  /\ main = "closing" ~> main = "exited"
  /\ waiting > 0 ~> (waiting = 0 \/ main \in {"exited", "failed"})
============================================================================

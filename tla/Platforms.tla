------------------------------- MODULE Platforms -------------------------------
(* The gateways of the WhatsApp and the Discord channel (gateway.rs of both  *)
(* crates), whose connections are stubs: what is left of them is how an       *)
(* account starts, loses its connection and is told to stop.                 *)
EXTENDS Naturals

CONSTANT MaxReconnects  \* max_reconnect_attempts of the WhatsApp account

VARIABLES
    platform,   \* "whatsapp" or "discord"
    wait,       \* what start_account awaits, or how it returned
    reconnects, \* reconnect_count
    stopped     \* the token was cancelled

platformVars == <<platform, wait, reconnects, stopped>>

PlatformInit ==
    /\ platform \in {"whatsapp", "discord"} /\ wait = "config"
    /\ reconnects = 0 /\ stopped = FALSE

\* The account's JSON may be of another shape; Discord needs a token.
StartAccount ==
    /\ wait = "config"
    /\ wait' \in {"config error", IF platform = "whatsapp" /\ stopped THEN "returned"
                                  ELSE "event"}
    /\ UNCHANGED <<platform, reconnects, stopped>>

CancelPlatform == ~stopped /\ stopped' = TRUE /\ UNCHANGED <<platform, wait, reconnects>>

SeesCancel ==
    /\ wait = "event" /\ stopped /\ wait' = "returned"
    /\ UNCHANGED <<platform, reconnects, stopped>>

\* Every tick of the heartbeat counts as a lost connection.
HeartbeatTick ==
    /\ platform = "whatsapp" /\ wait = "event" /\ reconnects' = reconnects + 1
    /\ wait' = IF reconnects + 1 >= MaxReconnects THEN "gave up" ELSE "back-off"
    /\ UNCHANGED <<platform, stopped>>

\* The back-off, 2 ^ min(reconnects, 5) seconds, does not see the token.
BackoffEndsStuck ==
    /\ wait = "back-off" /\ ~stopped /\ wait' = "event"
    /\ UNCHANGED <<platform, reconnects, stopped>>
BackoffEnds ==
    /\ wait = "back-off" /\ wait' = IF stopped THEN "returned" ELSE "event"
    /\ UNCHANGED <<platform, reconnects, stopped>>

PlatformSteps == StartAccount \/ SeesCancel \/ HeartbeatTick \/ BackoffEnds
PlatformNext == PlatformSteps \/ CancelPlatform
\* The task runs and its sleeps end.
PlatformFairness == WF_platformVars(PlatformSteps)

\* A gateway that is told to stop returns (start_account's event loop).
PlatformEnded == wait \in {"config error", "returned", "gave up"}
PlatformStops == stopped ~> PlatformEnded
================================================================================

--------------------------- MODULE GatewayServer ---------------------------
(***************************************************************************)
(* The WebSocket gateway of claw-gateway: start_gateway_server, the task   *)
(* of a connection (handshake, message loop, clean-up), the connection     *)
(* registry, the method dispatcher and close.                              *)
(*                                                                         *)
(* A write to the registry is one step; the snapshot in a hello, the       *)
(* status page and names, payloads and times are left out.                 *)
(***************************************************************************)
EXTENDS Naturals, Sequences, FiniteSets

CONSTANTS
  Conns,        \* WebSocket connections
  Params,       \* handshakes that clients may send
  Requests,     \* request frames that clients may send
  Builtin,      \* method names that builtin_registry registers
  MaxRequests,  \* bound: requests of one connection
  Closers       \* calls of close

\* ConnectParams, as far as the handshake looks at them; auth is the field
\* that the server's mode asks for.
ConnectParams == [min : Nat, max : Nat, auth : {"absent", "wrong", "right"}]
AuthModes == {"none", "token", "password", "trusted_proxy"}
RequestFrame == [id : STRING, method : STRING]

ASSUME ServerAssumption ==
  /\ IsFiniteSet(Conns)
  /\ Params \subseteq ConnectParams
  /\ Requests \subseteq RequestFrame
  /\ MaxRequests \in Nat

\* HandshakeConfig: this server speaks protocol 1 only.
MinProtocol == 1
MaxProtocol == 1

\* Text that is no request is read as a frame without an id of its own.
NoRequest == [id |-> "unknown", method |-> "none"]
ReadFrame == Requests \cup {NoRequest}
ResponseFrame ==
  [id : {r.id : r \in ReadFrame} \cup {"handshake"},
   code : {"ok", "INVALID_REQUEST", "UNAVAILABLE", "AGENT_TIMEOUT"}]

ConnPlaces == {"none", "handshake", "register", "loop", "dispatch", "unregister", "ended"}

VARIABLES
  authMode,    \* HandshakeConfig::auth_mode
  serverTask,  \* the spawned server task: running, stopping, done
  closing,     \* the GatewayServer's token is cancelled
  permit,      \* the permit of shutdown_complete
  closer,      \* where each call of close stands
  connPc,      \* where each connection's task stands
  params,      \* the handshake it accepted, or NoParams
  requested,   \* request frames it read
  answered,    \* response frames it sent after the hello
  registry     \* ConnectionRegistry::connections

serverVars == <<authMode, serverTask, closing, permit, closer>>
connVars == <<connPc, params, requested, answered>>
gatewayVars == <<serverVars, connVars, registry>>

NoParams == [min |-> 0, max |-> 0, auth |-> "absent"]

ServerInit ==
  /\ authMode \in AuthModes
  /\ serverTask = "running" /\ closing = FALSE /\ permit = FALSE
  /\ closer = [k \in Closers |-> "none"]
  /\ connPc = [c \in Conns |-> "none"]
  /\ params = [c \in Conns |-> NoParams]
  /\ requested = [c \in Conns |-> <<>>]
  /\ answered = [c \in Conns |-> <<>>]
  /\ registry = {}

-----------------------------------------------------------------------------
(* The handshake.                                                          *)

\* Mutant: the upper ends are not looked at.
NegotiateLowerEnds(clientMin, clientMax, serverMin, serverMax) ==
  {hi \in {serverMax} : serverMin <= hi /\ clientMin <= hi}

\* The highest protocol both sides speak, or nothing.
NegotiateProtocol(clientMin, clientMax, serverMin, serverMax) ==
  {hi \in {clientMax, serverMax} : /\ hi <= clientMax /\ hi <= serverMax
                                   /\ clientMin <= hi /\ serverMin <= hi}

ValidateAuth(mode, auth) ==
  mode \in {"none", "trusted_proxy"} \/ auth = "right"

HandleConnect(p) ==
  /\ NegotiateProtocol(p.min, p.max, MinProtocol, MaxProtocol) # {}
  /\ ValidateAuth(authMode, p.auth)

-----------------------------------------------------------------------------
(* A connection's task.                                                    *)

Goto(c, label) == connPc' = [connPc EXCEPT ![c] = label]
Say(c, id, code) == answered' = [answered EXCEPT ![c] = Append(@, [id |-> id, code |-> code])]

\* /ws: the upgrade spawns the task.
Upgrade(c) ==
  /\ connPc[c] = "none" /\ serverTask = "running"
  /\ Goto(c, "handshake")
  /\ UNCHANGED <<params, requested, answered, registry, serverVars>>

\* The first text is a handshake that is accepted.
Accept(c, p) ==
  /\ connPc[c] = "handshake" /\ HandleConnect(p)
  /\ params' = [params EXCEPT ![c] = p]
  /\ Goto(c, "register")
  /\ UNCHANGED <<requested, answered, registry, serverVars>>

\* It is refused, or the text is no handshake: an error, and the task ends.
Refuse(c, p) ==
  /\ connPc[c] = "handshake" /\ (p = NoParams \/ ~HandleConnect(p))
  /\ Say(c, "handshake", "INVALID_REQUEST")
  /\ Goto(c, "ended")
  /\ UNCHANGED <<params, requested, registry, serverVars>>

\* ConnectionRegistry::register, and the hello is sent.
Register(c) ==
  /\ connPc[c] = "register"
  /\ registry' = registry \cup {c}
  /\ Goto(c, "loop")
  /\ UNCHANGED <<params, requested, answered, serverVars>>

\* ConnectionRegistry::unregister, with which the task ends.
Unregister(c) ==
  /\ connPc[c] = "unregister"
  /\ registry' = registry \ {c}
  /\ Goto(c, "ended")
  /\ UNCHANGED <<params, requested, answered, serverVars>>

\* The message loop reads a request: unknown methods are answered at once.
Read(c, r) ==
  /\ connPc[c] = "loop" /\ Len(requested[c]) < MaxRequests
  /\ requested' = [requested EXCEPT ![c] = Append(@, r)]
  /\ IF r.method \in Builtin
     THEN Goto(c, "dispatch") /\ UNCHANGED answered
     ELSE Say(c, r.id, "INVALID_REQUEST") /\ UNCHANGED connPc
  /\ UNCHANGED <<params, registry, serverVars>>

\* Text that is no request is answered too.
ReadInvalid(c) ==
  /\ connPc[c] = "loop" /\ Len(requested[c]) < MaxRequests
  /\ requested' = [requested EXCEPT ![c] = Append(@, NoRequest)]
  /\ Say(c, NoRequest.id, "INVALID_REQUEST")
  /\ UNCHANGED <<connPc, params, registry, serverVars>>

Current(c) == requested[c][Len(requested[c])]

\* Dispatcher::dispatch: ping answers, the stubs say what they do not do, and
\* a handler that takes too long is given up.
Outcomes(r) == (IF r.method = "ping" THEN {"ok"} ELSE {"UNAVAILABLE"}) \cup {"AGENT_TIMEOUT"}

\* Mutant: a request that timed out gets no answer.
DispatchedSilently(c) ==
  /\ connPc[c] = "dispatch"
  /\ \E code \in Outcomes(Current(c)) :
       IF code = "AGENT_TIMEOUT" THEN UNCHANGED answered ELSE Say(c, Current(c).id, code)
  /\ Goto(c, "loop")
  /\ UNCHANGED <<params, requested, registry, serverVars>>

\* The answer is sent.
Dispatched(c) ==
  /\ connPc[c] = "dispatch"
  /\ \E code \in Outcomes(Current(c)) : Say(c, Current(c).id, code)
  /\ Goto(c, "loop")
  /\ UNCHANGED <<params, requested, registry, serverVars>>

\* The client closes or is gone.
Gone(c) ==
  /\ connPc[c] \in {"handshake", "loop"}
  /\ Goto(c, IF connPc[c] = "loop" THEN "unregister" ELSE "ended")
  /\ UNCHANGED <<params, requested, answered, registry, serverVars>>

\* Mutant: the task returns without its clean-up when the server closes.
AwayAtOnce(c) ==
  /\ connPc[c] \in {"handshake", "loop"} /\ closing
  /\ Goto(c, "ended")
  /\ UNCHANGED <<params, requested, answered, registry, serverVars>>

\* The task sees the token, which it looks at between two messages only.
Away(c) ==
  /\ connPc[c] \in {"handshake", "loop"} /\ closing
  /\ Goto(c, IF connPc[c] = "loop" THEN "unregister" ELSE "ended")
  /\ UNCHANGED <<params, requested, answered, registry, serverVars>>

-----------------------------------------------------------------------------
(* The server's task and close.                                            *)

\* Mutant: those who wait are woken, whoever comes later is not.
ServerFailsWakes ==
  /\ serverTask = "running"
  /\ serverTask' = "done" /\ permit' = (\E k \in Closers : closer[k] = "waiting")
  /\ UNCHANGED <<authMode, closing, closer, connVars, registry>>

\* The server ends by itself, with an error.
ServerFails ==
  /\ serverTask = "running"
  /\ serverTask' = "done" /\ permit' = TRUE
  /\ UNCHANGED <<authMode, closing, closer, connVars, registry>>

ServerSeesToken ==
  /\ serverTask = "running" /\ closing
  /\ serverTask' = "stopping"
  /\ UNCHANGED <<authMode, closing, permit, closer, connVars, registry>>

\* stop(true) has waited for the connections, or long enough; then
\* shutdown_complete is notified.
Stopped ==
  /\ serverTask = "stopping"
  /\ serverTask' = "done" /\ permit' = TRUE
  /\ UNCHANGED <<authMode, closing, closer, connVars, registry>>

\* GatewayServer::close
Close(k) ==
  /\ closer[k] = "none"
  /\ closing' = TRUE /\ closer' = [closer EXCEPT ![k] = "waiting"]
  /\ UNCHANGED <<authMode, serverTask, permit, connVars, registry>>

CloseReturns(k) ==
  /\ closer[k] = "waiting" /\ permit
  /\ permit' = FALSE /\ closer' = [closer EXCEPT ![k] = "returned"]
  /\ UNCHANGED <<authMode, serverTask, closing, connVars, registry>>

-----------------------------------------------------------------------------

TaskStep(c) ==
  \/ Register(c) \/ Unregister(c) \/ Dispatched(c) \/ Away(c)

ServerStep == ServerSeesToken \/ Stopped \/ \E k \in Closers : CloseReturns(k)

ServerNext ==
  \/ \E c \in Conns :
       \/ Upgrade(c) \/ ReadInvalid(c) \/ Gone(c) \/ TaskStep(c)
       \/ \E p \in Params : Accept(c, p)
       \/ \E p \in Params \cup {NoParams} : Refuse(c, p)
       \/ \E r \in Requests : Read(c, r)
  \/ ServerFails \/ ServerStep \/ \E k \in Closers : Close(k)

\* A task that can go on does so; the select! of a loop that has messages to
\* read and a cancelled token does not prefer the messages for ever.
ServerFairness ==
  /\ \A c \in Conns : SF_gatewayVars(TaskStep(c))
  /\ WF_gatewayVars(ServerStep)

ServerSpec == ServerInit /\ [][ServerNext]_gatewayVars /\ ServerFairness

-----------------------------------------------------------------------------

ServerTypeOK ==
  /\ authMode \in AuthModes /\ closing \in BOOLEAN /\ permit \in BOOLEAN
  /\ serverTask \in {"running", "stopping", "done"}
  /\ closer \in [Closers -> {"none", "waiting", "returned"}]
  /\ connPc \in [Conns -> ConnPlaces]
  /\ params \in [Conns -> Params \cup {NoParams}]
  /\ registry \subseteq Conns
  /\ requested \in [Conns -> Seq(ReadFrame)] /\ answered \in [Conns -> Seq(ResponseFrame)]

\* The registry names exactly the connections whose loop runs, and each of
\* them was let in by the server's mode and speaks a protocol of both sides.
PresenceIsLive ==
  /\ registry = {c \in Conns : connPc[c] \in {"loop", "dispatch", "unregister"}}
  /\ \A c \in registry :
       /\ params[c].min <= MaxProtocol /\ MinProtocol <= params[c].max
       /\ authMode \in {"none", "trusted_proxy"} \/ params[c].auth = "right"

\* Requests are answered one by one, in their order and under their ids,
\* whether known, unknown, invalid or timed out; only the one being dispatched
\* is not answered yet.
AnswersInOrder ==
  \A c \in Conns : connPc[c] \notin {"none", "handshake"} /\ params[c] # NoParams =>
    /\ Len(answered[c]) = Len(requested[c]) - (IF connPc[c] = "dispatch" THEN 1 ELSE 0)
    /\ \A k \in DOMAIN answered[c] : answered[c][k].id = requested[c][k].id

\* What holds of the server's connections.
ConnectionsHold == ServerTypeOK /\ PresenceIsLive /\ AnswersInOrder

\* A close returns, even after the server has failed, and leaves no task and
\* no entry behind, whatever requests are being handled.
Closed(k) ==
  /\ closer[k] = "returned" /\ registry = {}
  /\ \A c \in Conns : connPc[c] \in {"none", "ended"}
CloseEnds == \A k \in Closers : closer[k] = "waiting" ~> Closed(k)
=============================================================================

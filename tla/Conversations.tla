---------------------------- MODULE Conversations ----------------------------
(***************************************************************************)
(* Who talks to whom: the message an event of a platform becomes, the chat *)
(* its answer goes to, the agent it is routed to and the session key its   *)
(* conversation is kept under (Messages, Routing), for sets of events,     *)
(* senders, bindings and agents.                                           *)
(***************************************************************************)
EXTENDS Messages, Routing, Calls

CONSTANTS
  Events,       \* what the platforms send
  KnownIds,     \* spellings of the ids of agents and accounts
  Segments,     \* the segments of the peers' ids
  Senders,      \* contexts whose keys are compared
  RoutedSenders,  \* contexts that are routed
  Owner,        \* the agent that the compared keys belong to
  BindingLists, AgentLists  \* configured bindings and agents

-----------------------------------------------------------------------------
(* What the values of the program are.                                     *)

\* An event comes from one of the platforms, and a chat of WhatsApp has an address.
EventsOfPlatforms ==
  \A e \in Events :
    /\ e.platform \in {"telegram", "discord", "whatsapp"}
    /\ e.platform = "whatsapp" /\ e.chat # None => e.chat.jid # None

\* Trimming and lower-casing leave these tokens alone.
Plain(U) == \A s \in U : NormalizeToken(s) = s

\* Normalizing twice is normalizing once, the words of the keys are in lower case, and
\* a cleaned id is clean.
NormalForms(Ids) ==
  /\ \A s \in DOMAIN Lowered : NormalizeToken(Lowered[s]) = Lowered[s]
  /\ Plain({"agent", "main", "default", "direct", "unknown"})
  /\ Image(Cleaned, "main") = "main"
  /\ \A s \in Ids : LET c == Image(Cleaned, s)
                    IN NormalizeToken(c) = c /\ Image(Cleaned, c) = c /\ c # None

\* Kinds of chats can be told from the heads of their keys unless a channel is called
\* "direct", or an account like a kind, where the head has them in that place.
KindsTold(a, b) ==
  \A x, y \in {a, b} : x.kind = "direct" /\ y.kind # "direct" =>
    /\ x.scope = "per-peer" => Named(y.channel) # "direct"
    /\ x.scope = "per-account-channel-peer" => NormalizeAccountId(x.account) # y.kind

\* The ids that bindings and agents name.
NamedIn(Ids, bindings, agents) ==
  /\ DOMAIN bindings \subseteq Nat /\ DOMAIN agents \subseteq Nat /\ (agents # << >> => 1 \in DOMAIN agents)
  /\ \A i \in DOMAIN bindings : bindings[i].agent \in Ids \cup {None}
  /\ \A i \in DOMAIN agents : agents[i].id \in Ids \cup {None}

\* Peers are split into segments, scopes are known, and the ids that are configured and
\* met are those whose normal forms are known; a channel is not called "agent".
ASSUME ConversationAssumption ==
  /\ None \notin BOOLEAN
  /\ EventsOfPlatforms
  /\ NormalForms(KnownIds)
  /\ \A s \in Senders \cup RoutedSenders : s.peer \in Seq(Segments) /\ s.scope \in Scopes
  /\ \A a, b \in Senders : KindsTold(a, b)
  /\ \A bindings \in BindingLists, agents \in AgentLists : NamedIn(KnownIds, bindings, agents)
  /\ \A s \in RoutedSenders :
       /\ s.account \in KnownIds \cup {None}
       /\ NormalizeToken(s.kind) = s.kind /\ Named(s.channel) # "agent"

-----------------------------------------------------------------------------
(* The calls.                                                              *)

ConversationFirst ==
  \/ function = "normalize" /\ one \in Events
  \/ function = "session_key" /\ one \in Senders
  \/ function = "resolve" /\ one \in RoutedSenders

ConversationRest ==
  \/ function = "normalize" /\ \E flag \in BOOLEAN \cup {None} : others' = <<flag>>
  \/ function = "session_key" /\ \E other \in Senders : others' = <<other>>
  \/ function = "resolve" /\ \E bindings \in BindingLists, agents \in AgentLists :
        others' = <<bindings, agents>>

ConversationSpec ==
  /\ others = <<>> /\ ConversationFirst
  /\ [][others = <<>> /\ ConversationRest /\ UNCHANGED <<function, one>>]_callVars

\* A message may run no commands by itself and the answer to a direct one goes
\* where it came from; what the scope keeps apart has its own session, whose key
\* names the agent it was routed to.
MessagesRouted ==
  /\ Called("normalize") => DeniedByDefault(one, others[1]) /\ DirectAnswered(one)
  /\ Called("session_key") => KeysKeepApart(Owner, one, others[1])
  /\ Called("resolve") => KeyNamesAgent(others[1], others[2], one)
=============================================================================

------------------------------- MODULE Routing -------------------------------
(* claw-routing: the agent that answers a message (resolve.rs) and the      *)
(* session key its conversation is kept under (session_key.rs).  A string   *)
(* is a value with two images: Lowered, what trimming and lower-casing      *)
(* make of it, and Cleaned, what the cleaning of an agent or account id     *)
(* makes of it ("" when nothing is left).  A key, and a peer id, is the     *)
(* sequence of its colon-separated segments.                                *)
EXTENDS Options, Naturals, Sequences

CONSTANTS Lowered,   \* [spelling -> its trimmed lower case]; others are fixed
          Cleaned    \* [spelling -> its id form]; others are fixed

Image(f, s) == IF s \in DOMAIN f THEN f[s] ELSE s
Least(S) == CHOOSE n \in S : \A k \in S : n <= k

Empty == ""
DefaultAgent == "main"
DefaultMainKey == "main"
DefaultAccount == "default"
Scopes == {"main", "per-peer", "per-channel-peer", "per-account-channel-peer"}

NormalizeToken(s) == Image(Lowered, s)
NormalizePeer(p) == [i \in DOMAIN p |-> NormalizeToken(p[i])]
NormalizeMainKey(s) == IF s = None \/ NormalizeToken(s) = Empty THEN DefaultMainKey ELSE NormalizeToken(s)
NormalizeId(s, default) ==
    IF s \in {None, Empty} \/ Image(Cleaned, s) = Empty THEN default ELSE Image(Cleaned, s)
NormalizeAgentId(s) == NormalizeId(s, DefaultAgent)
NormalizeAccountId(s) == NormalizeId(s, DefaultAccount)

--------------------------------------------------------------------------------
(* Session keys *)

MainSessionKey(agent, mainKey) ==
    <<"agent", NormalizeAgentId(agent), NormalizeMainKey(mainKey)>>

\* The names some identity gives to the peer, bare or with its channel in
\* front.  The links are a HashMap: any of the names may be the one found.
LinkedPeers(links, channel, peer) ==
    {name \in DOMAIN links :
        \E id \in links[name] :
            NormalizePeer(id) \in {NormalizePeer(peer),
                                   <<NormalizeToken(channel)>> \o NormalizePeer(peer)}}

\* The peer ids a direct message may be filed under in a scope.
DirectPeers(ctx) ==
    LET names == IF ctx.scope = "main" \/ ctx.peer = <<>> THEN {}
                 ELSE LinkedPeers(ctx.links, ctx.channel, ctx.peer)
    IN IF names = {} THEN {NormalizePeer(ctx.peer)}
       ELSE {<<NormalizeToken(name)>> : name \in names}

Named(s) == IF NormalizeToken(s) = Empty THEN "unknown" ELSE NormalizeToken(s)

DirectKey(agent, ctx, peer) ==
    LET owner == <<"agent", NormalizeAgentId(agent)>>
    IN IF peer = <<>> \/ ctx.scope = "main" THEN MainSessionKey(agent, ctx.mainKey)
       ELSE owner \o (CASE ctx.scope = "per-peer" -> <<"direct">>
                        [] ctx.scope = "per-channel-peer" -> <<Named(ctx.channel), "direct">>
                        [] OTHER -> <<Named(ctx.channel), NormalizeAccountId(ctx.account), "direct">>)
                  \o peer

GroupKey(agent, ctx) ==
    <<"agent", NormalizeAgentId(agent), Named(ctx.channel), ctx.kind>>
        \o (IF ctx.peer = <<>> THEN <<"unknown">> ELSE NormalizePeer(ctx.peer))

\* The keys a message may be filed under (more than one only by the links).
PeerSessionKeysUnscoped(agent, ctx) ==
    IF ctx.kind = "direct"
    THEN {DirectKey(agent, [ctx EXCEPT !.scope = "per-peer"], p) : p \in DirectPeers(ctx)}
    ELSE {GroupKey(agent, ctx)}

PeerSessionKeys(agent, ctx) ==
    IF ctx.kind = "direct"
    THEN {DirectKey(agent, ctx, p) : p \in DirectPeers(ctx)}
    ELSE {GroupKey(agent, ctx)}

GroupHistoryKey(channel, account, kind, peer) ==
    <<Named(channel), NormalizeAccountId(account), kind>>
        \o (IF peer = <<>> THEN <<"unknown">> ELSE NormalizePeer(peer))

IsAgentKey(key) ==
    Len(key) >= 3 /\ NormalizeToken(key[1]) = "agent" /\ key[2] # Empty /\ Tail(Tail(key)) # <<Empty>>

ParseAgentSessionKey(key) ==
    IF IsAgentKey(key)
    THEN [agent |-> NormalizeToken(key[2]), rest |-> NormalizePeer(Tail(Tail(key)))] ELSE None

AgentOfSessionKey(key) ==
    IF IsAgentKey(key) THEN NormalizeAgentId(ParseAgentSessionKey(key).agent)
    ELSE DefaultAgent

SessionKeyShape(key) ==
    IF key = <<>> THEN "missing"
    ELSE IF IsAgentKey(key) THEN "agent"
    ELSE IF Len(key) > 1 /\ NormalizeToken(key[1]) = "agent" THEN "malformed" ELSE "alias"

ToRequestKey(key) ==
    IF IsAgentKey(key) THEN ParseAgentSessionKey(key).rest ELSE key

ToStoreKey(agent, key, mainKey) ==
    CASE key \in {<<>>, <<DefaultMainKey>>} -> MainSessionKey(agent, mainKey)
      [] Len(key) > 1 /\ NormalizeToken(key[1]) = "agent" -> NormalizePeer(key)
      [] OTHER -> <<"agent", NormalizeAgentId(agent)>> \o NormalizePeer(key)

ThreadSessionKey(base, thread, useSuffix) ==
    IF thread = Empty \/ ~useSuffix THEN base
    ELSE base \o <<"thread", NormalizeToken(thread)>>

--------------------------------------------------------------------------------
(* The cascade of the bindings *)

EqCi(a, b) == NormalizeToken(a) = NormalizeToken(b)
ChannelAccount(m, ctx) ==
    /\ m.channel # None => EqCi(m.channel, ctx.channel)
    /\ m.account # None => EqCi(m.account, ctx.account)
Specific(m) == m.peer # None \/ m.guild # None \/ m.team # None
HasRoles(m) == m.roles \notin {None, {}}
NamesPeer(m, peer) ==
    m.peer # None /\ m.peer.id # None /\ NormalizePeer(m.peer.id) = NormalizePeer(peer)

MatchesPeer(m, ctx) ==
    /\ NamesPeer(m, ctx.peer)
    /\ m.peer.kind # None => EqCi(m.peer.kind, ctx.kind)
    /\ ChannelAccount(m, ctx)
MatchesParent(m, ctx) ==
    ctx.parent \notin {None, <<>>} /\ NamesPeer(m, ctx.parent) /\ ChannelAccount(m, ctx)
InGuild(m, ctx) ==
    /\ ctx.guild \notin {None, Empty} /\ m.guild # None /\ EqCi(m.guild, ctx.guild)
    /\ ChannelAccount(m, ctx)
MatchesGuildRoles(m, ctx) ==
    InGuild(m, ctx) /\ HasRoles(m) /\ \A r \in m.roles : \E c \in ctx.roles : EqCi(r, c)
MatchesGuild(m, ctx) == InGuild(m, ctx) /\ ~HasRoles(m)
MatchesTeam(m, ctx) ==
    /\ ctx.team \notin {None, Empty} /\ m.team # None /\ EqCi(m.team, ctx.team)
    /\ ChannelAccount(m, ctx)
MatchesAccount(m, ctx) == m.account # None /\ ~Specific(m) /\ ChannelAccount(m, ctx)
MatchesChannel(m, ctx) ==
    m.channel # None /\ m.account = None /\ ~Specific(m) /\ EqCi(m.channel, ctx.channel)

\* The levels at which a binding applies to a message, 1 the most specific.
Levels(m, ctx) ==
    {l \in 1..7 : CASE l = 1 -> MatchesPeer(m, ctx)       [] l = 2 -> MatchesParent(m, ctx)
                    [] l = 3 -> MatchesGuildRoles(m, ctx) [] l = 4 -> MatchesGuild(m, ctx)
                    [] l = 5 -> MatchesTeam(m, ctx)       [] l = 6 -> MatchesAccount(m, ctx)
                    [] OTHER -> MatchesChannel(m, ctx)}

\* agents: the configured list, each [id, default].
DefaultAgentId(agents) ==
    LET marked == {i \in DOMAIN agents : agents[i].default /\ agents[i].id # None}
    IN IF marked # {} THEN NormalizeAgentId(agents[Least(marked)].id)
       ELSE IF agents # <<>> /\ agents[1].id # None THEN NormalizeAgentId(agents[1].id)
       ELSE DefaultAgent

\* bindings: a sequence of [agent, match], match None when there is no rule.
ResolveAgentRoute(bindings, agents, ctx) ==
    LET at(l) == {i \in DOMAIN bindings :
                     bindings[i].match # None /\ l \in Levels(bindings[i].match, ctx)}
        hit == {l \in 1..7 : at(l) # {}}
        level == IF hit = {} THEN 8 ELSE Least(hit)
        agent == IF hit = {} THEN DefaultAgentId(agents)
                 ELSE NormalizeAgentId(bindings[Least(at(level))].agent)
    IN [agent |-> agent, level |-> level,
        keys |-> PeerSessionKeys(agent, ctx), mainKey |-> MainSessionKey(agent, ctx.mainKey)]

--------------------------------------------------------------------------------
(* Properties *)

\* What the scope of direct messages separates: peers, then channels, then
\* accounts; a chat that is not direct is separated by channel, kind and peer.
Apart(a, b) ==
    \/ a.kind # b.kind
    \/ a.kind # "direct" /\ (Named(a.channel) # Named(b.channel)
                               \/ NormalizePeer(a.peer) # NormalizePeer(b.peer))
    \/ /\ a.kind = "direct" /\ a.scope # "main"
       /\ \/ DirectPeers(a) \cap DirectPeers(b) = {}
          \/ a.scope # "per-peer" /\ Named(a.channel) # Named(b.channel)
          \/ a.scope = "per-account-channel-peer"
             /\ NormalizeAccountId(a.account) # NormalizeAccountId(b.account)

\* Two conversations that the scope keeps apart are never filed under one
\* session key, whichever identity link is found first
\* (build_agent_peer_session_key and its documented key formats).
KeysKeepApart(agent, a, b) ==
    /\ a.scope = b.scope /\ a.links = b.links /\ Apart(a, b)
    /\ a.peer # <<>> /\ b.peer # <<>>
    => PeerSessionKeys(agent, a) \cap PeerSessionKeys(agent, b) = {}

\* The agent read back from a route's key, also after the key went to a
\* request and came back to the store, is the agent the route was given to
\* (resolve_agent_id_from_session_key, to_agent_request_session_key,
\* to_agent_store_session_key).
KeyNamesAgent(bindings, agents, ctx) ==
    LET route == ResolveAgentRoute(bindings, agents, ctx)
    IN \A key \in route.keys \union {route.mainKey} :
          /\ AgentOfSessionKey(key) = route.agent
          /\ ToRequestKey(key) # <<DefaultMainKey>> =>
               ToStoreKey(route.agent, ToRequestKey(key), ctx.mainKey) = key

\* Every field a binding names agrees with the message it was applied to
\* (the documentation of BindingMatch: all fields use AND semantics).
EveryFieldMatches(bindings, ctx) ==
    \A i \in DOMAIN bindings :
        LET m == bindings[i].match
        IN m # None /\ Levels(m, ctx) # {} =>
              /\ ChannelAccount(m, ctx)
              /\ m.guild # None => ctx.guild # None /\ EqCi(m.guild, ctx.guild)
              /\ m.team # None => ctx.team # None /\ EqCi(m.team, ctx.team)
              /\ HasRoles(m) => \A r \in m.roles : \E c \in ctx.roles : EqCi(r, c)
================================================================================

----------------------------- MODULE Validation -----------------------------
(***************************************************************************)
(* claw-config: validating a configuration and migrating its old keys      *)
(* (validation.rs), and what the application makes of it at start          *)
(* (claw-app/src/main.rs).                                                 *)
(***************************************************************************)
EXTENDS Options, Naturals, Sequences, Calls

CONSTANTS
  Gateways,  \* gateway sections: [port, bind, flat, nested, auth], or None
  OldKeys,   \* the keys outside the sections, with their values
  Sections   \* new sections, each its value or None

--------------------------------------------------------------------------------
(* Validation *)

Issue(path, severity) == [path |-> path, severity |-> severity]

Given(text) == text \notin {None, ""}

\* Of the gateway section [port, auth, flat, nested], auth [mode, token, password].
ValidateGateway(gw) ==
    IF gw = None THEN {}
    ELSE UNION {
        IF gw.port = 0 THEN {Issue("gateway.port", "error")} ELSE {},
        IF gw.auth # None /\ gw.auth.mode = "token" /\ ~Given(gw.auth.token)
          THEN {Issue("gateway.auth.token", "error")} ELSE {},
        IF gw.auth # None /\ gw.auth.mode = "password" /\ ~Given(gw.auth.password) /\ ~Given(gw.auth.token)
          THEN {Issue("gateway.auth.password", "error")} ELSE {},
        IF gw.flat # None /\ gw.nested # None THEN {Issue("gateway.controlUiEnabled", "warning")} ELSE {}}

\* Of the channels, each [enabled, accounts], an account being its bot token.
ValidateChannels(channels) ==
    {Issue(channelAccount, "error") : channelAccount \in
        {x \in {"telegram"} \X UNION {DOMAIN channels[n].accounts : n \in DOMAIN channels} :
            /\ x[1] \in DOMAIN channels /\ x[2] \in DOMAIN channels[x[1]].accounts
            /\ ~Given(channels[x[1]].accounts[x[2]])}}
    \cup {Issue(<<name>>, "warning") : name \in {n \in DOMAIN channels : channels[n].enabled = FALSE}}

\* Of the list of agents, each its id.
ValidateAgents(ids) ==
    {Issue(<<"agents", i>>, "error") : i \in
        {j \in DOMAIN ids : ~Given(ids[j]) \/ \E k \in 1..(j - 1) : ids[k] = ids[j]}}

\* The key looks at channel and account alone: bindings that differ in peer,
\* guild, team or roles count as duplicates.
BindingPatternKey(binding) == <<binding.channel, binding.account>>

ValidateBindings(bindings) ==
    {Issue(<<"bindings", i>>, "error") : i \in {j \in DOMAIN bindings : ~Given(bindings[j].agent)}}
    \cup {Issue(<<"bindings", i>>, "warning") : i \in
            {j \in DOMAIN bindings : \E k \in 1..(j - 1) : BindingPatternKey(bindings[k]) = BindingPatternKey(bindings[j])}}

\* Of the models of a provider, each its id.
ValidateModels(ids) == {Issue(<<"models", i>>, "error") : i \in {j \in DOMAIN ids : ~Given(ids[j])}}

KnownScopes == {"per-sender", "per-channel", "per-account", "global"}

ValidateSession(scope) == IF scope \in {None} \cup KnownScopes THEN {} ELSE {Issue("session.scope", "warning")}

ValidateTools(allow, deny) == IF allow \cap deny = {} THEN {} ELSE {Issue("tools", "warning")}

Deprecated == {"server", "bot"}

ValidateExtraKeys(extra) == {Issue(key, "warning") : key \in DOMAIN extra \cap Deprecated}

ValidateConfig(config) ==
    ValidateGateway(config.gateway) \cup ValidateChannels(config.channels)
    \cup ValidateAgents(config.agents) \cup ValidateBindings(config.bindings)
    \cup ValidateModels(config.models) \cup ValidateSession(config.scope)
    \cup ValidateTools(config.allow, config.deny) \cup ValidateExtraKeys(config.extra)

HasErrors(issues) == \E i \in issues : i.severity = "error"

\* An old key is taken away; its value, None if it cannot be read, fills the
\* new section if that is missing and is lost otherwise.
MigrateKey(sections, extra, old, new) ==
    [sections |-> IF old \in DOMAIN extra /\ sections[new] = None THEN [sections EXCEPT ![new] = extra[old]] ELSE sections,
     extra    |-> [k \in DOMAIN extra \ {old} |-> extra[k]]]

MigrateLegacyConfig(sections, extra) ==
    LET server == MigrateKey(sections, extra, "server", "gateway")
    IN MigrateKey(server.sections, server.extra, "bot", "agents")

--------------------------------------------------------------------------------
(* What the application makes of it *)

AuthMode(kind, secret) == [kind |-> kind, secret |-> secret]

\* Mutant: no token stands in for a missing password.
BuildAuthModeUnwrapped(auth) ==
    CASE auth.mode = "token"         -> AuthMode("token", IF auth.token = None THEN "" ELSE auth.token)
      [] auth.mode = "password"      -> AuthMode("password", IF auth.password = None THEN "" ELSE auth.password)
      [] auth.mode = "trusted-proxy" -> AuthMode("trusted-proxy", "")
      [] OTHER                       -> AuthMode("none", "")

\* The token stands in for a password that is missing, not for an empty one.
BuildAuthMode(auth) ==
    CASE auth.mode = "token"         -> AuthMode("token", IF auth.token = None THEN "" ELSE auth.token)
      [] auth.mode = "password"      -> AuthMode("password", IF auth.password # None THEN auth.password
                                                            ELSE IF auth.token # None THEN auth.token ELSE "")
      [] auth.mode = "trusted-proxy" -> AuthMode("trusted-proxy", "")
      [] OTHER                       -> AuthMode("none", "")

DefaultPort == 18789

\* Of gw also [bind]; auto means loopback, and tailnet and custom mean lan.
BuildGatewayOptions(gw) ==
    IF gw = None THEN [port |-> DefaultPort, bind |-> "loopback", ui |-> TRUE, auth |-> AuthMode("none", "")]
    ELSE [port |-> IF gw.port = None THEN DefaultPort ELSE gw.port,
          bind |-> IF gw.bind \in {None, "localhost", "auto", "loopback"} THEN "loopback" ELSE "lan",
          ui   |-> IF gw.nested # None THEN gw.nested ELSE IF gw.flat # None THEN gw.flat ELSE TRUE,
          auth |-> IF gw.auth = None THEN AuthMode("none", "") ELSE BuildAuthMode(gw.auth)]

\* The catalog starts with a built-in model; the configured default is set
\* before the configured models are registered.
BuildCatalog(builtin, models) ==
    LET known == {builtin}
    IN [entries |-> known \cup {models.ids[i] : i \in {j \in DOMAIN models.ids : models.ids[j] # None}},
        default |-> IF models.default \in known THEN models.default ELSE builtin]

\* The channels whose accounts are started: enabled must have been said.
StartChannels(channels, plugins) ==
    UNION {{<<name, account>> : account \in DOMAIN channels[name].accounts} :
              name \in {n \in DOMAIN channels \cap plugins : channels[n].enabled = TRUE}}

--------------------------------------------------------------------------------
(* Properties *)

\* What validation accepts the gateway can serve: a port that was chosen and a
\* secret where the mode needs one.  An empty password with a token given is
\* the exception: validation counts the token and the start does not.
ValidatedServes(gw) ==
    LET options == BuildGatewayOptions(gw)
    IN ~HasErrors(ValidateGateway(gw)) =>
          /\ options.port # 0
          /\ options.auth.kind \in {"token", "password"} /\ gw.auth.password # "" => options.auth.secret # ""

\* validation.rs:181: "auth mode 'password' requires a non-empty password (or
\* token as fallback)".
TokenStandsIn(gw) == ~HasErrors(ValidateGateway(gw)) /\ BuildGatewayOptions(gw).auth.kind = "password"
                     => BuildGatewayOptions(gw).auth.secret # ""

\* A default that names a configured model is the catalog's default.
ConfiguredDefaultIsUsed(builtin, models) ==
    LET catalog == BuildCatalog(builtin, models)
    IN models.default \in catalog.entries => catalog.default = models.default

\* Migration leaves nothing to warn about and never touches a new section.
MigrationSettles(sections, extra) ==
    LET after == MigrateLegacyConfig(sections, extra)
    IN /\ ValidateExtraKeys(after.extra) = {}
       /\ \A s \in DOMAIN sections : sections[s] # None => after.sections[s] = sections[s]

--------------------------------------------------------------------------------
(* The calls *)

ValidationFirst ==
  \/ function = "validate" /\ one \in Gateways
  \/ function = "migrate" /\ one \in OldKeys

ValidationRest ==
  \/ function = "validate" /\ others' = <<None>>
  \/ function = "migrate" /\ \E sections \in Sections : others' = <<sections>>

ValidationSpec ==
  /\ others = <<>> /\ ValidationFirst
  /\ [][others = <<>> /\ ValidationRest /\ UNCHANGED <<function, one>>]_callVars

\* What is valid can be served, and old keys are migrated once.
ConfigurationHolds ==
  /\ Called("validate") => ValidatedServes(one)
  /\ Called("migrate") => MigrationSettles(others[1], one)
=============================================================================

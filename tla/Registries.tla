------------------------------ MODULE Registries ------------------------------
(* The tables the rest of the program looks things up in: the model catalog *)
(* (claw-agent-models catalog.rs), the plugins, the hooks they declare and   *)
(* the pipeline that executes these (claw-plugins registry.rs, types.rs,     *)
(* hooks.rs) and the channel docks (claw-channels registry.rs, types.rs).  A *)
(* name is a value; Folded maps the spellings of a channel to their lower    *)
(* case.                                                                     *)
EXTENDS Options, Integers, Sequences, FiniteSets, SequencesExt, FiniteSetsExt, Functions

CONSTANTS Models,      \* the model ids that are used
          Plugins,     \* the plugin ids that are used
          Hooks,       \* the hooks they declare, [events, priority, result]
          HookEvents,  \* the events that happen
          DockIds,     \* the channel ids docks are registered under
          Folded,      \* [spelling -> its lower case]; others are fixed
          MaxHandles,  \* bound: the registrations of plugins
          MaxDeclared  \* bound: the hooks one registration declares

BuiltIn == {"telegram", "whatsapp", "discord", "slack", "signal", "googlechat", "irc", "imessage"}

\* Lower case has a lower case of its own: itself.
RegistryAssumption ==
    /\ IsFiniteSet(Plugins)
    /\ None \notin Models \union Plugins \union BuiltIn
    /\ \A h \in Hooks : h.priority \in Int
    /\ MaxHandles \in Nat /\ MaxDeclared \in Nat
    /\ \A s \in DOMAIN Folded : Folded[s] \notin DOMAIN Folded
    /\ BuiltIn \intersect DOMAIN Folded = {}
ASSUME RegistryAssumption

VARIABLES
    entries,   \* ModelCatalog.entries, the ids
    default,   \* ModelCatalog.global_default
    plugins,   \* PluginRegistry.plugins: [id -> [state, handle]]
    handles,   \* per PluginApi handed out, the hooks declared through it
    pipeline,  \* HookPipeline::execute: the hooks it got and how far it came
    docks      \* ChannelRegistry.docks: [id -> whether the plugin is loaded]

tableVars == <<entries, default, plugins, handles, pipeline, docks>>
catalogVars == <<entries, default>>
pluginVars == <<plugins, handles, pipeline>>

TableInsert(f, k, v) == [x \in DOMAIN f \union {k} |-> IF x = k THEN v ELSE f[x]]

\* No plugin, no handle, no dock, and no pipeline that shares the plugins.
RegistryInit ==
    /\ entries = {} /\ default = None
    /\ plugins = <<>> /\ handles = <<>> /\ pipeline = None /\ docks = <<>>

--------------------------------------------------------------------------------
(* Model catalog *)

RegisterModel(m) ==
    entries' = entries \union {m} /\ UNCHANGED <<default, pluginVars, docks>>

\* A model the catalog does not know does not become the default.
SetGlobalDefault(m) ==
    /\ m \in entries /\ default' = m
    /\ UNCHANGED <<entries, pluginVars, docks>>

RemoveModel(m) ==
    /\ entries' = entries \ {m} /\ default' = IF default = m THEN None ELSE default
    /\ UNCHANGED <<pluginVars, docks>>

\* chosen: the ids of session, agent, channel and global settings; the first
\* that the catalog knows, its own default the last of them.
CatalogResolve(chosen) ==
    LET levels == Append(chosen, default)
        known == {i \in DOMAIN levels : levels[i] \in entries}
    IN IF known = {} THEN None ELSE levels[Min(known)]

--------------------------------------------------------------------------------
(* Plugins *)

\* Registering an id again replaces the plugin: what the old PluginApi
\* declares from then on, and declared before, is no longer found.  Once a
\* pipeline shares the registry nothing is registered or switched any more.
RegisterPlugin(p) ==
    /\ pipeline = None
    /\ Len(handles) < MaxHandles
    /\ handles' = Append(handles, <<>>)
    /\ plugins' = TableInsert(plugins, p, [state |-> "registered", handle |-> Len(handles) + 1])
    /\ UNCHANGED <<pipeline, catalogVars, docks>>

SetPluginState(p, state) ==
    /\ pipeline = None
    /\ p \in DOMAIN plugins /\ plugins' = [plugins EXCEPT ![p].state = state]
    /\ UNCHANGED <<handles, pipeline, catalogVars, docks>>
Activate(p) == SetPluginState(p, "active")
Deactivate(p) == SetPluginState(p, "disabled")

\* A PluginApi can be used whenever its plugin holds it, active or not, and
\* while hooks are executed.
Declare(h, hook) ==
    /\ Len(handles[h]) < MaxDeclared
    /\ handles' = [handles EXCEPT ![h] = Append(@, hook)]
    /\ UNCHANGED <<plugins, pipeline, catalogVars, docks>>

--------------------------------------------------------------------------------
(* Hooks *)

Active == {p \in DOMAIN plugins : plugins[p].state = "active"}
Declared(p) == handles[plugins[p].handle]

\* The hooks of an event, each by its plugin and its place there.
HookPlaces(event) ==
    {w \in Active \X (1..MaxDeclared) :
        w[2] \in DOMAIN Declared(w[1]) /\ event \in Declared(w[1])[w[2]].events}

\* The stable sort by priority keeps the order in which the plugins were
\* visited, and within a plugin that of its declarations.
VisitedBefore(visit, v, w) ==
    \/ visit[v[1]] < visit[w[1]]
    \/ v[1] = w[1] /\ v[2] < w[2]
RunsBefore(visit, v, w) ==
    LET m == Declared(v[1])[v[2]].priority
        n == Declared(w[1])[w[2]].priority
    IN m < n \/ (m = n /\ VisitedBefore(visit, v, w))

SortedPlaces(event, visit) ==
    {s \in SetToSeqs(HookPlaces(event)) :
        \A i, j \in DOMAIN s : i < j => RunsBefore(visit, s[i], s[j])}

\* The plugins are visited in the order of a HashMap: any.
GetAllHooks(event) ==
    {[i \in DOMAIN s |-> [plugin |-> s[i][1], hook |-> Declared(s[i][1])[s[i][2]]]] :
        s \in UNION {SortedPlaces(event, visit) :
                     visit \in Injection(Active, 1..Cardinality(Active))}}

\* execute collects the hooks once ...  Executions share nothing but the tables:
\* of those that are begun the last is followed.
BeginHooks(event) ==
    /\ \E hooks \in GetAllHooks(event) :
           pipeline' = [hooks |-> hooks, data |-> "given", executed |-> 0,
                        modified |-> FALSE, by |-> None]
    /\ UNCHANGED <<plugins, handles, catalogVars, docks>>

\* ... and awaits one after the other.  A hook's result is "continue", "abort"
\* (or an error, which aborts too) or the data it puts in the place of what it
\* was given.
ExecuteHook ==
    /\ pipeline # None /\ pipeline.by = None
    /\ pipeline.executed < Len(pipeline.hooks)
    /\ LET next == pipeline.hooks[pipeline.executed + 1]
           result == next.hook.result
       IN \/ result = "abort" /\ pipeline' = [pipeline EXCEPT !.by = next.plugin]
          \/ result = "continue" /\ pipeline' = [pipeline EXCEPT !.executed = @ + 1]
          \/ /\ result \notin {"abort", "continue"}
             /\ pipeline' = [hooks |-> pipeline.hooks, data |-> result, modified |-> TRUE,
                             executed |-> pipeline.executed + 1, by |-> None]
    /\ UNCHANGED <<plugins, handles, catalogVars, docks>>

--------------------------------------------------------------------------------
(* Channels *)

Fold(s) == IF s \in DOMAIN Folded THEN Folded[s] ELSE s
ParseChannel(s) ==
    CASE Fold(s) = "tg" -> "telegram" [] Fold(s) = "wa" -> "whatsapp"
      [] Fold(s) \in {"google_chat", "gchat"} -> "googlechat"
      [] Fold(s) = "imsg" -> "imessage"
      [] Fold(s) \in BuiltIn -> Fold(s) [] OTHER -> None
\* ChannelId keeps the spelling of a custom channel, the normalization folds it.
ChannelIdOf(s) == IF ParseChannel(s) = None THEN s ELSE ParseChannel(s)
NormalizeChannelId(s) == IF ParseChannel(s) = None THEN Fold(s) ELSE ParseChannel(s)

\* A dock registered under the id of another replaces it.
RegisterDock(c, loaded) ==
    docks' = TableInsert(docks, c, loaded) /\ UNCHANGED <<catalogVars, pluginVars>>
UnregisterDock(c) ==
    /\ c \in DOMAIN docks /\ docks' = Restrict(docks, DOMAIN docks \ {c})
    /\ UNCHANGED <<catalogVars, pluginVars>>

CatalogNext == \E m \in Models : RegisterModel(m) \/ SetGlobalDefault(m) \/ RemoveModel(m)
PluginNext ==
    \/ \E p \in Plugins : RegisterPlugin(p) \/ Activate(p) \/ Deactivate(p)
    \/ \E h \in DOMAIN handles, hook \in Hooks : Declare(h, hook)
    \/ \E event \in HookEvents : BeginHooks(event)
    \/ ExecuteHook
DockNext ==
    \/ \E c \in DockIds, loaded \in BOOLEAN : RegisterDock(c, loaded)
    \/ \E c \in DockIds : UnregisterDock(c)
RegistryNext == CatalogNext \/ PluginNext \/ DockNext
RegistrySpec == RegistryInit /\ [][RegistryNext]_tableVars

--------------------------------------------------------------------------------
(* Properties *)

\* The types of the tables.
RegistryTypeOK ==
    /\ entries \subseteq Models
    /\ default \in Models \union {None}
    /\ DOMAIN plugins \subseteq Plugins
    /\ \A p \in DOMAIN plugins :
           /\ plugins[p].state \in {"registered", "active", "disabled"}
           /\ plugins[p].handle \in DOMAIN handles
    /\ handles \in Seq(Seq(Hooks))
    /\ DOMAIN docks \subseteq DockIds /\ \A c \in DOMAIN docks : docks[c] \in BOOLEAN

\* Whatever is registered and removed, the default is a model the catalog
\* knows, so that a selection that names only unknown models still gets one.
DefaultIsKnown ==
    default # None => \A m, n \in Models \union {None} : CatalogResolve(<<m, n>>) \in entries

\* Of the hooks of an event, in whatever order the plugins are visited and
\* whatever is declared meanwhile, one that aborts keeps every hook of a higher
\* number from running, the data is that of the last hook that changed it, and
\* a plugin that is not active has no part (HookPipeline::execute).
HooksObeyPriority ==
    pipeline # None =>
        LET hooks == pipeline.hooks
            changes == {i \in 1..pipeline.executed : hooks[i].hook.result # "continue"}
        IN /\ \A i, j \in DOMAIN hooks :
                 hooks[i].hook.result = "abort" /\ hooks[j].hook.priority > hooks[i].hook.priority
                   => j > pipeline.executed
           /\ changes = {} => pipeline.data = "given"
           /\ \A i \in changes :
                 (\A j \in changes : j <= i) => pipeline.data = hooks[i].hook.result
           /\ pipeline.modified = (changes # {})
           /\ pipeline.by # None =>
                 /\ pipeline.executed < Len(hooks)
                 /\ hooks[pipeline.executed + 1].hook.result = "abort"
                 /\ hooks[pipeline.executed + 1].plugin = pipeline.by
           /\ \A i \in DOMAIN hooks : plugins[hooks[i].plugin].state = "active"

\* An id and any alias of it name one channel, also after a normalization.
AliasesAgree ==
    \A s \in DockIds \union DOMAIN Folded :
        /\ NormalizeChannelId(NormalizeChannelId(s)) = NormalizeChannelId(s)
        /\ ParseChannel(s) # None => ChannelIdOf(s) = NormalizeChannelId(s)

\* The registries: the default model is one the catalog knows, the hooks of an
\* event run by priority and stop at the first that aborts, and the spellings of
\* a channel agree.
RegistriesHold == RegistryTypeOK /\ DefaultIsKnown /\ HooksObeyPriority /\ AliasesAgree
================================================================================

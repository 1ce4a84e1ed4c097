------------------------------- MODULE MCState -------------------------------
(***************************************************************************)
(* The parts that keep data, on small instances: the agent runner and its  *)
(* transcript, turn by turn; the event broadcaster, the session store, the *)
(* subagents, the tools and their policy, the registries, the workspace's  *)
(* cache, the Telegram adapter and its files, and the panel's draft of the *)
(* configuration.                                                          *)
(* They share no state, so a behaviour exercises one of them.  The         *)
(* properties are those of the modules.                                    *)
(***************************************************************************)
EXTENDS AgentRunner, ToolPolicy, EventBroadcaster, SessionStore, Subagents, AgentWorkspace,
  Registries, TelegramApi, GuiConfig, TLC

VARIABLE sel  \* the part that the behaviour exercises

\* Layers of every kind, in conflict with each other about two tools.
Rules(kind, allow, deny) == [kind |-> kind, allow |-> allow, deny |-> deny]
SomeLayers ==
  {Rules("sandbox", {}, {<<"all", "t">>}), Rules("deny_list", {}, {<<"all", "u">>}),
   Rules("allow_list", {<<"all", "t">>}, {}), Rules("allow_list", {<<"all", "u">>}, {}),
   Rules("group", {<<"g", "t">>}, {<<"g", "u">>}), Rules("agent", {}, {<<"a", "t">>}),
   Rules("agent", {<<"a", "t">>, <<"a", "u">>}, {}), Rules("provider", {}, {<<"p", "t">>})}
SomeContexts == {[agent |-> "a", group |-> "g", provider |-> "p"],
                 [agent |-> "a", group |-> None, provider |-> None]}

\* Hooks that stop, change or let pass, at two priorities, and channel names.
SomeHooks == [events : {{"sent"}}, priority : {1, 2}, result : {"abort", "changed"}]
             \cup [events : {{"sent", "got"}}, priority : {2}, result : {"continue"}]
SomeSpellings == ("TG" :> "tg") @@ ("Own" :> "own")

\* Three files, two of one name, that reach two accounts and two chats.
FileOf(account, chat, name, id) ==
  [account |-> account, chat |-> chat, kind |-> "document", name |-> name, id |-> id, ext |-> "txt"]
SomeFileMessages == {FileOf("a", "c", <<"x">>, "1"), FileOf("a", "d", <<"x">>, "2"),
                     FileOf("b", "c", <<"..", "x">>, "3")}

\* A configuration that is empty, and one with an entry in every list and
\* settings that hold a reference to a variable.
Entry(name, target) == [name |-> name, target |-> target, form |-> "set"]
Empty == [settings |-> [t \in {"gateway", "models"} |-> None],
          lists |-> [l \in {"agents", "bindings", "channels", "skills"} |-> <<>>]]
Filled == [settings |-> [t \in {"gateway", "models"} |-> "variable"],
           lists |-> [agents |-> <<Entry("a", None)>>, channels |-> <<Entry("b", None)>>,
                      bindings |-> <<Entry("a", "b")>>, skills |-> <<Entry("a", None)>>]]
SomeFiles == {Empty, Filled}

Symmetry == Permutations(Spawners)

agentVars == <<vars, subagentVars, toolVars>>
keptVars == <<storeVars, eventVars, tableVars, workspaceVars>>
userVars == <<telegramVars, guiVars>>
stateVars == <<sel, agentVars, keptVars, userVars>>

StateInit ==
  /\ sel \in {"turns", "children", "tools", "store", "events", "catalog", "plugins", "docks",
              "workspace", "calls", "files", "panel"}
  /\ Init /\ SubagentInit /\ ToolInit
  /\ StoreInit /\ EventInit /\ RegistryInit
  /\ WorkspaceInit
  /\ TelegramInit /\ GuiInit
  /\ sel # "panel" => file.config = Empty

AgentNext ==
  /\ \/ sel = "turns" /\ Next /\ UNCHANGED <<subagentVars, toolVars>>
     \/ sel = "children" /\ SubagentNext /\ UNCHANGED <<vars, toolVars>>
     \/ sel = "tools" /\ ToolNext /\ UNCHANGED <<vars, subagentVars>>
  /\ UNCHANGED <<keptVars, userVars>>

KeptNext ==
  /\ \/ sel = "store" /\ StoreNext /\ UNCHANGED <<eventVars, tableVars, workspaceVars>>
     \/ sel = "events" /\ EventNext /\ UNCHANGED <<storeVars, tableVars, workspaceVars>>
     \/ /\ sel = "workspace" /\ WorkspaceNext
        /\ UNCHANGED <<storeVars, eventVars, tableVars>>
     \/ /\ \/ sel = "catalog" /\ CatalogNext
           \/ sel = "plugins" /\ PluginNext
           \/ sel = "docks" /\ DockNext
        /\ UNCHANGED <<storeVars, eventVars, workspaceVars>>
  /\ UNCHANGED <<agentVars, userVars>>

UserNext ==
  /\ \/ sel = "calls" /\ CallNext /\ UNCHANGED guiVars
     \/ sel = "files" /\ FileNext /\ UNCHANGED guiVars
     \/ sel = "panel" /\ GuiNext /\ UNCHANGED telegramVars
  /\ UNCHANGED <<agentVars, keptVars>>

StateNext == UNCHANGED sel /\ (AgentNext \/ KeptNext \/ UserNext)

StateSpec == StateInit /\ [][StateNext]_stateVars

============================================================================

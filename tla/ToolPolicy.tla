------------------------------ MODULE ToolPolicy ------------------------------
(* claw-agent-tools: the layers of the tool policy (policy.rs, layers.rs,   *)
(* profiles.rs) and the execution of one tool call through registry,        *)
(* policy, hooks and the tool itself (pipeline.rs).  A layer is [kind, deny, *)
(* allow], its sets holding pairs of whom the rule is for and a tool.       *)
EXTENDS Options, Naturals, Sequences

CONSTANTS Layers,     \* the layers a host may add
          Tools,      \* the names a call may have
          Contexts,   \* the PolicyContexts, [agent, group, provider]
          MaxLayers,  \* bound: the layers added
          MaxHooks    \* bound: the hooks added

\* No opinion is none of the two.
ASSUME ToolAssumption == None \notin {"allow", "deny"} /\ MaxLayers \in Nat /\ MaxHooks \in Nat

VARIABLES
    layers,     \* PolicyEngine.layers, in the order they are asked
    tools,      \* ToolRegistry.tools
    hooks,      \* how many hooks there are
    toolPhase,  \* "setup", then the step execute_tool_call is at
    callOf,     \* the tool and the context of the call
    hookAt,     \* the hook that is asked next
    ran,        \* the tools whose execute was called, oldest first
    content     \* what is returned: "raw", "cut" or "modified", or the error

toolVars == <<layers, tools, hooks, toolPhase, callOf, hookAt, ran, content>>

--------------------------------------------------------------------------------
(* Policy *)

Kinds == {"sandbox", "deny_list", "allow_list", "group", "agent", "provider"}

Priority(kind) ==
    CASE kind = "sandbox" -> 100 [] kind = "deny_list" -> 90 [] kind = "allow_list" -> 80
      [] kind = "group" -> 70    [] kind = "agent" -> 60     [] OTHER -> 50

\* Whom the rules of a layer are looked up for; a context may lack it.
Owner(kind, context) ==
    CASE kind = "group" -> context.group [] kind = "agent" -> context.agent
      [] kind = "provider" -> context.provider [] OTHER -> "all"

\* What a kind of layer can hold: only the group and agent layers hold both.
IsLayer(l) ==
    /\ l.kind \in Kinds
    /\ l.kind \in {"sandbox", "deny_list", "provider"} => l.allow = {}
    /\ l.kind = "allow_list" => l.deny = {}

\* A denial is looked for before a permission.
Opinion(l, tool, context) ==
    LET rule == <<Owner(l.kind, context), tool>>
    IN IF rule[1] = None THEN None
       ELSE IF rule \in l.deny THEN "deny"
       ELSE IF rule \in l.allow THEN "allow" ELSE None

\* The first layer with an opinion decides; none denies.
Allows(ls, tool, context) ==
    \E i \in DOMAIN ls :
        /\ Opinion(ls[i], tool, context) = "allow"
        /\ \A j \in 1..(i - 1) : Opinion(ls[j], tool, context) = None

ProfileTools(profile) ==
    LET minimal == {"read_file", "search", "list_files", "get_info"}
        coding == minimal \union {"write_file", "edit_file", "shell", "git_status",
                                  "git_commit", "git_diff"}
        messaging == {"send_message", "send_dm", "add_reaction", "remove_reaction",
                      "list_channels"}
    IN CASE profile = "minimal" -> minimal [] profile = "coding" -> coding
         [] profile = "messaging" -> messaging
         [] OTHER -> coding \union messaging
                       \union {"exec_process", "network_request", "manage_users",
                               "admin_config"}

--------------------------------------------------------------------------------
(* Setting up *)

NewCall == [tool |-> None, context |-> None]
ToolInit ==
    /\ layers = <<>> /\ tools = {} /\ hooks = 0 /\ toolPhase = "setup"
    /\ callOf = NewCall /\ hookAt = 1 /\ ran = <<>> /\ content = None

Put(l, k) == [i \in 1..(Len(layers) + 1) |->
                 IF i <= k THEN layers[i] ELSE IF i = k + 1 THEN l ELSE layers[i - 1]]

AddLayerLast(l) ==
    /\ toolPhase = "setup" /\ Len(layers) < MaxLayers
    /\ layers' = Put(l, Len(layers))
    /\ UNCHANGED <<tools, hooks, toolPhase, callOf, hookAt, ran, content>>
\* The stable sort puts a layer behind those of its priority.
AddLayer(l) ==
    /\ toolPhase = "setup" /\ Len(layers) < MaxLayers
    /\ \E k \in 0..Len(layers) :
          /\ \A i \in 1..k : Priority(layers[i].kind) >= Priority(l.kind)
          /\ \A i \in (k + 1)..Len(layers) : Priority(layers[i].kind) < Priority(l.kind)
          /\ layers' = Put(l, k)
    /\ UNCHANGED <<tools, hooks, toolPhase, callOf, hookAt, ran, content>>

Register(tool) ==
    /\ toolPhase = "setup" /\ tools' = tools \union {tool}
    /\ UNCHANGED <<layers, hooks, toolPhase, callOf, hookAt, ran, content>>

AddHook ==
    /\ toolPhase = "setup" /\ hooks < MaxHooks /\ hooks' = hooks + 1
    /\ UNCHANGED <<layers, tools, toolPhase, callOf, hookAt, ran, content>>

--------------------------------------------------------------------------------
(* execute_tool_call *)

Setting == <<layers, tools, hooks>>
BeginCall(tool, context) ==
    /\ toolPhase = "setup" /\ toolPhase' = "resolve"
    /\ callOf' = [tool |-> tool, context |-> context]
    /\ UNCHANGED <<Setting, hookAt, ran, content>>

Refuse(error) == toolPhase' = "returned" /\ content' = error /\ UNCHANGED hookAt
Go(phase) == toolPhase' = phase /\ hookAt' = 1 /\ UNCHANGED content

Resolve ==
    /\ toolPhase = "resolve"
    /\ IF callOf.tool \notin tools THEN Refuse("unknown_tool") ELSE Go("police")
    /\ UNCHANGED <<Setting, callOf, ran>>

Police ==
    /\ toolPhase = "police"
    /\ IF Allows(layers, callOf.tool, callOf.context) THEN Go("before") ELSE Refuse("denied")
    /\ UNCHANGED <<Setting, callOf, ran>>

\* The hooks are asked in their order; the first that denies ends the call.
BeforeCall ==
    /\ toolPhase = "before"
    /\ IF hookAt > hooks THEN Go("execute")
       ELSE \/ hookAt' = hookAt + 1 /\ UNCHANGED <<toolPhase, content>>
            \/ Refuse("blocked")
    /\ UNCHANGED <<Setting, callOf, ran>>

\* The tool may fail; the result is cut to the limit before the hooks see it.
Execute ==
    /\ toolPhase = "execute" /\ ran' = Append(ran, callOf.tool)
    /\ \/ Refuse("failed")
       \/ toolPhase' = "after" /\ hookAt' = 1 /\ content' \in {"raw", "cut"}
    /\ UNCHANGED <<Setting, callOf>>

\* A hook may replace the result, by one of any length.
AfterCall ==
    /\ toolPhase = "after"
    /\ IF hookAt > hooks THEN toolPhase' = "returned" /\ UNCHANGED <<hookAt, content>>
       ELSE hookAt' = hookAt + 1 /\ content' \in {content, "modified"} /\ UNCHANGED toolPhase
    /\ UNCHANGED <<Setting, callOf, ran>>

ToolNext ==
    \/ \E l \in Layers : AddLayer(l)
    \/ \E t \in Tools : Register(t)
    \/ AddHook
    \/ \E t \in Tools, c \in Contexts : BeginCall(t, c)
    \/ Resolve \/ Police \/ BeforeCall \/ Execute \/ AfterCall
ToolSpec == ToolInit /\ [][ToolNext]_toolVars

--------------------------------------------------------------------------------
(* Properties *)

\* In whatever order the layers were added, a tool runs only if it is the
\* registered tool of the call, some layer allows it, and no layer of a
\* higher priority than that one denies it: the sandbox and the deny list
\* cannot be overridden (layers.rs), and no opinion denies (policy.rs).
OnlyAllowedRun ==
    \A n \in DOMAIN ran :
        /\ ran[n] = callOf.tool /\ ran[n] \in tools
        /\ \E i \in DOMAIN layers :
              /\ Opinion(layers[i], ran[n], callOf.context) = "allow"
              /\ \A j \in DOMAIN layers :
                    Priority(layers[j].kind) > Priority(layers[i].kind)
                      => Opinion(layers[j], ran[n], callOf.context) # "deny"

ToolTypeOK ==
    /\ layers \in Seq(Layers) /\ tools \subseteq Tools /\ hooks \in Nat /\ hookAt \in Nat
    /\ toolPhase \in {"setup", "resolve", "police", "before", "execute", "after", "returned"}
    /\ ran \in Seq(Tools)
    /\ callOf \in [tool : Tools \union {None}, context : Contexts \union {None}]
================================================================================

---------------------------- MODULE AgentProofs -----------------------------
(***************************************************************************)
(* Proofs about what an agent's turn rests on: the tools it may run, its   *)
(* subagents, the files of its workspace, the models that answer it, the   *)
(* database its transcript is kept in, with the lock that the writers take *)
(* and the store of sessions, the registries of models, plugins and        *)
(* channels, and the compaction of a conversation that grew too long.      *)
(***************************************************************************)
EXTENDS ToolPolicy, Subagents, AgentWorkspace, FailoverChain, SessionWriteLock, SessionStore,
        Registries, History, FiniteSetTheorems, SequenceTheorems, WellFoundedInduction,
        TLAPS

-----------------------------------------------------------------------------
(* The tool policy, for all layers, tools, contexts and hooks, and for     *)
(* every order in which the layers are added. ToolInv carries two facts to *)
(* the moment at which a tool runs: the layers are sorted by falling       *)
(* priority (Sorted), so that asking them from the first on asks the       *)
(* higher ones before the lower ones, and the call that has passed the     *)
(* policy is the one that runs (Policed, RanAllowed), which needs that     *)
(* nothing has run while layers may still be added.                        *)

Sorted ==
  \A i, j \in DOMAIN layers :
    i < j => Priority(layers[i].kind) >= Priority(layers[j].kind)

Policed ==
  /\ toolPhase \in {"police", "before", "execute", "after"} => callOf.tool \in tools
  /\ toolPhase \in {"before", "execute", "after"} =>
       Allows(layers, callOf.tool, callOf.context)

RanAllowed ==
  /\ toolPhase = "setup" => DOMAIN ran = {}
  /\ \A n \in DOMAIN ran : /\ ran[n] = callOf.tool /\ callOf.tool \in tools
                           /\ Allows(layers, callOf.tool, callOf.context)

ToolInv == ToolTypeOK /\ Sorted /\ Policed /\ RanAllowed

\* A priority is a number.
LEMMA PriorityIsNat == \A kind : Priority(kind) \in Nat
BY DEF Priority

\* The empty sequences of the beginning.
LEMMA Beginnings ==
  <<>> \in Seq(Layers) /\ <<>> \in Seq(Tools) /\ DOMAIN <<>> = {}
<1>1. <<>> \in Seq(Layers) /\ <<>> \in Seq(Tools)
  BY EmptySeq
<1>2. Len(<<>>) = 0 /\ DOMAIN <<>> = 1..Len(<<>>)
  BY EmptySeq, LenProperties
<1>3. DOMAIN <<>> = {}
  BY <1>2
<1>4. QED
  BY <1>1, <1>3

\* Nothing is set up yet.
LEMMA ToolInitInv == ToolInit => ToolInv
<1> SUFFICES ASSUME ToolInit PROVE ToolInv
  OBVIOUS
<1>1. /\ layers \in Seq(Layers) /\ ran \in Seq(Tools) /\ DOMAIN layers = {} /\ DOMAIN ran = {}
  BY Beginnings, Zenon DEF ToolInit
<1>2. /\ tools = {} /\ hooks = 0 /\ toolPhase = "setup" /\ hookAt = 1
  BY Zenon DEF ToolInit
<1>3. callOf \in [tool : Tools \union {None}, context : Contexts \union {None}]
  BY DEF ToolInit, NewCall
<1>4. ToolTypeOK
  BY <1>1, <1>2, <1>3 DEF ToolTypeOK
<1>5. Sorted /\ Policed /\ RanAllowed
  BY <1>1, <1>2 DEF Sorted, Policed, RanAllowed
<1>6. QED
  BY <1>4, <1>5 DEF ToolInv

\* A layer that is put in its place is there, between those that were before
\* and those that were behind it.
LEMMA Putting ==
  ASSUME layers \in Seq(Layers), NEW l \in Layers, NEW k \in 0..Len(layers),
         NEW t, t = Put(l, k)
  PROVE  /\ t \in Seq(Layers) /\ Len(layers) \in Nat /\ DOMAIN layers = 1..Len(layers)
         /\ DOMAIN t = 1..(Len(layers) + 1)
         /\ \A i \in DOMAIN t : i <= k => i \in DOMAIN layers /\ t[i] = layers[i]
         /\ t[k + 1] = l
         /\ \A i \in DOMAIN t : i > k + 1 => i - 1 \in DOMAIN layers /\ t[i] = layers[i - 1]
<1> DEFINE n == Len(layers)
<1>1. n \in Nat /\ DOMAIN layers = 1..n /\ \A i \in 1..n : layers[i] \in Layers
  BY LenProperties, ElementOfSeq
<1>2. t = [i \in 1..(n + 1) |-> IF i <= k THEN layers[i] ELSE IF i = k + 1 THEN l
                                ELSE layers[i - 1]]
  BY DEF Put
<1>3. k \in 0..n
  OBVIOUS
<1> HIDE DEF n
<1>4. \A i \in 1..(n + 1) : t[i] \in Layers
  BY <1>1, <1>2, <1>3
<1>5. t \in [1..(n + 1) -> Layers] /\ n + 1 \in Nat
  BY <1>1, <1>2, <1>4
<1>6. t \in Seq(Layers)
  BY <1>5, SeqDef
<1>7. /\ DOMAIN t = 1..(n + 1)
      /\ \A i \in DOMAIN t : i <= k => i \in DOMAIN layers /\ t[i] = layers[i]
      /\ t[k + 1] = l
      /\ \A i \in DOMAIN t : i > k + 1 => i - 1 \in DOMAIN layers /\ t[i] = layers[i - 1]
  BY <1>1, <1>2, <1>3
<1>8. QED
  BY <1>1, <1>6, <1>7 DEF n

\* Adding a layer keeps the layers sorted, wherever the sort puts it.
LEMMA AddLayerInv ==
  ASSUME ToolInv, NEW l \in Layers, AddLayer(l)
  PROVE  ToolInv'
<1>1. PICK k \in 0..Len(layers) :
        /\ \A i \in 1..k : Priority(layers[i].kind) >= Priority(l.kind)
        /\ \A i \in (k + 1)..Len(layers) : Priority(layers[i].kind) < Priority(l.kind)
        /\ layers' = Put(l, k)
  BY DEF AddLayer
<1>2. layers \in Seq(Layers)
  BY DEF ToolInv, ToolTypeOK
<1> DEFINE n == Len(layers)
<1>3. /\ layers' \in Seq(Layers) /\ n \in Nat /\ k \in 0..n /\ DOMAIN layers = 1..n
      /\ DOMAIN layers' = 1..(n + 1)
      /\ \A i \in DOMAIN layers' : i <= k => i \in DOMAIN layers /\ layers'[i] = layers[i]
      /\ layers'[k + 1] = l
      /\ \A i \in DOMAIN layers' :
            i > k + 1 => i - 1 \in DOMAIN layers /\ layers'[i] = layers[i - 1]
  BY <1>1, <1>2, Putting
<1>4. Sorted'
  <2> SUFFICES ASSUME NEW i \in DOMAIN layers', NEW j \in DOMAIN layers', i < j
               PROVE  Priority(layers'[i].kind) >= Priority(layers'[j].kind)
    BY DEF Sorted, Priority
  <2> DEFINE P(x) == Priority(x.kind)
  <2>1. \A x : P(x) \in Nat
    BY PriorityIsNat
  <2>2. \A a, b \in DOMAIN layers : a < b => P(layers[a]) >= P(layers[b])
    BY DEF ToolInv, Sorted
  <2>3. \A a \in 1..k : P(layers[a]) >= P(l)
    BY <1>1
  <2>4. \A a \in (k + 1)..n : P(layers[a]) < P(l)
    BY <1>1
  <2> HIDE DEF P, n
  <2>5. CASE j <= k
    <3>1. /\ i \in DOMAIN layers /\ j \in DOMAIN layers
          /\ layers'[i] = layers[i] /\ layers'[j] = layers[j]
      BY <1>3, <2>5
    <3>2. P(layers'[i]) >= P(layers'[j])
      BY <2>2, <3>1
    <3>3. QED
      BY <3>2 DEF P
  <2>6. CASE j = k + 1
    <3>1. i \in 1..k /\ layers'[i] = layers[i] /\ layers'[j] = l
      BY <1>3, <2>6
    <3>2. P(layers'[i]) >= P(layers'[j])
      BY <2>3, <3>1
    <3>3. QED
      BY <3>2 DEF P
  <2>7. CASE j > k + 1 /\ i <= k
    <3>1. /\ j - 1 \in DOMAIN layers /\ i \in DOMAIN layers /\ i < j - 1
          /\ layers'[j] = layers[j - 1] /\ layers'[i] = layers[i]
      BY <1>3, <2>7
    <3>2. P(layers'[i]) >= P(layers'[j])
      BY <2>2, <3>1
    <3>3. QED
      BY <3>2 DEF P
  <2>8. CASE j > k + 1 /\ i = k + 1
    <3>1. j - 1 \in (k + 1)..n /\ layers'[j] = layers[j - 1] /\ layers'[i] = l
      BY <1>3, <2>8
    <3>2. P(layers'[i]) >= P(layers'[j])
      BY <2>1, <2>4, <3>1
    <3>3. QED
      BY <3>2 DEF P
  <2>9. CASE j > k + 1 /\ i > k + 1
    <3>1. /\ j - 1 \in DOMAIN layers /\ i - 1 \in DOMAIN layers /\ i - 1 < j - 1
          /\ layers'[j] = layers[j - 1] /\ layers'[i] = layers[i - 1]
      BY <1>3, <2>9
    <3>2. P(layers'[i]) >= P(layers'[j])
      BY <2>2, <3>1
    <3>3. QED
      BY <3>2 DEF P
  <2>10. QED
    BY <1>3, <2>5, <2>6, <2>7, <2>8, <2>9
<1>5. /\ toolPhase = "setup"
      /\ UNCHANGED <<tools, hooks, toolPhase, callOf, hookAt, ran, content>>
  BY DEF AddLayer
<1>6. ToolTypeOK'
  BY <1>3, <1>5 DEF ToolInv, ToolTypeOK
<1>7. Policed' /\ RanAllowed'
  BY <1>5 DEF ToolInv, Policed, RanAllowed
<1>8. QED
  BY <1>4, <1>6, <1>7 DEF ToolInv

\* The steps of one call: the policy is asked before the tool runs, and
\* nothing about the layers changes between the two.
LEMMA ExecuteInv == ASSUME ToolInv, Execute PROVE ToolInv'
<1>1. /\ toolPhase = "execute" /\ ran' = Append(ran, callOf.tool) /\ ran \in Seq(Tools)
      /\ UNCHANGED <<layers, tools, hooks, callOf>>
      /\ toolPhase' \in {"returned", "after"} /\ hookAt' \in Nat
  BY DEF ToolInv, ToolTypeOK, Execute, Setting, Refuse
<1>2. /\ callOf.tool \in tools /\ tools \subseteq Tools
      /\ Allows(layers, callOf.tool, callOf.context)
      /\ \A n \in DOMAIN ran : ran[n] = callOf.tool
  BY <1>1 DEF ToolInv, ToolTypeOK, Policed, RanAllowed
<1>3. /\ ran' \in Seq(Tools) /\ DOMAIN ran = 1..Len(ran) /\ DOMAIN ran' = 1..Len(ran')
      /\ Len(ran) \in Nat /\ Len(ran') = Len(ran) + 1 /\ ran'[Len(ran) + 1] = callOf.tool
      /\ \A n \in 1..Len(ran) : ran'[n] = ran[n]
  <2>1. callOf.tool \in Tools
    BY <1>2
  <2>2. QED
    BY <1>1, <2>1, AppendProperties, LenProperties
<1>4. \A n \in DOMAIN ran' : ran'[n] = callOf.tool
  <2> SUFFICES ASSUME NEW n \in DOMAIN ran' PROVE ran'[n] = callOf.tool
    OBVIOUS
  <2>1. n \in 1..Len(ran) \/ n = Len(ran) + 1
    BY <1>3
  <2>2. QED
    BY <1>2, <1>3, <2>1
<1>5. ToolTypeOK'
  BY <1>1, <1>3 DEF ToolInv, ToolTypeOK
<1>6. Sorted' /\ Policed'
  BY <1>1, <1>2 DEF ToolInv, Sorted, Policed
<1>7. RanAllowed'
  BY <1>1, <1>2, <1>4 DEF RanAllowed
<1>8. QED
  BY <1>5, <1>6, <1>7 DEF ToolInv

\* Every step keeps ToolInv.
LEMMA ToolNextInv == ToolInv /\ [ToolNext]_toolVars => ToolInv'
<1> SUFFICES ASSUME ToolInv, [ToolNext]_toolVars PROVE ToolInv'
  OBVIOUS
<1> USE DEF ToolInv, ToolTypeOK, Sorted, Policed, RanAllowed, Setting
<1>1. ASSUME NEW l \in Layers, AddLayer(l) PROVE ToolInv'
  BY <1>1, AddLayerInv
<1>2. ASSUME NEW t \in Tools, Register(t) PROVE ToolInv'
  BY <1>2 DEF Register
<1>3. CASE AddHook
  BY <1>3 DEF AddHook
<1>4. ASSUME NEW t \in Tools, NEW c \in Contexts, BeginCall(t, c) PROVE ToolInv'
  BY <1>4 DEF BeginCall
<1>5. CASE Resolve
  BY <1>5 DEF Resolve, Refuse, Go
<1>6. CASE Police
  BY <1>6 DEF Police, Refuse, Go
<1>7. CASE BeforeCall
  BY <1>7 DEF BeforeCall, Refuse, Go
<1>8. CASE Execute
  BY <1>8, ExecuteInv
<1>9. CASE AfterCall
  BY <1>9 DEF AfterCall
<1>10. CASE UNCHANGED toolVars
  BY <1>10 DEF toolVars, Allows
<1>11. QED
  BY <1>1, <1>2, <1>3, <1>4, <1>5, <1>6, <1>7, <1>8, <1>9, <1>10 DEF ToolNext

\* The invariant holds of every behaviour of the registry, the engine and
\* the pipeline.
THEOREM ToolInvariance == ToolSpec => []ToolInv
BY ToolInitInv, ToolNextInv, PTL DEF ToolSpec

\* The types of the state.
THEOREM ToolTypeCorrect == ToolSpec => []ToolTypeOK
<1>1. ToolInv => ToolTypeOK
  BY DEF ToolInv
<1>2. QED
  BY <1>1, ToolInvariance, PTL

\* A layer before which no layer has an opinion is not overruled: those of a
\* higher priority all stand before it.
LEMMA AllowedMeansNotDenied ==
  ASSUME ToolInv, NEW tool, NEW context, Allows(layers, tool, context)
  PROVE  \E i \in DOMAIN layers :
           /\ Opinion(layers[i], tool, context) = "allow"
           /\ \A j \in DOMAIN layers :
                 Priority(layers[j].kind) > Priority(layers[i].kind)
                   => Opinion(layers[j], tool, context) # "deny"
<1>1. PICK i \in DOMAIN layers :
        /\ Opinion(layers[i], tool, context) = "allow"
        /\ \A j \in 1..(i - 1) : Opinion(layers[j], tool, context) = None
  BY DEF Allows
<1>2. ASSUME NEW j \in DOMAIN layers, Priority(layers[j].kind) > Priority(layers[i].kind)
      PROVE  Opinion(layers[j], tool, context) # "deny"
  <2>1. DOMAIN layers = 1..Len(layers) /\ Len(layers) \in Nat
    BY LenProperties DEF ToolInv, ToolTypeOK
  <2>2. Priority(layers[i].kind) \in Nat /\ Priority(layers[j].kind) \in Nat
    BY PriorityIsNat
  <2>3. ~(i < j) /\ i # j
    BY <1>2, <2>2 DEF ToolInv, Sorted
  <2>4. j \in 1..(i - 1)
    BY <2>1, <2>3
  <2>5. QED
    BY <1>1, <2>4, ToolAssumption DEF ToolAssumption
<1>3. QED
  BY <1>1, <1>2

\* The sandbox and the deny list cannot be overridden: whatever layers there
\* are and in whatever order they were added, a tool runs only if some layer
\* allows it and no layer of a higher priority denies it.
THEOREM OnlyAllowedEverRun == ToolSpec => []OnlyAllowedRun
<1>1. ToolInv => OnlyAllowedRun
  <2> SUFFICES ASSUME ToolInv, NEW n \in DOMAIN ran
               PROVE  /\ ran[n] = callOf.tool /\ ran[n] \in tools
                      /\ \E i \in DOMAIN layers :
                            /\ Opinion(layers[i], ran[n], callOf.context) = "allow"
                            /\ \A j \in DOMAIN layers :
                                  Priority(layers[j].kind) > Priority(layers[i].kind)
                                    => Opinion(layers[j], ran[n], callOf.context) # "deny"
    BY DEF OnlyAllowedRun
  <2>1. /\ ran[n] = callOf.tool /\ callOf.tool \in tools
        /\ Allows(layers, callOf.tool, callOf.context)
    BY DEF ToolInv, RanAllowed
  <2>2. \E i \in DOMAIN layers :
          /\ Opinion(layers[i], callOf.tool, callOf.context) = "allow"
          /\ \A j \in DOMAIN layers :
                Priority(layers[j].kind) > Priority(layers[i].kind)
                  => Opinion(layers[j], callOf.tool, callOf.context) # "deny"
    BY <2>1, AllowedMeansNotDenied
  <2>3. QED
    BY <2>1, <2>2
<1>2. QED
  BY <1>1, ToolInvariance, PTL

-----------------------------------------------------------------------------
(* The subagents, for any concurrent spawns and cleanups and any depth.    *)
(* While nobody cleans up, a key that was given is below its parent's      *)
(* counter (Allotted), so it is given once; whatever happens, the          *)
(* ancestors of a registered or spawned child are registered or were taken *)
(* out (Rooted), so a cleanup that collects level by level meets all that  *)
(* lie below its parent.                                                   *)

\* While nobody cleans up, who has a key has it from a counter that is beyond it.
Allotted ==
  swept = {} => \A s \in Spawners : spawnKey[s] # Root =>
    \E p \in DOMAIN counters : \E i \in 0..counters[p] - 1 : spawnKey[s] = Append(p, i)

Unswept == swept = {} => \A c \in Cleaners : cleanPc[c] = "idle"

\* The ancestors of a child were registered, and are so if nobody took them out.
Ancestors(k) == {SubSeq(k, 1, n) : n \in 1..Len(k) - 1}
Rooted ==
  /\ \A k \in DOMAIN registered : Ancestors(k) \subseteq DOMAIN registered \cup removed
  /\ \A s \in Spawners : Ancestors(spawnKey[s]) \subseteq DOMAIN registered \cup removed

ChildInv == SubagentTypeOK /\ Allotted /\ Unswept /\ Rooted

\* What a child's key is.
LEMMA ChildKey ==
  ASSUME NEW p \in Seq(Nat), NEW i \in Nat, Depth(p) + 1 <= MaxDepth
  PROVE  /\ IsKey(Append(p, i)) /\ Append(p, i) # Root
         /\ \A n \in 1..Len(p) : SubSeq(Append(p, i), 1, n) = SubSeq(p, 1, n)
         /\ SubSeq(p, 1, Len(p)) = p
<1>1. /\ Append(p, i) \in Seq(Nat) /\ Append(p, i) # Root /\ Len(Append(p, i)) = Len(p) + 1
      /\ \A k \in 1..Len(p) : Append(p, i)[k] = p[k]
  BY AppendProperties DEF Root
<1>2. Len(p) \in Nat /\ \A k \in 1..Len(p) : p[k] \in Nat
  BY LenProperties, ElementOfSeq
<1>3. ASSUME NEW n \in 1..Len(p) PROVE SubSeq(Append(p, i), 1, n) = SubSeq(p, 1, n)
  <2> DEFINE a == SubSeq(Append(p, i), 1, n)  b == SubSeq(p, 1, n)
  <2>1. n \in Int /\ 1 \in Int /\ \A k \in 1..n : Append(p, i)[k] = p[k] /\ p[k] \in Nat
    BY <1>1, <1>2
  <2>2. a \in Seq(Nat) /\ Len(a) = n /\ \A k \in 1..n - 1 + 1 : a[k] = Append(p, i)[1 + k - 1]
    BY <1>2, <2>1, SubSeqProperties
  <2>3. b \in Seq(Nat) /\ Len(b) = n /\ \A k \in 1..n - 1 + 1 : b[k] = p[1 + k - 1]
    BY <1>2, <2>1, SubSeqProperties
  <2>4. \A k \in 1..n : a[k] = b[k]
    BY <1>2, <2>1, <2>2, <2>3
  <2> HIDE DEF a, b
  <2>5. a = b
    BY <2>2, <2>3, <2>4, SeqEqual
  <2>6. QED
    BY <2>5 DEF a, b
<1>4. SubSeq(p, 1, Len(p)) = p
  BY SubSeqFull
<1>5. Depth(Append(p, i)) <= MaxDepth
  BY <1>1 DEF Depth
<1>6. QED
  BY <1>1, <1>3, <1>4, <1>5 DEF IsKey

\* The root is a key, and has no ancestors.
LEMMA RootIsKey == Root \in Seq(Nat) /\ IsKey(Root) /\ Ancestors(Root) = {}
<1>1. Root \in Seq(Nat) /\ Len(Root) = 0
  BY EmptySeq DEF Root
<1>2. Ancestors(Root) = {}
  BY <1>1 DEF Ancestors
<1>3. QED
  BY <1>1, <1>2, SubagentAssumption DEF SubagentAssumption, IsKey, Depth

\* Nothing is registered, spawned or cleaned up at first.
LEMMA ChildInit == SubagentInit => ChildInv
<1> SUFFICES ASSUME SubagentInit PROVE ChildInv
  OBVIOUS
<1>1. DOMAIN registered = {} /\ DOMAIN counters = {}
  BY DEF SubagentInit
<1>2. /\ spawnKey = [s \in Spawners |-> Root] /\ cleanOf = [c \in Cleaners |-> Root]
      /\ spawnPc = [s \in Spawners |-> "idle"] /\ cleanPc = [c \in Cleaners |-> "idle"]
      /\ collected = [c \in Cleaners |-> {}] /\ removed = {} /\ swept = {}
  BY DEF SubagentInit
<1> HIDE DEF SubagentInit
<1>3. SubagentTypeOK
  BY <1>1, <1>2, RootIsKey DEF SubagentTypeOK
<1>4. Allotted /\ Unswept /\ Rooted
  BY <1>1, <1>2, RootIsKey DEF Allotted, Unswept, Rooted
<1>5. QED
  BY <1>3, <1>4 DEF ChildInv

\* A key is allotted: its parent's counter was never where it is now.
LEMMA NextChildKeyKeeps ==
  ASSUME ChildInv, NEW s \in Spawners, NEW p \in DOMAIN registered \cup {Root}, NextChildKey(s, p)
  PROVE  ChildInv' /\ (KeysAreNotShared => KeysAreNotShared')
<1> DEFINE i == NextIndex(p)
           key == Append(p, i)
<1>1. /\ i < MaxIndex /\ Depth(p) + 1 <= MaxDepth /\ counters' = MapInsert(counters, p, i + 1)
      /\ spawnPc' = [spawnPc EXCEPT ![s] = "keyed"] /\ spawnKey' = [spawnKey EXCEPT ![s] = key]
      /\ UNCHANGED <<registered, cleanPc, cleanOf, collected, swept, removed>>
  BY DEF NextChildKey, cleanVars
<1>2. p \in Seq(Nat) /\ IsKey(p)
  BY RootIsKey DEF ChildInv, SubagentTypeOK, IsKey
<1>3. i \in 0..MaxIndex /\ MaxIndex \in Nat
  BY SubagentAssumption DEF ChildInv, SubagentTypeOK, NextIndex, SubagentAssumption
<1>4. /\ IsKey(key) /\ key \in Seq(Nat) /\ \A n \in 1..Len(p) : SubSeq(key, 1, n) = SubSeq(p, 1, n)
      /\ SubSeq(p, 1, Len(p)) = p /\ Len(key) = Len(p) + 1 /\ Len(p) \in Nat
  BY <1>1, <1>2, <1>3, ChildKey, AppendProperties, LenProperties DEF IsKey
<1>5. p \in DOMAIN counters => i = counters[p]
  BY DEF NextIndex
<1> HIDE DEF i
<1>6. /\ DOMAIN counters' = DOMAIN counters \cup {p} /\ counters'[p] = i + 1
      /\ \A q \in DOMAIN counters \ {p} : counters'[q] = counters[q]
  BY <1>1 DEF MapInsert
<1> HIDE DEF key
<1>7. /\ spawnKey \in [Spawners -> Seq(Nat)] /\ spawnKey'[s] = key
      /\ \A t \in Spawners \ {s} : spawnKey'[t] = spawnKey[t]
  BY <1>1 DEF ChildInv, SubagentTypeOK
<1>8. SubagentTypeOK'
  <2>1. \A k \in DOMAIN counters' : IsKey(k) /\ counters'[k] \in 0..MaxIndex
    <3>1. i + 1 \in 0..MaxIndex /\ IsKey(p)
      BY <1>1, <1>2, <1>3
    <3>2. \A k \in DOMAIN counters : IsKey(k) /\ counters[k] \in 0..MaxIndex
      BY DEF ChildInv, SubagentTypeOK
    <3>3. QED
      BY <1>6, <3>1, <3>2
  <2>2. spawnKey' \in [Spawners -> Seq(Nat)] /\ \A t \in Spawners : IsKey(spawnKey'[t])
    BY <1>1, <1>4, <1>7 DEF ChildInv, SubagentTypeOK
  <2>3. spawnPc' \in [Spawners -> {"idle", "keyed", "refused", "spawned", "announced"}]
    BY <1>1 DEF ChildInv, SubagentTypeOK
  <2>4. QED
    BY <1>1, <2>1, <2>2, <2>3 DEF ChildInv, SubagentTypeOK
<1>9. Allotted'
  <2> SUFFICES ASSUME swept = {}, NEW t \in Spawners, spawnKey'[t] # Root
               PROVE  \E q \in DOMAIN counters' : \E j \in 0..counters'[q] - 1 :
                        spawnKey'[t] = Append(q, j)
    BY <1>1 DEF Allotted
  <2>1. CASE t = s
    <3>1. p \in DOMAIN counters' /\ i \in 0..counters'[p] - 1
      BY <1>3, <1>6
    <3>2. QED
      BY <1>7, <2>1, <3>1 DEF key
  <2>2. CASE t # s
    <3>1. PICK q \in DOMAIN counters : \E j \in 0..counters[q] - 1 : spawnKey[t] = Append(q, j)
      BY <1>7, <2>2 DEF ChildInv, Allotted
    <3>2. PICK j \in 0..counters[q] - 1 : spawnKey[t] = Append(q, j)
      BY <3>1
    <3>3. counters[q] \in Nat /\ counters'[q] \in Nat /\ counters[q] <= counters'[q]
      <4>1. counters[q] \in 0..MaxIndex
        BY DEF ChildInv, SubagentTypeOK
      <4>2. q = p => counters[q] = i /\ counters'[q] = i + 1
        BY <1>5, <1>6
      <4>3. q # p => counters'[q] = counters[q]
        BY <1>6
      <4>4. QED
        BY <1>3, <4>1, <4>2, <4>3
    <3>4. j \in 0..counters'[q] - 1 /\ q \in DOMAIN counters'
      BY <1>6, <3>2, <3>3
    <3>5. QED
      BY <1>7, <2>2, <3>2, <3>4
  <2>3. QED
    BY <2>1, <2>2
<1>10. Unswept'
  BY <1>1 DEF ChildInv, Unswept
<1>11. Rooted'
  <2>1. Ancestors(key) \subseteq DOMAIN registered \cup removed
    <3> SUFFICES ASSUME NEW n \in 1..Len(key) - 1
                 PROVE  SubSeq(key, 1, n) \in DOMAIN registered \cup removed
      BY DEF Ancestors
    <3>1. n \in 1..Len(p) /\ SubSeq(key, 1, n) = SubSeq(p, 1, n)
      BY <1>4
    <3>2. p # Root
      BY <3>1, RootIsKey, EmptySeq DEF Root
    <3>3. CASE n = Len(p)
      BY <1>4, <3>1, <3>2, <3>3
    <3>4. CASE n # Len(p)
      <4>1. n \in 1..Len(p) - 1
        <5>1. Len(p) \in Nat /\ n \in Nat /\ 1 <= n /\ n <= Len(p)
          BY <1>4, <3>1
        <5>2. QED
          BY <3>4, <5>1
      <4>2. SubSeq(p, 1, n) \in Ancestors(p)
        BY <4>1 DEF Ancestors
      <4>3. QED
        BY <3>1, <3>2, <4>2 DEF ChildInv, Rooted
    <3>5. QED
      BY <3>3, <3>4
  <2>2. QED
    BY <1>1, <1>7, <2>1 DEF ChildInv, Rooted
<1>12. ASSUME swept = {}, NEW t \in Spawners, t # s PROVE spawnKey[t] # key
  <2> SUFFICES ASSUME spawnKey[t] = key PROVE FALSE
    OBVIOUS
  <2>1. spawnKey[t] # Root
    BY <1>1, <1>2, <1>3, ChildKey DEF key
  <2>2. PICK q \in DOMAIN counters : \E j \in 0..counters[q] - 1 : spawnKey[t] = Append(q, j)
    BY <1>12, <2>1 DEF ChildInv, Allotted
  <2>3. PICK j \in 0..counters[q] - 1 : spawnKey[t] = Append(q, j)
    BY <2>2
  <2>4. q \in Seq(Nat) /\ counters[q] \in Nat /\ j \in Nat /\ i \in Nat
    BY <1>3, <2>3 DEF ChildInv, SubagentTypeOK, IsKey
  <2>5. q = p /\ j = i
    <3>1. Append(q, j) = Append(p, i)
      BY <2>3 DEF key
    <3>2. QED
      BY <1>2, <2>4, <3>1, AppendInjective
  <2>6. QED
    BY <1>5, <2>3, <2>4, <2>5
<1>13. KeysAreNotShared => KeysAreNotShared'
  BY <1>1, <1>7, <1>12 DEF KeysAreNotShared
<1>14. QED
  BY <1>8, <1>9, <1>10, <1>11, <1>13 DEF ChildInv

\* What registers or removes an entry, or collects, leaves keys and counters alone.
LEMMA RegisterKeeps == ASSUME ChildInv, NEW s \in Spawners, RegisterChild(s) PROVE ChildInv'
<1> DEFINE key == spawnKey[s]
<1>1. /\ registered' = MapInsert(registered, key, "running")
      /\ spawnPc' = [spawnPc EXCEPT ![s] = "spawned"]
      /\ UNCHANGED <<counters, spawnKey, cleanPc, cleanOf, collected, swept, removed>>
  BY DEF RegisterChild, cleanVars
<1>2. /\ DOMAIN registered' = DOMAIN registered \cup {key} /\ registered'[key] = "running"
      /\ \A k \in DOMAIN registered \ {key} : registered'[k] = registered[k]
  BY <1>1 DEF MapInsert
<1>3. IsKey(key)
  BY DEF ChildInv, SubagentTypeOK
<1> HIDE DEF key
<1>4. SubagentTypeOK'
  <2>1. \A k \in DOMAIN registered' :
          IsKey(k) /\ registered'[k] \in {"running", "completed", "failed"}
    BY <1>2, <1>3 DEF ChildInv, SubagentTypeOK
  <2>2. spawnPc' \in [Spawners -> {"idle", "keyed", "refused", "spawned", "announced"}]
    BY <1>1 DEF ChildInv, SubagentTypeOK
  <2>3. QED
    BY <1>1, <2>1, <2>2 DEF ChildInv, SubagentTypeOK
<1>5. Allotted' /\ Unswept'
  BY <1>1 DEF ChildInv, Allotted, Unswept
<1>6. Rooted'
  BY <1>1, <1>2 DEF ChildInv, Rooted, key
<1>7. QED
  BY <1>4, <1>5, <1>6 DEF ChildInv

\* remove takes out a child, which stays among those that were registered.
LEMMA RemoveKeeps ==
  ASSUME ChildInv, NEW key \in DOMAIN registered, RemoveEntry(key)
  PROVE  ChildInv'
<1>1. /\ registered' = Restrict(registered, DOMAIN registered \ {key})
      /\ removed' = removed \cup {key}
      /\ UNCHANGED <<counters, spawnPc, spawnKey, cleanPc, cleanOf, collected, swept>>
  BY DEF RemoveEntry, cleanVars, spawnVars
<1>2. /\ DOMAIN registered' = DOMAIN registered \ {key}
      /\ \A k \in DOMAIN registered' : registered'[k] = registered[k]
  BY <1>1 DEF Restrict
<1>3. SubagentTypeOK'
  BY <1>1, <1>2 DEF ChildInv, SubagentTypeOK, IsKey
<1>4. Allotted' /\ Unswept'
  BY <1>1 DEF ChildInv, Allotted, Unswept
<1>5. DOMAIN registered \cup removed \subseteq DOMAIN registered' \cup removed'
  BY <1>1, <1>2
<1>6. Rooted'
  BY <1>1, <1>2, <1>5 DEF ChildInv, Rooted
<1>7. QED
  BY <1>3, <1>4, <1>6 DEF ChildInv

\* A change of a state adds and removes no child.
LEMMA SetStateKeeps ==
  ASSUME ChildInv, NEW key \in DOMAIN registered, SetState(key, "completed")
  PROVE  ChildInv'
<1>1. /\ registered' = [registered EXCEPT ![key] = "completed"]
      /\ UNCHANGED <<counters, spawnPc, spawnKey, cleanPc, cleanOf, collected, swept, removed>>
  BY DEF SetState, cleanVars, spawnVars
<1>2. /\ DOMAIN registered' = DOMAIN registered /\ registered'[key] = "completed"
      /\ \A k \in DOMAIN registered \ {key} : registered'[k] = registered[k]
  BY <1>1
<1>3. \A k \in DOMAIN registered' :
        IsKey(k) /\ registered'[k] \in {"running", "completed", "failed"}
  BY <1>2 DEF ChildInv, SubagentTypeOK
<1>4. SubagentTypeOK'
  BY <1>1, <1>3 DEF ChildInv, SubagentTypeOK
<1>5. Allotted' /\ Unswept' /\ Rooted'
  BY <1>1, <1>2 DEF ChildInv, Allotted, Unswept, Rooted
<1>6. QED
  BY <1>4, <1>5 DEF ChildInv

\* A cleanup that begins is known from then on, and no longer idle.
LEMMA CollectKeeps ==
  ASSUME ChildInv, NEW c \in Cleaners, NEW p \in DOMAIN registered \cup {Root}, Collect(c, p)
  PROVE  ChildInv'
<1>1. /\ cleanOf' = [cleanOf EXCEPT ![c] = p]
      /\ collected' = [collected EXCEPT ![c] = CollectDescendants(p)]
      /\ cleanPc' = [cleanPc EXCEPT ![c] = IF CollectDescendants(p) = {} THEN "done" ELSE "collected"]
      /\ swept' = swept \cup {p} /\ UNCHANGED <<registered, counters, spawnPc, spawnKey, removed>>
  BY DEF Collect, registryVars, spawnVars
<1>2. CollectDescendants(p) \subseteq DOMAIN registered
  BY DEF CollectDescendants
<1>3. p \in Seq(Nat) /\ DOMAIN registered \subseteq Seq(Nat)
  BY RootIsKey DEF ChildInv, SubagentTypeOK, IsKey
<1>4. SubagentTypeOK'
  <2>1. /\ cleanOf' \in [Cleaners -> Seq(Nat)] /\ collected' \in [Cleaners -> SUBSET Seq(Nat)]
        /\ cleanPc' \in [Cleaners -> {"idle", "collected", "done"}] /\ swept' \subseteq Seq(Nat)
    BY <1>1, <1>2, <1>3 DEF ChildInv, SubagentTypeOK
  <2>2. QED
    BY <1>1, <2>1 DEF ChildInv, SubagentTypeOK
<1>5. Allotted' /\ Unswept' /\ Rooted'
  BY <1>1 DEF ChildInv, Allotted, Unswept, Rooted
<1>6. QED
  BY <1>4, <1>5 DEF ChildInv

\* A cleanup takes out what it collected, with its counters; what it took is
\* remembered as removed.
LEMMA CleanUpKeeps == ASSUME ChildInv, NEW c \in Cleaners, CleanUp(c) PROVE ChildInv'
<1>1. /\ cleanPc[c] = "collected" /\ cleanPc' = [cleanPc EXCEPT ![c] = "done"]
      /\ registered' = Restrict(registered, DOMAIN registered \ collected[c])
      /\ counters' = Restrict(counters, DOMAIN counters \ ({cleanOf[c]} \cup collected[c]))
      /\ removed' = removed \cup collected[c]
      /\ UNCHANGED <<spawnPc, spawnKey, cleanOf, collected, swept>>
  BY DEF CleanUp, spawnVars
<1>2. /\ DOMAIN registered' = DOMAIN registered \ collected[c]
      /\ \A k \in DOMAIN registered' : registered'[k] = registered[k]
      /\ DOMAIN counters' \subseteq DOMAIN counters
      /\ \A k \in DOMAIN counters' : counters'[k] = counters[k]
  BY <1>1 DEF Restrict
<1>3. swept # {}
  BY <1>1 DEF ChildInv, Unswept
<1>4. SubagentTypeOK'
  <2>1. removed' \subseteq Seq(Nat) /\ cleanPc' \in [Cleaners -> {"idle", "collected", "done"}]
    BY <1>1 DEF ChildInv, SubagentTypeOK
  <2>2. \A k \in DOMAIN counters' : IsKey(k) /\ counters'[k] \in 0..MaxIndex
    BY <1>2 DEF ChildInv, SubagentTypeOK
  <2>3. QED
    BY <1>1, <1>2, <2>1, <2>2 DEF ChildInv, SubagentTypeOK
<1>5. DOMAIN registered \cup removed \subseteq DOMAIN registered' \cup removed'
  BY <1>1, <1>2
<1>6. Rooted'
  BY <1>1, <1>2, <1>5 DEF ChildInv, Rooted
<1>7. Allotted' /\ Unswept'
  BY <1>1, <1>3 DEF Allotted, Unswept
<1>8. QED
  BY <1>4, <1>6, <1>7 DEF ChildInv

\* The steps that change no entry, key, counter or cleanup.
LEMMA OthersKeep ==
  ASSUME ChildInv,
         spawnPc' \in [Spawners -> {"idle", "keyed", "refused", "spawned", "announced"}],
         UNCHANGED <<registered, counters, spawnKey, cleanVars, removed>>
  PROVE  ChildInv'
<1>1. UNCHANGED <<registered, counters, spawnKey, cleanPc, cleanOf, collected, swept, removed>>
  BY DEF cleanVars
<1>2. SubagentTypeOK'
  BY <1>1 DEF ChildInv, SubagentTypeOK
<1>3. QED
  BY <1>1, <1>2 DEF ChildInv, Allotted, Unswept, Rooted

\* Each step of spawns, cleanups, queries and removals keeps the invariant.
LEMMA ChildNext == ChildInv /\ [SubagentNext]_subagentVars => ChildInv'
<1> SUFFICES ASSUME ChildInv, [SubagentNext]_subagentVars PROVE ChildInv'
  OBVIOUS
<1>1. spawnPc \in [Spawners -> {"idle", "keyed", "refused", "spawned", "announced"}]
  BY DEF ChildInv, SubagentTypeOK
<1>2. ASSUME NEW s \in Spawners, NEW p \in DOMAIN registered \cup {Root}, DepthLimitExceeded(s, p)
      PROVE  ChildInv'
  BY <1>1, <1>2, OthersKeep DEF DepthLimitExceeded, registryVars
<1>3. ASSUME NEW s \in Spawners, NEW r, Announce(s, r) PROVE ChildInv'
  BY <1>1, <1>3, OthersKeep DEF Announce, registryVars
<1>4. CASE AnnounceRecv
  BY <1>1, <1>4, OthersKeep DEF AnnounceRecv, registryVars, spawnVars
<1>5. CASE UNCHANGED subagentVars
  BY <1>1, <1>5, OthersKeep DEF subagentVars, cleanVars
<1>6. QED
  BY <1>2, <1>3, <1>4, <1>5, NextChildKeyKeeps, RegisterKeeps, RemoveKeeps, SetStateKeeps,
     CollectKeeps, CleanUpKeeps DEF SubagentNext

\* Keys, counters and ancestors fit together in every behaviour of the registry
\* (Subagents: spawn, remove, set_state, cleanup_orphans).
THEOREM ChildInvariance == SubagentSpec => []ChildInv
BY ChildInit, ChildNext, PTL DEF SubagentSpec

\* The types of the state.
THEOREM SubagentTypeCorrect == SubagentSpec => []SubagentTypeOK
<1>1. ChildInv => SubagentTypeOK
  BY DEF ChildInv
<1>2. QED
  BY <1>1, ChildInvariance, PTL

\* No two subagents share a key while no cleanup has begun, for any number of
\* spawns, of any parents, and whatever is removed.
THEOREM KeysAreNeverShared == SubagentSpec => []KeysAreNotShared
<1>1. SubagentInit => KeysAreNotShared
  BY DEF SubagentInit, KeysAreNotShared
<1>2. ASSUME ChildInv, KeysAreNotShared, [SubagentNext]_subagentVars PROVE KeysAreNotShared'
  <2>1. ASSUME UNCHANGED spawnKey PROVE KeysAreNotShared'
    <3>1. swept \subseteq swept'
      BY <1>2 DEF SubagentNext, NextChildKey, DepthLimitExceeded, RegisterChild, Announce, AnnounceRecv,
                  RemoveEntry, SetState, Collect, CleanUp, cleanVars, subagentVars
    <3>2. QED
      BY <1>2, <2>1, <3>1 DEF KeysAreNotShared
  <2>2. ASSUME NEW s \in Spawners, NEW p \in DOMAIN registered \cup {Root}, NextChildKey(s, p)
        PROVE  KeysAreNotShared'
    BY <1>2, <2>2, NextChildKeyKeeps
  <2>3. UNCHANGED spawnKey \/
        \E s \in Spawners : \E p \in DOMAIN registered \cup {Root} : NextChildKey(s, p)
    BY <1>2 DEF SubagentNext, DepthLimitExceeded, RegisterChild, Announce, AnnounceRecv,
                RemoveEntry, SetState, Collect, CleanUp, spawnVars, subagentVars
  <2>4. QED
    BY <2>1, <2>2, <2>3
<1>3. QED
  BY <1>1, <1>2, ChildInvariance, PTL DEF SubagentSpec

\* The beginning of a key is one of its ancestors.
LEMMA AncestorAbove ==
  ASSUME NEW k \in Seq(Nat), NEW n \in 1..Len(k) - 1
  PROVE  Descends(k, SubSeq(k, 1, n))
<1> DEFINE a == SubSeq(k, 1, n)
<1>1. Len(k) \in Nat /\ n \in Nat /\ n < Len(k) /\ 1 <= n
  BY LenProperties
<1>2. \A i \in 1..n : k[i] \in Nat
  BY <1>1, ElementOfSeq
<1>3. a \in Seq(Nat) /\ Len(a) = n
  BY <1>1, <1>2, SubSeqProperties
<1>4. SubSeq(a, 1, Len(a)) = a
  BY <1>3, SubSeqFull
<1>5. a # k
  BY <1>1, <1>3
<1>6. QED
  BY <1>1, <1>3, <1>4, <1>5 DEF Descends, IsStrictPrefix, IsPrefix

\* A cleanup leaves nobody out who is below its parent, but those that hang
\* below an entry that was taken out before.
THEOREM CleanupCollects == SubagentSpec => CleanupReachesAll
<1>1. ASSUME ChildInv, [SubagentNext]_subagentVars PROVE CollectsAll
  <2> SUFFICES ASSUME NEW c \in Cleaners, cleanPc[c] = "idle", cleanPc'[c] # "idle",
                      NEW k \in DOMAIN registered, Descends(k, cleanOf'[c]),
                      k \notin collected'[c]
               PROVE  \E r \in removed : Descends(k, r)
    BY DEF CollectsAll
  <2>1. PICK p \in DOMAIN registered \cup {Root} : Collect(c, p)
    <3>1. \A d \in Cleaners : CleanUp(d) => UNCHANGED cleanPc[c]
      BY <1>1 DEF CleanUp, ChildInv, SubagentTypeOK
    <3>2. \A d \in Cleaners : \A q : Collect(d, q) => d = c \/ UNCHANGED cleanPc[c]
      BY <1>1 DEF Collect, ChildInv, SubagentTypeOK
    <3>3. QED
      BY <1>1, <3>1, <3>2 DEF SubagentNext, NextChildKey, DepthLimitExceeded, RegisterChild, Announce,
                  AnnounceRecv, RemoveEntry, SetState, cleanVars, subagentVars
  <2>2. cleanOf'[c] = p /\ collected'[c] = CollectDescendants(p)
    BY <1>1, <2>1 DEF Collect, ChildInv, SubagentTypeOK
  <2>3. PICK n \in Len(p) + 1 .. Len(k) - 1 : SubSeq(k, 1, n) \notin DOMAIN registered
    BY <2>2 DEF CollectDescendants
  <2>4. k \in Seq(Nat) /\ p \in Seq(Nat)
    BY <1>1, RootIsKey DEF ChildInv, SubagentTypeOK, IsKey
  <2>5. Len(p) \in Nat /\ Len(k) \in Nat
    BY <2>4, LenProperties
  <2>6. n \in 1..Len(k) - 1
    BY <2>5
  <2>7. SubSeq(k, 1, n) \in removed
    BY <1>1, <2>3, <2>6 DEF ChildInv, Rooted, Ancestors
  <2>8. QED
    BY <2>4, <2>6, <2>7, AncestorAbove
<1>2. QED
  BY <1>1, ChildInvariance, PTL DEF SubagentSpec, CleanupReachesAll

-----------------------------------------------------------------------------
(* The workspace's cache, for any readers and writes. Known says that      *)
(* nothing older than what finished reloads made known is in the cache, or *)
(* on its way there, unless several calls are on the way together; so a    *)
(* call that began later returns nothing older.                            *)

WorkspaceTypeOK ==
  /\ onDisk \in Nat /\ cached \in Nat \cup {None} /\ floor \in Nat
  /\ readPc \in [Readers -> {"idle", "load", "store", "returned"}]
  /\ held \in [Readers -> Nat] /\ promised \in [Readers -> Nat]

\* What is empty, or not older than a bound.
NotOlder(given, bound) == given = 0 \/ given >= bound

\* Nothing older than what the reloads made known is in the cache, on its way
\* there, or on the disk; so a call that began later cannot return it.
Known ==
  /\ floor <= onDisk
  /\ \A r \in Readers : held[r] <= onDisk
  /\ cached # None => cached <= onDisk /\ NotOlder(cached, floor)
  /\ \A r \in Readers : promised[r] <= floor
  /\ \A r \in Storing : NotOlder(held[r], floor)
  /\ \A r \in Readers : readPc[r] = "returned" => NotOlder(held[r], promised[r])

WorkspaceInv == WorkspaceTypeOK /\ Known

\* Nothing is read, cached or promised at first.
LEMMA WorkspaceInitInv == WorkspaceInit => WorkspaceInv
BY WorkspaceAssumption DEF WorkspaceInit, WorkspaceInv, WorkspaceTypeOK, Known, Storing, NotOlder

\* A store that raises the floor is of the only call on its way to the cache; a
\* reload of everything raises it when nobody is on the way and empties the cache.
LEMMA WorkspaceKeeps == WorkspaceInv /\ [WorkspaceNext]_workspaceVars => WorkspaceInv'
<1> SUFFICES ASSUME WorkspaceInv, [WorkspaceNext]_workspaceVars PROVE WorkspaceInv'
  OBVIOUS
<1> USE WorkspaceAssumption DEF WorkspaceInv, WorkspaceTypeOK, Known, NotOlder
<1>1. CASE WriteFile
  BY <1>1 DEF WriteFile, Storing
<1>2. CASE ReloadAll
  BY <1>2 DEF ReloadAll, Storing
<1>3. ASSUME NEW r \in Readers, ReadWorkspaceFile(r) PROVE WorkspaceInv'
  BY <1>3 DEF ReadWorkspaceFile, Storing
<1>4. ASSUME NEW r \in Readers, ReloadFile(r) PROVE WorkspaceInv'
  BY <1>4 DEF ReloadFile, Storing
<1>5. ASSUME NEW r \in Readers, LoadFile(r) PROVE WorkspaceInv'
  BY <1>5 DEF LoadFile, Storing
<1>6. ASSUME NEW r \in Readers, StoreRead(r) PROVE WorkspaceInv'
  <2>1. WorkspaceTypeOK' /\ r \in Storing /\ NotOlder(held[r], floor) /\ cached' = held[r]
    BY <1>6 DEF StoreRead, Storing
  <2>2. CASE floor' = floor
    BY <1>6, <2>1, <2>2 DEF StoreRead, Storing
  <2>3. CASE Storing = {r} /\ held[r] > floor /\ floor' = held[r]
    <3>1. Storing' = {} /\ onDisk' = onDisk /\ held' = held /\ promised' = promised
      BY <1>6, <2>3 DEF StoreRead, Storing
    <3>2. \A q \in Readers : readPc'[q] = "returned" => readPc[q] = "returned" \/ q = r
      BY <1>6 DEF StoreRead
    <3> QED BY <2>1, <2>3, <3>1, <3>2 DEF Storing
  <2> QED BY <1>6, <2>2, <2>3 DEF StoreRead
<1>7. CASE UNCHANGED workspaceVars
  BY <1>7 DEF workspaceVars, Storing
<1> QED BY <1>1, <1>2, <1>3, <1>4, <1>5, <1>6, <1>7 DEF WorkspaceNext

\* A call returns nothing that is older than what a reload made known before it
\* began, for any number of readers.
THEOREM ReloadsAreSeen == WorkspaceSpec => []ReloadIsSeen
<1>1. WorkspaceInv => ReloadIsSeen
  BY DEF WorkspaceInv, Known, ReloadIsSeen, NotOlder
<1> QED BY WorkspaceInitInv, WorkspaceKeeps, <1>1, PTL DEF WorkspaceSpec

-----------------------------------------------------------------------------
(* The failover chain, for any calls, providers, cooldowns and time. A     *)
(* call that found every provider in cooldown looks a second time for the  *)
(* earliest end: it finds none only if another call's success cleared the  *)
(* cooldowns in between (StillCooling).                                    *)

\* A call that found every provider in cooldown still meets a cooldown at its
\* second look, or another call's success came between: no step other than a
\* success takes a cooldown away, and none sets one to "no cooldown".
StillCooling ==
  \A c \in ModelCalls : chainPc[c] = "alldown" =>
    c \in clearedUp \/ \E p \in Providers : until[p] # NotSet

\* Where a call may stand.
CallPlaces ==
  {"idle", "choose", "calling", "ok", "retriable", "failed", "answered", "alldown", "unconfigured",
   "exhausted", "sleeping"}

ChainInv ==
  /\ until \in [Providers -> Nat \cup {NotSet}]
  /\ chainPc \in [ModelCalls -> CallPlaces]
  /\ StillCooling /\ UnconfiguredOnlyIfCleared

\* A chain of providers starts with no cooldown and no call under way.
LEMMA ChainInit == FailoverInit => ChainInv
BY DEF FailoverInit, ChainInv, StillCooling, UnconfiguredOnlyIfCleared, NotSet, CallPlaces

\* A step of one call leaves what the others found as it is, but for a success,
\* which it records in clearedUp.
LEMMA ChainNext ==
  ASSUME Providers # {}, ChainInv, [FailoverNext]_failoverVars PROVE ChainInv'
<1> USE FailoverAssumption DEF ChainInv, NotSet, CallPlaces
<1>1. CASE FailoverTick
  <2>1. \A p \in Providers : Less(until[p]) \in Nat \cup {-1} /\ (until[p] # -1 => Less(until[p]) # -1)
    BY DEF Less
  <2>2. /\ until' \in [Providers -> Nat \cup {-1}]
        /\ \A p \in Providers : until[p] # -1 => until'[p] # -1
    BY <1>1, <2>1 DEF FailoverTick
  <2>3. chainPc' = chainPc /\ clearedUp' = clearedUp
    BY <1>1 DEF FailoverTick
  <2> QED BY <2>2, <2>3 DEF StillCooling, UnconfiguredOnlyIfCleared
<1>2. ASSUME NEW c \in ModelCalls, BeginModelCall(c) PROVE ChainInv'
  BY <1>2 DEF BeginModelCall, CallGoes, StillCooling, UnconfiguredOnlyIfCleared
<1>3. ASSUME NEW c \in ModelCalls, Choose(c) PROVE ChainInv'
  <2> DEFINE up == {p \in Providers : IsAvailable(p)}
  <2>1. /\ until' = until /\ clearedUp' = clearedUp \ {c}
        /\ chainPc[c] = "choose"
        /\ \/ up = {} /\ CallGoes(c, "alldown")
           \/ CallGoes(c, "calling")
    BY <1>3 DEF Choose
  <2>2. up = {} => \E p \in Providers : until[p] # NotSet
    <3>1. PICK p \in Providers : TRUE
      OBVIOUS
    <3>2. up = {} => ~(until[p] <= 0)
      BY <3>1 DEF IsAvailable
    <3>3. ~(until[p] <= 0) => until[p] # -1
      OBVIOUS
    <3> QED BY <3>1, <3>2, <3>3
  <2> HIDE DEF up
  <2>3. /\ chainPc' \in [ModelCalls -> CallPlaces]
        /\ \A d \in ModelCalls \ {c} : chainPc'[d] = chainPc[d] /\ (d \in clearedUp' <=> d \in clearedUp)
        /\ (chainPc'[c] = "alldown" /\ up = {}) \/ chainPc'[c] = "calling"
    BY <2>1 DEF CallGoes
  <2> QED BY <2>1, <2>2, <2>3 DEF StillCooling, UnconfiguredOnlyIfCleared
<1>4. ASSUME NEW c \in ModelCalls, Answer(c) PROVE ChainInv'
  BY <1>4 DEF Answer, CallGoes, StillCooling, UnconfiguredOnlyIfCleared
<1>5. ASSUME NEW c \in ModelCalls, Succeed(c) PROVE ChainInv'
  <2>1. /\ until' \in [Providers -> Nat \cup {-1}]
        /\ \A d \in ModelCalls : chainPc'[d] = "alldown" => d \in clearedUp'
        /\ \A d \in ModelCalls : chainPc'[d] = "unconfigured" => chainPc[d] = "unconfigured"
    BY <1>5 DEF Succeed, CallGoes
  <2> QED BY <1>5, <2>1 DEF Succeed, CallGoes, StillCooling, UnconfiguredOnlyIfCleared
<1>6. ASSUME NEW c \in ModelCalls, EnterCooldown(c) PROVE ChainInv'
  <2>1. PICK d \in {Cooldown} \cup RetryAfter : until' = [until EXCEPT ![chosen[c]] = d]
    BY <1>6 DEF EnterCooldown
  <2>2. d \in Nat
    BY DEF FailoverAssumption
  <2>3. /\ until' \in [Providers -> Nat \cup {-1}]
        /\ \A p \in Providers : until[p] # -1 => until'[p] # -1
    <3>1. until \in [Providers -> Nat \cup {-1}]
      OBVIOUS
    <3>2. DOMAIN until' = Providers /\ until' = [p \in Providers |-> until'[p]]
      BY <2>1, <3>1
    <3>3. \A p \in Providers : until'[p] = until[p] \/ until'[p] = d
      BY <2>1, <3>1
    <3>4. d \in Nat \cup {-1} /\ d # -1
      BY <2>2
    <3>5. \A p \in Providers : until'[p] \in Nat \cup {-1}
      BY <3>1, <3>3, <3>4
    <3>6. until' \in [Providers -> Nat \cup {-1}]
      BY <3>2, <3>5
    <3> QED BY <3>3, <3>4, <3>6
  <2>4. /\ chainPc' \in [ModelCalls -> CallPlaces]
        /\ \A e \in ModelCalls : e # c => chainPc'[e] = chainPc[e]
        /\ chainPc'[c] = "choose" /\ clearedUp' = clearedUp
    BY <1>6 DEF EnterCooldown, CallGoes
  <2> QED BY <2>3, <2>4 DEF StillCooling, UnconfiguredOnlyIfCleared
<1>7. ASSUME NEW c \in ModelCalls, WaitForEarliest(c) PROVE ChainInv'
  <2> DEFINE ends == {until[p] : p \in Providers} \ {NotSet}
  <2>1. /\ chainPc[c] = "alldown" /\ until' = until /\ clearedUp' = clearedUp
        /\ \/ ends = {} /\ CallGoes(c, "unconfigured")
           \/ CallGoes(c, "exhausted")
           \/ CallGoes(c, "sleeping")
    BY <1>7 DEF WaitForEarliest
  <2>2. ends = {} => c \in clearedUp
    BY <2>1 DEF StillCooling
  <2> HIDE DEF ends
  <2> QED BY <2>1, <2>2 DEF CallGoes, StillCooling, UnconfiguredOnlyIfCleared
<1>8. ASSUME NEW c \in ModelCalls, Wake(c) PROVE ChainInv'
  BY <1>8 DEF Wake, CallGoes, StillCooling, UnconfiguredOnlyIfCleared
<1>9. CASE UNCHANGED failoverVars
  BY <1>9 DEF failoverVars, StillCooling, UnconfiguredOnlyIfCleared
<1> QED BY <1>1, <1>2, <1>3, <1>4, <1>5, <1>6, <1>7, <1>8, <1>9 DEF FailoverNext, CallStep

\* A chain that has providers says that it has none only when another call's
\* success ended the cooldowns between a call's two looks at the slots.
THEOREM EmptyOnlyIfCleared ==
  ASSUME Providers # {} PROVE FailoverSpec => []UnconfiguredOnlyIfCleared
<1>1. ChainInv /\ [FailoverNext]_failoverVars => ChainInv'
  BY ChainNext
<1>2. ChainInv => UnconfiguredOnlyIfCleared
  BY DEF ChainInv
<1> QED BY ChainInit, <1>1, <1>2, PTL DEF FailoverSpec

-----------------------------------------------------------------------------
(* The session write lock, for every number of holders and every stale     *)
(* limit, timeout and bound of the clock. LockInv says why attempts exclude *)
(* each other unless two find the lock free at a time: one caller at most  *)
(* is about to take it, whoever holds it wrote the file that is there, at  *)
(* the time the holder remembers, and a caller that found no file or a     *)
(* stale one meets nobody who holds the lock.  A race is over when nobody  *)
(* holds the lock or is about to take it.                                  *)

OneTaker == \A g, h \in Taking : g = h

FileIsHolders ==
  \A h \in Holding : lockFile.there /\ lockFile.by = h /\ lockFile.at = gotAt[h]

HoldersAreFresh == \A h \in Holding : lockNow - gotAt[h] < StaleAfter

TakersMeetNobody == Taking # {} => Holding = {}

Apart == OneTaker /\ FileIsHolders /\ HoldersAreFresh /\ TakersMeetNobody
LockInv == LockTypeOK /\ (~raced /\ ~overdue => Apart)

\* Times are numbers from 0 on, and there may be no file.
LEMMA NoFileIsAFile ==
  /\ 0 \in 0..MaxTime
  /\ NoFile \in [there : BOOLEAN, by : Holders \cup {"nobody"}, at : 0..MaxTime]
<1>1. 0 \in 0..MaxTime
  BY LockAssumption DEF LockAssumption
<1>2. QED
  BY <1>1 DEF NoFile

\* Nothing is attempted yet.
LEMMA LockInitInv == LockInit => LockInv
<1> SUFFICES ASSUME LockInit PROVE LockInv
  OBVIOUS
<1> USE LockAssumption DEF LockInit, LockAssumption
<1>1. LockTypeOK
  BY NoFileIsAFile DEF LockTypeOK
<1>2. Holding = {} /\ Taking = {}
  BY DEF Holding, Taking
<1>3. QED
  BY <1>1, <1>2 DEF LockInv, Apart, OneTaker, TakersMeetNobody, FileIsHolders, HoldersAreFresh

\* Every step keeps the types.
LEMMA LockTypes ==
  ASSUME LockTypeOK, [LockNext]_lockVars
  PROVE  LockTypeOK'
<1> USE LockAssumption DEF LockAssumption, LockTypeOK, Step
<1>1. CASE Tick
  BY <1>1 DEF Tick
<1>2. CASE \E h \in Holders : Acquire(h)
  BY <1>2 DEF Acquire
<1>3. CASE \E h \in Holders : Look(h)
  BY <1>3 DEF Look, Takes
<1>4. CASE \E h \in Holders : Age(h)
  BY <1>4 DEF Age, Takes
<1>5. CASE \E h \in Holders : Break(h)
  BY <1>5, NoFileIsAFile DEF Break, Leaves
<1>6. CASE \E h \in Holders : Write(h)
  BY <1>6 DEF Write
<1>7. CASE \E h \in Holders : Retry(h)
  BY <1>7 DEF Retry
<1>8. CASE \E h \in Holders : Release(h) \/ Crash(h)
  BY <1>8, NoFileIsAFile DEF Release, Crash, Leaves
<1>9. CASE UNCHANGED lockVars
  BY <1>9 DEF lockVars
<1>10. QED
  BY <1>1, <1>2, <1>3, <1>4, <1>5, <1>6, <1>7, <1>8, <1>9 DEF LockNext, Attempt

\* Who holds the lock or is about to take it, when one caller goes on.
LEMMA Engaging ==
  ASSUME LockTypeOK, NEW h \in Holders, NEW label, Step(h, label)
  PROVE  /\ Holding' = IF label = "holds" THEN Holding \cup {h} ELSE Holding \ {h}
         /\ Taking' = IF label \in {"break", "write"} THEN Taking \cup {h} ELSE Taking \ {h}
BY DEF LockTypeOK, Step, Holding, Taking

\* What was raced or overdue stays so while somebody holds the lock or is about
\* to take it.
LEMMA HistoriesStay ==
  ASSUME LockTypeOK, [LockNext]_lockVars, ~raced', ~overdue', Holding' \cup Taking' # {}
  PROVE  ~raced /\ ~overdue
<1> USE DEF LockTypeOK
<1>1. ASSUME NEW h \in Holders, Release(h) \/ Crash(h) \/ (Break(h) /\ ~lockFile.there)
      PROVE  ~raced /\ ~overdue
  <2>1. PICK label \in {"done", "crashed", "failed"} : Step(h, label) /\ Leaves(h)
    BY <1>1 DEF Release, Crash, Break
  <2>2. (Holding \cup Taking) \ {h} # {}
    BY <2>1, Engaging
  <2> QED BY <2>1, <2>2 DEF Leaves
<1>2. ASSUME NEW h \in Holders, Break(h) /\ lockFile.there PROVE ~raced /\ ~overdue
  BY <1>2 DEF Break
<1>3. CASE ~ \E h \in Holders : Release(h) \/ Crash(h) \/ Break(h)
  BY <1>3 DEF LockNext, Attempt, Tick, Acquire, Look, Age, Write, Retry, Takes, lockVars
<1> QED BY <1>1, <1>2, <1>3

\* What one step does to a lock that nobody raced for and nobody kept too long.
LEMMA ApartNext ==
  ASSUME LockTypeOK, Apart, [LockNext]_lockVars, LockTypeOK', ~raced', ~overdue'
  PROVE  Apart'
<1> USE LockAssumption DEF LockAssumption, Apart
\* Time passes: what would make a holder stale would make it overdue.
<1>1. CASE Tick
  <2>1. Holding' = Holding /\ Taking' = Taking /\ lockFile' = lockFile /\ gotAt' = gotAt
    BY <1>1 DEF Tick, Holding, Taking
  <2>2. HoldersAreFresh'
    <3>1. \A h \in Holding : ~(lockNow' - gotAt[h] >= StaleAfter)
      BY <1>1, Zenon DEF Tick
    <3>2. \A h \in Holding : lockNow' \in Int /\ gotAt[h] \in Int
      BY <1>1 DEF Tick, Holding, LockTypeOK
    <3>3. QED
      BY <2>1, <3>1, <3>2 DEF HoldersAreFresh
  <2>3. QED
    BY <2>1, <2>2 DEF OneTaker, TakersMeetNobody, FileIsHolders
\* Steps of a caller that leave the file and the holders alone and take nothing.
<1>2. ASSUME NEW h \in Holders,
             Acquire(h) \/ Retry(h) \/ ((Look(h) \/ Age(h)) /\ lockPc'[h] \in {"age", "held"})
      PROVE  Apart'
  <2>1. PICK label \in {"look", "age", "held", "timeout"} : Step(h, label)
    BY <1>2 DEF Acquire, Retry, Look, Age, Step, LockTypeOK
  <2>2. /\ lockPc[h] # "holds" /\ lockPc[h] \notin {"break", "write"}
        /\ lockFile' = lockFile /\ gotAt' = gotAt /\ lockNow' = lockNow
    BY <1>2 DEF Acquire, Retry, Look, Age
  <2>3. Holding' = Holding /\ Taking' = Taking
    BY <2>1, <2>2, Engaging DEF Holding, Taking
  <2>4. QED
    BY <2>2, <2>3 DEF OneTaker, TakersMeetNobody, FileIsHolders, HoldersAreFresh
\* A caller that found no file, or a stale one: nobody holds the lock, and nobody
\* else is about to take it, or raced would be set.
<1>3. ASSUME NEW h \in Holders, (Look(h) \/ Age(h)) /\ lockPc'[h] \in {"break", "write"}
      PROVE  Apart'
  <2>1. /\ Step(h, lockPc'[h]) /\ Takes(h)
        /\ ~lockFile.there \/ lockNow - lockFile.at >= StaleAfter
    BY <1>3 DEF Look, Age, Step, LockTypeOK
  <2>2. Holding = {}
    <3> SUFFICES ASSUME NEW g \in Holding PROVE FALSE
      OBVIOUS
    <3>1. lockFile.there /\ lockFile.at = gotAt[g] /\ lockNow - gotAt[g] < StaleAfter
      BY DEF FileIsHolders, HoldersAreFresh
    <3>2. lockNow \in Int /\ gotAt[g] \in Int
      BY DEF Holding, LockTypeOK
    <3>3. QED
      BY <2>1, <3>1, <3>2
  <2>3. Holding' = {} /\ Taking' = Taking \cup {h}
    BY <1>3, <2>1, <2>2, Engaging
  <2>4. Taking \ {h} = {}
    BY <2>1 DEF Takes
  <2>5. QED
    BY <2>3, <2>4 DEF OneTaker, TakersMeetNobody, FileIsHolders, HoldersAreFresh
\* A stale file goes, and it was nobody's; or somebody else has removed it.
<1>4. ASSUME NEW h \in Holders, Break(h) PROVE Apart'
  <2>1. PICK label \in {"write", "failed"} : Step(h, label)
    BY <1>4 DEF Break
  <2>2. h \in Taking
    BY <1>4 DEF Break, Taking
  <2>3. Holding' = {} /\ Taking' \subseteq Taking
    BY <2>1, <2>2, Engaging DEF TakersMeetNobody
  <2>4. QED
    BY <2>3 DEF OneTaker, FileIsHolders, HoldersAreFresh, TakersMeetNobody
\* The only one that was about to take the lock holds it now.
<1>5. ASSUME NEW h \in Holders, Write(h) PROVE Apart'
  <2>1. h \in Taking /\ Step(h, "holds")
    BY <1>5 DEF Write, Taking
  <2>2. Taking = {h} /\ Holding = {}
    BY <2>1 DEF OneTaker, TakersMeetNobody
  <2>3. Holding' = {h} /\ Taking' = {}
    BY <2>1, <2>2, Engaging
  <2>4. FileIsHolders' /\ HoldersAreFresh'
    BY <1>5, <2>3 DEF Write, FileIsHolders, HoldersAreFresh, LockTypeOK
  <2>5. QED
    BY <2>3, <2>4 DEF OneTaker, TakersMeetNobody
\* The holder lets go: there was no other one whose file it could take away.
<1>6. ASSUME NEW h \in Holders, Release(h) PROVE Apart'
  <2>1. h \in Holding /\ Step(h, "done")
    BY <1>6 DEF Release, Holding
  <2>2. Holding = {h} /\ Taking = {}
    BY <2>1 DEF FileIsHolders, TakersMeetNobody
  <2>3. Holding' = {} /\ Taking' = {}
    BY <2>1, <2>2, Engaging
  <2>4. QED
    BY <2>3 DEF OneTaker, FileIsHolders, HoldersAreFresh, TakersMeetNobody
\* A process dies and leaves the file.
<1>7. ASSUME NEW h \in Holders, Crash(h) PROVE Apart'
  <2>1. /\ Step(h, "crashed") /\ lockFile' = lockFile /\ gotAt' = gotAt /\ lockNow' = lockNow
    BY <1>7 DEF Crash
  <2>2. Holding' \subseteq Holding /\ Taking' \subseteq Taking
    BY <2>1, Engaging
  <2>3. QED
    BY <2>1, <2>2 DEF OneTaker, FileIsHolders, HoldersAreFresh, TakersMeetNobody
<1>8. CASE UNCHANGED lockVars
  <2>1. Holding' = Holding /\ Taking' = Taking
    BY <1>8 DEF lockVars, Holding, Taking
  <2>2. QED
    BY <1>8, <2>1 DEF lockVars, OneTaker, FileIsHolders, HoldersAreFresh, TakersMeetNobody
<1>9. ASSUME NEW h \in Holders, Look(h) \/ Age(h)
      PROVE  lockPc'[h] \in {"age", "held", "break", "write"}
  BY <1>9 DEF Look, Age, Step, LockTypeOK
<1>10. QED
  BY <1>1, <1>2, <1>3, <1>4, <1>5, <1>6, <1>7, <1>8, <1>9 DEF LockNext, Attempt

\* A race ends with the last one that holds the lock or is about to take it.
LEMMA LockNextInv ==
  ASSUME LockInv, [LockNext]_lockVars
  PROVE  LockInv'
<1>1. LockTypeOK /\ LockTypeOK'
  BY LockTypes DEF LockInv
<1>2. SUFFICES ASSUME ~raced', ~overdue' PROVE Apart'
  BY <1>1 DEF LockInv
<1>3. CASE Holding' = {} /\ Taking' = {}
  BY <1>3 DEF Apart, OneTaker, FileIsHolders, HoldersAreFresh, TakersMeetNobody
<1>4. CASE Holding' \cup Taking' # {}
  <2>1. ~raced /\ ~overdue
    BY <1>1, <1>2, <1>4, HistoriesStay
  <2>2. Apart
    BY <2>1 DEF LockInv
  <2> QED BY <1>1, <1>2, <2>2, ApartNext
<1> QED BY <1>3, <1>4

-----------------------------------------------------------------------------
(* The theorems.                                                           *)

\* File, holders and attempts fit together in every behaviour of the lock
\* (acquire, try_acquire and the release by the guard).
THEOREM LockInvariance == LockSpec => []LockInv
BY LockInitInv, LockNextInv, PTL DEF LockSpec

\* The clock stays within its bound, and the file names a holder or nobody.
THEOREM LockTypeCorrect == LockSpec => []LockTypeOK
BY LockInvariance, PTL DEF LockInv

\* At most one caller holds the lock and the lock file is its own, whoever tries
\* at the same time, whatever crashes and whichever stale files are broken, unless
\* two found the lock free before either wrote the file or somebody kept it past
\* the stale limit; and even then the lock excludes again once nobody has it
\* (write_lock.rs).
THEOREM LockExcludes == LockSpec => []ExclusiveIfApart
<1>1. ASSUME LockInv PROVE ExclusiveIfApart
  <2> SUFFICES ASSUME ~raced, ~overdue
               PROVE  /\ Exclusive
                      /\ \A h \in Holding : lockFile.there /\ lockFile.by = h
    BY DEF ExclusiveIfApart
  <2>1. \A h \in Holding : lockFile.there /\ lockFile.by = h
    BY <1>1 DEF LockInv, Apart, FileIsHolders
  <2>2. Holding = {} \/ \E h \in Holding : Holding = {h}
    BY <2>1
  <2>3. Exclusive
    <3>1. Cardinality({}) = 0
      BY FS_EmptySet
    <3>2. \A h : Cardinality({h}) = 1
      BY FS_Singleton
    <3>3. CASE Holding = {}
      <4>1. Cardinality(Holding) = 0
        BY <3>1, <3>3, Zenon
      <4> QED BY <4>1 DEF Exclusive
    <3>4. CASE \E h \in Holding : Holding = {h}
      <4>1. Cardinality(Holding) = 1
        BY <3>2, <3>4, Zenon
      <4> QED BY <4>1 DEF Exclusive
    <3> QED BY <2>2, <3>3, <3>4, Zenon
  <2>4. QED
    BY <2>1, <2>3
<1>2. QED
  BY <1>1, LockInvariance, PTL

-----------------------------------------------------------------------------
(* The session store, for any keys, channels and number of rows. StoreInv  *)
(* says that the version is written after the tables (so a crash in        *)
(* between is repaired), that rows belong to sessions, that ids and        *)
(* timestamps grow together (Counted), and that every set of rows that a   *)
(* query reads can be ordered (Sortable): a row that is inserted comes     *)
(* after the others.                                                       *)

\* The rows of a set as a sequence in their order.
IsOrdering(s, rows) ==
  /\ s \in [1..Cardinality(rows) -> rows]
  /\ \A i, j \in 1..Cardinality(rows) : i < j => Precedes(s[i], s[j])
Sortable(rows) == IsFiniteSet(rows) /\ \E s : IsOrdering(s, rows)

\* Rows carry the ids given so far, each once, and a later id has no earlier
\* time.
Counted(rows, last, now) ==
  /\ \A r \in rows : r.id <= last /\ r.at <= now
  /\ \A r, q \in rows : (r.id < q.id => r.at <= q.at) /\ (r.id = q.id => r = q)

OfKey(rows, k) == {r \in rows : r.key = k}

StoreInv ==
  /\ StoreTypeOK
  /\ userVersion = CurrentVersion => tables = Creates
  /\ conn \in {"migrated", "ready"} => tables = Creates
  /\ \A r \in messages \cup events : r.key \in sessions
  /\ Counted(messages, lastId.messages, stamp) /\ Counted(events, lastId.events, stamp)
  /\ Sortable(messages)
  /\ \A k \in Keys : Sortable(OfKey(messages, k)) /\ Sortable(OfKey(events, k))

\* No row at all is in order.
LEMMA EmptySortable == Sortable({})
<1>1. IsFiniteSet({}) /\ Cardinality({}) = 0
  BY FS_EmptySet
<1>2. IsOrdering([i \in 1..0 |-> i], {})
  BY <1>1 DEF IsOrdering
<1> QED BY <1>1, <1>2 DEF Sortable

\* A row that comes after all others goes to the end.
LEMMA AddSortable ==
  ASSUME NEW rows, Sortable(rows), NEW r, r \notin rows, \A q \in rows : Precedes(q, r)
  PROVE  Sortable(rows \cup {r})
<1>1. PICK s : IsOrdering(s, rows)
  BY DEF Sortable
<1>2. PICK n \in Nat : n = Cardinality(rows)
  BY FS_CardinalityType DEF Sortable
<1>3. IsFiniteSet(rows \cup {r}) /\ Cardinality(rows \cup {r}) = n + 1
  BY <1>2, FS_AddElement DEF Sortable
<1> DEFINE t == [i \in 1..(n + 1) |-> IF i = n + 1 THEN r ELSE s[i]]
<1>4. s \in [1..n -> rows] /\ \A i, j \in 1..n : i < j => Precedes(s[i], s[j])
  BY <1>1, <1>2 DEF IsOrdering
<1>5. \A i \in 1..(n + 1) : i = n + 1 \/ i \in 1..n
  OBVIOUS
<1>6. t \in [1..(n + 1) -> rows \cup {r}]
  BY <1>4, <1>5
<1>7. ASSUME NEW i \in 1..(n + 1), NEW j \in 1..(n + 1), i < j PROVE Precedes(t[i], t[j])
  <2>1. i \in 1..n /\ t[i] = s[i] /\ s[i] \in rows
    BY <1>4, <1>7
  <2>2. CASE j = n + 1
    BY <2>1, <2>2
  <2>3. CASE j \in 1..n
    <3>1. t[j] = s[j]
      BY <2>3
    <3> QED BY <1>4, <1>7, <2>1, <2>3, <3>1
  <2> QED BY <1>5, <2>2, <2>3
<1>8. IsOrdering(t, rows \cup {r})
  BY <1>3, <1>6, <1>7 DEF IsOrdering
<1> HIDE DEF t
<1> QED BY <1>3, <1>8 DEF Sortable

\* What ORDER BY created_at, id returns is such a sequence.
LEMMA OrderedIs == ASSUME NEW rows, Sortable(rows) PROVE IsOrdering(Ordered(rows), rows)
<1>1. \E s \in [1..Cardinality(rows) -> rows] : \A i, j \in DOMAIN s : i < j => Precedes(s[i], s[j])
  BY DEF Sortable, IsOrdering
<1> QED BY <1>1 DEF Ordered, IsOrdering

\* It holds every row.
LEMMA OrderedHasAll ==
  ASSUME NEW rows \in SUBSET Row, Sortable(rows) PROVE Range(Ordered(rows)) = rows
<1>1. PICK n \in Nat : n = Cardinality(rows)
  BY FS_CardinalityType DEF Sortable
<1>2. PICK s : s = Ordered(rows)
  OBVIOUS
<1>3. s \in [1..n -> rows] /\ \A i, j \in 1..n : i < j => Precedes(s[i], s[j])
  BY <1>1, <1>2, OrderedIs DEF IsOrdering
<1>4. \A q \in rows : ~Precedes(q, q)
  BY StoreAssumption DEF Precedes, Row
<1>5. \A i, j \in 1..n : s[i] = s[j] => i = j
  <2>1. \A i, j \in 1..n : i = j \/ i < j \/ j < i
    OBVIOUS
  <2> QED BY <1>3, <1>4, <2>1
<1>6. s \in Injection(1..n, rows)
  BY <1>3, <1>5 DEF Injection, IsInjective
<1>7. s \in Surjection(1..n, rows)
  BY <1>1, <1>6, FS_Injection, FS_Interval DEF Sortable
<1> QED BY <1>2, <1>3, <1>7 DEF Surjection, Range

\* Counted rows that come one after the other have growing ids.
LEMMA IdsGrow ==
  ASSUME NEW rows \in SUBSET Row, NEW last, NEW now, Counted(rows, last, now),
         NEW x \in rows, NEW y \in rows, Precedes(x, y)
  PROVE  x.id < y.id
<1>1. x.id \in Nat /\ y.id \in Nat /\ x.at \in Nat /\ y.at \in Nat
  BY DEF Row
<1> QED BY <1>1 DEF Counted, Precedes

\* So the sequence read back is that of insertion.
LEMMA ReadInOrder ==
  ASSUME NEW rows \in SUBSET Row, Sortable(rows), NEW last, NEW now, Counted(rows, last, now),
         NEW s, s = Ordered(rows)
  PROVE  /\ Len(s) = Cardinality(rows) /\ s \in Seq(rows) /\ DOMAIN s = 1..Cardinality(rows)
         /\ \A i, j \in DOMAIN s : i < j => s[i].id < s[j].id
<1>1. PICK n \in Nat : n = Cardinality(rows)
  BY FS_CardinalityType DEF Sortable
<1>2. s \in [1..n -> rows] /\ \A i, j \in 1..n : i < j => Precedes(s[i], s[j])
  BY <1>1, OrderedIs DEF IsOrdering
<1>3. s \in Seq(rows)
  BY <1>2, SeqDef
<1>4. Len(s) = n
  BY <1>2, <1>3, LenProperties
<1> QED BY <1>1, <1>2, <1>3, <1>4, IdsGrow

-----------------------------------------------------------------------------

\* A row that is inserted has the next id and no earlier time: it goes to the
\* end of its table and of its session's rows.
LEMMA InsertedLast ==
  ASSUME NEW rows \in SUBSET Row, NEW last \in Nat, NEW now \in Nat, Counted(rows, last, now),
         NEW k \in Keys, NEW at \in 0..MaxStamp, at >= now, last < MaxRows, NEW r, r = [id |-> last + 1, key |-> k, at |-> at]
  PROVE  LET new == rows \cup {r}
         IN  /\ new \in SUBSET Row /\ Counted(new, last + 1, at)
             /\ Sortable(rows) => Sortable(new)
             /\ \A l \in Keys : Sortable(OfKey(rows, l)) => Sortable(OfKey(new, l))
<1> DEFINE new == rows \cup {r}
<1>1. r \in Row /\ r.id = last + 1 /\ r.key = k /\ r.at = at
  BY StoreAssumption DEF Row
<1>2. \A q \in rows : q.id \in Nat /\ q.at \in Nat /\ q.id <= last /\ q.at <= now
  BY DEF Row, Counted
<1>3. r \notin rows /\ \A q \in rows : Precedes(q, r)
  BY <1>1, <1>2 DEF Precedes
<1>4. Counted(new, last + 1, at)
  <2>1. \A q \in new : q.id <= last + 1 /\ q.at <= at
    BY <1>1, <1>2
  <2>2. \A q, x \in new : (q.id < x.id => q.at <= x.at) /\ (q.id = x.id => q = x)
    BY <1>1, <1>2 DEF Counted
  <2> QED BY <2>1, <2>2 DEF Counted
<1>5. ASSUME NEW l \in Keys, Sortable(OfKey(rows, l)) PROVE Sortable(OfKey(new, l))
  <2>1. CASE l = k
    <3>1. PICK t : t = OfKey(rows, l)
      OBVIOUS
    <3>2. OfKey(new, l) = t \cup {r} /\ t \subseteq rows
      BY <1>1, <2>1, <3>1 DEF OfKey
    <3>3. r \notin t /\ Sortable(t) /\ \A q \in t : Precedes(q, r)
      BY <1>3, <1>5, <3>1, <3>2
    <3>4. Sortable(t \cup {r})
      BY <3>3, AddSortable
    <3> QED BY <3>2, <3>4
  <2>2. CASE l # k
    <3>1. OfKey(new, l) = OfKey(rows, l)
      BY <1>1, <2>2 DEF OfKey
    <3> QED BY <1>5, <3>1
  <2> QED BY <2>1, <2>2
<1> QED BY <1>1, <1>3, <1>4, <1>5, AddSortable

\* Time that goes on, and rows that are deleted, disturb no order.
LEMMA CountedStays ==
  ASSUME NEW rows \in SUBSET Row, NEW fewer \in SUBSET rows, NEW last \in Nat,
         NEW now \in Nat, NEW later \in Nat, now <= later, Counted(rows, last, now)
  PROVE  Counted(fewer, last, later)
<1>1. \A q \in fewer : q \in Row /\ q.at \in Nat /\ q.at <= now
  BY DEF Row, Counted
<1> QED BY <1>1 DEF Counted

\* A database that does not exist yet.
LEMMA StoreInitInv == StoreInit => StoreInv
<1> SUFFICES ASSUME StoreInit PROVE StoreInv
  OBVIOUS
<1>1. StoreTypeOK
  <2>1. lastId \in [messages : 0..MaxRows, events : 0..MaxRows]
    BY StoreAssumption DEF StoreInit
  <2>2. states \in [Channels -> {"none", "running"}]
    BY DEF StoreInit
  <2>3. userVersion \in 0..CurrentVersion /\ stamp \in 0..MaxStamp /\ tables \in 0..Creates
    BY StoreAssumption DEF StoreInit, CurrentVersion, Creates
  <2> QED BY <2>1, <2>2, <2>3 DEF StoreInit, StoreTypeOK
<1>2. \A k \in Keys : OfKey(messages, k) = {} /\ OfKey(events, k) = {}
  BY DEF StoreInit, OfKey
<1> QED BY <1>1, <1>2, EmptySortable DEF StoreInit, StoreInv, Counted, CurrentVersion

\* The steps of initialize, from any point at which an earlier one was cut off.
LEMMA SetupKeeps ==
  ASSUME StoreInv, UNCHANGED rowVars,
         \/ Open \/ InitializeStep \/ StoreCrash
  PROVE  StoreInv'
<1> USE DEF CurrentVersion, Creates
<1>1. /\ tables' \in 0..7 /\ userVersion' \in 0..1
      /\ conn' \in {"closed", "open", "wal", "checked", "migrated", "ready"}
      /\ userVersion' = 1 => tables' = 7
      /\ conn' \in {"migrated", "ready"} => tables' = 7
  <2>1. /\ userVersion \in 0..1 /\ tables \in 0..7
        /\ conn \in {"closed", "open", "wal", "checked", "migrated", "ready"}
        /\ userVersion = 1 => tables = 7
        /\ conn \in {"migrated", "ready"} => tables = 7
    BY DEF StoreInv, StoreTypeOK
  <2>2. CASE Open \/ StoreCrash
    BY <2>1, <2>2 DEF Open, StoreCrash
  <2>3. CASE InitializeStep
    <3>1. CASE conn \in {"open", "wal"}
      BY <2>1, <2>3, <3>1 DEF InitializeStep
    <3>2. CASE conn = "checked"
      BY <2>1, <2>3, <3>2 DEF InitializeStep, Migrate
    <3>3. CASE conn = "migrated"
      BY <2>1, <2>3, <3>3 DEF InitializeStep
    <3> QED BY <2>3, <3>1, <3>2, <3>3 DEF InitializeStep
  <2> QED BY <2>2, <2>3
<1>2. StoreTypeOK'
  BY <1>1 DEF StoreInv, StoreTypeOK, rowVars
<1> QED BY <1>1, <1>2 DEF StoreInv, rowVars, OfKey

\* What an insertion into either table leaves as it was.
LEMMA InsertMessageKeeps ==
  ASSUME StoreInv, NEW k \in Keys, NEW at \in 0..MaxStamp, InsertMessage(k, at) PROVE StoreInv'
<1>1. PICK r : r = [id |-> lastId.messages + 1, key |-> k, at |-> at]
  OBVIOUS
<1>2. /\ messages' = messages \cup {r} /\ events' = events /\ stamp' = at /\ sessions' = sessions
      /\ lastId'.messages = lastId.messages + 1 /\ lastId'.events = lastId.events
      /\ lastId' \in [messages : 0..MaxRows, events : 0..MaxRows]
      /\ k \in sessions /\ at >= stamp /\ lastId.messages < MaxRows
      /\ conn' = conn /\ tables' = tables /\ userVersion' = userVersion /\ states' = states
  BY <1>1, StoreAssumption DEF InsertMessage, InsertRow, StoreInv, StoreTypeOK
<1>3. stamp \in Nat /\ lastId.messages \in Nat /\ lastId.events \in Nat /\ at \in Nat
  BY StoreAssumption DEF StoreInv, StoreTypeOK
<1>4. /\ messages' \in SUBSET Row /\ Counted(messages', lastId'.messages, stamp')
      /\ Sortable(messages') /\ \A l \in Keys : Sortable(OfKey(messages', l))
  <2>1. messages \in SUBSET Row /\ Counted(messages, lastId.messages, stamp) /\ Sortable(messages)
        /\ \A l \in Keys : Sortable(OfKey(messages, l))
    BY DEF StoreInv, StoreTypeOK
  <2>2. /\ messages \cup {r} \in SUBSET Row /\ Counted(messages \cup {r}, lastId.messages + 1, at)
        /\ Sortable(messages \cup {r})
        /\ \A l \in Keys : Sortable(OfKey(messages \cup {r}, l))
    <3>1. PICK last \in Nat, now \in Nat : last = lastId.messages /\ now = stamp
      BY <1>3
    <3>2. /\ Counted(messages, last, now) /\ at >= now /\ last < MaxRows
          /\ r = [id |-> last + 1, key |-> k, at |-> at]
      BY <1>1, <1>2, <2>1, <3>1, Zenon
    <3>3. /\ messages \cup {r} \in SUBSET Row /\ Counted(messages \cup {r}, last + 1, at)
          /\ Sortable(messages) => Sortable(messages \cup {r})
          /\ \A l \in Keys : Sortable(OfKey(messages, l)) => Sortable(OfKey(messages \cup {r}, l))
      BY <2>1, <3>2, InsertedLast
    <3> QED BY <2>1, <3>1, <3>3, Zenon
  <2> QED BY <1>2, <2>2
<1>5. Counted(events', lastId'.events, stamp')
  BY <1>2, <1>3, CountedStays DEF StoreInv, StoreTypeOK
<1>6. StoreTypeOK'
  BY <1>2, <1>4 DEF StoreInv, StoreTypeOK
<1>7. \A q \in messages' \cup events' : q.key \in sessions'
  BY <1>1, <1>2 DEF StoreInv
<1> QED BY <1>2, <1>4, <1>5, <1>6, <1>7 DEF StoreInv, OfKey

\* A transcript event that is inserted gets the next id, and comes after the
\* others of its session.
LEMMA InsertEventKeeps ==
  ASSUME StoreInv, NEW k \in Keys, NEW at \in 0..MaxStamp, InsertEvent(k, at) PROVE StoreInv'
<1>1. PICK r : r = [id |-> lastId.events + 1, key |-> k, at |-> at]
  OBVIOUS
<1>2. /\ events' = events \cup {r} /\ messages' = messages /\ stamp' = at /\ sessions' = sessions
      /\ lastId'.events = lastId.events + 1 /\ lastId'.messages = lastId.messages
      /\ lastId' \in [messages : 0..MaxRows, events : 0..MaxRows]
      /\ k \in sessions /\ at >= stamp /\ lastId.events < MaxRows
      /\ conn' = conn /\ tables' = tables /\ userVersion' = userVersion /\ states' = states
  BY <1>1, StoreAssumption DEF InsertEvent, InsertRow, StoreInv, StoreTypeOK
<1>3. stamp \in Nat /\ lastId.messages \in Nat /\ lastId.events \in Nat /\ at \in Nat
  BY StoreAssumption DEF StoreInv, StoreTypeOK
<1>4. /\ events' \in SUBSET Row /\ Counted(events', lastId'.events, stamp')
      /\ \A l \in Keys : Sortable(OfKey(events', l))
  <2>1. events \in SUBSET Row /\ Counted(events, lastId.events, stamp)
        /\ \A l \in Keys : Sortable(OfKey(events, l))
    BY DEF StoreInv, StoreTypeOK
  <2>2. /\ events \cup {r} \in SUBSET Row /\ Counted(events \cup {r}, lastId.events + 1, at)
        /\ \A l \in Keys : Sortable(OfKey(events \cup {r}, l))
    <3>1. PICK last \in Nat, now \in Nat : last = lastId.events /\ now = stamp
      BY <1>3
    <3>2. /\ Counted(events, last, now) /\ at >= now /\ last < MaxRows
          /\ r = [id |-> last + 1, key |-> k, at |-> at]
      BY <1>1, <1>2, <2>1, <3>1, Zenon
    <3>3. /\ events \cup {r} \in SUBSET Row /\ Counted(events \cup {r}, last + 1, at)
          /\ Sortable(events) => Sortable(events \cup {r})
          /\ \A l \in Keys : Sortable(OfKey(events, l)) => Sortable(OfKey(events \cup {r}, l))
      BY <2>1, <3>2, InsertedLast
    <3> QED BY <2>1, <3>1, <3>3, Zenon
  <2> QED BY <1>2, <2>2
<1>5. Counted(messages', lastId'.messages, stamp')
  BY <1>2, <1>3, CountedStays DEF StoreInv, StoreTypeOK
<1>6. StoreTypeOK'
  BY <1>2, <1>4 DEF StoreInv, StoreTypeOK
<1>7. \A q \in messages' \cup events' : q.key \in sessions'
  BY <1>1, <1>2 DEF StoreInv
<1> QED BY <1>2, <1>4, <1>5, <1>6, <1>7 DEF StoreInv, OfKey

\* A session that is referred to is kept; a transcript that is deleted is empty.
LEMMA DeleteTranscriptKeeps ==
  ASSUME StoreInv, NEW k \in Keys, DeleteTranscript(k) PROVE StoreInv'
<1>1. /\ events' = {r \in events : r.key # k} /\ messages' = messages /\ stamp' = stamp
      /\ sessions' = sessions /\ lastId' = lastId /\ conn' = conn /\ tables' = tables
      /\ userVersion' = userVersion /\ states' = states
  BY DEF DeleteTranscript
<1>2. stamp \in Nat /\ lastId.events \in Nat /\ events' \in SUBSET events
  BY <1>1, StoreAssumption DEF StoreInv, StoreTypeOK
<1>3. Counted(events', lastId.events, stamp)
  BY <1>2, CountedStays DEF StoreInv, StoreTypeOK
<1>4. ASSUME NEW l \in Keys PROVE Sortable(OfKey(events', l))
  <2>1. CASE l = k
    <3>1. OfKey(events', l) = {}
      BY <1>1, <2>1 DEF OfKey
    <3> QED BY <3>1, EmptySortable
  <2>2. CASE l # k
    <3>1. OfKey(events', l) = OfKey(events, l)
      BY <1>1, <2>2 DEF OfKey
    <3> QED BY <3>1 DEF StoreInv
  <2> QED BY <2>1, <2>2
<1> QED BY <1>1, <1>2, <1>3, <1>4 DEF StoreInv, StoreTypeOK, OfKey

\* Sessions and channel states come and go beside the rows.
LEMMA SessionsKeep ==
  ASSUME StoreInv, NEW k \in Keys, CreateSession(k) \/ DeleteSession(k) PROVE StoreInv'
<1>1. /\ events' = events /\ messages' = messages /\ stamp' = stamp
      /\ lastId' = lastId /\ conn' = conn /\ tables' = tables
      /\ userVersion' = userVersion /\ states' = states
  BY DEF CreateSession, DeleteSession
<1>2. sessions' \subseteq Keys /\ \A r \in messages \cup events : r.key \in sessions'
  BY DEF CreateSession, DeleteSession, Referenced, StoreInv, StoreTypeOK
<1> QED BY <1>1, <1>2 DEF StoreInv, StoreTypeOK, OfKey

\* Writes of channel states touch no session.
LEMMA StatesKeep ==
  ASSUME StoreInv, NEW c \in Channels,
         UpsertChannelState(c, "running") \/ DeleteChannelState(c)
  PROVE  StoreInv'
<1>1. /\ events' = events /\ messages' = messages /\ stamp' = stamp /\ sessions' = sessions
      /\ lastId' = lastId /\ conn' = conn /\ tables' = tables
      /\ userVersion' = userVersion /\ states' \in [Channels -> {"none", "running"}]
  BY DEF UpsertChannelState, DeleteChannelState, StoreInv, StoreTypeOK
<1> QED BY <1>1 DEF StoreInv, StoreTypeOK, OfKey

\* Opening, crashes and every statement keep the invariant.
LEMMA StoreNextInv == StoreInv /\ [StoreNext]_storeVars => StoreInv'
<1> SUFFICES ASSUME StoreInv, [StoreNext]_storeVars PROVE StoreInv'
  OBVIOUS
<1>1. CASE Open \/ InitializeStep \/ StoreCrash
  <2>1. UNCHANGED rowVars
    BY <1>1 DEF Open, InitializeStep, StoreCrash
  <2> QED BY <1>1, <2>1, SetupKeeps
<1>2. CASE UNCHANGED storeVars
  BY <1>2 DEF storeVars, StoreInv, StoreTypeOK, OfKey
<1> QED BY <1>1, <1>2, InsertMessageKeeps, InsertEventKeeps, DeleteTranscriptKeeps, SessionsKeep,
           StatesKeep DEF StoreNext

-----------------------------------------------------------------------------

\* A list with a limit is a beginning of the list with a higher one.
LEMMA LimitedIsPrefix ==
  ASSUME NEW rows, NEW s \in Seq(rows), NEW m \in 0..Len(s), NEW n \in 0..m
  PROVE  IsPrefix(SubSeq(s, 1, n), SubSeq(s, 1, m))
<1>1. Len(s) \in Nat
  BY LenProperties
<1>2. /\ SubSeq(s, 1, n) \in Seq(rows) /\ Len(SubSeq(s, 1, n)) = n
      /\ SubSeq(s, 1, m) \in Seq(rows) /\ Len(SubSeq(s, 1, m)) = m
      /\ \A i \in 1..n : SubSeq(s, 1, n)[i] = s[i]
      /\ \A i \in 1..m : SubSeq(s, 1, m)[i] = s[i]
  BY <1>1, SubSeqProperties
<1>3. SubSeq(SubSeq(s, 1, n), 1, n) = SubSeq(SubSeq(s, 1, m), 1, n)
  BY <1>1, <1>2
<1> QED BY <1>1, <1>2, <1>3 DEF IsPrefix

\* What the queries return for one session.
LEMMA SessionInOrder ==
  ASSUME StoreInv, NEW k \in Keys,
         NEW t, t = GetTranscript(k), NEW m, m = GetMessagesBySession(k, MaxRows)
  PROVE  /\ \A i, j \in DOMAIN t : i < j => t[i].id < t[j].id
         /\ \A i, j \in DOMAIN m : i < j => m[i].id < m[j].id
         /\ IsPrefix(GetMessagesBySession(k, 1), m)
         /\ GetTranscriptRange(k, 0, MaxStamp) = t
<1>1. stamp \in Nat /\ lastId.messages \in Nat /\ lastId.events \in Nat /\ MaxRows \in Nat
  BY StoreAssumption DEF StoreInv, StoreTypeOK
<1>2. \A i, j \in DOMAIN t : i < j => t[i].id < t[j].id
  <2>1. PICK mine : mine = OfKey(events, k)
    OBVIOUS
  <2>2. mine \in SUBSET Row /\ Sortable(mine) /\ Counted(mine, lastId.events, stamp)
        /\ t = Ordered(mine)
    <3>1. events \in SUBSET Row /\ mine \in SUBSET events /\ Counted(events, lastId.events, stamp)
      BY <2>1 DEF StoreInv, StoreTypeOK, OfKey
    <3>2. Counted(mine, lastId.events, stamp)
      BY <1>1, <3>1, CountedStays
    <3>3. Sortable(mine) /\ t = Ordered(mine)
      BY <2>1 DEF StoreInv, GetTranscript, OfKey
    <3> QED BY <3>1, <3>2, <3>3
  <2> QED BY <2>2, ReadInOrder
<1>3. PICK mine : mine = OfKey(messages, k)
  OBVIOUS
<1>4. PICK all : all = Ordered(mine)
  OBVIOUS
<1>5. mine \in SUBSET Row /\ Sortable(mine) /\ Counted(mine, lastId.messages, stamp)
  <2>1. /\ messages \in SUBSET Row /\ mine \in SUBSET messages
        /\ Counted(messages, lastId.messages, stamp)
    BY <1>3 DEF StoreInv, StoreTypeOK, OfKey
  <2>2. Counted(mine, lastId.messages, stamp)
    BY <1>1, <2>1, CountedStays
  <2>3. Sortable(mine)
    BY <1>3 DEF StoreInv
  <2> QED BY <2>1, <2>2, <2>3
<1>6. /\ all \in Seq(mine) /\ DOMAIN all = 1..Len(all) /\ Len(all) \in Nat
      /\ Len(all) = Cardinality(mine)
      /\ \A i, j \in 1..Len(all) : i < j => all[i].id < all[j].id
  BY <1>4, <1>5, ReadInOrder, LenProperties
<1> DEFINE upto(limit) == IF limit < Len(all) THEN limit ELSE Len(all)
<1>7. \A limit \in Nat : GetMessagesBySession(k, limit) = SubSeq(all, 1, upto(limit))
  BY <1>3, <1>4 DEF GetMessagesBySession, OfKey
<1>8. \A limit \in Nat : upto(limit) \in 0..Len(all)
  BY <1>6
<1>9. \A i, j \in DOMAIN m : i < j => m[i].id < m[j].id
  <2>1. PICK n \in 0..Len(all) : n = upto(MaxRows)
    BY <1>1, <1>8
  <2>2. m = SubSeq(all, 1, n)
    BY <1>1, <1>7, <2>1
  <2>3. DOMAIN m = 1..n /\ \A i \in 1..n : m[i] = all[i]
    <3>1. /\ SubSeq(all, 1, n) \in Seq(mine) /\ Len(SubSeq(all, 1, n)) = n
          /\ \A i \in 1..n : SubSeq(all, 1, n)[i] = all[i]
      BY <1>6, SubSeqProperties
    <3> QED BY <2>2, <3>1, LenProperties
  <2> QED BY <1>6, <2>3
<1>10. IsPrefix(GetMessagesBySession(k, 1), m)
  <2>1. MaxRows = 0 => Len(all) = 0
    <3>1. MaxRows = 0 => mine = {}
      BY <1>5 DEF Row
    <3> QED BY <1>6, <3>1, FS_EmptySet
  <2>2. PICK n \in 0..Len(all), o \in 0..Len(all) : n = upto(MaxRows) /\ o = upto(1)
    BY <1>1, <1>8
  <2>3. o \in 0..n
    BY <1>1, <1>6, <2>1, <2>2
  <2>4. IsPrefix(SubSeq(all, 1, o), SubSeq(all, 1, n))
    BY <1>6, <2>2, <2>3, LimitedIsPrefix
  <2>5. GetMessagesBySession(k, 1) = SubSeq(all, 1, o) /\ m = SubSeq(all, 1, n)
    BY <1>1, <1>7, <2>2
  <2> QED BY <2>4, <2>5
<1>11. GetTranscriptRange(k, 0, MaxStamp) = t
  <2>1. \A r \in events : 0 <= r.at /\ r.at <= MaxStamp
    BY StoreAssumption DEF StoreInv, StoreTypeOK, Row
  <2>2. {r \in events : r.key = k /\ 0 <= r.at /\ r.at <= MaxStamp} = {r \in events : r.key = k}
    BY <2>1
  <2> QED BY <2>2 DEF GetTranscriptRange, GetTranscript
<1> QED BY <1>2, <1>9, <1>10, <1>11

\* The strengthened invariant is one, whatever the number of rows and sessions.
THEOREM StoreInvariance == StoreSpec => []StoreInv
BY StoreInitInv, StoreNextInv, PTL DEF StoreSpec

\* A store that is ready has its tables; its rows belong to sessions and come
\* back in the order in which they were inserted, however initialisations were
\* cut short.
THEOREM RowsAreKept == StoreSpec => []StoreKeepsRows
<1>1. StoreInv => StoreKeepsRows
  <2> SUFFICES ASSUME StoreInv PROVE StoreKeepsRows
    OBVIOUS
  <2>1. StoreTypeOK /\ ReadyHasTables
    BY DEF StoreInv, ReadyHasTables
  <2>2. Range(GetMessagesByTimeRange(0, MaxStamp)) = messages
    <3>1. \A r \in messages : 0 <= r.at /\ r.at <= MaxStamp
      BY StoreAssumption DEF StoreInv, StoreTypeOK, Row
    <3>2. {r \in messages : 0 <= r.at /\ r.at <= MaxStamp} = messages
      BY <3>1
    <3>3. Range(Ordered(messages)) = messages
      BY OrderedHasAll DEF StoreInv, StoreTypeOK
    <3> QED BY <3>2, <3>3 DEF GetMessagesByTimeRange
  <2>3. /\ \A r \in events : r.id <= lastId.events
        /\ \A r, q \in events : r.id = q.id => r = q
        /\ \A r \in messages \cup events : r.key \in sessions
    BY DEF StoreInv, Counted
  <2>4. TranscriptInOrder
    BY <2>2, <2>3, SessionInOrder DEF TranscriptInOrder
  <2> QED BY <2>1, <2>4 DEF StoreKeepsRows
<1> QED BY StoreInvariance, <1>1, PTL
-----------------------------------------------------------------------------
(* The registries, for all models, plugins, hooks and channels.  An         *)
(* execution of hooks is at any moment the account of what it has done      *)
(* (Executing): so many of the collected hooks, sorted and of active        *)
(* plugins, none of which aborted, and the data of the last that changed    *)
(* it.                                                                      *)

Collected == Seq([plugin : Plugins, hook : Hooks])
Executions ==
  [hooks : Collected, data : {"given"} \union {h.result : h \in Hooks}, executed : Nat,
   modified : BOOLEAN, by : Plugins \union {None}]

SortedHooks(l) == \A i, j \in DOMAIN l : i < j => l[i].hook.priority <= l[j].hook.priority
Changes(l, n) == {i \in 1..n : l[i].hook.result # "continue"}

\* What n executed hooks of l, the data d, the mark m of a change and the plugin
\* b that aborted have to do with each other.
Accounted(l, n, d, m, b) ==
  /\ n <= Len(l)
  /\ \A i \in 1..n : l[i].hook.result # "abort"
  /\ Changes(l, n) = {} => d = "given"
  /\ \A i \in Changes(l, n) : (\A j \in Changes(l, n) : j <= i) => d = l[i].hook.result
  /\ m = (Changes(l, n) # {})
  /\ b # None => n < Len(l) /\ l[n + 1].hook.result = "abort" /\ l[n + 1].plugin = b

Executing ==
  /\ pipeline \in Executions
  /\ SortedHooks(pipeline.hooks)
  /\ \A i \in DOMAIN pipeline.hooks : pipeline.hooks[i].plugin \in Active
  /\ Accounted(pipeline.hooks, pipeline.executed, pipeline.data, pipeline.modified, pipeline.by)

RegistryInv ==
  /\ RegistryTypeOK
  /\ default # None => default \in entries
  /\ pipeline # None => Executing

\* The hooks of a plugin, and how many places they have.
LEMMA HooksDeclared ==
  ASSUME RegistryAssumption, RegistryTypeOK, NEW event
  PROVE  /\ \A p \in DOMAIN plugins : Declared(p) \in Seq(Hooks)
         /\ HookPlaces(event) \subseteq Active \X (1..MaxDeclared)
         /\ Active \subseteq Plugins /\ Active \subseteq DOMAIN plugins
         /\ Cardinality(HookPlaces(event)) \in Nat
<1>1. \A p \in DOMAIN plugins : Declared(p) \in Seq(Hooks)
  BY ElementOfSeq DEF RegistryTypeOK, Declared
<1>2. HookPlaces(event) \subseteq Active \X (1..MaxDeclared)
  BY DEF HookPlaces
<1>3. Active \subseteq Plugins /\ Active \subseteq DOMAIN plugins
  BY DEF RegistryTypeOK, Active
<1>4. IsFiniteSet(Active) /\ IsFiniteSet(1..MaxDeclared)
  BY <1>3, FS_Subset, FS_Interval DEF RegistryAssumption
<1>5. Cardinality(HookPlaces(event)) \in Nat
  BY <1>2, <1>4, FS_Product, FS_Subset, FS_CardinalityType
<1> QED BY <1>1, <1>2, <1>3, <1>5

\* What get_all_hooks gives: the hooks of active plugins, sorted by priority.
LEMMA HooksAreSorted ==
  ASSUME RegistryAssumption, RegistryTypeOK, NEW event, NEW l \in GetAllHooks(event)
  PROVE  /\ l \in Collected /\ SortedHooks(l)
         /\ \A i \in DOMAIN l : l[i].plugin \in Active
<1> DEFINE At(w) == [plugin |-> w[1], hook |-> Declared(w[1])[w[2]]]
<1>1. PICK s \in UNION {SortedPlaces(event, visit) : visit \in Injection(Active, 1..Cardinality(Active))} :
        l = [i \in DOMAIN s |-> At(s[i])]
  BY DEF GetAllHooks
<1>0. PICK visit \in Injection(Active, 1..Cardinality(Active)) : s \in SortedPlaces(event, visit)
  BY <1>1
<1>2. /\ DOMAIN s = 1..Cardinality(HookPlaces(event))
      /\ \A i \in DOMAIN s : s[i] \in HookPlaces(event)
  BY <1>0 DEF SortedPlaces, SetToSeqs
<1>3. \A w \in HookPlaces(event) :
        /\ w[1] \in Active /\ w[1] \in Plugins
        /\ Declared(w[1])[w[2]] \in Hooks
  <2> SUFFICES ASSUME NEW w \in HookPlaces(event)
               PROVE  w[1] \in Active /\ w[1] \in Plugins /\ Declared(w[1])[w[2]] \in Hooks
    OBVIOUS
  <2>1. w[1] \in Active /\ w[2] \in DOMAIN Declared(w[1])
    BY DEF HookPlaces
  <2> QED BY <2>1, HooksDeclared, ElementOfSeq
<1>4. /\ DOMAIN l = DOMAIN s
      /\ \A i \in DOMAIN l : /\ l[i] = At(s[i]) /\ l[i] \in [plugin : Plugins, hook : Hooks]
                             /\ l[i].plugin = s[i][1] /\ l[i].plugin \in Active
                             /\ l[i].hook = Declared(s[i][1])[s[i][2]]
                             /\ l[i].hook.priority \in Int
  BY <1>1, <1>2, <1>3 DEF RegistryAssumption
<1>5. l \in Collected
  <2>1. l \in [1..Cardinality(HookPlaces(event)) -> [plugin : Plugins, hook : Hooks]]
    BY <1>1, <1>2, <1>4
  <2>2. Cardinality(HookPlaces(event)) \in Nat
    BY HooksDeclared
  <2>3. \A S, n, f : n \in Nat /\ f \in [1..n -> S] => f \in Seq(S)
    BY SeqDef
  <2> QED BY <2>1, <2>2, <2>3, Zenon DEF Collected
<1>6. ASSUME NEW i \in DOMAIN l, NEW j \in DOMAIN l, i < j
      PROVE  l[i].hook.priority <= l[j].hook.priority
  <2>1. RunsBefore(visit, s[i], s[j])
    BY <1>0, <1>4, <1>6 DEF SortedPlaces
  <2> QED BY <2>1, <1>4 DEF RunsBefore
<1> QED BY <1>4, <1>5, <1>6 DEF SortedHooks

\* A hook that ran adds itself to the account, as the last.
LEMMA ChangesGrow ==
  ASSUME NEW l, NEW n \in Nat
  PROVE  Changes(l, n + 1) =
           IF l[n + 1].hook.result = "continue" THEN Changes(l, n) ELSE Changes(l, n) \union {n + 1}
BY DEF Changes

\* The types.
LEMMA RegistryTypes ==
  ASSUME RegistryAssumption, RegistryTypeOK, [RegistryNext]_tableVars PROVE RegistryTypeOK'
<1> USE DEF RegistryTypeOK
<1>1. ASSUME NEW m \in Models, RegisterModel(m) \/ SetGlobalDefault(m) \/ RemoveModel(m)
      PROVE  RegistryTypeOK'
  BY <1>1 DEF RegisterModel, SetGlobalDefault, RemoveModel, pluginVars
<1>2. ASSUME NEW p \in Plugins, RegisterPlugin(p) PROVE RegistryTypeOK'
  <2>1. /\ Len(handles) \in Nat /\ DOMAIN handles = 1..Len(handles)
        /\ <<>> \in Seq(Hooks)
    BY LenProperties, EmptySeq
  <2>2. /\ handles' \in Seq(Seq(Hooks)) /\ DOMAIN handles' = 1..Len(handles) + 1
    BY <1>2, <2>1, AppendProperties, LenProperties DEF RegisterPlugin
  <2>3. /\ DOMAIN plugins' = DOMAIN plugins \union {p}
        /\ plugins'[p] = [state |-> "registered", handle |-> Len(handles) + 1]
        /\ \A q \in DOMAIN plugins \ {p} : plugins'[q] = plugins[q]
    BY <1>2 DEF RegisterPlugin, TableInsert
  <2>4. UNCHANGED <<entries, default, docks>>
    BY <1>2 DEF RegisterPlugin, catalogVars
  <2>5. ASSUME NEW q \in DOMAIN plugins'
        PROVE  /\ plugins'[q].state \in {"registered", "active", "disabled"}
               /\ plugins'[q].handle \in DOMAIN handles'
    BY <2>1, <2>2, <2>3
  <2> QED BY <2>2, <2>3, <2>4, <2>5
<1>3. ASSUME NEW p, NEW state \in {"active", "disabled"}, SetPluginState(p, state) PROVE RegistryTypeOK'
  <2>1. /\ DOMAIN plugins' = DOMAIN plugins
        /\ \A q \in DOMAIN plugins : plugins'[q].handle = plugins[q].handle
                                   /\ plugins'[q].state \in {plugins[q].state, state}
    BY <1>3 DEF SetPluginState
  <2> QED BY <1>3, <2>1 DEF SetPluginState, catalogVars
<1>4. ASSUME NEW h \in DOMAIN handles, NEW hook \in Hooks, Declare(h, hook) PROVE RegistryTypeOK'
  <2>1. handles[h] \in Seq(Hooks) /\ Append(handles[h], hook) \in Seq(Hooks)
    BY ElementOfSeq, AppendProperties
  <2>2. handles' \in Seq(Seq(Hooks)) /\ DOMAIN handles' = DOMAIN handles
    BY <1>4, <2>1, ExceptSeq DEF Declare
  <2> QED BY <1>4, <2>2 DEF Declare, catalogVars
<1>5. CASE UNCHANGED <<entries, default, plugins, handles, docks>>
  BY <1>5
<1>6. ASSUME NEW c \in DockIds, NEW loaded \in BOOLEAN, RegisterDock(c, loaded) PROVE RegistryTypeOK'
  BY <1>6 DEF RegisterDock, TableInsert, catalogVars, pluginVars
<1>7. ASSUME NEW c \in DockIds, UnregisterDock(c) PROVE RegistryTypeOK'
  BY <1>7 DEF UnregisterDock, Restrict, catalogVars, pluginVars
<1> QED
  BY <1>1, <1>2, <1>3, <1>4, <1>5, <1>6, <1>7
  DEF RegistryNext, CatalogNext, PluginNext, DockNext, Activate, Deactivate, BeginHooks, ExecuteHook, tableVars,
      catalogVars

\* No step but the registration of a plugin changes a handle or a state, and
\* none does once a pipeline shares the registry.
LEMMA PluginsAreShared ==
  ASSUME [RegistryNext]_tableVars, pipeline # None PROVE UNCHANGED plugins
BY DEF RegistryNext, CatalogNext, PluginNext, DockNext, RegisterModel, SetGlobalDefault, RemoveModel,
       RegisterPlugin, SetPluginState, Activate, Deactivate, Declare, BeginHooks, ExecuteHook, RegisterDock,
       UnregisterDock, tableVars, pluginVars, catalogVars

\* An execution begins with nothing done, and its hooks sorted.
LEMMA ExecutionBegins ==
  ASSUME RegistryAssumption, RegistryTypeOK, NEW event, BeginHooks(event) PROVE Executing'
<1>1. PICK l \in GetAllHooks(event) :
        pipeline' = [hooks |-> l, data |-> "given", executed |-> 0, modified |-> FALSE, by |-> None]
  BY DEF BeginHooks
<1>2. l \in Collected /\ SortedHooks(l) /\ \A i \in DOMAIN l : l[i].plugin \in Active
  BY HooksAreSorted
<1>3. Active' = Active /\ Len(l) \in Nat
  BY <1>2, LenProperties DEF BeginHooks, Collected, Active
<1>4. /\ pipeline'.hooks = l /\ pipeline'.data = "given" /\ pipeline'.executed = 0
      /\ pipeline'.modified = FALSE /\ pipeline'.by = None /\ pipeline' \in Executions
  BY <1>1, <1>2 DEF Executions
<1>5. Changes(l, 0) = {}
  BY DEF Changes
<1>6. Accounted(l, 0, "given", FALSE, None)
  BY <1>3, <1>5 DEF Accounted
<1> QED BY <1>2, <1>3, <1>4, <1>6 DEF Executing

\* A hook that is executed is accounted for.
LEMMA ExecutionGoesOn ==
  ASSUME RegistryAssumption, Executing, ExecuteHook PROVE Executing'
<1> DEFINE l == pipeline.hooks
           n == pipeline.executed
           d == pipeline.data
           m == pipeline.modified
           h == l[n + 1]
<1>1. /\ pipeline \in Executions /\ n \in Nat /\ n < Len(l) /\ l \in Collected /\ m \in BOOLEAN
      /\ pipeline.by = None
  BY DEF Executing, Executions, ExecuteHook
<1>2. Len(l) \in Nat /\ n + 1 \in 1..Len(l)
  BY <1>1, LenProperties DEF Collected
<1>3. h \in [plugin : Plugins, hook : Hooks]
  BY <1>1, <1>2, ElementOfSeq DEF Collected
<1>4. h.plugin \in Plugins /\ h.hook \in Hooks /\ h.plugin # None
  BY <1>3 DEF RegistryAssumption
<1>5. Active' = Active
  BY DEF ExecuteHook, Active
<1>6. /\ SortedHooks(l) /\ \A i \in DOMAIN l : l[i].plugin \in Active
      /\ Accounted(l, n, d, m, None)
  BY <1>1 DEF Executing
<1>7. CASE h.hook.result = "abort"
  <2>1. pipeline' = [pipeline EXCEPT !.by = h.plugin]
    BY <1>7 DEF ExecuteHook
  <2>2. /\ pipeline' \in Executions /\ pipeline'.hooks = l /\ pipeline'.executed = n
        /\ pipeline'.data = d /\ pipeline'.modified = m /\ pipeline'.by = h.plugin
    BY <1>1, <1>4, <2>1 DEF Executions
  <2>3. Accounted(l, n, d, m, h.plugin)
    BY <1>1, <1>6, <1>7 DEF Accounted
  <2> QED BY <1>5, <1>6, <2>2, <2>3 DEF Executing
<1>8. n + 1 <= Len(l) /\ \A i \in 1..(n + 1) : i \in 1..n \/ i = n + 1
  BY <1>1, <1>2
<1>9. CASE h.hook.result = "continue"
  <2>1. pipeline' = [pipeline EXCEPT !.executed = @ + 1]
    BY <1>9 DEF ExecuteHook
  <2>2. /\ pipeline' \in Executions /\ pipeline'.hooks = l /\ pipeline'.executed = n + 1
        /\ pipeline'.data = d /\ pipeline'.modified = m /\ pipeline'.by = None
    BY <1>1, <2>1 DEF Executions
  <2>3. Changes(l, n + 1) = Changes(l, n)
    BY <1>1, <1>9, ChangesGrow
  <2>4. Accounted(l, n + 1, d, m, None)
    BY <1>6, <1>8, <1>9, <2>3 DEF Accounted
  <2> QED BY <1>5, <1>6, <2>2, <2>4 DEF Executing
<1>10. CASE h.hook.result \notin {"abort", "continue"}
  <2>1. pipeline' = [hooks |-> l, data |-> h.hook.result, modified |-> TRUE, executed |-> n + 1, by |-> None]
    BY <1>10 DEF ExecuteHook
  <2>2. h.hook.result \in {"given"} \union {g.result : g \in Hooks}
    BY <1>4
  <2>3. /\ pipeline' \in Executions /\ pipeline'.hooks = l /\ pipeline'.executed = n + 1
        /\ pipeline'.data = h.hook.result /\ pipeline'.modified = TRUE /\ pipeline'.by = None
    BY <1>1, <2>1, <2>2 DEF Executions
  <2>4. Changes(l, n + 1) = Changes(l, n) \union {n + 1} /\ Changes(l, n) \subseteq 1..n
    BY <1>1, <1>10, ChangesGrow DEF Changes
  <2>5. \A i \in Changes(l, n + 1) : (\A j \in Changes(l, n + 1) : j <= i) => i = n + 1
    <3>1. n + 1 \in Changes(l, n + 1) /\ \A i \in Changes(l, n + 1) : i \in 1..n \/ i = n + 1
      BY <2>4
    <3>2. \A i \in 1..n : ~ (n + 1 <= i)
      BY <1>1
    <3> QED BY <3>1, <3>2
  <2>6. Accounted(l, n + 1, h.hook.result, TRUE, None)
    BY <1>6, <1>8, <1>10, <2>4, <2>5 DEF Accounted
  <2> QED BY <1>5, <1>6, <2>3, <2>6 DEF Executing
<1> QED BY <1>7, <1>9, <1>10

\* All steps.
LEMMA RegistryInitInv == ASSUME RegistryAssumption, RegistryInit PROVE RegistryInv
BY EmptySeq DEF RegistryInit, RegistryInv, RegistryTypeOK

LEMMA RegistryNextInv ==
  ASSUME RegistryAssumption, RegistryInv, [RegistryNext]_tableVars PROVE RegistryInv'
<1>1. RegistryTypeOK'
  BY RegistryTypes DEF RegistryInv
<1>2. default' # None => default' \in entries'
  <2>1. CASE UNCHANGED catalogVars
    BY <2>1 DEF RegistryInv, catalogVars
  <2>2. ASSUME NEW m \in Models, RegisterModel(m) \/ SetGlobalDefault(m) \/ RemoveModel(m)
        PROVE  default' # None => default' \in entries'
    BY <2>2 DEF RegistryInv, RegisterModel, SetGlobalDefault, RemoveModel
  <2> QED BY <2>1, <2>2
          DEF RegistryNext, CatalogNext, PluginNext, DockNext, RegisterPlugin, SetPluginState, Activate, Deactivate,
              Declare, BeginHooks, ExecuteHook, RegisterDock, UnregisterDock, tableVars, catalogVars
<1>3. pipeline' # None => Executing'
  <2>1. ASSUME NEW event, BeginHooks(event) PROVE Executing'
    BY <2>1, ExecutionBegins DEF RegistryInv
  <2>2. CASE ExecuteHook
    BY <2>2, ExecutionGoesOn DEF RegistryInv, ExecuteHook
  <2>3. CASE UNCHANGED pipeline
    BY <2>3, PluginsAreShared DEF RegistryInv, Executing, Active
  <2> QED BY <2>1, <2>2, <2>3
          DEF RegistryNext, CatalogNext, PluginNext, DockNext, RegisterModel, SetGlobalDefault, RemoveModel,
              RegisterPlugin, SetPluginState, Activate, Deactivate, Declare, RegisterDock, UnregisterDock, tableVars,
              pluginVars
<1> QED BY <1>1, <1>2, <1>3 DEF RegistryInv

\* A selection finds the default at the latest.
LEMMA DefaultIsFound ==
  ASSUME RegistryTypeOK, default # None, default \in entries, NEW m, NEW n
  PROVE  CatalogResolve(<<m, n>>) \in entries
<1> DEFINE levels == Append(<<m, n>>, default)
           known == {i \in DOMAIN levels : levels[i] \in entries}
<1>1. DOMAIN levels = 1..3 /\ levels[3] = default
  <2>1. <<m, n>> \in Seq({m, n, default}) /\ Len(<<m, n>>) = 2
    OBVIOUS
  <2> QED BY <2>1, AppendProperties, LenProperties
<1>2. 3 \in known /\ known \subseteq 1..3
  BY <1>1
<1>3. \E i \in known : \A j \in known : i <= j
  BY <1>2
<1>4. Min(known) \in known
  BY <1>3 DEF Min
<1> QED BY <1>2, <1>4 DEF CatalogResolve

\* The account of an execution says what the priorities promise.
LEMMA AccountObeys ==
  ASSUME RegistryAssumption, RegistryInv PROVE HooksObeyPriority
<1> SUFFICES ASSUME pipeline # None PROVE HooksObeyPriority
  BY DEF HooksObeyPriority
<1>1. Executing
  BY DEF RegistryInv
<1> DEFINE l == pipeline.hooks
           n == pipeline.executed
<1>2. /\ l \in Collected /\ n \in Nat /\ SortedHooks(l) /\ \A i \in 1..n : l[i].hook.result # "abort"
  BY <1>1 DEF Executing, Executions, Accounted
<1>3. DOMAIN l = 1..Len(l) /\ \A i \in DOMAIN l : l[i].hook.priority \in Int
  <2>1. DOMAIN l = 1..Len(l) /\ \A i \in 1..Len(l) : l[i] \in [plugin : Plugins, hook : Hooks]
    BY <1>2, LenProperties, ElementOfSeq DEF Collected
  <2> QED BY <2>1 DEF RegistryAssumption
<1>4. ASSUME NEW i \in DOMAIN l, NEW j \in DOMAIN l, l[i].hook.result = "abort",
             l[j].hook.priority > l[i].hook.priority
      PROVE  j > n
  <2>1. i \in Nat /\ j \in Nat /\ i \notin 1..n /\ i >= 1
    BY <1>2, <1>3, <1>4
  <2>2. ~ (j < i) /\ i # j
    BY <1>2, <1>3, <1>4 DEF SortedHooks
  <2> QED BY <1>2, <2>1, <2>2
<1> QED BY <1>1, <1>4 DEF HooksObeyPriority, Executing, Accounted, Changes, Active

\* Lower case stays, and the built-in names are in lower case.
LEMMA NamesAgree == ASSUME RegistryAssumption PROVE AliasesAgree
<1> SUFFICES ASSUME NEW s
             PROVE  /\ NormalizeChannelId(NormalizeChannelId(s)) = NormalizeChannelId(s)
                    /\ ParseChannel(s) # None => ChannelIdOf(s) = NormalizeChannelId(s)
  BY DEF AliasesAgree
<1>1. Fold(Fold(s)) = Fold(s) /\ \A c \in BuiltIn : Fold(c) = c
  BY DEF RegistryAssumption, Fold
<1>2. ParseChannel(Fold(s)) = ParseChannel(s)
  BY <1>1 DEF ParseChannel
<1>3. ParseChannel(s) # None => ParseChannel(s) \in BuiltIn
  BY DEF ParseChannel, BuiltIn
<1>4. \A c \in BuiltIn : ParseChannel(c) = c /\ c # None
  BY <1>1 DEF ParseChannel, BuiltIn, RegistryAssumption
<1> QED BY <1>1, <1>2, <1>3, <1>4 DEF NormalizeChannelId, ChannelIdOf

\* Whatever is registered, activated, declared, removed and executed in whatever
\* order: the default model can be chosen, the hooks of an event run by priority
\* and stop at the first that aborts, with the data of the last that changed it,
\* and a channel has one name (ModelCatalog, PluginRegistry, HookPipeline,
\* ChannelRegistry).
THEOREM RegistriesAlwaysHold == ASSUME RegistryAssumption PROVE RegistrySpec => []RegistriesHold
<1>1. RegistryInit => RegistryInv
  BY RegistryInitInv
<1>2. RegistryInv /\ [RegistryNext]_tableVars => RegistryInv'
  BY RegistryNextInv
<1>3. RegistryInv => RegistriesHold
  BY DefaultIsFound, AccountObeys, NamesAgree DEF RegistryInv, RegistriesHold, DefaultIsKnown
<1> QED BY <1>1, <1>2, <1>3, PTL DEF RegistrySpec

-----------------------------------------------------------------------------
(* The compaction of a conversation, for any messages and settings.  An    *)
(* attempt cuts out what stands between the system prefix and a tail that  *)
(* begins no later than the last user message (CutIsRight); what is left   *)
(* begins and ends like the whole (PiecesOfWhole).  How much an attempt    *)
(* preserves is defined by recursion: a least number at which that fails   *)
(* takes the place of an induction (HalvingExists, PreservedIsANumber).    *)

\* A set of numbers has a least one, and if it is bounded a greatest.
LEMMA LeastIsThere ==
  ASSUME NEW T \in SUBSET Nat, T # {}
  PROVE  Min(T) \in T /\ \A y \in T : Min(T) <= y
<1>1. PICK R : R = OpToRel(<, Nat)
  OBVIOUS
<1>2. IsWellFoundedOn(R, Nat)
  BY <1>1, NatLessThanWellFounded
<1>3. PICK x \in T : \A y \in T : ~(<<y, x>> \in R)
  BY <1>2, WFMin
<1>4. \A y \in T : y < x => <<y, x>> \in R
  BY <1>1 DEF OpToRel
<1>5. ASSUME NEW y \in T PROVE x <= y
  <2>1. x \in Nat /\ y \in Nat /\ ~(y < x)
    BY <1>3, <1>4
  <2> QED BY <2>1
<1> QED BY <1>5 DEF Min

LEMMA GreatestIsThere ==
  ASSUME NEW n \in Nat, NEW T \in SUBSET (1..n), T # {}
  PROVE  Greatest(T) \in T /\ \A i \in T : i <= Greatest(T)
<1> DEFINE Below == {n - i : i \in T}
<1>1. Below \subseteq Nat /\ Below # {}
  OBVIOUS
<1>2. Min(Below) \in Below /\ \A y \in Below : Min(Below) <= y
  BY <1>1, LeastIsThere
<1>3. PICK g \in T : Min(Below) = n - g
  BY <1>2
<1>4. ASSUME NEW i \in T PROVE i <= g
  <2>1. n - g <= n - i
    BY <1>2, <1>3
  <2>2. i \in Nat /\ g \in Nat
    OBVIOUS
  <2> QED BY <2>1, <2>2
<1>5. \E x \in T : \A j \in T : j <= x
  BY <1>4
<1> QED BY <1>5 DEF Greatest

Halved(x) == IF x \div 2 > 1 THEN x \div 2 ELSE 1

\* There are numbers that are halved from one to the next, however many.
LEMMA HalvingExists ==
  ASSUME NEW first, NEW N \in Nat
  PROVE  \E f : f = [n \in 0..N |-> IF n = 0 THEN first ELSE Halved(f[n - 1])]
<1> DEFINE Exists(k) == \E f : f = [n \in 0..k |-> IF n = 0 THEN first ELSE Halved(f[n - 1])]
           Missing == {k \in Nat : ~Exists(k)}
<1>1. SUFFICES Missing = {}
  OBVIOUS
<1>2. SUFFICES ASSUME Missing # {} PROVE FALSE
  OBVIOUS
<1>3. PICK k \in Missing : \A j \in Missing : k <= j
  BY <1>2, LeastIsThere
<1>4. k # 0
  <2>1. [n \in 0..0 |-> first] = [n \in 0..0 |-> IF n = 0 THEN first ELSE Halved([m \in 0..0 |-> first][n - 1])]
    OBVIOUS
  <2>2. Exists(0)
    BY <2>1
  <2> QED BY <2>2
<1>5. k - 1 \in Nat /\ k - 1 \notin Missing
  BY <1>3, <1>4
<1>6. PICK f : f = [n \in 0..(k - 1) |-> IF n = 0 THEN first ELSE Halved(f[n - 1])]
  BY <1>5
<1>7. PICK g : g = [n \in 0..k |-> IF n < k THEN f[n] ELSE Halved(f[k - 1])]
  OBVIOUS
<1>8. ASSUME NEW n \in 0..k PROVE g[n] = IF n = 0 THEN first ELSE Halved(g[n - 1])
  <2> HIDE DEF Exists, Missing
  <2>0. k \in Nat
    BY DEF Missing
  <2>1. CASE n = 0
    BY <2>0, <2>1, <1>4, <1>6, <1>7
  <2>2. CASE n # 0 /\ n < k
    <3>1. n - 1 \in 0..(k - 1) /\ n \in 0..(k - 1) /\ n - 1 \in 0..k /\ n - 1 < k
      BY <2>0, <2>2
    <3>2. f[n] = Halved(f[n - 1])
      BY <2>2, <3>1, <1>6
    <3>3. g[n] = f[n] /\ g[n - 1] = f[n - 1]
      BY <2>2, <3>1, <1>7
    <3> QED BY <2>2, <3>2, <3>3
  <2>3. CASE n = k
    <3>1. k - 1 \in 0..k /\ k - 1 < k /\ ~(k < k)
      BY <2>0, <1>4
    <3>2. g[n] = Halved(f[k - 1]) /\ g[k - 1] = f[k - 1]
      BY <2>3, <3>1, <1>7
    <3> QED BY <2>3, <3>2, <1>4
  <2> QED BY <2>0, <2>1, <2>2, <2>3
<1>9. g = [n \in 0..k |-> IF n = 0 THEN first ELSE Halved(g[n - 1])]
  BY <1>7, <1>8
<1> QED BY <1>9

\* What the attempts preserve is as it was configured and then halved.
LEMMA PreservedIsHalved ==
  ASSUME NEW c, c.maxRetries \in Nat
  PROVE  \A n \in 0..c.maxRetries :
            Preserved(c)[n] = IF n = 0 THEN c.preserveRecent ELSE Halved(Preserved(c)[n - 1])
<1> DEFINE IsIt(f) == f = [n \in 0..c.maxRetries |-> IF n = 0 THEN c.preserveRecent ELSE Halved(f[n - 1])]
<1>1. \E f : IsIt(f)
  BY HalvingExists
<1>2. Preserved(c) = CHOOSE f : IsIt(f)
  BY DEF Preserved, Halved
<1>3. IsIt(Preserved(c))
  BY <1>1, <1>2
<1> QED BY <1>3

\* So it is a number, and one that is not zero if the configured one is not.
LEMMA PreservedIsANumber ==
  ASSUME NEW c, c.maxRetries \in Nat, c.preserveRecent \in Nat, NEW n \in 0..c.maxRetries
  PROVE  Preserved(c)[n] \in Nat /\ (c.preserveRecent > 0 => Preserved(c)[n] > 0)
<1> DEFINE Good(k) == Preserved(c)[k] \in Nat /\ (c.preserveRecent > 0 => Preserved(c)[k] > 0)
           Bad == {k \in 0..c.maxRetries : ~Good(k)}
<1>1. SUFFICES ASSUME Bad # {} PROVE FALSE
  OBVIOUS
<1>2. PICK k \in Bad : \A j \in Bad : k <= j
  <2>1. Bad \in SUBSET Nat
    OBVIOUS
  <2> HIDE DEF Bad
  <2> QED BY <1>1, <2>1, LeastIsThere
<1>3. k # 0
  BY PreservedIsHalved
<1>4. k - 1 \in 0..c.maxRetries /\ k - 1 \notin Bad
  BY <1>2, <1>3
<1>5. Good(k - 1)
  BY <1>4
<1>6. Preserved(c)[k] = Halved(Preserved(c)[k - 1])
  BY <1>3, PreservedIsHalved
<1>7. \A x \in Nat : Halved(x) \in Nat /\ Halved(x) > 0
  BY DEF Halved
<1>8. Good(k)
  BY <1>5, <1>6, <1>7
<1> QED BY <1>8

\* A beginning and an end, element by element.
LEMMA PrefixMeans ==
  ASSUME NEW S, NEW s \in Seq(S), NEW t \in Seq(S), Len(s) <= Len(t), \A i \in 1..Len(s) : s[i] = t[i]
  PROVE  IsPrefix(s, t)
<1>1. SubSeq(s, 1, Len(s)) = SubSeq(t, 1, Len(s))
  OBVIOUS
<1> QED BY <1>1 DEF IsPrefix

LEMMA SuffixMeans ==
  ASSUME NEW S, NEW s \in Seq(S), NEW t \in Seq(S), Len(s) <= Len(t),
         \A i \in 1..Len(s) : s[i] = t[Len(t) - Len(s) + i]
  PROVE  IsSuffix(s, t)
<1>1. /\ Reverse(s) \in Seq(S) /\ Len(Reverse(s)) = Len(s)
      /\ Reverse(t) \in Seq(S) /\ Len(Reverse(t)) = Len(t)
  BY DEF Reverse
<1>2. ASSUME NEW i \in 1..Len(s) PROVE Reverse(s)[i] = Reverse(t)[i]
  <2>1. /\ i \in 1..Len(t) /\ (Len(s) - i) + 1 \in 1..Len(s)
        /\ Len(t) - Len(s) + ((Len(s) - i) + 1) = (Len(t) - i) + 1
    OBVIOUS
  <2> QED BY <2>1 DEF Reverse
<1>3. IsPrefix(Reverse(s), Reverse(t))
  BY <1>1, <1>2, PrefixMeans
<1> QED BY <1>3 DEF IsSuffix

\* A part of a sequence.
LEMMA PartMeans ==
  ASSUME NEW T, NEW m \in Seq(T), NEW a \in 1..(Len(m) + 1), NEW b \in (a - 1)..Len(m)
  PROVE  /\ SubSeq(m, a, b) \in Seq(T) /\ Len(SubSeq(m, a, b)) = b - a + 1
         /\ \A i \in 1..(b - a + 1) : SubSeq(m, a, b)[i] = m[a + i - 1]
<1>1. Len(m) \in Nat /\ \A i \in 1..Len(m) : m[i] \in T
  OBVIOUS
<1>2. a \in Int /\ b \in Int /\ (\A i \in a..b : m[i] \in T)
  BY <1>1
<1>3. SubSeq(m, a, b) \in Seq(T)
  BY <1>2, SubSeqProperties
<1>4. Len(SubSeq(m, a, b)) = IF a <= b THEN b - a + 1 ELSE 0
  BY <1>2, SubSeqProperties
<1>5. \A i \in 1..(b - a + 1) : SubSeq(m, a, b)[i] = m[a + i - 1]
  BY <1>2, SubSeqProperties
<1>6. a <= b \/ b - a + 1 = 0
  BY <1>1
<1>7. Len(SubSeq(m, a, b)) = b - a + 1
  BY <1>4, <1>6
<1> QED BY <1>3, <1>5, <1>7

LEMMA EndMeans ==
  ASSUME NEW T, NEW m \in Seq(T), NEW k \in 1..(Len(m) + 1)
  PROVE  /\ SubSeq(m, k, Len(m)) \in Seq(T) /\ Len(SubSeq(m, k, Len(m))) = Len(m) - k + 1
         /\ \A i \in 1..(Len(m) - k + 1) : SubSeq(m, k, Len(m))[i] = m[k + i - 1]
<1>1. k \in 1..(Len(m) + 1) /\ Len(m) \in (k - 1)..Len(m)
  OBVIOUS
<1> QED BY <1>1, PartMeans

\* A part of a whole is cut out and one message is put there: what stands before
\* and after it is as it was.
LEMMA PiecesOfWhole ==
  ASSUME NEW T, NEW m \in Seq(T), NEW e \in T,
         NEW from \in 0..Len(m), NEW to \in from..Len(m), NEW out,
         out = SubSeq(m, 1, from) \o <<e>> \o SubSeq(m, to + 1, Len(m))
  PROVE  /\ Len(out) = from + 1 + (Len(m) - to)
         /\ IsPrefix(SubSeq(m, 1, from), out)
         /\ \A k \in (to + 1)..Len(m) : IsSuffix(SubSeq(m, k, Len(m)), out)
<1> DEFINE before == SubSeq(m, 1, from)
           after == SubSeq(m, to + 1, Len(m))
           put == before \o <<e>>
<1>1. PICK L \in Nat : L = Len(m) /\ from \in 0..L /\ to \in from..L
  OBVIOUS
<1>2. before \in Seq(T) /\ Len(before) = from /\ \A i \in 1..from : before[i] = m[i]
  <2>1. 1 \in 1..(L + 1) /\ from \in (1 - 1)..L /\ from - 1 + 1 = from /\ \A i \in 1..from : 1 + i - 1 = i
    BY <1>1
  <2>2. /\ before \in Seq(T) /\ Len(before) = from - 1 + 1
        /\ \A i \in 1..(from - 1 + 1) : before[i] = m[1 + i - 1]
    BY <1>1, <2>1, PartMeans
  <2> QED BY <2>1, <2>2
<1>3. after \in Seq(T) /\ Len(after) = L - to /\ \A i \in 1..(L - to) : after[i] = m[to + i]
  <2>1. /\ to + 1 \in 1..(L + 1) /\ L - (to + 1) + 1 = L - to
        /\ \A i \in 1..(L - to) : (to + 1) + i - 1 = to + i
    BY <1>1
  <2>2. /\ after \in Seq(T) /\ Len(after) = L - (to + 1) + 1
        /\ \A i \in 1..(L - (to + 1) + 1) : after[i] = m[(to + 1) + i - 1]
    BY <1>1, <2>1, EndMeans
  <2> QED BY <2>1, <2>2
<1>4. out = put \o after
  BY Zenon
<1> HIDE DEF before, after
<1>5. put \in Seq(T) /\ Len(put) = from + 1 /\ \A i \in 1..from : put[i] = before[i]
  <2>1. <<e>> \in Seq(T) /\ Len(<<e>>) = 1
    OBVIOUS
  <2>2. /\ put \in Seq(T) /\ Len(put) = Len(before) + Len(<<e>>)
        /\ \A i \in 1..(Len(before) + Len(<<e>>)) : put[i] =
             IF i <= Len(before) THEN before[i] ELSE <<e>>[i - Len(before)]
    BY <1>2, <2>1, ConcatProperties
  <2> HIDE DEF put
  <2>3. Len(put) = from + 1
    BY <1>2, <2>1, <2>2
  <2>4. ASSUME NEW i \in 1..from PROVE put[i] = before[i]
    <3>1. i \in 1..(Len(before) + Len(<<e>>)) /\ i <= Len(before)
      BY <1>1, <1>2, <2>1
    <3> QED BY <2>2, <3>1
  <2> QED BY <2>2, <2>3, <2>4
<1> HIDE DEF put
<1>6. /\ out \in Seq(T) /\ Len(out) = Len(put) + Len(after)
      /\ \A i \in 1..(Len(put) + Len(after)) : out[i] =
           IF i <= Len(put) THEN put[i] ELSE after[i - Len(put)]
  <2>1. put \in Seq(T) /\ after \in Seq(T)
    BY <1>3, <1>5
  <2>2. /\ put \o after \in Seq(T) /\ Len(put \o after) = Len(put) + Len(after)
        /\ \A i \in 1..(Len(put) + Len(after)) : (put \o after)[i] =
             IF i <= Len(put) THEN put[i] ELSE after[i - Len(put)]
    BY <2>1, ConcatProperties
  <2> QED BY <1>4, <2>2, Zenon
<1>7. Len(out) = from + 1 + (L - to)
  BY <1>1, <1>3, <1>5, <1>6
<1>8. ASSUME NEW i \in 1..from PROVE out[i] = before[i]
  <2>1. i \in 1..((from + 1) + (L - to)) /\ i <= from + 1
    BY <1>1
  <2>2. i \in 1..(Len(put) + Len(after)) /\ i <= Len(put)
    BY <1>3, <1>5, <2>1
  <2> QED BY <1>5, <1>6, <2>2
<1>9. ASSUME NEW i \in 1..(L - to) PROVE out[from + 1 + i] = after[i]
  <2>1. /\ from + 1 + i \in 1..((from + 1) + (L - to)) /\ ~(from + 1 + i <= from + 1)
        /\ (from + 1 + i) - (from + 1) = i
    BY <1>1
  <2>2. /\ from + 1 + i \in 1..(Len(put) + Len(after)) /\ ~(from + 1 + i <= Len(put))
        /\ (from + 1 + i) - Len(put) = i
    BY <1>3, <1>5, <2>1
  <2> QED BY <1>6, <2>2
<1>10. IsPrefix(before, out)
  <2>1. from <= from + 1 + (L - to)
    BY <1>1
  <2>2. Len(before) <= Len(out)
    BY <1>2, <1>7, <2>1
  <2> QED BY <1>2, <1>6, <1>8, <2>2, PrefixMeans
<1>11. ASSUME NEW k \in (to + 1)..L PROVE IsSuffix(SubSeq(m, k, L), out)
  <2> DEFINE tail == SubSeq(m, k, L)
  <2>1. tail \in Seq(T) /\ Len(tail) = L - k + 1 /\ \A i \in 1..(L - k + 1) : tail[i] = m[k + i - 1]
    <3>1. k \in 1..(Len(m) + 1)
      BY <1>1
    <3> QED BY <1>1, <3>1, EndMeans
  <2> HIDE DEF tail
  <2>2. ASSUME NEW i \in 1..(L - k + 1) PROVE tail[i] = out[Len(out) - Len(tail) + i]
    <3>1. /\ k - to - 1 + i \in 1..(L - to)
          /\ to + (k - to - 1 + i) = k + i - 1
          /\ from + 1 + (L - to) - (L - k + 1) + i = from + 1 + (k - to - 1 + i)
      BY <1>1
    <3>2. tail[i] = m[to + (k - to - 1 + i)]
      BY <2>1, <3>1
    <3>3. after[k - to - 1 + i] = m[to + (k - to - 1 + i)]
      BY <1>3, <3>1
    <3>4. out[from + 1 + (k - to - 1 + i)] = after[k - to - 1 + i]
      BY <1>9, <3>1
    <3>5. Len(out) - Len(tail) + i = from + 1 + (k - to - 1 + i)
      <4>1. Len(out) = from + 1 + (L - to) /\ Len(tail) = L - k + 1
        BY <1>7, <2>1
      <4>2. \A x, y : x = from + 1 + (L - to) /\ y = L - k + 1 =>
                         x - y + i = from + 1 + (k - to - 1 + i)
        BY <1>1
      <4> QED BY <4>1, <4>2, Zenon
    <3> QED BY <3>2, <3>3, <3>4, <3>5
  <2>3. L - k + 1 <= from + 1 + (L - to)
    BY <1>1
  <2>4. Len(tail) <= Len(out) /\ \A i \in 1..Len(tail) : tail[i] = out[Len(out) - Len(tail) + i]
    BY <1>7, <2>1, <2>2, <2>3
  <2>5. IsSuffix(tail, out)
    BY <1>6, <2>1, <2>4, SuffixMeans
  <2> QED BY <2>5 DEF tail
<1> QED BY <1>1, <1>7, <1>10, <1>11 DEF before

\* Where the system prefix ends, and where the last user message stands.
LEMMA PlacesOfRoles ==
  ASSUME NEW S, NEW m \in Seq(S)
  PROVE  LET users == {i \in DOMAIN m : m[i].role = "user"}
         IN /\ SystemPrefix(m) \in 0..Len(m)
            /\ users # {} => Greatest(users) \in 1..Len(m)
<1> DEFINE users == {i \in DOMAIN m : m[i].role = "user"}
           talk == {i \in DOMAIN m : m[i].role # "system"}
<1>1. Len(m) \in Nat /\ DOMAIN m = 1..Len(m)
  OBVIOUS
<1>2. users \in SUBSET (1..Len(m)) /\ talk \in SUBSET (1..Len(m))
  BY <1>1
<1>3. SystemPrefix(m) = IF talk = {} THEN Len(m) ELSE Min(talk) - 1
  BY DEF SystemPrefix
<1> HIDE DEF users, talk
<1>4. users # {} => Greatest(users) \in 1..Len(m)
  BY <1>1, <1>2, GreatestIsThere
<1>5. talk # {} => Min(talk) \in talk
  <2>1. talk \in SUBSET Nat
    BY <1>1, <1>2
  <2> QED BY <2>1, LeastIsThere
<1>6. SystemPrefix(m) \in 0..Len(m)
  <2>1. CASE talk = {}
    BY <1>1, <1>3, <2>1
  <2>2. CASE talk # {}
    <3>1. Min(talk) \in 1..Len(m) /\ SystemPrefix(m) = Min(talk) - 1
      BY <1>2, <1>3, <1>5, <2>2
    <3> QED BY <1>1, <3>1
  <2> QED BY <2>1, <2>2
<1> QED BY <1>4, <1>6 DEF users

LEMMA GreaterOfTwo ==
  ASSUME NEW x \in Nat, NEW y \in Nat PROVE Max({x, y}) = IF x >= y THEN x ELSE y
<1>1. CASE x >= y
  <2>1. \A z \in {x, y} : (\A w \in {x, y} : z >= w) <=> z = x
    BY <1>1
  <2> QED BY <1>1, <2>1 DEF Max
<1>2. CASE ~(x >= y)
  <2>1. \A z \in {x, y} : (\A w \in {x, y} : z >= w) <=> z = y
    BY <1>2
  <2> QED BY <1>2, <2>1 DEF Max
<1> QED BY <1>1, <1>2

\* Where an attempt cuts: behind the system prefix, and before the last user
\* message and the messages it preserves.
LEMMA CutIsRight ==
  ASSUME NEW S, NEW m \in Seq(S), NEW preserve \in Nat, NEW size, TryCompact(m, preserve, size) # None
  PROVE  LET result == TryCompact(m, preserve, size)
             from   == SystemPrefix(m)
             to     == TailStart(m, preserve)
             users  == {i \in DOMAIN m : m[i].role = "user"}
         IN /\ from \in 0..Len(m) /\ to \in from..Len(m) /\ from < to
            /\ users # {} => Greatest(users) \in (to + 1)..Len(m)
            /\ preserve > 0 => to < Len(m)
            /\ result.removed = to - from
            /\ result.messages = SubSeq(m, 1, from)
                 \o <<SummaryMessage(SubSeq(m, from + 1, to), size)>> \o SubSeq(m, to + 1, Len(m))
<1> DEFINE from == SystemPrefix(m)
           to == TailStart(m, preserve)
           users == {i \in DOMAIN m : m[i].role = "user"}
           byCount == IF Len(m) <= preserve THEN 0 ELSE Len(m) - preserve
           start == IF users # {} /\ Greatest(users) <= byCount THEN Greatest(users) - 1 ELSE byCount
<1>1. Len(m) \in Nat /\ DOMAIN m = 1..Len(m)
  OBVIOUS
<1>3. users # {} => Greatest(users) \in 1..Len(m)
  BY PlacesOfRoles
<1>4. from \in 0..Len(m)
  BY PlacesOfRoles
<1>5. start \in 0..Len(m) /\ (users # {} => start < Greatest(users)) /\ (preserve > 0 /\ Len(m) > 0 => start < Len(m))
  <2> HIDE DEF users
  <2>1. byCount \in 0..Len(m) /\ (preserve > 0 /\ Len(m) > 0 => byCount < Len(m))
    BY <1>1
  <2> HIDE DEF byCount
  <2> QED BY <1>1, <1>3, <2>1
<1>6. to = IF start >= from THEN start ELSE from
  <2>1. to = Max({start, from})
    BY DEF TailStart
  <2> HIDE DEF users, byCount, start, from, to
  <2>2. start \in Nat /\ from \in Nat
    BY <1>4, <1>5
  <2> QED BY <2>1, <2>2, GreaterOfTwo
<1>7. /\ ~(Len(m) - from <= preserve \/ to = from)
      /\ TryCompact(m, preserve, size) =
           [removed |-> to - from,
            messages |-> SubSeq(m, 1, from) \o <<SummaryMessage(SubSeq(m, from + 1, to), size)>>
                           \o SubSeq(m, to + 1, Len(m))]
  BY DEF TryCompact
<1> HIDE DEF users, byCount, start, from, to
<1>8. from < to /\ to = start /\ to \in from..Len(m) /\ Len(m) > 0
  BY <1>1, <1>4, <1>5, <1>6, <1>7
<1>9. /\ users # {} => Greatest(users) \in (to + 1)..Len(m)
      /\ preserve > 0 => to < Len(m)
  BY <1>1, <1>3, <1>5, <1>8
<1>10. /\ TryCompact(m, preserve, size).removed = to - from
       /\ TryCompact(m, preserve, size).messages =
            SubSeq(m, 1, from) \o <<SummaryMessage(SubSeq(m, from + 1, to), size)>>
              \o SubSeq(m, to + 1, Len(m))
  <2>1. PICK out : out = SubSeq(m, 1, from) \o <<SummaryMessage(SubSeq(m, from + 1, to), size)>>
                           \o SubSeq(m, to + 1, Len(m))
    OBVIOUS
  <2>2. TryCompact(m, preserve, size) = [removed |-> to - from, messages |-> out]
    BY <1>7, <2>1, Zenon
  <2>3. /\ TryCompact(m, preserve, size).removed = to - from
        /\ TryCompact(m, preserve, size).messages = out
    BY <2>2
  <2> QED BY <2>1, <2>3, Zenon
<1> QED BY <1>4, <1>8, <1>9, <1>10, Zenon DEF users, from, to

\* What a result of compaction keeps: what CompactKeeps says of the code's.
LEMMA AttemptKeeps ==
  ASSUME NEW S, NEW m \in Seq(S), NEW preserve \in Nat, NEW size, TryCompact(m, preserve, size) # None
  PROVE  LET result == TryCompact(m, preserve, size)
             users  == {i \in DOMAIN m : m[i].role = "user"}
         IN /\ IsPrefix(SubSeq(m, 1, SystemPrefix(m)), result.messages)
            /\ users # {} => IsSuffix(SubSeq(m, Greatest(users), Len(m)), result.messages)
            /\ preserve > 0 /\ m # <<>> => IsSuffix(SubSeq(m, Len(m), Len(m)), result.messages)
            /\ result.removed # 0 /\ Len(result.messages) = Len(m) - result.removed + 1
<1> DEFINE from == SystemPrefix(m)
           to == TailStart(m, preserve)
           users == {i \in DOMAIN m : m[i].role = "user"}
           out == TryCompact(m, preserve, size).messages
           e == SummaryMessage(SubSeq(m, from + 1, to), size)
<1>1. /\ from \in 0..Len(m) /\ to \in from..Len(m) /\ from < to
      /\ users # {} => Greatest(users) \in (to + 1)..Len(m)
      /\ preserve > 0 => to < Len(m)
      /\ TryCompact(m, preserve, size).removed = to - from
      /\ out = SubSeq(m, 1, from) \o <<e>> \o SubSeq(m, to + 1, Len(m))
  BY CutIsRight, Zenon
<1> HIDE DEF from, to, users, out, e
<1>2. PICK T : T = S \cup {e}
  OBVIOUS
<1>3. m \in Seq(T) /\ e \in T
  BY <1>2, SeqMonotonic
<1>4. /\ Len(out) = from + 1 + (Len(m) - to)
      /\ IsPrefix(SubSeq(m, 1, from), out)
      /\ \A k \in (to + 1)..Len(m) : IsSuffix(SubSeq(m, k, Len(m)), out)
  BY <1>1, <1>3, PiecesOfWhole
<1>5. preserve > 0 => Len(m) \in (to + 1)..Len(m)
  BY <1>1
<1>6. to - from # 0 /\ Len(out) = Len(m) - (to - from) + 1
  <2>1. PICK L \in Nat : L = Len(m) /\ from \in 0..L /\ to \in from..L /\ from < to
    BY <1>1
  <2>2. to - from # 0 /\ from + 1 + (L - to) = L - (to - from) + 1
    BY <2>1
  <2> QED BY <1>4, <2>1, <2>2
<1> QED BY <1>1, <1>4, <1>5, <1>6, Zenon DEF from, users, out

\* A conversation that need not be compacted keeps all of itself.
LEMMA WholeKeeps ==
  ASSUME NEW S, NEW m \in Seq(S)
  PROVE  /\ \A k \in 0..Len(m) : IsPrefix(SubSeq(m, 1, k), m)
         /\ \A k \in 1..Len(m) : IsSuffix(SubSeq(m, k, Len(m)), m)
<1>1. ASSUME NEW k \in 0..Len(m) PROVE IsPrefix(SubSeq(m, 1, k), m)
  <2>1. /\ SubSeq(m, 1, k) \in Seq(S) /\ Len(SubSeq(m, 1, k)) = k
        /\ \A i \in 1..k : SubSeq(m, 1, k)[i] = m[i]
    OBVIOUS
  <2>2. k <= Len(m)
    OBVIOUS
  <2> QED BY <2>1, <2>2, PrefixMeans
<1>2. ASSUME NEW k \in 1..Len(m) PROVE IsSuffix(SubSeq(m, k, Len(m)), m)
  <2> DEFINE tail == SubSeq(m, k, Len(m))
  <2>1. PICK L \in Nat : L = Len(m) /\ k \in 1..L /\ k \in 1..(L + 1)
    OBVIOUS
  <2>2. tail \in Seq(S) /\ Len(tail) = L - k + 1 /\ \A i \in 1..(L - k + 1) : tail[i] = m[k + i - 1]
    BY <2>1, EndMeans
  <2> HIDE DEF tail
  <2>3. L - k + 1 <= L /\ \A i \in 1..(L - k + 1) : L - (L - k + 1) + i = k + i - 1
    BY <2>1
  <2>4. Len(tail) <= Len(m) /\ \A i \in 1..Len(tail) : tail[i] = m[Len(m) - Len(tail) + i]
    BY <2>1, <2>2, <2>3
  <2>5. IsSuffix(tail, m)
    BY <2>2, <2>4, SuffixMeans
  <2> QED BY <2>5 DEF tail
<1> QED BY <1>1, <1>2

\* The attempts end, and the result is the one of the last of them.
LEMMA CompactIsAnAttempt ==
  ASSUME NEW m, NEW c, c.maxRetries \in Nat, NEW size, m # <<>>, ~Fits(m, c)
  PROVE  \E n \in 0..c.maxRetries : Compact(m, c, size) = TryCompact(m, Preserved(c)[n], size)
<1> DEFINE over(n) == \/ TryCompact(m, Preserved(c)[n], size) = None
                      \/ ~Fits(TryCompact(m, Preserved(c)[n], size).messages, c)
           ends == {n \in 0..c.maxRetries : ~over(n) \/ n = c.maxRetries \/ Preserved(c)[n] <= 1}
<1>1. Compact(m, c, size) = TryCompact(m, Preserved(c)[Min(ends)], size)
  BY DEF Compact
<1>2. c.maxRetries \in ends
  OBVIOUS
<1>3. ends \in SUBSET Nat /\ ends \subseteq 0..c.maxRetries
  OBVIOUS
<1> HIDE DEF ends
<1>4. Min(ends) \in ends
  BY <1>2, <1>3, LeastIsThere
<1> QED BY <1>1, <1>3, <1>4

\* Whatever the conversation, its compaction keeps what it must.
LEMMA CompactionKeeps ==
  ASSUME NEW S, NEW m \in Seq(S), NEW c, c.maxRetries \in Nat, c.preserveRecent \in Nat, NEW size
  PROVE  CompactKeeps(m, c, size)
<1> DEFINE result == Compact(m, c, size)
           users == {i \in DOMAIN m : m[i].role = "user"}
           Kept == /\ IsPrefix(SubSeq(m, 1, SystemPrefix(m)), result.messages)
                   /\ users # {} => IsSuffix(SubSeq(m, Greatest(users), Len(m)), result.messages)
                   /\ c.preserveRecent > 0 /\ m # <<>> =>
                        IsSuffix(SubSeq(m, Len(m), Len(m)), result.messages)
                   /\ Len(result.messages) = Len(m) - result.removed
                                               + (IF result.removed = 0 THEN 0 ELSE 1)
<1>1. m # <<>> => <<m[Len(m)]>> = SubSeq(m, Len(m), Len(m))
  <2> SUFFICES ASSUME m # <<>> PROVE <<m[Len(m)]>> = SubSeq(m, Len(m), Len(m))
    OBVIOUS
  <2>1. Len(m) \in 1..Len(m) /\ m[Len(m)] \in S
    OBVIOUS
  <2> QED BY <2>1
<1>2. SUFFICES ASSUME result # None PROVE Kept
  BY <1>1 DEF CompactKeeps
<1>3. CASE m = <<>> \/ Fits(m, c)
  <2>1. result = [removed |-> 0, messages |-> m]
    BY <1>3 DEF Compact
  <2>2. result.removed = 0 /\ result.messages = m
    BY <2>1
  <2> HIDE DEF result
  <2>3. SystemPrefix(m) \in 0..Len(m) /\ (users # {} => Greatest(users) \in 1..Len(m))
    BY PlacesOfRoles
  <2>4. m # <<>> => Len(m) \in 1..Len(m)
    OBVIOUS
  <2>5. Len(m) = Len(m) - 0 + 0
    OBVIOUS
  <2> HIDE DEF users
  <2> QED BY <2>2, <2>3, <2>4, <2>5, WholeKeeps
<1>4. CASE m # <<>> /\ ~Fits(m, c)
  <2>1. PICK n \in 0..c.maxRetries : result = TryCompact(m, Preserved(c)[n], size)
    BY <1>4, CompactIsAnAttempt
  <2>2. Preserved(c)[n] \in Nat /\ (c.preserveRecent > 0 => Preserved(c)[n] > 0)
    BY PreservedIsANumber
  <2>3. /\ IsPrefix(SubSeq(m, 1, SystemPrefix(m)), result.messages)
        /\ users # {} => IsSuffix(SubSeq(m, Greatest(users), Len(m)), result.messages)
        /\ Preserved(c)[n] > 0 /\ m # <<>> => IsSuffix(SubSeq(m, Len(m), Len(m)), result.messages)
        /\ result.removed # 0 /\ Len(result.messages) = Len(m) - result.removed + 1
    <3> HIDE DEF result
    <3>1. TryCompact(m, Preserved(c)[n], size) # None
      BY <1>2, <2>1
    <3> QED BY <2>1, <2>2, <3>1, AttemptKeeps, Zenon
  <2> QED BY <2>2, <2>3, Zenon
<1> QED BY <1>3, <1>4

\* A call keeps its first argument, and the settings it chooses are of the code.
LEMMA CompactionCalls ==
  CompactionSpec =>
    [](Called("compact") => one \in Histories /\ \E c \in CompactConfigs : others = <<c>>)
<1> DEFINE Inv == /\ function = "compact" /\ one \in Histories
                  /\ others = <<>> \/ \E c \in CompactConfigs : others = <<c>>
<1>1. others = <<>> /\ CompactionFirst => Inv
  BY DEF CompactionFirst
<1>2. Inv /\ [others = <<>> /\ CompactionRest /\ UNCHANGED <<function, one>>]_callVars => Inv'
  BY DEF CompactionRest, callVars
<1>3. Inv => (Called("compact") => one \in Histories /\ \E c \in CompactConfigs : others = <<c>>)
  BY DEF Called
<1> HIDE DEF Inv
<1> QED BY <1>1, <1>2, <1>3, PTL DEF CompactionSpec

\* Every compaction keeps the beginning and the recent part of the conversation
\* and says how much it removed (compact).
THEOREM CompactionAlwaysKept == CompactionSpec => []CompactionKept
<1>1. (Called("compact") => one \in Histories /\ \E c \in CompactConfigs : others = <<c>>)
        => CompactionKept
  <2> SUFFICES ASSUME Called("compact"), one \in Histories, NEW c \in CompactConfigs, others = <<c>>
               PROVE  CompactKeeps(one, others[1], SummarySize)
    BY DEF CompactionKept
  <2>1. one \in Seq(ChatMessages) /\ c.maxRetries \in Nat /\ c.preserveRecent \in Nat /\ others[1] = c
    BY HistoryAssumption
  <2> QED BY <2>1, CompactionKeeps
<1> QED BY <1>1, CompactionCalls, PTL
=============================================================================

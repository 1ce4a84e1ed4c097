------------------------------ MODULE Subagents ------------------------------
(***************************************************************************)
(* Spawning, registering and cleaning up subagents (claw-agent-runtime).   *)
(* A key is the sequence of child indices from a root session, as          *)
(* "{parent}:sub:{index}" makes it; entries and counters have a lock each, *)
(* which spawn and cleanup_orphans take one after the other.               *)
(***************************************************************************)
EXTENDS Naturals, Sequences, FiniteSets, SequencesExt, Functions

CONSTANTS
  Spawners,       \* concurrent calls of spawn
  Cleaners,       \* concurrent calls of cleanup_orphans
  MaxDepth,       \* max_depth
  AnnounceBuffer, \* announce_buffer
  MaxIndex        \* bound: children of one parent

ASSUME SubagentAssumption ==
  MaxDepth \in Nat /\ AnnounceBuffer \in Nat \ {0} /\ MaxIndex \in Nat

Root == << >>
Depth(key) == Len(key)
IsKey(key) == key \in Seq(Nat) /\ Depth(key) <= MaxDepth
Descends(key, ancestor) == IsStrictPrefix(ancestor, key)

VARIABLES
  registered, \* entries: key -> state; an entry's parent is Front(key)
  counters,   \* child_counters, for parents that have one
  spawnPc, spawnKey,   \* each spawn, and the key it was given
  cleanPc, cleanOf, collected, \* each cleanup, its parent and keys_to_remove
  announced,  \* the announce channel
  removed,    \* history: keys taken out of the registry
  swept       \* history: parents some cleanup has begun with

subagentVars == <<registered, counters, spawnPc, spawnKey, cleanPc, cleanOf, collected,
                  announced, removed, swept>>
registryVars == <<registered, counters>>
cleanVars == <<cleanPc, cleanOf, collected, swept>>
spawnVars == <<spawnPc, spawnKey>>

SubagentInit ==
  /\ registered = << >> /\ counters = << >>
  /\ spawnPc = [s \in Spawners |-> "idle"] /\ spawnKey = [s \in Spawners |-> Root]
  /\ cleanPc = [c \in Cleaners |-> "idle"] /\ cleanOf = [c \in Cleaners |-> Root]
  /\ collected = [c \in Cleaners |-> {}]
  /\ announced = << >> /\ removed = {} /\ swept = {}

NextIndex(parent) == IF parent \in DOMAIN counters THEN counters[parent] ELSE 0

\* A map's insert.
MapInsert(map, key, value) ==
  [k \in DOMAIN map \cup {key} |-> IF k = key THEN value ELSE map[k]]

\* Mutant: the index is the number of children there are.
NextChildKeyByCount(s, parent) ==
  LET n == Cardinality({k \in DOMAIN registered : Front(k) = parent}) IN
  /\ spawnPc[s] = "idle" /\ n < MaxIndex /\ Depth(parent) + 1 <= MaxDepth
  /\ counters' = MapInsert(counters, parent, n + 1)
  /\ spawnPc' = [spawnPc EXCEPT ![s] = "keyed"]
  /\ spawnKey' = [spawnKey EXCEPT ![s] = Append(parent, n)]
  /\ UNCHANGED <<registered, cleanVars, announced, removed>>

\* spawn: the depth is checked, and a key is allocated under the counters' lock.
NextChildKey(s, parent) ==
  /\ spawnPc[s] = "idle" /\ NextIndex(parent) < MaxIndex
  /\ Depth(parent) + 1 <= MaxDepth
  /\ counters' = MapInsert(counters, parent, NextIndex(parent) + 1)
  /\ spawnPc' = [spawnPc EXCEPT ![s] = "keyed"]
  /\ spawnKey' = [spawnKey EXCEPT ![s] = Append(parent, NextIndex(parent))]
  /\ UNCHANGED <<registered, cleanVars, announced, removed>>

DepthLimitExceeded(s, parent) ==
  /\ spawnPc[s] = "idle" /\ Depth(parent) + 1 > MaxDepth
  /\ spawnPc' = [spawnPc EXCEPT ![s] = "refused"]
  /\ UNCHANGED <<registryVars, spawnKey, cleanVars, announced, removed>>

\* Under the entries' lock; an entry of the same key is overwritten.
RegisterChild(s) ==
  /\ spawnPc[s] = "keyed"
  /\ registered' = MapInsert(registered, spawnKey[s], "running")
  /\ spawnPc' = [spawnPc EXCEPT ![s] = "spawned"]
  /\ UNCHANGED <<counters, spawnKey, cleanVars, announced, removed>>

\* The child announces its result, waiting for room in the channel; nothing
\* updates its entry but set_state, which the registry's user calls.
Announce(s, result) ==
  /\ spawnPc[s] = "spawned" /\ Len(announced) < AnnounceBuffer
  /\ announced' = Append(announced, [child |-> spawnKey[s], result |-> result])
  /\ spawnPc' = [spawnPc EXCEPT ![s] = "announced"]
  /\ UNCHANGED <<registryVars, spawnKey, cleanVars, removed>>

AnnounceRecv ==
  /\ announced # << >>
  /\ announced' = Tail(announced)
  /\ UNCHANGED <<registryVars, spawnVars, cleanVars, removed>>

SetState(key, state) ==
  /\ key \in DOMAIN registered /\ registered[key] # state
  /\ registered' = [registered EXCEPT ![key] = state]
  /\ UNCHANGED <<counters, spawnVars, cleanVars, announced, removed>>

RemoveEntry(key) ==
  /\ key \in DOMAIN registered
  /\ registered' = Restrict(registered, DOMAIN registered \ {key})
  /\ removed' = removed \cup {key}
  /\ UNCHANGED <<counters, spawnVars, cleanVars, announced>>

\* Mutant: only the direct children.
ChildrenReach(parent) == {k \in DOMAIN registered : Front(k) = parent}

\* collect_descendants: from the parent through entries that are there, so that
\* a missing entry hides the ones below it.
CollectDescendants(parent) ==
  {k \in DOMAIN registered :
     /\ Descends(k, parent)
     /\ \A n \in Len(parent) + 1 .. Len(k) - 1 : SubSeq(k, 1, n) \in DOMAIN registered}

Collect(c, parent) ==
  /\ cleanPc[c] = "idle"
  /\ cleanOf' = [cleanOf EXCEPT ![c] = parent]
  /\ collected' = [collected EXCEPT ![c] = CollectDescendants(parent)]
  /\ cleanPc' = [cleanPc EXCEPT ![c] = IF CollectDescendants(parent) = {} THEN "done" ELSE "collected"]
  /\ swept' = swept \cup {parent}
  /\ UNCHANGED <<registryVars, spawnVars, announced, removed>>

\* The keys collected, and the counters of the parent and of them, under both locks.
CleanUp(c) ==
  /\ cleanPc[c] = "collected"
  /\ registered' = Restrict(registered, DOMAIN registered \ collected[c])
  /\ counters' = Restrict(counters, DOMAIN counters \ ({cleanOf[c]} \cup collected[c]))
  /\ cleanPc' = [cleanPc EXCEPT ![c] = "done"]
  /\ removed' = removed \cup collected[c]
  /\ UNCHANGED <<spawnVars, cleanOf, collected, swept, announced>>

SubagentNext ==
  \/ \E s \in Spawners :
       \/ \E p \in DOMAIN registered \cup {Root} : NextChildKey(s, p) \/ DepthLimitExceeded(s, p)
       \/ RegisterChild(s) \/ \E r \in {"completed", "failed"} : Announce(s, r)
  \/ AnnounceRecv
  \/ \E k \in DOMAIN registered : RemoveEntry(k) \/ SetState(k, "completed")
  \/ \E c \in Cleaners : CleanUp(c) \/ \E p \in DOMAIN registered \cup {Root} : Collect(c, p)

SubagentSpec == SubagentInit /\ [][SubagentNext]_subagentVars

-----------------------------------------------------------------------------

SubagentTypeOK ==
  /\ \A k \in DOMAIN registered : IsKey(k) /\ registered[k] \in {"running", "completed", "failed"}
  /\ \A k \in DOMAIN counters : IsKey(k) /\ counters[k] \in 0..MaxIndex
  /\ spawnPc \in [Spawners -> {"idle", "keyed", "refused", "spawned", "announced"}]
  /\ spawnKey \in [Spawners -> Seq(Nat)] /\ \A s \in Spawners : IsKey(spawnKey[s])
  /\ cleanPc \in [Cleaners -> {"idle", "collected", "done"}]
  /\ cleanOf \in [Cleaners -> Seq(Nat)] /\ collected \in [Cleaners -> SUBSET Seq(Nat)]
  /\ removed \subseteq Seq(Nat) /\ swept \subseteq Seq(Nat)

\* Two subagents never share a key, whatever was removed meanwhile, as long as
\* no cleanup took back the counter of a parent that spawns again.
KeysAreNotShared ==
  swept = {} =>
    \A s, t \in Spawners :
      s # t /\ spawnKey[s] # Root => spawnKey[s] # spawnKey[t]

\* "Remove all children (and their descendants)": once a cleanup has ended,
\* whoever is left below its parent was registered after the cleanup looked, or
\* hung below an entry that somebody had taken out before.
CollectsAll ==
  \A c \in Cleaners :
    cleanPc[c] = "idle" /\ cleanPc'[c] # "idle" =>
      \A k \in DOMAIN registered :
        Descends(k, cleanOf'[c]) /\ k \notin collected'[c] => \E r \in removed : Descends(k, r)
CleanupReachesAll == [][CollectsAll]_subagentVars
=============================================================================

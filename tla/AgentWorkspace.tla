---------------------------- MODULE AgentWorkspace ----------------------------
(***************************************************************************)
(* claw-agent-workspace: the cache of an agent's workspace, here of one of *)
(* its files.  A read that misses the cache reads the disk with no lock    *)
(* held and stores what it found afterwards; reloads of the file and of    *)
(* everything come in between.  All clones share one cache.                *)
(***************************************************************************)
EXTENDS Options, Naturals, FiniteSets

CONSTANTS
  Readers,   \* calls of read_workspace_file and reload_file
  MaxWrites  \* bound: how often somebody writes the file

ASSUME WorkspaceAssumption == None \notin Nat /\ MaxWrites \in Nat

VARIABLES
  onDisk,    \* what is written: the content's number, 0 while there is no file
  cached,    \* its entry in AgentWorkspace::cache, or None
  readPc,    \* where each call stands
  held,      \* the content it read
  reloads,   \* the calls that are of reload_file
  floor,     \* history: the least content a later call may return
  promised   \* history: what floor was when the call began

workspaceVars == <<onDisk, cached, readPc, held, reloads, floor, promised>>

WorkspaceInit ==
  /\ onDisk = 0 /\ cached = None /\ reloads = {} /\ floor = 0
  /\ readPc = [r \in Readers |-> "idle"]
  /\ held = [r \in Readers |-> 0] /\ promised = [r \in Readers |-> 0]

\* Who has read the disk and will store what it read.
Storing == {r \in Readers : readPc[r] = "store"}

WriteFile ==
  /\ onDisk < MaxWrites /\ onDisk' = onDisk + 1
  /\ UNCHANGED <<cached, readPc, held, reloads, floor, promised>>

\* The cache is looked at under the read lock, which is then given back.
ReadWorkspaceFile(r) ==
  /\ readPc[r] = "idle" /\ promised' = [promised EXCEPT ![r] = floor]
  /\ IF cached # None
     THEN /\ held' = [held EXCEPT ![r] = cached]
          /\ readPc' = [readPc EXCEPT ![r] = "returned"]
     ELSE readPc' = [readPc EXCEPT ![r] = "load"] /\ UNCHANGED held
  /\ UNCHANGED <<onDisk, cached, reloads, floor>>

ReloadFile(r) ==
  /\ readPc[r] = "idle" /\ promised' = [promised EXCEPT ![r] = floor]
  /\ readPc' = [readPc EXCEPT ![r] = "load"] /\ reloads' = reloads \cup {r}
  /\ UNCHANGED <<onDisk, cached, held, floor>>

\* A file that cannot be read is taken for a missing one, and is empty.
LoadFile(r) ==
  /\ readPc[r] = "load" /\ readPc' = [readPc EXCEPT ![r] = "store"]
  /\ \E content \in {onDisk, 0} : held' = [held EXCEPT ![r] = content]
  /\ UNCHANGED <<onDisk, cached, reloads, floor, promised>>

\* The entry replaces whatever there is by now.
StoreRead(r) ==
  /\ readPc[r] = "store" /\ readPc' = [readPc EXCEPT ![r] = "returned"]
  /\ cached' = held[r]
  /\ floor' = IF r \in reloads /\ Storing = {r} /\ held[r] > floor THEN held[r] ELSE floor
  /\ UNCHANGED <<onDisk, held, reloads, promised>>

\* Mutant: a clone that has a cache of its own clears that one.
ReloadAllOfClone ==
  /\ floor' = IF Storing = {} THEN onDisk ELSE floor
  /\ UNCHANGED <<onDisk, cached, readPc, held, reloads, promised>>

ReloadAll ==
  /\ cached' = None
  /\ floor' = IF Storing = {} THEN onDisk ELSE floor
  /\ UNCHANGED <<onDisk, readPc, held, reloads, promised>>

WorkspaceNext ==
  \/ WriteFile \/ ReloadAll
  \/ \E r \in Readers : ReadWorkspaceFile(r) \/ ReloadFile(r) \/ LoadFile(r) \/ StoreRead(r)

WorkspaceSpec == WorkspaceInit /\ [][WorkspaceNext]_workspaceVars

-----------------------------------------------------------------------------

\* A call returns nothing that is older than what a reload made known before
\* the call began, or nothing at all; if, when that reload took effect, no
\* other call was between its look at the disk and its write to the cache.
ReloadIsSeen ==
  \A r \in Readers :
    readPc[r] = "returned" /\ held[r] # 0 => held[r] >= promised[r]
=============================================================================

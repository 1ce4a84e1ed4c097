-------------------------- MODULE SessionWriteLock --------------------------
(***************************************************************************)
(* The write lock of one session (claw-db): a lock file that exists while  *)
(* somebody holds the lock, and that is taken for a crashed process's once *)
(* it is StaleAfter old.  Looking for the file, reading its age, removing  *)
(* and writing it are calls to the file system, and other processes act in *)
(* between.                                                                *)
(***************************************************************************)
EXTENDS Naturals, FiniteSets

CONSTANTS
  Holders,     \* callers of acquire and try_acquire, in any process
  StaleAfter,  \* stale_threshold
  Timeout,     \* lock_timeout
  MaxTime      \* bound: the clock

ASSUME LockAssumption ==
  /\ IsFiniteSet(Holders)
  /\ StaleAfter \in Nat \ {0} /\ Timeout \in Nat /\ MaxTime \in Nat

NoFile == [there |-> FALSE, by |-> "nobody", at |-> 0]

VARIABLES
  lockNow,    \* the clock
  lockFile,   \* the lock file: by whom and when it was written
  lockPc,     \* where each caller stands
  lockStart,  \* when its acquire began
  gotAt,      \* when it got the lock
  raced,      \* history: two callers were about to take the lock at a time, and it
              \* has not been free since
  overdue     \* history: somebody held the lock until it was stale, and it has not
              \* been free since

lockVars == <<lockNow, lockFile, lockPc, lockStart, gotAt, raced, overdue>>

LockInit ==
  /\ lockNow = 0 /\ lockFile = NoFile
  /\ lockPc = [h \in Holders |-> "idle"]
  /\ lockStart = [h \in Holders |-> 0] /\ gotAt = [h \in Holders |-> 0]
  /\ raced = FALSE /\ overdue = FALSE

Holding == {h \in Holders : lockPc[h] = "holds"}
\* Those who found the lock free or stale, and have not taken it yet.
Taking == {h \in Holders : lockPc[h] \in {"break", "write"}}
Step(h, label) == lockPc' = [lockPc EXCEPT ![h] = label]

\* What the histories become when a caller is about to take the lock, and when
\* one lets go of it or gives up.
Takes(h) == raced' = (raced \/ Taking \ {h} # {}) /\ UNCHANGED overdue
Leaves(h) ==
  LET others == (Holding \cup Taking) \ {h} IN
  raced' = (raced /\ others # {}) /\ overdue' = (overdue /\ others # {})

Tick ==
  /\ lockNow < MaxTime /\ lockNow' = lockNow + 1
  /\ overdue' = (overdue \/ \E h \in Holding : lockNow' - gotAt[h] >= StaleAfter)
  /\ UNCHANGED <<lockFile, lockPc, lockStart, gotAt, raced>>

\* acquire begins.
Acquire(h) ==
  /\ lockPc[h] = "idle"
  /\ Step(h, "look") /\ lockStart' = [lockStart EXCEPT ![h] = lockNow]
  /\ UNCHANGED <<lockNow, lockFile, gotAt, raced, overdue>>

\* try_acquire_inner: does the file exist?
Look(h) ==
  /\ lockPc[h] = "look"
  /\ \/ lockFile.there /\ Step(h, "age") /\ UNCHANGED <<raced, overdue>>
     \/ ~lockFile.there /\ Step(h, "write") /\ Takes(h)
  /\ UNCHANGED <<lockNow, lockFile, lockStart, gotAt>>

\* Mutant: any existing file is broken.
AgeIgnored(h) ==
  /\ lockPc[h] = "age"
  /\ Step(h, "break") /\ Takes(h)
  /\ UNCHANGED <<lockNow, lockFile, lockStart, gotAt>>

\* lock_age: a file that is gone by now has none, and the lock counts as held.
Age(h) ==
  /\ lockPc[h] = "age"
  /\ LET stale == lockFile.there /\ lockNow - lockFile.at >= StaleAfter IN
     \/ stale /\ Step(h, "break") /\ Takes(h)
     \/ ~stale /\ Step(h, "held") /\ UNCHANGED <<raced, overdue>>
  /\ UNCHANGED <<lockNow, lockFile, lockStart, gotAt>>

\* The stale file is removed, which fails if somebody else did.
Break(h) ==
  /\ lockPc[h] = "break"
  /\ lockFile' = NoFile
  /\ \/ lockFile.there /\ Step(h, "write") /\ UNCHANGED <<raced, overdue>>
     \/ ~lockFile.there /\ Step(h, "failed") /\ Leaves(h)
  /\ UNCHANGED <<lockNow, lockStart, gotAt>>

\* write_lock_file: creates the file or overwrites it.
Write(h) ==
  /\ lockPc[h] = "write"
  /\ lockFile' = [there |-> TRUE, by |-> h, at |-> lockNow]
  /\ Step(h, "holds") /\ gotAt' = [gotAt EXCEPT ![h] = lockNow]
  /\ UNCHANGED <<lockNow, lockStart, raced, overdue>>

\* Mutant: try again for ever.
RetryForEver(h) ==
  /\ lockPc[h] = "held" /\ Step(h, "look")
  /\ UNCHANGED <<lockNow, lockFile, lockStart, gotAt, raced, overdue>>

\* The attempt found the lock held: try again, or give up. try_acquire gives
\* up at once.
Retry(h) ==
  /\ lockPc[h] = "held"
  /\ \/ lockNow - lockStart[h] < Timeout /\ Step(h, "look")
     \/ Step(h, "timeout")
  /\ UNCHANGED <<lockNow, lockFile, lockStart, gotAt, raced, overdue>>

\* The guard is dropped: whatever file is there is removed.
Release(h) ==
  /\ lockPc[h] = "holds"
  /\ lockFile' = NoFile /\ Step(h, "done") /\ Leaves(h)
  /\ UNCHANGED <<lockNow, lockStart, gotAt>>

\* The process dies, at any point, and the file stays.
Crash(h) ==
  /\ lockPc[h] \notin {"idle", "done", "timeout", "failed", "crashed"}
  /\ Step(h, "crashed") /\ Leaves(h)
  /\ UNCHANGED <<lockNow, lockFile, lockStart, gotAt>>

Attempt(h) == Look(h) \/ Age(h) \/ Break(h) \/ Write(h) \/ Retry(h)
LockNext == Tick \/ \E h \in Holders : Acquire(h) \/ Attempt(h) \/ Release(h) \/ Crash(h)

LockFairness == WF_lockVars(Tick) /\ \A h \in Holders : WF_lockVars(Attempt(h))
LockSpec == LockInit /\ [][LockNext]_lockVars /\ LockFairness

-----------------------------------------------------------------------------

LockTypeOK ==
  /\ lockNow \in 0..MaxTime
  /\ lockFile \in [there : BOOLEAN, by : Holders \cup {"nobody"}, at : 0..MaxTime]
  /\ lockPc \in [Holders -> {"idle", "look", "age", "break", "write", "held", "holds",
                            "done", "failed", "timeout", "crashed"}]
  /\ lockStart \in [Holders -> 0..MaxTime] /\ gotAt \in [Holders -> 0..MaxTime]
  /\ raced \in BOOLEAN /\ overdue \in BOOLEAN

\* What the module's comment promises.
Exclusive == Cardinality(Holding) <= 1

\* It holds though attempts overlap, processes crash and stale files are broken,
\* unless two callers find the lock free before either writes the file, or
\* somebody keeps it until it is stale: since the lock was last free, neither may
\* have happened.  Then the file is the holder's, too, so that whoever releases
\* the lock takes no other's file away.
ExclusiveIfApart ==
  ~raced /\ ~overdue =>
    /\ Exclusive
    /\ \A h \in Holding : lockFile.there /\ lockFile.by = h

\* Every acquire ends, whoever crashes with the lock in hand (one that begins
\* before the model's clock runs out).
Acquiring(h) == lockPc[h] = "look" /\ lockStart[h] + Timeout <= MaxTime
Acquired(h) == lockPc[h] \notin {"look", "age", "break", "write", "held"}
AcquireEnds == \A h \in Holders : Acquiring(h) ~> Acquired(h)
=============================================================================

------------------------- MODULE CommandQueueProofs -------------------------
(***************************************************************************)
(* Proofs about the command queue, for every number of calls, lanes,       *)
(* widths and incarnations.                                                *)
(*                                                                         *)
(* The inductive invariant Inv conjoins what the safety properties need of *)
(* one another: permits are conserved because only an owner gives one back *)
(* and only a sleeping waiter gets it (WaitersSleep); an incarnation       *)
(* starts with all its permits because no call knows it yet (KnownIncs);   *)
(* pending stays a natural number because it counts (PendingCounts).       *)
(*                                                                         *)
(* The last part shows that the queue implements the safety part of its    *)
(* contract: initial states map to initial states, and every step of the   *)
(* queue maps to a step of LaneContract or to a stutter.  The one step     *)
(* that needs the invariant is the one that takes a slot: permits and      *)
(* owners add up to the lane's concurrency, so whoever gets a permit, from *)
(* the counter or from another call, finds fewer commands running than the *)
(* lane has slots.                                                         *)
(***************************************************************************)
EXTENDS CommandQueue, FiniteSetTheorems, SequenceTheorems, TLAPS

Inv ==
  /\ TypeOK
  /\ KnownIncs
  /\ WaitersSleep
  /\ NoIdlePermit
  /\ PermitsConserved
  /\ PendingCounts

\* The types of what the semaphore keeps.
SemOK ==
  /\ permits \in [Incs -> Nat]
  /\ waiters \in [Incs -> Seq(Cmds)]
  /\ granted \subseteq Cmds

-----------------------------------------------------------------------------
(* Counting calls.                                                         *)

\* Sets of calls are finite, and their size is a number.
LEMMA CallsFinite ==
  ASSUME NEW S, S \subseteq Cmds
  PROVE  IsFiniteSet(S) /\ Cardinality(S) \in Nat
<1>1. IsFiniteSet(S)
  BY QueueAssumption, FS_Subset
<1>2. QED
  BY <1>1, FS_CardinalityType

\* Taking a call out of a set it is in.
LEMMA OneLess ==
  ASSUME NEW S, S \subseteq Cmds, NEW c \in S
  PROVE  Cardinality(S) = Cardinality(S \ {c}) + 1 /\ Cardinality(S \ {c}) \in Nat
<1>1. IsFiniteSet(S) /\ Cardinality(S) \in Nat
  BY CallsFinite
<1>2. Cardinality(S \ {c}) = Cardinality(S) - 1
  BY <1>1, FS_RemoveElement
<1>3. Cardinality(S \ {c}) \in Nat
  BY CallsFinite
<1>4. QED
  BY <1>1, <1>2, <1>3

\* Putting a call into a set it is not in.
LEMMA OneMore ==
  ASSUME NEW S, S \subseteq Cmds, NEW c \in Cmds, c \notin S
  PROVE  Cardinality(S \cup {c}) = Cardinality(S) + 1 /\ Cardinality(S) \in Nat
<1>1. IsFiniteSet(S) /\ Cardinality(S) \in Nat
  BY CallsFinite
<1>2. QED
  BY <1>1, FS_AddElement

-----------------------------------------------------------------------------
(* The queue of waiters.                                                   *)

\* What is left of a queue without its head.
LEMMA TailOfQueue ==
  ASSUME NEW q \in Seq(Cmds), q # <<>>
  PROVE  /\ Tail(q) \in Seq(Cmds)
         /\ Head(q) = q[1]
         /\ 1 \in DOMAIN q
         /\ \A k \in DOMAIN Tail(q) : k + 1 \in DOMAIN q /\ Tail(q)[k] = q[k+1]
         /\ DOMAIN Tail(q) \subseteq Nat \ {0}
<1>1. Len(q) \in Nat \ {0} /\ DOMAIN q = 1 .. Len(q)
  BY EmptySeq, LenProperties
<1>2. /\ Tail(q) \in Seq(Cmds)
      /\ Len(Tail(q)) = Len(q) - 1
      /\ \A i \in 1 .. Len(Tail(q)) : Tail(q)[i] = q[i+1]
  BY HeadTailProperties
<1>3. DOMAIN Tail(q) = 1 .. (Len(q) - 1)
  BY <1>2, LenProperties
<1>4. QED
  BY <1>1, <1>2, <1>3

\* A queue without its k-th element, and where its j-th element was before.
Without(q, k) == SubSeq(q, 1, k-1) \o SubSeq(q, k+1, Len(q))
Before(j, k)  == IF j < k THEN j ELSE j + 1

\* What is left when one call is taken out of a queue.
LEMMA QueueWithout ==
  ASSUME NEW q \in Seq(Cmds), NEW k \in DOMAIN q
  PROVE  /\ Without(q, k) \in Seq(Cmds)
         /\ \A j \in DOMAIN Without(q, k) :
              /\ j \in Nat \ {0}
              /\ Before(j, k) \in DOMAIN q
              /\ Before(j, k) # k
              /\ Without(q, k)[j] = q[Before(j, k)]
<1> DEFINE a == SubSeq(q, 1, k-1)
           b == SubSeq(q, k+1, Len(q))
<1>1. Len(q) \in Nat /\ DOMAIN q = 1 .. Len(q) /\ \A i \in 1 .. Len(q) : q[i] \in Cmds
  BY LenProperties, ElementOfSeq
<1>0. k \in Int /\ k+1 \in Int /\ k-1 \in Int /\ Len(q) \in Int
  BY <1>1
<1>2. /\ a \in Seq(Cmds)
      /\ Len(a) = k - 1
      /\ \A i \in 1 .. (k-1) : a[i] = q[i]
  <2>1. \A i \in 1 .. (k-1) : q[i] \in Cmds
    BY <1>1
  <2>2. /\ a \in Seq(Cmds)
        /\ Len(a) = IF 1 <= k-1 THEN (k-1)-1+1 ELSE 0
        /\ \A i \in 1 .. (k-1)-1+1 : a[i] = q[1+i-1]
    BY <1>0, <2>1, SubSeqProperties
  <2>3. QED
    BY <1>0, <1>1, <2>2
<1>3. /\ b \in Seq(Cmds)
      /\ Len(b) = Len(q) - k
      /\ \A i \in 1 .. (Len(q)-k) : b[i] = q[k+i]
  <2>1. PICK m \in Int, n \in Int : m = k + 1 /\ n = Len(q)
    BY <1>0
  <2>2. \A i \in m .. n : q[i] \in Cmds
    BY <1>1, <2>1
  <2>3. /\ SubSeq(q, m, n) \in Seq(Cmds)
        /\ Len(SubSeq(q, m, n)) = IF m <= n THEN n - m + 1 ELSE 0
        /\ \A i \in 1 .. n - m + 1 : SubSeq(q, m, n)[i] = q[m + i - 1]
    BY <2>2, SubSeqProperties
  <2>4. QED
    BY <1>0, <1>1, <2>1, <2>3
<1>4. /\ a \o b \in Seq(Cmds)
      /\ Len(a \o b) = Len(a) + Len(b)
      /\ \A i \in 1 .. Len(a) + Len(b) : (a \o b)[i] = IF i <= Len(a) THEN a[i] ELSE b[i - Len(a)]
  BY <1>2, <1>3, ConcatProperties
<1>5. DOMAIN (a \o b) = 1 .. (Len(q) - 1)
  BY <1>1, <1>2, <1>3, <1>4, LenProperties
<1> HIDE DEF a, b
<1>6. ASSUME NEW j \in 1 .. (Len(q) - 1)
      PROVE  /\ j \in Nat \ {0}
             /\ Before(j, k) \in DOMAIN q
             /\ Before(j, k) # k
             /\ (a \o b)[j] = q[Before(j, k)]
  <2>1. CASE j < k
    BY <1>1, <1>2, <1>3, <1>4, <2>1 DEF Before
  <2>2. CASE ~(j < k)
    <3>1. /\ j \in 1 .. Len(a) + Len(b)
          /\ ~(j <= Len(a))
          /\ j - Len(a) \in 1 .. (Len(q) - k)
          /\ k + (j - Len(a)) = j + 1
      BY <1>1, <1>2, <1>3, <2>2
    <3>2. (a \o b)[j] = b[j - Len(a)] /\ b[j - Len(a)] = q[k + (j - Len(a))]
      BY <1>3, <1>4, <3>1
    <3>3. QED
      BY <1>1, <2>2, <3>1, <3>2 DEF Before
  <2>3. QED
    BY <2>1, <2>2
<1>7. QED
  BY <1>4, <1>5, <1>6 DEF a, b, Without

\* Waiters are calls.
LEMMA WaitersAreCalls ==
  ASSUME TypeOK
  PROVE  \A j \in Incs : \A k \in DOMAIN waiters[j] :
           waiters[j][k] \in Cmds /\ k \in Nat \ {0}
<1> SUFFICES ASSUME NEW j \in Incs, NEW k \in DOMAIN waiters[j]
             PROVE  waiters[j][k] \in Cmds /\ k \in Nat \ {0}
  OBVIOUS
<1>1. waiters[j] \in Seq(Cmds)
  BY DEF TypeOK
<1>2. k \in 1 .. Len(waiters[j]) /\ Len(waiters[j]) \in Nat
  BY <1>1, LenProperties
<1>3. QED
  BY <1>1, <1>2, ElementOfSeq

-----------------------------------------------------------------------------
(* What a departing call does to the semaphore.                            *)

\* A step of call c that ends at lbl and only moves c.
Moves(c, lbl) ==
  /\ pc' = [pc EXCEPT ![c] = lbl]
  /\ UNCHANGED <<laneVars, inc>>

\* An owner that settles hands its permit on: nothing is lost, and the waiter
\* that gets the permit leaves the queue.
LEMMA ReleaseKeeps ==
  ASSUME Inv, NEW c \in Cmds, Owns(c), Release(c),
         NEW lbl \in Settled, Moves(c, lbl)
  PROVE  SemOK' /\ WaitersSleep' /\ NoIdlePermit' /\ PermitsConserved'
<1> DEFINE i == inc[c]
           q == waiters[i]
           h == Head(q)
<1>0. /\ TypeOK /\ WaitersSleep /\ NoIdlePermit /\ PermitsConserved /\ KnownIncs
      /\ pc' = [pc EXCEPT ![c] = lbl] /\ lbl \notin {"waiting", "polling", "holding", "executing"}
      /\ inc' = inc /\ width' = width /\ created' = created
      /\ i \in Incs /\ i \in 1 .. created /\ q \in Seq(Cmds) /\ permits[i] \in Nat
  <2>1. /\ TypeOK /\ WaitersSleep /\ NoIdlePermit /\ PermitsConserved /\ KnownIncs
        /\ pc' = [pc EXCEPT ![c] = lbl] /\ inc' = inc /\ width' = width /\ created' = created
    BY DEF Inv, Moves, laneVars
  <2>2. lbl \notin {"waiting", "polling", "holding", "executing"}
    BY DEF Settled
  <2>3. i \in Incs /\ i \in 1 .. created
    BY <2>1 DEF TypeOK, KnownIncs, Incs
  <2>4. q \in Seq(Cmds) /\ permits[i] \in Nat
    BY <2>1, <2>3 DEF TypeOK
  <2> QED BY <2>1, <2>2, <2>3, <2>4
<1>a. \A j \in Incs : \A k \in DOMAIN waiters[j] :
        waiters[j][k] \in Cmds /\ k \in Nat \ {0}
  BY <1>0, WaitersAreCalls
<1>b. \A j \in Incs : \A k \in DOMAIN waiters[j] : waiters[j][k] # c
  BY <1>0, <1>a DEF WaitersSleep, Owns
<1>c. \A d \in Cmds : (pc[d] \in {"holding", "executing"})' = (d # c /\ pc[d] \in {"holding", "executing"})
  BY <1>0 DEF TypeOK
<1>1. CASE q = <<>>
  <2>0. /\ permits' = [permits EXCEPT ![i] = @ + 1]
        /\ granted' = granted \ {c}
        /\ waiters' = waiters
    BY <1>1 DEF Release
  <2>1. SemOK'
    BY <1>0, <2>0 DEF SemOK, TypeOK
  <2>2. WaitersSleep'
    <3>1. \A j \in Incs : \A k \in DOMAIN waiters[j] : pc'[waiters[j][k]] = pc[waiters[j][k]]
      BY <1>0, <1>a, <1>b DEF TypeOK
    <3>2. \A d \in granted' : d # c /\ d \in granted /\ pc'[d] = pc[d]
      BY <1>0, <2>0 DEF TypeOK
    <3>3. QED
      BY <1>0, <2>0, <3>1, <3>2 DEF WaitersSleep
  <2>3. NoIdlePermit'
    BY <1>0, <1>1, <2>0 DEF NoIdlePermit, TypeOK
  <2>4. PermitsConserved'
    <3> SUFFICES ASSUME NEW j \in 1 .. created
                 PROVE  permits'[j] + Cardinality(Owners(j)') = width[j]
      BY <1>0 DEF PermitsConserved
    <3>0. j \in Incs /\ permits[j] \in Nat /\ permits[j] + Cardinality(Owners(j)) = width[j]
      <4>1. j \in Incs
        BY <1>0, QueueAssumption DEF TypeOK, Incs
      <4>2. permits[j] \in Nat
        BY <1>0, <4>1 DEF TypeOK
      <4>3. permits[j] + Cardinality(Owners(j)) = width[j]
        BY <1>0 DEF PermitsConserved
      <4>4. QED
        BY <4>1, <4>2, <4>3
    <3>1. Owners(j)' = Owners(j) \ {c}
      BY <1>0, <1>c, <2>0 DEF Owners, Owns
    <3>2. CASE j = i
      <4>1. c \in Owners(j)
        BY <3>2 DEF Owners
      <4>2. Owners(j) \subseteq Cmds
        BY DEF Owners
      <4>3. Cardinality(Owners(j)) = Cardinality(Owners(j) \ {c}) + 1 /\ Cardinality(Owners(j) \ {c}) \in Nat
        BY <4>1, <4>2, OneLess
      <4>4. permits'[j] = permits[j] + 1
        BY <1>0, <2>0, <3>2 DEF TypeOK
      <4>5. QED
        BY <3>0, <3>1, <4>3, <4>4
    <3>3. CASE j # i
      <4>1. Owners(j) \ {c} = Owners(j)
        BY <3>3 DEF Owners
      <4>2. permits'[j] = permits[j]
        BY <1>0, <2>0, <3>0, <3>3 DEF TypeOK
      <4>3. QED
        BY <3>0, <3>1, <4>1, <4>2
    <3>4. QED
      BY <3>2, <3>3
  <2>5. QED
    BY <2>1, <2>2, <2>3, <2>4
<1>2. CASE q # <<>>
  <2>0. /\ permits' = permits
        /\ granted' = (granted \ {c}) \cup {h}
        /\ waiters' = [waiters EXCEPT ![i] = Tail(q)]
    BY <1>2 DEF Release
  <2>a. /\ Tail(q) \in Seq(Cmds)
        /\ h = q[1]
        /\ 1 \in DOMAIN q
        /\ \A k \in DOMAIN Tail(q) : k + 1 \in DOMAIN q /\ Tail(q)[k] = q[k+1]
        /\ DOMAIN Tail(q) \subseteq Nat \ {0}
    BY <1>0, <1>2, TailOfQueue
  <2>b. h \in Cmds /\ h # c /\ inc[h] = i /\ pc[h] = "waiting" /\ h \notin granted
    BY <1>0, <1>a, <1>b, <2>a DEF WaitersSleep
  <2>c. \A k \in DOMAIN Tail(q) : Tail(q)[k] # h
    BY <1>0, <2>a DEF WaitersSleep
  <2>1. SemOK'
    BY <1>0, <2>0, <2>a, <2>b DEF SemOK, TypeOK
  <2>2. WaitersSleep'
    <3>1. ASSUME NEW j \in Incs, NEW k \in DOMAIN waiters'[j]
          PROVE  /\ inc[waiters'[j][k]] = j
                 /\ pc'[waiters'[j][k]] = "waiting"
                 /\ waiters'[j][k] \notin granted'
                 /\ \A m \in DOMAIN waiters'[j] : waiters'[j][m] = waiters'[j][k] => m = k
      <4>1. CASE j = i
        <5>1. waiters'[j] = Tail(q)
          BY <1>0, <2>0, <4>1 DEF TypeOK
        <5>2. k \in DOMAIN Tail(q) /\ k + 1 \in DOMAIN q /\ waiters'[j][k] = q[k+1] /\ q[k+1] # h /\ k \in Nat
          BY <2>a, <2>c, <5>1
        <5>3. /\ inc[q[k+1]] = i /\ pc[q[k+1]] = "waiting" /\ q[k+1] \notin granted
              /\ q[k+1] \in Cmds /\ q[k+1] # c
          BY <1>0, <1>a, <1>b, <5>2 DEF WaitersSleep
        <5>4. ASSUME NEW m \in DOMAIN waiters'[j], waiters'[j][m] = waiters'[j][k]
              PROVE  m = k
          <6>1. m + 1 \in DOMAIN q /\ q[m+1] = q[k+1] /\ m \in Nat
            BY <2>a, <5>1, <5>2, <5>4
          <6>2. m + 1 = k + 1
            BY <1>0, <5>2, <6>1 DEF WaitersSleep
          <6>3. QED
            BY <5>2, <6>1, <6>2
        <5>5. QED
          BY <1>0, <2>0, <4>1, <5>2, <5>3, <5>4 DEF TypeOK
      <4>2. CASE j # i
        <5>1. waiters'[j] = waiters[j]
          BY <1>0, <2>0, <4>2 DEF TypeOK
        <5>2. /\ inc[waiters[j][k]] = j
              /\ pc[waiters[j][k]] = "waiting"
              /\ waiters[j][k] \notin granted
              /\ \A m \in DOMAIN waiters[j] : waiters[j][m] = waiters[j][k] => m = k
              /\ waiters[j][k] \in Cmds
              /\ waiters[j][k] # c
          BY <1>0, <1>a, <1>b, <5>1 DEF WaitersSleep
        <5>3. waiters[j][k] # h
          BY <2>b, <4>2, <5>2
        <5>4. pc'[waiters[j][k]] = "waiting"
          BY <1>0, <5>2 DEF TypeOK
        <5>5. waiters[j][k] \notin granted'
          BY <2>0, <5>2, <5>3
        <5>6. QED
          BY <5>1, <5>2, <5>4, <5>5
      <4>3. QED
        BY <4>1, <4>2
    <3>2. \A d \in granted' : pc'[d] \in {"waiting", "polling"}
      BY <1>0, <2>0, <2>b DEF WaitersSleep, TypeOK
    <3>3. QED
      BY <1>0, <3>1, <3>2 DEF WaitersSleep
  <2>3. NoIdlePermit'
    <3>1. ~(permits[i] > 0)
      BY <1>0, <1>2 DEF NoIdlePermit
    <3>2. QED
      BY <1>0, <2>0, <3>1 DEF NoIdlePermit, TypeOK
  <2>4. PermitsConserved'
    <3> SUFFICES ASSUME NEW j \in 1 .. created
                 PROVE  permits[j] + Cardinality(Owners(j)') = width[j]
      BY <1>0, <2>0 DEF PermitsConserved
    <3>0. j \in Incs /\ permits[j] \in Nat /\ permits[j] + Cardinality(Owners(j)) = width[j]
      <4>1. j \in Incs
        BY <1>0, QueueAssumption DEF TypeOK, Incs
      <4>2. permits[j] \in Nat
        BY <1>0, <4>1 DEF TypeOK
      <4>3. permits[j] + Cardinality(Owners(j)) = width[j]
        BY <1>0 DEF PermitsConserved
      <4>4. QED
        BY <4>1, <4>2, <4>3
    <3>1. CASE j = i
      <4>1. c \in Owners(j) /\ h \notin Owners(j) /\ Owners(j) \subseteq Cmds
        BY <2>b, <3>1 DEF Owners, Owns
      <4>2. Owners(j)' = (Owners(j) \ {c}) \cup {h}
        BY <1>0, <1>c, <2>0, <2>b, <3>1 DEF Owners, Owns
      <4>3. Cardinality(Owners(j)) = Cardinality(Owners(j) \ {c}) + 1 /\ Cardinality(Owners(j) \ {c}) \in Nat
        BY <4>1, OneLess
      <4>4. Cardinality((Owners(j) \ {c}) \cup {h}) = Cardinality(Owners(j) \ {c}) + 1
        BY <2>b, <4>1, OneMore
      <4>5. QED
        BY <3>0, <4>2, <4>3, <4>4
    <3>2. CASE j # i
      <4>1. Owners(j)' = Owners(j)
        BY <1>0, <1>c, <2>0, <2>b, <3>2 DEF Owners, Owns
      <4>2. QED
        BY <3>0, <4>1
    <3>3. QED
      BY <3>1, <3>2
  <2>5. QED
    BY <2>1, <2>2, <2>3, <2>4
<1>3. QED
  BY <1>1, <1>2

\* A call that leaves the semaphore in the first select!: with a permit it
\* hands it on, in the queue it makes the others close ranks.
LEMMA LeaveKeeps ==
  ASSUME Inv, NEW c \in Cmds, pc[c] = "waiting", LeaveSemaphore(c),
         NEW lbl \in Settled, Moves(c, lbl)
  PROVE  SemOK' /\ WaitersSleep' /\ NoIdlePermit' /\ PermitsConserved'
<1> DEFINE i == inc[c]
           q == waiters[i]
<1>0. /\ TypeOK /\ WaitersSleep /\ NoIdlePermit /\ PermitsConserved
      /\ pc' = [pc EXCEPT ![c] = lbl] /\ lbl \notin {"waiting", "polling", "holding", "executing"}
      /\ inc' = inc /\ width' = width /\ created' = created
      /\ i \in Incs /\ q \in Seq(Cmds)
  BY DEF Inv, Moves, laneVars, Settled, TypeOK
<1>1. CASE c \in granted /\ Release(c)
  BY <1>1, ReleaseKeeps DEF Owns
<1>2. ASSUME c \notin granted, permits' = permits, granted' = granted,
             waiters' = waiters \/ \E r \in Seq(Cmds) : waiters' = [waiters EXCEPT ![i] = r],
             \A j \in Incs : \A k \in DOMAIN waiters'[j] : waiters'[j][k] \in Cmds,
             \A j \in Incs : \A k \in DOMAIN waiters'[j] : waiters'[j][k] # c,
             \A j \in Incs : \A k \in DOMAIN waiters'[j] :
               \E m \in DOMAIN waiters[j] : waiters'[j][k] = waiters[j][m],
             \A j \in Incs : \A k, m \in DOMAIN waiters'[j] :
               waiters'[j][k] = waiters'[j][m] => k = m,
             \A j \in Incs : waiters[j] = <<>> => waiters'[j] = <<>>
      PROVE  SemOK' /\ WaitersSleep' /\ NoIdlePermit' /\ PermitsConserved'
  <2>1. SemOK'
    <3>1. waiters' \in [Incs -> Seq(Cmds)]
      <4>1. CASE waiters' = waiters
        BY <1>0, <4>1 DEF TypeOK
      <4>2. ASSUME NEW r \in Seq(Cmds), waiters' = [waiters EXCEPT ![i] = r]
            PROVE  waiters' \in [Incs -> Seq(Cmds)]
        BY <1>0, <4>2 DEF TypeOK
      <4>3. QED
        BY <1>2, <4>1, <4>2
    <3>2. QED
      BY <1>0, <1>2, <3>1 DEF SemOK, TypeOK
  <2>2. WaitersSleep'
    <3>1. ASSUME NEW j \in Incs, NEW k \in DOMAIN waiters'[j]
          PROVE  /\ inc[waiters'[j][k]] = j
                 /\ pc'[waiters'[j][k]] = "waiting"
                 /\ waiters'[j][k] \notin granted
                 /\ \A m \in DOMAIN waiters'[j] : waiters'[j][m] = waiters'[j][k] => m = k
      <4>1. PICK n \in DOMAIN waiters[j] : waiters'[j][k] = waiters[j][n]
        BY <1>2
      <4>2. inc[waiters[j][n]] = j /\ pc[waiters[j][n]] = "waiting" /\ waiters[j][n] \notin granted
        BY <1>0 DEF WaitersSleep
      <4>3. waiters'[j][k] \in Cmds /\ waiters'[j][k] # c
        BY <1>2
      <4>4. pc'[waiters'[j][k]] = "waiting"
        BY <1>0, <4>1, <4>2, <4>3 DEF TypeOK
      <4>5. QED
        BY <1>2, <4>1, <4>2, <4>4
    <3>2. \A d \in granted : pc'[d] \in {"waiting", "polling"}
      BY <1>0, <1>2 DEF WaitersSleep, TypeOK
    <3>3. QED
      BY <1>0, <1>2, <3>1, <3>2 DEF WaitersSleep
  <2>3. NoIdlePermit'
    BY <1>0, <1>2 DEF NoIdlePermit
  <2>4. \A j \in Incs : Owners(j)' = Owners(j)
    BY <1>0, <1>2 DEF Owners, Owns, TypeOK
  <2>5. 1 .. created \subseteq Incs
    BY <1>0, QueueAssumption DEF TypeOK, Incs
  <2>6. PermitsConserved'
    BY <1>0, <1>2, <2>4, <2>5 DEF PermitsConserved
  <2>7. QED
    BY <2>1, <2>2, <2>3, <2>6
<1>a. \A j \in Incs : \A k \in DOMAIN waiters[j] : waiters[j][k] \in Cmds /\ k \in Nat \ {0}
  BY <1>0, WaitersAreCalls
<1>3. CASE c \notin granted /\ ~Queued(c) /\ UNCHANGED semVars
  <2>1. permits' = permits /\ granted' = granted /\ waiters' = waiters
    BY <1>3 DEF semVars
  <2>2. \A j \in Incs : \A k \in DOMAIN waiters[j] : waiters[j][k] # c
    BY <1>0, <1>3 DEF WaitersSleep, Queued
  <2>3. \A j \in Incs : \A k, m \in DOMAIN waiters[j] : waiters[j][k] = waiters[j][m] => k = m
    BY <1>0 DEF WaitersSleep
  <2>4. QED
    BY <1>2, <1>3, <1>a, <2>1, <2>2, <2>3
<1>4. CASE /\ c \notin granted
           /\ \E k \in DOMAIN q :
                /\ q[k] = c
                /\ waiters' = [waiters EXCEPT
                                 ![i] = SubSeq(q, 1, k-1) \o SubSeq(q, k+1, Len(q))]
           /\ UNCHANGED <<permits, granted>>
  <2>1. PICK k \in DOMAIN q :
          /\ q[k] = c
          /\ waiters' = [waiters EXCEPT
                           ![i] = SubSeq(q, 1, k-1) \o SubSeq(q, k+1, Len(q))]
    BY <1>4
  <2> DEFINE r == Without(q, k)
  <2>2. /\ r \in Seq(Cmds)
        /\ \A j \in DOMAIN r : /\ j \in Nat \ {0}
                               /\ Before(j, k) \in DOMAIN q
                               /\ Before(j, k) # k
                               /\ r[j] = q[Before(j, k)]
    BY <1>0, QueueWithout
  <2>3. waiters' = [waiters EXCEPT ![i] = r]
    BY <2>1 DEF Without
  <2> HIDE DEF r
  <2>4. waiters'[i] = r /\ \A j \in Incs \ {i} : waiters'[j] = waiters[j]
    BY <1>0, <2>3 DEF TypeOK
  <2>5. k \in Nat
    BY <1>0, <1>a
  <2>6. \A m \in DOMAIN q : q[m] = c => m = k
    BY <1>0, <2>1 DEF WaitersSleep
  <2>7. \A j \in DOMAIN r : \E m \in DOMAIN q : r[j] = q[m] /\ r[j] # c /\ r[j] \in Cmds
    BY <1>0, <1>a, <2>2, <2>6
  <2>8. \A j, m \in DOMAIN r : r[j] = r[m] => j = m
    <3> SUFFICES ASSUME NEW j \in DOMAIN r, NEW m \in DOMAIN r, r[j] = r[m]
                 PROVE  j = m
      OBVIOUS
    <3>1. Before(j, k) = Before(m, k)
      BY <1>0, <2>2 DEF WaitersSleep
    <3>2. QED
      BY <2>2, <2>5, <3>1 DEF Before
  <2>9. \A j \in Incs \ {i} : \A m \in DOMAIN waiters[j] : waiters[j][m] # c
    BY <1>0 DEF WaitersSleep
  <2>10. \A j \in Incs : \A n, m \in DOMAIN waiters[j] : waiters[j][n] = waiters[j][m] => n = m
    BY <1>0 DEF WaitersSleep
  <2>11. q # <<>>
    BY <2>1
  <2>12. \A j \in Incs : \A n \in DOMAIN waiters'[j] :
           /\ waiters'[j][n] \in Cmds
           /\ waiters'[j][n] # c
           /\ \E m \in DOMAIN waiters[j] : waiters'[j][n] = waiters[j][m]
    BY <1>a, <2>4, <2>7, <2>9
  <2>13. \A j \in Incs : \A n, m \in DOMAIN waiters'[j] :
           waiters'[j][n] = waiters'[j][m] => n = m
    BY <2>4, <2>8, <2>10
  <2>14. \A j \in Incs : waiters[j] = <<>> => waiters'[j] = <<>>
    BY <2>4, <2>11
  <2>15. waiters' = waiters \/ \E x \in Seq(Cmds) : waiters' = [waiters EXCEPT ![i] = x]
    BY <2>2, <2>3
  <2>16. c \notin granted /\ permits' = permits /\ granted' = granted
    BY <1>4
  <2>17. /\ \A j \in Incs : \A n \in DOMAIN waiters'[j] : waiters'[j][n] \in Cmds
         /\ \A j \in Incs : \A n \in DOMAIN waiters'[j] : waiters'[j][n] # c
         /\ \A j \in Incs : \A n \in DOMAIN waiters'[j] :
              \E m \in DOMAIN waiters[j] : waiters'[j][n] = waiters[j][m]
    BY <2>12
  <2>18. QED
    BY <1>2, <2>13, <2>14, <2>15, <2>16, <2>17
<1>5. QED
  BY <1>1, <1>3, <1>4 DEF LeaveSemaphore

-----------------------------------------------------------------------------
(* What the other steps do to the semaphore.                               *)

\* A step of a call that touches no semaphore and neither becomes nor stops
\* being an owner.
LEMMA SemaphoreStays ==
  ASSUME Inv, NEW c \in Cmds, UNCHANGED semVars, created' = created, width' = width,
         pc' \in [Cmds -> PCs], inc' \in [Cmds -> Incs],
         \A d \in Cmds \ {c} : pc'[d] = pc[d] /\ inc'[d] = inc[d],
         \A j \in Incs : \A k \in DOMAIN waiters[j] : waiters[j][k] # c,
         pc'[c] \in {"holding", "executing"} <=> pc[c] \in {"holding", "executing"},
         c \in granted => pc'[c] \in {"waiting", "polling"},
         Owns(c) => inc'[c] = inc[c]
  PROVE  SemOK' /\ WaitersSleep' /\ NoIdlePermit' /\ PermitsConserved'
<1>0. /\ TypeOK /\ WaitersSleep /\ NoIdlePermit /\ PermitsConserved
      /\ permits' = permits /\ waiters' = waiters /\ granted' = granted
  BY DEF Inv, semVars
<1>a. \A j \in Incs : \A k \in DOMAIN waiters[j] : waiters[j][k] \in Cmds
  BY <1>0, WaitersAreCalls
<1>1. SemOK'
  BY <1>0 DEF SemOK, TypeOK
<1>2. WaitersSleep'
  <2>1. ASSUME NEW j \in Incs, NEW k \in DOMAIN waiters[j]
        PROVE  inc'[waiters[j][k]] = inc[waiters[j][k]] /\ pc'[waiters[j][k]] = pc[waiters[j][k]]
    BY <1>a
  <2>2. ASSUME NEW d \in granted
        PROVE  pc'[d] \in {"waiting", "polling"}
    <3>1. d \in Cmds /\ pc[d] \in {"waiting", "polling"}
      BY <1>0 DEF WaitersSleep, TypeOK
    <3>2. CASE d = c
      BY <3>2
    <3>3. CASE d # c
      BY <3>1, <3>3
    <3>4. QED
      BY <3>2, <3>3
  <2>3. ASSUME NEW j \in Incs, NEW k \in DOMAIN waiters[j]
        PROVE  /\ inc'[waiters[j][k]] = j
               /\ pc'[waiters[j][k]] = "waiting"
               /\ waiters[j][k] \notin granted
               /\ \A m \in DOMAIN waiters[j] : waiters[j][m] = waiters[j][k] => m = k
    BY <1>0, <2>1 DEF WaitersSleep
  <2>4. QED
    BY <1>0, <2>2, <2>3 DEF WaitersSleep
<1>3. NoIdlePermit'
  BY <1>0 DEF NoIdlePermit
<1>4. PermitsConserved'
  <2>1. \A j \in Incs : Owners(j)' = Owners(j)
    BY <1>0 DEF Owners, Owns
  <2>2. 1 .. created \subseteq Incs
    BY <1>0, QueueAssumption DEF TypeOK, Incs
  <2>3. QED
    BY <1>0, <2>1, <2>2 DEF PermitsConserved
<1>5. QED
  BY <1>1, <1>2, <1>3, <1>4

\* The semaphore's branch: pick up the permit handed over, take a free one, or
\* join the queue.
LEMMA AcquireKeeps ==
  ASSUME Inv, NEW c \in Cmds, Acquire(c)
  PROVE  SemOK' /\ WaitersSleep' /\ NoIdlePermit' /\ PermitsConserved'
<1> DEFINE i == inc[c]
           q == waiters[i]
<1>0. /\ TypeOK /\ WaitersSleep /\ NoIdlePermit /\ PermitsConserved
      /\ pc[c] = "polling" /\ inc' = inc /\ width' = width /\ created' = created
      /\ i \in Incs /\ q \in Seq(Cmds) /\ permits[i] \in Nat
  BY DEF Inv, Acquire, laneVars, TypeOK
<1>a. \A j \in Incs : \A k \in DOMAIN waiters[j] :
        waiters[j][k] \in Cmds /\ k \in Nat \ {0}
  BY <1>0, WaitersAreCalls
<1>b. \A j \in Incs : \A k \in DOMAIN waiters[j] : waiters[j][k] # c
  BY <1>0 DEF WaitersSleep
<1>c. \A j \in 1 .. created :
        j \in Incs /\ permits[j] \in Nat /\ permits[j] + Cardinality(Owners(j)) = width[j]
  <2>1. 1 .. created \subseteq Incs
    BY <1>0, QueueAssumption DEF TypeOK, Incs
  <2>2. QED
    BY <1>0, <2>1 DEF TypeOK, PermitsConserved
<1>1. CASE c \in granted /\ granted' = granted \ {c} /\ Goto(c, "holding") /\ UNCHANGED <<permits, waiters>>
  <2>0. /\ granted' = granted \ {c} /\ pc' = [pc EXCEPT ![c] = "holding"]
        /\ permits' = permits /\ waiters' = waiters
    BY <1>1 DEF Goto
  <2>1. SemOK' /\ WaitersSleep' /\ NoIdlePermit'
    BY <1>0, <1>a, <1>b, <2>0 DEF SemOK, WaitersSleep, NoIdlePermit, TypeOK
  <2>2. \A j \in Incs : Owners(j)' = Owners(j)
    BY <1>0, <1>1, <2>0 DEF Owners, Owns, TypeOK
  <2>3. PermitsConserved'
    BY <1>0, <1>c, <2>0, <2>2 DEF PermitsConserved
  <2>4. QED
    BY <2>1, <2>3
<1>2. CASE /\ c \notin granted /\ permits[i] > 0
           /\ permits' = [permits EXCEPT ![i] = @ - 1]
           /\ Goto(c, "holding") /\ UNCHANGED <<waiters, granted>>
  <2>0. /\ granted' = granted /\ pc' = [pc EXCEPT ![c] = "holding"]
        /\ permits' = [permits EXCEPT ![i] = @ - 1] /\ waiters' = waiters
    BY <1>2 DEF Goto
  <2>1. SemOK'
    BY <1>0, <1>2, <2>0 DEF SemOK, TypeOK
  <2>2. WaitersSleep'
    <3>1. \A j \in Incs : \A k \in DOMAIN waiters[j] : pc'[waiters[j][k]] = "waiting"
      BY <1>0, <1>a, <1>b, <2>0 DEF WaitersSleep, TypeOK
    <3>2. \A d \in granted : pc'[d] \in {"waiting", "polling"}
      BY <1>0, <1>2, <2>0 DEF WaitersSleep, TypeOK
    <3> QED BY <1>0, <2>0, <3>1, <3>2 DEF WaitersSleep
  <2>3. NoIdlePermit'
    BY <1>0, <1>2, <2>0 DEF NoIdlePermit, TypeOK
  <2>4. ASSUME NEW j \in 1 .. created
        PROVE  permits'[j] + Cardinality(Owners(j)') = width[j]
    <3>1. CASE j = i
      <4>1. c \notin Owners(j) /\ Owners(j) \subseteq Cmds
        BY <1>0, <1>2 DEF Owners, Owns
      <4>2. Owners(j)' = Owners(j) \cup {c}
        BY <1>0, <2>0, <3>1 DEF Owners, Owns, TypeOK
      <4>3. Cardinality(Owners(j) \cup {c}) = Cardinality(Owners(j)) + 1 /\ Cardinality(Owners(j)) \in Nat
        BY <4>1, OneMore
      <4>4. permits'[j] = permits[j] - 1
        BY <1>0, <2>0, <3>1 DEF TypeOK
      <4>5. QED
        BY <1>c, <4>2, <4>3, <4>4
    <3>2. CASE j # i
      <4>1. Owners(j)' = Owners(j)
        BY <1>0, <2>0, <3>2 DEF Owners, Owns, TypeOK
      <4>2. permits'[j] = permits[j]
        BY <1>0, <1>c, <2>0, <3>2 DEF TypeOK
      <4>3. QED
        BY <1>c, <4>1, <4>2
    <3>3. QED
      BY <3>1, <3>2
  <2>5. QED
    BY <1>0, <2>1, <2>2, <2>3, <2>4 DEF PermitsConserved
<1>3. CASE /\ c \notin granted /\ permits[i] = 0
           /\ waiters' = [waiters EXCEPT ![i] = Append(@, c)]
           /\ Goto(c, "waiting") /\ UNCHANGED <<permits, granted>>
  <2>0. /\ granted' = granted /\ pc' = [pc EXCEPT ![c] = "waiting"]
        /\ permits' = permits /\ waiters' = [waiters EXCEPT ![i] = Append(q, c)]
    BY <1>3 DEF Goto
  <2>a. /\ Append(q, c) \in Seq(Cmds)
        /\ DOMAIN Append(q, c) = 1 .. Len(q) + 1
        /\ DOMAIN q = 1 .. Len(q) /\ Len(q) \in Nat
        /\ \A k \in 1 .. Len(q) : Append(q, c)[k] = q[k]
        /\ Append(q, c)[Len(q) + 1] = c
    <3>1. DOMAIN q = 1 .. Len(q) /\ Len(q) \in Nat
      BY <1>0, LenProperties
    <3>2. /\ Append(q, c) \in Seq(Cmds)
          /\ Len(Append(q, c)) = Len(q) + 1
          /\ \A k \in 1 .. Len(q) : Append(q, c)[k] = q[k]
          /\ Append(q, c)[Len(q) + 1] = c
      BY <1>0, AppendProperties
    <3>3. QED
      BY <3>1, <3>2, LenProperties
  <2>1. SemOK'
    BY <1>0, <2>0, <2>a DEF SemOK, TypeOK
  <2>2. WaitersSleep'
    <3>1. ASSUME NEW j \in Incs, NEW k \in DOMAIN waiters'[j]
          PROVE  /\ inc[waiters'[j][k]] = j
                 /\ pc'[waiters'[j][k]] = "waiting"
                 /\ waiters'[j][k] \notin granted
                 /\ \A m \in DOMAIN waiters'[j] : waiters'[j][m] = waiters'[j][k] => m = k
      <4>1. CASE j = i
        <5>1. waiters'[j] = Append(q, c)
          BY <1>0, <2>0, <4>1 DEF TypeOK
        <5>2. \A m \in 1 .. Len(q) :
                /\ inc[q[m]] = i /\ pc'[q[m]] = "waiting" /\ q[m] \notin granted /\ q[m] # c
                /\ \A n \in 1 .. Len(q) : q[m] = q[n] => m = n
          <6> SUFFICES ASSUME NEW m \in 1 .. Len(q)
                       PROVE  /\ inc[q[m]] = i /\ pc'[q[m]] = "waiting"
                              /\ q[m] \notin granted /\ q[m] # c
                              /\ \A n \in 1 .. Len(q) : q[m] = q[n] => m = n
            OBVIOUS
          <6>1. m \in DOMAIN q /\ q[m] \in Cmds /\ q[m] # c
            BY <1>0, <1>a, <1>b, <2>a
          <6>2. /\ inc[q[m]] = i /\ pc[q[m]] = "waiting" /\ q[m] \notin granted
                /\ \A n \in 1 .. Len(q) : q[m] = q[n] => m = n
            BY <1>0, <2>a, <6>1 DEF WaitersSleep
          <6>3. pc'[q[m]] = pc[q[m]]
            BY <1>0, <2>0, <6>1 DEF TypeOK
          <6>4. QED
            BY <6>1, <6>2, <6>3
        <5>3. k \in 1 .. Len(q) \/ k = Len(q) + 1
          BY <2>a, <5>1
        <5>4. pc'[c] = "waiting"
          BY <1>0, <2>0 DEF TypeOK
        <5>5. ASSUME NEW m \in DOMAIN waiters'[j], waiters'[j][m] = waiters'[j][k]
              PROVE  m = k
          <6>1. m \in 1 .. Len(q) \/ m = Len(q) + 1
            BY <2>a, <5>1
          <6>2. QED
            BY <2>a, <5>1, <5>2, <5>3, <5>5, <6>1
        <5>6. QED
          BY <1>3, <2>a, <4>1, <5>1, <5>2, <5>3, <5>4, <5>5
      <4>2. CASE j # i
        <5>1. waiters'[j] = waiters[j]
          BY <1>0, <2>0, <4>2 DEF TypeOK
        <5>2. waiters[j][k] \in Cmds /\ waiters[j][k] # c
          BY <1>a, <1>b, <5>1
        <5>3. pc'[waiters[j][k]] = pc[waiters[j][k]]
          BY <1>0, <2>0, <5>2 DEF TypeOK
        <5>4. QED
          BY <1>0, <5>1, <5>3 DEF WaitersSleep
      <4>3. QED
        BY <4>1, <4>2
    <3>2. \A d \in granted : pc'[d] \in {"waiting", "polling"}
      BY <1>0, <2>0 DEF WaitersSleep, TypeOK
    <3>3. QED
      BY <1>0, <2>0, <3>1, <3>2 DEF WaitersSleep
  <2>3. NoIdlePermit'
    BY <1>0, <1>3, <2>0 DEF NoIdlePermit, TypeOK
  <2>4. \A j \in Incs : Owners(j)' = Owners(j)
    BY <1>0, <2>0 DEF Owners, Owns, TypeOK
  <2>5. PermitsConserved'
    BY <1>0, <1>c, <2>0, <2>4 DEF PermitsConserved
  <2>6. QED
    BY <2>1, <2>2, <2>3, <2>5
<1>4. QED
  BY <1>1, <1>2, <1>3 DEF Acquire

\* A new incarnation starts with all its permits and no waiter.
LEMMA NewLaneKeeps ==
  ASSUME Inv, NEW l \in Lanes, NEW w \in Nat, NewLane(l, w)
  PROVE  /\ SemOK' /\ WaitersSleep' /\ NoIdlePermit' /\ PermitsConserved' /\ KnownIncs'
         /\ created' \in Incs /\ lanes' \in [Lanes -> Incs \cup {NoInc}] /\ width' \in [Incs -> Nat]
<1>a. created \in 1 .. MaxIncs /\ MaxIncs \in Nat /\ created \in Nat \ {0} /\ created < MaxIncs
  BY QueueAssumption DEF Inv, TypeOK, Incs, NewLane
<1>b. PICK n \in Nat : n = created + 1
  BY <1>a
<1>0. /\ TypeOK /\ WaitersSleep /\ NoIdlePermit /\ PermitsConserved /\ KnownIncs
      /\ created < MaxIncs /\ created' = n /\ lanes' = [lanes EXCEPT ![l] = n]
      /\ width' = [width EXCEPT ![n] = w] /\ permits' = [permits EXCEPT ![n] = w]
      /\ waiters' = waiters /\ granted' = granted /\ pc' = pc /\ inc' = inc
  BY <1>b DEF Inv, NewLane
<1>1. created \in Nat \ {0} /\ n \in Incs /\ 1 .. created \subseteq Incs /\ n \notin 1 .. created
      /\ 1 .. n = (1 .. created) \cup {n}
  BY <1>a, <1>b DEF Incs
<1>2. \A c \in Cmds : inc[c] # n /\ inc[c] <= n
  <2> SUFFICES ASSUME NEW c \in Cmds
               PROVE  inc[c] # n /\ inc[c] <= n
    OBVIOUS
  <2>1. inc[c] \in 1 .. MaxIncs /\ inc[c] <= created
    BY <1>0 DEF KnownIncs, TypeOK, Incs
  <2>2. QED
    BY <1>a, <1>b, <2>1
<1>3. waiters[n] = <<>>
  <2>1. waiters[n] \in Seq(Cmds)
    BY <1>0, <1>1 DEF TypeOK
  <2>2. DOMAIN waiters[n] = {}
    <3> SUFFICES ASSUME NEW k \in DOMAIN waiters[n]
                 PROVE  FALSE
      OBVIOUS
    <3>1. waiters[n][k] \in Cmds
      BY <1>0, <1>1, WaitersAreCalls
    <3>2. inc[waiters[n][k]] = n
      BY <1>0, <1>1 DEF WaitersSleep
    <3>3. QED
      BY <1>2, <3>1, <3>2
  <2>3. Len(waiters[n]) \in Nat /\ DOMAIN waiters[n] = 1 .. Len(waiters[n])
    BY <2>1, LenProperties
  <2>4. Len(waiters[n]) = 0
    <3>1. Len(waiters[n]) # 0 => 1 \in DOMAIN waiters[n]
      BY <2>3
    <3>2. QED
      BY <2>2, <3>1
  <2>5. waiters[n] # <<>> => Len(waiters[n]) \in Nat \ {0}
    BY <2>1, EmptySeq
  <2>6. QED
    BY <2>4, <2>5
<1>4. SemOK' /\ created' \in Incs /\ lanes' \in [Lanes -> Incs \cup {NoInc}] /\ width' \in [Incs -> Nat]
  BY <1>0, <1>1 DEF SemOK, TypeOK
<1>5. WaitersSleep'
  BY <1>0 DEF WaitersSleep
<1>6. NoIdlePermit'
  BY <1>0, <1>1, <1>3 DEF NoIdlePermit, TypeOK
<1>7. PermitsConserved'
  <2>1. \A j \in Incs : Owners(j)' = Owners(j)
    BY <1>0 DEF Owners, Owns
  <2>2. Owners(n) = {}
    BY <1>2 DEF Owners
  <2>3. ASSUME NEW j \in 1 .. created
        PROVE  permits'[j] + Cardinality(Owners(j)') = width'[j]
    <3>1. permits'[j] = permits[j] /\ width'[j] = width[j]
      BY <1>0, <1>1 DEF TypeOK
    <3>2. QED
      BY <1>0, <1>1, <2>1, <3>1 DEF PermitsConserved
  <2>4. permits'[n] + Cardinality(Owners(n)') = width'[n]
    <3>1. permits'[n] = w /\ width'[n] = w
      BY <1>0, <1>1 DEF TypeOK
    <3>2. Cardinality(Owners(n)') = 0
      BY <1>1, <2>1, <2>2, FS_EmptySet
    <3>3. QED
      BY <3>1, <3>2
  <2>5. QED
    BY <1>0, <1>1, <2>3, <2>4 DEF PermitsConserved
<1>8. KnownIncs'
  <2>1. \A k \in Lanes : lanes'[k] <= n
    <3> SUFFICES ASSUME NEW k \in Lanes
                 PROVE  lanes'[k] <= n
      OBVIOUS
    <3>1. lanes[k] \in (1 .. MaxIncs) \cup {0} /\ lanes[k] <= created
      BY <1>0 DEF KnownIncs, TypeOK, Incs, NoInc
    <3>2. lanes'[k] = IF k = l THEN n ELSE lanes[k]
      BY <1>0 DEF TypeOK
    <3>3. QED
      BY <1>a, <1>b, <3>1, <3>2
  <2>2. QED
    BY <1>0, <1>2, <2>1 DEF KnownIncs
<1>9. QED
  BY <1>4, <1>5, <1>6, <1>7, <1>8

-----------------------------------------------------------------------------
(* The counter.                                                            *)

CountedPCs == {"waiting", "polling", "holding", "executing", "dropped"}

\* A step in which call c alone moves, and is counted after it where it was
\* before it.
LEMMA CounterStays ==
  ASSUME PendingCounts, pending' = pending, NEW c \in Cmds,
         \A d \in Cmds \ {c} : pc'[d] = pc[d] /\ inc'[d] = inc[d],
         pc'[c] \in CountedPCs <=> pc[c] \in CountedPCs,
         pc[c] \in CountedPCs => inc'[c] = inc[c]
  PROVE  PendingCounts'
<1>1. \A i \in Incs : Counted(i)' = Counted(i)
  BY DEF Counted, CountedPCs
<1>2. QED
  BY <1>1 DEF PendingCounts

\* A call that counts itself.
LEMMA CounterUp ==
  ASSUME TypeOK, PendingCounts, NEW c \in Cmds, Count(c)
  PROVE  PendingCounts' /\ pending' \in [Incs -> Nat]
<1>0. /\ pc[c] = "snapshot" /\ pc' = [pc EXCEPT ![c] = "waiting"] /\ inc' = inc
      /\ pending' = [pending EXCEPT ![inc[c]] = @ + 1]
  BY DEF Count, Goto
<1>1. ASSUME NEW i \in Incs
      PROVE  pending'[i] = Cardinality(Counted(i)')
  <2>1. CASE i = inc[c]
    <3>1. c \notin Counted(i) /\ Counted(i) \subseteq Cmds
      BY <1>0 DEF Counted
    <3>2. Counted(i)' = Counted(i) \cup {c}
      BY <1>0, <2>1 DEF Counted, TypeOK
    <3>3. Cardinality(Counted(i) \cup {c}) = Cardinality(Counted(i)) + 1
      BY <3>1, OneMore
    <3>4. pending'[i] = pending[i] + 1
      BY <1>0, <2>1 DEF TypeOK
    <3>5. QED
      BY <3>2, <3>3, <3>4 DEF PendingCounts
  <2>2. CASE i # inc[c]
    <3>1. Counted(i)' = Counted(i)
      BY <1>0, <2>2 DEF Counted, TypeOK
    <3>2. pending'[i] = pending[i]
      BY <1>0, <2>2 DEF TypeOK
    <3>3. QED
      BY <3>1, <3>2 DEF PendingCounts
  <2>3. QED
    BY <2>1, <2>2
<1>2. pending' \in [Incs -> Nat]
  BY <1>0 DEF TypeOK
<1>3. QED
  BY <1>1, <1>2 DEF PendingCounts

\* A counted call that takes itself off the counter: it was at least one.
LEMMA CounterDown ==
  ASSUME TypeOK, PendingCounts, NEW c \in Cmds, pc[c] \in CountedPCs,
         NEW lbl, lbl \notin CountedPCs, pc' = [pc EXCEPT ![c] = lbl], inc' = inc,
         pending' = [pending EXCEPT ![inc[c]] = @ - 1]
  PROVE  PendingCounts' /\ pending' \in [Incs -> Nat]
<1>1. ASSUME NEW i \in Incs
      PROVE  pending'[i] = Cardinality(Counted(i)') /\ pending'[i] \in Nat
  <2>1. CASE i = inc[c]
    <3>1. c \in Counted(i) /\ Counted(i) \subseteq Cmds
      BY <2>1 DEF Counted, CountedPCs
    <3>2. Counted(i)' = Counted(i) \ {c}
      BY <2>1 DEF Counted, CountedPCs, TypeOK
    <3>3. Cardinality(Counted(i)) = Cardinality(Counted(i) \ {c}) + 1 /\ Cardinality(Counted(i) \ {c}) \in Nat
      BY <3>1, OneLess
    <3>4. pending'[i] = pending[i] - 1
      BY <2>1 DEF TypeOK
    <3>5. pending[i] = Cardinality(Counted(i))
      BY DEF PendingCounts
    <3>6. QED
      BY <3>2, <3>3, <3>4, <3>5
  <2>2. CASE i # inc[c]
    <3>1. Counted(i)' = Counted(i)
      BY <2>2 DEF Counted, TypeOK
    <3>2. pending'[i] = pending[i] /\ pending[i] \in Nat
      BY <2>2 DEF TypeOK
    <3>3. QED
      BY <3>1, <3>2 DEF PendingCounts
  <2>3. QED
    BY <2>1, <2>2
<1>2. DOMAIN pending' = Incs /\ pending' = [i \in Incs |-> pending'[i]]
  BY DEF TypeOK
<1>3. QED
  BY <1>1, <1>2 DEF PendingCounts

-----------------------------------------------------------------------------
(* The invariant.                                                          *)

\* No lane is there at first.
LEMMA InitInv == Init => Inv
<1> SUFFICES ASSUME Init
             PROVE  Inv
  OBVIOUS
<1>1. 1 \in Incs /\ 0 \in Nat
  BY QueueAssumption DEF Incs
<1>2. <<>> \in Seq(Cmds)
  BY EmptySeq
<1>3. TypeOK
  BY <1>1, <1>2 DEF Init, TypeOK, PCs, NoInc
<1>4. KnownIncs
  BY DEF Init, KnownIncs, NoInc
<1>5. WaitersSleep
  BY DEF Init, WaitersSleep
<1>6. NoIdlePermit
  BY DEF Init, NoIdlePermit
<1>7. \A i : Owners(i) = {} /\ Counted(i) = {}
  BY DEF Init, Owners, Owns, Counted
<1>8. Cardinality({}) = 0
  BY FS_EmptySet
<1>9. PermitsConserved
  <2>1. permits[1] = 1 /\ width[1] = 1 /\ created = 1
    BY <1>1 DEF Init
  <2>2. \A i \in 1 .. created : i = 1
    BY <2>1
  <2>3. QED
    BY <1>7, <1>8, <2>1, <2>2 DEF PermitsConserved
<1>10. PendingCounts
  BY <1>7, <1>8 DEF Init, PendingCounts
<1>11. QED
  BY <1>3, <1>4, <1>5, <1>6, <1>9, <1>10 DEF Inv

\* What a step of a call owes the invariant: the rest follows.
LEMMA CallStep ==
  ASSUME Inv, UNCHANGED <<laneVars, rootCancelled, cancelled>>,
         pc' \in [Cmds -> PCs], inc' \in [Cmds -> Incs], \A c \in Cmds : inc'[c] <= created,
         pending' \in [Incs -> Nat], PendingCounts',
         SemOK', WaitersSleep', NoIdlePermit', PermitsConserved'
  PROVE  Inv'
BY DEF Inv, TypeOK, KnownIncs, SemOK, laneVars

\* Each step keeps the invariant.
LEMMA NextInv == Inv /\ [Next]_vars => Inv'
<1> SUFFICES ASSUME Inv, [Next]_vars
             PROVE  Inv'
  OBVIOUS
<1>0. TypeOK /\ KnownIncs /\ WaitersSleep /\ PermitsConserved /\ PendingCounts
  BY DEF Inv
<1>a. /\ \A c \in Cmds : inc[c] <= created
      /\ inc \in [Cmds -> Incs] /\ pc \in [Cmds -> PCs] /\ pending \in [Incs -> Nat]
  BY <1>0 DEF TypeOK, KnownIncs
<1>b. \A c \in Cmds : pc[c] \notin {"waiting"} =>
        \A j \in Incs : \A k \in DOMAIN waiters[j] : waiters[j][k] # c
  BY <1>0 DEF WaitersSleep
<1>c. \A c \in Cmds : c \in granted => pc[c] \in {"waiting", "polling"}
  BY <1>0 DEF WaitersSleep
\* A new incarnation.
<1>1. ASSUME NEW l \in Lanes, NEW w \in Nat, NewLane(l, w),
             rootCancelled' = rootCancelled, cancelled' \subseteq Incs
      PROVE  Inv'
  <2>1. /\ SemOK' /\ WaitersSleep' /\ NoIdlePermit' /\ PermitsConserved' /\ KnownIncs'
        /\ created' \in Incs /\ lanes' \in [Lanes -> Incs \cup {NoInc}] /\ width' \in [Incs -> Nat]
    BY <1>1, NewLaneKeeps
  <2>2. pending' = pending /\ pc' = pc /\ inc' = inc
    BY <1>1 DEF NewLane
  <2>3. PendingCounts'
    BY <1>0, <2>2 DEF PendingCounts, Counted
  <2>4. TypeOK'
    BY <1>0, <1>1, <2>1, <2>2 DEF TypeOK, SemOK
  <2>5. QED
    BY <2>1, <2>3, <2>4 DEF Inv
<1>2. ASSUME NEW l \in Lanes, NEW w \in Widths, AddLane(l, w)
      PROVE  Inv'
  <2>1. w \in Nat
    BY QueueAssumption
  <2>2. NewLane(l, w) /\ rootCancelled' = rootCancelled /\ cancelled' \subseteq Incs
    BY <1>0, <1>2 DEF AddLane, TypeOK
  <2>3. QED
    BY <1>1, <2>1, <2>2
<1>3. ASSUME NEW l \in Lanes, ClearLane(l)
      PROVE  Inv'
  <2>1. lanes[l] \in Incs
    BY <1>0, <1>3 DEF ClearLane, TypeOK
  <2>2. width[lanes[l]] \in Nat /\ cancelled' \subseteq Incs
    BY <1>0, <1>3, <2>1 DEF ClearLane, TypeOK
  <2>3. NewLane(l, width[lanes[l]]) /\ rootCancelled' = rootCancelled
    BY <1>3 DEF ClearLane
  <2>4. QED
    BY <1>1, <2>2, <2>3
<1>4. ASSUME UNCHANGED <<laneVars, semVars, pending, cancelled, pc, inc>>, rootCancelled' \in BOOLEAN
      PROVE  Inv'
  BY <1>4 DEF Inv, TypeOK, KnownIncs, WaitersSleep, NoIdlePermit, PermitsConserved, PendingCounts,
              Owners, Owns, Counted, laneVars, semVars
\* Steps of a call that leave the semaphore alone.
<1>5. ASSUME NEW c \in Cmds, UNCHANGED <<laneVars, semVars, cancelled, rootCancelled, inc>>,
             NEW lbl \in PCs, Goto(c, lbl), pending' \in [Incs -> Nat], PendingCounts',
             \A j \in Incs : \A k \in DOMAIN waiters[j] : waiters[j][k] # c,
             lbl \in {"holding", "executing"} <=> pc[c] \in {"holding", "executing"},
             c \in granted => lbl \in {"waiting", "polling"}
      PROVE  Inv'
  <2>1. /\ pc' = [pc EXCEPT ![c] = lbl] /\ inc' = inc /\ created' = created /\ width' = width
        /\ pc' \in [Cmds -> PCs] /\ pc'[c] = lbl /\ \A d \in Cmds \ {c} : pc'[d] = pc[d]
        /\ UNCHANGED semVars
    BY <1>a, <1>5 DEF Goto, laneVars
  <2>2. SemOK' /\ WaitersSleep' /\ NoIdlePermit' /\ PermitsConserved'
    BY <1>a, <1>5, <2>1, SemaphoreStays
  <2>3. UNCHANGED <<laneVars, rootCancelled, cancelled>>
    BY <1>5
  <2>4. QED
    BY <1>a, <1>5, <2>1, <2>2, <2>3, CallStep
<1>6. ASSUME NEW c \in Cmds, NEW l \in Lanes, Lookup(c, l)
      PROVE  Inv'
  <2>0. /\ pc[c] = "idle" /\ c \notin granted /\ ~Owns(c)
        /\ UNCHANGED <<laneVars, semVars, pending, cancelled, rootCancelled>>
    BY <1>c, <1>6 DEF Lookup, Owns
  <2>1. PICK lbl \in {"nolane", "snapshot"} : pc' = [pc EXCEPT ![c] = lbl]
    BY <1>6 DEF Lookup, Goto
  <2>2. /\ inc' \in [Cmds -> Incs]
        /\ \A d \in Cmds \ {c} : inc'[d] = inc[d]
        /\ \A d \in Cmds : inc'[d] <= created
    <3>1. CASE lanes[l] = NoInc
      BY <1>a, <1>6, <3>1 DEF Lookup
    <3>2. CASE lanes[l] # NoInc
      <4>1. inc' = [inc EXCEPT ![c] = lanes[l]]
        BY <1>6, <3>2 DEF Lookup
      <4>2. lanes[l] \in Incs /\ lanes[l] <= created
        BY <1>0, <3>2 DEF TypeOK, KnownIncs
      <4>3. QED
        BY <1>a, <4>1, <4>2
    <3>3. QED
      BY <3>1, <3>2
  <2>3. /\ pc' \in [Cmds -> PCs] /\ \A d \in Cmds \ {c} : pc'[d] = pc[d]
        /\ pc'[c] \in {"nolane", "snapshot"}
    BY <1>a, <2>1 DEF PCs, Settled
  <2>4. created' = created /\ width' = width /\ pending' = pending
    BY <2>0 DEF laneVars
  <2>5. PendingCounts'
    BY <1>0, <2>0, <2>2, <2>3, <2>4, CounterStays DEF CountedPCs
  <2>6. SemOK' /\ WaitersSleep' /\ NoIdlePermit' /\ PermitsConserved'
    BY <1>b, <2>0, <2>2, <2>3, <2>4, SemaphoreStays
  <2>7. QED
    BY <1>a, <2>0, <2>2, <2>3, <2>4, <2>5, <2>6, CallStep
<1>7. ASSUME NEW c \in Cmds, Count(c)
      PROVE  Inv'
  <2>1. PendingCounts' /\ pending' \in [Incs -> Nat]
    BY <1>0, <1>7, CounterUp
  <2>2. /\ pc[c] = "snapshot" /\ Goto(c, "waiting") /\ "waiting" \in PCs /\ c \notin granted
        /\ UNCHANGED <<laneVars, semVars, cancelled, rootCancelled, inc>>
    BY <1>c, <1>7 DEF Count, PCs
  <2>3. QED
    BY <1>5, <1>b, <2>1, <2>2
<1>8. ASSUME NEW c \in Cmds, CheckWaiting(c)
      PROVE  Inv'
  <2>1. /\ pc[c] = "waiting" /\ Goto(c, "polling") /\ "polling" \in PCs
        /\ UNCHANGED <<laneVars, semVars, pending, cancelled, rootCancelled, inc>>
        /\ (~Queued(c) \/ c \in granted)
    BY <1>8 DEF CheckWaiting, Woken, PCs
  <2>2. \A j \in Incs : \A k \in DOMAIN waiters[j] : waiters[j][k] # c
    BY <1>0, <2>1 DEF WaitersSleep, Queued
  <2>3. PendingCounts' /\ pending' \in [Incs -> Nat]
    <3>1. pc' = [pc EXCEPT ![c] = "polling"] /\ inc' = inc /\ pending' = pending
      BY <2>1 DEF Goto
    <3>2. \A d \in Cmds \ {c} : pc'[d] = pc[d] /\ inc'[d] = inc[d]
      BY <1>a, <3>1
    <3>3. pc'[c] = "polling"
      BY <1>a, <3>1
    <3>4. QED
      BY <1>0, <1>a, <2>1, <3>1, <3>2, <3>3, CounterStays DEF CountedPCs
  <2>4. QED
    BY <1>5, <2>1, <2>2, <2>3
\* A poll that stays within the second select!.
<1>9. ASSUME NEW c \in Cmds, NEW lbl \in {"holding", "executing"}, pc[c] \in {"holding", "executing"},
             Goto(c, lbl), UNCHANGED <<laneVars, semVars, pending, cancelled, rootCancelled, inc>>
      PROVE  Inv'
  <2>1. pc' = [pc EXCEPT ![c] = lbl] /\ inc' = inc /\ pending' = pending /\ lbl \in PCs
    BY <1>9 DEF Goto, PCs
  <2>2. pc'[c] = lbl /\ \A d \in Cmds \ {c} : pc'[d] = pc[d] /\ inc'[d] = inc[d]
    BY <1>a, <2>1
  <2>3. PendingCounts' /\ pending' \in [Incs -> Nat]
    BY <1>0, <1>9, <1>a, <2>1, <2>2, CounterStays DEF CountedPCs
  <2>4. c \notin granted
    BY <1>9, <1>c
  <2>5. QED
    BY <1>5, <1>9, <1>b, <2>1, <2>3, <2>4
<1>10. ASSUME NEW c \in Cmds, Acquire(c)
       PROVE  Inv'
  <2>1. SemOK' /\ WaitersSleep' /\ NoIdlePermit' /\ PermitsConserved'
    BY <1>10, AcquireKeeps
  <2>2. /\ pc[c] = "polling" /\ inc' = inc /\ pending' = pending
        /\ UNCHANGED <<laneVars, rootCancelled, cancelled>>
    BY <1>10 DEF Acquire
  <2>3. PICK lbl \in {"holding", "waiting"} : pc' = [pc EXCEPT ![c] = lbl]
    BY <1>10 DEF Acquire, Goto
  <2>4. /\ pc' \in [Cmds -> PCs] /\ pc'[c] \in {"holding", "waiting"}
        /\ \A d \in Cmds \ {c} : pc'[d] = pc[d] /\ inc'[d] = inc[d]
    BY <1>a, <2>2, <2>3 DEF PCs
  <2>5. PendingCounts'
    BY <1>0, <2>2, <2>4, CounterStays DEF CountedPCs
  <2>6. QED
    BY <1>a, <2>1, <2>2, <2>4, <2>5, CallStep
\* Departures.
<1>11. ASSUME NEW c \in Cmds, NEW lbl \in Settled, Goto(c, lbl), PendingCounts',
              pending' \in [Incs -> Nat], UNCHANGED <<laneVars, cancelled, rootCancelled, inc>>,
              \/ Owns(c) /\ Release(c)
              \/ pc[c] = "waiting" /\ LeaveSemaphore(c)
       PROVE  Inv'
  <2>1. Moves(c, lbl)
    BY <1>11 DEF Moves, Goto
  <2>2. SemOK' /\ WaitersSleep' /\ NoIdlePermit' /\ PermitsConserved'
    BY <1>11, <2>1, ReleaseKeeps, LeaveKeeps
  <2>3. pc' \in [Cmds -> PCs] /\ inc' = inc
    BY <1>11, <1>a DEF Goto, PCs
  <2>4. QED
    BY <1>11, <1>a, <2>2, <2>3, CallStep
<1>12. ASSUME NEW c \in Cmds, NEW lbl \in {"done", "cleared"}, Goto(c, lbl),
              pc[c] \in {"waiting", "holding", "executing"},
              pending' = [pending EXCEPT ![inc[c]] = @ - 1],
              UNCHANGED <<laneVars, cancelled, rootCancelled, inc>>,
              \/ Owns(c) /\ Release(c)
              \/ pc[c] = "waiting" /\ LeaveSemaphore(c)
       PROVE  Inv'
  <2>1. pc' = [pc EXCEPT ![c] = lbl] /\ inc' = inc /\ lbl \in Settled /\ lbl \notin CountedPCs /\ pc[c] \in CountedPCs
    BY <1>12 DEF Goto, Settled, CountedPCs
  <2>2. PendingCounts' /\ pending' \in [Incs -> Nat]
    BY <1>0, <1>12, <2>1, CounterDown
  <2>3. QED
    BY <1>11, <1>12, <2>1, <2>2
<1>13. ASSUME NEW c \in Cmds, RejectWaiting(c) \/ RejectRunning(c) \/ Finish(c)
       PROVE  Inv'
  BY <1>12, <1>13 DEF RejectWaiting, RejectRunning, Finish, Owns
<1>14. ASSUME NEW c \in Cmds, DropCall(c)
       PROVE  Inv'
  <2>1. /\ pc[c] \in {"waiting", "holding"} /\ Goto(c, "dropped") /\ "dropped" \in Settled
        /\ UNCHANGED <<laneVars, pending, cancelled, rootCancelled, inc>>
        /\ \/ Owns(c) /\ Release(c)
           \/ pc[c] = "waiting" /\ LeaveSemaphore(c)
    BY <1>14 DEF DropCall, Owns, Settled
  <2>2. pc' = [pc EXCEPT ![c] = "dropped"] /\ inc' = inc /\ pending' = pending
    BY <2>1 DEF Goto
  <2>3. pc'[c] = "dropped" /\ \A d \in Cmds \ {c} : pc'[d] = pc[d] /\ inc'[d] = inc[d]
    BY <1>a, <2>2
  <2>4. PendingCounts' /\ pending' \in [Incs -> Nat]
    BY <1>0, <1>a, <2>1, <2>2, <2>3, CounterStays DEF CountedPCs
  <2>5. QED
    BY <1>11, <2>1, <2>4
<1>15. CASE Drain
  BY <1>4, <1>15 DEF Drain
<1>16. CASE UNCHANGED vars
  BY <1>0, <1>4, <1>16 DEF vars, laneVars, semVars, TypeOK
<1>17. ASSUME NEW c \in Cmds, CheckRunning(c) \/ Yield(c)
       PROVE  Inv'
  BY <1>9, <1>17 DEF CheckRunning, Yield
<1>18. QED
  BY <1>2, <1>3, <1>6, <1>7, <1>8, <1>10, <1>13, <1>14, <1>15, <1>16, <1>17 DEF Next, Poll

-----------------------------------------------------------------------------
(* The theorems.                                                           *)

\* The inductive invariant holds in every reachable state.
THEOREM Invariance == Spec => []Inv
BY InitInv, NextInv, PTL DEF Spec

\* Every variable of the queue keeps its type; pending and the semaphores'
\* permits, unsigned in the code, are never taken below zero.
THEOREM TypeCorrect == Spec => []TypeOK
BY Invariance, PTL DEF Inv

\* Permits are neither lost nor made up by any interleaving of calls, clears,
\* drains and dropped futures.
THEOREM PermitsAreConserved == Spec => []PermitsConserved
BY Invariance, PTL DEF Inv

\* Whoever runs owns a permit.
LEMMA WidthFollows == Inv => WidthRespected
<1> SUFFICES ASSUME Inv, NEW i \in 1 .. created
             PROVE  Cardinality(Running(i)) <= width[i]
  BY DEF WidthRespected
<1>1. i \in Incs
  BY QueueAssumption DEF Inv, TypeOK, Incs
<1>2. Running(i) \subseteq Owners(i) /\ Owners(i) \subseteq Cmds
  BY DEF Running, Owners, Owns
<1>3. Cardinality(Running(i)) <= Cardinality(Owners(i)) /\ Cardinality(Running(i)) \in Nat
      /\ Cardinality(Owners(i)) \in Nat
  BY <1>2, CallsFinite, FS_Subset
<1>4. permits[i] \in Nat /\ permits[i] + Cardinality(Owners(i)) = width[i]
  BY <1>1 DEF Inv, TypeOK, PermitsConserved
<1>5. QED
  BY <1>3, <1>4

\* A lane of width one runs one command.
LEMMA OneRunsInLane ==
  ASSUME Inv, NEW i \in 1 .. created, width[i] = 1, NEW c \in Running(i), NEW d \in Running(i)
  PROVE  c = d
<1>1. Cardinality(Running(i)) <= 1
  BY WidthFollows DEF WidthRespected
<1>2. PICK S, T : S = Running(i) \ {c} /\ T = S \ {d}
  OBVIOUS
<1>3. Running(i) \subseteq Cmds /\ S \subseteq Cmds /\ T \subseteq Cmds
  BY <1>2 DEF Running
<1>4. /\ IsFiniteSet(Running(i)) /\ IsFiniteSet(S) /\ Cardinality(T) \in Nat
      /\ Cardinality(S) \in Nat /\ Cardinality(Running(i)) \in Nat
  BY <1>3, CallsFinite
<1>5. Cardinality(S) = Cardinality(Running(i)) - 1
  BY <1>2, <1>4, FS_RemoveElement
<1>6. ASSUME c # d PROVE FALSE
  <2>1. Cardinality(T) = Cardinality(S) - 1
    BY <1>2, <1>4, <1>6, FS_RemoveElement
  <2>2. QED
    BY <1>1, <1>4, <1>5, <2>1
<1>7. QED
  BY <1>6

\* No incarnation of a lane runs more commands at a time than its concurrency.
THEOREM WidthIsRespected == Spec => []WidthRespected
BY WidthFollows, Invariance, PTL

\* No permit lies idle in a semaphore somebody waits for.
THEOREM PermitsAreUsed == Spec => []NoIdlePermit
BY Invariance, PTL DEF Inv

\* pending is the number of commands counted in and not out again.
THEOREM PendingIsACount == Spec => []PendingCounts
BY Invariance, PTL DEF Inv

\* The books of every incarnation balance: permits, width and count.
THEOREM BooksAlwaysBalance == Spec => []BooksBalance
BY PermitsAreConserved, WidthIsRespected, PendingIsACount, PTL DEF BooksBalance

\* Nobody sleeps beside a free permit, and whoever waits is in the one queue
\* where a released permit looks for it.
THEOREM QueueStaysSound == Spec => []QueueIsSound
<1>1. Inv => QueueIsSound
  BY DEF Inv, QueueIsSound
<1>2. QED
  BY <1>1, Invariance, PTL

\* How a call comes by a permit: it takes a free one itself, or it is handed
\* one as the head of the queue.
LEMMA GainsPermit ==
  ASSUME Inv, [Next]_vars, NEW c \in Cmds, ~Owns(c), Owns(c)'
  PROVE  \/ permits[inc[c]] > 0
         \/ \E e \in Cmds : waiters[inc[e]] # <<>> /\ c = Head(waiters[inc[e]])
<1>0. pc \in [Cmds -> PCs] /\ c \notin granted /\ pc[c] \notin {"holding", "executing"}
  BY DEF Inv, TypeOK, Owns
<1> DEFINE Goal == \/ permits[inc[c]] > 0
                   \/ \E e \in Cmds : waiters[inc[e]] # <<>> /\ c = Head(waiters[inc[e]])
\* A step that takes no call into the second select! has handed a permit over.
<1>1. ASSUME NEW d \in Cmds, NEW lbl, Goto(d, lbl), lbl \notin {"holding", "executing"},
             granted' \subseteq granted \/ Release(d) \/ LeaveSemaphore(d)
      PROVE  Goal
  <2>1. pc'[c] \notin {"holding", "executing"}
    BY <1>0, <1>1 DEF Goto
  <2>2. c \in granted' \ granted
    BY <1>0, <2>1 DEF Owns
  <2>3. Release(d)
    BY <1>1, <2>2 DEF LeaveSemaphore, semVars
  <2>4. QED
    BY <2>2, <2>3 DEF Release
<1>2. ASSUME NEW d \in Cmds, Acquire(d)
      PROVE  Goal
  <2>1. CASE d = c
    BY <1>0, <1>2, <2>1 DEF Acquire, Goto, Owns
  <2>2. CASE d # c
    BY <1>0, <1>2, <2>2 DEF Acquire, Goto, Owns
  <2>3. QED
    BY <2>1, <2>2
<1>3. ASSUME NEW d \in Cmds, NEW lbl, Goto(d, lbl), pc[d] \in {"holding", "executing"}, granted' = granted
      PROVE  Goal
  BY <1>0, <1>3 DEF Goto, Owns
<1>4. ASSUME NEW d \in Cmds, Poll(d)
      PROVE  Goal
  <2>1. CASE Count(d)
    BY <1>1, <2>1 DEF Count, semVars
  <2>2. CASE CheckWaiting(d)
    BY <1>1, <2>2 DEF CheckWaiting, semVars
  <2>3. CASE RejectWaiting(d)
    BY <1>1, <2>3 DEF RejectWaiting
  <2>4. CASE Acquire(d)
    BY <1>2, <2>4
  <2>5. CASE CheckRunning(d)
    BY <1>3, <2>5 DEF CheckRunning, semVars
  <2>6. CASE RejectRunning(d)
    BY <1>1, <2>6 DEF RejectRunning
  <2>7. CASE Yield(d)
    BY <1>3, <2>7 DEF Yield, semVars
  <2>8. CASE Finish(d)
    BY <1>1, <2>8 DEF Finish
  <2>9. QED
    BY <1>4, <2>1, <2>2, <2>3, <2>4, <2>5, <2>6, <2>7, <2>8 DEF Poll
<1>5. ASSUME NEW d \in Cmds, NEW l \in Lanes, Lookup(d, l)
      PROVE  Goal
  <2>1. PICK lbl \in {"nolane", "snapshot"} : Goto(d, lbl)
    BY <1>5 DEF Lookup
  <2>2. QED
    BY <1>1, <1>5, <2>1 DEF Lookup, semVars
<1>6. ASSUME NEW d \in Cmds, DropCall(d)
      PROVE  Goal
  <2>1. Goto(d, "dropped") /\ (Release(d) \/ LeaveSemaphore(d))
    BY <1>6 DEF DropCall
  <2>2. QED
    BY <1>1, <2>1
<1>7. ASSUME UNCHANGED <<pc, granted>>
      PROVE  FALSE
  BY <1>7 DEF Owns
<1>8. QED
  BY <1>4, <1>5, <1>6, <1>7 DEF Next, AddLane, ClearLane, NewLane, Drain, vars, semVars

\* A call that gets a permit was ahead of everybody who goes on waiting for
\* one of the same incarnation.
THEOREM FirstComeIsServed == Spec => FirstComeFirstServed
<1>1. ASSUME Inv, [Next]_vars, NEW c \in Cmds, NEW d \in Cmds, ~Owns(c), Owns(c)',
             c # d, inc[d] = inc[c], Queued(d)
      PROVE  /\ Queued(c)
             /\ \A j, k \in DOMAIN waiters[inc[c]] :
                  waiters[inc[c]][j] = c /\ waiters[inc[c]][k] = d => j < k
  <2>0. /\ TypeOK /\ WaitersSleep /\ NoIdlePermit
        /\ \A e \in Cmds : inc[e] \in Incs /\ waiters[inc[e]] \in Seq(Cmds)
    BY <1>1 DEF Inv, TypeOK
  <2>1. PICK k \in DOMAIN waiters[inc[d]] : waiters[inc[d]][k] = d
    BY <1>1 DEF Queued
  <2>2. ~(permits[inc[c]] > 0)
    BY <1>1, <2>0, <2>1 DEF NoIdlePermit
  <2>3. PICK e \in Cmds : waiters[inc[e]] # <<>> /\ c = Head(waiters[inc[e]])
    BY <1>1, <2>2, GainsPermit
  <2>4. 1 \in DOMAIN waiters[inc[e]] /\ c = waiters[inc[e]][1]
    BY <2>0, <2>3, TailOfQueue
  <2>5. inc[c] = inc[e]
    BY <2>0, <2>4 DEF WaitersSleep
  <2>6. \A j \in DOMAIN waiters[inc[c]] :
          j \in Nat \ {0} /\ (waiters[inc[c]][j] = c => j = 1)
    BY <2>0, <2>4, <2>5, WaitersAreCalls DEF WaitersSleep
  <2>7. QED
    BY <1>1, <2>4, <2>5, <2>6 DEF Queued
<1>2. ASSUME Inv, [Next]_vars
      PROVE  \A c, d \in Cmds :
               /\ ~Owns(c) /\ Owns(c)'
               /\ c # d /\ inc[d] = inc[c] /\ Queued(d) /\ Queued(d)'
               => /\ Queued(c)
                  /\ \A j, k \in DOMAIN waiters[inc[c]] :
                       waiters[inc[c]][j] = c /\ waiters[inc[c]][k] = d => j < k
  BY <1>1, <1>2
<1>3. QED
  BY <1>2, Invariance, PTL DEF Spec, FirstComeFirstServed

-----------------------------------------------------------------------------
(* The queue and its contract.                                             *)

\* clear_lane only cancels incarnations the map has known.
CancelledAreKnown == cancelled \subseteq 1..created

\* The phases of all calls, as the contract sees them.
Phases == [c \in Cmds |-> PhaseOf(c)]

-----------------------------------------------------------------------------
(* Cancelled incarnations.                                                 *)

\* The invariant the mapping needs.
LEMMA CancelledInv == Spec => [](Inv /\ CancelledAreKnown)
<1>1. Init => CancelledAreKnown
  BY DEF Init, CancelledAreKnown
<1>2. Inv /\ CancelledAreKnown /\ [Next]_vars => CancelledAreKnown'
  <2> SUFFICES ASSUME Inv, CancelledAreKnown, [Next]_vars PROVE CancelledAreKnown'
    OBVIOUS
  <2>0. created \in Nat
    BY QueueAssumption DEF Inv, TypeOK, Incs
  <2>1. ASSUME NEW l \in Lanes, NEW w \in Widths, AddLane(l, w) PROVE CancelledAreKnown'
    BY <2>0, <2>1 DEF AddLane, NewLane, CancelledAreKnown
  <2>2. ASSUME NEW l \in Lanes, ClearLane(l) PROVE CancelledAreKnown'
    <3>1. lanes[l] \in 1 .. created
      BY <2>0, <2>2, QueueAssumption DEF ClearLane, Inv, TypeOK, KnownIncs, Incs, NoInc
    <3>2. QED
      BY <2>0, <2>2, <3>1 DEF ClearLane, NewLane, CancelledAreKnown
  <2>3. ASSUME Drain PROVE CancelledAreKnown'
    BY <2>3 DEF Drain, laneVars, CancelledAreKnown
  <2>4. ASSUME NEW c \in Cmds, NEW l \in Lanes, Lookup(c, l) PROVE CancelledAreKnown'
    BY <2>4 DEF Lookup, laneVars, CancelledAreKnown
  <2>5. ASSUME NEW c \in Cmds, Poll(c) \/ DropCall(c) PROVE CancelledAreKnown'
    BY <2>5 DEF Poll, DropCall, Count, CheckWaiting, RejectWaiting, Acquire, CheckRunning,
       RejectRunning, Yield, Finish, laneVars, CancelledAreKnown
  <2>6. ASSUME UNCHANGED vars PROVE CancelledAreKnown'
    BY <2>6 DEF vars, CancelledAreKnown
  <2>7. QED
    BY <2>1, <2>2, <2>3, <2>4, <2>5, <2>6 DEF Next
<1>3. QED
  BY <1>1, <1>2, Invariance, PTL DEF Spec

-----------------------------------------------------------------------------
(* The mapping of phases.                                                  *)

\* A step of one call changes its phase only.
LEMMA OnePhaseMoves ==
  ASSUME TypeOK, NEW c \in Cmds, NEW lbl, pc' = [pc EXCEPT ![c] = lbl]
  PROVE  Phases' = [Phases EXCEPT ![c] = PhaseOf(c)']
<1>1. \A d \in Cmds : d # c => pc'[d] = pc[d]
  BY DEF TypeOK
<1>2. \A d \in Cmds : d # c => PhaseOf(d)' = PhaseOf(d)
  BY <1>1 DEF PhaseOf
<1>3. QED
  BY <1>2 DEF Phases

\* A step that moves no call changes no phase.
LEMMA NoPhaseMoves ==
  ASSUME pc' = pc
  PROVE  Phases' = Phases
BY DEF Phases, PhaseOf

\* In a slot are the commands that run.
LEMMA SlotsAreRunning ==
  ASSUME TypeOK, NEW i
  PROVE  Contract!Using(i) = Running(i)
<1>1. \A c \in Cmds : (PhaseOf(c) = "in_slot") = (pc[c] \in {"holding", "executing"})
  BY DEF PhaseOf, TypeOK, PCs, Settled
<1>2. QED
  BY <1>1 DEF Contract!Using, Running

-----------------------------------------------------------------------------
(* The refinement.                                                         *)

\* A new queue is an open contract.
LEMMA InitRefines == Init => Contract!CInit
<1> SUFFICES ASSUME Init PROVE Contract!CInit
  OBVIOUS
<1>1. 1 \in Incs
  BY QueueAssumption DEF Incs
<1>2. lanes \in [Lanes -> Incs \cup {0}]
  BY <1>1 DEF Init, NoInc
<1>3. width \in [Incs -> Widths \cup {0, 1}]
  BY DEF Init
<1>4. Phases = [c \in Cmds |-> "new"]
  BY DEF Init, Phases, PhaseOf
<1>5. inc \in [Cmds -> Incs]
  BY <1>1 DEF Init
<1>6. QED
  BY <1>2, <1>3, <1>4, <1>5 DEF Init, Contract!CInit, Phases

\* Whoever gets a permit finds a free slot.
LEMMA PermitMeansSlot ==
  ASSUME Inv, NEW c \in Cmds, pc[c] = "polling",
         c \in granted \/ permits[inc[c]] > 0
  PROVE  Cardinality(Running(inc[c])) < width[inc[c]]
<1> DEFINE i == inc[c]
<1>1. i \in Incs /\ i \in 1 .. created /\ permits[i] \in Nat
  BY QueueAssumption DEF Inv, TypeOK, KnownIncs, Incs
<1>2. permits[i] + Cardinality(Owners(i)) = width[i]
  BY <1>1 DEF Inv, PermitsConserved
<1>3. /\ Running(i) \subseteq Owners(i)
      /\ Owners(i) \subseteq Cmds
      /\ c \notin Running(i)
  BY DEF Running, Owners, Owns
<1>4. /\ IsFiniteSet(Owners(i)) /\ Cardinality(Owners(i)) \in Nat
      /\ Cardinality(Running(i)) \in Nat
  BY <1>3, CallsFinite
<1>5. Cardinality(Running(i)) <= Cardinality(Owners(i))
  BY <1>3, <1>4, FS_Subset
<1>6. CASE permits[i] > 0
  BY <1>1, <1>2, <1>4, <1>5, <1>6
<1>7. CASE c \in granted
  <2>1. c \in Owners(i) /\ Running(i) \subseteq Owners(i) \ {c}
    BY <1>3, <1>7 DEF Owners, Owns
  <2>2. /\ Cardinality(Owners(i)) = Cardinality(Owners(i) \ {c}) + 1
        /\ Cardinality(Owners(i) \ {c}) \in Nat
    BY <1>3, <2>1, OneLess
  <2>3. Cardinality(Running(i)) <= Cardinality(Owners(i) \ {c})
    BY <1>3, <2>1, CallsFinite, FS_Subset
  <2>4. QED
    BY <1>1, <1>2, <1>4, <2>2, <2>3
<1>8. QED
  BY <1>6, <1>7

\* Every step of the queue is a step of the contract, or changes nothing there.
LEMMA NextRefines ==
  Inv /\ CancelledAreKnown /\ [Next]_vars => [Contract!CNext]_(Contract!cvars)
<1> SUFFICES ASSUME Inv, CancelledAreKnown, [Next]_vars
             PROVE  Contract!CNext \/ UNCHANGED Contract!cvars
  OBVIOUS
<1>0. TypeOK /\ KnownIncs /\ created \in Nat /\ created \in Incs
  <2>1. TypeOK /\ KnownIncs
    BY DEF Inv
  <2>2. created \in Incs
    BY <2>1 DEF TypeOK
  <2>3. QED
    BY <2>1, <2>2, QueueAssumption DEF Incs
<1>a. \A c \in Cmds : inc[c] # created + 1 /\ inc[c] \in Incs
  BY <1>0 DEF KnownIncs, TypeOK, Incs
<1>1. ASSUME NEW l \in Lanes, NEW w \in Widths, AddLane(l, w) PROVE Contract!CNext
  <2>1. /\ created + 1 \in Incs
        /\ lanes' = [lanes EXCEPT ![l] = created + 1]
        /\ width' = [width EXCEPT ![created + 1] = w]
        /\ lanes[l] = 0 /\ cancelled' = cancelled /\ rootCancelled' = rootCancelled /\ inc' = inc
    BY <1>0, <1>1, QueueAssumption DEF AddLane, NewLane, Incs, NoInc
  <2>2. Phases' = Phases
    BY <1>1, NoPhaseMoves DEF AddLane, NewLane
  <2>3. Contract!OpenNew(l)
    BY <1>a, <2>1, <2>2 DEF Contract!OpenNew, Phases
  <2>4. QED
    BY <2>3 DEF Contract!CNext
<1>2. ASSUME NEW l \in Lanes, ClearLane(l) PROVE Contract!CNext
  <2>1. /\ created + 1 \in Incs
        /\ lanes' = [lanes EXCEPT ![l] = created + 1]
        /\ width' = [width EXCEPT ![created + 1] = width[lanes[l]]]
        /\ lanes[l] # 0 /\ rootCancelled' = rootCancelled /\ inc' = inc
        /\ cancelled' = cancelled \cup {lanes[l]}
    BY <1>0, <1>2, QueueAssumption DEF ClearLane, NewLane, Incs, NoInc
  <2>2. created + 1 \notin cancelled'
    <3>1. lanes[l] # created + 1
      BY <1>0, QueueAssumption DEF KnownIncs, TypeOK, Incs, NoInc
    <3>2. created + 1 \notin cancelled
      BY <1>0 DEF CancelledAreKnown
    <3>3. QED
      BY <2>1, <3>1, <3>2
  <2>3. Phases' = Phases
    BY <1>2, NoPhaseMoves DEF ClearLane, NewLane
  <2>4. Contract!Reopen(l)
    BY <1>a, <2>1, <2>2, <2>3 DEF Contract!Reopen, Phases
  <2>5. QED
    BY <2>4 DEF Contract!CNext
<1>3. ASSUME Drain PROVE Contract!CNext
  <2>1. Phases' = Phases
    BY <1>3, NoPhaseMoves DEF Drain
  <2>2. Contract!Shut
    BY <1>3, <2>1 DEF Drain, laneVars, Contract!Shut, Phases
  <2>3. QED
    BY <2>2 DEF Contract!CNext
<1>4. ASSUME NEW c \in Cmds, NEW l \in Lanes, Lookup(c, l) PROVE Contract!CNext
  <2>1. Phases[c] = "new"
    BY <1>4 DEF Lookup, Phases, PhaseOf
  <2>2. CASE lanes[l] = NoInc
    <3>1. pc' = [pc EXCEPT ![c] = "nolane"] /\ inc' = inc
      BY <1>4, <2>2 DEF Lookup, Goto
    <3>2. PhaseOf(c)' = "refused"
      BY <1>0, <3>1 DEF PhaseOf, TypeOK
    <3>3. Phases' = [Phases EXCEPT ![c] = "refused"]
      BY <1>0, <3>1, <3>2, OnePhaseMoves
    <3>4. Contract!Admit(c)
      BY <1>4, <2>1, <2>2, <3>1, <3>3 DEF Lookup, laneVars, Contract!Admit, Phases, NoInc
    <3>5. QED
      BY <3>4 DEF Contract!CNext
  <2>3. CASE lanes[l] # NoInc
    <3>1. pc' = [pc EXCEPT ![c] = "snapshot"] /\ inc' = [inc EXCEPT ![c] = lanes[l]]
      BY <1>4, <2>3 DEF Lookup, Goto
    <3>2. PhaseOf(c)' = "admitted"
      BY <1>0, <3>1 DEF PhaseOf, TypeOK
    <3>3. Phases' = [Phases EXCEPT ![c] = "admitted"]
      BY <1>0, <3>1, <3>2, OnePhaseMoves
    <3>4. Contract!Admit(c)
      BY <1>4, <2>1, <2>3, <3>1, <3>3 DEF Lookup, laneVars, Contract!Admit, Phases, NoInc
    <3>5. QED
      BY <3>4 DEF Contract!CNext
  <2>4. QED
    BY <2>2, <2>3
<1>5. ASSUME NEW c \in Cmds, Count(c) \/ CheckWaiting(c) \/ CheckRunning(c) \/ Yield(c)
      PROVE  UNCHANGED Contract!cvars
  <2>1. /\ pc' = [pc EXCEPT ![c] = pc'[c]]
        /\ \/ pc[c] \in {"snapshot", "waiting"} /\ pc'[c] \in {"waiting", "polling"}
           \/ pc[c] \in {"holding", "executing"} /\ pc'[c] \in {"holding", "executing"}
    BY <1>0, <1>5 DEF Count, CheckWaiting, CheckRunning, Yield, Goto, TypeOK
  <2>2. PhaseOf(c)' = PhaseOf(c)
    BY <2>1 DEF PhaseOf
  <2>3. Phases' = Phases
    <3>1. Phases' = [Phases EXCEPT ![c] = PhaseOf(c)]
      BY <1>0, <2>1, <2>2, OnePhaseMoves
    <3>2. QED
      BY <3>1 DEF Phases
  <2>4. UNCHANGED <<lanes, width, cancelled, rootCancelled, inc>>
    BY <1>5 DEF Count, CheckWaiting, CheckRunning, Yield, laneVars
  <2>5. QED
    BY <2>3, <2>4 DEF Contract!cvars, Phases
<1>6. ASSUME NEW c \in Cmds, Acquire(c) PROVE Contract!CNext \/ UNCHANGED Contract!cvars
  <2>0. UNCHANGED <<lanes, width, cancelled, rootCancelled, inc>> /\ pc[c] = "polling"
    BY <1>6 DEF Acquire, laneVars
  <2>1. Phases[c] = "admitted"
    BY <2>0 DEF Phases, PhaseOf
  <2>2. CASE c \in granted \/ permits[inc[c]] > 0
    <3>1. pc' = [pc EXCEPT ![c] = "holding"]
      BY <1>6, <2>2 DEF Acquire, Goto
    <3>2. PhaseOf(c)' = "in_slot"
      BY <1>0, <3>1 DEF PhaseOf, TypeOK
    <3>3. Phases' = [Phases EXCEPT ![c] = "in_slot"]
      BY <1>0, <3>1, <3>2, OnePhaseMoves
    <3>4. Contract!Cardinality(Contract!Using(inc[c])) < width[inc[c]]
      <4>1. Contract!Using(inc[c]) = Running(inc[c])
        BY <1>0, SlotsAreRunning
      <4>2. Contract!Cardinality(Running(inc[c])) = Cardinality(Running(inc[c]))
        BY DEF Contract!Cardinality, Cardinality
      <4>3. QED
        BY <2>0, <2>2, <4>1, <4>2, PermitMeansSlot
    <3>5. Contract!TakeSlot(c)
      BY <2>0, <2>1, <3>3, <3>4 DEF Contract!TakeSlot, Phases
    <3>6. QED
      BY <3>5 DEF Contract!CNext
  <2>3. CASE ~(c \in granted \/ permits[inc[c]] > 0)
    <3>1. pc' = [pc EXCEPT ![c] = "waiting"]
      BY <1>6, <2>3 DEF Acquire, Goto
    <3>2. PhaseOf(c)' = PhaseOf(c)
      BY <1>0, <2>0, <3>1 DEF PhaseOf, TypeOK
    <3>3. Phases' = Phases
      <4>1. Phases' = [Phases EXCEPT ![c] = PhaseOf(c)]
        BY <1>0, <3>1, <3>2, OnePhaseMoves
      <4>2. QED
        BY <4>1 DEF Phases
    <3>4. QED
      BY <2>0, <3>3 DEF Contract!cvars, Phases
  <2>4. QED
    BY <2>2, <2>3
<1>7. ASSUME NEW c \in Cmds, RejectWaiting(c) \/ RejectRunning(c) PROVE Contract!CNext
  <2>1. /\ pc[c] \in {"waiting", "holding"} /\ Cancelled(inc[c])
        /\ pc' = [pc EXCEPT ![c] = "cleared"]
        /\ UNCHANGED <<lanes, width, cancelled, rootCancelled, inc>>
    BY <1>7 DEF RejectWaiting, RejectRunning, Goto, laneVars
  <2>2. Phases[c] \in {"admitted", "in_slot"}
    BY <2>1 DEF Phases, PhaseOf
  <2>3. PhaseOf(c)' = "turned_away"
    BY <1>0, <2>1 DEF PhaseOf, TypeOK
  <2>4. Phases' = [Phases EXCEPT ![c] = "turned_away"]
    BY <1>0, <2>1, <2>3, OnePhaseMoves
  <2>5. Contract!TurnAway(c)
    BY <2>1, <2>2, <2>4 DEF Contract!TurnAway, Contract!Closed, Cancelled, Phases
  <2>6. QED
    BY <2>5 DEF Contract!CNext
<1>8. ASSUME NEW c \in Cmds, Finish(c) PROVE Contract!CNext
  <2>1. /\ pc[c] = "executing"
        /\ pc' = [pc EXCEPT ![c] = "done"]
        /\ UNCHANGED <<lanes, width, cancelled, rootCancelled, inc>>
    BY <1>8 DEF Finish, Goto, laneVars
  <2>2. Phases[c] = "in_slot"
    BY <2>1 DEF Phases, PhaseOf
  <2>3. PhaseOf(c)' = "completed"
    BY <1>0, <2>1 DEF PhaseOf, TypeOK
  <2>4. Phases' = [Phases EXCEPT ![c] = "completed"]
    BY <1>0, <2>1, <2>3, OnePhaseMoves
  <2>5. Contract!Complete(c)
    BY <2>1, <2>2, <2>4 DEF Contract!Complete, Phases
  <2>6. QED
    BY <2>5 DEF Contract!CNext
<1>9. ASSUME NEW c \in Cmds, DropCall(c) PROVE Contract!CNext
  <2>1. /\ pc[c] \in {"waiting", "holding"}
        /\ pc' = [pc EXCEPT ![c] = "dropped"]
        /\ UNCHANGED <<lanes, width, cancelled, rootCancelled, inc>>
    BY <1>9 DEF DropCall, Goto, laneVars
  <2>2. Phases[c] \in {"admitted", "in_slot"}
    BY <2>1 DEF Phases, PhaseOf
  <2>3. PhaseOf(c)' = "abandoned"
    BY <1>0, <2>1 DEF PhaseOf, TypeOK
  <2>4. Phases' = [Phases EXCEPT ![c] = "abandoned"]
    BY <1>0, <2>1, <2>3, OnePhaseMoves
  <2>5. Contract!Abandon(c)
    BY <2>1, <2>2, <2>4 DEF Contract!Abandon, Phases
  <2>6. QED
    BY <2>5 DEF Contract!CNext
<1>10. ASSUME UNCHANGED vars PROVE UNCHANGED Contract!cvars
  <2>1. Phases' = Phases
    BY <1>10, NoPhaseMoves DEF vars
  <2>2. QED
    BY <1>10, <2>1 DEF vars, Contract!cvars, Phases
<1>11. QED
  BY <1>1, <1>2, <1>3, <1>4, <1>5, <1>6, <1>7, <1>8, <1>9, <1>10 DEF Next, Poll

\* Whatever calls, clears, drains and dropped futures do, the queue does
\* nothing the contract does not allow: slots are never overbooked, and only a
\* clear or a drain turns an admitted call away.
THEOREM QueueRefinesContract ==
  Spec => Contract!CInit /\ [][Contract!CNext]_(Contract!cvars)
<1>1. Spec => Contract!CInit
  BY InitRefines, PTL DEF Spec
<1>2. Spec => [][Contract!CNext]_(Contract!cvars)
  BY CancelledInv, NextRefines, PTL DEF Spec
<1>3. QED
  BY <1>1, <1>2
=============================================================================

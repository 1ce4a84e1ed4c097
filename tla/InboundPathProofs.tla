------------------------- MODULE InboundPathProofs --------------------------
(***************************************************************************)
(* Proofs about the way of an inbound update, for any number of updates    *)
(* and of lives of the poller, about the session key its conversation is   *)
(* kept under, for any spellings, peers and links, and about the message   *)
(* that an event becomes, for the events of all platforms.                 *)
(*                                                                         *)
(* The argument about the poller is about the offset: what lies below it   *)
(* is out of the poller's hands, but for the message in hand, and a batch  *)
(* begins where the offset or the server's confirmation ends and has no    *)
(* gaps.  The argument about the keys is that a key has a head, whose      *)
(* length the kind and the scope decide, and then the peer; and that what  *)
(* is normal already is read back as it was written.  The argument about   *)
(* the messages is that no platform sets the field for commands, so that   *)
(* only finalizing a message does.                                         *)
(***************************************************************************)
EXTENDS InboundPath, Conversations, FiniteSetTheorems, SequenceTheorems, WellFoundedInduction, TLAPS

InHand == pc \in {"download", "forward"}

\* A batch has no gaps and starts at the offset, or with the message in hand.
BatchOK ==
  /\ \A k \in DOMAIN batch : batch[k] = batch[1] + (k - 1) /\ batch[k] <= arrived
  /\ pc = "batch" /\ batch # <<>> => offset <= batch[1]
  /\ InHand => batch # <<>> /\ offset = batch[1] + 1 /\ batch[1] \in Messages
  /\ pc = "download" => batch[1] \in Documents

\* What was forwarded lies below the offset and the message in hand.
LogOK ==
  /\ OnceInOrder
  /\ \A k \in DOMAIN log : log[k] < offset /\ (InHand => log[k] < batch[1])

\* What lies below the offset was passed on, and a batch leaves nothing out.
OffsetOK ==
  ~crashed /\ loop # "ended" =>
    /\ \A u \in Messages : u < offset /\ ~(InHand /\ u = batch[1]) => Passed(u)
    /\ pc = "batch" /\ batch # <<>> =>
         \A u \in Messages : u < batch[1] => u <= confirmed \/ u < offset

Inv ==
  /\ TypeOK
  /\ BatchOK
  /\ LogOK
  /\ NothingSkipped
  /\ OffsetOK

-----------------------------------------------------------------------------
(* Updates and sequences.                                                  *)

\* Updates are positive numbers.
LEMMA UpdatesAreNumbers ==
  /\ Cardinality(Updates) \in Nat
  /\ \A u \in Updates : u \in Nat \ {0}
  /\ Messages \subseteq Updates /\ Documents \subseteq Messages
  /\ MaxLives \in Nat
<1>1. Cardinality(Updates) \in Nat
  BY InboundAssumption, FS_CardinalityType
<1>2. \A u \in 1..Cardinality(Updates) : u \in Nat \ {0}
  BY <1>1
<1>3. QED
  BY <1>1, <1>2, InboundAssumption

\* The rest of a sequence is the sequence, one place on.
LEMMA RestOfSeq ==
  ASSUME NEW S, NEW q \in Seq(S), q # <<>>
  PROVE  /\ Tail(q) \in Seq(S)
         /\ Head(q) = q[1] /\ q[1] \in S /\ 1 \in DOMAIN q
         /\ \A k \in DOMAIN Tail(q) : k \in Nat \ {0} /\ k + 1 \in DOMAIN q /\ Tail(q)[k] = q[k+1]
         /\ \A k \in DOMAIN q : k \in Nat \ {0} /\ (k = 1 \/ (k - 1 \in DOMAIN Tail(q) /\ Tail(q)[k-1] = q[k]))
         /\ Tail(q) # <<>> => 2 \in DOMAIN q /\ Tail(q)[1] = q[2]
<1>1. Len(q) \in Nat /\ Len(q) > 0 /\ DOMAIN q = 1..Len(q)
  BY EmptySeq, LenProperties
<1>2. /\ Tail(q) \in Seq(S) /\ Len(Tail(q)) = Len(q) - 1
      /\ \A k \in 1..Len(Tail(q)) : Tail(q)[k] = q[k+1]
  BY HeadTailProperties
<1>3. DOMAIN Tail(q) = 1..(Len(q) - 1)
  BY <1>1, <1>2, LenProperties
<1>4. Head(q) = q[1] /\ q[1] \in S
  BY <1>1, ElementOfSeq, HeadTailProperties
<1>5. Tail(q) # <<>> => Len(q) > 1
  BY <1>1, <1>2, EmptySeq
<1>6. QED
  BY <1>1, <1>2, <1>3, <1>4, <1>5

\* A longer sequence keeps its places.
LEMMA LongerSeq ==
  ASSUME NEW S, NEW q \in Seq(S), NEW x \in S
  PROVE  /\ Append(q, x) \in Seq(S)
         /\ \A k \in DOMAIN q : k \in DOMAIN Append(q, x) /\ Append(q, x)[k] = q[k] /\ k \in Nat
         /\ \E n \in Nat : /\ n \in DOMAIN Append(q, x) /\ Append(q, x)[n] = x
                           /\ \A k \in DOMAIN Append(q, x) : k = n \/ (k \in DOMAIN q /\ k < n)
<1>1. Len(q) \in Nat /\ DOMAIN q = 1..Len(q)
  BY LenProperties
<1>2. /\ Append(q, x) \in Seq(S) /\ Len(Append(q, x)) = Len(q) + 1
      /\ \A k \in 1..Len(q) : Append(q, x)[k] = q[k]
      /\ Append(q, x)[Len(q) + 1] = x
  BY AppendProperties
<1>3. DOMAIN Append(q, x) = 1..(Len(q) + 1)
  BY <1>1, <1>2, LenProperties
<1>4. /\ Len(q) + 1 \in Nat /\ Len(q) + 1 \in DOMAIN Append(q, x)
      /\ \A k \in DOMAIN Append(q, x) : k = Len(q) + 1 \/ (k \in DOMAIN q /\ k < Len(q) + 1)
  BY <1>1, <1>3
<1>5. QED
  BY <1>1, <1>2, <1>3, <1>4

\* The facts about types that the steps use.
LEMMA Types ==
  ASSUME TypeOK
  PROVE  /\ arrived \in Nat /\ confirmed \in Nat /\ confirmed <= arrived
         /\ offset \in Nat /\ offset <= arrived + 1
         /\ batch \in Seq(Updates) /\ \A k \in DOMAIN batch : batch[k] \in Updates /\ k \in Nat \ {0}
         /\ log \in Seq(Messages) /\ \A k \in DOMAIN log : log[k] \in Messages /\ k \in Nat
         /\ chan \in Seq(Message) /\ lives \in Nat
<1>1. arrived \in Nat
  BY UpdatesAreNumbers DEF TypeOK
<1>2. confirmed \in Nat /\ confirmed <= arrived /\ offset \in Nat /\ offset <= arrived + 1
  BY <1>1 DEF TypeOK
<1>3. batch \in Seq(Updates) /\ log \in Seq(Messages) /\ chan \in Seq(Message)
  BY DEF TypeOK
<1>4. \A k \in DOMAIN batch : batch[k] \in Updates /\ k \in Nat \ {0}
  BY <1>3, ElementOfSeq, LenProperties
<1>5. \A k \in DOMAIN log : log[k] \in Messages /\ k \in Nat
  BY <1>3, ElementOfSeq, LenProperties
<1>6. QED
  BY <1>1, <1>2, <1>3, <1>4, <1>5, UpdatesAreNumbers DEF TypeOK

-----------------------------------------------------------------------------
(* The invariant.                                                          *)

\* The poller is off and nothing has arrived.
LEMMA InitInv == Init => Inv
<1> SUFFICES ASSUME Init PROVE Inv
  OBVIOUS
<1> USE DEF Init
<1>1. DOMAIN batch = {} /\ DOMAIN log = {} /\ DOMAIN chan = {}
  BY EmptySeq
<1>2. TypeOK
  <2>1. batch \in Seq(Updates) /\ chan \in Seq(Message) /\ log \in Seq(Messages)
    BY EmptySeq
  <2>2. confirmed \in 0..arrived /\ offset \in 0..(arrived + 1) /\ lives \in 0..MaxLives
    BY UpdatesAreNumbers
  <2>3. QED
    BY <2>1, <2>2 DEF TypeOK, NoUpdate
<1>3. BatchOK /\ LogOK
  BY <1>1 DEF BatchOK, LogOK, OnceInOrder, InHand
<1>4. NothingSkipped /\ OffsetOK
  BY UpdatesAreNumbers DEF NothingSkipped, OffsetOK, InHand
<1>5. QED
  BY <1>2, <1>3, <1>4 DEF Inv

\* A step that leaves the poller alone, confirms nothing and keeps what was
\* passed on keeps the invariant.
LEMMA PollerUntouched ==
  ASSUME Inv, TypeOK', UNCHANGED <<pc, offset, batch, log, confirmed>>,
         arrived' >= arrived,
         ~crashed' /\ loop' # "ended" => ~crashed /\ loop # "ended",
         loop' # "ended" => \A u \in Messages : Passed(u) => Passed(u)'
  PROVE  Inv'
<1>0. TypeOK /\ BatchOK /\ LogOK /\ NothingSkipped /\ OffsetOK
  BY DEF Inv
<1>1. arrived \in Nat /\ arrived' \in Nat
      /\ \A k \in DOMAIN batch : batch[k] \in Nat
  BY <1>0, Types, UpdatesAreNumbers DEF TypeOK
<1>2. BatchOK'
  BY <1>0, <1>1 DEF BatchOK, InHand
<1>3. LogOK'
  BY <1>0 DEF LogOK, OnceInOrder, InHand
<1>4. NothingSkipped'
  BY <1>0 DEF NothingSkipped
<1>5. OffsetOK'
  BY <1>0 DEF OffsetOK, InHand
<1>6. QED
  BY <1>2, <1>3, <1>4, <1>5 DEF Inv

\* The channel and the dispatches keep what was passed on.
LEMMA PassedStays ==
  ASSUME UNCHANGED <<chan, handled>>
  PROVE  \A u \in Messages : Passed(u)' = Passed(u)
BY DEF Passed

\* Steps of the dispatch loop and of the environment, but for a restart.
LEMMA OthersKeep ==
  ASSUME Inv, LoopStep \/ LoopEnds \/ Arrive \/ StopAccount \/ Shutdown
  PROVE  Inv'
<1>0. TypeOK
  BY DEF Inv
<1>1. CASE Receive
  <2> USE <1>1 DEF Receive, pollerVars, serverVars
  <2>1. chan \in Seq(Message) /\ Tail(chan) \in Seq(Message) /\ chan[1] \in Message /\ Head(chan) = chan[1]
    BY <1>0, RestOfSeq DEF TypeOK
  <2>2. TypeOK'
    BY <1>0, <2>1 DEF TypeOK, Message
  <2>3. \A u \in Messages : Passed(u) => Passed(u)'
    <3> SUFFICES ASSUME NEW u \in Messages, Passed(u) PROVE Passed(u)'
      OBVIOUS
    <3>1. CASE u \in handled
      BY <3>1 DEF Passed
    <3>2. ASSUME NEW k \in DOMAIN chan, chan[k].of = u PROVE Passed(u)'
      <4>1. CASE k = 1
        BY <2>1, <3>2, <4>1 DEF Passed
      <4>2. CASE k # 1
        <5>1. k - 1 \in DOMAIN Tail(chan) /\ Tail(chan)[k-1] = chan[k]
          BY <2>1, <3>2, <4>2, RestOfSeq
        <5>2. QED
          BY <3>2, <5>1 DEF Passed
      <4>3. QED
        BY <4>1, <4>2
    <3>3. QED
      BY <3>1, <3>2 DEF Passed
  <2>4. arrived' = arrived /\ arrived \in Nat
    BY <1>0, Types
  <2>5. QED
    BY <2>2, <2>3, <2>4, PollerUntouched
<1>2. CASE Dispatched \/ CleanUp \/ StopAccount \/ Shutdown
  <2> USE <1>2 DEF Dispatched, CleanUp, StopAccount, Shutdown, pollerVars, serverVars, loopVars
  <2>1. TypeOK'
    <3>1. UNCHANGED <<serverVars, pollerVars, chan, handled, lives, crashed, log>>
      OBVIOUS
    <3>2. loop' \in {"recv", "dispatch", "clean", "ended"} /\ stopped' \in BOOLEAN /\ down' \in BOOLEAN
      BY <1>0 DEF TypeOK
    <3>3. cur' \in Message \cup {NoMessage} /\ file' \in Documents \cup {NoUpdate}
      BY <1>0 DEF TypeOK
    <3> QED BY <1>0, <3>1, <3>2, <3>3 DEF TypeOK
  <2>2. UNCHANGED <<chan, handled>>
    OBVIOUS
  <2>3. \A u \in Messages : Passed(u) => Passed(u)'
    BY <2>2, PassedStays
  <2>4. arrived' = arrived /\ arrived \in Nat
    BY <1>0, Types
  <2>5. /\ UNCHANGED <<pc, offset, batch, log, confirmed>>
        /\ ~crashed' /\ loop' # "ended" => ~crashed /\ loop # "ended"
    OBVIOUS
  <2>6. QED
    BY <2>1, <2>3, <2>4, <2>5, PollerUntouched
<1>3. CASE LoopEnds
  <2> USE <1>3 DEF LoopEnds, pollerVars, serverVars
  <2>1. TypeOK'
    BY <1>0, EmptySeq DEF TypeOK
  <2>2. arrived' = arrived /\ arrived \in Nat
    BY <1>0, Types
  <2>3. QED
    BY <2>1, <2>2, PollerUntouched
<1>4. CASE Arrive
  <2> USE <1>4 DEF Arrive, pollerVars, loopVars
  <2>1. arrived \in Nat /\ confirmed \in Nat /\ confirmed <= arrived
        /\ offset \in Nat /\ offset <= arrived + 1
    BY <1>0, Types
  <2>2. TypeOK'
    BY <1>0, <2>1 DEF TypeOK
  <2>3. \A u \in Messages : Passed(u) => Passed(u)'
    BY PassedStays
  <2>4. QED
    BY <2>1, <2>2, <2>3, PollerUntouched
<1>5. QED
  BY <1>1, <1>2, <1>3, <1>4 DEF LoopStep

\* Start, Check, PollFailed, BatchDone: the batch and the log stay or are
\* emptied, and nothing is in hand.
LEMMA IdleStepsKeep ==
  ASSUME Inv, Start \/ Check \/ PollFailed \/ BatchDone
  PROVE  Inv'
<1>0. TypeOK /\ BatchOK /\ LogOK /\ NothingSkipped /\ OffsetOK
  BY DEF Inv
<1>a. /\ arrived \in Nat /\ confirmed \in Nat /\ confirmed <= arrived
      /\ offset \in Nat /\ offset <= arrived + 1 /\ lives \in Nat
      /\ \A u \in Messages : u \in Nat \ {0}
  BY <1>0, Types, UpdatesAreNumbers
<1>b. \A u \in Messages : Passed(u)' = Passed(u)
  BY PassedStays DEF Start, Check, PollFailed, BatchDone, loopVars
<1>1. CASE Start
  <2> USE <1>1 DEF Start, loopVars, serverVars
  <2>1. TypeOK'
    <3>1. lives' \in 0..MaxLives /\ offset' \in 0..(arrived + 1)
      BY <1>a, UpdatesAreNumbers
    <3>2. log' \in Seq(Messages)
      BY EmptySeq
    <3>3. QED
      BY <1>0, <3>1, <3>2 DEF TypeOK
  <2>2. BatchOK'
    BY <1>0 DEF BatchOK, InHand
  <2>3. LogOK'
    <3>1. DOMAIN log' = {}
      BY EmptySeq
    <3>2. QED
      BY <3>1 DEF LogOK, OnceInOrder, InHand
  <2>4. NothingSkipped'
    BY <1>0, <1>b DEF NothingSkipped
  <2>5. OffsetOK'
    BY <1>a DEF OffsetOK, InHand
  <2>6. QED
    BY <2>1, <2>2, <2>3, <2>4, <2>5 DEF Inv
<1>2. CASE Check \/ BatchDone
  <2> USE <1>2 DEF Check, BatchDone, loopVars, serverVars
  <2>0. /\ UNCHANGED <<arrived, confirmed, offset, batch, log, crashed, loop>>
        /\ ~InHand /\ ~InHand' /\ pc' # "batch"
    BY DEF InHand
  <2>1. TypeOK'
    BY <1>0 DEF TypeOK
  <2>2. BatchOK'
    BY <1>0, <2>0 DEF BatchOK, InHand
  <2>3. LogOK'
    BY <1>0, <2>0 DEF LogOK, OnceInOrder
  <2>4. NothingSkipped'
    BY <1>0, <1>b, <2>0 DEF NothingSkipped
  <2>5. OffsetOK'
    BY <1>0, <1>b, <2>0 DEF OffsetOK
  <2>6. QED
    BY <2>1, <2>2, <2>3, <2>4, <2>5 DEF Inv
<1>3. CASE PollFailed
  <2> USE <1>3 DEF PollFailed, loopVars
  <2>0. /\ UNCHANGED <<arrived, offset, batch, log, crashed, loop>>
        /\ ~InHand /\ ~InHand' /\ pc' # "batch"
    BY DEF InHand
  <2>a. confirmed' \in 0..arrived /\ (confirmed' = confirmed \/ confirmed' = offset - 1)
    BY <1>a DEF Confirm
  <2>1. TypeOK'
    BY <1>0, <2>a DEF TypeOK
  <2>2. BatchOK'
    BY <1>0, <2>0 DEF BatchOK, InHand
  <2>3. LogOK'
    BY <1>0, <2>0 DEF LogOK, OnceInOrder
  <2>4. NothingSkipped'
    BY <1>0, <1>a, <1>b, <2>0, <2>a DEF NothingSkipped, OffsetOK
  <2>5. OffsetOK'
    BY <1>0, <1>b, <2>0 DEF OffsetOK
  <2>6. QED
    BY <2>1, <2>2, <2>3, <2>4, <2>5 DEF Inv
<1>4. QED
  BY <1>1, <1>2, <1>3

\* An answered request: the batch begins after what is confirmed.
LEMMA PollAnsweredKeeps ==
  ASSUME Inv, PollAnswered
  PROVE  Inv'
<1> USE DEF PollAnswered, loopVars
<1>0. TypeOK /\ BatchOK /\ LogOK /\ NothingSkipped /\ OffsetOK
  BY DEF Inv
<1>a. /\ arrived \in Nat /\ confirmed \in Nat /\ confirmed <= arrived
      /\ offset \in Nat /\ offset <= arrived + 1
      /\ \A u \in Messages : u \in Nat \ {0}
  BY <1>0, Types, UpdatesAreNumbers
<1>b. \A u \in Messages : Passed(u)' = Passed(u)
  BY PassedStays
<1>c. /\ Confirm \in Nat /\ Confirm <= arrived /\ offset <= Confirm + 1
      /\ Confirm = confirmed \/ (Confirm = offset - 1 /\ offset # 0)
  BY <1>a DEF Confirm
<1>d. /\ batch' = [k \in 1..(arrived - Confirm) |-> Confirm + k]
      /\ DOMAIN batch' = 1..(arrived - Confirm)
      /\ \A k \in DOMAIN batch' : batch'[k] = Confirm + k
  OBVIOUS
<1>e. batch' # <<>> => batch'[1] = Confirm + 1
  <2>1. CASE arrived - Confirm >= 1
    BY <1>c, <1>d, <2>1
  <2>2. CASE ~(arrived - Confirm >= 1)
    <3>1. 1..(arrived - Confirm) = {}
      BY <1>a, <1>c, <2>2
    <3>2. batch' = <<>>
      BY <1>d, <3>1
    <3>3. QED
      BY <3>2
  <2>3. QED
    BY <2>1, <2>2
<1>1. TypeOK'
  <2>1. batch' \in Seq(Updates)
    <3>1. arrived \in 1..Cardinality(Updates) \/ arrived = 0
      BY <1>0, InboundAssumption DEF TypeOK
    <3>2. \A k \in 1..(arrived - Confirm) : Confirm + k \in 1..Cardinality(Updates)
      BY <1>a, <1>c, <3>1, UpdatesAreNumbers
    <3>3. \A k \in 1..(arrived - Confirm) : Confirm + k \in Updates
      BY <3>2, InboundAssumption
    <3>4. arrived - Confirm \in Nat
      BY <1>a, <1>c
    <3>5. batch' \in [1..(arrived - Confirm) -> Updates]
      BY <1>d, <3>3
    <3>6. QED
      BY <3>4, <3>5, SeqDef
  <2>2. confirmed' \in 0..arrived
    BY <1>a, <1>c
  <2>3. QED
    BY <1>0, <2>1, <2>2 DEF TypeOK
<1>2. BatchOK'
  <2>1. ASSUME NEW k \in DOMAIN batch'
        PROVE  batch'[k] = batch'[1] + (k - 1) /\ batch'[k] <= arrived
    <3>1. k \in 1..(arrived - Confirm) /\ batch'[k] = Confirm + k
      BY <1>d, <2>1
    <3>2. 1 \in 1..(arrived - Confirm)
      BY <1>a, <1>c, <3>1
    <3>3. batch'[1] = Confirm + 1
      BY <1>d, <3>2
    <3>4. QED
      BY <1>a, <1>c, <3>1, <3>3
  <2>2. batch' # <<>> => offset <= batch'[1]
    BY <1>c, <1>e
  <2>3. QED
    BY <2>1, <2>2 DEF BatchOK, InHand
<1>3. LogOK'
  BY <1>0 DEF LogOK, OnceInOrder, InHand
<1>4. NothingSkipped'
  BY <1>0, <1>a, <1>b, <1>c DEF NothingSkipped, OffsetOK, InHand
<1>5. OffsetOK'
  <2>1. ~crashed /\ loop # "ended" => \A u \in Messages : u < offset => Passed(u)'
    BY <1>0, <1>b DEF OffsetOK, InHand
  <2>2. batch' # <<>> => \A u \in Messages : u < batch'[1] => u <= confirmed'
    BY <1>a, <1>c, <1>e
  <2>3. QED
    BY <2>1, <2>2 DEF OffsetOK, InHand
<1>6. QED
  BY <1>1, <1>2, <1>3, <1>4, <1>5 DEF Inv

\* What is left of a batch when its first update is done.
LEMMA RestOfBatch ==
  ASSUME TypeOK, BatchOK, batch # <<>>
  PROVE  /\ batch[1] \in Updates /\ batch[1] \in Nat \ {0} /\ batch[1] <= arrived
         /\ Head(batch) = batch[1]
         /\ Tail(batch) \in Seq(Updates)
         /\ Tail(batch) # <<>> => Tail(batch)[1] = batch[1] + 1
         /\ \A k \in DOMAIN Tail(batch) :
              Tail(batch)[k] = Tail(batch)[1] + (k - 1) /\ Tail(batch)[k] <= arrived
<1>0. batch \in Seq(Updates) /\ arrived \in Nat
  BY Types
<1>1. /\ Tail(batch) \in Seq(Updates)
      /\ Head(batch) = batch[1] /\ batch[1] \in Updates /\ 1 \in DOMAIN batch
      /\ \A k \in DOMAIN Tail(batch) :
           k \in Nat \ {0} /\ k + 1 \in DOMAIN batch /\ Tail(batch)[k] = batch[k+1]
      /\ Tail(batch) # <<>> => 2 \in DOMAIN batch /\ Tail(batch)[1] = batch[2]
  BY <1>0, RestOfSeq
<1>2. batch[1] \in Nat \ {0} /\ batch[1] <= arrived
  BY <1>1, UpdatesAreNumbers DEF BatchOK
<1>3. Tail(batch) # <<>> => Tail(batch)[1] = batch[1] + 1
  BY <1>1, <1>2 DEF BatchOK
<1>4. ASSUME NEW k \in DOMAIN Tail(batch)
      PROVE  Tail(batch)[k] = Tail(batch)[1] + (k - 1) /\ Tail(batch)[k] <= arrived
  <2>1. /\ k \in Nat \ {0} /\ Tail(batch)[k] = batch[k+1]
        /\ batch[k+1] = batch[1] + k /\ batch[k+1] <= arrived
    BY <1>1, <1>2 DEF BatchOK
  <2>2. Tail(batch) # <<>>
    BY EmptySeq
  <2>3. QED
    BY <1>2, <1>3, <2>1, <2>2
<1>5. QED
  BY <1>1, <1>2, <1>3, <1>4

\* An update is taken: the offset moves past it.
LEMMA TakeUpdateKeeps ==
  ASSUME Inv, TakeUpdate
  PROVE  Inv'
<1> USE DEF TakeUpdate, loopVars, serverVars
<1>0. TypeOK /\ BatchOK /\ LogOK /\ NothingSkipped /\ OffsetOK
  BY DEF Inv
<1> DEFINE u == batch[1]
<1>a. /\ arrived \in Nat /\ confirmed \in Nat /\ offset \in Nat
      /\ \A v \in Messages : v \in Nat \ {0}
      /\ \A k \in DOMAIN log : log[k] \in Nat
  BY <1>0, Types, UpdatesAreNumbers
<1>b. \A v \in Messages : Passed(v)' = Passed(v)
  BY PassedStays
<1>c. /\ u \in Updates /\ u \in Nat \ {0} /\ u <= arrived
      /\ Head(batch) = u
      /\ Tail(batch) \in Seq(Updates)
      /\ Tail(batch) # <<>> => Tail(batch)[1] = u + 1
      /\ \A k \in DOMAIN Tail(batch) :
           Tail(batch)[k] = Tail(batch)[1] + (k - 1) /\ Tail(batch)[k] <= arrived
  BY <1>0, RestOfBatch
<1>d. /\ offset' = u + 1 /\ offset <= u
      /\ UNCHANGED <<arrived, confirmed, log, crashed, loop, chan, handled>>
      /\ ~InHand
  BY <1>0, <1>c DEF BatchOK, InHand
<1>e. ~crashed /\ loop # "ended" => \A v \in Messages : v < u => Passed(v)
  BY <1>0, <1>d DEF OffsetOK, NothingSkipped
<1>1. CASE u \in Messages
  <2>0. batch' = batch /\ InHand' /\ pc' # "batch" /\ (pc' = "download" => u \in Documents)
    BY <1>1, <1>c, UpdatesAreNumbers DEF InHand
  <2>1. TypeOK'
    <3>1. offset' \in 0..(arrived + 1)
      BY <1>a, <1>c, <1>d
    <3>2. pc' \in {"off", "check", "poll", "batch", "download", "forward"}
      OBVIOUS
    <3>3. batch' \in Seq(Updates)
      BY <1>0, <1>c, <2>0 DEF TypeOK
    <3>4. QED
      BY <1>0, <1>d, <3>1, <3>2, <3>3 DEF TypeOK
  <2>2. BatchOK'
    BY <1>0, <1>1, <1>d, <2>0 DEF BatchOK
  <2>3. LogOK'
    BY <1>0, <1>a, <1>c, <1>d, <2>0 DEF LogOK, OnceInOrder
  <2>4. NothingSkipped'
    BY <1>0, <1>b, <1>d DEF NothingSkipped
  <2>5. OffsetOK'
    BY <1>a, <1>b, <1>c, <1>d, <1>e, <2>0 DEF OffsetOK
  <2>6. QED
    BY <2>1, <2>2, <2>3, <2>4, <2>5 DEF Inv
<1>2. CASE u \notin Messages
  <2>0. batch' = Tail(batch) /\ pc' = "batch" /\ ~InHand'
    BY <1>2, <1>c, UpdatesAreNumbers DEF InHand
  <2>1. TypeOK'
    <3>1. offset' \in 0..(arrived + 1)
      BY <1>a, <1>c, <1>d
    <3>2. pc' \in {"off", "check", "poll", "batch", "download", "forward"}
      OBVIOUS
    <3>3. batch' \in Seq(Updates)
      BY <1>0, <1>c, <2>0 DEF TypeOK
    <3>4. QED
      BY <1>0, <1>d, <3>1, <3>2, <3>3 DEF TypeOK
  <2>2. BatchOK'
    BY <1>c, <1>d, <2>0 DEF BatchOK
  <2>3. LogOK'
    BY <1>0, <1>a, <1>c, <1>d, <2>0 DEF LogOK, OnceInOrder
  <2>4. NothingSkipped'
    BY <1>0, <1>b, <1>d DEF NothingSkipped
  <2>5. OffsetOK'
    <3>1. \A v \in Messages : v < u + 1 => v < u
      BY <1>2, <1>a, <1>c
    <3>2. QED
      BY <1>b, <1>c, <1>d, <1>e, <2>0, <3>1 DEF OffsetOK
  <2>6. QED
    BY <2>1, <2>2, <2>3, <2>4, <2>5 DEF Inv
<1>3. QED
  BY <1>1, <1>2

\* A download, whatever comes of it, leaves the message in hand.
LEMMA DownloadKeeps ==
  ASSUME Inv, Download
  PROVE  Inv'
<1> USE DEF Download, loopVars, serverVars
<1>0. TypeOK /\ BatchOK /\ LogOK /\ NothingSkipped /\ OffsetOK
  BY DEF Inv
<1>1. /\ InHand /\ InHand' /\ pc' = "forward"
      /\ UNCHANGED <<arrived, confirmed, offset, batch, log, crashed, loop, chan, handled>>
  BY DEF InHand
<1>2. Head(batch) \in Documents
  BY <1>0, <1>1, RestOfBatch DEF BatchOK
<1>3. TypeOK'
  BY <1>0, <1>1, <1>2 DEF TypeOK
<1>4. BatchOK'
  BY <1>0, <1>1 DEF BatchOK
<1>5. LogOK'
  BY <1>0, <1>1 DEF LogOK, OnceInOrder
<1>6. NothingSkipped' /\ OffsetOK'
  BY <1>0, <1>1, PassedStays DEF NothingSkipped, OffsetOK
<1>7. QED
  BY <1>3, <1>4, <1>5, <1>6 DEF Inv

\* The message in hand is forwarded.
LEMMA ForwardKeeps ==
  ASSUME Inv, Forward
  PROVE  Inv'
<1> USE DEF Forward, loopVars, serverVars
<1>0. TypeOK /\ BatchOK /\ LogOK /\ NothingSkipped /\ OffsetOK
  BY DEF Inv
<1>p. PICK u \in Messages : u = batch[1]
  BY <1>0 DEF BatchOK, InHand
<1> DEFINE x == [of |-> u, media |-> media]
<1>a. /\ arrived \in Nat /\ confirmed \in Nat /\ offset \in Nat
      /\ \A v \in Messages : v \in Nat \ {0}
      /\ \A k \in DOMAIN log : log[k] \in Nat
      /\ log \in Seq(Messages) /\ chan \in Seq(Message)
  BY <1>0, Types, UpdatesAreNumbers
<1>b. /\ InHand /\ batch # <<>> /\ offset = u + 1
  BY <1>0, <1>p DEF BatchOK, InHand
<1>c. /\ u \in Nat \ {0} /\ u <= arrived
      /\ Head(batch) = u
      /\ Tail(batch) \in Seq(Updates)
      /\ Tail(batch) # <<>> => Tail(batch)[1] = u + 1
      /\ \A k \in DOMAIN Tail(batch) :
           Tail(batch)[k] = Tail(batch)[1] + (k - 1) /\ Tail(batch)[k] <= arrived
  BY <1>0, <1>a, <1>b, <1>p, RestOfBatch
<1>d. /\ batch' = Tail(batch) /\ log' = Append(log, u) /\ pc' = "batch" /\ ~InHand'
      /\ chan' = IF loop = "ended" THEN chan ELSE Append(chan, x)
      /\ UNCHANGED <<arrived, confirmed, offset, crashed, loop, handled>>
  BY <1>c DEF InHand
<1>e. x \in Message
  BY <1>0, <1>b DEF Message, TypeOK
<1>1. TypeOK'
  <2>1. Append(chan, x) \in Seq(Message) /\ Append(log, u) \in Seq(Messages)
    BY <1>a, <1>b, <1>e, LongerSeq
  <2>2. QED
    BY <1>0, <1>c, <1>d, <2>1 DEF TypeOK
<1>2. BatchOK'
  BY <1>b, <1>c, <1>d DEF BatchOK, InHand
<1>3. LogOK'
  <2>0. \E n \in Nat : /\ n \in DOMAIN Append(log, u) /\ Append(log, u)[n] = u
                      /\ \A k \in DOMAIN Append(log, u) : k = n \/ (k \in DOMAIN log /\ k < n)
    BY <1>a, <1>b, LongerSeq, Zenon
  <2>1. PICK n \in Nat : /\ n \in DOMAIN log' /\ log'[n] = u
                         /\ \A k \in DOMAIN log' : k = n \/ (k \in DOMAIN log /\ k < n)
    BY <1>d, <2>0, Zenon
  <2>2. \A k \in DOMAIN log : log'[k] = log[k] /\ k \in Nat /\ log[k] < u
    BY <1>0, <1>a, <1>b, <1>d, <1>p, LongerSeq DEF LogOK
  <2>3. OnceInOrder'
    <3> SUFFICES ASSUME NEW j \in DOMAIN log', NEW k \in DOMAIN log', j < k
                 PROVE  log'[j] < log'[k]
      BY DEF OnceInOrder
    <3>1. j # n
      BY <2>1, <2>2
    <3>2. CASE k = n
      BY <2>1, <2>2, <3>1, <3>2
    <3>3. CASE k # n
      BY <1>0, <2>1, <2>2, <3>1, <3>3 DEF LogOK, OnceInOrder
    <3>4. QED
      BY <3>2, <3>3
  <2>4. \A k \in DOMAIN log' : log'[k] < offset'
    BY <1>a, <1>b, <1>c, <1>d, <2>1, <2>2
  <2>5. QED
    BY <1>d, <2>3, <2>4 DEF LogOK
<1>4. ~crashed /\ loop # "ended" => Passed(u)' /\ \A v \in Messages : Passed(v) => Passed(v)'
  <2> SUFFICES ASSUME loop # "ended"
               PROVE  Passed(u)' /\ \A v \in Messages : Passed(v) => Passed(v)'
    OBVIOUS
  <2>1. chan' = Append(chan, x)
    BY <1>d
  <2>2. PICK n \in Nat : n \in DOMAIN chan' /\ chan'[n] = x
    <3> HIDE DEF x
    <3>1. \E n \in Nat : /\ n \in DOMAIN Append(chan, x) /\ Append(chan, x)[n] = x
                         /\ \A k \in DOMAIN Append(chan, x) : k = n \/ (k \in DOMAIN chan /\ k < n)
      BY <1>a, <1>e, LongerSeq, Zenon
    <3>2. QED
      BY <2>1, <3>1, Zenon
  <2>3. \A k \in DOMAIN chan : k \in DOMAIN chan' /\ chan'[k] = chan[k]
    BY <1>a, <1>e, <2>1, LongerSeq
  <2>4. Passed(u)'
    <3>0. x.of = u
      OBVIOUS
    <3>1. chan'[n].of = u
      <4> HIDE DEF x
      <4>1. QED
        BY <2>2, <3>0
    <3>2. QED
      BY <2>2, <3>1 DEF Passed
  <2>5. ASSUME NEW v \in Messages, Passed(v) PROVE Passed(v)'
    <3>1. handled' = handled
      BY <1>d
    <3>2. QED
      BY <2>3, <2>5, <3>1 DEF Passed
  <2>6. QED
    BY <2>4, <2>5
<1>5. NothingSkipped'
  BY <1>0, <1>4, <1>d DEF NothingSkipped
<1>6. OffsetOK'
  <2>1. batch' # <<>> => batch'[1] = offset'
    BY <1>b, <1>c, <1>d
  <2>2. ASSUME ~crashed, loop # "ended", NEW v \in Messages, v < offset
        PROVE  Passed(v)'
    <3>1. CASE v = u
      BY <1>4, <2>2, <3>1 DEF Passed
    <3>2. CASE v # u
      BY <1>0, <1>4, <1>p, <2>2, <3>2 DEF OffsetOK
    <3>3. QED
      BY <3>1, <3>2
  <2>3. offset' = offset /\ crashed' = crashed /\ loop' = loop
    BY <1>d
  <2>4. ~crashed' /\ loop' # "ended" => \A v \in Messages : v < offset' => Passed(v)'
    BY <2>2, <2>3
  <2>5. batch' # <<>> => \A v \in Messages : v < batch'[1] => v < offset'
    BY <2>1
  <2>6. QED
    BY <2>4, <2>5 DEF OffsetOK
<1>7. QED
  BY <1>1, <1>2, <1>3, <1>5, <1>6 DEF Inv

\* After a restart the poller starts from nothing.
LEMMA RestartKeeps ==
  ASSUME Inv, Restart
  PROVE  Inv'
<1> USE DEF Restart, serverVars
<1>0. TypeOK
  BY DEF Inv
<1>a. DOMAIN batch' = {} /\ DOMAIN log' = {}
  BY EmptySeq
<1>1. TypeOK'
  <2>1. batch' \in Seq(Updates) /\ chan' \in Seq(Message) /\ log' \in Seq(Messages)
    BY EmptySeq
  <2>2. offset' \in 0..(arrived' + 1)
    BY <1>0, Types
  <2>3. QED
    BY <1>0, <2>1, <2>2 DEF TypeOK
<1>2. BatchOK' /\ LogOK'
  BY <1>a DEF BatchOK, LogOK, OnceInOrder, InHand
<1>3. NothingSkipped' /\ OffsetOK'
  BY DEF NothingSkipped, OffsetOK
<1>4. QED
  BY <1>1, <1>2, <1>3 DEF Inv

\* Every step keeps the invariant.
LEMMA NextInv == Inv /\ [Next]_vars => Inv'
<1> SUFFICES ASSUME Inv, [Next]_vars PROVE Inv'
  OBVIOUS
<1>1. CASE LoopStep \/ LoopEnds \/ Arrive \/ StopAccount \/ Shutdown
  BY <1>1, OthersKeep
<1>2. CASE Start \/ Check \/ PollFailed \/ BatchDone
  BY <1>2, IdleStepsKeep
<1>3. CASE PollAnswered
  BY <1>3, PollAnsweredKeeps
<1>4. CASE TakeUpdate
  BY <1>4, TakeUpdateKeeps
<1>5. CASE Download
  BY <1>5, DownloadKeeps
<1>6. CASE Forward
  BY <1>6, ForwardKeeps
<1>7. CASE Restart
  BY <1>7, RestartKeeps
<1>8. CASE UNCHANGED vars
  BY <1>8 DEF vars, Inv, TypeOK, BatchOK, LogOK, OnceInOrder, NothingSkipped, OffsetOK, InHand, Passed
<1>9. QED
  BY <1>1, <1>2, <1>3, <1>4, <1>5, <1>6, <1>7, <1>8 DEF Next, PollerStep

\* The invariant holds throughout.
THEOREM Invariance == Spec => []Inv
BY InitInv, NextInv, PTL DEF Spec

\* Every variable of the inbound path keeps its type; the offset stays within
\* one of what has arrived.
THEOREM TypeCorrect == Spec => []TypeOK
BY Invariance, PTL DEF Inv

\* Between two restarts no failed request, failed download or restarted
\* account loses a message.
THEOREM NoMessageSkipped == Spec => []NothingSkipped
BY Invariance, PTL DEF Inv

\* One life of the poller forwards every message at most once and in order,
\* however often requests are repeated.
THEOREM ForwardedOnceInOrder == Spec => []OnceInOrder
BY Invariance, PTL DEF Inv, LogOK

-----------------------------------------------------------------------------
(* Routing: the agents and the session keys.                               *)

\* What stands before the peer in a key that has one.
KeyHead(agent, x) ==
  LET A == NormalizeAgentId(agent)
  IN IF x.kind # "direct" THEN <<"agent", A, Named(x.channel), x.kind>>
     ELSE CASE x.scope = "per-peer" -> <<"agent", A, "direct">>
            [] x.scope = "per-channel-peer" -> <<"agent", A, Named(x.channel), "direct">>
            [] OTHER -> <<"agent", A, Named(x.channel), NormalizeAccountId(x.account), "direct">>

\* A set that has the segments of the keys of a message.
Covers(U, agent, x) ==
  /\ {"agent", "direct", NormalizeAgentId(agent), Named(x.channel), NormalizeAccountId(x.account), x.kind} \subseteq U
  /\ x.peer # << >> /\ NormalizePeer(x.peer) \in Seq(U) /\ NormalizePeer(x.peer) # << >>
  /\ \A name \in DOMAIN x.links : NormalizeToken(name) \in U

\* Two ways to part the same sequence agree on what both first parts have.
Parted(U, s, p, t, q) == {s, p, t, q} \subseteq Seq(U) /\ s \o p = t \o q

LEMMA PartsOfConcat ==
  ASSUME NEW U, NEW s, NEW p, NEW t, NEW q, Parted(U, s, p, t, q)
  PROVE  \A i \in 1..Len(s) : i <= Len(t) => s[i] = t[i]
<1>0. /\ s \in Seq(U) /\ t \in Seq(U) /\ p \in Seq(U) /\ q \in Seq(U)
      /\ s \o p = t \o q
  BY DEF Parted
<1>1. /\ Len(s) \in Nat /\ Len(t) \in Nat /\ Len(p) \in Nat /\ Len(q) \in Nat
      /\ Len(s) + Len(p) = Len(t) + Len(q)
  BY <1>0, ConcatProperties, LenProperties
<1>2. /\ \A i \in 1..Len(s) : (s \o p)[i] = s[i]
      /\ \A i \in 1..Len(t) : (t \o q)[i] = t[i]
  BY <1>0, <1>1, ConcatProperties
<1> QED BY <1>0, <1>1, <1>2

\* A concatenation tells its parts when the length of the first is known.
LEMMA PartsAreSame ==
  ASSUME NEW U, NEW s, NEW p, NEW t, NEW q, Parted(U, s, p, t, q), Len(s) = Len(t)
  PROVE  s = t /\ p = q
<1>1. /\ s \in Seq(U) /\ t \in Seq(U) /\ p \in Seq(U) /\ q \in Seq(U)
      /\ s \o p = t \o q /\ Len(s) = Len(t)
  BY DEF Parted
<1>2. /\ Len(s) \in Nat /\ Len(t) \in Nat /\ Len(p) \in Nat /\ Len(q) \in Nat
      /\ Len(p) = Len(q)
  <2>1. Len(s) \in Nat /\ Len(t) \in Nat /\ Len(p) \in Nat /\ Len(q) \in Nat
    BY <1>1, LenProperties
  <2>2. Len(s \o p) = Len(s) + Len(p) /\ Len(t \o q) = Len(t) + Len(q)
    BY <1>1, ConcatProperties
  <2> QED BY <1>1, <2>1, <2>2
<1>3. /\ \A i \in 1..Len(s) + Len(p) : (s \o p)[i] = IF i <= Len(s) THEN s[i] ELSE p[i - Len(s)]
      /\ \A i \in 1..Len(t) + Len(q) : (t \o q)[i] = IF i <= Len(t) THEN t[i] ELSE q[i - Len(t)]
  BY <1>1, ConcatProperties
<1>4. s = t
  <2>1. \A i \in 1..Len(s) : s[i] = t[i]
    BY <1>1, <1>2, <1>3
  <2> QED BY <1>1, <2>1, SeqEqual
<1>5. \A i \in 1..Len(p) : p[i] = q[i]
  <2>1. SUFFICES ASSUME NEW i \in 1..Len(p) PROVE p[i] = q[i]
    OBVIOUS
  <2>2. PICK j : j = Len(s) + i /\ j \in 1..Len(s) + Len(p) /\ ~(j <= Len(s)) /\ j - Len(s) = i
    BY <1>2
  <2>3. (s \o p)[j] = p[i] /\ (t \o q)[j] = q[i]
    BY <1>1, <1>2, <1>3, <2>2
  <2> QED BY <1>1, <2>3
<1> QED BY <1>1, <1>2, <1>4, <1>5, SeqEqual

\* Normalizing a peer.
LEMMA PeerNormalized ==
  ASSUME NEW S, NEW p \in Seq(S)
  PROVE  /\ NormalizePeer(p) \in Seq({NormalizeToken(s) : s \in S})
         /\ Len(NormalizePeer(p)) = Len(p)
         /\ \A i \in 1..Len(p) : NormalizePeer(p)[i] = NormalizeToken(p[i])
<1>1. Len(p) \in Nat /\ DOMAIN p = 1..Len(p) /\ \A i \in 1..Len(p) : p[i] \in S
  BY LenProperties
<1>2. NormalizePeer(p) = [i \in 1..Len(p) |-> NormalizeToken(p[i])]
  BY <1>1 DEF NormalizePeer
<1>3. NormalizePeer(p) \in [1..Len(p) -> {NormalizeToken(s) : s \in S}]
  BY <1>1, <1>2
<1> QED BY <1>1, <1>2, <1>3

\* There is such a set.
LEMMA Covered ==
  ASSUME NEW S, NEW agent, NEW a, NEW b, a.peer \in Seq(S) \ {<< >>}, b.peer \in Seq(S) \ {<< >>}
  PROVE  \E U : Covers(U, agent, a) /\ Covers(U, agent, b)
<1>1. PICK T : T = {NormalizeToken(s) : s \in S}
  OBVIOUS
<1>2. PICK U : U = T \cup {"agent", "direct", NormalizeAgentId(agent)}
                     \cup {Named(a.channel), NormalizeAccountId(a.account), a.kind}
                     \cup {Named(b.channel), NormalizeAccountId(b.account), b.kind}
                     \cup {NormalizeToken(name) : name \in DOMAIN a.links}
                     \cup {NormalizeToken(name) : name \in DOMAIN b.links}
  OBVIOUS
<1>3. ASSUME NEW p \in Seq(S), p # << >>
      PROVE  NormalizePeer(p) \in Seq(U) /\ NormalizePeer(p) # << >>
  <2>1. NormalizePeer(p) \in Seq(T) /\ Len(NormalizePeer(p)) = Len(p)
    BY <1>1, PeerNormalized
  <2>2. Len(p) # 0
    BY <1>3, EmptySeq
  <2>3. NormalizePeer(p) # << >>
    BY <2>1, <2>2, EmptySeq
  <2> QED BY <1>2, <2>1, <2>3, SeqMonotonic
<1>4. NormalizePeer(a.peer) \in Seq(U) /\ NormalizePeer(a.peer) # << >> /\ a.peer # << >>
  BY <1>3
<1>5. NormalizePeer(b.peer) \in Seq(U) /\ NormalizePeer(b.peer) # << >> /\ b.peer # << >>
  BY <1>3
<1>6. Covers(U, agent, a)
  BY <1>2, <1>4 DEF Covers
<1>7. Covers(U, agent, b)
  BY <1>2, <1>5 DEF Covers
<1> QED BY <1>6, <1>7

\* The heads of keys.
LEMMA Heads ==
  ASSUME NEW U, NEW agent, NEW x, Covers(U, agent, x)
  PROVE  KeyHead(agent, x) \in Seq(U)
BY DEF Covers, KeyHead

\* The peers of direct messages.
LEMMA DirectPeersAre ==
  ASSUME NEW U, NEW agent, NEW x, Covers(U, agent, x), NEW p \in DirectPeers(x)
  PROVE  p \in Seq(U) /\ p # << >>
<1>1. CASE p = NormalizePeer(x.peer)
  BY <1>1 DEF Covers
<1>2. ASSUME NEW name \in DOMAIN x.links, p = <<NormalizeToken(name)>> PROVE p \in Seq(U) /\ p # << >>
  BY <1>2 DEF Covers
<1> QED BY <1>1, <1>2 DEF DirectPeers, LinkedPeers

\* What a concatenation is.
LEMMA ConcatIs ==
  ASSUME NEW U, NEW s \in Seq(U), NEW x \in Seq(U), NEW r \in Seq(U), Len(r) = Len(s) + Len(x),
         \A i \in 1..Len(s) : r[i] = s[i], \A i \in 1..Len(x) : r[Len(s) + i] = x[i]
  PROVE  s \o x = r
<1>1. s \o x \in Seq(U) /\ Len(s \o x) = Len(s) + Len(x) /\ Len(s) \in Nat /\ Len(x) \in Nat
  BY ConcatProperties, LenProperties
<1>2. \A i \in 1..Len(s) + Len(x) : (s \o x)[i] = IF i <= Len(s) THEN s[i] ELSE x[i - Len(s)]
  BY ConcatProperties
<1>3. ASSUME NEW i \in 1..Len(s) + Len(x) PROVE (s \o x)[i] = r[i]
  <2>1. CASE i <= Len(s)
    BY <1>1, <1>2, <2>1
  <2>2. CASE ~(i <= Len(s))
    <3>1. PICK k : k = i - Len(s)
      OBVIOUS
    <3>2. k \in 1..Len(x) /\ i = Len(s) + k
      BY <1>1, <2>2, <3>1
    <3> QED BY <1>2, <2>2, <3>1, <3>2
  <2> QED BY <2>1, <2>2
<1> QED BY <1>1, <1>3, SeqEqual

\* Two segments and one more.
LEMMA JoinOne ==
  ASSUME NEW a, NEW b, NEW c
  PROVE  <<a, b>> \o <<c>> = <<a, b, c>>
<1>1. PICK U, s, x, r : U = {a, b, c} /\ s = <<a, b>> /\ x = <<c>> /\ r = <<a, b, c>>
  OBVIOUS
<1>2. s \in Seq(U) /\ x \in Seq(U) /\ r \in Seq(U) /\ Len(s) = 2 /\ Len(x) = 1 /\ Len(r) = 3
  BY <1>1
<1>3. /\ \A i \in 1..2 : r[i] = s[i]
      /\ \A i \in 1..1 : r[2 + i] = x[i]
  BY <1>1
<1>4. /\ \A i \in 1..Len(s) : r[i] = s[i]
      /\ \A i \in 1..Len(x) : r[Len(s) + i] = x[i]
      /\ Len(r) = Len(s) + Len(x)
  BY <1>2, <1>3
<1>5. s \o x = r
  BY <1>2, <1>4, ConcatIs
<1> QED BY <1>1, <1>5

\* Two segments and two more.
LEMMA JoinTwo ==
  ASSUME NEW a, NEW b, NEW c, NEW d
  PROVE  <<a, b>> \o <<c, d>> = <<a, b, c, d>>
<1>1. PICK U, s, x, r : U = {a, b, c, d} /\ s = <<a, b>> /\ x = <<c, d>> /\ r = <<a, b, c, d>>
  OBVIOUS
<1>2. s \in Seq(U) /\ x \in Seq(U) /\ r \in Seq(U) /\ Len(s) = 2 /\ Len(x) = 2 /\ Len(r) = 4
  BY <1>1
<1>3. /\ \A i \in 1..2 : r[i] = s[i]
      /\ \A i \in 1..2 : r[2 + i] = x[i]
  BY <1>1
<1>4. /\ \A i \in 1..Len(s) : r[i] = s[i]
      /\ \A i \in 1..Len(x) : r[Len(s) + i] = x[i]
      /\ Len(r) = Len(s) + Len(x)
  BY <1>2, <1>3
<1>5. s \o x = r
  BY <1>2, <1>4, ConcatIs
<1> QED BY <1>1, <1>5

\* Two segments and three more.
LEMMA JoinThree ==
  ASSUME NEW a, NEW b, NEW c, NEW d, NEW e
  PROVE  <<a, b>> \o <<c, d, e>> = <<a, b, c, d, e>>
<1>1. PICK U, s, x, r : U = {a, b, c, d, e} /\ s = <<a, b>> /\ x = <<c, d, e>> /\ r = <<a, b, c, d, e>>
  OBVIOUS
<1>2. s \in Seq(U) /\ x \in Seq(U) /\ r \in Seq(U) /\ Len(s) = 2 /\ Len(x) = 3 /\ Len(r) = 5
  BY <1>1
<1>3. /\ \A i \in 1..2 : r[i] = s[i]
      /\ \A i \in 1..3 : r[2 + i] = x[i]
  BY <1>1
<1>4. /\ \A i \in 1..Len(s) : r[i] = s[i]
      /\ \A i \in 1..Len(x) : r[Len(s) + i] = x[i]
      /\ Len(r) = Len(s) + Len(x)
  BY <1>2, <1>3
<1>5. s \o x = r
  BY <1>2, <1>4, ConcatIs
<1> QED BY <1>1, <1>5

\* A key has its head and then its peer, unless all direct messages share one.
LEMMA KeyParts ==
  ASSUME NEW U, NEW agent, NEW x, Covers(U, agent, x), x.scope \in Scopes, NEW key \in PeerSessionKeys(agent, x),
         ~(x.kind = "direct" /\ x.scope = "main")
  PROVE  \E p \in Seq(U) :
           /\ key = KeyHead(agent, x) \o p /\ p # << >>
           /\ IF x.kind = "direct" THEN p \in DirectPeers(x) ELSE p = NormalizePeer(x.peer)
<1>1. PICK A, ch, acc : A = NormalizeAgentId(agent) /\ ch = Named(x.channel) /\ acc = NormalizeAccountId(x.account)
  OBVIOUS
<1>2. {"agent", "direct", A, ch, acc, x.kind} \subseteq U
  BY <1>1 DEF Covers
<1>3. CASE x.kind = "direct"
  <2>1. PICK p \in DirectPeers(x) : key = DirectKey(agent, x, p)
    BY <1>3 DEF PeerSessionKeys
  <2>2. p \in Seq(U) /\ p # << >>
    BY DirectPeersAre
  <2>3. /\ <<"agent", A>> \o <<"direct">> = <<"agent", A, "direct">>
        /\ <<"agent", A>> \o <<ch, "direct">> = <<"agent", A, ch, "direct">>
        /\ <<"agent", A>> \o <<ch, acc, "direct">> = <<"agent", A, ch, acc, "direct">>
    BY JoinOne, JoinTwo, JoinThree
  <2>4. key = KeyHead(agent, x) \o p
    BY <1>1, <1>3, <2>1, <2>2, <2>3 DEF DirectKey, KeyHead, Scopes
  <2> QED BY <1>3, <2>2, <2>4
<1>4. CASE x.kind # "direct"
  BY <1>1, <1>4 DEF PeerSessionKeys, GroupKey, KeyHead, Covers
<1> QED BY <1>3, <1>4

\* A chat that is direct is apart from one that is not.
LEMMA KindsApart ==
  ASSUME NEW U, NEW agent, NEW a, NEW b, Covers(U, agent, a), Covers(U, agent, b),
         a.scope \in Scopes, KindsTold(a, b), a.kind = "direct", b.kind # "direct", b.scope \in Scopes,
         NEW key \in PeerSessionKeys(agent, a)
  PROVE  key \notin PeerSessionKeys(agent, b)
<1> SUFFICES ASSUME key \in PeerSessionKeys(agent, b) PROVE FALSE
  OBVIOUS
<1>1. PICK q \in Seq(U) : key = KeyHead(agent, b) \o q /\ q # << >>
  BY KeyParts
<1>2. PICK A, ch, acc : A = NormalizeAgentId(agent) /\ ch = Named(a.channel) /\ acc = NormalizeAccountId(a.account)
  OBVIOUS
<1>3. PICK t : t = KeyHead(agent, b) /\ t \in Seq(U) /\ t = <<"agent", A, Named(b.channel), b.kind>> /\ Len(t) = 4
  <2>1. KeyHead(agent, b) \in Seq(U)
    BY Heads
  <2>2. KeyHead(agent, b) = <<"agent", A, Named(b.channel), b.kind>>
    BY <1>2 DEF KeyHead
  <2>3. PICK t : t = KeyHead(agent, b)
    OBVIOUS
  <2>4. t = <<"agent", A, Named(b.channel), b.kind>> /\ Len(t) = 4
    BY <2>2, <2>3
  <2> QED BY <2>1, <2>3, <2>4
<1>4. CASE a.scope = "main"
  <2>1. key = MainSessionKey(agent, a.mainKey)
    BY <1>4 DEF PeerSessionKeys, DirectKey
  <2>2. Len(key) = 3
    BY <2>1 DEF MainSessionKey
  <2>3. Len(t \o q) = Len(t) + Len(q) /\ Len(q) \in Nat
    BY <1>1, <1>3, ConcatProperties, LenProperties
  <2>4. key = t \o q
    BY <1>1, <1>3
  <2> QED BY <1>3, <2>2, <2>3, <2>4
<1>5. CASE a.scope # "main"
  <2>1. PICK s : s = KeyHead(agent, a) /\ s \in Seq(U)
    BY Heads
  <2>2. PICK p \in Seq(U) : /\ key = s \o p
                            /\ IF a.kind = "direct" THEN p \in DirectPeers(a) ELSE p = NormalizePeer(a.peer)
    <3>1. ~(a.kind = "direct" /\ a.scope = "main")
      BY <1>5
    <3> QED BY <2>1, <3>1, KeyParts
  <2>3. \A i \in 1..Len(s) : i <= Len(t) => s[i] = t[i]
    <3>1. s \o p = t \o q
      BY <1>1, <1>3, <2>2
    <3>2. Parted(U, s, p, t, q)
      BY <1>1, <1>3, <2>1, <2>2, <3>1 DEF Parted
    <3> QED BY <3>2, PartsOfConcat
  <2>4. \/ a.scope = "per-peer" /\ s = <<"agent", A, "direct">>
        \/ a.scope = "per-channel-peer" /\ s = <<"agent", A, ch, "direct">>
        \/ a.scope = "per-account-channel-peer" /\ s = <<"agent", A, ch, acc, "direct">>
    BY <1>2, <1>5, <2>1 DEF KeyHead, Scopes
  <2>5. CASE a.scope = "per-peer" /\ s = <<"agent", A, "direct">>
    <3>1. Len(s) = 3 /\ s[3] = "direct" /\ t[3] = Named(b.channel)
      BY <1>3, <2>5
    <3>2. s[3] = t[3]
      BY <1>3, <2>3, <3>1
    <3> QED BY <2>5, <3>1, <3>2 DEF KindsTold
  <2>6. CASE a.scope = "per-channel-peer" /\ s = <<"agent", A, ch, "direct">>
    <3>1. Len(s) = 4 /\ s[4] = "direct" /\ t[4] = b.kind
      BY <1>3, <2>6
    <3> QED BY <1>3, <2>3, <3>1
  <2>7. CASE a.scope = "per-account-channel-peer" /\ s = <<"agent", A, ch, acc, "direct">>
    <3>1. Len(s) = 5 /\ s[4] = acc /\ t[4] = b.kind
      BY <1>3, <2>7
    <3>2. s[4] = t[4]
      BY <1>3, <2>3, <3>1
    <3> QED BY <1>2, <2>7, <3>1, <3>2 DEF KindsTold
  <2> QED BY <2>4, <2>5, <2>6, <2>7
<1> QED BY <1>4, <1>5

\* Conversations that the scope keeps apart never share a session key.
THEOREM KeysAlwaysApart ==
  ASSUME NEW S, NEW agent, NEW a, NEW b, a.peer \in Seq(S), b.peer \in Seq(S), a.scope \in Scopes, KindsTold(a, b)
  PROVE  KeysKeepApart(agent, a, b)
<1> SUFFICES ASSUME a.scope = b.scope, a.links = b.links, Apart(a, b), a.peer # << >>, b.peer # << >>,
                    NEW key \in PeerSessionKeys(agent, a), key \in PeerSessionKeys(agent, b)
             PROVE  FALSE
  BY DEF KeysKeepApart
<1>1. PICK U : Covers(U, agent, a) /\ Covers(U, agent, b)
  BY Covered
<1>2. KindsTold(b, a)
  BY DEF KindsTold
<1>3. CASE a.kind = "direct" /\ b.kind # "direct"
  BY <1>1, <1>3, KindsApart
<1>4. CASE a.kind # "direct" /\ b.kind = "direct"
  BY <1>1, <1>2, <1>4, KindsApart
<1>5. CASE a.kind = "direct" <=> b.kind = "direct"
  <2>1. ~(a.kind = "direct" /\ a.scope = "main") /\ ~(b.kind = "direct" /\ b.scope = "main")
    BY <1>5 DEF Apart
  <2>2. PICK s, t : s = KeyHead(agent, a) /\ t = KeyHead(agent, b) /\ s \in Seq(U) /\ t \in Seq(U)
    BY <1>1, Heads
  <2>3. PICK p \in Seq(U) : /\ key = s \o p
                            /\ IF a.kind = "direct" THEN p \in DirectPeers(a) ELSE p = NormalizePeer(a.peer)
    BY <1>1, <2>1, <2>2, KeyParts
  <2>4. PICK q \in Seq(U) : /\ key = t \o q
                            /\ IF b.kind = "direct" THEN q \in DirectPeers(b) ELSE q = NormalizePeer(b.peer)
    BY <1>1, <2>1, <2>2, KeyParts
  <2>5. Len(s) = Len(t)
    BY <1>5, <2>2 DEF KeyHead
  <2>6. s = t /\ p = q
    <3>1. s \o p = t \o q
      BY <2>3, <2>4
    <3>2. Parted(U, s, p, t, q)
      BY <2>2, <3>1 DEF Parted
    <3> QED BY <2>5, <3>2, PartsAreSame
  <2>7. CASE a.kind # "direct"
    <3>1. Named(a.channel) = Named(b.channel) /\ a.kind = b.kind
      BY <1>5, <2>2, <2>6, <2>7 DEF KeyHead
    <3> QED BY <1>5, <2>3, <2>4, <2>6, <2>7, <3>1 DEF Apart
  <2>8. CASE a.kind = "direct"
    <3>1. DirectPeers(a) \cap DirectPeers(b) # {}
      BY <1>5, <2>3, <2>4, <2>6, <2>8
    <3>2. a.scope # "per-peer" => Named(a.channel) = Named(b.channel)
      BY <1>5, <2>2, <2>6, <2>8, <2>1 DEF KeyHead, Scopes
    <3>3. a.scope = "per-account-channel-peer" => NormalizeAccountId(a.account) = NormalizeAccountId(b.account)
      BY <1>5, <2>2, <2>6, <2>8 DEF KeyHead, Scopes
    <3> QED BY <1>5, <2>8, <3>1, <3>2, <3>3 DEF Apart
  <2> QED BY <2>7, <2>8
<1> QED BY <1>3, <1>4, <1>5

-----------------------------------------------------------------------------
(* Routing: the agent read back from a key.                                *)

\* Normalizing a token again changes nothing.
LEMMA TokenTwice ==
  ASSUME NEW Ids, NormalForms(Ids), NEW s
  PROVE  NormalizeToken(NormalizeToken(s)) = NormalizeToken(s)
BY DEF NormalForms, NormalizeToken, Image

\* What is normal about the ids of agents and of accounts.
LEMMA IdTwice ==
  ASSUME NEW Ids, NormalForms(Ids), NEW s \in Ids \cup {None, "main"}
  PROVE  /\ NormalizeAgentId(s) # Empty /\ NormalizeToken(NormalizeAgentId(s)) = NormalizeAgentId(s)
         /\ NormalizeAgentId(NormalizeAgentId(s)) = NormalizeAgentId(s)
         /\ NormalizeToken(NormalizeAccountId(s)) = NormalizeAccountId(s)
<1>0. "main" # Empty /\ "default" # Empty
  BY Zenon DEF Empty
<1>1. NormalizeToken("main") = "main" /\ NormalizeToken("default") = "default" /\ Image(Cleaned, "main") = "main"
  BY DEF NormalForms, Plain
<1>2. NormalizeAgentId("main") = "main"
  BY <1>0, <1>1 DEF NormalizeAgentId, NormalizeId, DefaultAgent
<1>3. CASE s \in {None, "main"}
  BY <1>0, <1>1, <1>2, <1>3 DEF NormalizeAgentId, NormalizeAccountId, NormalizeId, DefaultAgent, DefaultAccount
<1>4. CASE s \in Ids
  <2>1. PICK c : c = Image(Cleaned, s) /\ NormalizeToken(c) = c /\ Image(Cleaned, c) = c /\ c # None
    BY <1>4 DEF NormalForms
  <2> QED BY <1>0, <1>1, <1>2, <2>1 DEF NormalizeAgentId, NormalizeAccountId, NormalizeId, DefaultAgent, DefaultAccount
<1> QED BY <1>3, <1>4

\* What comes after the agent in a key that can be read back.
Readable(U, rest) ==
  rest \in Seq(U) /\ rest # << >> /\ rest # <<Empty>> /\ (Len(rest) = 1 \/ rest[1] # "agent")

\* A key of an agent that can be read back.
KeyOf(U, A, key) == \E rest : Readable(U, rest) /\ key = <<"agent", A>> \o rest

\* A key of plain tokens is read back.
LEMMA KeyIsReadBack ==
  ASSUME NEW U, Plain(U), NEW A \in U, "agent" \in U, A # Empty, NormalizeAgentId(A) = A,
         NEW key, KeyOf(U, A, key), NEW mainKey
  PROVE  /\ AgentOfSessionKey(key) = A
         /\ ToRequestKey(key) # <<DefaultMainKey>> => ToStoreKey(A, ToRequestKey(key), mainKey) = key
<1>0. PICK rest : Readable(U, rest) /\ key = <<"agent", A>> \o rest
  BY DEF KeyOf
<1>1. PICK h : h = <<"agent", A>> /\ h \in Seq(U) /\ Len(h) = 2 /\ h[1] = "agent" /\ h[2] = A
  <2>1. PICK h : h = <<"agent", A>>
    OBVIOUS
  <2>2. h \in Seq(U) /\ Len(h) = 2 /\ h[1] = "agent" /\ h[2] = A
    BY <2>1
  <2> QED BY <2>1, <2>2
<1>2. rest \in Seq(U) /\ rest # << >> /\ Len(rest) \in Nat \ {0} /\ key = h \o rest
  BY <1>0, <1>1, EmptySeq DEF Readable
<1>3. /\ key \in Seq(U) /\ Len(key) = Len(h) + Len(rest)
      /\ \A i \in 1..Len(h) + Len(rest) : key[i] = IF i <= Len(h) THEN h[i] ELSE rest[i - Len(h)]
  BY <1>1, <1>2, ConcatProperties
<1>4. /\ Len(key) = Len(rest) + 2 /\ key # << >> /\ key[1] = "agent" /\ key[2] = A
      /\ \A i \in 1..Len(rest) : key[i + 2] = rest[i]
  BY <1>1, <1>2, <1>3
<1>5. Tail(Tail(key)) = rest
  <2>0. PICK t : t = Tail(key)
    OBVIOUS
  <2>1. t \in Seq(U) /\ Len(t) = Len(key) - 1 /\ \A i \in 1..Len(t) : t[i] = key[i + 1]
    BY <1>3, <1>4, <2>0, HeadTailProperties
  <2>2. t # << >>
    <3>1. Len(t) # 0
      BY <1>2, <1>4, <2>1
    <3> QED BY <3>1, EmptySeq
  <2>9. PICK u : u = Tail(t)
    OBVIOUS
  <2>3. u \in Seq(U) /\ Len(u) = Len(t) - 1 /\ \A i \in 1..Len(u) : u[i] = t[i + 1]
    BY <2>1, <2>2, <2>9, HeadTailProperties
  <2>4. Len(u) = Len(rest)
    BY <1>2, <1>4, <2>1, <2>3
  <2>5. ASSUME NEW i \in 1..Len(u) PROVE u[i] = rest[i]
    <3>1. u[i] = t[i + 1] /\ i + 1 \in 1..Len(t) /\ i \in 1..Len(rest)
      BY <1>2, <1>4, <2>1, <2>3, <2>4
    <3>2. t[i + 1] = key[i + 2]
      BY <2>1, <3>1
    <3> QED BY <1>4, <3>1, <3>2
  <2> QED BY <1>2, <2>0, <2>3, <2>4, <2>5, <2>9, SeqEqual
<1>6. IsAgentKey(key)
  <2>1. Len(key) >= 3
    BY <1>2, <1>4
  <2>2. NormalizeToken(key[1]) = "agent"
    BY <1>4 DEF Plain
  <2> QED BY <1>0, <1>4, <1>5, <2>1, <2>2 DEF IsAgentKey, Readable
<1>7. NormalizePeer(rest) = rest
  <2>1. rest \in [1..Len(rest) -> U] /\ DOMAIN rest = 1..Len(rest)
    BY <1>2, LenProperties
  <2> QED BY <2>1 DEF NormalizePeer, Plain
<1>8. AgentOfSessionKey(key) = A
  <2>1. NormalizeToken(key[2]) = A
    BY <1>4 DEF Plain
  <2> QED BY <1>6, <2>1 DEF AgentOfSessionKey, ParseAgentSessionKey
<1>9. ToRequestKey(key) = rest
  BY <1>5, <1>6, <1>7 DEF ToRequestKey, ParseAgentSessionKey
<1>10. ASSUME rest # <<DefaultMainKey>> PROVE ToStoreKey(A, rest, mainKey) = key
  <2>1. ~(Len(rest) > 1 /\ NormalizeToken(rest[1]) = "agent")
    <3>1. ASSUME Len(rest) > 1 PROVE NormalizeToken(rest[1]) # "agent"
      <4>1. rest[1] \in U /\ rest[1] # "agent"
        BY <1>0, <1>2, <3>1, ElementOfSeq DEF Readable
      <4> QED BY <4>1 DEF Plain
    <3> QED BY <3>1
  <2>2. rest \notin {<< >>, <<DefaultMainKey>>}
    BY <1>2, <1>10
  <2>3. ToStoreKey(A, rest, mainKey) = <<"agent", NormalizeAgentId(A)>> \o NormalizePeer(rest)
    BY <2>1, <2>2 DEF ToStoreKey
  <2> QED BY <1>0, <1>7, <2>3
<1> QED BY <1>8, <1>9, <1>10

\* A key with a peer can be read back unless its middle begins with "agent".
LEMMA PeerIsReadable ==
  ASSUME NEW U, NEW A \in U, "agent" \in U, NEW m \in Seq(U), m # << >>, m[1] # "agent", NEW p \in Seq(U), p # << >>
  PROVE  Readable(U, m \o p) /\ (<<"agent", A>> \o m) \o p = <<"agent", A>> \o (m \o p)
<1>1. Len(m) \in Nat \ {0} /\ Len(p) \in Nat \ {0}
  BY EmptySeq
<1>2. PICK r : r = m \o p
  OBVIOUS
<1>3. /\ r \in Seq(U) /\ Len(r) = Len(m) + Len(p)
      /\ \A i \in 1..Len(m) + Len(p) : r[i] = IF i <= Len(m) THEN m[i] ELSE p[i - Len(m)]
  BY <1>2, ConcatProperties
<1>4. Len(r) > 1 /\ r[1] = m[1]
  BY <1>1, <1>3
<1>5. r # << >> /\ r # <<Empty>>
  <2>1. PICK e : e = <<Empty>>
    OBVIOUS
  <2>2. Len(e) = 1
    BY <2>1
  <2>3. r # e
    <3> SUFFICES ASSUME r = e PROVE FALSE
      OBVIOUS
    <3>1. Len(r) = 1
      BY <2>2
    <3> QED BY <1>4, <3>1
  <2>4. r # << >>
    BY <1>1, <1>3, EmptySeq
  <2> QED BY <2>1, <2>3, <2>4
<1>6. Readable(U, r)
  BY <1>3, <1>4, <1>5 DEF Readable
<1>7. <<"agent", A>> \in Seq(U)
  OBVIOUS
<1>8. (<<"agent", A>> \o m) \o p = <<"agent", A>> \o (m \o p)
  BY <1>7, ConcatAssociative
<1> QED BY <1>2, <1>6, <1>8

\* The peers a direct message may be filed under.
LEMMA DirectPeerPlain ==
  ASSUME NEW S, NEW U, NEW x, x.peer \in Seq(S), NEW p \in DirectPeers(x),
         \A s \in S : NormalizeToken(s) \in U, \A s \in DOMAIN x.links : NormalizeToken(s) \in U
  PROVE  p \in Seq(U)
<1>1. CASE p = NormalizePeer(x.peer)
  <2>1. p \in Seq({NormalizeToken(s) : s \in S})
    BY <1>1, PeerNormalized
  <2> QED BY <2>1, SeqMonotonic
<1>2. ASSUME NEW s \in DOMAIN x.links, p = <<NormalizeToken(s)>> PROVE p \in Seq(U)
  <2>1. NormalizeToken(s) \in U
    BY <1>2
  <2> QED BY <1>2, <2>1
<1> QED BY <1>1, <1>2 DEF DirectPeers, LinkedPeers

\* The key of the messages without one of their own.
LEMMA MainIsReadable ==
  ASSUME NEW U, NEW agent, NEW mainKey, NormalizeMainKey(mainKey) \in U
  PROVE  KeyOf(U, NormalizeAgentId(agent), MainSessionKey(agent, mainKey))
<1>1. PICK mk : mk = NormalizeMainKey(mainKey) /\ mk \in U
  OBVIOUS
<1>2. "main" # Empty
  BY Zenon DEF Empty
<1>3. mk # Empty
  BY <1>1, <1>2 DEF NormalizeMainKey, DefaultMainKey
<1>4. PICK rest : rest = <<mk>>
  OBVIOUS
<1>5. rest \in Seq(U) /\ rest # << >> /\ Len(rest) = 1 /\ rest[1] = mk
  BY <1>1, <1>4
<1>6. rest # <<Empty>>
  BY <1>3, <1>4
<1>7. Readable(U, rest)
  BY <1>5, <1>6 DEF Readable
<1>8. MainSessionKey(agent, mainKey) = <<"agent", NormalizeAgentId(agent)>> \o rest
  BY <1>1, <1>4, JoinOne DEF MainSessionKey
<1> QED BY <1>7, <1>8 DEF KeyOf

\* So are all keys of a message.
LEMMA KeysAreReadable ==
  ASSUME NEW S, NEW U, NEW agent, NEW x, x.peer \in Seq(S), x.scope \in Scopes, NEW key \in PeerSessionKeys(agent, x),
         {"agent", "direct", "unknown", NormalizeAgentId(agent), Named(x.channel), NormalizeAccountId(x.account), x.kind} \subseteq U,
         NormalizeMainKey(x.mainKey) \in U, Named(x.channel) # "agent",
         \A s \in S : NormalizeToken(s) \in U, \A s \in DOMAIN x.links : NormalizeToken(s) \in U
  PROVE  KeyOf(U, NormalizeAgentId(agent), key)
<1>1. PICK A, ch, acc : A = NormalizeAgentId(agent) /\ ch = Named(x.channel) /\ acc = NormalizeAccountId(x.account)
  OBVIOUS
<1>2. {"agent", "direct", "unknown", A, ch, acc, x.kind} \subseteq U /\ ch # "agent"
  BY <1>1
<1>3. ASSUME NEW m \in Seq(U), m # << >>, m[1] # "agent", NEW p \in Seq(U), p # << >>, key = (<<"agent", A>> \o m) \o p
      PROVE  KeyOf(U, A, key)
  <2>1. A \in U /\ "agent" \in U
    BY <1>2
  <2>2. PICK rest : rest = m \o p
    OBVIOUS
  <2>3. Readable(U, m \o p) /\ (<<"agent", A>> \o m) \o p = <<"agent", A>> \o (m \o p)
    BY <1>3, <2>1, PeerIsReadable
  <2>4. Readable(U, rest) /\ key = <<"agent", A>> \o rest
    BY <1>3, <2>2, <2>3
  <2> QED BY <2>4 DEF KeyOf
<1>4. CASE x.kind = "direct"
  <2>1. PICK p \in DirectPeers(x) : key = DirectKey(agent, x, p)
    BY <1>4 DEF PeerSessionKeys
  <2>2. CASE p = << >> \/ x.scope = "main"
    <3>1. key = MainSessionKey(agent, x.mainKey)
      <4>1. CASE p = << >>
        BY <2>1, <4>1, Zenon DEF DirectKey
      <4>2. CASE x.scope = "main"
        BY <2>1, <4>2 DEF DirectKey
      <4> QED BY <2>2, <4>1, <4>2
    <3>2. KeyOf(U, NormalizeAgentId(agent), MainSessionKey(agent, x.mainKey))
      BY MainIsReadable
    <3> QED BY <3>1, <3>2
  <2>3. CASE p # << >> /\ x.scope # "main"
    <3>1. p \in Seq(U)
      BY DirectPeerPlain
    <3>2. PICK m1, m2, m3 : m1 = <<"direct">> /\ m2 = <<ch, "direct">> /\ m3 = <<ch, acc, "direct">>
      OBVIOUS
    <3>3. PICK m \in {m1, m2, m3} : key = (<<"agent", A>> \o m) \o p
      BY <1>1, <2>1, <2>3, <3>2 DEF DirectKey, Scopes
    <3>4. m \in Seq(U) /\ m # << >> /\ m[1] # "agent"
      <4>1. m = m1 => m \in Seq(U) /\ m # << >> /\ m[1] # "agent"
        BY <1>2, <3>2
      <4>2. m = m2 => m \in Seq(U) /\ m # << >> /\ m[1] # "agent"
        BY <1>2, <3>2
      <4>3. m = m3 => m \in Seq(U) /\ m # << >> /\ m[1] # "agent"
        BY <1>2, <3>2
      <4> QED BY <4>1, <4>2, <4>3
    <3> QED BY <1>1, <1>3, <2>3, <3>1, <3>3, <3>4
  <2> QED BY <2>2, <2>3
<1>5. CASE x.kind # "direct"
  <2>1. PICK p : p = IF x.peer = << >> THEN <<"unknown">> ELSE NormalizePeer(x.peer)
    OBVIOUS
  <2>2. p \in Seq(U) /\ p # << >>
    <3>1. CASE x.peer = << >>
      BY <1>2, <2>1, <3>1
    <3>2. CASE x.peer # << >>
      <4>1. /\ NormalizePeer(x.peer) \in Seq({NormalizeToken(s) : s \in S})
            /\ Len(NormalizePeer(x.peer)) = Len(x.peer)
        BY PeerNormalized
      <4>2. Len(x.peer) # 0
        BY <3>2, EmptySeq
      <4>3. NormalizePeer(x.peer) # << >>
        BY <4>1, <4>2, EmptySeq
      <4>4. NormalizePeer(x.peer) \in Seq(U)
        BY <4>1, SeqMonotonic
      <4> QED BY <2>1, <3>2, <4>3, <4>4
    <3> QED BY <3>1, <3>2
  <2>3. PICK m : m = <<ch, x.kind>>
    OBVIOUS
  <2>4. m \in Seq(U) /\ m # << >> /\ m[1] # "agent"
    BY <1>2, <2>3
  <2>5. <<"agent", A>> \o m = <<"agent", A, ch, x.kind>>
    BY <2>3, JoinTwo
  <2>6. key = <<"agent", A, ch, x.kind>> \o p
    BY <1>1, <1>5, <2>1 DEF PeerSessionKeys, GroupKey
  <2> QED BY <1>1, <1>3, <2>2, <2>4, <2>5, <2>6
<1> QED BY <1>4, <1>5

\* A set of numbers has a least one.
LEMMA LeastIsIn == ASSUME NEW T \in SUBSET Nat, T # {} PROVE Least(T) \in T
<1>1. PICK R : R = OpToRel(<, Nat)
  OBVIOUS
<1>2. IsWellFoundedOn(R, Nat)
  BY <1>1, NatLessThanWellFounded
<1>3. PICK x \in T : \A y \in T : ~(<<y, x>> \in R)
  BY <1>2, WFMin
<1>4. \A y \in T : y < x => <<y, x>> \in R
  BY <1>1 DEF OpToRel
<1>5. ASSUME NEW y \in T PROVE x <= y
  <2>1. x \in Nat /\ y \in Nat /\ ~(y < x)
    BY <1>3, <1>4
  <2> QED BY <2>1
<1> QED BY <1>5 DEF Least

\* A route goes to an agent with the normal form of one of the ids.
LEMMA RouteNamesId ==
  ASSUME NEW Ids, NormalForms(Ids), NEW bindings, NEW agents, NamedIn(Ids, bindings, agents), NEW ctx
  PROVE  \E s \in Ids \cup {None, "main"} : ResolveAgentRoute(bindings, agents, ctx).agent = NormalizeAgentId(s)
<1>1. NormalizeAgentId("main") = "main"
  <2>1. "main" # Empty
    BY Zenon DEF Empty
  <2>2. Image(Cleaned, "main") = "main"
    BY DEF NormalForms
  <2> QED BY <2>1, <2>2 DEF NormalizeAgentId, NormalizeId, DefaultAgent
<1>2. \E s \in Ids \cup {None, "main"} : DefaultAgentId(agents) = NormalizeAgentId(s)
  <2>1. PICK marked : marked = {i \in DOMAIN agents : agents[i].default /\ agents[i].id # None}
    OBVIOUS
  <2>2. CASE marked # {}
    <3>1. Least(marked) \in marked
      BY <2>1, <2>2, LeastIsIn DEF NamedIn
    <3>2. agents[Least(marked)].id \in Ids \cup {None}
      BY <2>1, <3>1 DEF NamedIn
    <3>3. DefaultAgentId(agents) = NormalizeAgentId(agents[Least(marked)].id)
      BY <2>1, <2>2 DEF DefaultAgentId
    <3> QED BY <3>2, <3>3
  <2>3. CASE marked = {} /\ agents # << >> /\ agents[1].id # None
    <3>1. agents[1].id \in Ids \cup {None}
      BY <2>3 DEF NamedIn
    <3>2. DefaultAgentId(agents) = NormalizeAgentId(agents[1].id)
      BY <2>1, <2>3 DEF DefaultAgentId
    <3> QED BY <3>1, <3>2
  <2>4. CASE marked = {} /\ ~(agents # << >> /\ agents[1].id # None)
    <3>1. DefaultAgentId(agents) = DefaultAgent
      BY <2>1, <2>4 DEF DefaultAgentId
    <3> QED BY <1>1, <3>1 DEF DefaultAgent
  <2> QED BY <2>2, <2>3, <2>4
<1> DEFINE At(l) == {i \in DOMAIN bindings : bindings[i].match # None /\ l \in Levels(bindings[i].match, ctx)}
           Hit == {l \in 1..7 : At(l) # {}}
           Level == IF Hit = {} THEN 8 ELSE Least(Hit)
<1>3. ResolveAgentRoute(bindings, agents, ctx).agent =
        IF Hit = {} THEN DefaultAgentId(agents) ELSE NormalizeAgentId(bindings[Least(At(Level))].agent)
  BY DEF ResolveAgentRoute
<1>4. CASE Hit = {}
  <2> HIDE DEF At, Hit, Level
  <2> QED BY <1>2, <1>3, <1>4
<1>5. CASE Hit # {}
  <2>1. Hit \in SUBSET Nat
    OBVIOUS
  <2>2. Level \in Hit
    <3> HIDE DEF Hit
    <3> QED BY <1>5, <2>1, LeastIsIn
  <2>3. At(Level) # {}
    <3> HIDE DEF Level
    <3> QED BY <2>2
  <2>4. Least(At(Level)) \in At(Level)
    <3>1. At(Level) \in SUBSET Nat
      <4> HIDE DEF Level
      <4> QED BY DEF NamedIn
    <3> HIDE DEF At
    <3> QED BY <2>3, <3>1, LeastIsIn
  <2>5. Least(At(Level)) \in DOMAIN bindings
    <3> HIDE DEF Level
    <3> QED BY <2>4
  <2> HIDE DEF At, Hit, Level
  <2>6. bindings[Least(At(Level))].agent \in Ids \cup {None}
    BY <2>5 DEF NamedIn
  <2> QED BY <1>3, <1>5, <2>6
<1> QED BY <1>4, <1>5

\* The agent read back from a route's keys, also after a key went to a request and came
\* back to the store, is the agent the route was given to.
THEOREM AgentsAreReadBack ==
  ASSUME NEW Ids, NormalForms(Ids), NEW S, NEW bindings, NEW agents, NamedIn(Ids, bindings, agents),
         NEW ctx, ctx.peer \in Seq(S), ctx.scope \in Scopes, ctx.account \in Ids \cup {None},
         NormalizeToken(ctx.kind) = ctx.kind, Named(ctx.channel) # "agent"
  PROVE  KeyNamesAgent(bindings, agents, ctx)
<1>1. PICK s \in Ids \cup {None, "main"} : ResolveAgentRoute(bindings, agents, ctx).agent = NormalizeAgentId(s)
  BY RouteNamesId
<1>2. PICK A : A = NormalizeAgentId(s) /\ A # Empty /\ NormalizeToken(A) = A /\ NormalizeAgentId(A) = A
  BY IdTwice
<1>3. PICK route : route = ResolveAgentRoute(bindings, agents, ctx)
  OBVIOUS
<1>4. /\ route.agent = A /\ route.keys = PeerSessionKeys(A, ctx)
      /\ route.mainKey = MainSessionKey(A, ctx.mainKey)
  <2>1. /\ route.keys = PeerSessionKeys(route.agent, ctx)
        /\ route.mainKey = MainSessionKey(route.agent, ctx.mainKey)
    <3>1. PICK agent, level : route = [agent |-> agent, level |-> level, keys |-> PeerSessionKeys(agent, ctx),
                                       mainKey |-> MainSessionKey(agent, ctx.mainKey)]
      BY <1>3, Zenon DEF ResolveAgentRoute
    <3> QED BY <3>1
  <2> QED BY <1>1, <1>2, <1>3, <2>1
<1>5. PICK ch, acc, mk : ch = Named(ctx.channel) /\ acc = NormalizeAccountId(ctx.account) /\ mk = NormalizeMainKey(ctx.mainKey)
  OBVIOUS
<1>6. PICK U : U = {"agent", "direct", "unknown", "main", A, ch, acc, mk, ctx.kind}
                     \cup {NormalizeToken(t) : t \in S} \cup {NormalizeToken(t) : t \in DOMAIN ctx.links}
  OBVIOUS
<1>7. Plain(U)
  <2>1. Plain({"agent", "direct", "unknown", "main"})
    BY DEF NormalForms, Plain
  <2>2. NormalizeToken(acc) = acc
    <3>1. ctx.account \in Ids \cup {None, "main"}
      OBVIOUS
    <3> QED BY <1>5, <3>1, IdTwice
  <2>3. NormalizeToken(ch) = ch
    BY <1>5, <2>1, TokenTwice DEF Named, Plain
  <2>4. NormalizeToken(mk) = mk
    BY <1>5, <2>1, TokenTwice DEF NormalizeMainKey, DefaultMainKey, Plain
  <2>5. \A t : NormalizeToken(NormalizeToken(t)) = NormalizeToken(t)
    BY TokenTwice
  <2>6. SUFFICES ASSUME NEW t \in U PROVE NormalizeToken(t) = t
    BY DEF Plain
  <2>7. CASE t \in {"agent", "direct", "unknown", "main"}
    BY <2>1, <2>7 DEF Plain
  <2>8. CASE t \in {A, ch, acc, mk, ctx.kind}
    BY <1>2, <2>2, <2>3, <2>4, <2>8
  <2>9. ASSUME NEW x, t = NormalizeToken(x) PROVE NormalizeToken(t) = t
    BY <2>5, <2>9
  <2> QED BY <1>6, <2>7, <2>8, <2>9
<1>8. ASSUME NEW key \in PeerSessionKeys(A, ctx) \cup {MainSessionKey(A, ctx.mainKey)}
      PROVE  KeyOf(U, A, key)
  <2>1. CASE key \in PeerSessionKeys(A, ctx)
    <3>1. /\ {"agent", "direct", "unknown", NormalizeAgentId(A), Named(ctx.channel), NormalizeAccountId(ctx.account), ctx.kind} \subseteq U
          /\ NormalizeMainKey(ctx.mainKey) \in U
          /\ \A t \in S : NormalizeToken(t) \in U
          /\ \A t \in DOMAIN ctx.links : NormalizeToken(t) \in U
      BY <1>2, <1>5, <1>6
    <3>2. KeyOf(U, NormalizeAgentId(A), key)
      BY <2>1, <3>1, KeysAreReadable
    <3> QED BY <1>2, <3>2
  <2>2. CASE key = MainSessionKey(A, ctx.mainKey)
    <3>1. NormalizeMainKey(ctx.mainKey) \in U
      BY <1>5, <1>6
    <3>2. KeyOf(U, NormalizeAgentId(A), MainSessionKey(A, ctx.mainKey))
      BY <3>1, MainIsReadable
    <3> QED BY <1>2, <2>2, <3>2
  <2> QED BY <2>1, <2>2
<1>9. ASSUME NEW key \in PeerSessionKeys(A, ctx) \cup {MainSessionKey(A, ctx.mainKey)}
      PROVE  /\ AgentOfSessionKey(key) = A
             /\ ToRequestKey(key) # <<DefaultMainKey>> => ToStoreKey(A, ToRequestKey(key), ctx.mainKey) = key
  <2>1. KeyOf(U, A, key)
    BY <1>8
  <2>2. A \in U /\ "agent" \in U
    BY <1>6
  <2> QED BY <1>2, <1>7, <2>1, <2>2, KeyIsReadBack
<1> QED BY <1>3, <1>4, <1>9 DEF KeyNamesAgent

-----------------------------------------------------------------------------
(* Messages: what an event becomes, and where its answer goes.             *)

\* A context that has every field and does not say yet whether it may run commands.
Unasked(ctx) == ctx = [f \in MsgFields |-> ctx[f]] /\ ctx["CommandAuthorized"] = None

LEMMA EmptyIsUnasked == Unasked(EmptyContext)
BY DEF Unasked, EmptyContext, MsgFields, RoutingFields

\* The fields that say who speaks to whom.
Address == {"From", "To", "ChatType"}
SameAddress(a, b) == \A f \in Address : a[f] = b[f]

\* Another field may be set to anything.
LEMMA FieldSet ==
  ASSUME NEW ctx, Unasked(ctx), NEW f, f # "CommandAuthorized", NEW v
  PROVE  Unasked([ctx EXCEPT ![f] = v])
BY DEF Unasked

LEMMA AddressIsTold == Address \subseteq MsgFields
BY DEF Address, MsgFields, AddressFields, ConversationFields

LEMMA MediaIsUnasked ==
  ASSUME NEW attached
  PROVE  Unasked(ExtractMedia(attached))
<1>0. PICK body, type, url, name, mime, sticker :
        LET captioned == attached.kind # "sticker"
            linked == attached.kind \notin {"text", "sticker"} /\ attached.file # None
            named == attached.kind \in {"document", "audio", "animation"}
        IN  /\ body = IF captioned THEN attached.text ELSE None
            /\ type = IF attached.kind = "text" THEN None ELSE attached.kind
            /\ url = IF linked THEN <<"tg://file/", attached.file>> ELSE None
            /\ name = IF named THEN attached.name ELSE None
            /\ mime = IF named \/ attached.kind = "video" THEN attached.mime ELSE None
            /\ sticker = IF attached.kind = "sticker" THEN attached.file ELSE None
  OBVIOUS
<1>1. MediaOf(attached)
        = [EmptyContext EXCEPT !["Body"] = body, !["MediaType"] = type, !["MediaUrl"] = url,
             !["MediaFileName"] = name, !["MediaMimeType"] = mime, !["Sticker"] = sticker]
  BY <1>0 DEF MediaOf
<1>2. PICK c : /\ c = [EmptyContext EXCEPT !["Body"] = body, !["MediaType"] = type, !["MediaUrl"] = url]
               /\ Unasked(c)
  BY EmptyIsUnasked, FieldSet
<1>3. PICK e : /\ e = [c EXCEPT !["MediaFileName"] = name, !["MediaMimeType"] = mime, !["Sticker"] = sticker]
               /\ Unasked(e)
  BY <1>2, FieldSet
<1>4. MediaOf(attached) = e
  BY <1>1, <1>2, <1>3
<1> QED BY <1>3, <1>4, EmptyIsUnasked DEF ExtractMedia

LEMMA ReplyIsUnasked ==
  ASSUME NEW ctx, Unasked(ctx), NEW reply
  PROVE  Unasked(ExtractReply(ctx, reply)) /\ SameAddress(ExtractReply(ctx, reply), ctx)
<1>1. PICK text, sender :
             /\ text = IF reply.kind = "text" THEN reply.text ELSE ctx["ReplyToBody"]
             /\ sender = IF reply.kind = "service" THEN ctx["ReplyToSender"] ELSE reply.sender
  OBVIOUS
<1>2. PICK c : /\ c = [ctx EXCEPT !["ReplyToId"] = reply.id, !["ReplyToBody"] = text,
                                  !["ReplyToSender"] = sender]
               /\ Unasked(c)
  BY FieldSet
<1>3. SameAddress(c, ctx)
  BY <1>2, AddressIsTold DEF Unasked, SameAddress, Address
<1>4. ExtractReply(ctx, reply) = IF reply = None THEN ctx ELSE c
  BY <1>1, <1>2 DEF ExtractReply
<1>5. SameAddress(ctx, ctx)
  BY DEF SameAddress
<1> QED BY <1>2, <1>3, <1>4, <1>5

LEMMA ForwardIsUnasked ==
  ASSUME NEW ctx, Unasked(ctx), NEW origin
  PROVE  Unasked(ExtractForward(ctx, origin)) /\ SameAddress(ExtractForward(ctx, origin), ctx)
<1>1. CASE origin = None
  BY <1>1 DEF ExtractForward, SameAddress
<1>2. CASE origin # None
  <2>0. PICK name, id, user, title, message :
          /\ name = IF origin.kind \in {"chat", "channel"} THEN Or(origin.name, "Unknown") ELSE origin.name
          /\ id = IF origin.kind = "hidden_user" THEN None ELSE origin.id
          /\ user = IF origin.kind = "user" THEN origin.username ELSE None
          /\ title = IF origin.kind = "channel" THEN origin.name ELSE None
          /\ message = IF origin.kind = "channel" THEN origin.message ELSE None
    OBVIOUS
  <2>1. ExtractForward(ctx, origin)
          = [ctx EXCEPT !["ForwardedDate"] = origin.date, !["ForwardedFromType"] = origin.kind,
               !["ForwardedFrom"] = name, !["ForwardedFromId"] = id,
               !["ForwardedFromUsername"] = user, !["ForwardedFromTitle"] = title,
               !["ForwardedFromMessageId"] = message]
    BY <1>2, <2>0 DEF ExtractForward
  <2>2. PICK c : /\ c = [ctx EXCEPT !["ForwardedDate"] = origin.date, !["ForwardedFromType"] = origin.kind,
                          !["ForwardedFrom"] = name, !["ForwardedFromId"] = id]
                 /\ Unasked(c)
    BY FieldSet
  <2>3. PICK e : /\ e = [c EXCEPT !["ForwardedFromUsername"] = user, !["ForwardedFromTitle"] = title,
                                  !["ForwardedFromMessageId"] = message]
                 /\ Unasked(e)
    BY <2>2, FieldSet
  <2>4. SameAddress(c, ctx)
    BY <2>2, AddressIsTold DEF Unasked, SameAddress, Address
  <2>5. SameAddress(e, c)
    BY <2>2, <2>3, AddressIsTold DEF Unasked, SameAddress, Address
  <2>6. SameAddress(e, ctx)
    BY <2>4, <2>5 DEF SameAddress
  <2>7. ExtractForward(ctx, origin) = e
    BY <2>1, <2>2, <2>3
  <2> QED BY <2>3, <2>6, <2>7
<1> QED BY <1>1, <1>2

LEMMA CoreIsUnasked ==
  ASSUME NEW u, NEW attached, Unasked(attached)
  PROVE  Unasked([attached EXCEPT
           !["From"] = u.from, !["SenderId"] = u.from, !["To"] = u.chat,
           !["Provider"] = "telegram", !["MessageSid"] = u.id,
           !["ChatType"] = TelegramChatType(u.chatKind),
           !["MessageThreadId"] = u.thread, !["IsForum"] = u.topic])
<1>1. PICK c : /\ c = [attached EXCEPT !["From"] = u.from, !["SenderId"] = u.from, !["To"] = u.chat,
                                       !["Provider"] = "telegram"]
               /\ Unasked(c)
  BY FieldSet
<1>2. Unasked([c EXCEPT !["MessageSid"] = u.id, !["ChatType"] = TelegramChatType(u.chatKind),
                          !["MessageThreadId"] = u.thread, !["IsForum"] = u.topic])
  BY <1>1, FieldSet
<1> QED BY <1>1, <1>2

LEMMA MessageCreateIsUnasked ==
  ASSUME NEW d, NormalizeMessageCreate(d) # None
  PROVE  Unasked(NormalizeMessageCreate(d))
<1>1. PICK body, type, id, text, urls, url, attached :
             /\ body = Or(d.text, <<>>)
             /\ type = IF d.guild = None THEN "direct"
                       ELSE IF d.thread # None \/ d.threadType THEN "thread" ELSE "group"
             /\ id = IF d.reply = None THEN None ELSE d.reply.id
             /\ text = IF d.reply = None THEN None ELSE d.reply.text
             /\ urls = IF d.urls = <<>> THEN None ELSE d.urls
             /\ url = IF d.urls = <<>> THEN None ELSE Head(d.urls)
             /\ attached = IF d.urls = <<>> THEN None ELSE "attachment"
  OBVIOUS
<1>2. NormalizeMessageCreate(d)
        = [EmptyContext EXCEPT
             !["Body"] = body, !["From"] = d.from, !["SenderId"] = d.from, !["To"] = d.chat,
             !["Provider"] = "discord", !["MessageSid"] = d.id, !["ChatType"] = type,
             !["ReplyToId"] = id, !["ReplyToBody"] = text, !["MessageThreadId"] = d.thread,
             !["MediaUrls"] = urls, !["MediaUrl"] = url, !["MediaType"] = attached]
  BY <1>1 DEF NormalizeMessageCreate
<1>3. PICK c : /\ c = [EmptyContext EXCEPT !["Body"] = body, !["From"] = d.from, !["SenderId"] = d.from,
                                           !["To"] = d.chat]
               /\ Unasked(c)
  BY EmptyIsUnasked, FieldSet
<1>4. PICK e : /\ e = [c EXCEPT !["Provider"] = "discord", !["MessageSid"] = d.id, !["ChatType"] = type,
                                !["ReplyToId"] = id]
               /\ Unasked(e)
  BY <1>3, FieldSet
<1>5. PICK f : /\ f = [e EXCEPT !["ReplyToBody"] = text, !["MessageThreadId"] = d.thread,
                                !["MediaUrls"] = urls, !["MediaUrl"] = url]
               /\ Unasked(f)
  BY <1>4, FieldSet
<1>6. Unasked([f EXCEPT !["MediaType"] = attached])
  BY <1>5, FieldSet
<1> QED BY <1>2, <1>3, <1>4, <1>5, <1>6

LEMMA WhatsAppIsUnasked ==
  ASSUME NEW m, NormalizeWhatsAppEvent(m) # None
  PROVE  /\ Unasked(NormalizeWhatsAppEvent(m))
         /\ NormalizeWhatsAppEvent(m)["From"] = Or(m.participant, m.chat.jid)
         /\ NormalizeWhatsAppEvent(m)["To"] = m.chat.jid
<1>1. PICK sender, sid, type, id, text :
             /\ sender = Or(m.participant, m.chat.jid)
             /\ sid = Or(m.id, "")
             /\ type = IF m.chat.group THEN "group" ELSE "direct"
             /\ id = IF m.reply = None THEN None ELSE m.reply.id
             /\ text = IF m.reply = None THEN None ELSE m.reply.text
  BY Zenon
<1>2. NormalizeWhatsAppEvent(m)
        = [EmptyContext EXCEPT
             !["Body"] = WhatsAppText(m), !["From"] = sender, !["SenderId"] = sender,
             !["To"] = m.chat.jid, !["Provider"] = "whatsapp", !["MessageSid"] = sid,
             !["ChatType"] = type, !["MediaType"] = m.media, !["ReplyToId"] = id,
             !["ReplyToBody"] = text]
  BY <1>1, Zenon DEF NormalizeWhatsAppEvent
<1>3. PICK c : /\ c = [EmptyContext EXCEPT !["Body"] = WhatsAppText(m), !["From"] = sender,
                                           !["SenderId"] = sender, !["To"] = m.chat.jid]
               /\ Unasked(c)
  BY EmptyIsUnasked, FieldSet
<1>4. PICK e : /\ e = [c EXCEPT !["Provider"] = "whatsapp", !["MessageSid"] = sid, !["ChatType"] = type,
                                !["MediaType"] = m.media]
               /\ Unasked(e)
  BY <1>3, FieldSet
<1>5. PICK f : f = [e EXCEPT !["ReplyToId"] = id, !["ReplyToBody"] = text] /\ Unasked(f)
  BY <1>4, FieldSet
<1>6. c["From"] = sender /\ c["To"] = m.chat.jid
  BY <1>3, EmptyIsUnasked, AddressIsTold DEF Unasked, Address
<1>7. e["From"] = c["From"] /\ e["To"] = c["To"]
  BY <1>3, <1>4, AddressIsTold DEF Unasked, Address
<1>8. f["From"] = e["From"] /\ f["To"] = e["To"]
  BY <1>4, <1>5, AddressIsTold DEF Unasked, Address
<1>9. NormalizeWhatsAppEvent(m) = f
  BY <1>2, <1>3, <1>4, <1>5
<1> QED BY <1>1, <1>5, <1>6, <1>7, <1>8, <1>9, Zenon

\* No normalizer sets the field.
LEMMA EventIsUnasked ==
  ASSUME NEW event, Normalize(event) # None
  PROVE  Unasked(Normalize(event))
<1>1. CASE event.platform = "telegram"
  <2>1. PICK u : u = event /\ Normalize(event) = NormalizeUpdate(u) /\ NormalizeUpdate(u) # None
    BY <1>1 DEF Normalize
  <2>2. PICK attached : attached = ExtractMedia(u.media) /\ Unasked(attached)
    BY MediaIsUnasked
  <2>3. PICK core : /\ core = [attached EXCEPT
                        !["From"] = u.from, !["SenderId"] = u.from, !["To"] = u.chat,
                        !["Provider"] = "telegram", !["MessageSid"] = u.id,
                        !["ChatType"] = TelegramChatType(u.chatKind),
                        !["MessageThreadId"] = u.thread, !["IsForum"] = u.topic]
                    /\ Unasked(core)
    BY <2>2, CoreIsUnasked
  <2>4. PICK reply : reply = ExtractReply(core, u.reply) /\ Unasked(reply)
    BY <2>3, ReplyIsUnasked
  <2>5. Unasked(ExtractForward(reply, u.forward))
    BY <2>4, ForwardIsUnasked
  <2>6. NormalizeUpdate(u) = ExtractForward(reply, u.forward)
    BY <2>1, <2>2, <2>3, <2>4 DEF NormalizeUpdate
  <2> QED BY <2>1, <2>5, <2>6
<1>2. CASE event.platform # "telegram" /\ event.platform = "discord"
  <2>1. Normalize(event) = NormalizeMessageCreate(event)
    BY <1>2 DEF Normalize, NormalizeDiscordEvent
  <2> QED BY <2>1, MessageCreateIsUnasked
<1>3. CASE event.platform # "telegram" /\ event.platform # "discord"
  <2>1. Normalize(event) = NormalizeWhatsAppEvent(event)
    BY <1>3 DEF Normalize
  <2> QED BY <2>1, WhatsAppIsUnasked
<1> QED BY <1>1, <1>2, <1>3

\* What is put on the wire is read back.
LEMMA WireTwice ==
  ASSUME NEW ctx, Unasked(ctx), NEW b \in BOOLEAN, None \notin BOOLEAN
  PROVE  LET fin == [inner |-> ctx, authorized |-> b]
         IN /\ DecodeFinalized(EncodeFinalized(fin)) = fin
            /\ FromMsgContext(IntoMsgContext(fin)) = fin
<1>1. PICK told : told = [ctx EXCEPT !["CommandAuthorized"] = b]
  OBVIOUS
<1>2. "CommandAuthorized" \in MsgFields
  BY DEF MsgFields, RoutingFields
<1>3. /\ told = [f \in MsgFields |-> told[f]] /\ told["CommandAuthorized"] = b
      /\ [told EXCEPT !["CommandAuthorized"] = None] = ctx
  BY <1>1, <1>2 DEF Unasked
<1>4. IntoMsgContext([inner |-> ctx, authorized |-> b]) = told
  BY <1>1 DEF IntoMsgContext
<1>5. b # None
  OBVIOUS
<1>6. Decode(Encode(told)) = told /\ Encode(told)["CommandAuthorized"] = b
  <2>1. PICK json : json = Encode(told)
    OBVIOUS
  <2>2. /\ DOMAIN json = {g \in MsgFields : told[g] # None}
        /\ \A g \in DOMAIN json : json[g] = told[g]
    BY <1>3, <2>1 DEF Encode
  <2>3. \A f \in MsgFields : (IF f \in DOMAIN json THEN json[f] ELSE None) = told[f]
    BY <2>2
  <2>4. Decode(json) = told
    BY <1>3, <2>3 DEF Decode
  <2> QED BY <1>2, <1>3, <1>5, <2>1, <2>2, <2>4
<1>7. DecodeFinalized(Encode(told)) = [inner |-> ctx, authorized |-> b]
  BY <1>3, <1>6 DEF DecodeFinalized
<1>8. FromMsgContext(told) = [inner |-> ctx, authorized |-> b]
  BY <1>3, <1>5 DEF FromMsgContext, Or
<1> QED BY <1>4, <1>7, <1>8 DEF EncodeFinalized

\* No message of a platform may run commands by itself, and what a context was
\* finalized with survives the wire and a second finalization.
LEMMA AlwaysDenied ==
  ASSUME NEW event, NEW flag \in BOOLEAN \cup {None}, None \notin BOOLEAN
  PROVE  DeniedByDefault(event, flag)
<1> SUFFICES ASSUME Normalize(event) # None
             PROVE  DeniedByDefault(event, flag)
  BY DEF DeniedByDefault
<1>1. PICK ctx : ctx = Normalize(event) /\ Unasked(ctx)
  BY EventIsUnasked
<1>2. PICK b \in BOOLEAN : b = Or(flag, FALSE) /\ b = (flag = TRUE)
  BY DEF Or
<1>3. FromMsgContext([ctx EXCEPT !["CommandAuthorized"] = flag]) = [inner |-> ctx, authorized |-> b]
  <2>1. PICK told : told = [ctx EXCEPT !["CommandAuthorized"] = flag]
    OBVIOUS
  <2>2. told["CommandAuthorized"] = flag /\ [told EXCEPT !["CommandAuthorized"] = None] = ctx
    BY <1>1, <2>1 DEF Unasked, MsgFields, RoutingFields
  <2> QED BY <1>2, <2>1, <2>2 DEF FromMsgContext
<1>4. ~FromMsgContext(ctx).authorized
  BY <1>1 DEF FromMsgContext, Or, Unasked
<1>5. PICK fin : fin = [inner |-> ctx, authorized |-> b]
  OBVIOUS
<1>6. fin.authorized = (flag = TRUE)
  BY <1>2, <1>5
<1>7. DecodeFinalized(EncodeFinalized(fin)) = fin /\ FromMsgContext(IntoMsgContext(fin)) = fin
  BY <1>1, <1>5, WireTwice
<1>8. FromMsgContext([ctx EXCEPT !["CommandAuthorized"] = flag]) = fin
  BY <1>3, <1>5
<1> QED BY <1>1, <1>4, <1>6, <1>7, <1>8, Zenon DEF DeniedByDefault

\* Where a context of Telegram comes from and goes to.
LEMMA TelegramAddress ==
  ASSUME NEW event, event.platform = "telegram", Normalize(event) # None
  PROVE  LET ctx == Normalize(event)
         IN /\ ctx["From"] = event.from /\ ctx["To"] = event.chat
            /\ ctx["ChatType"] = TelegramChatType(event.chatKind) /\ event.from # None
<1>1. Normalize(event) = NormalizeUpdate(event) /\ event.from # None
  BY DEF Normalize, NormalizeUpdate
<1>2. PICK attached : attached = ExtractMedia(event.media) /\ Unasked(attached)
  BY MediaIsUnasked
<1>3. PICK core : core = [attached EXCEPT
                     !["From"] = event.from, !["SenderId"] = event.from, !["To"] = event.chat,
                     !["Provider"] = "telegram", !["MessageSid"] = event.id,
                     !["ChatType"] = TelegramChatType(event.chatKind),
                     !["MessageThreadId"] = event.thread, !["IsForum"] = event.topic]
  OBVIOUS
<1>4. Unasked(core)
  BY <1>2, <1>3, CoreIsUnasked
<1>5. /\ core["From"] = event.from /\ core["To"] = event.chat
      /\ core["ChatType"] = TelegramChatType(event.chatKind)
  BY <1>2, <1>3, AddressIsTold DEF Unasked, Address
<1>6. Normalize(event) = ExtractForward(ExtractReply(core, event.reply), event.forward)
  BY <1>1, <1>2, <1>3 DEF NormalizeUpdate
<1>7. SameAddress(Normalize(event), core)
  <2>1. PICK reply : reply = ExtractReply(core, event.reply) /\ Unasked(reply) /\ SameAddress(reply, core)
    BY <1>4, ReplyIsUnasked
  <2>2. SameAddress(ExtractForward(reply, event.forward), reply)
    BY <2>1, ForwardIsUnasked
  <2> QED BY <1>6, <2>1, <2>2 DEF SameAddress
<1> QED BY <1>1, <1>5, <1>7 DEF SameAddress, Address

LEMMA WhatsAppAddress ==
  ASSUME NEW event, event.platform = "whatsapp", Normalize(event) # None
  PROVE  LET ctx == Normalize(event)
         IN /\ ctx["From"] = Or(event.participant, event.chat.jid) /\ ctx["To"] = event.chat.jid
            /\ event.chat # None
<1>1. Normalize(event) = NormalizeWhatsAppEvent(event)
  BY DEF Normalize
<1>2. event.chat # None
  BY <1>1, Zenon DEF NormalizeWhatsAppEvent
<1> QED BY <1>1, <1>2, WhatsAppIsUnasked

\* The answer to a direct message goes to its chat, as a reply to it.
LEMMA AlwaysAnswered ==
  ASSUME NEW event \in Events, EventsOfPlatforms
  PROVE  DirectAnswered(event)
<1> SUFFICES ASSUME Normalize(event) # None, PrivateChat(event), event.platform # "discord"
             PROVE  LET ctx == Normalize(event)
                    IN /\ ctx["ChatType"] = "direct" /\ (event.platform = "whatsapp" => event.participant = None)
                            => ReplyChat(ctx) = ctx["To"]
                       /\ ReplyTarget(ctx).replyTo = ctx["MessageSid"]
  BY DEF DirectAnswered
<1>1. PICK ctx : ctx = Normalize(event)
  OBVIOUS
<1>2. ReplyTarget(ctx).replyTo = ctx["MessageSid"]
  BY DEF ReplyTarget
<1>3. ASSUME ctx["ChatType"] = "direct", event.platform = "whatsapp" => event.participant = None
      PROVE  ctx["From"] = ctx["To"] /\ ctx["From"] # None
  <2>1. CASE event.platform = "telegram"
    <3>1. /\ ctx["From"] = event.from /\ ctx["To"] = event.chat
          /\ ctx["ChatType"] = TelegramChatType(event.chatKind) /\ event.from # None
      BY <1>1, <2>1, TelegramAddress
    <3> QED BY <1>3, <2>1, <3>1 DEF TelegramChatType, PrivateChat
  <2>2. CASE event.platform = "whatsapp"
    <3>1. /\ ctx["From"] = Or(event.participant, event.chat.jid) /\ ctx["To"] = event.chat.jid
          /\ event.chat # None
      BY <1>1, <2>2, WhatsAppAddress
    <3> QED BY <1>3, <2>2, <3>1 DEF EventsOfPlatforms, Or
  <2> QED BY <2>1, <2>2 DEF EventsOfPlatforms
<1> QED BY <1>1, <1>2, <1>3 DEF ReplyChat, Or

-----------------------------------------------------------------------------
(* Conversations: the arguments of the calls, and what holds of all calls. *)

ArgumentsKnown ==
  /\ ConversationFirst
  /\ \/ others = <<>>
     \/ function = "normalize" /\ \E flag \in BOOLEAN \cup {None} : others = <<flag>>
     \/ function = "session_key" /\ \E other \in Senders : others = <<other>>
     \/ function = "resolve" /\ \E bindings \in BindingLists, agents \in AgentLists :
          others = <<bindings, agents>>

LEMMA CallsKeepArguments ==
  ArgumentsKnown /\ [others = <<>> /\ ConversationRest /\ UNCHANGED <<function, one>>]_callVars => ArgumentsKnown'
<1> SUFFICES ASSUME ArgumentsKnown, [others = <<>> /\ ConversationRest /\ UNCHANGED <<function, one>>]_callVars
             PROVE  ArgumentsKnown'
  OBVIOUS
<1>1. CASE UNCHANGED callVars
  BY <1>1 DEF ArgumentsKnown, ConversationFirst, callVars
<1>2. CASE others = <<>> /\ ConversationRest /\ UNCHANGED <<function, one>>
  <2>1. ConversationFirst'
    BY <1>2 DEF ArgumentsKnown, ConversationFirst
  <2> QED BY <1>2, <2>1 DEF ArgumentsKnown, ConversationRest
<1> QED BY <1>1, <1>2

LEMMA RoutedOfArguments == ArgumentsKnown => MessagesRouted
<1> SUFFICES ASSUME ArgumentsKnown, others # <<>>
             PROVE  MessagesRouted
  BY DEF MessagesRouted, Called
<1>1. CASE function = "normalize"
  <2>1. PICK flag \in BOOLEAN \cup {None} : others = <<flag>>
    BY <1>1 DEF ArgumentsKnown
  <2>2. one \in Events /\ others[1] = flag
    BY <1>1, <2>1 DEF ArgumentsKnown, ConversationFirst
  <2>3. DeniedByDefault(one, flag) /\ DirectAnswered(one)
    BY <2>2, AlwaysDenied, AlwaysAnswered, ConversationAssumption
  <2> QED BY <1>1, <2>2, <2>3 DEF MessagesRouted, Called
<1>2. CASE function = "session_key"
  <2>1. PICK other \in Senders : others = <<other>>
    BY <1>2 DEF ArgumentsKnown
  <2>2. one \in Senders /\ others[1] = other
    BY <1>2, <2>1 DEF ArgumentsKnown, ConversationFirst
  <2>3. KeysKeepApart(Owner, one, other)
    <3>1. /\ one.peer \in Seq(Segments) /\ other.peer \in Seq(Segments)
          /\ one.scope \in Scopes /\ KindsTold(one, other)
      BY <2>2, ConversationAssumption
    <3> QED BY <3>1, KeysAlwaysApart
  <2> QED BY <1>2, <2>2, <2>3 DEF MessagesRouted, Called
<1>3. CASE function = "resolve"
  <2>1. PICK bindings \in BindingLists, agents \in AgentLists : others = <<bindings, agents>>
    BY <1>3 DEF ArgumentsKnown
  <2>2. one \in RoutedSenders /\ others[1] = bindings /\ others[2] = agents
    BY <1>3, <2>1 DEF ArgumentsKnown, ConversationFirst
  <2>3. KeyNamesAgent(bindings, agents, one)
    <3>1. /\ NormalForms(KnownIds) /\ NamedIn(KnownIds, bindings, agents)
          /\ one.peer \in Seq(Segments) /\ one.scope \in Scopes /\ one.account \in KnownIds \cup {None}
          /\ NormalizeToken(one.kind) = one.kind /\ Named(one.channel) # "agent"
      BY <2>2, ConversationAssumption
    <3> QED BY <3>1, AgentsAreReadBack
  <2> QED BY <1>3, <2>2, <2>3 DEF MessagesRouted, Called
<1> QED BY <1>1, <1>2, <1>3 DEF ArgumentsKnown, ConversationFirst

\* Whatever event, sender, bindings and agents: no message may run commands by itself,
\* the answer to a direct one goes to its chat, conversations that are apart have keys of
\* their own, and a route's key names its agent.
THEOREM MessagesAlwaysRouted == ConversationSpec => []MessagesRouted
<1>1. others = <<>> /\ ConversationFirst => ArgumentsKnown
  BY DEF ArgumentsKnown
<1> QED BY <1>1, CallsKeepArguments, RoutedOfArguments, PTL DEF ConversationSpec
=============================================================================

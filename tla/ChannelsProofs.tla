--------------------------- MODULE ChannelsProofs ---------------------------
(***************************************************************************)
(* Proofs about the channels: the channel manager's accounts and their     *)
(* loops, the delivery of a reply, and the files of the Telegram adapter.  *)
(* The three share no state; each has its inductive invariant.             *)
(***************************************************************************)
EXTENDS ChannelManager, Outbound, TelegramApi, FiniteSetTheorems, SequenceTheorems, TLAPS

-----------------------------------------------------------------------------
(* The channel manager, for every number of starts. ManagerInv adds to the *)
(* type and to RunningIsLive: an entry, once there, holds the token of     *)
(* some start, so a stop always has a token to cancel (EntryHasToken);     *)
(* every increment of the counter since it was last reset is by a loop     *)
(* that has not called the adapter since, so the counter is bounded by the *)
(* number of such loops (AttemptsAreRecent); a stop that meets a loop      *)
(* anywhere but past its check leaves it with a cancelled token, and out   *)
(* of there (DoomedIsCancelled).                                           *)

\* Loops that may have incremented the counter since they called the adapter.
WaitingLoops == {t \in Starts : pc[t] \in {"backoff", "top", "mark", "reset", "ended"}}

EntryHasToken ==
  (status # "absent" \/ \E t \in Starts : pc[t] # "none") => token \in Starts

AttemptsAreRecent == attempts \in Nat /\ attempts <= Cardinality(WaitingLoops)

DoomedIsCancelled == \A t \in doomed : Cancelled(t) /\ pc[t] \notin Committed

ManagerInv ==
  /\ TypeOK
  /\ RunningIsLive
  /\ EntryHasToken
  /\ AttemptsAreRecent
  /\ DoomedIsCancelled

-----------------------------------------------------------------------------
(* Counting loops.                                                         *)

\* Sets of starts are finite, no larger than Starts, and their size is a number.
LEMMA StartsFinite ==
  ASSUME NEW S, S \subseteq Starts
  PROVE  /\ IsFiniteSet(S)
         /\ Cardinality(S) \in Nat
         /\ Cardinality(Starts) \in Nat
         /\ Cardinality(S) <= Cardinality(Starts)
<1>1. IsFiniteSet(Starts)
  BY ChannelManagerAssumption
<1>2. QED
  BY <1>1, FS_Subset, FS_CardinalityType

\* A larger set of starts is no smaller in size.
LEMMA MoreStarts ==
  ASSUME NEW S, NEW T, S \subseteq T, T \subseteq Starts
  PROVE  Cardinality(S) <= Cardinality(T) /\ Cardinality(S) \in Nat /\ Cardinality(T) \in Nat
<1>1. IsFiniteSet(T) /\ Cardinality(T) \in Nat
  BY StartsFinite
<1>2. QED
  BY <1>1, FS_Subset, StartsFinite

-----------------------------------------------------------------------------
(* The invariant.                                                          *)

\* Nothing is started yet.
LEMMA ManagerInitInv == Init => ManagerInv
<1> SUFFICES ASSUME Init PROVE ManagerInv
  OBVIOUS
<1> USE DEF Init
<1>1. Cardinality(Starts) \in Nat
  BY StartsFinite
<1>2. TypeOK
  <2>1. 0 \in 0..Cardinality(Starts) /\ 0 \in 0..MaxFailures
    BY <1>1, ChannelManagerAssumption
  <2>2. pc \in [Starts -> PCs] /\ failed \in [Starts -> BOOLEAN]
    BY DEF PCs
  <2>3. delay \in [Starts -> 0..Cardinality(Starts)] /\ failures \in [Starts -> 0..MaxFailures]
    BY <2>1
  <2>4. QED
    BY <2>1, <2>2, <2>3 DEF TypeOK, Statuses
<1>3. RunningIsLive
  BY DEF RunningIsLive
<1>4. EntryHasToken
  BY DEF EntryHasToken
<1>5. AttemptsAreRecent
  <2>1. WaitingLoops \subseteq Starts
    BY DEF WaitingLoops
  <2>2. QED
    BY <2>1, StartsFinite DEF AttemptsAreRecent
<1>6. DoomedIsCancelled
  BY DEF DoomedIsCancelled
<1>7. QED
  BY <1>2, <1>3, <1>4, <1>5, <1>6 DEF ManagerInv

\* The counter's bound survives a step that leaves the counter or resets it,
\* if no loop leaves WaitingLoops without the reset.
LEMMA AttemptsKept ==
  ASSUME ManagerInv,
         \/ attempts' = 0
         \/ attempts' = attempts /\ WaitingLoops \subseteq WaitingLoops'
  PROVE  AttemptsAreRecent' /\ attempts' \in 0..Cardinality(Starts)
<1>1. WaitingLoops \subseteq Starts /\ WaitingLoops' \subseteq Starts
  BY DEF WaitingLoops
<1>2. /\ Cardinality(WaitingLoops) \in Nat /\ Cardinality(WaitingLoops') \in Nat
      /\ Cardinality(Starts) \in Nat
      /\ Cardinality(WaitingLoops') <= Cardinality(Starts)
  BY <1>1, StartsFinite
<1>3. CASE attempts' = 0
  BY <1>2, <1>3 DEF AttemptsAreRecent
<1>4. CASE attempts' = attempts /\ WaitingLoops \subseteq WaitingLoops'
  <2>1. Cardinality(WaitingLoops) <= Cardinality(WaitingLoops')
    BY <1>1, <1>4, MoreStarts
  <2>2. QED
    BY <1>2, <1>4, <2>1 DEF ManagerInv, AttemptsAreRecent
<1>5. QED
  BY <1>3, <1>4

\* An increment brings its loop into WaitingLoops.
LEMMA AttemptsGrow ==
  ASSUME ManagerInv, NEW t \in Starts, t \notin WaitingLoops, WaitingLoops' = WaitingLoops \cup {t},
         attempts' = attempts + 1
  PROVE  AttemptsAreRecent' /\ attempts' \in 0..Cardinality(Starts)
<1>1. WaitingLoops \subseteq Starts /\ WaitingLoops' \subseteq Starts
  BY DEF WaitingLoops
<1>2. /\ IsFiniteSet(WaitingLoops) /\ Cardinality(WaitingLoops) \in Nat
      /\ Cardinality(Starts) \in Nat
      /\ Cardinality(WaitingLoops') <= Cardinality(Starts)
      /\ Cardinality(WaitingLoops') \in Nat
  BY <1>1, StartsFinite
<1>3. Cardinality(WaitingLoops \cup {t}) = Cardinality(WaitingLoops) + 1
  BY <1>2, FS_AddElement
<1>4. QED
  BY <1>2, <1>3 DEF ManagerInv, AttemptsAreRecent

\* A step of a loop or an operation keeps the invariant.
LEMMA ManagerNextInv == ManagerInv /\ [Next]_vars => ManagerInv'
<1> SUFFICES ASSUME ManagerInv, [Next]_vars PROVE ManagerInv'
  OBVIOUS
<1> USE ChannelManagerAssumption, NoStartAssumption
<1>1. TypeOK /\ RunningIsLive /\ EntryHasToken /\ AttemptsAreRecent /\ DoomedIsCancelled
  BY DEF ManagerInv
<1>c. Cardinality(Starts) \in Nat /\ attempts \in Nat
  BY <1>1, StartsFinite DEF AttemptsAreRecent
<1>2. ASSUME NEW t \in Starts, StartAccount(t) PROVE ManagerInv'
  <2> USE <1>2 DEF StartAccount, Goto
  <2>1. AttemptsAreRecent' /\ attempts' \in 0..Cardinality(Starts)
    <3>1. WaitingLoops \subseteq WaitingLoops'
      BY <1>1 DEF WaitingLoops, TypeOK
    <3>2. QED
      BY <3>1, AttemptsKept
  <2>2. TypeOK'
    BY <1>1, <2>1 DEF TypeOK, PCs, Statuses
  <2>3. RunningIsLive'
    BY <1>1 DEF RunningIsLive, TypeOK
  <2>4. EntryHasToken'
    BY DEF EntryHasToken
  <2>5. DoomedIsCancelled'
    BY <1>1 DEF DoomedIsCancelled, Cancelled, Committed, TypeOK
  <2>6. QED
    BY <2>1, <2>2, <2>3, <2>4, <2>5 DEF ManagerInv
<1>3. ASSUME NEW t \in Starts, LoopHead(t) PROVE ManagerInv'
  <2> USE <1>3 DEF LoopHead, Goto, tokenVars
  <2>1. AttemptsAreRecent' /\ attempts' \in 0..Cardinality(Starts)
    <3>1. WaitingLoops \subseteq WaitingLoops'
      BY <1>1 DEF WaitingLoops, TypeOK
    <3>2. QED
      BY <3>1, AttemptsKept
  <2>2. TypeOK'
    BY <1>1, <2>1 DEF TypeOK, PCs, Statuses
  <2>3. RunningIsLive'
    BY <1>1 DEF RunningIsLive, TypeOK
  <2>4. EntryHasToken'
    BY <1>1 DEF EntryHasToken, TypeOK
  <2>5. DoomedIsCancelled'
    BY <1>1 DEF DoomedIsCancelled, Cancelled, Committed, TypeOK
  <2>6. QED
    BY <2>1, <2>2, <2>3, <2>4, <2>5 DEF ManagerInv
<1>4. ASSUME NEW t \in Starts, MarkRunning(t) PROVE ManagerInv'
  <2> USE <1>4 DEF MarkRunning, Goto, tokenVars
  <2>1. AttemptsAreRecent' /\ attempts' \in 0..Cardinality(Starts)
    <3>1. WaitingLoops \subseteq WaitingLoops'
      BY <1>1 DEF WaitingLoops, TypeOK
    <3>2. QED
      BY <3>1, AttemptsKept
  <2>2. TypeOK'
    BY <1>1, <2>1 DEF TypeOK, PCs, Statuses
  <2>3. RunningIsLive'
    BY <1>1 DEF RunningIsLive, TypeOK
  <2>4. EntryHasToken'
    BY <1>1 DEF EntryHasToken, TypeOK
  <2>5. DoomedIsCancelled'
    BY <1>1 DEF DoomedIsCancelled, Cancelled, Committed, TypeOK
  <2>6. QED
    BY <2>1, <2>2, <2>3, <2>4, <2>5 DEF ManagerInv
<1>5. ASSUME NEW t \in Starts, CallAdapter(t) PROVE ManagerInv'
  <2> USE <1>5 DEF CallAdapter, Goto, tokenVars
  <2>1. AttemptsAreRecent' /\ attempts' \in 0..Cardinality(Starts)
    BY AttemptsKept
  <2>2. TypeOK'
    BY <1>1, <2>1 DEF TypeOK, PCs, Statuses
  <2>3. RunningIsLive'
    BY <1>1 DEF RunningIsLive, TypeOK
  <2>4. EntryHasToken'
    BY <1>1 DEF EntryHasToken, TypeOK
  <2>5. DoomedIsCancelled'
    BY <1>1 DEF DoomedIsCancelled, Cancelled, Committed, TypeOK
  <2>6. QED
    BY <2>1, <2>2, <2>3, <2>4, <2>5 DEF ManagerInv
<1>6. ASSUME NEW t \in Starts, AdapterEnds(t) PROVE ManagerInv'
  <2> USE <1>6 DEF AdapterEnds, Goto, tokenVars, entryVars
  <2>1. AttemptsAreRecent' /\ attempts' \in 0..Cardinality(Starts)
    <3>1. WaitingLoops \subseteq WaitingLoops'
      BY <1>1 DEF WaitingLoops, TypeOK
    <3>2. QED
      BY <3>1, AttemptsKept
  <2>2. TypeOK'
    BY <1>1, <2>1 DEF TypeOK, PCs, Statuses
  <2>3. RunningIsLive'
    BY <1>1 DEF RunningIsLive, TypeOK
  <2>4. EntryHasToken'
    BY <1>1 DEF EntryHasToken, TypeOK
  <2>5. DoomedIsCancelled'
    BY <1>1 DEF DoomedIsCancelled, Cancelled, Committed, TypeOK
  <2>6. QED
    BY <2>1, <2>2, <2>3, <2>4, <2>5 DEF ManagerInv
<1>7. ASSUME NEW t \in Starts, SetFinal(t) PROVE ManagerInv'
  <2> USE <1>7 DEF SetFinal, Goto, tokenVars
  <2>1. AttemptsAreRecent' /\ attempts' \in 0..Cardinality(Starts)
    <3>1. WaitingLoops \subseteq WaitingLoops'
      BY <1>1 DEF WaitingLoops, TypeOK
    <3>2. QED
      BY <3>1, AttemptsKept
  <2>2. TypeOK'
    BY <1>1, <2>1 DEF TypeOK, PCs, Statuses
  <2>3. RunningIsLive'
    BY <1>1 DEF RunningIsLive, TypeOK
  <2>4. EntryHasToken'
    BY <1>1 DEF EntryHasToken, TypeOK
  <2>5. DoomedIsCancelled'
    BY <1>1 DEF DoomedIsCancelled, Cancelled, Committed, TypeOK
  <2>6. QED
    BY <2>1, <2>2, <2>3, <2>4, <2>5 DEF ManagerInv
<1>8. ASSUME NEW t \in Starts, Recheck(t) PROVE ManagerInv'
  <2> USE <1>8 DEF Recheck, Goto, tokenVars, entryVars
  <2>1. AttemptsAreRecent' /\ attempts' \in 0..Cardinality(Starts)
    <3>1. WaitingLoops \subseteq WaitingLoops'
      BY <1>1 DEF WaitingLoops, TypeOK
    <3>2. QED
      BY <3>1, AttemptsKept
  <2>2. TypeOK'
    BY <1>1, <2>1 DEF TypeOK, PCs, Statuses
  <2>3. RunningIsLive'
    BY <1>1 DEF RunningIsLive, TypeOK
  <2>4. EntryHasToken'
    BY <1>1 DEF EntryHasToken, TypeOK
  <2>5. DoomedIsCancelled'
    BY <1>1 DEF DoomedIsCancelled, Cancelled, Committed, TypeOK
  <2>6. QED
    BY <2>1, <2>2, <2>3, <2>4, <2>5 DEF ManagerInv
<1>9. ASSUME NEW t \in Starts, Increment(t) PROVE ManagerInv'
  <2> USE <1>9 DEF Increment, Goto, tokenVars
  <2>1. AttemptsAreRecent' /\ attempts' \in 0..Cardinality(Starts)
    <3>1. t \notin WaitingLoops /\ WaitingLoops' = WaitingLoops \cup {t}
      BY <1>1 DEF WaitingLoops, TypeOK
    <3>2. QED
      BY <3>1, AttemptsGrow
  <2>2. TypeOK'
    BY <1>1, <2>1 DEF TypeOK, PCs, Statuses
  <2>3. RunningIsLive'
    BY <1>1 DEF RunningIsLive, TypeOK
  <2>4. EntryHasToken'
    BY <1>1 DEF EntryHasToken, TypeOK
  <2>5. DoomedIsCancelled'
    BY <1>1 DEF DoomedIsCancelled, Cancelled, Committed, TypeOK
  <2>6. QED
    BY <2>1, <2>2, <2>3, <2>4, <2>5 DEF ManagerInv
<1>10. ASSUME NEW t \in Starts, SleepOver(t) \/ SleepAborted(t) PROVE ManagerInv'
  <2> USE <1>10 DEF SleepOver, SleepAborted, Goto, tokenVars, entryVars
  <2>1. AttemptsAreRecent' /\ attempts' \in 0..Cardinality(Starts)
    <3>1. WaitingLoops \subseteq WaitingLoops'
      BY <1>1 DEF WaitingLoops, TypeOK
    <3>2. QED
      BY <3>1, AttemptsKept
  <2>2. TypeOK'
    BY <1>1, <1>c, <2>1 DEF TypeOK, PCs, Statuses
  <2>3. RunningIsLive'
    BY <1>1 DEF RunningIsLive, TypeOK
  <2>4. EntryHasToken'
    BY <1>1 DEF EntryHasToken, TypeOK
  <2>5. DoomedIsCancelled'
    BY <1>1 DEF DoomedIsCancelled, Cancelled, Committed, TypeOK
  <2>6. QED
    BY <2>1, <2>2, <2>3, <2>4, <2>5 DEF ManagerInv
<1>11. ASSUME NEW how \in {"stopped", "manually_stopped", "logged_out"}, Stop(how) PROVE ManagerInv'
  <2> USE <1>11 DEF Stop, loopVars
  <2>1. AttemptsAreRecent' /\ attempts' \in 0..Cardinality(Starts)
    BY AttemptsKept DEF WaitingLoops
  <2>2. token \in Starts
    BY <1>1 DEF EntryHasToken
  <2>3. TypeOK'
    BY <1>1, <2>1, <2>2 DEF TypeOK, Statuses
  <2>4. RunningIsLive'
    BY DEF RunningIsLive
  <2>5. EntryHasToken'
    BY <2>2 DEF EntryHasToken
  <2>6. DoomedIsCancelled'
    BY <1>1 DEF DoomedIsCancelled, Cancelled
  <2>7. QED
    BY <2>1, <2>3, <2>4, <2>5, <2>6 DEF ManagerInv
<1>12. ASSUME ResetAttempts PROVE ManagerInv'
  <2> USE <1>12 DEF ResetAttempts, loopVars, tokenVars
  <2>1. AttemptsAreRecent' /\ attempts' \in 0..Cardinality(Starts)
    BY AttemptsKept
  <2>2. TypeOK'
    BY <1>1, <2>1 DEF TypeOK
  <2>3. RunningIsLive' /\ EntryHasToken' /\ DoomedIsCancelled'
    BY <1>1 DEF RunningIsLive, EntryHasToken, DoomedIsCancelled, Cancelled
  <2>4. QED
    BY <2>1, <2>2, <2>3 DEF ManagerInv
<1>13. ASSUME StopAll PROVE ManagerInv'
  <2> USE <1>13 DEF StopAll, loopVars, entryVars
  <2>1. AttemptsAreRecent' /\ attempts' \in 0..Cardinality(Starts)
    BY AttemptsKept DEF WaitingLoops
  <2>2. TypeOK'
    BY <1>1, <2>1 DEF TypeOK
  <2>3. RunningIsLive' /\ EntryHasToken' /\ DoomedIsCancelled'
    BY <1>1 DEF RunningIsLive, EntryHasToken, DoomedIsCancelled, Cancelled
  <2>4. QED
    BY <2>1, <2>2, <2>3 DEF ManagerInv
<1>14. ASSUME UNCHANGED vars PROVE ManagerInv'
  <2> USE <1>14 DEF vars
  <2>1. TypeOK' /\ RunningIsLive' /\ EntryHasToken'
    BY <1>1 DEF TypeOK, RunningIsLive, EntryHasToken
  <2>2. AttemptsAreRecent' /\ DoomedIsCancelled'
    BY <1>1 DEF AttemptsAreRecent, WaitingLoops, DoomedIsCancelled, Cancelled
  <2>3. QED
    BY <2>1, <2>2 DEF ManagerInv
<1>15. QED
  BY <1>2, <1>3, <1>4, <1>5, <1>6, <1>7, <1>8, <1>9, <1>10, <1>11, <1>12, <1>13, <1>14
     DEF Next, LoopStep

\* The invariant holds throughout.
THEOREM ManagerInvariance == Spec => []ManagerInv
BY ManagerInitInv, ManagerNextInv, PTL DEF Spec

\* Every variable keeps its type; the restart counter never exceeds the number
\* of loops.
THEOREM ManagerTypeCorrect == Spec => []TypeOK
BY ManagerInvariance, PTL DEF ManagerInv

\* A snapshot that says running is right, however many loops write to the
\* account's entry.
THEOREM RunningMeansLive == Spec => []RunningIsLive
BY ManagerInvariance, PTL DEF ManagerInv

\* A loop that was stopped while it waits, decides or sleeps never calls the
\* adapter again.
THEOREM StopsAreFinal == Spec => StopIsFinal
<1>1. ManagerInv /\ [Next]_vars =>
        [\A t \in doomed : pc[t] # "running" => pc'[t] # "running"]_vars
  <2> SUFFICES ASSUME ManagerInv, Next, NEW t \in doomed, pc[t] # "running"
               PROVE  pc'[t] # "running"
    OBVIOUS
  <2>1. t \in Starts /\ pc \in [Starts -> PCs] /\ pc[t] # "reset"
    BY DEF ManagerInv, TypeOK, DoomedIsCancelled, Committed
  <2>2. ASSUME NEW u \in Starts, StartAccount(u) \/ LoopStep(u) \/ AdapterEnds(u)
        PROVE  pc'[t] # "running"
    BY <2>1, <2>2 DEF StartAccount, LoopStep, AdapterEnds, LoopHead, MarkRunning,
       CallAdapter, SetFinal, Recheck, Increment, SleepOver, SleepAborted, Goto
  <2>3. ASSUME \/ \E how \in {"stopped", "manually_stopped", "logged_out"} : Stop(how)
               \/ ResetAttempts
               \/ StopAll
        PROVE  pc' = pc
    BY <2>3 DEF Stop, ResetAttempts, StopAll, loopVars
  <2>4. QED
    BY <2>2, <2>3 DEF Next
<1>2. QED
  BY <1>1, ManagerInvariance, PTL DEF Spec, StopIsFinal

-----------------------------------------------------------------------------
(* The delivery of a reply, for every number of chunks and attachments and *)
(* every limit of the retries. DeliveryInv ties its three records          *)
(* together: results has one entry per part that came before the one being *)
(* delivered (OnePerPart), nothing beyond that part has reached the chat   *)
(* (NothingAhead), and an attachment that is about to be sent is not there *)
(* yet (AttachmentsOnce), for only chunks are tried again.                 *)

Sending == dphase \in {"send", "sleep"}

OnePerPart ==
  /\ dphase = "look_up" => part = 1 /\ results = <<>> /\ chat = <<>>
  /\ Sending => part \in Parts /\ Len(results) = part - 1
  /\ dphase = "sleep" => IsText(part) /\ attempt < MaxRetries
  /\ dphase = "delivered" => Len(results) = Texts + Media

NothingAhead == \A i \in DOMAIN chat : chat[i] <= part

AttachmentsOnce ==
  dphase = "send" => \A i \in DOMAIN chat : chat[i] = part => IsText(part)

SentIsThere == \A i \in DOMAIN results : results[i] = "sent" => i \in ToSet(chat)

ChatInOrder ==
  /\ \A i, j \in DOMAIN chat : i < j => chat[i] <= chat[j]
  /\ \A i, j \in DOMAIN chat : i # j /\ chat[i] = chat[j] => IsText(chat[i])

DeliveryInv ==
  /\ OutboundTypeOK
  /\ OnePerPart /\ NothingAhead /\ AttachmentsOnce /\ SentIsThere /\ ChatInOrder

\* The empty sequence, and the first attempt.
LEMMA Beginnings ==
  /\ <<>> \in Seq(Parts) /\ <<>> \in Seq({"sent", "failed", "cancelled"})
  /\ Len(<<>>) = 0 /\ DOMAIN <<>> = {}
  /\ 0 \in 0..MaxRetries
<1>1. <<>> \in Seq(Parts) /\ <<>> \in Seq({"sent", "failed", "cancelled"})
  BY EmptySeq
<1>2. Len(<<>>) = 0 /\ DOMAIN <<>> = 1..Len(<<>>)
  BY EmptySeq, LenProperties
<1>3. DOMAIN <<>> = {}
  BY <1>2
<1>4. 0 \in 0..MaxRetries
  BY OutboundAssumption DEF OutboundAssumption
<1>5. QED
  BY <1>1, <1>2, <1>3, <1>4

\* Nothing is delivered yet.
LEMMA OutboundInitInv == OutboundInit => DeliveryInv
<1> SUFFICES ASSUME OutboundInit PROVE DeliveryInv
  OBVIOUS
<1>1. /\ DOMAIN chat = {} /\ DOMAIN results = {} /\ attempt \in 0..MaxRetries
      /\ chat \in Seq(Parts) /\ results \in Seq({"sent", "failed", "cancelled"})
  BY Beginnings DEF OutboundInit
<1>2. dphase = "look_up" /\ part = 1 /\ ~dcancelled /\ ~lateCancel
  BY Zenon DEF OutboundInit
<1>3. dcancelled \in BOOLEAN /\ lateCancel \in BOOLEAN
  BY DEF OutboundInit
<1>4. OutboundTypeOK
  BY <1>1, <1>2, <1>3 DEF OutboundTypeOK
<1>5. OnePerPart
  <2>1. results = <<>> /\ chat = <<>>
    BY Zenon DEF OutboundInit
  <2>2. ~Sending /\ dphase # "sleep" /\ dphase # "delivered"
    BY <1>2 DEF Sending
  <2>3. QED
    BY <1>2, <2>1, <2>2, Zenon DEF OnePerPart
<1>6. QED
  BY <1>1, <1>2, <1>4, <1>5 DEF DeliveryInv, NothingAhead, AttachmentsOnce, SentIsThere, ChatInOrder

\* What Append does, in terms of places.
LEMMA AppendPlaces ==
  ASSUME NEW S, NEW s \in Seq(S), NEW p \in S
  PROVE  /\ Append(s, p) \in Seq(S) /\ Len(s) \in Nat
         /\ DOMAIN s = 1..Len(s) /\ DOMAIN Append(s, p) = 1..(Len(s) + 1)
         /\ Len(Append(s, p)) = Len(s) + 1
         /\ \A i \in 1..Len(s) : Append(s, p)[i] = s[i]
         /\ Append(s, p)[Len(s) + 1] = p
         /\ \A i \in 1..(Len(s) + 1) : i \in 1..Len(s) \/ i = Len(s) + 1
BY AppendProperties, LenProperties

\* A part that nothing is ahead of keeps the order when it is appended, and it
\* repeats one only if it may.
LEMMA AppendInOrder ==
  ASSUME NEW s \in Seq(Parts), NEW p \in Parts,
         \A i \in DOMAIN s : s[i] <= p,
         \A i, j \in DOMAIN s : i < j => s[i] <= s[j],
         \A i, j \in DOMAIN s : i # j /\ s[i] = s[j] => IsText(s[i]),
         \A i \in DOMAIN s : s[i] = p => IsText(p),
         NEW t, t = Append(s, p)
  PROVE  /\ \A i \in DOMAIN t : t[i] <= p
         /\ \A i, j \in DOMAIN t : i < j => t[i] <= t[j]
         /\ \A i, j \in DOMAIN t : i # j /\ t[i] = t[j] => IsText(t[i])
<1> DEFINE n == Len(s)
<1>1. /\ n \in Nat /\ DOMAIN s = 1..n /\ DOMAIN t = 1..(n + 1)
      /\ \A i \in 1..n : t[i] = s[i] /\ t[i] \in Nat
      /\ t[n + 1] = p /\ p \in Nat
  BY AppendPlaces, OutboundAssumption DEF OutboundAssumption, Parts
<1> HIDE DEF n
<1>2. \A i \in 1..(n + 1) : i \in 1..n \/ i = n + 1
  BY <1>1
<1>3. \A i \in DOMAIN t : t[i] <= p
  BY <1>1, <1>2
<1>4. \A i, j \in DOMAIN t : i < j => t[i] <= t[j]
  BY <1>1, <1>2, <1>3
<1>5. ASSUME NEW i \in DOMAIN t, NEW j \in DOMAIN t, i # j, t[i] = t[j] PROVE IsText(t[i])
  <2>1. CASE i \in 1..n /\ j \in 1..n
    BY <1>1, <1>5, <2>1
  <2>2. CASE i = n + 1 /\ j \in 1..n
    BY <1>1, <1>5, <2>2
  <2>3. CASE j = n + 1 /\ i \in 1..n
    BY <1>1, <1>5, <2>3
  <2>4. QED
    BY <1>1, <1>2, <1>5, <2>1, <2>2, <2>3
<1>6. QED
  BY <1>3, <1>4, <1>5

\* An attempt at a part, whether it reached the chat or not.
LEMMA Reaching ==
  ASSUME DeliveryInv, Sending, Reach(part), chat' = chat \/ dphase = "send"
  PROVE  /\ chat' \in Seq(Parts)
         /\ \A i \in DOMAIN chat : i \in DOMAIN chat' /\ chat'[i] = chat[i]
         /\ \A i \in DOMAIN chat' : chat'[i] <= part
         /\ ChatInOrder'
<1> USE DEF DeliveryInv, OutboundTypeOK
<1>1. part \in Parts /\ chat \in Seq(Parts)
  BY DEF OnePerPart
<1>2. CASE chat' = chat
  BY <1>2, <1>1 DEF NothingAhead, ChatInOrder, IsText
<1>3. CASE chat' = Append(chat, part) /\ dphase = "send"
  <2>1. /\ chat' \in Seq(Parts)
        /\ \A i \in DOMAIN chat : i \in DOMAIN chat' /\ chat'[i] = chat[i]
    BY <1>1, <1>3, AppendPlaces
  <2>2. /\ \A i \in DOMAIN chat' : chat'[i] <= part
        /\ \A i, j \in DOMAIN chat' : i < j => chat'[i] <= chat'[j]
        /\ \A i, j \in DOMAIN chat' : i # j /\ chat'[i] = chat'[j] => IsText(chat'[i])
    <3>1. /\ \A i \in DOMAIN chat : chat[i] <= part
          /\ \A i, j \in DOMAIN chat : i < j => chat[i] <= chat[j]
          /\ \A i, j \in DOMAIN chat : i # j /\ chat[i] = chat[j] => IsText(chat[i])
          /\ \A i \in DOMAIN chat : chat[i] = part => IsText(part)
      BY <1>3 DEF NothingAhead, ChatInOrder, AttachmentsOnce
    <3>2. QED
      BY <3>1, <1>1, <1>3, AppendInOrder
  <2>3. QED
    BY <2>1, <2>2 DEF ChatInOrder, IsText
<1>4. QED
  BY <1>2, <1>3 DEF Reach

\* What was in the chat stays there, and what was told of a part stays true.
LEMMA TruthStays ==
  ASSUME SentIsThere, \A i \in DOMAIN chat : i \in DOMAIN chat' /\ chat'[i] = chat[i],
         results' = results
  PROVE  SentIsThere'
<1>1. ToSet(chat) \subseteq ToSet(chat)'
  BY DEF ToSet
<1>2. QED
  BY <1>1 DEF SentIsThere

\* A part is over with: its result is told, and the next one is not in the
\* chat yet, since nothing was ahead of this one.
LEMMA Settling ==
  ASSUME DeliveryInv, Sending, NEW result \in {"sent", "failed", "cancelled"}, Settle(result),
         Reach(part), chat' = chat \/ dphase = "send", lateCancel' \in BOOLEAN,
         result = "sent" => part \in ToSet(chat)'
  PROVE  DeliveryInv'
<1> USE OutboundAssumption DEF OutboundAssumption
<1>1. /\ part \in Parts /\ part \in Nat /\ part + 1 \in Nat \ {0} /\ Len(results) = part - 1
      /\ results \in Seq({"sent", "failed", "cancelled"}) /\ 0 \in 0..MaxRetries
  <2>1. part \in Parts /\ Len(results) = part - 1
    BY DEF DeliveryInv, OnePerPart
  <2>2. part \in Nat \ {0} /\ results \in Seq({"sent", "failed", "cancelled"})
    BY DEF DeliveryInv, OutboundTypeOK
  <2>3. QED
    BY <2>1, <2>2, Beginnings
<1>2. /\ chat' \in Seq(Parts) /\ \A i \in DOMAIN chat : i \in DOMAIN chat' /\ chat'[i] = chat[i]
      /\ \A i \in DOMAIN chat' : chat'[i] <= part
      /\ ChatInOrder'
  BY Reaching
<1>3. /\ results' \in Seq({"sent", "failed", "cancelled"})
      /\ DOMAIN results = 1..(part - 1) /\ DOMAIN results' = 1..part /\ Len(results') = part
      /\ \A i \in 1..(part - 1) : results'[i] = results[i]
      /\ results'[part] = result
  BY <1>1, AppendPlaces DEF Settle
<1>4. SentIsThere'
  <2>1. ToSet(chat) \subseteq ToSet(chat)'
    BY <1>2 DEF ToSet
  <2>2. \A i \in 1..part : i \in 1..(part - 1) \/ i = part
    BY <1>1
  <2>3. QED
    BY <1>3, <2>1, <2>2 DEF DeliveryInv, SentIsThere
<1>5. CASE part + 1 \in Parts
  <2>1. part' = part + 1 /\ attempt' = 0 /\ dphase' = "send" /\ dcancelled' = dcancelled
    BY <1>5 DEF Settle
  <2>2. OutboundTypeOK'
    BY <1>1, <1>2, <1>3, <2>1 DEF DeliveryInv, OutboundTypeOK, Parts
  <2>3. OnePerPart'
    BY <1>1, <1>3, <1>5, <2>1 DEF OnePerPart, Sending, Parts
  <2>4. \A i \in DOMAIN chat' : chat'[i] \in Nat /\ chat'[i] < part'
    BY <1>1, <1>2, <2>1 DEF Parts
  <2>5. NothingAhead' /\ AttachmentsOnce'
    BY <1>1, <2>1, <2>4 DEF NothingAhead, AttachmentsOnce
  <2>6. QED
    BY <1>2, <1>4, <2>2, <2>3, <2>5 DEF DeliveryInv
<1>6. CASE part + 1 \notin Parts
  <2>1. part' = part /\ attempt' = attempt /\ dphase' = "delivered" /\ dcancelled' = dcancelled
    BY <1>6 DEF Settle
  <2>2. OutboundTypeOK'
    BY <1>1, <1>2, <1>3, <2>1 DEF DeliveryInv, OutboundTypeOK, Parts
  <2>3. part = Texts + Media
    BY <1>1, <1>6 DEF Parts
  <2>4. OnePerPart'
    BY <1>1, <1>3, <2>1, <2>3 DEF OnePerPart, Sending
  <2>5. NothingAhead' /\ AttachmentsOnce'
    BY <1>2, <2>1 DEF NothingAhead, AttachmentsOnce
  <2>6. QED
    BY <1>2, <1>4, <2>2, <2>4, <2>5 DEF DeliveryInv
<1>7. QED
  BY <1>5, <1>6

\* Every step keeps the invariant.
LEMMA OutboundNextInv ==
  ASSUME DeliveryInv, [OutboundNext]_outboundVars
  PROVE  DeliveryInv'
<1> USE OutboundAssumption DEF OutboundAssumption
<1>1. CASE LookUp
  <2>1. part = 1 /\ results = <<>> /\ chat = <<>>
    BY <1>1, Zenon DEF LookUp, DeliveryInv, OnePerPart
  <2>2. Len(results) = 0 /\ DOMAIN chat = {} /\ DOMAIN results = {}
    BY <2>1, Beginnings, Zenon
  <2>3. /\ UNCHANGED <<part, attempt, results, dcancelled, lateCancel, chat>>
        /\ dphase' \in {"not_found", "not_enabled", "not_supported", "delivered", "send"}
        /\ dphase' = "delivered" => Parts = {}
        /\ dphase' = "send" => Parts # {}
    BY <1>1 DEF LookUp
  <2>4. /\ dphase' = "delivered" => Texts + Media = 0
        /\ dphase' = "send" => 1 \in Parts
    <3>1. Texts + Media \in Nat /\ (Texts + Media >= 1 => 1 \in Parts)
      BY DEF Parts
    <3>2. Texts + Media = 0 => Parts = {}
      BY DEF Parts
    <3>3. QED
      BY <2>3, <3>1, <3>2
  <2>5. OutboundTypeOK'
    BY <2>3 DEF DeliveryInv, OutboundTypeOK
  <2>6. part = 1
    BY <2>1
  <2>7. OnePerPart'
    BY <2>2, <2>3, <2>4, <2>6 DEF OnePerPart, Sending
  <2>8. QED
    BY <2>2, <2>3, <2>5, <2>7 DEF DeliveryInv, NothingAhead, AttachmentsOnce, SentIsThere, ChatInOrder
<1>2. CASE SendSucceeds
  <2>1. /\ Sending /\ dphase = "send" /\ Settle("sent") /\ Reach(part)
        /\ lateCancel' = lateCancel /\ chat' = Append(chat, part)
    BY <1>2 DEF SendSucceeds, Sending, Reach
  <2>2. part \in Parts /\ chat \in Seq(Parts)
    BY <2>1 DEF DeliveryInv, OnePerPart, OutboundTypeOK
  <2>3. Len(chat) + 1 \in DOMAIN chat' /\ chat'[Len(chat) + 1] = part
    BY <2>1, <2>2, AppendPlaces
  <2>4. part \in ToSet(chat)'
    BY <2>3 DEF ToSet
  <2>5. lateCancel' \in BOOLEAN
    BY <2>1 DEF DeliveryInv, OutboundTypeOK
  <2>6. QED
    BY <2>1, <2>4, <2>5, Settling
<1>3. CASE SendFails
  <2>1. Sending /\ dphase = "send" /\ Reach(part)
    BY <1>3 DEF SendFails, Sending
  <2>2. CASE IsText(part) /\ attempt < MaxRetries
    <3>1. /\ dphase' = "sleep" /\ lateCancel' = dcancelled
          /\ UNCHANGED <<part, attempt, results, dcancelled>>
      BY <1>3, <2>2 DEF SendFails
    <3>2. /\ chat' \in Seq(Parts)
          /\ \A i \in DOMAIN chat : i \in DOMAIN chat' /\ chat'[i] = chat[i]
          /\ \A i \in DOMAIN chat' : chat'[i] <= part
          /\ ChatInOrder'
      BY <2>1, Reaching
    <3>3. OutboundTypeOK'
      BY <3>1, <3>2 DEF DeliveryInv, OutboundTypeOK
    <3>4. OnePerPart'
      BY <2>1, <2>2, <3>1 DEF DeliveryInv, OnePerPart, Sending, IsText
    <3>5. SentIsThere'
      BY <3>1, <3>2, TruthStays DEF DeliveryInv
    <3>6. QED
      BY <3>1, <3>2, <3>3, <3>4, <3>5 DEF DeliveryInv, NothingAhead, AttachmentsOnce
  <2>3. CASE ~(IsText(part) /\ attempt < MaxRetries)
    <3>1. Settle("failed") /\ lateCancel' = lateCancel
      BY <1>3, <2>3 DEF SendFails
    <3>2. lateCancel' \in BOOLEAN
      BY <3>1 DEF DeliveryInv, OutboundTypeOK
    <3>3. QED
      BY <2>1, <3>1, <3>2, Settling
  <2>4. QED
    BY <2>2, <2>3
<1>4. CASE SleepElapses
  <2>1. /\ dphase = "sleep" /\ dphase' = "send" /\ attempt' = attempt + 1
        /\ UNCHANGED <<part, results, dcancelled, lateCancel, chat>>
    BY <1>4 DEF SleepElapses
  <2>2. attempt' \in 0..MaxRetries
    BY <2>1 DEF DeliveryInv, OnePerPart, OutboundTypeOK
  <2>3. OutboundTypeOK'
    BY <2>1, <2>2 DEF DeliveryInv, OutboundTypeOK
  <2>4. OnePerPart' /\ AttachmentsOnce'
    BY <2>1 DEF DeliveryInv, OnePerPart, AttachmentsOnce, Sending, IsText
  <2>5. QED
    BY <2>1, <2>3, <2>4 DEF DeliveryInv, NothingAhead, SentIsThere, ChatInOrder, IsText
<1>5. CASE RetryAborted
  <2>1. /\ Sending /\ Settle("cancelled") /\ chat' = chat /\ Reach(part)
        /\ lateCancel' = lateCancel
    BY <1>5 DEF RetryAborted, Sending, Reach
  <2>2. lateCancel' \in BOOLEAN
    BY <2>1 DEF DeliveryInv, OutboundTypeOK
  <2>3. QED
    BY <2>1, <2>2, Settling
<1>6. CASE CancelDelivery \/ UNCHANGED outboundVars
  <2>1. /\ UNCHANGED <<dphase, part, attempt, results, lateCancel, chat>>
        /\ dcancelled' \in BOOLEAN
    BY <1>6 DEF CancelDelivery, outboundVars, DeliveryInv, OutboundTypeOK
  <2>2. QED
    BY <2>1 DEF DeliveryInv, OutboundTypeOK, OnePerPart, Sending, IsText, NothingAhead,
                AttachmentsOnce, SentIsThere, ChatInOrder
<1>7. QED
  BY <1>1, <1>2, <1>3, <1>4, <1>5, <1>6 DEF OutboundNext, OutboundSteps

-----------------------------------------------------------------------------
(* The theorems.                                                           *)

\* The results, the part being delivered and the chat fit together in every
\* delivery (deliver_reply and deliver_with_retry).
THEOREM OutboundInvariance == OutboundSpec => []DeliveryInv
BY OutboundInitInv, OutboundNextInv, PTL DEF OutboundSpec

\* A chunk is tried MaxRetries + 1 times at most, and only parts of the reply
\* reach the chat.
THEOREM OutboundTypeCorrect == OutboundSpec => []OutboundTypeOK
BY OutboundInvariance, PTL DEF DeliveryInv

\* deliver_reply tells the truth of every part, in order, however many parts
\* there are, whichever calls fail and whenever it is cancelled (outbound.rs).
THEOREM ResultsAreAlwaysTrue == OutboundSpec => []ResultsAreTrue
<1>1. DeliveryInv => ResultsAreTrue
  BY DEF DeliveryInv, SentIsThere, ChatInOrder, OnePerPart, ResultsAreTrue
<1>2. QED
  BY <1>1, OutboundInvariance, PTL

-----------------------------------------------------------------------------
(* The files of the Telegram adapter, for all accounts and messages.       *)
(* FilesInv says whose file an account resolves, that one which is         *)
(* downloaded or was handed on has a place on the disk, and FilesAreOwn    *)
(* itself: of two files with one path one may take the other's place, but  *)
(* then they are messages of the same chat with the same file name.        *)

\* Another file would be stored under the same path.
Clashes(f) ==
  \E g \in FileMessages \ {f} : g.account = f.account /\ g.chat = f.chat /\ FileName(g) = FileName(f)

\* An account resolves one file at a time, its own, that it has not handed on;
\* a file that is being downloaded or was handed on has a place on the disk.
Resolving(a) ==
  resolver[a] # None =>
    /\ resolver[a] \in [file : FileMessages, at : {"get_file", "download"}]
    /\ resolver[a].file.account = a
    /\ resolver[a].file \notin ToSet(handed)
    /\ resolver[a].at = "download" => FilePath(resolver[a].file) \in DOMAIN disk

FilesInv ==
  /\ handed \in Seq(FileMessages) /\ DOMAIN resolver = Accounts
  /\ \A a \in Accounts : Resolving(a)
  /\ \A f \in ToSet(handed) : FilePath(f) \in DOMAIN disk
  /\ FilesAreOwn

\* Two files whose paths are equal are one, or they clash.
LEMMA PathOfTwo ==
  ASSUME NEW f \in FileMessages, NEW g \in FileMessages, FilePath(f) = FilePath(g)
  PROVE  f = g \/ Clashes(f)
BY DEF FilePath, Clashes

\* The last file handed on joins the others.
LEMMA HandedOn ==
  ASSUME NEW s \in Seq(FileMessages), NEW f \in FileMessages
  PROVE  Append(s, f) \in Seq(FileMessages) /\ ToSet(Append(s, f)) = ToSet(s) \cup {f}
<1>1. /\ Append(s, f) \in Seq(FileMessages) /\ Len(Append(s, f)) = Len(s) + 1
      /\ \A i \in 1..Len(s) : Append(s, f)[i] = s[i]
      /\ Append(s, f)[Len(s) + 1] = f
  BY AppendProperties
<1>2. /\ DOMAIN s = 1..Len(s) /\ Len(s) \in Nat
      /\ DOMAIN Append(s, f) = 1..(Len(s) + 1)
  BY <1>1, LenProperties
<1> QED BY <1>1, <1>2 DEF ToSet

\* Nothing is resolved at first.
LEMMA FilesInit == TelegramInit => FilesInv
BY DEF TelegramInit, FilesInv, Resolving, FilesAreOwn, ToSet

\* The calls that send, edit and react do not touch the files.
LEMMA CallsLeaveFiles == CallNext => UNCHANGED fileVars
<1>1. ASSUME NEW a, AddBot(a) \/ RemoveBot(a) PROVE UNCHANGED fileVars
  BY <1>1 DEF AddBot, RemoveBot
<1>2. ASSUME NEW a, NEW place, NEW t, SendText(a, place, t) \/ StreamStart(a, place, t)
      PROVE  UNCHANGED fileVars
  BY <1>2 DEF SendText, StreamStart
<1>3. ASSUME NEW a, NEW place, NEW t, StreamUpdate(a, place, t) \/ StreamEnd(a, place, t)
      PROVE  UNCHANGED fileVars
  BY <1>3 DEF StreamUpdate, StreamEnd
<1>4. ASSUME NEW a, NEW place, NEW t, NEW there, SendMedia(a, place, t, there) \/ SendPoll(a, place, t, there)
      PROVE  UNCHANGED fileVars
  BY <1>4 DEF SendMedia, SendPoll
<1>5. ASSUME NEW a, NEW place, NEW i, NEW t, EditMessage(a, place, i, t) \/ AddReaction(a, place, i, t)
      PROVE  UNCHANGED fileVars
  BY <1>5 DEF EditMessage, AddReaction
<1>6. ASSUME NEW a, NEW place, NEW i, DeleteMessage(a, place, i) \/ RemoveReaction(a, place, i)
      PROVE  UNCHANGED fileVars
  BY <1>6 DEF DeleteMessage, RemoveReaction
<1>7. ASSUME NEW a, NEW place, Query(a, place) PROVE UNCHANGED fileVars
  BY <1>7 DEF Query
<1> QED BY <1>1, <1>2, <1>3, <1>4, <1>5, <1>6, <1>7 DEF CallNext

\* Creating a file empties what another message of the same chat and name had
\* there, and nothing else.
LEMMA CreateKeeps ==
  ASSUME FilesInv, NEW a \in Accounts, CreateFile(a) PROVE FilesInv'
<1> DEFINE f == resolver[a].file
           path == FilePath(f)
<1>1. /\ resolver[a] # None /\ f \in FileMessages /\ f \notin ToSet(handed) /\ f.account = a
      /\ resolver' = [resolver EXCEPT ![a].at = "download"] /\ handed' = handed
      /\ disk' = [p \in DOMAIN disk \union {path} |-> IF p = path THEN {} ELSE disk[p]]
  BY DEF CreateFile, FilesInv, Resolving
<1>2. /\ DOMAIN resolver' = Accounts
      /\ \A b \in Accounts : b # a => resolver'[b] = resolver[b]
      /\ resolver'[a].file = f /\ resolver'[a] \in [file : FileMessages, at : {"get_file", "download"}]
  BY <1>1 DEF FilesInv, Resolving
<1>3. DOMAIN disk' = DOMAIN disk \cup {path} /\ \A p \in DOMAIN disk : p # path => disk'[p] = disk[p]
  BY <1>1
<1>4. \A g \in ToSet(handed) : g \in FileMessages
  BY DEF FilesInv, ToSet
<1>5. ASSUME NEW g \in ToSet(handed) PROVE disk'[FilePath(g)] = {g} \/ Clashes(g)
  <2>1. CASE FilePath(g) = path
    <3>1. g # f /\ g \in FileMessages
      BY <1>1, <1>4
    <3> HIDE DEF f, path
    <3>2. FilePath(g) = FilePath(f)
      BY <2>1 DEF path
    <3> QED BY <1>1, <3>1, <3>2, PathOfTwo
  <2>2. CASE FilePath(g) # path
    BY <1>3, <2>2 DEF FilesInv, FilesAreOwn, Clashes
  <2> QED BY <2>1, <2>2
<1> HIDE DEF path
<1>6. \A b \in Accounts : Resolving(b)'
  BY <1>1, <1>2, <1>3 DEF FilesInv, Resolving, path
<1>7. \A g \in ToSet(handed') : FilePath(g) \in DOMAIN disk'
  BY <1>1, <1>3 DEF FilesInv
<1>8. FilesAreOwn'
  BY <1>1, <1>5 DEF FilesAreOwn, Clashes
<1> QED BY <1>1, <1>2, <1>6, <1>7, <1>8 DEF FilesInv

\* What was downloaded is handed on with its own bytes.
LEMMA DownloadedKeeps ==
  ASSUME FilesInv, NEW a \in Accounts, Downloaded(a) PROVE FilesInv'
<1>1. PICK f : f = resolver[a].file
  OBVIOUS
<1>2. /\ f \in FileMessages /\ f \notin ToSet(handed) /\ f.account = a /\ FilePath(f) \in DOMAIN disk
      /\ resolver' = [resolver EXCEPT ![a] = None] /\ handed' = Append(handed, f)
      /\ disk' = [disk EXCEPT ![FilePath(f)] = {f}]
  BY <1>1 DEF Downloaded, FilesInv, Resolving
<1>3. /\ DOMAIN resolver' = Accounts /\ resolver'[a] = None
      /\ \A b \in Accounts : b # a => resolver'[b] = resolver[b]
  BY <1>2 DEF FilesInv
<1>4. /\ DOMAIN disk' = DOMAIN disk /\ disk'[FilePath(f)] = {f}
      /\ \A p \in DOMAIN disk : p # FilePath(f) => disk'[p] = disk[p]
  BY <1>2
<1>5. handed' \in Seq(FileMessages) /\ ToSet(handed') = ToSet(handed) \cup {f} /\ ToSet(handed) \subseteq FileMessages
  BY <1>2, HandedOn DEF FilesInv, ToSet
<1>6. ASSUME NEW b \in Accounts PROVE Resolving(b)'
  <2>1. CASE b = a
    BY <1>3, <2>1 DEF Resolving
  <2>2. CASE b # a
    <3>1. resolver[b] # None => resolver[b].file # f
      BY <1>2, <2>2 DEF FilesInv, Resolving
    <3> QED BY <1>3, <1>4, <1>5, <2>2, <3>1 DEF FilesInv, Resolving
  <2> QED BY <2>1, <2>2
<1>7. \A g \in ToSet(handed') : FilePath(g) \in DOMAIN disk'
  BY <1>2, <1>4, <1>5 DEF FilesInv
<1>8. ASSUME NEW g \in ToSet(handed) PROVE disk'[FilePath(g)] = {g} \/ Clashes(g)
  <2>1. CASE FilePath(g) = FilePath(f)
    BY <1>2, <1>5, <2>1, PathOfTwo
  <2>2. CASE FilePath(g) # FilePath(f)
    BY <1>4, <2>2 DEF FilesInv, FilesAreOwn, Clashes
  <2> QED BY <2>1, <2>2
<1>9. FilesAreOwn'
  BY <1>4, <1>5, <1>8 DEF FilesAreOwn, Clashes
<1> QED BY <1>3, <1>5, <1>6, <1>7, <1>9 DEF FilesInv

\* A file that a message was handed on with stays its own, call by call.
LEMMA FilesNext == FilesInv /\ [TelegramNext]_telegramVars => FilesInv'
<1> SUFFICES ASSUME FilesInv, [TelegramNext]_telegramVars PROVE FilesInv'
  OBVIOUS
<1>1. CASE UNCHANGED fileVars
  BY <1>1 DEF fileVars, FilesInv, Resolving, FilesAreOwn
<1>2. ASSUME NEW f \in FileMessages, ResolveFile(f) PROVE FilesInv'
  <2>1. /\ f \notin ToSet(handed) /\ disk' = disk /\ handed' = handed
        /\ resolver' = [resolver EXCEPT ![f.account] = [file |-> f, at |-> "get_file"]]
    BY <1>2 DEF ResolveFile
  <2>2. /\ DOMAIN resolver' = Accounts /\ f.account \in Accounts
        /\ resolver'[f.account] = [file |-> f, at |-> "get_file"]
        /\ \A b \in Accounts : b # f.account => resolver'[b] = resolver[b]
    BY <2>1, TelegramAssumption DEF FilesInv
  <2>3. \A b \in Accounts : Resolving(b)'
    BY <2>1, <2>2 DEF FilesInv, Resolving
  <2> QED BY <2>1, <2>2, <2>3 DEF FilesInv, FilesAreOwn
<1>3. ASSUME NEW a \in Accounts, ResolveFails(a) PROVE FilesInv'
  <2>1. /\ DOMAIN resolver' = Accounts /\ resolver'[a] = None /\ disk' = disk /\ handed' = handed
        /\ \A b \in Accounts : b # a => resolver'[b] = resolver[b]
    BY <1>3 DEF ResolveFails, FilesInv
  <2> QED BY <2>1 DEF FilesInv, Resolving, FilesAreOwn
<1>4. CASE UNCHANGED telegramVars
  BY <1>1, <1>4 DEF telegramVars, fileVars
<1> QED BY <1>1, <1>2, <1>3, <1>4, CallsLeaveFiles, CreateKeeps, DownloadedKeeps
        DEF TelegramNext, FileNext

\* A file that a message was handed on with holds that message's bytes unless
\* another message of its chat has a file of the same name.
THEOREM DownloadsStayOwn == TelegramSpec => []FilesAreOwn
<1>1. FilesInv => FilesAreOwn
  BY DEF FilesInv
<1> QED BY FilesInit, FilesNext, <1>1, PTL DEF TelegramSpec
=============================================================================

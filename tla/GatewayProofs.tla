--------------------------- MODULE GatewayProofs ----------------------------
(***************************************************************************)
(* Proofs about the gateway: the numbers and versions of the events it     *)
(* broadcasts, its connections, and its channel manager.                   *)
(***************************************************************************)
EXTENDS EventBroadcaster, GatewayServer, GatewayChannelManager, FiniteSetTheorems, SequenceTheorems, TLAPS

-----------------------------------------------------------------------------
(* The event broadcaster, for any tasks, receivers, capacity and number of *)
(* broadcasts. A number is taken in one step and sent in another, so       *)
(* EventInv speaks of the frames that are on their way (Owned), of those   *)
(* in the channel and of how the two relate (Sent): a pending number is in *)
(* no sent frame, and is above what its own task has sent. What a receiver *)
(* got is read off the channel from its front on (Got), with or without    *)
(* gaps.                                                                   *)

Pending(t) == taskPc[t] # "idle"

\* Who waits to send owns a number that nobody else does.
Owned ==
  /\ \A t \in Tasks : Pending(t) => frame[t].by = t /\ frame[t].seq <= seq
  /\ \A t, u \in Tasks : t # u /\ Pending(t) /\ Pending(u) => frame[t].seq # frame[u].seq

\* Frame f may come before frame g.
Before(f, g) == f.seq # g.seq /\ (f.by = g.by => f.seq < g.seq)

Sent ==
  /\ \A i \in DOMAIN channel : channel[i].seq <= seq
  /\ \A i \in DOMAIN channel, t \in Tasks : Pending(t) => Before(channel[i], frame[t])
  /\ \A i, j \in DOMAIN channel : i < j => Before(channel[i], channel[j])

Got ==
  \A r \in Receivers :
    /\ \A k \in DOMAIN received[r] :
          \E i \in DOMAIN channel : i < cursor[r] /\ received[r][k] = channel[i]
    /\ \A j, k \in DOMAIN received[r] : j < k =>
          \E h, i \in DOMAIN channel : /\ h < i /\ i < cursor[r]
                                       /\ received[r][j] = channel[h]
                                       /\ received[r][k] = channel[i]

EventInv == EventTypeOK /\ Owned /\ Sent /\ Got

\* Nothing is in an empty sequence.
LEMMA Beginnings == <<>> \in Seq(EventFrame) /\ DOMAIN <<>> = {}
<1>1. <<>> \in Seq(EventFrame) /\ Len(<<>>) = 0 /\ DOMAIN <<>> = 1..Len(<<>>)
  BY EmptySeq, LenProperties
<1>2. DOMAIN <<>> = {}
  BY <1>1
<1>3. QED
  BY <1>1, <1>2

\* What Append does to the places of a sequence.
LEMMA AppendPlaces ==
  ASSUME NEW S, NEW s \in Seq(S), NEW e \in S
  PROVE  /\ Append(s, e) \in Seq(S) /\ Len(s) \in Nat
         /\ DOMAIN s = 1..Len(s) /\ DOMAIN Append(s, e) = 1..(Len(s) + 1)
         /\ Append(s, e)[Len(s) + 1] = e
         /\ \A i \in DOMAIN s : Append(s, e)[i] = s[i]
<1>1. /\ Append(s, e) \in Seq(S) /\ Len(Append(s, e)) = Len(s) + 1
      /\ Append(s, e)[Len(s) + 1] = e
      /\ \A i \in 1..Len(s) : Append(s, e)[i] = s[i]
  BY AppendProperties
<1>2. Len(s) \in Nat /\ DOMAIN s = 1..Len(s) /\ DOMAIN Append(s, e) = 1..Len(Append(s, e))
  BY <1>1, LenProperties
<1>3. QED
  BY <1>1, <1>2

\* The version stays a version.
LEMMA UpdatedType ==
  ASSUME NEW v \in StateVersion, NEW kind PROVE Updated(v, kind) \in StateVersion
BY DEF Updated, StateVersion, NoVersion

\* Nobody has broadcast anything.
LEMMA EventInitInv == EventInit => EventInv
<1> SUFFICES ASSUME EventInit PROVE EventInv
  OBVIOUS
<1>1. channel \in Seq(EventFrame) /\ DOMAIN channel = {}
  BY Beginnings, Zenon DEF EventInit
<1>2. /\ \A r \in Receivers : received[r] \in Seq(EventFrame) /\ DOMAIN received[r] = {}
      /\ received = [r \in Receivers |-> received[r]]
  <2>1. received = [r \in Receivers |-> <<>>]
    BY Zenon DEF EventInit
  <2>2. \A r \in Receivers : received[r] = <<>>
    BY <2>1, Zenon
  <2>3. received = [r \in Receivers |-> received[r]]
    BY <2>1, <2>2, Zenon
  <2>4. QED
    BY <2>2, <2>3, Beginnings, Zenon
<1>3. received \in [Receivers -> Seq(EventFrame)]
  BY <1>2
<1>4. /\ seq = 0 /\ version = NoVersion /\ lagged = {}
      /\ taskPc = [t \in Tasks |-> "idle"] /\ cursor = [r \in Receivers |-> 0]
      /\ frame = [t \in Tasks |-> [seq |-> 0, by |-> t, version |-> NoVersion]]
  BY Zenon DEF EventInit
<1>5. EventTypeOK
  <2>1. seq \in 0..MaxSeq
    BY <1>4, BroadcasterAssumption DEF BroadcasterAssumption
  <2>2. NoVersion \in StateVersion
    BY DEF StateVersion, NoVersion
  <2>3. \A t \in Tasks : [seq |-> 0, by |-> t, version |-> NoVersion] \in EventFrame
    BY <2>2 DEF EventFrame
  <2>4. frame \in [Tasks -> EventFrame]
    BY <1>4, <2>3
  <2>5. cursor \in [Receivers -> Nat] /\ taskPc \in [Tasks -> Updates \cup {"idle", "send"}]
    BY <1>4
  <2>6. version \in StateVersion /\ lagged \subseteq Receivers
    BY <1>4, <2>2
  <2>7. QED
    BY <1>1, <1>3, <2>1, <2>4, <2>5, <2>6 DEF EventTypeOK
<1>6. Owned /\ Sent
  BY <1>1, <1>4 DEF Owned, Sent, Pending
<1>7. Got
  BY <1>2 DEF Got
<1>8. QED
  BY <1>5, <1>6, <1>7 DEF EventInv

\* A new number is above all that were taken before.
LEMMA TakeSeqInv == ASSUME EventInv, NEW t \in Tasks, TakeSeq(t) PROVE EventInv'
<1>1. /\ taskPc[t] = "idle" /\ seq \in 0..MaxSeq /\ seq < MaxSeq /\ seq' = seq + 1
      /\ frame' = [frame EXCEPT ![t] = [seq |-> seq + 1, by |-> t, version |-> NoVersion]]
      /\ UNCHANGED <<version, channel, cursor, lagged, received>>
  BY DEF EventInv, EventTypeOK, TakeSeq, receiverVars
<1>2. PICK kind \in Updates : taskPc' = [taskPc EXCEPT ![t] = kind]
  BY DEF TakeSeq
<1>3. /\ taskPc \in [Tasks -> Updates \cup {"idle", "send"}] /\ frame \in [Tasks -> EventFrame]
      /\ channel \in Seq(EventFrame) /\ MaxSeq \in Nat
  BY BroadcasterAssumption DEF EventInv, EventTypeOK, BroadcasterAssumption
<1>4. /\ frame'[t].seq = seq + 1 /\ frame'[t].by = t
      /\ \A u \in Tasks \ {t} : frame'[u] = frame[u] /\ taskPc'[u] = taskPc[u]
  BY <1>1, <1>2, <1>3
<1>5. frame' \in [Tasks -> EventFrame]
  BY <1>1, <1>3 DEF EventFrame, StateVersion, NoVersion
<1>6. /\ \A u \in Tasks : frame[u].seq \in Nat
      /\ \A i \in DOMAIN channel : channel[i].seq \in Nat
  <2>1. \A i \in DOMAIN channel : channel[i] \in EventFrame
    BY <1>3, ElementOfSeq, LenProperties
  <2>2. QED
    BY <1>3, <2>1 DEF EventFrame
<1>7. EventTypeOK'
  BY <1>1, <1>2, <1>3, <1>5 DEF EventInv, EventTypeOK
<1>8. Owned'
  BY <1>1, <1>4, <1>6 DEF EventInv, Owned, Pending
<1>9. Sent'
  BY <1>1, <1>4, <1>6 DEF EventInv, Sent, Pending, Before
<1>10. Got'
  BY <1>1 DEF EventInv, Got
<1>11. QED
  BY <1>7, <1>8, <1>9, <1>10 DEF EventInv

\* A change of the version leaves the number as it is.
LEMMA UpdateInv == ASSUME EventInv, NEW t \in Tasks, Update(t) PROVE EventInv'
<1>1. /\ taskPc[t] # "idle" /\ taskPc' = [taskPc EXCEPT ![t] = "send"]
      /\ version' = Updated(version, taskPc[t]) /\ frame' = [frame EXCEPT ![t].version = version']
      /\ UNCHANGED <<seq, channel, cursor, lagged, received>>
  BY DEF Update, receiverVars
<1>2. /\ taskPc \in [Tasks -> Updates \cup {"idle", "send"}] /\ frame \in [Tasks -> EventFrame]
      /\ version' \in StateVersion
  BY <1>1, UpdatedType DEF EventInv, EventTypeOK
<1>3. \A u \in Tasks : /\ frame'[u].seq = frame[u].seq /\ frame'[u].by = frame[u].by
                       /\ taskPc'[u] # "idle" <=> taskPc[u] # "idle"
  BY <1>1, <1>2 DEF EventFrame
<1>4. frame' \in [Tasks -> EventFrame]
  BY <1>1, <1>2 DEF EventFrame
<1>5. EventTypeOK'
  BY <1>1, <1>2, <1>4 DEF EventInv, EventTypeOK
<1>6. Owned' /\ Sent' /\ Got'
  BY <1>1, <1>3 DEF EventInv, Owned, Sent, Got, Pending, Before
<1>7. QED
  BY <1>5, <1>6 DEF EventInv

\* A frame that is sent comes after all that are in the channel, and before
\* those that are still on their way.
LEMMA SendInv == ASSUME EventInv, NEW t \in Tasks, Send(t) PROVE EventInv'
<1>1. /\ taskPc[t] # "idle" /\ taskPc' = [taskPc EXCEPT ![t] = "idle"]
      /\ channel' = channel \/ channel' = Append(channel, frame[t])
      /\ UNCHANGED <<seq, version, frame, cursor, lagged, received>>
  BY DEF Send, receiverVars
<1>2. /\ taskPc \in [Tasks -> Updates \cup {"idle", "send"}] /\ frame \in [Tasks -> EventFrame]
      /\ channel \in Seq(EventFrame) /\ cursor \in [Receivers -> Nat]
  BY DEF EventInv, EventTypeOK
<1>3. \A u \in Tasks : Pending(u)' => Pending(u) /\ u # t
  BY <1>1, <1>2 DEF Pending
<1>4. Pending(t) /\ frame[t].by = t /\ frame[t].seq <= seq
  BY <1>1 DEF EventInv, Owned, Pending
<1>5. Owned'
  BY <1>1, <1>3 DEF EventInv, Owned
<1>6. CASE channel' = channel
  <2>1. EventTypeOK'
    BY <1>1, <1>2, <1>6 DEF EventInv, EventTypeOK
  <2>2. Sent' /\ Got'
    BY <1>1, <1>3, <1>6 DEF EventInv, Sent, Got
  <2>3. QED
    BY <1>5, <2>1, <2>2 DEF EventInv
<1>7. CASE channel' = Append(channel, frame[t])
  <2> DEFINE n == Len(channel)
  <2>1. /\ channel' \in Seq(EventFrame) /\ n \in Nat
        /\ DOMAIN channel = 1..n /\ DOMAIN channel' = 1..(n + 1)
        /\ channel'[n + 1] = frame[t] /\ \A i \in DOMAIN channel : channel'[i] = channel[i]
    BY <1>2, <1>7, AppendPlaces
  <2> HIDE DEF n
  <2>2. EventTypeOK'
    BY <1>1, <1>2, <2>1 DEF EventInv, EventTypeOK
  <2>3. \A i \in DOMAIN channel' : i \in DOMAIN channel \/ i = n + 1
    BY <2>1
  <2>4. \A i \in DOMAIN channel' : channel'[i].seq <= seq'
    BY <1>1, <1>4, <2>1, <2>3 DEF EventInv, Sent
  <2>5. ASSUME NEW i \in DOMAIN channel', NEW u \in Tasks, Pending(u)'
        PROVE  Before(channel'[i], frame'[u])
    <3>1. Pending(u) /\ u # t /\ frame' = frame /\ frame[u].by = u
      BY <1>1, <1>3, <2>5 DEF EventInv, Owned
    <3>2. CASE i \in DOMAIN channel
      BY <2>1, <3>1, <3>2 DEF EventInv, Sent
    <3>3. CASE i = n + 1
      BY <1>4, <2>1, <3>1, <3>3 DEF EventInv, Owned, Before
    <3>4. QED
      BY <2>3, <3>2, <3>3
  <2>6. ASSUME NEW i \in DOMAIN channel', NEW j \in DOMAIN channel', i < j
        PROVE  Before(channel'[i], channel'[j])
    <3>1. i \in DOMAIN channel
      BY <2>1, <2>6
    <3>2. CASE j \in DOMAIN channel
      BY <2>1, <2>6, <3>1, <3>2 DEF EventInv, Sent
    <3>3. CASE j = n + 1
      BY <1>4, <2>1, <3>1, <3>3 DEF EventInv, Sent
    <3>4. QED
      BY <2>3, <3>2, <3>3
  <2>7. Sent'
    <3>1. \A i \in DOMAIN channel', u \in Tasks : Pending(u)' => Before(channel'[i], frame'[u])
      BY <2>5
    <3>2. \A i, j \in DOMAIN channel' : i < j => Before(channel'[i], channel'[j])
      BY <2>6
    <3>3. QED
      BY <2>4, <3>1, <3>2 DEF Sent, Before
  <2>8. Got'
    <3>1. \A i \in DOMAIN channel : i \in DOMAIN channel' /\ channel'[i] = channel[i]
      BY <2>1
    <3>2. QED
      BY <1>1, <3>1 DEF EventInv, Got
  <2>9. QED
    BY <1>5, <2>2, <2>7, <2>8 DEF EventInv
<1>8. QED
  BY <1>1, <1>6, <1>7

\* A receiver that subscribes, or skips what it missed, goes forward.
LEMMA ForwardInv ==
  ASSUME EventInv, NEW r \in Receivers, NEW c \in Nat, cursor[r] <= c,
         cursor' = [cursor EXCEPT ![r] = c], lagged' \subseteq Receivers,
         UNCHANGED <<seq, version, taskPc, frame, channel, received>>
  PROVE  EventInv'
<1>1. cursor \in [Receivers -> Nat]
  BY DEF EventInv, EventTypeOK
<1>2. channel \in Seq(EventFrame)
  BY DEF EventInv, EventTypeOK
<1>3. \A q \in Receivers : cursor[q] \in Nat /\ cursor'[q] \in Nat /\ cursor[q] <= cursor'[q]
  BY <1>1
<1>4. DOMAIN channel \subseteq Nat
  BY <1>2, LenProperties
<1>5. EventTypeOK'
  BY <1>1 DEF EventInv, EventTypeOK
<1>6. Owned' /\ Sent'
  BY DEF EventInv, Owned, Sent, Pending
<1>7. Got'
  <2> SUFFICES ASSUME NEW q \in Receivers
               PROVE
                 /\ \A k \in DOMAIN received[q] :
                      \E i \in DOMAIN channel : i < cursor'[q] /\ received[q][k] = channel[i]
                 /\ \A j, k \in DOMAIN received[q] : j < k =>
                      \E h, i \in DOMAIN channel : /\ h < i /\ i < cursor'[q]
                                                   /\ received[q][j] = channel[h]
                                                   /\ received[q][k] = channel[i]
    BY DEF Got
  <2>1. \A i \in DOMAIN channel : i < cursor[q] => i < cursor'[q]
    BY <1>3, <1>4
  <2>2. QED
    BY <2>1 DEF EventInv, Got
<1>8. QED
  BY <1>5, <1>6, <1>7 DEF EventInv

\* What a receiver takes comes behind all it took before.
LEMMA RecvInv == ASSUME EventInv, NEW r \in Receivers, Recv(r) PROVE EventInv'
<1> DEFINE c == cursor[r]
           n == Len(received[r])
           new == received'[r]
<1>1. /\ c # 0 /\ c <= Len(channel)
      /\ received' = [received EXCEPT ![r] = Append(received[r], channel[c])]
      /\ cursor' = [cursor EXCEPT ![r] = c + 1]
      /\ UNCHANGED <<seq, version, taskPc, frame, channel, lagged>>
  BY DEF Recv
<1>2. /\ channel \in Seq(EventFrame) /\ cursor \in [Receivers -> Nat] /\ c \in Nat
      /\ received \in [Receivers -> Seq(EventFrame)] /\ received[r] \in Seq(EventFrame)
  BY DEF EventInv, EventTypeOK
<1>3. DOMAIN channel = 1..Len(channel) /\ c \in DOMAIN channel /\ channel[c] \in EventFrame
  BY <1>1, <1>2, LenProperties, ElementOfSeq
<1>4. /\ new = Append(received[r], channel[c]) /\ cursor'[r] = c + 1
      /\ \A q \in Receivers \ {r} : received'[q] = received[q] /\ cursor'[q] = cursor[q]
  BY <1>1, <1>2
<1>5. /\ new \in Seq(EventFrame) /\ n \in Nat
      /\ DOMAIN received[r] = 1..n /\ DOMAIN new = 1..(n + 1)
      /\ new[n + 1] = channel[c] /\ \A k \in DOMAIN received[r] : new[k] = received[r][k]
  BY <1>2, <1>3, <1>4, AppendPlaces
<1>6. EventTypeOK'
  <2>1. received' \in [Receivers -> Seq(EventFrame)]
    BY <1>1, <1>2, <1>4, <1>5
  <2>2. QED
    BY <1>1, <1>2, <2>1 DEF EventInv, EventTypeOK
<1>7. Owned' /\ Sent'
  BY <1>1 DEF EventInv, Owned, Sent, Pending
<1> HIDE DEF n, c, new
<1>8. \A k \in DOMAIN new : k \in DOMAIN received[r] \/ k = n + 1
  BY <1>5
<1>9. ASSUME NEW k \in DOMAIN received[r]
      PROVE  \E i \in DOMAIN channel : i < c /\ new[k] = channel[i]
  BY <1>5 DEF EventInv, Got, c
<1>10. ASSUME NEW k \in DOMAIN new
       PROVE  \E i \in DOMAIN channel : i < c + 1 /\ new[k] = channel[i]
  <2>1. CASE k \in DOMAIN received[r]
    BY <1>2, <1>3, <1>9, <2>1
  <2>2. CASE k = n + 1
    <3>1. c < c + 1
      BY <1>2
    <3>2. c \in DOMAIN channel /\ new[k] = channel[c]
      BY <1>3, <1>5, <2>2
    <3>3. QED
      BY <3>1, <3>2
  <2>3. QED
    BY <1>8, <2>1, <2>2
<1>11. ASSUME NEW j \in DOMAIN new, NEW k \in DOMAIN new, j < k
       PROVE  \E h, i \in DOMAIN channel : /\ h < i /\ i < c + 1
                                           /\ new[j] = channel[h] /\ new[k] = channel[i]
  <2>1. j \in DOMAIN received[r]
    BY <1>5, <1>11
  <2>2. CASE k \in DOMAIN received[r]
    <3>1. PICK h \in DOMAIN channel, i \in DOMAIN channel :
            /\ h < i /\ i < c
            /\ received[r][j] = channel[h] /\ received[r][k] = channel[i]
      BY <1>11, <2>1, <2>2 DEF EventInv, Got, c
    <3>2. i < c + 1 /\ new[j] = channel[h] /\ new[k] = channel[i]
      BY <1>2, <1>3, <1>5, <2>1, <2>2, <3>1
    <3>3. QED
      BY <3>1, <3>2
  <2>3. CASE k = n + 1
    <3>1. PICK h \in DOMAIN channel : h < c /\ new[j] = channel[h]
      BY <1>9, <2>1
    <3>2. c < c + 1 /\ new[k] = channel[c]
      BY <1>2, <1>5, <2>3
    <3>3. QED
      BY <1>3, <3>1, <3>2
  <2>4. QED
    BY <1>8, <2>2, <2>3
<1>12. Got'
  <2> SUFFICES ASSUME NEW q \in Receivers
               PROVE
                 /\ \A k \in DOMAIN received'[q] :
                      \E i \in DOMAIN channel' : i < cursor'[q] /\ received'[q][k] = channel'[i]
                 /\ \A j, k \in DOMAIN received'[q] : j < k =>
                      \E h, i \in DOMAIN channel' : /\ h < i /\ i < cursor'[q]
                                                    /\ received'[q][j] = channel'[h]
                                                    /\ received'[q][k] = channel'[i]
    BY DEF Got
  <2>1. channel' = channel
    BY <1>1
  <2>2. CASE q = r
    <3>1. received'[q] = new /\ cursor'[q] = c + 1
      BY <1>4, <2>2 DEF new
    <3>2. QED
      BY <1>10, <1>11, <2>1, <3>1
  <2>3. CASE q # r
    <3>1. received'[q] = received[q] /\ cursor'[q] = cursor[q]
      BY <1>4, <2>3
    <3>2. QED
      BY <2>1, <3>1 DEF EventInv, Got
  <2>4. QED
    BY <2>2, <2>3
<1>13. QED
  BY <1>6, <1>7, <1>12 DEF EventInv

\* Every step keeps EventInv.
LEMMA EventNextInv == EventInv /\ [EventNext]_eventVars => EventInv'
<1> SUFFICES ASSUME EventInv, [EventNext]_eventVars PROVE EventInv'
  OBVIOUS
<1>1. channel \in Seq(EventFrame) /\ Len(channel) \in Nat /\ cursor \in [Receivers -> Nat]
  BY LenProperties DEF EventInv, EventTypeOK
<1>2. ASSUME NEW t \in Tasks, TakeSeq(t) PROVE EventInv'
  BY <1>2, TakeSeqInv
<1>3. ASSUME NEW t \in Tasks, Update(t) PROVE EventInv'
  BY <1>3, UpdateInv
<1>4. ASSUME NEW t \in Tasks, Send(t) PROVE EventInv'
  BY <1>4, SendInv
<1>5. ASSUME NEW r \in Receivers, Subscribe(r) PROVE EventInv'
  <2>1. /\ cursor[r] = 0 /\ cursor' = [cursor EXCEPT ![r] = Len(channel) + 1]
        /\ lagged' \subseteq Receivers
        /\ UNCHANGED <<seq, version, taskPc, frame, channel, received>>
    BY <1>5 DEF Subscribe, EventInv, EventTypeOK
  <2>2. Len(channel) + 1 \in Nat /\ cursor[r] <= Len(channel) + 1
    BY <1>1, <2>1
  <2>3. QED
    BY <2>1, <2>2, ForwardInv
<1>6. ASSUME NEW r \in Receivers, Recv(r) PROVE EventInv'
  BY <1>6, RecvInv
<1>7. ASSUME NEW r \in Receivers, Lag(r) PROVE EventInv'
  <2>1. /\ cursor[r] < Oldest /\ cursor' = [cursor EXCEPT ![r] = Oldest]
        /\ lagged' \subseteq Receivers
        /\ UNCHANGED <<seq, version, taskPc, frame, channel, received>>
    BY <1>7 DEF Lag, EventInv, EventTypeOK
  <2>2. Oldest \in Nat
    BY <1>1, BroadcasterAssumption DEF Oldest, BroadcasterAssumption
  <2>3. cursor[r] <= Oldest
    BY <1>1, <2>1, <2>2
  <2>4. QED
    BY <2>1, <2>2, <2>3, ForwardInv
<1>8. CASE UNCHANGED eventVars
  BY <1>8 DEF eventVars, EventInv, EventTypeOK, Owned, Sent, Got, Pending, Before
<1>9. QED
  BY <1>2, <1>3, <1>4, <1>5, <1>6, <1>7, <1>8 DEF EventNext

\* The invariant holds of every behaviour of the broadcaster.
THEOREM EventInvariance == EventSpec => []EventInv
BY EventInitInv, EventNextInv, PTL DEF EventSpec

\* The types of the state.
THEOREM EventTypeCorrect == EventSpec => []EventTypeOK
<1>1. EventInv => EventTypeOK
  BY DEF EventInv
<1>2. QED
  BY <1>1, EventInvariance, PTL

\* A number names one event, and what one task broadcasts arrives in its
\* order, for any number of tasks and slow receivers.
THEOREM NumbersAlwaysName == EventSpec => []NumbersName
<1>1. EventInv => NumbersName
  <2> SUFFICES ASSUME EventInv, NEW r \in Receivers, NEW j \in DOMAIN received[r],
                      NEW k \in DOMAIN received[r], j < k
               PROVE  Before(received[r][j], received[r][k])
    BY DEF NumbersName, Before
  <2>1. PICK h \in DOMAIN channel, i \in DOMAIN channel :
          h < i /\ received[r][j] = channel[h] /\ received[r][k] = channel[i]
    BY DEF EventInv, Got
  <2>2. QED
    BY <2>1 DEF EventInv, Sent
<1>2. QED
  BY <1>1, EventInvariance, PTL

-----------------------------------------------------------------------------
(* The versions that the frames carry. Versions are counted in one step    *)
(* and put into a frame in another, so a lower number may carry a higher   *)
(* version: VersionsGrow says that some frame, in the channel or on its    *)
(* way, carries the present version, and none a greater one. Once all      *)
(* frames are sent and a receiver has them all, the greatest it saw is the *)
(* present one.                                                            *)

\* Frames that still may carry the current version, told by their number.
CurrentIn(n) ==
  /\ \A i \in DOMAIN channel : channel[i].seq = n => channel[i].version = version
  /\ \A t \in Tasks : Pending(t) /\ frame[t].seq = n =>
        taskPc[t] = "send" /\ frame[t].version = version

\* Numbers are counted from 1.
Numbered ==
  /\ \A t \in Tasks : Pending(t) => 1 <= frame[t].seq
  /\ \A i \in DOMAIN channel : 1 <= channel[i].seq

\* Until a custom version comes, versions only grow, and the frame of some
\* number carries the present one, wherever it is by now.
VersionsGrow ==
  ~customs =>
    /\ \A t \in Tasks : Pending(t) => Sum(frame[t].version) <= Sum(version)
    /\ \A i \in DOMAIN channel : Sum(channel[i].version) <= Sum(version)
    /\ version # NoVersion => \E n \in 1..seq : CurrentIn(n)

VersionInv == EventInv /\ Numbered /\ VersionsGrow

\* Versions add up to numbers.
LEMMA SumType == \A v \in StateVersion : Sum(v) \in Nat
BY DEF StateVersion, Sum

\* What the fields of the state's frames are.
LEMMA FrameTypes ==
  ASSUME EventTypeOK
  PROVE  /\ seq \in Nat /\ version \in StateVersion /\ Sum(version) \in Nat
         /\ \A t \in Tasks : /\ frame[t].seq \in Nat /\ frame[t].version \in StateVersion
                             /\ Sum(frame[t].version) \in Nat
         /\ \A i \in DOMAIN channel : /\ channel[i].seq \in Nat
                                      /\ channel[i].version \in StateVersion
                                      /\ Sum(channel[i].version) \in Nat
<1>1. \A v \in StateVersion : Sum(v) \in Nat
  BY SumType
<1>2. \A f \in EventFrame : f.seq \in Nat /\ f.version \in StateVersion
  BY DEF EventFrame
<1>3. \A i \in DOMAIN channel : channel[i] \in EventFrame
  BY ElementOfSeq, LenProperties DEF EventTypeOK
<1>4. seq \in Nat /\ version \in StateVersion /\ \A t \in Tasks : frame[t] \in EventFrame
  BY BroadcasterAssumption DEF EventTypeOK, BroadcasterAssumption
<1>5. QED
  BY <1>1, <1>2, <1>3, <1>4

\* A version that is changed, and not replaced, is greater than before.
LEMMA UpdatedGrows ==
  ASSUME NEW v \in StateVersion, NEW kind \in {"presence", "health", "both"}
  PROVE  Sum(v) < Sum(Updated(v, kind))
<1>1. v.presence \in Nat /\ v.health \in Nat
  BY DEF StateVersion
<1>2. CASE kind = "presence"
  <2>1. Updated(v, kind) = [v EXCEPT !.presence = v.presence + 1]
    BY <1>2 DEF Updated
  <2>2. Updated(v, kind).presence = v.presence + 1 /\ Updated(v, kind).health = v.health
    BY <2>1 DEF StateVersion
  <2>3. QED
    BY <1>1, <2>2 DEF Sum
<1>3. CASE kind = "health"
  <2>1. Updated(v, kind) = [v EXCEPT !.health = v.health + 1]
    BY <1>3 DEF Updated
  <2>2. Updated(v, kind).presence = v.presence /\ Updated(v, kind).health = v.health + 1
    BY <2>1 DEF StateVersion
  <2>3. QED
    BY <1>1, <2>2 DEF Sum
<1>4. CASE kind = "both"
  <2>1. Updated(v, kind) = [presence |-> v.presence + 1, health |-> v.health + 1]
    BY <1>4 DEF Updated
  <2>2. QED
    BY <1>1, <2>1 DEF Sum
<1>5. QED
  BY <1>2, <1>3, <1>4

\* Nothing was broadcast and nothing counted at first.
LEMMA VersionInit == EventInit => VersionInv
<1> SUFFICES ASSUME EventInit PROVE VersionInv
  OBVIOUS
<1>1. EventInv
  BY EventInitInv
<1>2. DOMAIN channel = {} /\ version = NoVersion /\ \A t \in Tasks : ~Pending(t)
  BY Beginnings DEF EventInit, Pending
<1>3. QED
  BY <1>1, <1>2 DEF VersionInv, Numbered, VersionsGrow

\* A new number carries no version yet, and is none of the earlier ones.
LEMMA TakeSeqVersion == ASSUME VersionInv, NEW t \in Tasks, TakeSeq(t) PROVE VersionInv'
<1>1. EventInv'
  BY TakeSeqInv DEF VersionInv
<1>2. /\ taskPc[t] = "idle" /\ seq' = seq + 1
      /\ frame' = [frame EXCEPT ![t] = [seq |-> seq + 1, by |-> t, version |-> NoVersion]]
      /\ UNCHANGED <<version, channel, customs>>
  BY DEF TakeSeq
<1>3. PICK kind \in Updates : taskPc' = [taskPc EXCEPT ![t] = kind]
  BY DEF TakeSeq
<1>4. /\ taskPc \in [Tasks -> Updates \cup {"idle", "send"}] /\ frame \in [Tasks -> EventFrame]
      /\ EventTypeOK
  BY DEF VersionInv, EventInv, EventTypeOK
<1>5. /\ frame'[t] = [seq |-> seq + 1, by |-> t, version |-> NoVersion]
      /\ \A u \in Tasks \ {t} : frame'[u] = frame[u] /\ taskPc'[u] = taskPc[u]
  BY <1>2, <1>3, <1>4
<1>6. seq \in Nat /\ version \in StateVersion /\ Sum(version) \in Nat
  BY <1>4, FrameTypes
<1>7. frame'[t].seq = seq + 1 /\ frame'[t].version = NoVersion /\ Sum(NoVersion) = 0
  BY <1>5 DEF Sum, NoVersion
<1>8. Numbered'
  BY <1>2, <1>5, <1>6, <1>7 DEF VersionInv, Numbered, Pending
<1>9. VersionsGrow'
  <2> SUFFICES ASSUME ~customs' PROVE VersionsGrow!2'
    BY DEF VersionsGrow
  <2>1. VersionsGrow!2
    BY <1>2 DEF VersionInv, VersionsGrow
  <2>2. \A u \in Tasks : Pending(u)' => Sum(frame'[u].version) <= Sum(version')
    BY <1>2, <1>5, <1>6, <1>7, <2>1 DEF Pending
  <2>3. ASSUME NEW n \in 1..seq, CurrentIn(n) PROVE CurrentIn(n)' /\ n \in 1..seq'
    <3>1. n # seq + 1 /\ n \in 1..(seq + 1)
      BY <1>6
    <3>2. QED
      BY <1>2, <1>5, <1>7, <2>3, <3>1 DEF CurrentIn, Pending
  <2>4. QED
    BY <1>2, <2>1, <2>2, <2>3
<1>10. QED
  BY <1>1, <1>8, <1>9 DEF VersionInv

\* An update carries what it made, and no other frame has its number.
LEMMA UpdateVersion == ASSUME VersionInv, NEW t \in Tasks, Update(t) PROVE VersionInv'
<1>1. EventInv'
  BY UpdateInv DEF VersionInv
<1>2. /\ taskPc[t] \notin {"idle", "none", "send"} /\ taskPc' = [taskPc EXCEPT ![t] = "send"]
      /\ version' = Updated(version, taskPc[t]) /\ frame' = [frame EXCEPT ![t].version = version']
      /\ customs' = (customs \/ taskPc[t] = "custom") /\ UNCHANGED <<seq, channel>>
  BY DEF Update
<1>3. /\ taskPc \in [Tasks -> Updates \cup {"idle", "send"}] /\ frame \in [Tasks -> EventFrame]
      /\ EventTypeOK /\ Updates \subseteq {"none", "presence", "health", "both", "custom"}
  BY BroadcasterAssumption DEF VersionInv, EventInv, EventTypeOK, BroadcasterAssumption
<1>4. /\ frame'[t].seq = frame[t].seq /\ frame'[t].version = version' /\ taskPc'[t] = "send"
      /\ \A u \in Tasks \ {t} : frame'[u] = frame[u] /\ taskPc'[u] = taskPc[u]
  BY <1>2, <1>3 DEF EventFrame
<1>5. Numbered'
  BY <1>2, <1>4 DEF VersionInv, Numbered, Pending
<1>6. VersionsGrow'
  <2> SUFFICES ASSUME ~customs' PROVE VersionsGrow!2'
    BY DEF VersionsGrow
  <2>1. VersionsGrow!2 /\ taskPc[t] \in {"presence", "health", "both"}
    BY <1>2, <1>3 DEF VersionInv, VersionsGrow
  <2>2. Sum(version) < Sum(version')
    BY <1>2, <1>3, <2>1, UpdatedGrows DEF EventTypeOK
  <2>3. Sum(version) \in Nat /\ Sum(version') \in Nat
    BY <1>1, <1>3, SumType DEF EventInv, EventTypeOK
  <2>4. /\ \A u \in Tasks : Sum(frame[u].version) \in Nat
        /\ \A i \in DOMAIN channel : Sum(channel[i].version) \in Nat
    BY <1>3, FrameTypes
  <2>5. \A u \in Tasks : Pending(u)' => Sum(frame'[u].version) <= Sum(version')
    <3> SUFFICES ASSUME NEW u \in Tasks, Pending(u)'
                 PROVE  Sum(frame'[u].version) <= Sum(version')
      OBVIOUS
    <3>1. CASE u = t
      BY <1>4, <2>3, <3>1
    <3>2. CASE u # t
      <4>1. Pending(u) /\ frame'[u] = frame[u]
        BY <1>4, <3>2 DEF Pending
      <4>2. Sum(frame[u].version) <= Sum(version)
        BY <2>1, <4>1
      <4>3. QED
        BY <2>2, <2>3, <2>4, <4>1, <4>2
    <3>3. QED
      BY <3>1, <3>2
  <2>6. \A i \in DOMAIN channel' : Sum(channel'[i].version) <= Sum(version')
    <3>1. \A i \in DOMAIN channel : Sum(channel[i].version) <= Sum(version)
      BY <2>1
    <3>2. \A i \in DOMAIN channel : Sum(channel[i].version) <= Sum(version')
      BY <2>2, <2>3, <2>4, <3>1
    <3>3. QED
      BY <1>2, <3>2
  <2> PICK n : n = frame[t].seq
    OBVIOUS
  <2>7. CurrentIn(n)'
    <3>1. \A i \in DOMAIN channel : channel[i].seq # frame[t].seq
      BY <1>2 DEF VersionInv, EventInv, Sent, Before, Pending
    <3>2. \A u \in Tasks : u # t /\ Pending(u) => frame[u].seq # frame[t].seq
      BY <1>2 DEF VersionInv, EventInv, Owned, Pending
    <3>3. QED
      BY <1>2, <1>4, <3>1, <3>2 DEF CurrentIn, Pending
  <2>8. n \in 1..seq'
    <3>1. 1 <= frame[t].seq /\ frame[t].seq <= seq
      BY <1>2 DEF VersionInv, Numbered, EventInv, Owned, Pending
    <3>2. QED
      BY <1>2, <1>3, <3>1, FrameTypes
  <2>9. \E m \in 1..seq' : CurrentIn(m)'
    BY <2>7, <2>8
  <2>10. QED
    BY <2>5, <2>6, <2>9
<1>7. QED
  BY <1>1, <1>5, <1>6 DEF VersionInv

\* A frame that is sent goes on to carry what it carried.
LEMMA SendVersion == ASSUME VersionInv, NEW t \in Tasks, Send(t) PROVE VersionInv'
<1>1. EventInv'
  BY SendInv DEF VersionInv
<1>2. /\ taskPc[t] # "idle" /\ taskPc' = [taskPc EXCEPT ![t] = "idle"]
      /\ channel' = channel \/ channel' = Append(channel, frame[t])
      /\ UNCHANGED <<seq, version, frame, customs>>
  BY DEF Send
<1>3. /\ taskPc \in [Tasks -> Updates \cup {"idle", "send"}] /\ frame \in [Tasks -> EventFrame]
      /\ channel \in Seq(EventFrame)
  BY DEF VersionInv, EventInv, EventTypeOK
<1>4. \A u \in Tasks : Pending(u)' => Pending(u) /\ taskPc'[u] = taskPc[u]
  BY <1>2, <1>3 DEF Pending
<1>5. \A i \in DOMAIN channel' :
         (i \in DOMAIN channel /\ channel'[i] = channel[i]) \/ channel'[i] = frame[t]
  <2>1. CASE channel' = channel
    BY <2>1
  <2>2. CASE channel' = Append(channel, frame[t])
    <3>1. /\ Len(channel) \in Nat
          /\ DOMAIN channel = 1..Len(channel) /\ DOMAIN channel' = 1..(Len(channel) + 1)
          /\ channel'[Len(channel) + 1] = frame[t]
          /\ \A i \in DOMAIN channel : channel'[i] = channel[i]
      BY <1>3, <2>2, AppendPlaces
    <3>2. \A i \in DOMAIN channel' : i \in DOMAIN channel \/ i = Len(channel) + 1
      BY <3>1
    <3>3. QED
      BY <3>1, <3>2
  <2>3. QED
    BY <1>2, <2>1, <2>2
<1>6. Pending(t)
  BY <1>2 DEF Pending
<1>7. Numbered'
  BY <1>2, <1>4, <1>5, <1>6 DEF VersionInv, Numbered
<1>8. VersionsGrow'
  <2> SUFFICES ASSUME ~customs' PROVE VersionsGrow!2'
    BY DEF VersionsGrow
  <2>1. VersionsGrow!2
    BY <1>2 DEF VersionInv, VersionsGrow
  <2>2. /\ \A u \in Tasks : Pending(u)' => Sum(frame'[u].version) <= Sum(version')
        /\ \A i \in DOMAIN channel' : Sum(channel'[i].version) <= Sum(version')
    BY <1>2, <1>4, <1>5, <1>6, <2>1
  <2>3. \A n : CurrentIn(n) => CurrentIn(n)'
    BY <1>2, <1>4, <1>5, <1>6 DEF CurrentIn
  <2>4. QED
    BY <1>2, <2>1, <2>2, <2>3
<1>9. QED
  BY <1>1, <1>7, <1>8 DEF VersionInv

\* Receivers change no frame.
LEMMA OthersVersion ==
  ASSUME VersionInv, EventInv', UNCHANGED <<seq, version, taskPc, frame, channel, customs>>
  PROVE  VersionInv'
BY DEF VersionInv, Numbered, VersionsGrow, CurrentIn, Pending

\* Each step of tasks and receivers keeps the invariant.
LEMMA VersionNext == VersionInv /\ [EventNext]_eventVars => VersionInv'
<1> SUFFICES ASSUME VersionInv, [EventNext]_eventVars PROVE VersionInv'
  OBVIOUS
<1>1. EventInv'
  BY EventNextInv DEF VersionInv
<1>2. ASSUME NEW r \in Receivers, Subscribe(r) \/ Recv(r) \/ Lag(r) PROVE VersionInv'
  <2>1. UNCHANGED <<seq, version, taskPc, frame, channel, customs>>
    BY <1>2 DEF Subscribe, Recv, Lag
  <2>2. QED
    BY <1>1, <2>1, OthersVersion
<1>3. CASE UNCHANGED eventVars
  BY <1>1, <1>3, OthersVersion DEF eventVars
<1>4. QED
  BY <1>2, <1>3, TakeSeqVersion, UpdateVersion, SendVersion DEF EventNext

\* Versions, frames on their way and frames in the channel fit together in
\* every behaviour (broadcast_with_state, subscribe).
THEOREM VersionInvariance == EventSpec => []VersionInv
BY VersionInit, VersionNext, PTL DEF EventSpec

\* A receiver that got as many frames as there are numbers got each of them.
LEMMA GotAll ==
  ASSUME VersionInv, NEW r \in Receivers, Len(received[r]) = seq, NEW n \in 1..seq
  PROVE  \E k \in DOMAIN received[r] : received[r][k].seq = n
<1> DEFINE number == [k \in 1..seq |-> received[r][k].seq]
<1>1. seq \in Nat /\ received[r] \in Seq(EventFrame) /\ DOMAIN received[r] = 1..seq
  BY FrameTypes, LenProperties DEF VersionInv, EventInv, EventTypeOK
<1>2. number \in [1..seq -> 1..seq]
  <2> SUFFICES ASSUME NEW k \in 1..seq PROVE received[r][k].seq \in 1..seq
    OBVIOUS
  <2>1. PICK i \in DOMAIN channel : received[r][k] = channel[i]
    BY <1>1 DEF VersionInv, EventInv, Got
  <2>2. channel[i].seq \in Nat /\ 1 <= channel[i].seq /\ channel[i].seq <= seq
    BY FrameTypes DEF VersionInv, EventInv, Numbered, Sent
  <2>3. QED
    BY <1>1, <2>1, <2>2
<1>3. \A j, k \in 1..seq : j < k => number[j] # number[k]
  <2> SUFFICES ASSUME NEW j \in 1..seq, NEW k \in 1..seq, j < k
               PROVE  received[r][j].seq # received[r][k].seq
    OBVIOUS
  <2>1. PICK h \in DOMAIN channel, i \in DOMAIN channel :
          h < i /\ received[r][j] = channel[h] /\ received[r][k] = channel[i]
    BY <1>1 DEF VersionInv, EventInv, Got
  <2>2. QED
    BY <2>1 DEF VersionInv, EventInv, Sent, Before
<1>4. number \in Injection(1..seq, 1..seq)
  <2>1. \A j, k \in 1..seq : j # k => j < k \/ k < j
    BY <1>1
  <2>2. \A j, k \in 1..seq : number[j] = number[k] => j = k
    BY <1>3, <2>1
  <2>3. QED
    BY <1>2, <2>2 DEF Injection, IsInjective
<1>5. number \in Surjection(1..seq, 1..seq)
  <2>1. IsFiniteSet(1..seq)
    BY <1>1, FS_Interval
  <2>2. QED
    BY <1>4, <2>1, FS_Injection
<1>6. \E k \in 1..seq : number[k] = n
  BY <1>5 DEF Surjection
<1>7. QED
  BY <1>1, <1>6

\* Once nothing is on its way, a client that heard every event knows the
\* version by the greatest it was sent.
THEOREM GreatestIsCurrent == EventSpec => []GreatestVersionIsCurrent
<1>1. ASSUME VersionInv PROVE GreatestVersionIsCurrent
  <2> SUFFICES ASSUME NEW r \in Receivers, ~customs, Len(received[r]) = seq
               PROVE  /\ version # NoVersion =>
                           \E k \in DOMAIN received[r] : received[r][k].version = version
                      /\ \A k \in DOMAIN received[r] :
                           Sum(received[r][k].version) <= Sum(version)
    BY DEF GreatestVersionIsCurrent
  <2>1. \A k \in DOMAIN received[r] : \E i \in DOMAIN channel : received[r][k] = channel[i]
    BY <1>1 DEF VersionInv, EventInv, Got
  <2>2. \A k \in DOMAIN received[r] : Sum(received[r][k].version) <= Sum(version)
    BY <1>1, <2>1 DEF VersionInv, VersionsGrow
  <2>3. ASSUME version # NoVersion
        PROVE  \E k \in DOMAIN received[r] : received[r][k].version = version
    <3>1. PICK n \in 1..seq : CurrentIn(n)
      BY <1>1, <2>3 DEF VersionInv, VersionsGrow
    <3>2. PICK k \in DOMAIN received[r] : received[r][k].seq = n
      BY <1>1, GotAll
    <3>3. QED
      BY <2>1, <3>1, <3>2 DEF CurrentIn
  <2>4. QED
    BY <2>2, <2>3
<1>2. QED
  BY <1>1, VersionInvariance, PTL

-----------------------------------------------------------------------------
(* The connections of the gateway, for any connections, clients, methods   *)
(* and closers, and any number of requests. ServerInv adds to what         *)
(* ConnectionsHold says that nothing is read or answered before the        *)
(* handshake (Fresh), and that who got past it was let in (Admitted); from *)
(* this the registry names the connections whose loop runs (Present).      *)

\* A handshake of this kind is let in.
LetIn(p) ==
  /\ p.min <= MaxProtocol /\ MinProtocol <= p.max
  /\ authMode \in {"none", "trusted_proxy"} \/ p.auth = "right"

\* Nothing was read or said before the handshake.
Fresh ==
  \A c \in Conns : connPc[c] \in {"none", "handshake"} =>
    params[c] = NoParams /\ requested[c] = <<>> /\ answered[c] = <<>>

\* Who got past the handshake was let in, before it enters the registry.
Admitted ==
  \A c \in Conns : connPc[c] \in {"register", "loop", "dispatch", "unregister"} => LetIn(params[c])

Present == registry = {c \in Conns : connPc[c] \in {"loop", "dispatch", "unregister"}}

\* What the server owes connection c.
Owes(c) == IF connPc[c] = "dispatch" THEN 1 ELSE 0
InOrder(c) ==
  /\ Len(answered[c]) = Len(requested[c]) - Owes(c)
  /\ \A k \in DOMAIN answered[c] : answered[c][k].id = requested[c][k].id

ServerInv == ServerTypeOK /\ Fresh /\ Admitted /\ Present /\ AnswersInOrder

\* A handshake that fits is one of a client that is let in.
LEMMA Negotiated ==
  ASSUME NEW p \in ConnectParams, HandleConnect(p)
  PROVE  LetIn(p)
<1>1. PICK hi \in {p.max, MaxProtocol} :
         hi <= p.max /\ hi <= MaxProtocol /\ p.min <= hi /\ MinProtocol <= hi
  BY DEF HandleConnect, NegotiateProtocol
<1>2. p.min \in Nat /\ p.max \in Nat /\ hi \in Nat
  BY <1>1 DEF ConnectParams, MaxProtocol
<1>3. p.min <= MaxProtocol /\ MinProtocol <= p.max
  BY <1>1, <1>2 DEF MaxProtocol, MinProtocol
<1>4. QED
  BY <1>3 DEF LetIn, HandleConnect, ValidateAuth

\* What Append does to the places of a sequence.
LEMMA AppendedPlaces ==
  ASSUME NEW S, NEW s \in Seq(S), NEW e \in S
  PROVE  /\ Append(s, e) \in Seq(S) /\ Len(s) \in Nat /\ Len(Append(s, e)) = Len(s) + 1
         /\ DOMAIN s = 1..Len(s) /\ DOMAIN Append(s, e) = 1..(Len(s) + 1)
         /\ Append(s, e)[Len(s) + 1] = e
         /\ \A i \in DOMAIN s : Append(s, e)[i] = s[i]
<1>1. /\ Append(s, e) \in Seq(S) /\ Len(Append(s, e)) = Len(s) + 1
      /\ Append(s, e)[Len(s) + 1] = e
      /\ \A i \in 1..Len(s) : Append(s, e)[i] = s[i]
  BY AppendProperties
<1>2. Len(s) \in Nat /\ DOMAIN s = 1..Len(s) /\ DOMAIN Append(s, e) = 1..Len(Append(s, e))
  BY <1>1, LenProperties
<1>3. QED
  BY <1>1, <1>2

\* No connection is there at first.
LEMMA ServerInitInv == ServerInit => ServerInv
<1> SUFFICES ASSUME ServerInit PROVE ServerInv
  OBVIOUS
<1>1. <<>> \in Seq(ReadFrame) /\ <<>> \in Seq(ResponseFrame)
  BY EmptySeq
<1>2. ServerTypeOK
  <2>1. requested \in [Conns -> Seq(ReadFrame)] /\ answered \in [Conns -> Seq(ResponseFrame)]
    BY <1>1, Zenon DEF ServerInit
  <2>2. params \in [Conns -> Params \cup {NoParams}] /\ registry = {}
    BY DEF ServerInit
  <2>3. closer \in [Closers -> {"none", "waiting", "returned"}] /\ connPc \in [Conns -> ConnPlaces]
    BY DEF ServerInit, ConnPlaces
  <2>4. QED
    BY <2>1, <2>2, <2>3 DEF ServerTypeOK, ServerInit, ConnPlaces
<1>3. \A c \in Conns : /\ connPc[c] = "none" /\ params[c] = NoParams
                       /\ requested[c] = <<>> /\ answered[c] = <<>>
  BY Zenon DEF ServerInit
<1>4. Fresh /\ Admitted /\ AnswersInOrder
  BY <1>3, Zenon DEF Fresh, Admitted, AnswersInOrder
<1>5. Present
  BY <1>3 DEF Present, ServerInit
<1>6. QED
  BY <1>2, <1>4, <1>5 DEF ServerInv

\* A task that goes on without reading or saying anything keeps the order of
\* its answers, unless it comes from or goes to a dispatch.
LEMMA TaskGoesOn ==
  ASSUME ServerInv, NEW c \in Conns, NEW label \in ConnPlaces,
         Goto(c, label), registry' \subseteq Conns,
         connPc[c] # "dispatch", label \notin {"none", "dispatch"},
         label = "handshake" => connPc[c] = "none",
         label \in {"register", "loop", "unregister"} =>
            connPc[c] \in {"register", "loop", "unregister"},
         connPc[c] \in {"none", "handshake"} => label \in {"handshake", "ended"},
         registry' = {d \in Conns : connPc'[d] \in {"loop", "dispatch", "unregister"}},
         UNCHANGED <<params, requested, answered, serverVars>>
  PROVE  ServerInv'
<1>1. /\ connPc' = [connPc EXCEPT ![c] = label] /\ connPc \in [Conns -> ConnPlaces]
      /\ UNCHANGED <<params, requested, answered, authMode, serverTask, closing, permit, closer>>
  BY DEF Goto, ServerInv, ServerTypeOK, serverVars
<1>2. connPc'[c] = label /\ \A d \in Conns \ {c} : connPc'[d] = connPc[d]
  BY <1>1
<1>3. ServerTypeOK'
  BY <1>1 DEF ServerInv, ServerTypeOK
<1>4. Fresh'
  BY <1>1, <1>2 DEF ServerInv, Fresh
<1>5. Admitted'
  BY <1>1, <1>2 DEF ServerInv, Admitted, LetIn
<1>6. Present'
  BY DEF Present
<1>7. AnswersInOrder'
  <2> SUFFICES ASSUME NEW d \in Conns, connPc'[d] \notin {"none", "handshake"},
                      params'[d] # NoParams
               PROVE  InOrder(d)'
    BY DEF AnswersInOrder, InOrder, Owes
  <2>1. connPc[d] \notin {"none", "handshake"}
    BY <1>1, <1>2 DEF ServerInv, Fresh
  <2>2. InOrder(d)
    BY <1>1, <2>1 DEF ServerInv, AnswersInOrder, InOrder, Owes
  <2>3. (connPc'[d] = "dispatch") <=> (connPc[d] = "dispatch")
    BY <1>2
  <2>4. QED
    BY <1>1, <2>2, <2>3 DEF InOrder, Owes
<1>8. QED
  BY <1>3, <1>4, <1>5, <1>6, <1>7 DEF ServerInv

\* A connection that is upgraded has still to show its handshake.
LEMMA UpgradeKeeps == ASSUME ServerInv, NEW c \in Conns, Upgrade(c) PROVE ServerInv'
<1>1. /\ connPc[c] = "none" /\ Goto(c, "handshake") /\ registry' = registry
      /\ UNCHANGED <<params, requested, answered, serverVars>>
  BY DEF Upgrade
<1>2. registry' \subseteq Conns
  BY <1>1 DEF ServerInv, ServerTypeOK
<1>3. registry' = {d \in Conns : connPc'[d] \in {"loop", "dispatch", "unregister"}}
  BY <1>1 DEF ServerInv, ServerTypeOK, Present, Goto
<1>4. QED
  BY <1>1, <1>2, <1>3, TaskGoesOn DEF ConnPlaces

\* A connection enters the registry as its loop begins.
LEMMA RegisterKeeps == ASSUME ServerInv, NEW c \in Conns, Register(c) PROVE ServerInv'
<1>1. /\ connPc[c] = "register" /\ Goto(c, "loop") /\ registry' = registry \cup {c}
      /\ UNCHANGED <<params, requested, answered, serverVars>>
  BY DEF Register
<1>2. registry' \subseteq Conns
  BY <1>1 DEF ServerInv, ServerTypeOK
<1>3. registry' = {d \in Conns : connPc'[d] \in {"loop", "dispatch", "unregister"}}
  BY <1>1 DEF ServerInv, ServerTypeOK, Present, Goto
<1>4. QED
  BY <1>1, <1>2, <1>3, TaskGoesOn DEF ConnPlaces

\* It leaves the registry as its loop is over.
LEMMA UnregisterKeeps == ASSUME ServerInv, NEW c \in Conns, Unregister(c) PROVE ServerInv'
<1>1. /\ connPc[c] = "unregister" /\ Goto(c, "ended") /\ registry' = registry \ {c}
      /\ UNCHANGED <<params, requested, answered, serverVars>>
  BY DEF Unregister
<1>2. registry' \subseteq Conns
  BY <1>1 DEF ServerInv, ServerTypeOK
<1>3. registry' = {d \in Conns : connPc'[d] \in {"loop", "dispatch", "unregister"}}
  BY <1>1 DEF ServerInv, ServerTypeOK, Present, Goto
<1>4. QED
  BY <1>1, <1>2, <1>3, TaskGoesOn DEF ConnPlaces

\* Both lead out of the handshake, or into the clean-up.
LEMMA LeaveKeeps == ASSUME ServerInv, NEW c \in Conns, Gone(c) \/ Away(c) PROVE ServerInv'
<1>1. /\ connPc[c] \in {"handshake", "loop"} /\ registry' = registry
      /\ Goto(c, IF connPc[c] = "loop" THEN "unregister" ELSE "ended")
      /\ UNCHANGED <<params, requested, answered, serverVars>>
  BY DEF Gone, Away
<1>2. registry' \subseteq Conns
  BY <1>1 DEF ServerInv, ServerTypeOK
<1>3. CASE connPc[c] = "loop"
  <2>1. Goto(c, "unregister")
    BY <1>1, <1>3
  <2>2. registry' = {d \in Conns : connPc'[d] \in {"loop", "dispatch", "unregister"}}
    BY <1>1, <1>3, <2>1 DEF ServerInv, ServerTypeOK, Present, Goto
  <2>3. QED
    BY <1>1, <1>2, <1>3, <2>1, <2>2, TaskGoesOn DEF ConnPlaces
<1>4. CASE connPc[c] = "handshake"
  <2>1. Goto(c, "ended")
    BY <1>1, <1>4
  <2>2. registry' = {d \in Conns : connPc'[d] \in {"loop", "dispatch", "unregister"}}
    BY <1>1, <1>4, <2>1 DEF ServerInv, ServerTypeOK, Present, Goto
  <2>3. QED
    BY <1>1, <1>2, <1>4, <2>1, <2>2, TaskGoesOn DEF ConnPlaces
<1>5. QED
  BY <1>1, <1>3, <1>4

\* The handshake leaves nothing to answer.
LEMMA AcceptKeeps == ASSUME ServerInv, NEW c \in Conns, NEW p \in Params, Accept(c, p) PROVE ServerInv'
<1>1. /\ connPc[c] = "handshake" /\ HandleConnect(p)
      /\ params' = [params EXCEPT ![c] = p] /\ connPc' = [connPc EXCEPT ![c] = "register"]
      /\ UNCHANGED <<requested, answered, registry, authMode, serverTask, closing, permit, closer>>
  BY DEF Accept, Goto, serverVars
<1>2. /\ connPc \in [Conns -> ConnPlaces] /\ params \in [Conns -> Params \cup {NoParams}]
      /\ p \in ConnectParams
  BY ServerAssumption DEF ServerInv, ServerTypeOK, ServerAssumption
<1>3. /\ connPc'[c] = "register" /\ params'[c] = p
      /\ \A d \in Conns \ {c} : connPc'[d] = connPc[d] /\ params'[d] = params[d]
  BY <1>1, <1>2
<1>4. ServerTypeOK'
  BY <1>1, <1>2 DEF ServerInv, ServerTypeOK, ConnPlaces
<1>5. Fresh' /\ Present'
  BY <1>1, <1>3 DEF ServerInv, Fresh, Present
<1>6. LetIn(p)'
  BY <1>1, <1>2, Negotiated DEF LetIn
<1>7. Admitted'
  BY <1>1, <1>3, <1>6 DEF ServerInv, Admitted, LetIn
<1>8. AnswersInOrder'
  <2> SUFFICES ASSUME NEW d \in Conns, connPc'[d] \notin {"none", "handshake"},
                      params'[d] # NoParams
               PROVE  InOrder(d)'
    BY DEF AnswersInOrder, InOrder, Owes
  <2>1. CASE d = c
    <3>1. requested'[d] = <<>> /\ answered'[d] = <<>> /\ connPc'[d] = "register"
      BY <1>1, <1>3, <2>1 DEF ServerInv, Fresh
    <3>2. QED
      BY <3>1 DEF InOrder, Owes
  <2>2. CASE d # c
    <3>1. InOrder(d)
      BY <1>3, <2>2 DEF ServerInv, AnswersInOrder, InOrder, Owes
    <3>2. QED
      BY <1>1, <1>3, <2>2, <3>1 DEF InOrder, Owes
  <2>3. QED
    BY <2>1, <2>2
<1>9. QED
  BY <1>4, <1>5, <1>7, <1>8 DEF ServerInv

\* A refused handshake is answered, and the connection closed.
LEMMA RefuseKeeps == ASSUME ServerInv, NEW c \in Conns, NEW p, Refuse(c, p) PROVE ServerInv'
<1> DEFINE error == [id |-> "handshake", code |-> "INVALID_REQUEST"]
<1>1. /\ connPc[c] = "handshake" /\ connPc' = [connPc EXCEPT ![c] = "ended"]
      /\ answered' = [answered EXCEPT ![c] = Append(answered[c], error)]
      /\ UNCHANGED <<params, requested, registry, authMode, serverTask, closing, permit, closer>>
  BY DEF Refuse, Goto, Say, serverVars
<1>2. /\ connPc \in [Conns -> ConnPlaces] /\ answered \in [Conns -> Seq(ResponseFrame)]
      /\ error \in ResponseFrame
  BY DEF ServerInv, ServerTypeOK, ResponseFrame
<1> HIDE DEF error
<1>3. /\ connPc'[c] = "ended" /\ params'[c] = NoParams
      /\ \A d \in Conns \ {c} : connPc'[d] = connPc[d] /\ answered'[d] = answered[d]
  BY <1>1, <1>2 DEF ServerInv, Fresh
<1>4. ServerTypeOK'
  <2>1. Append(answered[c], error) \in Seq(ResponseFrame)
    BY <1>2, AppendedPlaces
  <2>2. answered' \in [Conns -> Seq(ResponseFrame)]
    BY <1>1, <1>2, <2>1
  <2>3. QED
    BY <1>1, <1>2, <2>2 DEF ServerInv, ServerTypeOK, ConnPlaces
<1>5. Fresh' /\ Admitted' /\ Present'
  BY <1>1, <1>3 DEF ServerInv, Fresh, Admitted, LetIn, Present
<1>6. AnswersInOrder'
  <2> SUFFICES ASSUME NEW d \in Conns, connPc'[d] \notin {"none", "handshake"},
                      params'[d] # NoParams
               PROVE  InOrder(d)'
    BY DEF AnswersInOrder, InOrder, Owes
  <2>1. d # c
    BY <1>3
  <2>2. InOrder(d)
    BY <1>1, <1>3, <2>1 DEF ServerInv, AnswersInOrder, InOrder, Owes
  <2>3. QED
    BY <1>1, <1>3, <2>1, <2>2 DEF InOrder, Owes
<1>7. QED
  BY <1>4, <1>5, <1>6 DEF ServerInv

\* One request, one answer: what is read, or answered, goes to the end of its
\* connection's sequence.
LEMMA ConversationKeeps ==
  ASSUME ServerInv, NEW c \in Conns, NEW label \in {"loop", "dispatch"},
         connPc[c] \in {"loop", "dispatch"}, connPc' = [connPc EXCEPT ![c] = label],
         requested' \in [Conns -> Seq(ReadFrame)], answered' \in [Conns -> Seq(ResponseFrame)],
         \A d \in Conns \ {c} : requested'[d] = requested[d] /\ answered'[d] = answered[d],
         params[c] # NoParams => InOrder(c)',
         UNCHANGED <<params, registry, serverVars>>
  PROVE  ServerInv'
<1>1. /\ connPc \in [Conns -> ConnPlaces]
      /\ UNCHANGED <<params, registry, authMode, serverTask, closing, permit, closer>>
  BY DEF ServerInv, ServerTypeOK, serverVars
<1>2. connPc'[c] = label /\ \A d \in Conns \ {c} : connPc'[d] = connPc[d]
  BY <1>1
<1>3. ServerTypeOK'
  BY <1>1 DEF ServerInv, ServerTypeOK, ConnPlaces
<1>4. Fresh' /\ Admitted' /\ Present'
  <2>1. Fresh'
    BY <1>1, <1>2 DEF ServerInv, Fresh
  <2>2. Admitted'
    BY <1>1, <1>2 DEF ServerInv, Admitted, LetIn
  <2>3. \A d \in Conns : connPc'[d] \in {"loop", "dispatch", "unregister"}
                         <=> connPc[d] \in {"loop", "dispatch", "unregister"}
    BY <1>2
  <2>4. Present'
    BY <1>1, <2>3 DEF ServerInv, Present
  <2> QED BY <2>1, <2>2, <2>4
<1>5. AnswersInOrder'
  <2> SUFFICES ASSUME NEW d \in Conns, connPc'[d] \notin {"none", "handshake"},
                      params'[d] # NoParams
               PROVE  InOrder(d)'
    BY DEF AnswersInOrder, InOrder, Owes
  <2>1. CASE d = c
    BY <1>1, <2>1
  <2>2. CASE d # c
    <3>0. connPc[d] = connPc'[d] /\ params[d] # NoParams
      BY <1>1, <1>2, <2>2
    <3>1. InOrder(d)
      BY <3>0 DEF ServerInv, AnswersInOrder, InOrder, Owes
    <3>2. QED
      BY <1>1, <1>2, <2>2, <3>1 DEF InOrder, Owes
  <2>3. QED
    BY <2>1, <2>2
<1>6. QED
  BY <1>3, <1>4, <1>5 DEF ServerInv

\* The end of a conversation in which one more was read and answered.
LEMMA AnsweredAtOnce ==
  ASSUME ServerTypeOK, NEW c \in Conns, connPc[c] = "loop", params[c] # NoParams => InOrder(c),
         NEW r \in ReadFrame, NEW a \in ResponseFrame, a.id = r.id,
         connPc'[c] = "loop",
         requested' = [requested EXCEPT ![c] = Append(requested[c], r)],
         answered' = [answered EXCEPT ![c] = Append(answered[c], a)]
  PROVE  params[c] # NoParams => InOrder(c)'
<1> SUFFICES ASSUME params[c] # NoParams PROVE InOrder(c)'
  OBVIOUS
<1> DEFINE q == requested[c]  s == answered[c]
<1>1. q \in Seq(ReadFrame) /\ s \in Seq(ResponseFrame)
  BY DEF ServerTypeOK
<1>2. requested'[c] = Append(q, r) /\ answered'[c] = Append(s, a)
  BY DEF ServerTypeOK
<1>3. Len(s) = Len(q) /\ \A k \in DOMAIN s : s[k].id = q[k].id
  BY <1>1, LenProperties DEF InOrder, Owes
<1> HIDE DEF q, s
<1>4. /\ Len(q) \in Nat /\ Len(Append(q, r)) = Len(q) + 1
      /\ DOMAIN q = 1..Len(q) /\ Append(q, r)[Len(q) + 1] = r
      /\ \A i \in DOMAIN q : Append(q, r)[i] = q[i]
  BY <1>1, AppendedPlaces
<1>5. /\ Len(Append(s, a)) = Len(s) + 1 /\ DOMAIN s = 1..Len(s)
      /\ DOMAIN Append(s, a) = 1..(Len(s) + 1) /\ Append(s, a)[Len(s) + 1] = a
      /\ \A i \in DOMAIN s : Append(s, a)[i] = s[i]
  BY <1>1, AppendedPlaces
<1>6. \A k \in DOMAIN Append(s, a) : k \in DOMAIN s \/ k = Len(s) + 1
  BY <1>3, <1>4, <1>5
<1>7. \A k \in DOMAIN Append(s, a) : Append(s, a)[k].id = Append(q, r)[k].id
  BY <1>3, <1>4, <1>5, <1>6
<1>8. QED
  BY <1>2, <1>3, <1>4, <1>5, <1>7 DEF InOrder, Owes

\* Text that is no request is answered at once.
LEMMA ReadInvalidKeeps == ASSUME ServerInv, NEW c \in Conns, ReadInvalid(c) PROVE ServerInv'
<1> DEFINE r == NoRequest
           a == [id |-> NoRequest.id, code |-> "INVALID_REQUEST"]
<1>1. /\ connPc[c] = "loop" /\ connPc' = connPc
      /\ requested' = [requested EXCEPT ![c] = Append(requested[c], r)]
      /\ answered' = [answered EXCEPT ![c] = Append(answered[c], a)]
      /\ UNCHANGED <<params, registry, serverVars>>
  BY DEF ReadInvalid, Say
<1>2. r \in ReadFrame /\ a \in ResponseFrame /\ a.id = r.id
  BY DEF ReadFrame, ResponseFrame
<1> HIDE DEF r, a
<1>3. /\ ServerTypeOK /\ connPc \in [Conns -> ConnPlaces]
      /\ requested \in [Conns -> Seq(ReadFrame)] /\ answered \in [Conns -> Seq(ResponseFrame)]
      /\ params[c] # NoParams => InOrder(c)
  BY <1>1 DEF ServerInv, ServerTypeOK, AnswersInOrder, InOrder, Owes
<1>4. /\ requested' \in [Conns -> Seq(ReadFrame)] /\ answered' \in [Conns -> Seq(ResponseFrame)]
      /\ \A d \in Conns \ {c} : requested'[d] = requested[d] /\ answered'[d] = answered[d]
  <2>1. Append(requested[c], r) \in Seq(ReadFrame) /\ Append(answered[c], a) \in Seq(ResponseFrame)
    BY <1>2, <1>3, AppendedPlaces
  <2>2. QED
    BY <1>1, <1>3, <2>1
<1>5. params[c] # NoParams => InOrder(c)'
  BY <1>1, <1>2, <1>3, AnsweredAtOnce
<1>6. connPc' = [connPc EXCEPT ![c] = "loop"]
  BY <1>1, <1>3
<1>7. QED
  BY <1>1, <1>4, <1>5, <1>6, ConversationKeeps

\* A request that is read is owed its answer.
LEMMA ReadKeeps == ASSUME ServerInv, NEW c \in Conns, NEW r \in Requests, Read(c, r) PROVE ServerInv'
<1> DEFINE a == [id |-> r.id, code |-> "INVALID_REQUEST"]
<1>1. /\ connPc[c] = "loop"
      /\ requested' = [requested EXCEPT ![c] = Append(requested[c], r)]
      /\ UNCHANGED <<params, registry, serverVars>>
  BY DEF Read
<1>2. r \in ReadFrame /\ a \in ResponseFrame /\ a.id = r.id
  BY DEF ReadFrame, ResponseFrame
<1>3. /\ ServerTypeOK /\ connPc \in [Conns -> ConnPlaces]
      /\ requested \in [Conns -> Seq(ReadFrame)] /\ answered \in [Conns -> Seq(ResponseFrame)]
      /\ params[c] # NoParams => InOrder(c)
  BY <1>1 DEF ServerInv, ServerTypeOK, AnswersInOrder, InOrder, Owes
<1>4. /\ requested' \in [Conns -> Seq(ReadFrame)]
      /\ requested'[c] = Append(requested[c], r)
      /\ \A d \in Conns \ {c} : requested'[d] = requested[d]
  <2>1. Append(requested[c], r) \in Seq(ReadFrame)
    BY <1>2, <1>3, AppendedPlaces
  <2>2. QED
    BY <1>1, <1>3, <2>1
<1>5. CASE r.method \in Builtin
  <2>1. connPc' = [connPc EXCEPT ![c] = "dispatch"] /\ answered' = answered
    BY <1>5 DEF Read, Goto
  <2>2. ASSUME params[c] # NoParams PROVE InOrder(c)'
    <3> DEFINE q == requested[c]  s == answered[c]
    <3>1. q \in Seq(ReadFrame) /\ s \in Seq(ResponseFrame)
      BY <1>3
    <3>2. Len(s) = Len(q) /\ \A k \in DOMAIN s : s[k].id = q[k].id
      BY <1>1, <1>3, <2>2, <3>1, LenProperties DEF InOrder, Owes
    <3>3. connPc'[c] = "dispatch" /\ requested'[c] = Append(q, r) /\ answered'[c] = s
      BY <1>3, <1>4, <2>1
    <3> HIDE DEF q, s
    <3>4. /\ Len(q) \in Nat /\ Len(Append(q, r)) = Len(q) + 1 /\ DOMAIN q = 1..Len(q)
          /\ \A i \in DOMAIN q : Append(q, r)[i] = q[i]
      BY <1>2, <3>1, AppendedPlaces
    <3>5. DOMAIN s = DOMAIN q
      BY <3>1, <3>2, <3>4, LenProperties
    <3>6. QED
      BY <3>2, <3>3, <3>4, <3>5 DEF InOrder, Owes
  <2>3. QED
    BY <1>1, <1>3, <1>4, <2>1, <2>2, ConversationKeeps
<1>6. CASE r.method \notin Builtin
  <2>1. /\ connPc' = connPc /\ connPc' = [connPc EXCEPT ![c] = "loop"]
        /\ answered' = [answered EXCEPT ![c] = Append(answered[c], a)]
    BY <1>1, <1>3, <1>6 DEF Read, Say
  <2> HIDE DEF a
  <2>2. /\ answered' \in [Conns -> Seq(ResponseFrame)]
        /\ \A d \in Conns \ {c} : answered'[d] = answered[d]
    <3>1. Append(answered[c], a) \in Seq(ResponseFrame)
      BY <1>2, <1>3, AppendedPlaces
    <3>2. QED
      BY <1>3, <2>1, <3>1
  <2>3. params[c] # NoParams => InOrder(c)'
    BY <1>1, <1>2, <1>3, <2>1, AnsweredAtOnce
  <2>4. QED
    BY <1>1, <1>4, <2>1, <2>2, <2>3, ConversationKeeps
<1>7. QED
  BY <1>5, <1>6

\* Who was let in has shown a handshake.
LEMMA LetInShows == ASSUME NEW p, LetIn(p) PROVE p # NoParams
BY DEF LetIn, NoParams, MinProtocol

\* The answer of the dispatched request is sent, with its id.
LEMMA DispatchedKeeps == ASSUME ServerInv, NEW c \in Conns, Dispatched(c) PROVE ServerInv'
<1> DEFINE q == requested[c]  s == answered[c]
<1>1. /\ connPc[c] = "dispatch" /\ connPc' = [connPc EXCEPT ![c] = "loop"]
      /\ requested' = requested /\ UNCHANGED <<params, registry, serverVars>>
  BY DEF Dispatched, Goto
<1>2. PICK code \in Outcomes(Current(c)) :
         answered' = [answered EXCEPT ![c] = Append(s, [id |-> Current(c).id, code |-> code])]
  BY DEF Dispatched, Say
<1> DEFINE a == [id |-> Current(c).id, code |-> code]
<1>3. /\ connPc \in [Conns -> ConnPlaces]
      /\ requested \in [Conns -> Seq(ReadFrame)] /\ answered \in [Conns -> Seq(ResponseFrame)]
      /\ q \in Seq(ReadFrame) /\ s \in Seq(ResponseFrame)
  BY DEF ServerInv, ServerTypeOK
<1>4. Len(s) = Len(q) - 1 /\ \A k \in DOMAIN s : s[k].id = q[k].id
  <2>1. params[c] # NoParams
    BY <1>1, LetInShows DEF ServerInv, Admitted
  <2>2. QED
    BY <1>1, <2>1 DEF ServerInv, AnswersInOrder
<1>5. /\ Len(q) \in Nat /\ Len(s) \in Nat /\ DOMAIN q = 1..Len(q) /\ DOMAIN s = 1..Len(s)
  BY <1>3, LenProperties
<1>6. Len(q) \in DOMAIN q /\ Current(c) = q[Len(q)]
  BY <1>4, <1>5 DEF Current
<1>7. a \in ResponseFrame /\ a.id = q[Len(q)].id
  <2>1. Current(c) \in ReadFrame
    BY <1>3, <1>5, <1>6, ElementOfSeq
  <2>2. QED
    BY <1>6, <2>1 DEF ResponseFrame, Outcomes
<1> HIDE DEF a, q, s
<1>8. /\ Append(s, a) \in Seq(ResponseFrame) /\ Len(Append(s, a)) = Len(s) + 1
      /\ DOMAIN Append(s, a) = 1..(Len(s) + 1) /\ Append(s, a)[Len(s) + 1] = a
      /\ \A i \in DOMAIN s : Append(s, a)[i] = s[i]
  BY <1>3, <1>7, AppendedPlaces
<1>9. /\ answered'[c] = Append(s, a) /\ requested'[c] = q /\ connPc'[c] = "loop"
      /\ \A d \in Conns \ {c} : requested'[d] = requested[d] /\ answered'[d] = answered[d]
      /\ requested' \in [Conns -> Seq(ReadFrame)] /\ answered' \in [Conns -> Seq(ResponseFrame)]
  BY <1>1, <1>2, <1>3, <1>8 DEF a, q
<1>10. InOrder(c)'
  <2>1. \A k \in DOMAIN Append(s, a) : k \in DOMAIN s \/ k = Len(q)
    BY <1>4, <1>5, <1>8
  <2>2. Append(s, a)[Len(q)] = a
    BY <1>4, <1>5, <1>8
  <2>3. \A k \in DOMAIN Append(s, a) : Append(s, a)[k].id = q[k].id
    BY <1>4, <1>7, <1>8, <2>1, <2>2
  <2>4. Len(Append(s, a)) = Len(q) - 0
    BY <1>4, <1>5, <1>8
  <2>5. QED
    BY <1>9, <2>3, <2>4 DEF InOrder, Owes
<1>11. QED
  BY <1>1, <1>9, <1>10, ConversationKeeps

\* Every step keeps it; the server's own steps concern no connection.
LEMMA ServerNextInv == ServerInv /\ [ServerNext]_gatewayVars => ServerInv'
<1> SUFFICES ASSUME ServerInv, [ServerNext]_gatewayVars PROVE ServerInv'
  OBVIOUS
<1>1. ASSUME NEW c \in Conns, TaskStep(c) PROVE ServerInv'
  BY <1>1, RegisterKeeps, UnregisterKeeps, DispatchedKeeps, LeaveKeeps DEF TaskStep
<1>2. ASSUME NEW c \in Conns, Upgrade(c) \/ ReadInvalid(c) \/ Gone(c) PROVE ServerInv'
  BY <1>2, UpgradeKeeps, ReadInvalidKeeps, LeaveKeeps
<1>3. ASSUME ServerFails \/ ServerStep \/ \E k \in Closers : Close(k) PROVE ServerInv'
  <2>1. ServerTypeOK'
    BY <1>3 DEF ServerFails, ServerStep, ServerSeesToken, Stopped, CloseReturns, Close, connVars,
                ServerInv, ServerTypeOK
  <2>2. UNCHANGED <<authMode, connVars, registry>>
    BY <1>3 DEF ServerFails, ServerStep, ServerSeesToken, Stopped, CloseReturns, Close
  <2>3. QED
    BY <2>1, <2>2 DEF connVars, ServerInv, Fresh, Admitted, LetIn, Present, AnswersInOrder
<1>4. CASE UNCHANGED gatewayVars
  BY <1>4 DEF gatewayVars, serverVars, connVars, ServerInv, ServerTypeOK, Fresh, Admitted, LetIn,
              Present, AnswersInOrder
<1>5. QED
  BY <1>1, <1>2, <1>3, <1>4, AcceptKeeps, RefuseKeeps, ReadKeeps DEF ServerNext

\* Handshakes, registry and answers fit together in every behaviour of the
\* server (handle_socket and close).
THEOREM ServerInvariance == ServerSpec => []ServerInv
BY ServerInitInv, ServerNextInv, PTL DEF ServerSpec

\* The registry names the connections whose loop runs, each let in, and each
\* is answered request by request, for any clients and however the server ends.
THEOREM ConnectionsAlwaysHold == ServerSpec => []ConnectionsHold
<1>1. ServerInv => ConnectionsHold
  <2> SUFFICES ASSUME ServerInv PROVE ConnectionsHold
    OBVIOUS
  <2>1. \A c \in registry : LetIn(params[c])
    BY DEF ServerInv, Present, Admitted
  <2>2. PresenceIsLive
    BY <2>1 DEF ServerInv, Present, PresenceIsLive, LetIn
  <2>3. QED
    BY <2>2 DEF ConnectionsHold, ServerInv
<1>2. QED
  BY <1>1, ServerInvariance, PTL

-----------------------------------------------------------------------------
(* The channel manager, for any calls of its operations and any number of  *)
(* tokens. What needs an argument is that the counter of restarts stays in *)
(* its range: every attempt to run the channel takes a token of its own    *)
(* and counts one restart at most, when it is over. So restarts and the    *)
(* attempts that are not over (Attempting) are together at most as many as *)
(* the tokens that were made.                                              *)

Attempting == {t \in AccountTasks : tpc[t] \in {"top", "running", "judge", "refresh"}}

\* Every attempt has a token, and so has the entry in the map, which is there
\* while stop_channel awaits its task.
TokensMade ==
  /\ acct.status # "absent" => acct.token \in 1..tokens
  /\ \A c \in Stops : pc[c] = "await" => acct.status # "absent"
  /\ \A t \in AccountTasks : tpc[t] # "none" => ctx[t] \in 1..tokens
  /\ \A c \in Starts : pc[c] = "store" => tpc[c] # "none"

RestartsCounted == acct.restarts + Cardinality(Attempting) <= tokens

ManagerInv == TypeOK /\ TokensMade /\ TokensAreOwn /\ RestartsCounted

\* The tasks are finitely many, and so are the attempts.
LEMMA AttemptsFinite ==
  ASSUME ManagerAssumption
  PROVE  /\ IsFiniteSet(AccountTasks)
         /\ \A S \in SUBSET AccountTasks : IsFiniteSet(S) /\ Cardinality(S) \in Nat
<1>1. AccountTasks \subseteq Calls
  BY DEF AccountTasks, Calls
<1> QED BY <1>1, FS_Subset, FS_CardinalityType DEF ManagerAssumption

\* An attempt more or less.
LEMMA AttemptsChange ==
  ASSUME ManagerAssumption, NEW S \in SUBSET AccountTasks, NEW t \in AccountTasks
  PROVE  /\ Cardinality(S \cup {t}) <= Cardinality(S) + 1
         /\ t \in S => Cardinality(S \ {t}) = Cardinality(S) - 1
BY AttemptsFinite, FS_AddElement, FS_RemoveElement

\* The manager that was just made.
LEMMA ManagerInit == ASSUME ManagerAssumption, Init PROVE ManagerInv
<1>1. /\ acct = [status |-> "absent", token |-> 0, handle |-> NoTask, restarts |-> 0, manual |-> FALSE]
      /\ down = FALSE /\ tokens = 0 /\ fired = {}
      /\ pc = [c \in Calls |-> "idle"] /\ mine = [c \in Calls |-> NoTask]
      /\ tpc = [t \in AccountTasks |-> "none"] /\ ctx = [t \in AccountTasks |-> 0]
      /\ ended = [t \in AccountTasks |-> "ok"] /\ MaxTokens \in Nat
  BY DEF Init, Absent, ManagerAssumption
<1>2. acct \in [status : Statuses, token : 0..MaxTokens, handle : AccountTasks \cup {NoTask},
               restarts : 0..MaxTokens, manual : BOOLEAN]
  BY <1>1 DEF Statuses
<1>3. TypeOK
  BY <1>1, <1>2 DEF TypeOK
<1>4. Cardinality(Attempting) = 0
  <2>1. Attempting = {}
    BY <1>1 DEF Attempting
  <2> QED BY <2>1, FS_EmptySet
<1>5. RestartsCounted
  BY <1>1, <1>4 DEF RestartsCounted
<1>6. TokensMade /\ TokensAreOwn
  BY <1>1 DEF TokensMade, TokensAreOwn, AccountTasks, Calls
<1> QED BY <1>3, <1>5, <1>6 DEF ManagerInv

\* What the calls do to the entry and to their places leaves the tasks alone.
LEMMA CallsKeep ==
  ASSUME ManagerAssumption, ManagerInv, UNCHANGED <<tokens, taskVars>>,
         acct'.restarts <= acct.restarts, TypeOK',
         acct'.status # "absent" => acct'.token \in 1..tokens,
         \A c \in Starts : pc'[c] = "store" => pc[c] = "store",
         \A c \in Stops : pc'[c] = "await" => acct'.status # "absent"
  PROVE  ManagerInv'
<1>1. Attempting' = Attempting
  BY DEF Attempting, taskVars
<1>2. RestartsCounted'
  <2>1. Cardinality(Attempting) \in Nat
    BY AttemptsFinite DEF Attempting
  <2> QED BY <1>1, <2>1 DEF ManagerInv, RestartsCounted, TypeOK
<1>3. TokensMade' /\ TokensAreOwn'
  BY DEF ManagerInv, TokensMade, TokensAreOwn, taskVars
<1> QED BY <1>2, <1>3 DEF ManagerInv

\* start_channel: its check, the token for the task, and the entry.
LEMMA StartKeeps ==
  ASSUME ManagerAssumption, ManagerInv, NEW c \in Starts, StartCheck(c) \/ StartSpawn(c) \/ StartStore(c)
  PROVE  ManagerInv'
<1>1. TypeOK /\ TokensMade
  BY DEF ManagerInv
<1>2. c \in Calls /\ c \in AccountTasks
  BY DEF Calls, AccountTasks
<1>3. \A label : CallAt(c, label) /\ label # "store" /\ label # "await" =>
        /\ \A d \in Starts : pc'[d] = "store" => pc[d] = "store"
        /\ \A d \in Stops : pc'[d] = "await" => pc[d] = "await"
  BY <1>1 DEF TypeOK, CallAt, Calls
<1>4. \A label \in {"spawn", "store", "returned"} : CallAt(c, label) =>
        pc' \in [Calls -> {"idle", "spawn", "store", "take", "await", "returned"}]
  BY <1>1 DEF TypeOK, CallAt
<1>5. CASE StartCheck(c)
  <2>1. PICK label \in {"returned", "spawn"} : CallAt(c, label)
    BY <1>5 DEF StartCheck
  <2>2. UNCHANGED <<acct, down, tokens, fired, mine, taskVars>>
    BY <1>5 DEF StartCheck
  <2>3. TypeOK'
    BY <1>1, <1>4, <2>1, <2>2 DEF TypeOK, taskVars
  <2>4. acct'.restarts <= acct.restarts
    <3>1. acct.restarts \in Nat
      BY <1>1 DEF TypeOK
    <3> QED BY <2>2, <3>1
  <2> QED BY <1>1, <1>3, <2>1, <2>2, <2>3, <2>4, CallsKeep DEF TokensMade
<1>6. CASE StartSpawn(c)
  <2>1. /\ tokens' = tokens + 1 /\ tokens < MaxTokens /\ tokens \in Nat /\ tokens' \in 0..MaxTokens
        /\ ctx' = [ctx EXCEPT ![c] = tokens + 1] /\ tpc' = [tpc EXCEPT ![c] = "top"]
        /\ CallAt(c, "store") /\ UNCHANGED <<acct, down, fired, mine, ended>>
    BY <1>1, <1>6 DEF TypeOK, StartSpawn, TaskAt, ManagerAssumption
  <2>2. /\ ctx'[c] = tokens + 1 /\ tpc'[c] = "top"
        /\ \A t \in AccountTasks \ {c} : tpc'[t] = tpc[t] /\ ctx'[t] = ctx[t]
    BY <1>1, <1>2, <2>1 DEF TypeOK
  <2>3. TypeOK'
    <3>1. ctx' \in [AccountTasks -> 0..MaxTokens]
      BY <1>1, <2>1 DEF TypeOK
    <3>2. tpc' \in [AccountTasks -> {"none", "top", "running", "judge", "backoff", "refresh", "ended"}]
      BY <1>1, <2>1 DEF TypeOK
    <3> QED BY <1>1, <1>4, <2>1, <3>1, <3>2 DEF TypeOK
  <2>4. TokensMade'
    <3>1. \A d \in Calls \ {c} : pc'[d] = pc[d]
      BY <1>1, <2>1 DEF TypeOK, CallAt
    <3>2. pc'[c] = "store"
      BY <1>1, <1>2, <2>1 DEF TypeOK, CallAt
    <3>3. \A k : k \in 1..tokens => k \in 1..tokens'
      BY <2>1
    <3> QED BY <1>1, <2>1, <2>2, <3>1, <3>2, <3>3 DEF TokensMade, AccountTasks, Calls
  <2>5. TokensAreOwn'
    BY <1>1, <2>1, <2>2 DEF ManagerInv, TokensMade, TokensAreOwn
  <2>6. RestartsCounted'
    <3>1. Attempting' = Attempting \cup {c}
      BY <1>2, <2>2 DEF Attempting
    <3>2. Attempting \in SUBSET AccountTasks
      BY DEF Attempting
    <3>3. Cardinality(Attempting') <= Cardinality(Attempting) + 1
      BY <1>2, <3>1, <3>2, AttemptsChange
    <3>4. Cardinality(Attempting) \in Nat /\ Cardinality(Attempting') \in Nat
      BY AttemptsFinite DEF Attempting
    <3>5. acct.restarts \in Nat
      BY <1>1 DEF TypeOK
    <3> QED BY <2>1, <3>3, <3>4, <3>5 DEF ManagerInv, RestartsCounted
  <2> QED BY <2>3, <2>4, <2>5, <2>6 DEF ManagerInv
<1>7. CASE StartStore(c)
  <2>1. ctx[c] \in 1..tokens
    BY <1>1, <1>2, <1>7 DEF TokensMade, StartStore
  <2>2. PICK s, k, h, n, m :
          /\ acct = [status |-> s, token |-> k, handle |-> h, restarts |-> n, manual |-> m]
          /\ s \in Statuses /\ k \in 0..MaxTokens /\ n \in 0..MaxTokens
    BY <1>1 DEF TypeOK
  <2>3. PICK k2 \in {k, ctx[c]}, n2 \in {n, 0} :
          /\ acct' = [status |-> "starting", token |-> k2, handle |-> c, restarts |-> n2, manual |-> FALSE]
          /\ s = "absent" => k2 = ctx[c]
    BY <1>7, <2>2 DEF StartStore, Known, Absent
  <2>4. k2 \in 1..tokens
    BY <1>1, <2>1, <2>2, <2>3 DEF TokensMade
  <2>5. acct' \in [status : Statuses, token : 0..MaxTokens, handle : AccountTasks \cup {NoTask},
                   restarts : 0..MaxTokens, manual : BOOLEAN]
    <3>1. tokens \in 0..MaxTokens /\ MaxTokens \in Nat /\ "starting" \in Statuses
      BY <1>1 DEF TypeOK, Statuses, ManagerAssumption
    <3>2. k2 \in 0..MaxTokens /\ n2 \in 0..MaxTokens
      BY <2>2, <2>3, <2>4, <3>1
    <3> QED BY <1>2, <2>3, <3>1, <3>2
  <2>6. UNCHANGED <<down, tokens, fired, mine, taskVars>> /\ CallAt(c, "returned")
    BY <1>7 DEF StartStore
  <2>7. TypeOK'
    BY <1>1, <1>4, <2>5, <2>6 DEF TypeOK, taskVars
  <2>8. acct'.restarts <= acct.restarts /\ acct'.token \in 1..tokens /\ acct'.status = "starting"
    BY <2>2, <2>3, <2>4
  <2> QED BY <1>3, <2>6, <2>7, <2>8, CallsKeep
<1> QED BY <1>5, <1>6, <1>7

\* The other calls leave the token in the entry, and may cancel it.
LEMMA CallKeeps ==
  ASSUME ManagerAssumption, ManagerInv, NEW c \in Calls,
         NEW label \in {"take", "await", "returned"}, CallAt(c, label),
         NEW status \in Statuses, status = "absent" <=> acct.status = "absent",
         NEW handle \in {acct.handle, NoTask}, NEW restarts \in {acct.restarts, 0}, NEW manual \in BOOLEAN,
         acct' = [status |-> status, token |-> acct.token, handle |-> handle,
                  restarts |-> restarts, manual |-> manual],
         c \in Stops /\ label = "await" => status # "absent",
         down' \in BOOLEAN, mine' \in {mine, [mine EXCEPT ![c] = acct.handle]},
         fired' = fired \/ (acct.status # "absent" /\ fired' = fired \cup {acct.token}),
         UNCHANGED <<tokens, taskVars>>
  PROVE  ManagerInv'
<1>1. TypeOK /\ TokensMade
  BY DEF ManagerInv
<1>2. PICK s, k, h, n, m :
        /\ acct = [status |-> s, token |-> k, handle |-> h, restarts |-> n, manual |-> m]
        /\ s \in Statuses /\ k \in 0..MaxTokens /\ h \in AccountTasks \cup {NoTask}
        /\ n \in 0..MaxTokens /\ m \in BOOLEAN
  BY <1>1 DEF TypeOK
<1>3. acct' \in [status : Statuses, token : 0..MaxTokens, handle : AccountTasks \cup {NoTask},
                 restarts : 0..MaxTokens, manual : BOOLEAN]
  <2>1. acct.token = k /\ handle \in {h, NoTask} /\ restarts \in {n, 0} /\ 0 \in 0..MaxTokens
    BY <1>2 DEF ManagerAssumption
  <2> QED BY <1>2, <2>1
<1>4. acct'.restarts <= acct.restarts /\ acct'.token = acct.token /\ acct'.status = status
  BY <1>2
<1>5. fired' \subseteq Tokens
  <2>1. tokens \in 0..MaxTokens /\ MaxTokens \in Nat /\ fired \subseteq 1..MaxTokens
    BY <1>1 DEF TypeOK, Tokens, ManagerAssumption
  <2>2. acct.status # "absent" => acct.token \in 1..MaxTokens
    BY <1>1, <2>1 DEF TokensMade
  <2> QED BY <2>1, <2>2 DEF Tokens
<1>6. mine' \in [Calls -> AccountTasks \cup {NoTask}]
  BY <1>1, <1>2 DEF TypeOK
<1>7. pc' \in [Calls -> {"idle", "spawn", "store", "take", "await", "returned"}]
  BY <1>1 DEF TypeOK, CallAt
<1>8. TypeOK'
  BY <1>1, <1>3, <1>5, <1>6, <1>7 DEF TypeOK, taskVars
<1>9. /\ \A d \in Starts : pc'[d] = "store" => pc[d] = "store"
      /\ \A d \in Stops : pc'[d] = "await" => acct'.status # "absent"
  BY <1>1, <1>4 DEF TypeOK, TokensMade, CallAt, Calls
<1>10. acct'.status # "absent" => acct'.token \in 1..tokens
  BY <1>1, <1>4 DEF TokensMade
<1> QED BY <1>4, <1>8, <1>9, <1>10, CallsKeep

\* stop_channel, mark_channel_logged_out, reset_restart_attempts and shutdown.
LEMMA StopsKeep ==
  ASSUME ManagerAssumption, ManagerInv, NEW c \in Calls,
         \/ c \in Stops /\ (StopMark(c) \/ StopDone(c))
         \/ MarkLoggedOut(c) \/ ResetAttempts(c)
         \/ c \in Shutdowns /\ (ShutdownCancel(c) \/ ShutdownTake(c) \/ ShutdownDone(c))
  PROVE  ManagerInv'
<1>1. TypeOK /\ TokensMade
  BY DEF ManagerInv
<1>2. PICK s, k, h, n, m :
        /\ acct = [status |-> s, token |-> k, handle |-> h, restarts |-> n, manual |-> m]
        /\ s \in Statuses /\ m \in BOOLEAN
  BY <1>1 DEF TypeOK
<1>3. {"stopping", "stopped", "logged_out"} \subseteq Statuses \ {"absent"} /\ TRUE \in BOOLEAN
  BY DEF Statuses
<1>4. down \in BOOLEAN
  BY <1>1 DEF TypeOK
<1>5. CASE StopMark(c)
  <2>1. CASE s = "absent"
    BY <1>2, <1>4, <1>5, <2>1, CallKeeps DEF StopMark, Known
  <2>2. CASE s # "absent"
    <3>1. /\ acct' = [status |-> "stopping", token |-> acct.token, handle |-> NoTask,
                      restarts |-> acct.restarts, manual |-> TRUE]
          /\ fired' = fired \cup {acct.token} /\ mine' = [mine EXCEPT ![c] = acct.handle]
          /\ CallAt(c, "await") /\ UNCHANGED <<down, tokens, taskVars>> /\ acct.status # "absent"
      BY <1>2, <1>5, <2>2 DEF StopMark, Known
    <3> QED BY <1>3, <1>4, <3>1, CallKeeps
  <2> QED BY <2>1, <2>2
<1>6. CASE c \in Stops /\ StopDone(c)
  <2>1. s # "absent"
    BY <1>1, <1>2, <1>6 DEF TokensMade, StopDone
  <2> QED BY <1>2, <1>3, <1>4, <1>6, <2>1, CallKeeps DEF StopDone
<1>7. CASE MarkLoggedOut(c)
  <2>1. CASE s = "absent"
    BY <1>2, <1>4, <1>7, <2>1, CallKeeps DEF MarkLoggedOut, Known
  <2>2. CASE s # "absent"
    <3>1. /\ acct' = [status |-> "logged_out", token |-> acct.token, handle |-> acct.handle,
                      restarts |-> acct.restarts, manual |-> TRUE]
          /\ fired' = fired \cup {acct.token} /\ CallAt(c, "returned")
          /\ UNCHANGED <<down, tokens, mine, taskVars>> /\ acct.status # "absent"
      BY <1>2, <1>7, <2>2 DEF MarkLoggedOut, Known
    <3> QED BY <1>3, <1>4, <3>1, CallKeeps
  <2> QED BY <2>1, <2>2
<1>8. CASE ResetAttempts(c)
  BY <1>2, <1>4, <1>8, CallKeeps DEF ResetAttempts
<1>9. CASE ShutdownCancel(c)
  BY <1>2, <1>9, CallKeeps DEF ShutdownCancel
<1>10. CASE c \in Shutdowns /\ ShutdownTake(c)
  <2>1. c \notin Stops
    BY <1>10 DEF ManagerAssumption
  <2>2. CASE s = "absent"
    BY <1>2, <1>4, <1>10, <2>1, <2>2, CallKeeps DEF ShutdownTake, Known
  <2>3. CASE s # "absent"
    <3>1. /\ acct' = [status |-> "stopping", token |-> acct.token, handle |-> NoTask,
                      restarts |-> acct.restarts, manual |-> acct.manual]
          /\ mine' = [mine EXCEPT ![c] = acct.handle] /\ CallAt(c, "await")
          /\ UNCHANGED <<down, tokens, fired, taskVars>>
          /\ acct.status # "absent" /\ acct.manual \in BOOLEAN
      BY <1>2, <1>10, <2>3 DEF ShutdownTake, Known
    <3> QED BY <1>3, <1>4, <2>1, <3>1, CallKeeps
  <2> QED BY <2>2, <2>3
<1>11. CASE ShutdownDone(c)
  BY <1>2, <1>3, <1>4, <1>11, CallKeeps DEF ShutdownDone, Known
<1> QED BY <1>5, <1>6, <1>7, <1>8, <1>9, <1>10, <1>11

\* A task goes on, to a place that is an attempt only where it was in one.
LEMMA TaskKeeps ==
  ASSUME ManagerAssumption, ManagerInv, NEW t \in AccountTasks, NEW label, TaskAt(t, label),
         label \in {"top", "running", "judge", "backoff", "ended"},
         label \in {"backoff", "ended"} \/ t \in Attempting,
         UNCHANGED <<down, tokens, fired, pc, mine, ctx>>,
         ended' \in [AccountTasks -> {"ok", "err"}],
         acct' = acct \/ /\ acct.status # "absent"
                         /\ acct' \in [status : Statuses \ {"absent"}, token : 1..tokens,
                                       handle : {acct.handle}, restarts : Nat, manual : {acct.manual}],
         \/ acct'.restarts = acct.restarts
         \/ (acct'.restarts = acct.restarts + 1 /\ t \in Attempting /\ label = "backoff"),
         tpc[t] # "none"
  PROVE  ManagerInv'
<1>1. TypeOK /\ TokensMade
  BY DEF ManagerInv
<1>2. /\ tpc' = [tpc EXCEPT ![t] = label] /\ tpc'[t] = label
      /\ \A u \in AccountTasks \ {t} : tpc'[u] = tpc[u]
  BY <1>1 DEF TypeOK, TaskAt
<1>3. Attempting' \in SUBSET Attempting /\ (label = "backoff" => Attempting' = Attempting \ {t})
  BY <1>2 DEF Attempting
<1>4. Attempting \in SUBSET AccountTasks /\ IsFiniteSet(Attempting) /\ Cardinality(Attempting) \in Nat
  BY AttemptsFinite DEF Attempting
<1>5. Cardinality(Attempting') \in Nat /\ Cardinality(Attempting') <= Cardinality(Attempting)
  BY <1>3, <1>4, FS_Subset, FS_CardinalityType
<1>6. t \in Attempting /\ label = "backoff" => Cardinality(Attempting') = Cardinality(Attempting) - 1
  BY <1>3, <1>4, AttemptsChange
<1>7. RestartsCounted'
  BY <1>1, <1>4, <1>5, <1>6 DEF ManagerInv, RestartsCounted, TypeOK
<1>8. acct'.restarts \in 0..MaxTokens
  <2>1. acct.restarts \in Nat /\ tokens \in 0..MaxTokens /\ MaxTokens \in Nat
    BY <1>1 DEF TypeOK, ManagerAssumption
  <2>2. acct'.restarts + Cardinality(Attempting') <= tokens
    BY <1>7 DEF RestartsCounted
  <2> QED BY <1>5, <2>1, <2>2
<1>9. TypeOK'
  <2>1. acct' \in [status : Statuses, token : 0..MaxTokens, handle : AccountTasks \cup {NoTask},
                   restarts : 0..MaxTokens, manual : BOOLEAN]
    BY <1>1, <1>8 DEF TypeOK, ManagerAssumption
  <2> QED BY <1>1, <1>2, <2>1 DEF TypeOK
<1>10. TokensMade' /\ TokensAreOwn'
  BY <1>1, <1>2 DEF ManagerInv, TokensMade, TokensAreOwn, AccountTasks
<1> QED BY <1>7, <1>9, <1>10 DEF ManagerInv

\* The loop of an account's task, and its adapter.
LEMMA LoopKeeps ==
  ASSUME ManagerAssumption, ManagerInv, NEW t \in AccountTasks, LoopStep(t) \/ AdapterEnds(t)
  PROVE  ManagerInv'
<1>1. TypeOK /\ TokensMade
  BY DEF ManagerInv
<1>2. CASE LoopTop(t)
  <2>1. t \in Attempting /\ tpc[t] # "none"
    BY <1>2 DEF LoopTop, Attempting
  <2>2. acct' = acct \/ /\ acct.status # "absent"
                        /\ acct' \in [status : Statuses \ {"absent"}, token : 1..tokens,
                                      handle : {acct.handle}, restarts : {acct.restarts}, manual : {acct.manual}]
    BY <1>1, <1>2 DEF LoopTop, Known, TypeOK, TokensMade, Statuses
  <2> QED BY <1>1, <1>2, <2>1, <2>2, TaskKeeps DEF LoopTop, TypeOK
<1>3. CASE AdapterEnds(t)
  <2>1. t \in Attempting /\ tpc[t] # "none"
    BY <1>3 DEF AdapterEnds, Attempting
  <2>2. ended' \in [AccountTasks -> {"ok", "err"}]
    BY <1>1, <1>3 DEF AdapterEnds, TypeOK, ManagerAssumption
  <2> QED BY <1>3, <2>1, <2>2, TaskKeeps DEF AdapterEnds
<1>4. CASE Judge(t)
  <2>1. t \in Attempting /\ tpc[t] # "none"
    BY <1>4 DEF Judge, Attempting
  <2>2. PICK label \in {"backoff", "ended"} :
          /\ TaskAt(t, label)
          /\ acct' = acct \/ /\ acct.status # "absent"
                             /\ acct' \in [status : Statuses \ {"absent"}, token : 1..tokens,
                                           handle : {acct.handle}, restarts : Nat, manual : {acct.manual}]
          /\ acct'.restarts = acct.restarts \/ (acct'.restarts = acct.restarts + 1 /\ label = "backoff")
    <3>1. PICK s, k, h, n, m :
            /\ acct = [status |-> s, token |-> k, handle |-> h, restarts |-> n, manual |-> m]
            /\ s # "absent" => k \in 1..tokens
            /\ n \in Nat
      BY <1>1 DEF TypeOK, TokensMade
    <3>2. {"stopped", "error"} \subseteq Statuses \ {"absent"} /\ n + 1 \in Nat
      BY <3>1 DEF Statuses
    <3> QED BY <1>4, <3>1, <3>2 DEF Judge, Known
  <2> QED BY <1>1, <1>4, <2>1, <2>2, TaskKeeps DEF Judge, TypeOK
<1>5. CASE BackoffAborted(t)
  BY <1>1, <1>5, TaskKeeps DEF BackoffAborted, TypeOK
<1>6. CASE Refresh(t)
  <2>1. t \in Attempting /\ tpc[t] # "none" /\ ctx[t] \in 1..tokens
    BY <1>1, <1>6 DEF Refresh, Attempting, TokensMade
  <2>2. acct' = acct \/ /\ acct.status # "absent"
                        /\ acct' \in [status : Statuses \ {"absent"}, token : 1..tokens,
                                      handle : {acct.handle}, restarts : {acct.restarts}, manual : {acct.manual}]
    BY <1>1, <1>6, <2>1 DEF Refresh, Known, TypeOK, Statuses
  <2> QED BY <1>1, <1>6, <2>1, <2>2, TaskKeeps DEF Refresh, TypeOK
<1>7. CASE BackoffOver(t)
  <2>1. tokens' = tokens + 1 /\ tokens < MaxTokens
    <3>1. {c \in Starts : tpc[c] = "none"} \in SUBSET AccountTasks
      BY DEF AccountTasks
    <3>2. Cardinality({c \in Starts : tpc[c] = "none"}) \in Nat
      BY <3>1, AttemptsFinite
    <3> QED BY <1>1, <1>7, <3>2 DEF BackoffOver, TypeOK, ManagerAssumption
  <2>2. /\ ctx' = [ctx EXCEPT ![t] = tokens + 1] /\ tpc' = [tpc EXCEPT ![t] = "refresh"]
        /\ UNCHANGED <<acct, down, fired, pc, mine, ended>> /\ tpc[t] = "backoff"
    BY <1>7 DEF BackoffOver, TaskAt
  <2>3. TypeOK'
    BY <1>1, <2>1, <2>2 DEF TypeOK, ManagerAssumption
  <2>4. TokensMade'
    BY <1>1, <2>1, <2>2 DEF TypeOK, TokensMade, AccountTasks
  <2>5. TokensAreOwn'
    BY <1>1, <2>1, <2>2 DEF ManagerInv, TypeOK, TokensMade, TokensAreOwn
  <2>6. RestartsCounted'
    <3>1. Attempting' = Attempting \cup {t}
      BY <1>1, <2>2 DEF Attempting, TypeOK
    <3>2. Attempting \in SUBSET AccountTasks
      BY DEF Attempting
    <3>3. Cardinality(Attempting') <= Cardinality(Attempting) + 1
      BY <3>1, <3>2, AttemptsChange
    <3>4. Cardinality(Attempting) \in Nat /\ Cardinality(Attempting') \in Nat
      BY AttemptsFinite DEF Attempting
    <3> QED BY <1>1, <2>1, <2>2, <3>3, <3>4 DEF ManagerInv, RestartsCounted, TypeOK
  <2> QED BY <2>3, <2>4, <2>5, <2>6 DEF ManagerInv
<1> QED BY <1>2, <1>3, <1>4, <1>5, <1>6, <1>7 DEF LoopStep

\* Every step of the manager keeps the invariant.
THEOREM ManagerInvariance == ASSUME ManagerAssumption PROVE Spec => []ManagerInv
<1>1. Init => ManagerInv
  BY ManagerInit
<1>2. ManagerInv /\ [Next]_vars => ManagerInv'
  <2> SUFFICES ASSUME ManagerInv, [Next]_vars PROVE ManagerInv'
    OBVIOUS
  <2>1. CASE UNCHANGED vars
    BY <2>1 DEF ManagerInv, TypeOK, TokensMade, TokensAreOwn, RestartsCounted, Attempting, vars
  <2>2. CASE Next
    BY <2>2, StartKeeps, StopsKeep, LoopKeeps DEF Next, Proceed, Calls
  <2> QED BY <2>1, <2>2
<1> QED BY <1>1, <1>2, PTL DEF Spec

\* The state of the manager has its types: the counter of restarts, too, which
\* only a reset takes back, stays below the tokens that were made.
THEOREM ManagerTypeCorrect == ASSUME ManagerAssumption PROVE Spec => []TypeOK
<1>1. ManagerInv => TypeOK
  BY DEF ManagerInv
<1> QED BY <1>1, ManagerInvariance, PTL

\* No token cancels two tasks, whatever starts, stops, restarts and shutdowns overlap.
THEOREM TokensStayOwn == ASSUME ManagerAssumption PROVE Spec => []TokensAreOwn
<1>1. ManagerInv => TokensAreOwn
  BY DEF ManagerInv
<1> QED BY <1>1, ManagerInvariance, PTL
=============================================================================

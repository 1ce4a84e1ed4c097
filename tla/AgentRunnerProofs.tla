-------------------------- MODULE AgentRunnerProofs --------------------------
(***************************************************************************)
(* Proofs about the agent runner, for any calls, sessions, buffered        *)
(* messages and waiters, and any limits on iterations, tool calls and      *)
(* what a compaction preserves.                                            *)
(*                                                                         *)
(* Whatever callers do, transcripts consist of whole turns behind          *)
(* summaries: a call works on its own history, in which only the last      *)
(* response may wait for tool results (Pending), and it saves a history    *)
(* only when none does (Whole).  A history that is pruned, compacted or    *)
(* cut is still the end of what it was (Follows), and so made of turns.    *)
(* What the entry of active_runs says, that no turn is lost silently and   *)
(* that buffered messages stay in order rests on the callers, who drive    *)
(* the runner through a lane: one call at a time that nobody drops         *)
(* (OneAtATime).                                                           *)
(***************************************************************************)
EXTENDS AgentRunner, FiniteSetTheorems, SequenceTheorems, TLAPS

\* The response at k has its tool results and is followed by what comes next.
Answered(h, k) ==
  IF h[k].n = 0
    THEN k < Len(h) /\ h[k+1].role = "user"
    ELSE /\ k + h[k].n < Len(h)
         /\ \A j \in 1..h[k].n : h[k+j] = Tool
         /\ h[k + h[k].n + 1].role = "assistant"

\* The response at k still waits for c of its tool results.
Waits(h, k, c) ==
  /\ h[k].n > 0
  /\ k + h[k].n = Len(h) + c
  /\ \A j \in 1..(h[k].n - c) : h[k+j] = Tool

\* A summary stands behind summaries only.
SummariesFirst(h) ==
  \A j, k \in DOMAIN h : j < k /\ h[k].role = "system" => h[j].role = "system"

Responses(h) == {k \in DOMAIN h : h[k].role = "assistant"}
Pending(h, c) ==
  /\ SummariesFirst(h)
  /\ \A k \in Responses(h) : Answered(h, k) \/ Waits(h, k, c)
Whole(h) ==
  /\ SummariesFirst(h)
  /\ \A k \in Responses(h) : Answered(h, k) \/ (h[k].n = 0 /\ k = Len(h))
  /\ h = <<>> \/ h[Len(h)].role = "assistant"

HistoriesOK ==
  \A r \in Runs :
    /\ pc[r] \in {"prompt", "loop", "ask", "stream"} => Pending(hist[r], 0)
    /\ pc[r] = "tools" => Pending(hist[r], calls[r])
    /\ pc[r] = "execute" => Pending(hist[r], calls[r] + 1)
    /\ pc[r] = "save" => Whole(hist[r])

TurnsInv == TypeOK /\ HistoriesOK /\ \A s \in Sessions : Whole(transcript[s])

\* How the dispatch lane drives the runner.
OneAtATime == Parallel = 1 /\ Droppable = {}

OneInProgress == \A q, r \in Runs : InProgress(q) /\ InProgress(r) => q = r

\* A history continues what the transcript holds.
HistoryContinues ==
  \A r \in Runs :
    pc[r] \in InLifecycle \ {"load"} => Continues(hist[r], transcript[sess[r]])

LaneInv == TurnsInv /\ OneInProgress /\ EntryIsTheRun /\ HistoryContinues

-----------------------------------------------------------------------------
(* Entries and sequences of them.                                          *)

\* The entries of a history, their roles and their numbers.
LEMMA EntryFacts ==
  ASSUME RunnerAssumption
  PROVE  /\ \A m \in Messages : User(m) \in Entries
         /\ \A n \in 0..MaxCalls : Assistant(n) \in Entries
         /\ Tool \in Entries
         /\ \A e \in Entries : e.n \in Nat
BY DEF RunnerAssumption, Entries, User, Assistant, Tool, Summary

\* What Append does to a history, in terms of places.
LEMMA AppendPlaces ==
  ASSUME NEW h \in Seq(Entries), NEW e \in Entries, NEW g, g = Append(h, e)
  PROVE  /\ g \in Seq(Entries) /\ Len(h) \in Nat
         /\ DOMAIN h = 1..Len(h) /\ DOMAIN g = 1..(Len(h) + 1)
         /\ Len(g) = Len(h) + 1
         /\ \A i \in 1..Len(h) : g[i] = h[i]
         /\ g[Len(h) + 1] = e
         /\ \A i \in 1..Len(g) : i \in 1..Len(h) \/ i = Len(h) + 1
BY AppendProperties, LenProperties

-----------------------------------------------------------------------------
(* Making a history fit.                                                   *)

\* Of history h, g holds the end behind summaries.
Follows(g, h) ==
  /\ g \in Seq(Entries) /\ Len(g) > 0 /\ g[Len(g)] = h[Len(h)]
  /\ SummariesFirst(g)
  /\ EndOf(g, Len(g), h)

\* The messages of h before its last can be read in g before its last.
KeepsTold(g, h) ==
  \A m \in Messages : Tells(h, Len(h) - 1, m) => Tells(g, Len(g) - 1, m)

\* A history to be made fit.
Fittable(h) ==
  /\ h \in Seq(Entries) /\ Len(h) > 0 /\ SummariesFirst(h)
  /\ h[Len(h)].role # "system"
  /\ Len(h) > 1 => h[Len(h) - 1].role # "system"

\* The entries of a history, by their roles.
LEMMA EntryKinds ==
  ASSUME RunnerAssumption, NEW e \in Entries
  PROVE  /\ e.n \in Nat
         /\ e.role = "user" => e.of \in Messages /\ e = User(e.of)
         /\ e.role # "user" => e.of = NoRun
BY DEF RunnerAssumption, Entries, User, Assistant, Tool, Summary

\* A summary of messages is an entry, and so is one that was cut, which may be
\* about any message.
LEMMA SummaryFacts ==
  /\ \A S \in SUBSET Messages :
       Summary(S) \in Entries /\ Summary(S).role = "system" /\ Summary(S).tells = S
  /\ Cut \in Entries /\ Cut.role = "system" /\ \A m : Reads(Cut, m)
<1>1. \A S : Summary(S).role = "system" /\ Summary(S).tells = S
  BY DEF Summary
<1>2. \A S \in SUBSET (Messages \cup {Truncated}) : Summary(S) \in Entries
  BY DEF Entries
<1>3. Truncated \in Cut.tells /\ Cut.role = "system" /\ Cut \in Entries
  BY <1>1, <1>2 DEF Cut
<1> QED BY <1>1, <1>2, <1>3 DEF Reads

\* The beginning of a sequence, in terms of places.
LEMMA FrontPlaces ==
  ASSUME NEW h \in Seq(Entries), NEW a \in Nat, a <= Len(h), NEW f, f = SubSeq(h, 1, a)
  PROVE  f \in Seq(Entries) /\ Len(f) = a /\ \A i \in 1..a : f[i] = h[i]
<1>1. Len(h) \in Nat
  BY LenProperties
<1>2. \A i \in 1..a : h[i] \in Entries
  BY <1>1, ElementOfSeq
<1>3. /\ f \in Seq(Entries) /\ Len(f) = IF 1 <= a THEN a - 1 + 1 ELSE 0
      /\ \A i \in 1..(a - 1 + 1) : f[i] = h[1 + i - 1]
  BY <1>2, SubSeqProperties
<1> QED BY <1>3

\* The end of a sequence, in terms of places.
LEMMA BackPlaces ==
  ASSUME NEW h \in Seq(Entries), NEW b \in Nat, b <= Len(h),
         NEW f, f = SubSeq(h, b + 1, Len(h))
  PROVE  f \in Seq(Entries) /\ Len(f) = Len(h) - b /\ \A i \in 1..(Len(h) - b) : f[i] = h[i + b]
<1>1. Len(h) \in Nat
  BY LenProperties
<1>2. \A i \in (b + 1)..Len(h) : h[i] \in Entries
  BY <1>1, ElementOfSeq
<1>3. /\ f \in Seq(Entries)
      /\ Len(f) = IF b + 1 <= Len(h) THEN Len(h) - (b + 1) + 1 ELSE 0
      /\ \A i \in 1..(Len(h) - (b + 1) + 1) : f[i] = h[b + 1 + i - 1]
  BY <1>1, <1>2, SubSeqProperties
<1>4. \A i \in 1..(Len(h) - b) : f[i] = h[i + b]
  <2> SUFFICES ASSUME NEW i \in 1..(Len(h) - b) PROVE f[i] = h[i + b]
    OBVIOUS
  <2>1. i \in 1..(Len(h) - (b + 1) + 1) /\ b + 1 + i - 1 = i + b
    BY <1>1
  <2> QED BY <1>3, <2>1
<1> QED BY <1>1, <1>3, <1>4

\* With x in the place of the places between a and b.
Replaced(h, a, b, x) == SubSeq(h, 1, a) \o <<x>> \o SubSeq(h, b + 1, Len(h))
Joined(f, e) == f \o e

\* Sequence g consists of f and e; of the places of h up to a and behind b, with x
\* between them.
Joins(g, f, e) ==
  /\ g \in Seq(Entries) /\ Len(g) = Len(f) + Len(e)
  /\ \A i \in 1..Len(f) : g[i] = f[i]
  /\ \A i \in 1..Len(e) : g[Len(f) + i] = e[i]
Replaces(g, h, a, b, x) ==
  /\ g \in Seq(Entries) /\ Len(g) = a + 1 + (Len(h) - b)
  /\ \A i \in 1..a : g[i] = h[i]
  /\ g[a + 1] = x
  /\ \A i \in (a + 2)..Len(g) : g[i] = h[i + (b - a - 1)]

\* A concatenation, in terms of places.
LEMMA ConcatPlaces ==
  ASSUME NEW f \in Seq(Entries), NEW e \in Seq(Entries), NEW g, g = Joined(f, e)
  PROVE  Joins(g, f, e)
<1>1. Len(f) \in Nat /\ Len(e) \in Nat
  BY LenProperties
<1>2. /\ g \in Seq(Entries) /\ Len(g) = Len(f) + Len(e)
      /\ \A i \in 1..(Len(f) + Len(e)) : g[i] = IF i <= Len(f) THEN f[i] ELSE e[i - Len(f)]
  BY ConcatProperties, Zenon DEF Joined
<1>3. ASSUME NEW i \in 1..Len(f) PROVE g[i] = f[i]
  <2>1. i \in 1..(Len(f) + Len(e)) /\ i <= Len(f)
    BY <1>1
  <2> QED BY <1>2, <2>1, Zenon
<1>4. ASSUME NEW i \in 1..Len(e) PROVE g[Len(f) + i] = e[i]
  <2>1. Len(f) + i \in 1..(Len(f) + Len(e)) /\ ~(Len(f) + i <= Len(f)) /\ Len(f) + i - Len(f) = i
    BY <1>1
  <2>2. g[Len(f) + i] = e[Len(f) + i - Len(f)]
    BY <1>2, <2>1
  <2> QED BY <2>1, <2>2, Zenon
<1> QED BY <1>2, <1>3, <1>4 DEF Joins

\* What is there where an entry takes the place of those between a and b.
LEMMA ReplacePlaces ==
  ASSUME NEW h \in Seq(Entries), NEW a \in Nat, NEW b \in Nat, a <= b, b <= Len(h),
         NEW x \in Entries,
         NEW g, g = Replaced(h, a, b, x)
  PROVE  Replaces(g, h, a, b, x)
<1> DEFINE f == SubSeq(h, 1, a)
           fx == Append(f, x)
           e == SubSeq(h, b + 1, Len(h))
<1>1. Len(h) \in Nat
  BY LenProperties
<1>2. f \in Seq(Entries) /\ Len(f) = a /\ \A i \in 1..a : f[i] = h[i]
  BY <1>1, FrontPlaces
<1>3. e \in Seq(Entries) /\ Len(e) = Len(h) - b /\ \A i \in 1..(Len(h) - b) : e[i] = h[i + b]
  BY BackPlaces
<1>4. g = Joined(fx, e)
  BY <1>2, AppendIsConcat DEF Replaced, Joined
<1> HIDE DEF f, e
<1>5. /\ fx \in Seq(Entries) /\ Len(fx) = a + 1
      /\ \A i \in 1..a : fx[i] = h[i]
      /\ fx[a + 1] = x
  BY <1>2, AppendProperties
<1> HIDE DEF fx
<1>6. /\ g \in Seq(Entries) /\ Len(g) = Len(fx) + Len(e)
      /\ \A i \in 1..Len(fx) : g[i] = fx[i]
      /\ \A i \in 1..Len(e) : g[Len(fx) + i] = e[i]
  <2>1. Joins(g, fx, e)
    BY <1>3, <1>4, <1>5, ConcatPlaces
  <2> QED BY <2>1 DEF Joins
<1>7. \A i \in 1..a : g[i] = h[i]
  BY <1>1, <1>3, <1>5, <1>6
<1>8. g[a + 1] = x
  BY <1>1, <1>3, <1>5, <1>6
<1>9. ASSUME NEW i \in (a + 2)..Len(g) PROVE g[i] = h[i + (b - a - 1)]
  <2>1. /\ i - (a + 1) \in 1..Len(e) /\ a + 1 + (i - (a + 1)) = i
        /\ i - (a + 1) + b = i + (b - a - 1)
    <3>1. Len(g) = a + 1 + Len(e) /\ Len(e) \in Nat
      BY <1>1, <1>3, <1>5, <1>6
    <3> QED BY <3>1
  <2>2. g[Len(fx) + (i - (a + 1))] = e[i - (a + 1)]
    BY <1>6, <2>1
  <2>3. e[i - (a + 1)] = h[i - (a + 1) + b]
    BY <1>3, <2>1
  <2> QED BY <1>5, <2>1, <2>2, <2>3
<1> QED BY <1>3, <1>5, <1>6, <1>7, <1>8, <1>9 DEF Replaces

\* A history follows itself.
LEMMA FollowsItself ==
  ASSUME NEW h, Fittable(h) PROVE Follows(h, h) /\ KeepsTold(h, h)
<1>1. Len(h) \in Nat /\ DOMAIN h = 1..Len(h)
  BY LenProperties DEF Fittable
<1>2. EndOf(h, Len(h), h)
  <2>1. ASSUME NEW j \in 1..Len(h) PROVE j + Len(h) - Len(h) = j
    BY <1>1
  <2> QED BY <1>1, <2>1 DEF EndOf
<1> QED BY <1>2 DEF Fittable, Follows, KeepsTold

\* What follows what follows a history follows the history.
LEMMA FollowsFollows ==
  ASSUME NEW h \in Seq(Entries), NEW g, NEW f, Follows(g, h), Follows(f, g)
  PROVE  Follows(f, h)
<1>1. /\ Len(f) \in Nat /\ Len(g) \in Nat /\ Len(h) \in Nat
      /\ DOMAIN f = 1..Len(f) /\ DOMAIN g = 1..Len(g) /\ DOMAIN h = 1..Len(h)
  BY LenProperties DEF Follows
<1>2. ASSUME NEW i \in 1..Len(f), f[i].role # "system", NEW j \in i..Len(f)
      PROVE  j + Len(h) - Len(f) \in DOMAIN h /\ f[j] = h[j + Len(h) - Len(f)]
  <2> DEFINE k == i + Len(g) - Len(f)
             l == j + Len(g) - Len(f)
  <2>1. k \in DOMAIN g /\ f[i] = g[k] /\ l \in DOMAIN g /\ f[j] = g[l]
    <3>1. i \in i..Len(f)
      BY <1>1
    <3> QED BY <1>2, <3>1 DEF Follows, EndOf
  <2>2. k \in 1..Len(g) /\ l \in k..Len(g) /\ l + Len(h) - Len(g) = j + Len(h) - Len(f)
    BY <1>1, <2>1
  <2> HIDE DEF k, l
  <2>3. l + Len(h) - Len(g) \in DOMAIN h /\ g[l] = h[l + Len(h) - Len(g)]
    BY <1>2, <2>1, <2>2 DEF Follows, EndOf
  <2> QED BY <2>1, <2>2, <2>3
<1> QED BY <1>2 DEF Follows, EndOf

\* The system messages at the head.
LEMMA HeadsFacts ==
  ASSUME NEW h, Fittable(h), NEW p \in 0..Len(h), Heads(h, p)
  PROVE  /\ p < Len(h)
         /\ \A k \in 1..Len(h) : h[k].role = "system" <=> k <= p
         /\ Len(h) > 1 => p < Len(h) - 1
<1>1. Len(h) \in Nat /\ DOMAIN h = 1..Len(h) /\ Len(h) > 0
  BY LenProperties DEF Fittable
<1>2. p < Len(h)
  <2>1. p = Len(h) => h[Len(h)].role = "system"
    BY <1>1 DEF Heads
  <2>2. p # Len(h)
    BY <2>1 DEF Fittable
  <2>3. Len(h) \in Nat
    BY <1>1
  <2> QED BY <2>2, <2>3
<1>3. ASSUME NEW k \in 1..Len(h), p < k PROVE h[k].role # "system"
  <2>1. h[p+1].role # "system" /\ p + 1 \in 1..Len(h) /\ (p + 1 = k \/ p + 1 < k)
    BY <1>1, <1>2, <1>3 DEF Heads
  <2> QED BY <1>1, <2>1 DEF Fittable, SummariesFirst
<1>4. \A k \in 1..Len(h) : k <= p => h[k].role = "system"
  BY <1>1 DEF Heads
<1>5. Len(h) > 1 => p < Len(h) - 1
  <2>1. Len(h) > 1 => Len(h) - 1 \in 1..Len(h) /\ ~(Len(h) - 1 <= p)
    BY <1>1, <1>4 DEF Fittable
  <2> QED BY <1>1, <2>1
<1> QED BY <1>1, <1>2, <1>3, <1>4, <1>5

\* The heads of a history that stay, some of them cut, and the rest.
Trimmed(h, at, C) == [i \in DOMAIN at |-> IF i \in C THEN Cut ELSE h[at[i]]]
Behind(h, p) == SubSeq(h, p + 1, Len(h))

\* The heads that stay are summaries in which what the others tell can be read, or
\* that were cut.
LEMMA TrimmedPlaces ==
  ASSUME NEW h \in Seq(Entries), NEW p \in 0..Len(h), Heads(h, p),
         NEW at \in Stays(h, p), NEW C, NEW f, f = Trimmed(h, at, C)
  PROVE  /\ f \in Seq(Entries) /\ Len(f) \in 0..p
         /\ \A i \in 1..Len(f) : f[i].role = "system"
         /\ \A k \in 1..p : \A m : Reads(h[k], m) => \E i \in 1..Len(f) : Reads(f[i], m)
<1>1. Len(h) \in Nat /\ p \in Nat
  BY LenProperties
<1>2. PICK n \in 0..p : at \in [1..n -> 1..p]
  BY DEF Stays
<1>3. \A k \in 1..p : h[k] \in Entries /\ h[k].role = "system"
  BY <1>1, ElementOfSeq DEF Heads
<1>4. /\ n \in Nat /\ DOMAIN at = 1..n /\ \A i \in 1..n : at[i] \in 1..p
  BY <1>1, <1>2
<1>5. \A i \in 1..n : /\ f[i] = (IF i \in C THEN Cut ELSE h[at[i]])
                      /\ f[i] \in Entries /\ f[i].role = "system"
  BY <1>3, <1>4, SummaryFacts DEF Trimmed
<1>6. f \in Seq(Entries) /\ Len(f) = n
  <2>1. f \in [1..n -> Entries]
    BY <1>4, <1>5 DEF Trimmed
  <2> QED BY <1>4, <2>1
<1>7. ASSUME NEW k \in 1..p, NEW m, Reads(h[k], m)
      PROVE  \E i \in 1..n : Reads(f[i], m)
  <2>1. PICK i \in 1..n : k <= at[i] /\ \A j \in k..at[i] : h[j] = h[at[i]]
    BY <1>4 DEF Stays
  <2>2. h[k] = h[at[i]]
    BY <1>1, <1>4, <2>1
  <2>3. CASE i \in C
    BY <1>5, <2>3, SummaryFacts
  <2>4. CASE i \notin C
    BY <1>5, <1>7, <2>2, <2>4
  <2> QED BY <2>3, <2>4
<1> QED BY <1>4, <1>5, <1>6, <1>7

\* What pruning makes of a history, in terms of places.
LEMMA PrunedPlaces ==
  ASSUME NEW h \in Seq(Entries), NEW g \in Pruned(h)
  PROVE  \E p \in 0..Len(h), f \in Seq(Entries), e \in Seq(Entries) :
           /\ Heads(h, p)
           /\ Len(f) \in 0..p
           /\ \A i \in 1..Len(f) : f[i].role = "system"
           /\ \A k \in 1..p : \A m : Reads(h[k], m) => \E i \in 1..Len(f) : Reads(f[i], m)
           /\ Len(e) = Len(h) - p
           /\ \A i \in 1..(Len(h) - p) : e[i] = h[i + p]
           /\ Joins(g, f, e)
<1>1. PICK p \in 0..Len(h) :
        /\ Heads(h, p)
        /\ \E at \in Stays(h, p), C \in SUBSET (1..p) :
             g = Joined(Trimmed(h, at, C), Behind(h, p))
  <2>1. Pruned(h) = UNION {{Joined(Trimmed(h, at, C), Behind(h, p)) :
                              at \in Stays(h, p), C \in SUBSET (1..p)} :
                           p \in {p \in 0..Len(h) : Heads(h, p)}}
    BY DEF Pruned, Joined, Trimmed, Behind
  <2> QED BY <2>1
<1>2. PICK at \in Stays(h, p), C \in SUBSET (1..p) :
        g = Joined(Trimmed(h, at, C), Behind(h, p))
  BY <1>1
<1> DEFINE f == Trimmed(h, at, C)
           e == Behind(h, p)
<1>a. f = Trimmed(h, at, C) /\ e = Behind(h, p)
  OBVIOUS
<1> HIDE DEF f, e
<1>3. /\ f \in Seq(Entries) /\ Len(f) \in 0..p
      /\ \A i \in 1..Len(f) : f[i].role = "system"
      /\ \A k \in 1..p : \A m : Reads(h[k], m) => \E i \in 1..Len(f) : Reads(f[i], m)
  <2>1. h \in Seq(Entries) /\ p \in 0..Len(h) /\ Heads(h, p) /\ at \in Stays(h, p)
    BY <1>1
  <2> QED BY <2>1, <1>a, TrimmedPlaces, Zenon
<1>4. e \in Seq(Entries) /\ Len(e) = Len(h) - p /\ \A i \in 1..(Len(h) - p) : e[i] = h[i + p]
  <2>1. p \in Nat /\ p <= Len(h)
    BY LenProperties
  <2> QED BY <2>1, <1>a, BackPlaces DEF Behind
<1>5. Joins(g, f, e)
  BY <1>2, <1>3, <1>4, <1>a, ConcatPlaces
<1> QED BY <1>1, <1>3, <1>4, <1>5

\* Pruning: what is dropped can be read in a summary that stays, or one that was
\* cut says so.
LEMMA PrunedFits ==
  ASSUME NEW h, Fittable(h), NEW g \in Pruned(h)
  PROVE  Follows(g, h) /\ KeepsTold(g, h) /\ Fittable(g)
<1>1. /\ h \in Seq(Entries) /\ Len(h) \in Nat /\ DOMAIN h = 1..Len(h) /\ Len(h) > 0
      /\ SummariesFirst(h) /\ h[Len(h)].role # "system"
  BY LenProperties DEF Fittable
<1>2. PICK p \in 0..Len(h), f \in Seq(Entries), e \in Seq(Entries) :
        /\ Heads(h, p)
        /\ Len(f) \in 0..p
        /\ \A i \in 1..Len(f) : f[i].role = "system"
        /\ \A k \in 1..p : \A m : Reads(h[k], m) => \E i \in 1..Len(f) : Reads(f[i], m)
        /\ Len(e) = Len(h) - p
        /\ \A i \in 1..(Len(h) - p) : e[i] = h[i + p]
        /\ Joins(g, f, e)
  BY <1>1, PrunedPlaces
<1>3. /\ p \in Nat /\ p < Len(h)
      /\ \A k \in 1..Len(h) : h[k].role = "system" <=> k <= p
      /\ Len(h) > 1 => p < Len(h) - 1
  <2>1. Fittable(h) /\ p \in 0..Len(h) /\ Heads(h, p)
    BY <1>2
  <2>2. p \in Nat
    BY <1>1, <2>1
  <2> QED BY <2>1, <2>2, HeadsFacts, Zenon
<1> DEFINE n == Len(f)
<1>4. n \in Nat /\ n <= p
  BY <1>1, <1>2
<1>5. /\ g \in Seq(Entries) /\ Len(g) = n + (Len(h) - p) /\ DOMAIN g = 1..Len(g)
      /\ \A i \in 1..n : g[i] = f[i] /\ g[i].role = "system"
  BY <1>2, LenProperties DEF Joins
<1> HIDE DEF n
<1>6. ASSUME NEW i \in (n+1)..Len(g)
      PROVE  /\ i + (p - n) \in (p+1)..Len(h) /\ g[i] = h[i + (p - n)]
             /\ g[i].role # "system"
  <2>1. /\ i - n \in 1..Len(e) /\ i - n \in 1..(Len(h) - p)
        /\ n + (i - n) = i /\ i - n + p = i + (p - n)
        /\ i + (p - n) \in (p+1)..Len(h)
        /\ i + (p - n) \in 1..Len(h) /\ ~(i + (p - n) <= p)
    <3>1. /\ n \in Nat /\ p \in Nat /\ Len(h) \in Nat /\ n <= p /\ p < Len(h)
          /\ Len(e) = Len(h) - p /\ Len(g) = n + (Len(h) - p)
      BY <1>1, <1>2, <1>3, <1>4, <1>5
    <3>2. i \in Nat /\ n < i /\ i <= n + (Len(h) - p)
      BY <3>1
    <3> QED BY <3>1, <3>2
  <2>2. g[n + (i - n)] = e[i - n]
    BY <1>2, <2>1 DEF Joins, n
  <2>3. e[i - n] = h[i - n + p]
    BY <1>2, <2>1
  <2> QED BY <1>3, <2>1, <2>2, <2>3
<1>7. Len(g) \in Nat /\ Len(g) > n /\ Len(g) + (p - n) = Len(h)
  BY <1>1, <1>3, <1>4, <1>5
<1>8. g[Len(g)] = h[Len(h)] /\ g[Len(g)].role # "system"
  <2>1. Len(g) \in (n+1)..Len(g)
    BY <1>4, <1>7
  <2> QED BY <1>6, <1>7, <2>1
<1>9. EndOf(g, Len(g), h)
  <2> SUFFICES ASSUME NEW i \in 1..Len(g), g[i].role # "system", NEW j \in i..Len(g)
               PROVE  j + Len(h) - Len(g) \in DOMAIN h /\ g[j] = h[j + Len(h) - Len(g)]
    BY DEF EndOf
  <2>1. n < i
    BY <1>4, <1>5
  <2>2. j \in (n+1)..Len(g) /\ j + (p - n) = j + Len(h) - Len(g)
    <3>1. n \in Nat /\ p \in Nat /\ Len(g) \in Nat /\ Len(h) \in Nat /\ Len(g) + (p - n) = Len(h)
      BY <1>1, <1>3, <1>4, <1>7
    <3> QED BY <2>1, <3>1
  <2>3. j + (p - n) \in 1..Len(h) /\ g[j] = h[j + (p - n)]
    <3>1. j + (p - n) \in (p+1)..Len(h) /\ g[j] = h[j + (p - n)]
      BY <1>6, <2>2
    <3> QED BY <1>3, <3>1
  <2> QED BY <1>1, <2>2, <2>3
<1>10. SummariesFirst(g)
  <2> SUFFICES ASSUME NEW j \in 1..Len(g), NEW k \in 1..Len(g), j < k, g[k].role = "system"
               PROVE  g[j].role = "system"
    BY <1>5 DEF SummariesFirst
  <2>1. k \notin (n+1)..Len(g)
    BY <1>6
  <2>2. j \in 1..n
    BY <1>4, <1>7, <2>1
  <2> QED BY <1>5, <2>2
<1>11. KeepsTold(g, h)
  <2> SUFFICES ASSUME NEW m \in Messages, NEW k \in 1..(Len(h) - 1), Reads(h[k], m)
               PROVE  \E i \in 1..(Len(g) - 1) : Reads(g[i], m)
    BY DEF KeepsTold, Tells
  <2>1. CASE k <= p
    <3>1. k \in 1..p
      BY <1>3, <2>1
    <3>2. PICK i \in 1..n : Reads(f[i], m)
      BY <1>2, <3>1 DEF n
    <3>3. i \in 1..(Len(g) - 1)
      BY <1>4, <1>7
    <3> QED BY <1>5, <3>2, <3>3
  <2>2. CASE p < k
    <3>1. k - (p - n) \in 1..(Len(g) - 1) /\ k - (p - n) \in (n+1)..Len(g)
          /\ k - (p - n) + (p - n) = k
      BY <1>1, <1>3, <1>4, <1>7, <2>2
    <3>2. g[k - (p - n)] = h[k]
      BY <1>6, <3>1
    <3> QED BY <3>1, <3>2
  <2> QED BY <1>1, <1>3, <2>1, <2>2
<1>12. Len(g) > 1 => g[Len(g) - 1].role # "system"
  <2> SUFFICES ASSUME Len(g) > 1 PROVE g[Len(g) - 1].role # "system"
    OBVIOUS
  <2>1. Len(g) - 1 \in (n+1)..Len(g)
    BY <1>1, <1>3, <1>4, <1>5, <1>7
  <2> QED BY <1>6, <2>1
<1> QED BY <1>4, <1>5, <1>7, <1>8, <1>9, <1>10, <1>11, <1>12 DEF Follows, Fittable

\* What a compaction removes: messages, for which it puts a summary.
Gone(h, p, b) == {h[k].of : k \in {k \in (p+1)..b : h[k].role = "user"}}

LEMMA CompactedPlaces ==
  ASSUME RunnerAssumption, NEW h \in Seq(Entries), NEW p \in Nat, NEW q \in Nat \ {0},
         Len(h) - p > q, NEW b, b = Len(h) - q
  PROVE  /\ Gone(h, p, b) \in SUBSET Messages
         /\ Replaces(Compacted(h, p, q), h, p, b, Summary(Gone(h, p, b)))
<1>1. Len(h) \in Nat
  BY LenProperties
<1>2. b \in Nat /\ p <= b /\ b <= Len(h)
  BY <1>1
<1>3. Gone(h, p, b) \in SUBSET Messages
  <2> SUFFICES ASSUME NEW k \in (p+1)..b, h[k].role = "user" PROVE h[k].of \in Messages
    BY DEF Gone
  <2>1. k \in 1..Len(h)
    BY <1>1, <1>2
  <2>2. h[k] \in Entries
    BY <2>1, ElementOfSeq
  <2> QED BY <2>2, EntryKinds
<1>4. Summary(Gone(h, p, b)) \in Entries
  BY <1>3, SummaryFacts
<1>5. Compacted(h, p, q) = Replaced(h, p, b, Summary(Gone(h, p, b)))
  BY DEF Compacted, Replaced, Gone
<1>6. Replaces(Compacted(h, p, q), h, p, b, Summary(Gone(h, p, b)))
  BY <1>2, <1>4, <1>5, ReplacePlaces
<1> QED BY <1>3, <1>6

\* Compaction: what is removed can be read in the summary.
LEMMA CompactedFits ==
  ASSUME RunnerAssumption, NEW h, Fittable(h), NEW p \in 0..Len(h), Heads(h, p),
         NEW q \in Nat \ {0}, Len(h) - p > q, NEW g, g = Compacted(h, p, q)
  PROVE  Follows(g, h) /\ KeepsTold(g, h)
<1> DEFINE b == Len(h) - q
           gone == Gone(h, p, b)
<1>1. /\ h \in Seq(Entries) /\ Len(h) \in Nat /\ DOMAIN h = 1..Len(h) /\ Len(h) > 0
      /\ h[Len(h)].role # "system"
  BY LenProperties DEF Fittable
<1>2. /\ p < Len(h) /\ \A k \in 1..Len(h) : h[k].role = "system" <=> k <= p
  BY HeadsFacts
<1>3. p \in Nat /\ b \in Nat /\ p < b /\ b < Len(h) /\ Len(h) - b = q
  BY <1>1
<1>4. gone \in SUBSET Messages /\ Replaces(g, h, p, b, Summary(gone))
  BY <1>1, <1>3, CompactedPlaces
<1> HIDE DEF b
<1>7. Summary(gone) \in Entries /\ Summary(gone).role = "system" /\ Summary(gone).tells = gone
  BY <1>4, SummaryFacts
<1>8. ASSUME NEW k \in (p+1)..b, NEW m, h[k] = User(m) PROVE m \in gone
  BY <1>8 DEF User, Gone
<1> HIDE DEF gone
<1>9. /\ g \in Seq(Entries) /\ Len(g) = p + 1 + (Len(h) - b)
      /\ \A i \in 1..p : g[i] = h[i]
      /\ g[p + 1] = Summary(gone)
      /\ \A i \in (p + 2)..Len(g) : g[i] = h[i + (b - p - 1)]
  BY <1>4 DEF Replaces
<1>10. Len(g) \in Nat /\ Len(g) > p + 1 /\ DOMAIN g = 1..Len(g) /\ Len(g) + (b - p - 1) = Len(h)
  BY <1>1, <1>3, <1>9, LenProperties
<1>11. \A i \in 1..Len(g) : g[i].role = "system" <=> i <= p + 1
  <2> SUFFICES ASSUME NEW i \in 1..Len(g) PROVE g[i].role = "system" <=> i <= p + 1
    OBVIOUS
  <2>1. CASE i <= p
    BY <1>1, <1>2, <1>3, <1>9, <2>1
  <2>2. CASE i = p + 1
    BY <1>7, <1>9, <2>2
  <2>3. CASE p + 1 < i
    <3>1. /\ i \in Nat /\ i <= Len(g) /\ p + 1 < i
          /\ p \in Nat /\ b \in Nat /\ p < b /\ Len(g) \in Nat /\ Len(h) \in Nat
          /\ Len(g) + (b - p - 1) = Len(h)
      BY <1>1, <1>3, <1>10, <2>3
    <3>2. i \in (p+2)..Len(g) /\ i + (b - p - 1) \in 1..Len(h) /\ ~(i + (b - p - 1) <= p)
      BY <3>1
    <3> QED BY <1>2, <1>9, <2>3, <3>2
  <2> QED BY <1>3, <2>1, <2>2, <2>3
<1>12. g[Len(g)] = h[Len(h)]
  <2>1. Len(g) \in (p+2)..Len(g)
    BY <1>3, <1>10
  <2> QED BY <1>9, <1>10, <2>1
<1>13. SummariesFirst(g)
  BY <1>3, <1>10, <1>11 DEF SummariesFirst
<1>14. EndOf(g, Len(g), h)
  <2> SUFFICES ASSUME NEW i \in 1..Len(g), g[i].role # "system", NEW j \in i..Len(g)
               PROVE  j + Len(h) - Len(g) \in DOMAIN h /\ g[j] = h[j + Len(h) - Len(g)]
    BY DEF EndOf
  <2>1. p + 1 < i
    BY <1>3, <1>11
  <2>2. /\ j \in (p+2)..Len(g) /\ j + (b - p - 1) = j + Len(h) - Len(g)
        /\ j + (b - p - 1) \in 1..Len(h)
    <3>1. /\ p \in Nat /\ b \in Nat /\ Len(g) \in Nat /\ Len(h) \in Nat /\ p < b
          /\ Len(g) + (b - p - 1) = Len(h)
      BY <1>1, <1>3, <1>10
    <3>2. j \in Nat /\ p + 1 < j /\ j <= Len(g)
      BY <2>1, <3>1
    <3> QED BY <3>1, <3>2
  <2> QED BY <1>1, <1>9, <2>2
<1>15. KeepsTold(g, h)
  <2> SUFFICES ASSUME NEW m \in Messages, NEW k \in 1..(Len(h) - 1),
                      Reads(h[k], m)
               PROVE  \E i \in 1..(Len(g) - 1) : Reads(g[i], m)
    BY DEF KeepsTold, Tells
  <2>1. CASE k <= p
    <3>1. k \in 1..p /\ k \in 1..(Len(g) - 1)
      BY <1>1, <1>3, <1>10, <2>1
    <3> QED BY <1>9, <3>1
  <2>2. CASE p < k /\ k <= b
    <3>1. h[k] = User(m) /\ k \in (p+1)..b /\ p + 1 \in 1..(Len(g) - 1)
      BY <1>1, <1>2, <1>3, <1>10, <2>2 DEF Reads
    <3>2. Reads(g[p+1], m)
      BY <1>7, <1>8, <1>9, <3>1 DEF Reads
    <3> QED BY <3>1, <3>2
  <2>3. CASE b < k
    <3>1. k - (b - p - 1) \in 1..(Len(g) - 1) /\ k - (b - p - 1) \in (p+2)..Len(g)
          /\ k - (b - p - 1) + (b - p - 1) = k
      BY <1>1, <1>3, <1>10, <2>3
    <3>2. g[k - (b - p - 1)] = h[k]
      BY <1>9, <3>1
    <3> QED BY <3>1, <3>2
  <2> QED BY <1>1, <1>3, <2>1, <2>2, <2>3
<1> QED BY <1>3, <1>9, <1>10, <1>12, <1>13, <1>14, <1>15 DEF Follows

\* Where there is nothing to compact, the last entries are kept.
LastOnes(h) == SubSeq(h, Len(h) - KeepLast + 1, Len(h))

LEMMA TailFits ==
  ASSUME RunnerAssumption, NEW h, Fittable(h), Len(h) > KeepLast,
         NEW g, g = LastOnes(h)
  PROVE  Follows(g, h) /\ Len(g) = KeepLast
<1> DEFINE b == Len(h) - KeepLast
<1>1. /\ h \in Seq(Entries) /\ Len(h) \in Nat /\ DOMAIN h = 1..Len(h) /\ Len(h) > 0
      /\ SummariesFirst(h)
  BY LenProperties DEF Fittable
<1>2. b \in Nat /\ b < Len(h) /\ Len(h) - b = KeepLast /\ KeepLast \in Nat /\ KeepLast > 0
  BY <1>1 DEF RunnerAssumption
<1>3. g = SubSeq(h, b + 1, Len(h))
  BY DEF LastOnes
<1> HIDE DEF b
<1>4. /\ g \in Seq(Entries) /\ Len(g) = KeepLast
      /\ \A i \in 1..KeepLast : g[i] = h[i + b]
  <2>1. h \in Seq(Entries) /\ b \in Nat /\ b <= Len(h) /\ g = SubSeq(h, b + 1, Len(h))
    BY <1>1, <1>2, <1>3
  <2>2. /\ g \in Seq(Entries) /\ Len(g) = Len(h) - b
        /\ \A i \in 1..(Len(h) - b) : g[i] = h[i + b]
    BY <2>1, BackPlaces, Zenon
  <2>3. Len(h) - b = KeepLast
    BY <1>2
  <2> QED BY <2>2, <2>3, Zenon
<1>5. DOMAIN g = 1..Len(g)
  BY <1>4, LenProperties
<1>6. ASSUME NEW i \in 1..Len(g)
      PROVE  i + b \in DOMAIN h /\ i + Len(h) - Len(g) = i + b /\ g[i] = h[i + b]
  <2>1. /\ b \in Nat /\ Len(h) \in Nat /\ Len(g) \in Nat /\ Len(h) - b = Len(g)
        /\ g[i] = h[i + b]
    BY <1>1, <1>2, <1>4
  <2>2. i + b \in 1..Len(h) /\ i + Len(h) - Len(g) = i + b
    BY <2>1
  <2> QED BY <1>1, <2>1, <2>2
<1>7. EndOf(g, Len(g), h)
  <2>1. \A i \in 1..Len(g) : \A j \in i..Len(g) : j \in 1..Len(g)
    BY <1>2, <1>4
  <2> QED BY <1>6, <2>1 DEF EndOf
<1>8. g[Len(g)] = h[Len(h)]
  <2>1. Len(g) \in 1..Len(g) /\ Len(g) + b = Len(h)
    <3>1. Len(h) \in Nat /\ Len(g) = KeepLast
      BY <1>1, <1>4
    <3> QED BY <1>2, <3>1
  <2> QED BY <1>6, <2>1, Zenon
<1>9. SummariesFirst(g)
  <2> SUFFICES ASSUME NEW j \in 1..Len(g), NEW k \in 1..Len(g), j < k, g[k].role = "system"
               PROVE  g[j].role = "system"
    BY <1>5 DEF SummariesFirst
  <2>1. j + b < k + b
    BY <1>2, <1>4
  <2> QED BY <1>1, <1>6, <2>1 DEF SummariesFirst
<1> QED BY <1>2, <1>4, <1>7, <1>8, <1>9 DEF Follows

\* A history made fit is a history.
LEMMA FittedTyped ==
  ASSUME RunnerAssumption, NEW h \in Seq(Entries), NEW f \in Fitted(h)
  PROVE  f \in Seq(Entries)
<1>1. ASSUME NEW x \in Seq(Entries) PROVE Len(x) \in Nat
  BY LenProperties
<1>2. ASSUME NEW g \in Pruned(h) PROVE g \in Seq(Entries)
  BY PrunedPlaces DEF Joins
<1>3. ASSUME NEW g \in Seq(Entries), NEW p \in 0..Len(g), f \in Shortened(g, p)
      PROVE  f \in Seq(Entries)
  <2>1. ASSUME NEW q \in Preserved, Len(g) - p > q PROVE Compacted(g, p, q) \in Seq(Entries)
    <3>1. p \in Nat /\ q \in Nat \ {0}
      BY <1>1 DEF RunnerAssumption
    <3>2. Replaces(Compacted(g, p, q), g, p, Len(g) - q, Summary(Gone(g, p, Len(g) - q)))
      BY <2>1, <3>1, CompactedPlaces
    <3> QED BY <3>2 DEF Replaces
  <2>2. ASSUME Len(g) > KeepLast PROVE LastOnes(g) \in Seq(Entries)
    <3>1. /\ Len(g) - KeepLast \in Nat /\ Len(g) - KeepLast <= Len(g)
          /\ LastOnes(g) = SubSeq(g, (Len(g) - KeepLast) + 1, Len(g))
      BY <1>1, <2>2 DEF LastOnes, RunnerAssumption
    <3> QED BY <3>1, BackPlaces
  <2>3. Len(g) <= KeepLast \/ Len(g) > KeepLast
    BY <1>1 DEF RunnerAssumption
  <2> QED BY <1>3, <2>1, <2>2, <2>3 DEF Shortened, LastOnes
<1>4. PICK g \in Pruned(h) :
        \/ f = g
        \/ \E p \in 0..Len(g) : f \in Shortened(g, p)
  BY DEF Fitted
<1> QED BY <1>2, <1>3, <1>4

\* A history made fit follows what it was, and tells what it told, unless the last
\* entries were kept: which does not happen if an attempt preserves one.
LEMMA FittedFits ==
  ASSUME RunnerAssumption, NEW h, Fittable(h), NEW f \in Fitted(h)
  PROVE  /\ Follows(f, h)
         /\ KeepsTold(f, h) \/ Len(f) = KeepLast
         /\ (\E p \in Preserved : p = 1) => KeepsTold(f, h)
<1>1. h \in Seq(Entries)
  BY DEF Fittable
<1>2. PICK g \in Pruned(h) :
        \/ f = g
        \/ \E p \in 0..Len(g) : Heads(g, p) /\ f \in Shortened(g, p)
  BY DEF Fitted
<1>3. Follows(g, h) /\ KeepsTold(g, h) /\ Fittable(g)
  BY PrunedFits
<1>4. /\ Follows(f, g)
      /\ KeepsTold(f, g) \/ Len(f) = KeepLast
      /\ (\E p \in Preserved : p = 1) => KeepsTold(f, g)
  <2>1. CASE f = g
    BY <1>3, <2>1, FollowsItself
  <2>2. ASSUME NEW p \in 0..Len(g), Heads(g, p), f \in Shortened(g, p)
        PROVE  /\ Follows(f, g)
               /\ KeepsTold(f, g) \/ Len(f) = KeepLast
               /\ (\E q \in Preserved : q = 1) => KeepsTold(f, g)
    <3> DEFINE can == {q \in Preserved : Len(g) - p > q}
    <3>1. CASE can # {}
      <4>1. PICK q \in can : f = Compacted(g, p, q)
        BY <2>2, <3>1 DEF Shortened
      <4>2. q \in Nat \ {0} /\ Len(g) - p > q
        BY DEF RunnerAssumption
      <4> QED BY <1>3, <2>2, <4>1, <4>2, CompactedFits
    <3>2. CASE can = {}
      <4>1. f = IF Len(g) <= KeepLast THEN g ELSE LastOnes(g)
        BY <2>2, <3>2 DEF Shortened, LastOnes
      <4>2. CASE Len(g) <= KeepLast
        BY <1>3, <4>1, <4>2, FollowsItself
      <4>3. CASE Len(g) > KeepLast
        <5>1. Len(g) \in Nat /\ Len(g) > 1
          BY <1>3, <4>3, LenProperties DEF Fittable, RunnerAssumption
        <5>2. p < Len(g) - 1
          BY <1>3, <2>2, <5>1, HeadsFacts
        <5>3. 1 \notin Preserved
          BY <3>2, <5>1, <5>2
        <5>4. Follows(f, g) /\ Len(f) = KeepLast
          <6>1. f = LastOnes(g)
            BY <4>1, <4>3, <5>1 DEF RunnerAssumption
          <6> QED BY <1>3, <4>3, <6>1, TailFits, Zenon
        <5> QED BY <5>3, <5>4
      <4>4. Len(g) \in Nat /\ KeepLast \in Nat
        BY <1>3, LenProperties DEF Fittable, RunnerAssumption
      <4> QED BY <4>2, <4>3, <4>4
    <3> QED BY <3>1, <3>2
  <2> QED BY <1>2, <2>1, <2>2
<1>5. Follows(f, h)
  BY <1>1, <1>3, <1>4, FollowsFollows
<1>6. KeepsTold(f, g) => KeepsTold(f, h)
  BY <1>3 DEF KeepsTold
<1> QED BY <1>4, <1>5, <1>6

\* A transcript and the next message can be made fit.
LEMMA AppendFittable ==
  ASSUME RunnerAssumption, NEW t \in Seq(Entries), Whole(t), NEW m \in Messages,
         NEW h, h = Append(t, User(m))
  PROVE  Fittable(h)
<1>1. /\ h \in Seq(Entries) /\ Len(t) \in Nat /\ Len(h) = Len(t) + 1
      /\ DOMAIN t = 1..Len(t) /\ DOMAIN h = 1..Len(h)
      /\ \A i \in 1..Len(t) : h[i] = t[i]
      /\ h[Len(h)].role = "user"
  BY EntryFacts, AppendPlaces DEF User
<1>2. SummariesFirst(h)
  <2> SUFFICES ASSUME NEW j \in 1..Len(h), NEW k \in 1..Len(h), j < k, h[k].role = "system"
               PROVE  h[j].role = "system"
    BY <1>1 DEF SummariesFirst
  <2>1. k # Len(h)
    BY <1>1
  <2>2. j \in 1..Len(t) /\ k \in 1..Len(t)
    BY <1>1, <2>1
  <2> QED BY <1>1, <2>2 DEF Whole, SummariesFirst
<1>3. Len(h) > 1 => h[Len(h) - 1].role # "system"
  <2> SUFFICES ASSUME Len(h) > 1 PROVE h[Len(h) - 1].role # "system"
    OBVIOUS
  <2>1. Len(t) \in Nat /\ Len(h) = Len(t) + 1
    BY <1>1
  <2>2. Len(t) \in 1..Len(t) /\ Len(h) - 1 = Len(t)
    BY <2>1
  <2>3. t # <<>>
    BY <2>2, EmptySeq
  <2>4. h[Len(h) - 1] = t[Len(t)]
    BY <1>1, <2>2
  <2> QED BY <2>3, <2>4 DEF Whole
<1>4. h \in Seq(Entries) /\ Len(h) > 0 /\ h[Len(h)].role # "system"
  BY <1>1
<1> QED BY <1>2, <1>3, <1>4 DEF Fittable

\* Made fit, it is made of whole turns, and the new message opens the next one.
LEMMA FollowsPending ==
  ASSUME RunnerAssumption, NEW t \in Seq(Entries), Whole(t), NEW m \in Messages,
         NEW h, h = Append(t, User(m)), NEW g, Follows(g, h)
  PROVE  /\ Pending(g, 0)
         /\ EndOf(g, Len(g) - 1, t)
         /\ g[Len(g)] = User(m)
<1> DEFINE d == Len(t) - (Len(g) - 1)
<1>1. /\ h \in Seq(Entries) /\ Len(t) \in Nat /\ Len(h) = Len(t) + 1
      /\ DOMAIN t = 1..Len(t) /\ DOMAIN h = 1..Len(h)
      /\ \A i \in 1..Len(t) : h[i] = t[i]
      /\ h[Len(h)] = User(m)
  BY EntryFacts, AppendPlaces
<1>2. /\ g \in Seq(Entries) /\ Len(g) \in Nat /\ Len(g) > 0 /\ DOMAIN g = 1..Len(g)
      /\ g[Len(g)] = User(m) /\ g[Len(g)].role = "user" /\ SummariesFirst(g)
  BY <1>1, LenProperties DEF Follows, User
<1>3. ASSUME NEW i \in 1..(Len(g) - 1), g[i].role # "system", NEW j \in i..(Len(g) - 1)
      PROVE  j + d \in 1..Len(t) /\ g[j] = t[j + d]
  <2>1. i \in 1..Len(g) /\ j \in i..Len(g) /\ j + Len(h) - Len(g) = j + d
    BY <1>1, <1>2
  <2>2. j + d \in DOMAIN h /\ g[j] = h[j + d]
    BY <1>3, <2>1 DEF Follows, EndOf
  <2>3. j + d \in 1..Len(t)
    BY <1>1, <1>2, <2>2
  <2> QED BY <1>1, <2>2, <2>3
<1>4. EndOf(g, Len(g) - 1, t)
  <2>1. \A j \in 1..Len(g) : j + Len(t) - (Len(g) - 1) = j + d
    BY <1>1, <1>2
  <2>2. \A i \in 1..(Len(g) - 1) : \A j \in i..(Len(g) - 1) : j \in 1..Len(g)
    BY <1>2
  <2> QED BY <1>1, <1>3, <2>1, <2>2 DEF EndOf
<1>5. ASSUME NEW k \in Responses(g) PROVE Answered(g, k)
  <2>1. k \in 1..(Len(g) - 1) /\ g[k].role = "assistant"
    BY <1>2, <1>5 DEF Responses
  <2>2. \A j \in k..(Len(g) - 1) : j + d \in 1..Len(t) /\ g[j] = t[j + d]
    BY <1>3, <2>1
  <2>3. k + d \in 1..Len(t) /\ g[k] = t[k + d] /\ k + d \in Responses(t) /\ g[k].n \in Nat
    <3>1. k \in k..(Len(g) - 1) /\ k \in 1..Len(g)
      BY <1>2, <2>1
    <3>2. g[k] \in Entries
      BY <1>2, <3>1, ElementOfSeq
    <3> QED BY <1>1, <2>1, <2>2, <3>1, <3>2, EntryKinds DEF Responses
  <2>4. CASE k = Len(g) - 1 /\ g[k].n = 0
    BY <1>2, <2>4 DEF Answered
  <2>5. CASE ~(k = Len(g) - 1 /\ g[k].n = 0)
    <3>1. Answered(t, k + d)
      <4>1. k + d = Len(t) => k = Len(g) - 1
        <5>1. Len(t) \in Nat /\ Len(g) \in Nat /\ k \in Nat
          BY <1>1, <1>2, <2>1
        <5> QED BY <5>1
      <4> QED BY <2>3, <2>5, <4>1 DEF Whole
    <3>2. CASE g[k].n = 0
      <4>1. k + 1 \in k..(Len(g) - 1) /\ k + 1 + d = k + d + 1
        <5>1. Len(t) \in Nat /\ Len(g) \in Nat /\ k \in 1..(Len(g) - 1) /\ k # Len(g) - 1
          BY <1>1, <1>2, <2>1, <2>5, <3>2
        <5> QED BY <5>1
      <4>2. t[k + d + 1].role = "user"
        BY <2>3, <3>1, <3>2 DEF Answered
      <4>3. g[k + 1] = t[k + d + 1] /\ k < Len(g)
        BY <1>2, <2>1, <2>2, <4>1
      <4> QED BY <3>2, <4>2, <4>3 DEF Answered
    <3>3. CASE g[k].n # 0
      <4> DEFINE n == g[k].n
      <4>1. /\ k + d + n < Len(t)
            /\ \A j \in 1..n : t[k + d + j] = Tool
            /\ t[k + d + n + 1].role = "assistant"
        BY <2>3, <3>1, <3>3 DEF Answered
      <4>2. n \in Nat /\ k \in 1..(Len(g) - 1) /\ n # 0
        BY <2>1, <2>3, <3>3
      <4> HIDE DEF n
      <4>3. k + n < Len(g) - 1 /\ k + n + 1 \in k..(Len(g) - 1) /\ k + n + 1 + d = k + d + n + 1
        BY <1>1, <1>2, <4>1, <4>2
      <4>4. ASSUME NEW j \in 1..n PROVE g[k + j] = Tool
        <5>1. k + j \in k..(Len(g) - 1) /\ k + j + d = k + d + j
          BY <1>1, <1>2, <4>2, <4>3
        <5>2. g[k + j] = t[k + j + d]
          BY <2>2, <5>1
        <5> QED BY <4>1, <5>1, <5>2
      <4>5. g[k + n + 1] = t[k + d + n + 1]
        BY <2>2, <4>3
      <4>6. k + n < Len(g)
        BY <1>2, <4>2, <4>3
      <4> QED BY <4>1, <4>2, <4>4, <4>5, <4>6 DEF Answered, n
    <3> QED BY <3>2, <3>3
  <2> QED BY <2>4, <2>5
<1>6. Pending(g, 0)
  BY <1>2, <1>5 DEF Pending
<1> QED BY <1>2, <1>4, <1>6

\* ... and continues the transcript.
LEMMA FollowsContinues ==
  ASSUME RunnerAssumption, NEW t \in Seq(Entries), Whole(t), NEW m \in Messages,
         NEW h, h = Append(t, User(m)), NEW g, Follows(g, h)
  PROVE  /\ KeepsTold(g, h) \/ Len(g) = KeepLast => Continues(g, t)
         /\ KeepsTold(g, h) =>
              \A x \in Messages : Tells(t, Len(t), x) \/ x = m => Tells(g, Len(g), x)
<1>1. EndOf(g, Len(g) - 1, t) /\ g[Len(g)] = User(m)
  BY FollowsPending
<1>2. /\ Len(t) \in Nat /\ Len(h) = Len(t) + 1 /\ DOMAIN t = 1..Len(t)
      /\ \A i \in 1..Len(t) : h[i] = t[i]
  BY EntryFacts, AppendPlaces
<1>3. Len(g) \in Nat /\ Len(g) > 0 /\ Len(g) \in DOMAIN g /\ DOMAIN g = 1..Len(g)
  BY LenProperties DEF Follows
<1>4. \A x : Tells(t, Len(t), x) <=> Tells(h, Len(h) - 1, x)
  <2>1. Len(h) - 1 = Len(t)
    BY <1>2
  <2> QED BY <1>2, <2>1 DEF Tells
<1>5. KeepsTold(g, h) => \A x \in Messages : Tells(t, Len(t), x) => Tells(g, Len(g) - 1, x)
  BY <1>4 DEF KeepsTold
<1>6. KeepsTold(g, h) \/ Len(g) = KeepLast => Continues(g, t)
  <2>1. \A j \in (Len(g) + 1)..Len(g) : FALSE
    BY <1>3
  <2>2. g[Len(g)].role = "user"
    BY <1>1 DEF User
  <2> QED BY <1>1, <1>3, <1>5, <2>1, <2>2 DEF Continues
<1>7. \A x : Tells(g, Len(g) - 1, x) => Tells(g, Len(g), x)
  <2>1. \A k \in 1..(Len(g) - 1) : k \in 1..Len(g)
    BY <1>3
  <2> QED BY <2>1 DEF Tells
<1>8. Tells(g, Len(g), m)
  BY <1>1, <1>3 DEF Tells, Reads
<1> QED BY <1>5, <1>6, <1>7, <1>8

\* What continues a transcript does so with what the turn appends.
LEMMA ContinuesAppend ==
  ASSUME NEW h \in Seq(Entries), NEW t, Continues(h, t), NEW e \in Entries,
         e.role \in {"assistant", "tool"}, NEW g, g = Append(h, e)
  PROVE  Continues(g, t)
<1>1. /\ g \in Seq(Entries) /\ Len(h) \in Nat /\ Len(g) = Len(h) + 1
      /\ DOMAIN h = 1..Len(h) /\ DOMAIN g = 1..Len(g)
      /\ \A i \in 1..Len(h) : g[i] = h[i]
      /\ g[Len(h) + 1] = e
  BY AppendPlaces
<1>2. PICK u \in 1..Len(h) :
        /\ h[u].role = "user"
        /\ \A j \in (u+1)..Len(h) : h[j].role \in {"assistant", "tool"}
        /\ EndOf(h, u - 1, t)
        /\ (\A m \in Messages : Tells(t, Len(t), m) => Tells(h, u - 1, m)) \/ u = KeepLast
  BY <1>1 DEF Continues
<1>3. u \in DOMAIN g /\ g[u].role = "user" /\ \A i \in 1..(u - 1) : g[i] = h[i]
  BY <1>1, <1>2
<1>4. \A j \in (u+1)..Len(g) : g[j].role \in {"assistant", "tool"}
  <2> SUFFICES ASSUME NEW j \in (u+1)..Len(g) PROVE g[j].role \in {"assistant", "tool"}
    OBVIOUS
  <2>1. j = Len(h) + 1 \/ (j \in (u+1)..Len(h) /\ j \in 1..Len(h))
    BY <1>1
  <2> QED BY <1>1, <1>2, <2>1
<1>5. EndOf(g, u - 1, t)
  <2>1. \A i \in 1..(u - 1) : \A j \in i..(u - 1) : j \in 1..(u - 1)
    OBVIOUS
  <2> QED BY <1>2, <1>3, <2>1 DEF EndOf
<1>6. \A m : Tells(h, u - 1, m) => Tells(g, u - 1, m)
  BY <1>3 DEF Tells
<1> QED BY <1>2, <1>3, <1>4, <1>5, <1>6 DEF Continues

\* What Load makes of a transcript and a message.
LEMMA LoadFits ==
  ASSUME RunnerAssumption, NEW t \in Seq(Entries), Whole(t), NEW m \in Messages,
         NEW f \in Fitted(Append(t, User(m)))
  PROVE  /\ f \in Seq(Entries)
         /\ Follows(f, Append(t, User(m)))
         /\ Pending(f, 0)
         /\ Continues(f, t)
         /\ (\E p \in Preserved : p = 1) =>
              \A x \in Messages : Tells(t, Len(t), x) \/ x = m => Tells(f, Len(f), x)
<1> DEFINE h == Append(t, User(m))
<1>1. Fittable(h)
  BY AppendFittable
<1>2. /\ Follows(f, h)
      /\ KeepsTold(f, h) \/ Len(f) = KeepLast
      /\ (\E p \in Preserved : p = 1) => KeepsTold(f, h)
  BY <1>1, FittedFits
<1> HIDE DEF h
<1>3. Pending(f, 0)
  BY <1>2, FollowsPending DEF h
<1>4. /\ KeepsTold(f, h) \/ Len(f) = KeepLast => Continues(f, t)
      /\ KeepsTold(f, h) =>
           \A x \in Messages : Tells(t, Len(t), x) \/ x = m => Tells(f, Len(f), x)
  BY <1>2, FollowsContinues DEF h
<1>5. f \in Seq(Entries)
  BY <1>2 DEF Follows
<1> QED BY <1>2, <1>3, <1>4, <1>5 DEF h

-----------------------------------------------------------------------------
(* Types.                                                                  *)

\* Nothing runs at first.
LEMMA TypeInit == ASSUME RunnerAssumption, Init PROVE TypeOK
<1>1. /\ <<>> \in Seq(Queued) /\ <<>> \in Seq(Entries)
      /\ 0 \in 0..MaxIter /\ 0 \in 0..MaxCalls
  BY EmptySeq DEF RunnerAssumption
<1>2. QED
  BY <1>1 DEF Init, TypeOK, PCs, Messages

\* A step of run_agent keeps the types.
LEMMA TypeStep ==
  ASSUME RunnerAssumption, TypeOK, NEW r \in Runs, Step(r)
  PROVE  TypeOK'
<1> USE DEF TypeOK, Goto, Leave, sharedVars, waitVars, PCs, InLifecycle
<1>1. /\ sess[r] \in Sessions /\ msg[r] \in Messages /\ r \in Messages
      /\ transcript[sess[r]] \in Seq(Entries) /\ hist[r] \in Seq(Entries)
      /\ queue[sess[r]] \in Seq(Queued)
      /\ <<>> \in Seq(Entries)
      /\ 0 \in 0..MaxIter /\ 0 \in 0..MaxCalls
  BY EmptySeq DEF RunnerAssumption, Messages
<1>a. Works(r) => late' \in [Runs -> Nat]
  <2>1. late[r] \in Nat /\ late[r] + 1 \in Nat
    OBVIOUS
  <2> QED BY <2>1 DEF Works
<1>2. CASE Insert(r)
  BY <1>1, <1>2 DEF Insert
<1>3. CASE Load(r)
  <2>1. Append(transcript[sess[r]], User(msg[r])) \in Seq(Entries)
    BY <1>1, EntryFacts, AppendProperties
  <2>2. ASSUME NEW h \in Fitted(Append(transcript[sess[r]], User(msg[r]))),
               /\ hist' = [hist EXCEPT ![r] = h]
               /\ iter' = [iter EXCEPT ![r] = 0]
               /\ Goto(r, "prompt")
               /\ UNCHANGED outcome
        PROVE  TypeOK'
    <3>0. h \in Seq(Entries)
      BY <2>1, FittedTyped
    <3>1. hist' \in [Runs -> Seq(Entries)]
      BY <2>2, <3>0
    <3>2. pc' \in [Runs -> PCs] /\ iter' \in [Runs -> 0..MaxIter]
      BY <1>1, <2>2
    <3>3. QED
      BY <1>3, <2>2, <3>1, <3>2 DEF Load
  <2>3. CASE Leave(r, "err") /\ UNCHANGED <<hist, iter>>
    BY <1>3, <2>3 DEF Load
  <2>4. QED
    BY <1>3, <2>2, <2>3, Zenon DEF Load
<1>4. CASE ResolveModel(r)
  BY <1>1, <1>4 DEF ResolveModel
<1>5. CASE CallModel(r)
  <2>1. iter[r] < MaxIter => iter[r] + 1 \in 0..MaxIter
    BY DEF RunnerAssumption
  <2>2. CASE Leave(r, "err") /\ UNCHANGED iter
    BY <1>5, <2>2 DEF CallModel
  <2>3. CASE /\ iter[r] < MaxIter /\ iter' = [iter EXCEPT ![r] = @ + 1]
             /\ Goto(r, "ask") /\ UNCHANGED outcome
    <3>1. iter' \in [Runs -> 0..MaxIter]
      BY <1>1, <2>1, <2>3
    <3>2. pc' \in [Runs -> PCs]
      BY <1>1, <1>5, <2>3 DEF CallModel
    <3>3. QED
      BY <1>1, <1>5, <2>3, <3>1, <3>2 DEF CallModel
  <2>4. QED
    BY <1>5, <2>2, <2>3 DEF CallModel
<1>b. CASE Request(r)
  <2>1. streaming' \subseteq Sessions /\ pc' \in [Runs -> PCs]
    BY <1>1, <1>b DEF Request
  <2> QED BY <1>a, <1>b, <2>1 DEF Request
<1>6. CASE Respond(r)
  <2>1. \A n \in 0..MaxCalls : Append(hist[r], Assistant(n)) \in Seq(Entries)
    BY <1>1, EntryFacts, AppendProperties
  <2>2. CASE Leave(r, "err") /\ UNCHANGED <<streaming, hist, calls>>
    BY <1>6, <2>2 DEF Respond
  <2>3. ASSUME NEW n \in 0..MaxCalls,
               streaming' = streaming \ {sess[r]},
               hist' = [hist EXCEPT ![r] = Append(@, Assistant(n))],
               calls' = [calls EXCEPT ![r] = n],
               Goto(r, IF n = 0 THEN "save" ELSE "tools"),
               UNCHANGED outcome
        PROVE  TypeOK'
    <3>1. hist' \in [Runs -> Seq(Entries)]
      BY <2>1, <2>3
    <3>2. pc' \in [Runs -> PCs] /\ calls' \in [Runs -> 0..MaxCalls]
      BY <2>3
    <3>3. QED
      BY <1>6, <2>3, <3>1, <3>2 DEF Respond
  <2>4. QED
    BY <1>6, <2>2, <2>3 DEF Respond
<1>7. CASE CallTool(r)
  <2>1. calls[r] > 0 => calls[r] - 1 \in 0..MaxCalls
    BY DEF RunnerAssumption
  <2>2. calls' \in [Runs -> 0..MaxCalls]
    BY <1>7, <2>1 DEF CallTool
  <2> QED BY <1>7, <2>2 DEF CallTool
<1>c. CASE RunTool(r)
  <2>1. Append(hist[r], Tool) \in Seq(Entries)
    BY <1>1, EntryFacts, AppendProperties
  <2>2. hist' \in [Runs -> Seq(Entries)]
    BY <1>c, <2>1 DEF RunTool
  <2> QED BY <1>a, <1>c, <2>2 DEF RunTool
<1>8. CASE Save(r)
  BY <1>1, <1>8 DEF Save
<1>9. CASE Release(r)
  BY <1>1, <1>9 DEF Release
<1>10. CASE Notify(r)
  BY <1>1, <1>10 DEF Notify
<1>d. CASE Drain(r)
  BY <1>d DEF Drain
<1>11. CASE Dequeue(r)
  <2>1. queue[sess[r]] # <<>> =>
          Head(queue[sess[r]]) \in Messages /\ Tail(queue[sess[r]]) \in Seq(Queued)
    BY <1>1, HeadTailProperties DEF Messages
  <2>2. CASE queue[sess[r]] = <<>>
    BY <1>11, <2>2 DEF Dequeue
  <2>3. CASE queue[sess[r]] # <<>>
    <3>1. /\ msg' = [msg EXCEPT ![r] = Head(queue[sess[r]])]
          /\ queue' = [queue EXCEPT ![sess[r]] = Tail(@)]
          /\ pc' = [pc EXCEPT ![r] = "reinsert"]
          /\ Works(r)
      BY <1>11, <2>3, Zenon DEF Dequeue
    <3>2. queue' \in [Sessions -> Seq(Queued)]
      BY <2>1, <2>3, <3>1
    <3>3. msg' \in [Runs -> Messages] /\ pc' \in [Runs -> PCs]
      BY <2>1, <2>3, <3>1
    <3>4. QED
      BY <1>11, <1>a, <3>1, <3>2, <3>3 DEF Dequeue
  <2>4. QED
    BY <2>2, <2>3
<1>12. CASE Reinsert(r)
  BY <1>1, <1>12 DEF Reinsert
<1>13. QED
  BY <1>2, <1>3, <1>4, <1>5, <1>6, <1>7, <1>8, <1>9, <1>10, <1>11, <1>12, <1>b, <1>c, <1>d
  DEF Step

\* So does every other operation.
LEMMA TypeNext == ASSUME RunnerAssumption, TypeOK, [Next]_vars PROVE TypeOK'
<1> USE DEF TypeOK, Goto, sharedVars, runVars, waitVars, PCs
<1>1. ASSUME NEW r \in Runs, NEW s \in Sessions, Call(r, s) PROVE TypeOK'
  BY <1>1 DEF Call
<1>2. ASSUME NEW r \in Runs, Step(r) PROVE TypeOK'
  BY <1>2, TypeStep
<1>3. ASSUME NEW r \in Runs, DropCall(r) PROVE TypeOK'
  BY <1>3 DEF DropCall
<1>4. ASSUME NEW m \in Queued, NEW s \in Sessions, QueueMessage(m, s) PROVE TypeOK'
  <2>1. Append(queue[s], m) \in Seq(Queued) /\ Append(arrived[s], m) \in Seq(Queued)
    BY AppendProperties
  <2>2. QED
    BY <1>4, <2>1 DEF QueueMessage
<1>5. ASSUME NEW s \in Sessions, Abort(s) PROVE TypeOK'
  BY <1>5 DEF Abort
<1>6. ASSUME NEW s \in Sessions, AbortTask(s) PROVE TypeOK'
  BY <1>6 DEF AbortTask
<1>7. ASSUME NEW w \in Waiters, NEW s \in Sessions, Wait(w, s) PROVE TypeOK'
  BY <1>7 DEF Wait
<1>8. ASSUME NEW w \in Waiters, WaitStep(w) PROVE TypeOK'
  BY <1>8 DEF WaitStep, WaitCheck, WaitRegister
<1>9. CASE UNCHANGED vars
  BY <1>9 DEF vars
<1>10. QED
  BY <1>1, <1>2, <1>3, <1>4, <1>5, <1>6, <1>7, <1>8, <1>9 DEF Next

\* The variables keep their types: in particular, no lifecycle goes beyond
\* max_tool_iterations.
THEOREM TypeCorrect == ASSUME RunnerAssumption PROVE Spec => []TypeOK
<1>1. Init => TypeOK
  BY TypeInit
<1>2. TypeOK /\ [Next]_vars => TypeOK'
  BY TypeNext
<1>3. QED
  BY <1>1, <1>2, PTL DEF Spec

-----------------------------------------------------------------------------
(* Transcripts consist of whole turns.                                     *)

\* A response that is answered stays answered.
LEMMA AnsweredStays ==
  ASSUME RunnerAssumption, NEW h \in Seq(Entries), NEW e \in Entries,
         NEW g, g = Append(h, e), NEW k \in Responses(h), Answered(h, k)
  PROVE  Answered(g, k)
<1> DEFINE l == Len(h)
           n == h[k].n
<1>1. /\ l \in Nat /\ Len(g) = l + 1
      /\ \A i \in 1..l : g[i] = h[i]
      /\ k \in 1..l
  BY AppendPlaces DEF Responses
<1>2. n \in Nat /\ g[k] = h[k]
  <2>1. h[k] \in Entries
    BY <1>1, ElementOfSeq
  <2>2. QED
    BY <1>1, <2>1, EntryFacts
<1>3. CASE n = 0
  <2>1. k < l /\ h[k+1].role = "user"
    BY <1>3 DEF Answered
  <2>2. k + 1 \in 1..l
    BY <1>1, <2>1
  <2>3. QED
    BY <1>1, <1>2, <1>3, <2>1, <2>2 DEF Answered
<1>4. CASE n # 0
  <2>1. /\ k + n < l
        /\ \A j \in 1..n : h[k+j] = Tool
        /\ h[k+n+1].role = "assistant"
    BY <1>4 DEF Answered
  <2>2. k + n + 1 \in 1..l /\ \A j \in 1..n : k + j \in 1..l
    BY <1>1, <1>2, <2>1
  <2>3. \A j \in 1..n : g[k+j] = Tool
    BY <1>1, <2>1, <2>2
  <2>4. g[k+n+1].role = "assistant" /\ k + n < Len(g)
    BY <1>1, <1>2, <2>1, <2>2
  <2>5. QED
    BY <1>2, <1>4, <2>3, <2>4 DEF Answered
<1>5. QED
  BY <1>3, <1>4

\* What is appended, other than a summary, leaves the summaries first.
LEMMA SummariesAppend ==
  ASSUME NEW h \in Seq(Entries), SummariesFirst(h), NEW e \in Entries, e.role # "system",
         NEW g, g = Append(h, e)
  PROVE  SummariesFirst(g)
<1>1. /\ Len(h) \in Nat /\ DOMAIN h = 1..Len(h) /\ DOMAIN g = 1..(Len(h) + 1)
      /\ \A i \in 1..Len(h) : g[i] = h[i]
      /\ g[Len(h) + 1] = e
  BY AppendPlaces
<1> SUFFICES ASSUME NEW j \in DOMAIN g, NEW k \in DOMAIN g, j < k, g[k].role = "system"
             PROVE  g[j].role = "system"
  BY DEF SummariesFirst
<1>2. k # Len(h) + 1
  BY <1>1
<1>3. j \in 1..Len(h) /\ k \in 1..Len(h)
  BY <1>1, <1>2
<1> QED BY <1>1, <1>3 DEF SummariesFirst

\* A response that waits for no more results is answered by the next one, which
\* waits for its own, or ends the turn.
LEMMA AppendAssistant ==
  ASSUME RunnerAssumption, NEW h \in Seq(Entries), Pending(h, 0),
         NEW n \in 0..MaxCalls, NEW g, g = Append(h, Assistant(n))
  PROVE  /\ g \in Seq(Entries)
         /\ n = 0 => Whole(g)
         /\ n # 0 => Pending(g, n)
<1>1. /\ g \in Seq(Entries) /\ Len(h) \in Nat /\ Len(g) = Len(h) + 1
      /\ DOMAIN h = 1..Len(h) /\ DOMAIN g = 1..Len(g)
      /\ \A i \in 1..Len(h) : g[i] = h[i]
      /\ \A i \in 1..Len(g) : i \in 1..Len(h) \/ i = Len(h) + 1
      /\ g[Len(h) + 1].role = "assistant" /\ g[Len(h) + 1].n = n
      /\ n \in Nat
  BY EntryFacts, AppendPlaces DEF Assistant, RunnerAssumption
<1>2. ASSUME NEW k \in Responses(h) PROVE Answered(g, k)
  <2>1. k \in 1..Len(h) /\ g[k] = h[k]
    BY <1>1 DEF Responses
  <2>2. CASE Answered(h, k)
    BY <2>2, EntryFacts, AnsweredStays
  <2>3. CASE Waits(h, k, 0)
    <3>1. h[k].n \in Nat
      BY <2>1, ElementOfSeq, EntryFacts
    <3>2. /\ h[k].n > 0 /\ k + h[k].n = Len(h)
          /\ \A j \in 1..h[k].n : h[k+j] = Tool
      BY <1>1, <2>3, <3>1 DEF Waits
    <3>3. \A j \in 1..h[k].n : k + j \in 1..Len(h)
      BY <1>1, <2>1, <3>1, <3>2
    <3>4. \A j \in 1..h[k].n : g[k+j] = Tool
      BY <1>1, <3>2, <3>3
    <3>5. /\ h[k].n # 0 /\ k + h[k].n < Len(g)
          /\ k + h[k].n + 1 = Len(h) + 1
      BY <1>1, <2>1, <3>1, <3>2
    <3>6. g[k + h[k].n + 1].role = "assistant"
      BY <1>1, <3>5
    <3>7. QED
      BY <2>1, <3>4, <3>5, <3>6 DEF Answered
  <2>4. QED
    BY <2>2, <2>3 DEF Pending
<1>3. \A k \in Responses(g) : k \in Responses(h) \/ k = Len(g)
  BY <1>1 DEF Responses
<1>4. Waits(g, Len(g), n) \/ n = 0
  BY <1>1 DEF Waits
<1>5. SummariesFirst(g)
  <2>1. Assistant(n) \in Entries /\ Assistant(n).role # "system"
    BY EntryFacts DEF Assistant
  <2> QED BY <2>1, SummariesAppend DEF Pending
<1>6. n = 0 => Whole(g)
  BY <1>1, <1>2, <1>3, <1>5 DEF Whole
<1>7. n # 0 => Pending(g, n)
  BY <1>2, <1>3, <1>4, <1>5 DEF Pending
<1> QED BY <1>1, <1>6, <1>7

\* The result of a tool call is one less to wait for.
LEMMA AppendTool ==
  ASSUME RunnerAssumption, NEW h \in Seq(Entries), NEW c \in Nat, c > 0,
         Pending(h, c), NEW g, g = Append(h, Tool)
  PROVE  g \in Seq(Entries) /\ Pending(g, c - 1)
<1>1. /\ g \in Seq(Entries) /\ Len(h) \in Nat /\ Len(g) = Len(h) + 1
      /\ DOMAIN h = 1..Len(h) /\ DOMAIN g = 1..Len(g)
      /\ \A i \in 1..Len(h) : g[i] = h[i]
      /\ \A i \in 1..Len(g) : i \in 1..Len(h) \/ i = Len(h) + 1
      /\ g[Len(h) + 1] = Tool /\ Tool.role = "tool"
  BY EntryFacts, AppendPlaces DEF Tool
<1>2. ASSUME NEW k \in Responses(g) PROVE Answered(g, k) \/ Waits(g, k, c - 1)
  <2>1. k \in 1..Len(h) /\ g[k] = h[k] /\ k \in Responses(h)
    BY <1>1, <1>2 DEF Responses
  <2>2. CASE Answered(h, k)
    BY <2>1, <2>2, EntryFacts, AnsweredStays
  <2>3. CASE Waits(h, k, c)
    <3> DEFINE n == h[k].n
               l == Len(h)
    <3>1. n \in Nat /\ l \in Nat /\ k \in 1..l /\ Len(g) = l + 1
      BY <1>1, <2>1, ElementOfSeq, EntryFacts
    <3>2. n > 0 /\ k + n = l + c
      BY <2>3 DEF Waits
    <3>3. \A j \in 1..(n - c) : h[k+j] = Tool
      BY <2>3 DEF Waits
    <3>4. \A i \in 1..l : g[i] = h[i]
      BY <1>1
    <3>5. g[l+1] = Tool
      BY <1>1
    <3> HIDE DEF n, l
    <3>6. ASSUME NEW j \in 1..(n - (c - 1)) PROVE g[k+j] = Tool
      <4>1. CASE j \in 1..(n - c)
        <5>1. k + j \in 1..l
          BY <3>1, <3>2, <4>1
        <5>2. QED
          BY <3>3, <3>4, <4>1, <5>1
      <4>2. CASE j = n - c + 1
        <5>1. k + j = l + 1
          BY <3>1, <3>2, <4>2
        <5>2. QED
          BY <3>5, <5>1
      <4>3. j \in 1..(n - c) \/ j = n - c + 1
        BY <3>1
      <4>4. QED
        BY <4>1, <4>2, <4>3, Zenon
    <3>7. k + n = Len(g) + (c - 1)
      BY <3>1, <3>2
    <3>8. g[k].n = n
      BY <2>1 DEF n
    <3>9. QED
      BY <3>2, <3>6, <3>7, <3>8 DEF Waits
  <2>4. QED
    BY <2>1, <2>2, <2>3 DEF Pending
<1>3. SummariesFirst(g)
  <2>1. Tool \in Entries /\ Tool.role # "system"
    BY EntryFacts DEF Tool
  <2> QED BY <2>1, SummariesAppend DEF Pending
<1> QED BY <1>1, <1>2, <1>3 DEF Pending

\* A step that leaves the histories and the store alone keeps the invariant,
\* provided no call comes to a point where its history must be in order.
InOrder == {"prompt", "loop", "ask", "stream", "tools", "execute", "save"}

\* A step that touches neither histories nor transcripts leaves them whole.
LEMMA TurnsKept ==
  ASSUME TurnsInv, TypeOK', UNCHANGED <<hist, calls, transcript>>,
         \A r \in Runs : pc'[r] \in InOrder => pc'[r] = pc[r]
  PROVE  TurnsInv'
BY DEF TurnsInv, HistoriesOK, InOrder

\* A step of one call r that leaves the store alone: its own history decides.
LEMMA TurnsOfOne ==
  ASSUME TurnsInv, TypeOK', NEW r \in Runs, UNCHANGED transcript,
         \A q \in Runs \ {r} :
           pc'[q] = pc[q] /\ hist'[q] = hist[q] /\ calls'[q] = calls[q],
         /\ pc'[r] \in {"prompt", "loop", "ask", "stream"} => Pending(hist'[r], 0)
         /\ pc'[r] = "tools" => Pending(hist'[r], calls'[r])
         /\ pc'[r] = "execute" => Pending(hist'[r], calls'[r] + 1)
         /\ pc'[r] = "save" => Whole(hist'[r])
  PROVE  TurnsInv'
<1>1. HistoriesOK'
  BY Zenon DEF TurnsInv, HistoriesOK
<1>2. QED
  BY <1>1 DEF TurnsInv

\* Empty transcripts are whole.
LEMMA TurnsInit == ASSUME RunnerAssumption, Init PROVE TurnsInv
<1>1. DOMAIN <<>> = {}
  BY EmptySeq, LenProperties
<1>2. Whole(<<>>)
  BY <1>1 DEF Whole, Responses, SummariesFirst
<1>3. \A s \in Sessions : Whole(transcript[s])
  BY <1>2 DEF Init
<1>4. HistoriesOK
  BY DEF Init, HistoriesOK
<1>5. QED
  BY <1>3, <1>4, TypeInit DEF TurnsInv

\* A step of a call keeps its history made of whole turns but for the last
\* response.
LEMMA TurnsStep ==
  ASSUME RunnerAssumption, TurnsInv, TypeOK', NEW r \in Runs, Step(r)
  PROVE  TurnsInv'
<1> USE DEF Goto, Leave, sharedVars, waitVars
<1>0. /\ TypeOK /\ HistoriesOK /\ pc \in [Runs -> PCs] /\ hist \in [Runs -> Seq(Entries)]
      /\ calls \in [Runs -> 0..MaxCalls] /\ sess[r] \in Sessions
      /\ transcript \in [Sessions -> Seq(Entries)]
  BY DEF TurnsInv, TypeOK
<1>1. CASE Insert(r)
  BY <1>0, <1>1, TurnsKept DEF Insert, InOrder
<1>2. CASE Load(r)
  <2>1. ASSUME NEW h \in Fitted(Append(transcript[sess[r]], User(msg[r]))),
               hist' = [hist EXCEPT ![r] = h], Goto(r, "prompt")
        PROVE  TurnsInv'
    <3>1. Pending(hist'[r], 0)
      <4>1. Whole(transcript[sess[r]]) /\ msg[r] \in Messages
            /\ transcript[sess[r]] \in Seq(Entries)
        BY <1>0 DEF TurnsInv, TypeOK
      <4>2. hist'[r] = h
        BY <1>0, <2>1
      <4>3. Pending(h, 0)
        BY <4>1, LoadFits
      <4> QED BY <4>2, <4>3
    <3>2. UNCHANGED <<transcript, calls>>
      BY <1>2 DEF Load
    <3>3. QED
      BY <1>0, <2>1, <3>1, <3>2, TurnsOfOne
  <2>2. CASE Leave(r, "err") /\ UNCHANGED <<hist, iter>>
    BY <1>0, <1>2, <2>2, TurnsKept DEF Load, InOrder
  <2>3. QED
    BY <1>2, <2>1, <2>2, Zenon DEF Load
<1>3. CASE ResolveModel(r)
  <2>1. Pending(hist[r], 0) /\ UNCHANGED <<hist, calls, transcript>>
        /\ \/ pc' = [pc EXCEPT ![r] = "loop"]
           \/ pc' = [pc EXCEPT ![r] = "release"]
    BY <1>0, <1>3 DEF ResolveModel, HistoriesOK
  <2>2. QED
    BY <1>0, <2>1, TurnsOfOne
<1>4. CASE CallModel(r)
  <2>1. Pending(hist[r], 0) /\ UNCHANGED <<hist, calls, transcript>>
        /\ \/ pc' = [pc EXCEPT ![r] = "ask"]
           \/ pc' = [pc EXCEPT ![r] = "release"]
    BY <1>0, <1>4 DEF CallModel, HistoriesOK
  <2>2. QED
    BY <1>0, <2>1, TurnsOfOne
<1>a. CASE Request(r)
  <2>1. Pending(hist[r], 0) /\ UNCHANGED <<hist, calls, transcript>>
        /\ pc' = [pc EXCEPT ![r] = "stream"]
    BY <1>0, <1>a DEF Request, HistoriesOK
  <2>2. QED
    BY <1>0, <2>1, TurnsOfOne
<1>5. CASE Respond(r)
  <2>1. UNCHANGED transcript /\ Pending(hist[r], 0)
    BY <1>0, <1>5 DEF Respond, HistoriesOK
  <2>2. CASE Leave(r, "err") /\ UNCHANGED <<streaming, hist, calls>>
    BY <1>0, <2>1, <2>2, TurnsKept DEF InOrder
  <2>3. ASSUME NEW n \in 0..MaxCalls,
               hist' = [hist EXCEPT ![r] = Append(@, Assistant(n))],
               calls' = [calls EXCEPT ![r] = n],
               Goto(r, IF n = 0 THEN "save" ELSE "tools")
        PROVE  TurnsInv'
    <3>1. hist'[r] = Append(hist[r], Assistant(n)) /\ calls'[r] = n
      BY <1>0, <2>3
    <3>2. (n = 0 => Whole(hist'[r])) /\ (n # 0 => Pending(hist'[r], n))
      BY <1>0, <2>1, <3>1, AppendAssistant
    <3>3. pc'[r] = IF n = 0 THEN "save" ELSE "tools"
      BY <1>0, <2>3
    <3>4. \A q \in Runs \ {r} :
            pc'[q] = pc[q] /\ hist'[q] = hist[q] /\ calls'[q] = calls[q]
      BY <1>0, <2>3
    <3>5. QED
      BY <2>1, <3>1, <3>2, <3>3, <3>4, TurnsOfOne
  <2>4. QED
    BY <1>5, <2>2, <2>3 DEF Respond
<1>6. CASE CallTool(r)
  <2>1. UNCHANGED transcript /\ Pending(hist[r], calls[r])
    BY <1>0, <1>6 DEF CallTool, HistoriesOK
  <2>2. CASE calls[r] = 0
    <3>1. UNCHANGED <<hist, calls>> /\ pc' = [pc EXCEPT ![r] = "loop"]
      BY <1>6, <2>2 DEF CallTool
    <3>2. QED
      BY <1>0, <2>1, <2>2, <3>1, TurnsOfOne
  <2>3. CASE calls[r] > 0 /\ r \in cancelled
    <3>1. UNCHANGED <<hist, calls>> /\ pc' = [pc EXCEPT ![r] = "release"]
      BY <1>6, <2>3 DEF CallTool
    <3>2. QED
      BY <1>0, <2>1, <3>1, TurnsKept DEF InOrder
  <2>4. CASE calls[r] > 0 /\ r \notin cancelled
    <3>1. /\ calls' = [calls EXCEPT ![r] = @ - 1] /\ hist' = hist
          /\ pc' = [pc EXCEPT ![r] = "execute"]
      BY <1>6, <2>4 DEF CallTool
    <3>2. calls'[r] = calls[r] - 1 /\ calls[r] - 1 + 1 = calls[r]
      BY <1>0, <3>1 DEF RunnerAssumption
    <3>3. Pending(hist'[r], calls'[r] + 1)
      BY <2>1, <3>1, <3>2
    <3> QED BY <1>0, <2>1, <3>1, <3>3, TurnsOfOne
  <2>5. QED
    BY <1>6, <2>2, <2>3, <2>4 DEF CallTool
<1>b. CASE RunTool(r)
  <2>1. UNCHANGED <<transcript, calls>> /\ Pending(hist[r], calls[r] + 1)
        /\ hist' = [hist EXCEPT ![r] = Append(@, Tool)] /\ pc' = [pc EXCEPT ![r] = "tools"]
    BY <1>0, <1>b DEF RunTool, HistoriesOK
  <2>2. calls[r] \in Nat
    BY <1>0 DEF RunnerAssumption
  <2>3. hist'[r] = Append(hist[r], Tool) /\ hist[r] \in Seq(Entries)
    BY <1>0, <2>1
  <2>5. Pending(hist'[r], calls'[r])
    <3> DEFINE c == calls[r] + 1
    <3>0. c \in Nat /\ c > 0 /\ c - 1 = calls[r]
      BY <2>2
    <3>1. Pending(hist[r], c) /\ calls'[r] = calls[r]
      BY <2>1
    <3> HIDE DEF c
    <3>2. Pending(Append(hist[r], Tool), c - 1)
      BY <2>3, <3>0, <3>1, AppendTool
    <3> QED BY <2>3, <3>0, <3>1, <3>2
  <2> QED BY <1>0, <2>1, <2>5, TurnsOfOne
<1>7. CASE Save(r)
  <2>1. UNCHANGED <<hist, calls>> /\ pc' = [pc EXCEPT ![r] = "release"]
        /\ Whole(hist[r])
    BY <1>0, <1>7 DEF Save, HistoriesOK
  <2>2. \A s \in Sessions : Whole(transcript'[s])
    BY <1>0, <1>7, <2>1 DEF Save, TurnsInv
  <2>3. HistoriesOK'
    BY <1>0, <2>1 DEF HistoriesOK
  <2>4. QED
    BY <2>2, <2>3 DEF TurnsInv
<1>8. CASE Release(r)
  <2>1. UNCHANGED transcript /\ pc' = [pc EXCEPT ![r] = "notify"]
        /\ hist' = [hist EXCEPT ![r] = <<>>] /\ calls' = [calls EXCEPT ![r] = 0]
    BY <1>8 DEF Release
  <2>2. QED
    BY <1>0, <2>1, TurnsOfOne
<1>9. CASE Notify(r)
  BY <1>0, <1>9, TurnsKept DEF Notify, InOrder
<1>c. CASE Drain(r)
  BY <1>0, <1>c, TurnsKept DEF Drain, InOrder
<1>10. CASE Dequeue(r)
  BY <1>0, <1>10, TurnsKept DEF Dequeue, InOrder
<1>11. CASE Reinsert(r)
  BY <1>0, <1>11, TurnsKept DEF Reinsert, InOrder
<1>12. QED
  BY <1>1, <1>2, <1>3, <1>4, <1>5, <1>6, <1>7, <1>8, <1>9, <1>10, <1>11, <1>a, <1>b, <1>c
  DEF Step

\* So does each step of callers, waiters and calls.
LEMMA TurnsNext ==
  ASSUME RunnerAssumption, TurnsInv, [Next]_vars PROVE TurnsInv'
<1> USE DEF Goto, sharedVars, runVars, waitVars, InOrder
<1>0. TypeOK' /\ pc \in [Runs -> PCs]
  BY TypeNext DEF TurnsInv, TypeOK
<1>1. ASSUME NEW r \in Runs, Step(r) PROVE TurnsInv'
  BY <1>0, <1>1, TurnsStep
<1>2. ASSUME NEW r \in Runs, NEW s \in Sessions, Call(r, s) PROVE TurnsInv'
  BY <1>0, <1>2, TurnsKept DEF Call
<1>3. ASSUME NEW r \in Runs, DropCall(r) PROVE TurnsInv'
  BY <1>0, <1>3, TurnsKept DEF DropCall
<1>4. ASSUME NEW m \in Queued, NEW s \in Sessions, QueueMessage(m, s) PROVE TurnsInv'
  BY <1>0, <1>4, TurnsKept DEF QueueMessage
<1>5. ASSUME NEW s \in Sessions, Abort(s) \/ AbortTask(s) PROVE TurnsInv'
  BY <1>0, <1>5, TurnsKept DEF Abort, AbortTask
<1>6. ASSUME NEW w \in Waiters, NEW s \in Sessions, Wait(w, s) PROVE TurnsInv'
  BY <1>0, <1>6, TurnsKept DEF Wait
<1>7. ASSUME NEW w \in Waiters, WaitStep(w) PROVE TurnsInv'
  BY <1>0, <1>7, TurnsKept DEF WaitStep, WaitCheck, WaitRegister
<1>8. CASE UNCHANGED vars
  BY <1>0, <1>8, TurnsKept DEF vars
<1>9. QED
  BY <1>1, <1>2, <1>3, <1>4, <1>5, <1>6, <1>7, <1>8 DEF Next

\* What the invariant says of the transcripts.
LEMMA TurnsMean == TurnsInv => WholeTurns
BY DEF TurnsInv, Whole, Responses, Answered, WholeTurns

\* Whatever callers do, however responses, tools and cancellations interleave,
\* every stored transcript consists of whole turns.
THEOREM TurnsAreWhole == ASSUME RunnerAssumption PROVE Spec => []WholeTurns
<1>1. Init => TurnsInv
  BY TurnsInit
<1>2. TurnsInv /\ [Next]_vars => TurnsInv'
  BY TurnsNext
<1> QED BY <1>1, <1>2, TurnsMean, PTL DEF Spec

-----------------------------------------------------------------------------
(* A cancelled run does one thing more at the most.                        *)

\* The points between a look at the token and the work it allows.
Committed == {"ask", "execute", "take"}

\* A call that began a piece of work after its cancellation is over the one point
\* where it could.
CancelInv ==
  /\ TypeOK
  /\ \A r \in Runs :
       late[r] = 0 \/ (late[r] = 1 /\ r \in cancelled /\ pc[r] \notin Committed)

\* A step of the call itself.
LEMMA CancelOwn ==
  ASSUME CancelInv, NEW r \in Runs, Step(r)
  PROVE  late'[r] = 0 \/ (late'[r] = 1 /\ r \in cancelled' /\ pc'[r] \notin Committed)
<1> USE DEF Goto, Leave, sharedVars, waitVars, Committed
<1>0. /\ pc \in [Runs -> PCs] /\ late \in [Runs -> Nat]
      /\ late[r] = 0 \/ (late[r] = 1 /\ r \in cancelled /\ pc[r] \notin Committed)
  BY DEF CancelInv, TypeOK
<1>1. Works(r) /\ pc[r] \in Committed => late'[r] = 0 \/ (late'[r] = 1 /\ r \in cancelled)
  BY <1>0 DEF Works
<1>2. CASE Insert(r) \/ Load(r) \/ ResolveModel(r) \/ Respond(r) \/ Save(r)
  BY <1>0, <1>2 DEF Insert, Load, ResolveModel, Respond, Save
<1>3. CASE CallModel(r)
  BY <1>0, <1>3 DEF CallModel
<1>4. CASE CallTool(r)
  BY <1>0, <1>4 DEF CallTool
<1>5. CASE Drain(r)
  BY <1>0, <1>5 DEF Drain
<1>6. CASE Request(r) \/ RunTool(r)
  BY <1>0, <1>1, <1>6 DEF Request, RunTool
<1>7. CASE Dequeue(r)
  BY <1>0, <1>1, <1>7 DEF Dequeue
<1>8. CASE Release(r) \/ Notify(r) \/ Reinsert(r)
  BY <1>0, <1>8 DEF Release, Notify, Reinsert
<1> QED
  BY <1>2, <1>3, <1>4, <1>5, <1>6, <1>7, <1>8 DEF Step

\* What a step of one call leaves of the others.
LEMMA StepIsOwn ==
  ASSUME TypeOK, NEW r \in Runs, NEW q \in Runs \ {r}, Step(r)
  PROVE  /\ pc'[q] = pc[q] /\ sess'[q] = sess[q] /\ msg'[q] = msg[q] /\ hist'[q] = hist[q]
         /\ outcome'[q] = outcome[q] /\ result'[q] = result[q] /\ late'[q] = late[q]
         /\ UNCHANGED cancelled
<1> USE DEF TypeOK, Goto, Leave, Works, sharedVars, waitVars
<1>1. CASE Insert(r) \/ Load(r) \/ ResolveModel(r)
  BY <1>1 DEF Insert, Load, ResolveModel
<1>2. CASE CallModel(r) \/ Request(r)
  BY <1>2 DEF CallModel, Request
<1>3. CASE Respond(r) \/ CallTool(r)
  BY <1>3 DEF Respond, CallTool
<1>4. CASE RunTool(r) \/ Save(r)
  BY <1>4 DEF RunTool, Save
<1>5. CASE Release(r) \/ Notify(r)
  BY <1>5 DEF Release, Notify
<1>6. CASE Drain(r) \/ Dequeue(r) \/ Reinsert(r)
  BY <1>6 DEF Drain, Dequeue, Reinsert
<1> QED BY <1>1, <1>2, <1>3, <1>4, <1>5, <1>6 DEF Step

\* All steps.
LEMMA CancelNext ==
  ASSUME RunnerAssumption, CancelInv, [Next]_vars PROVE CancelInv'
<1> USE DEF Goto, sharedVars, runVars, waitVars
<1>0. TypeOK /\ TypeOK' /\ pc \in [Runs -> PCs] /\ late \in [Runs -> Nat]
  BY TypeNext DEF CancelInv, TypeOK
<1> DEFINE Once(r) == late[r] = 0 \/ (late[r] = 1 /\ r \in cancelled /\ pc[r] \notin Committed)
<1>1. \A r \in Runs : Once(r)
  BY DEF CancelInv
<1>2. ASSUME NEW r \in Runs, Step(r), NEW q \in Runs PROVE Once(q)'
  <2>1. CASE q = r
    BY <1>2, <2>1, CancelOwn
  <2>2. CASE q # r
    BY <1>0, <1>1, <1>2, <2>2, StepIsOwn
  <2> QED BY <2>1, <2>2
<1>3. ASSUME NEW r \in Runs, NEW s \in Sessions, Call(r, s), NEW q \in Runs PROVE Once(q)'
  BY <1>0, <1>1, <1>3 DEF Call, Committed
<1>4. ASSUME NEW r \in Runs, DropCall(r), NEW q \in Runs PROVE Once(q)'
  BY <1>0, <1>1, <1>4 DEF DropCall, Committed
<1>5. ASSUME UNCHANGED <<pc, late>>, cancelled \subseteq cancelled', NEW q \in Runs PROVE Once(q)'
  BY <1>1, <1>5
<1>6. ASSUME NEW m \in Queued, NEW s \in Sessions, QueueMessage(m, s), NEW q \in Runs PROVE Once(q)'
  BY <1>5, <1>6 DEF QueueMessage
<1>7. ASSUME NEW s \in Sessions, Abort(s) \/ AbortTask(s), NEW q \in Runs PROVE Once(q)'
  BY <1>5, <1>7 DEF Abort, AbortTask
<1>8. ASSUME NEW w \in Waiters, NEW s \in Sessions, Wait(w, s), NEW q \in Runs PROVE Once(q)'
  BY <1>5, <1>8 DEF Wait
<1>9. ASSUME NEW w \in Waiters, WaitStep(w), NEW q \in Runs PROVE Once(q)'
  BY <1>5, <1>9 DEF WaitStep, WaitCheck, WaitRegister
<1>10. ASSUME UNCHANGED vars, NEW q \in Runs PROVE Once(q)'
  BY <1>5, <1>10 DEF vars
<1>11. \A q \in Runs : Once(q)'
  BY <1>2, <1>3, <1>4, <1>6, <1>7, <1>8, <1>9, <1>10 DEF Next
<1> QED BY <1>0, <1>11 DEF CancelInv

\* However the task of abort_run falls between the looks at the token and what
\* follows them, a cancelled run begins one request, one tool or one buffered
\* message more at the most.
THEOREM CancelIsFinal == ASSUME RunnerAssumption PROVE Spec => []CancelStopsWork
<1>1. Init => CancelInv
  BY TypeInit DEF CancelInv, Init
<1>2. CancelInv /\ [Next]_vars => CancelInv'
  BY CancelNext
<1>3. CancelInv => CancelStopsWork
  BY DEF CancelInv, CancelStopsWork
<1> QED BY <1>1, <1>2, <1>3, PTL DEF Spec

-----------------------------------------------------------------------------
(* Callers that go through a lane.                                         *)

\* The entry of the session of the only call in progress.
LEMMA EntryOfOne ==
  ASSUME RunnerAssumption, LaneInv, NEW r \in Runs, InProgress(r)
  PROVE  /\ active[sess[r]] = IF InRun(r) THEN r ELSE NoRun
         /\ \A q \in Runs \ {r} : ~InProgress(q) /\ ~InRun(q)
<1>1. \A q \in Runs \ {r} : ~InProgress(q) /\ ~InRun(q)
  BY DEF LaneInv, OneInProgress, InProgress, InRun, InLifecycle, Over
<1>2. active[sess[r]] \in Runs \cup {NoRun} /\ sess[r] \in Sessions
  BY DEF LaneInv, TurnsInv, TypeOK
<1>3. \A q \in Runs : active[sess[r]] = q <=> sess[q] = sess[r] /\ InRun(q)
  BY <1>2 DEF LaneInv, EntryIsTheRun
<1>4. QED
  BY <1>1, <1>2, <1>3

\* A step of the call in progress: its own entry and history decide.
LEMMA LaneOfOne ==
  ASSUME RunnerAssumption, LaneInv, TurnsInv', NEW r \in Runs, InProgress(r),
         UNCHANGED sess,
         \A q \in Runs \ {r} : pc'[q] = pc[q],
         \A s \in Sessions \ {sess[r]} : active'[s] = active[s],
         active'[sess[r]] = IF InRun(r)' THEN r ELSE NoRun,
         pc'[r] \in InLifecycle \ {"load"} =>
           Continues(hist'[r], transcript'[sess[r]])
  PROVE  LaneInv'
<1>1. \A q \in Runs \ {r} : ~InProgress(q)' /\ ~InRun(q)' /\ ~InRun(q)
  BY EntryOfOne DEF InProgress, InRun
<1>2. OneInProgress'
  BY <1>1 DEF OneInProgress
<1>3. ASSUME NEW s \in Sessions, NEW q \in Runs
      PROVE  active'[s] = q <=> sess'[q] = s /\ InRun(q)'
  <2>1. active[s] = q <=> sess[q] = s /\ InRun(q)
    BY DEF LaneInv, EntryIsTheRun
  <2>2. CASE s = sess[r]
    BY <1>1, <2>2 DEF RunnerAssumption
  <2>3. CASE s # sess[r]
    BY <1>1, <2>1, <2>3
  <2>4. QED
    BY <2>2, <2>3
<1>4. EntryIsTheRun'
  BY <1>3 DEF EntryIsTheRun
<1>5. ASSUME NEW q \in Runs, pc'[q] \in InLifecycle \ {"load"}
      PROVE  Continues(hist[q], transcript[sess[q]])'
  <2>1. q = r
    BY <1>1, <1>5 DEF InRun
  <2> QED BY <1>5, <2>1
<1>6. HistoryContinues'
  BY <1>5 DEF HistoryContinues
<1>7. QED
  BY <1>2, <1>4, <1>6 DEF LaneInv

\* A step in which no call moves.
LEMMA LaneElsewhere ==
  ASSUME LaneInv, TurnsInv', UNCHANGED runVars, UNCHANGED <<active, transcript>>
  PROVE  LaneInv'
<1>1. UNCHANGED <<pc, sess, hist>>
  BY DEF runVars
<1>2. HistoryContinues'
  BY <1>1 DEF LaneInv, HistoryContinues
<1> QED
  BY <1>1, <1>2 DEF LaneInv, OneInProgress, EntryIsTheRun, InProgress, InRun

\* Nothing runs, so no entry is there.
LEMMA LaneInit == ASSUME RunnerAssumption, Init PROVE LaneInv
<1>1. \A r \in Runs : ~InProgress(r) /\ ~InRun(r) /\ pc[r] \notin InLifecycle
  BY DEF Init, InProgress, InRun, InLifecycle, Over
<1>2. \A s \in Sessions : active[s] \notin Runs
  BY DEF Init, RunnerAssumption
<1>3. QED
  BY <1>1, <1>2, TurnsInit DEF LaneInv, OneInProgress, EntryIsTheRun, HistoryContinues

\* The lane lets a call in when no other is in progress.
LEMMA LaneIsFree ==
  ASSUME RunnerAssumption, OneAtATime, NEW r \in Runs, NEW s \in Sessions, Call(r, s)
  PROVE  \A q \in Runs : ~InProgress(q)
<1> DEFINE busy == {q \in Runs : InProgress(q)}
<1>1. IsFiniteSet(busy) /\ Cardinality(busy) \in Nat
  BY FS_Subset, FS_CardinalityType DEF RunnerAssumption
<1>2. Cardinality(busy) < 1
  BY DEF Call, OneAtATime
<1>3. Cardinality(busy) = 0
  BY <1>1, <1>2
<1>4. busy = {}
  BY <1>1, <1>3, FS_EmptySet
<1>5. QED
  BY <1>4

\* A call that begins meets no other.
LEMMA LaneCall ==
  ASSUME RunnerAssumption, OneAtATime, LaneInv, TurnsInv',
         NEW r \in Runs, NEW s \in Sessions, Call(r, s)
  PROVE  LaneInv'
<1>1. \A q \in Runs : ~InProgress(q)
  BY LaneIsFree
<1>2. \A q \in Runs : ~InRun(q) /\ pc[q] \notin InLifecycle
  BY <1>1 DEF InProgress, InRun, InLifecycle, Over
<1>3. /\ UNCHANGED <<active, transcript, hist>>
      /\ \A q \in Runs \ {r} : pc'[q] = pc[q]
      /\ pc'[r] \in {"busy", "insert"}
  BY DEF LaneInv, TurnsInv, TypeOK, Call, Goto, sharedVars
<1>4. OneInProgress'
  BY <1>1, <1>3 DEF OneInProgress, InProgress
<1>5. \A q \in Runs : ~InRun(q)' /\ pc'[q] \notin InLifecycle
  BY <1>2, <1>3 DEF InRun, InLifecycle
<1>6. \A q \in Runs, t \in Sessions : active'[t] # q
  BY <1>2, <1>3 DEF LaneInv, EntryIsTheRun
<1>7. QED
  BY <1>4, <1>5, <1>6 DEF LaneInv, EntryIsTheRun, HistoryContinues

\* Only a call in progress makes steps.
LEMMA StepInProgress == ASSUME NEW r \in Runs, Step(r) PROVE InProgress(r)
BY DEF Step, InProgress, Over, Insert, Load, ResolveModel, CallModel, Request, Respond,
   CallTool, RunTool, Save, Release, Notify, Drain, Dequeue, Reinsert

\* A step of run_agent.
LEMMA LaneStep ==
  ASSUME RunnerAssumption, LaneInv, TurnsInv', NEW r \in Runs, Step(r)
  PROVE  LaneInv'
<1> USE DEF Goto, Leave, sharedVars, waitVars, InRun, InLifecycle
<1> DEFINE t == transcript[sess[r]]
<1>0. /\ pc \in [Runs -> PCs] /\ hist \in [Runs -> Seq(Entries)]
      /\ sess[r] \in Sessions /\ active \in [Sessions -> Runs \cup {NoRun}]
      /\ t \in Seq(Entries) /\ hist[r] \in Seq(Entries)
      /\ msg[r] \in Messages /\ Whole(t)
      /\ transcript \in [Sessions -> Seq(Entries)]
  BY DEF LaneInv, TurnsInv, TypeOK
<1>1. InProgress(r)
  BY StepInProgress
<1>2. /\ active[sess[r]] = IF InRun(r) THEN r ELSE NoRun
      /\ pc[r] \in InLifecycle \ {"load"} => Continues(hist[r], t)
  BY <1>1, EntryOfOne DEF LaneInv, HistoryContinues
<1>3. CASE Insert(r) \/ Reinsert(r)
  <2>1. /\ active' = [active EXCEPT ![sess[r]] = r]
        /\ pc' = [pc EXCEPT ![r] = "load"]
        /\ UNCHANGED sess
    BY <1>3 DEF Insert, Reinsert
  <2>2. QED
    BY <1>0, <1>1, <2>1, LaneOfOne
<1>4. CASE Load(r)
  <2>1. UNCHANGED <<sess, active, transcript>> /\ pc[r] = "load"
    BY <1>4 DEF Load
  <2>2. ASSUME NEW h \in Fitted(Append(t, User(msg[r]))),
               hist' = [hist EXCEPT ![r] = h], Goto(r, "prompt")
        PROVE  LaneInv'
    <3>1. Continues(h, t)
      BY <1>0, LoadFits
    <3>2. Continues(hist'[r], transcript'[sess[r]])
      BY <1>0, <2>1, <2>2, <3>1
    <3>3. pc'[r] = "prompt" /\ \A q \in Runs \ {r} : pc'[q] = pc[q]
      BY <1>0, <2>2
    <3> QED BY <1>0, <1>1, <1>2, <2>1, <3>2, <3>3, LaneOfOne
  <2>3. CASE Leave(r, "err")
    BY <1>0, <1>1, <1>2, <2>1, <2>3, LaneOfOne
  <2> QED BY <1>4, <2>2, <2>3, Zenon DEF Load
<1>5. CASE ResolveModel(r) \/ CallModel(r) \/ Request(r) \/ CallTool(r)
  <2>1. /\ UNCHANGED <<sess, active, transcript, hist>>
        /\ pc[r] \in {"prompt", "loop", "ask", "tools"}
        /\ \A q \in Runs \ {r} : pc'[q] = pc[q]
        /\ pc'[r] \in {"loop", "ask", "stream", "execute", "release"}
    BY <1>0, <1>5 DEF ResolveModel, CallModel, Request, CallTool
  <2>2. pc'[r] # "release" => Continues(hist'[r], transcript'[sess[r]])
    BY <1>0, <1>2, <2>1
  <2>3. active'[sess[r]] = IF InRun(r)' THEN r ELSE NoRun
    BY <1>2, <2>1
  <2> QED BY <1>0, <1>1, <2>1, <2>2, <2>3, LaneOfOne
<1>6. CASE Respond(r)
  <2>1. UNCHANGED <<sess, active, transcript>> /\ pc[r] = "stream"
    BY <1>6 DEF Respond
  <2>2. CASE Leave(r, "err")
    BY <1>0, <1>1, <1>2, <2>1, <2>2, LaneOfOne
  <2>3. ASSUME NEW n \in 0..MaxCalls,
               hist' = [hist EXCEPT ![r] = Append(@, Assistant(n))],
               Goto(r, IF n = 0 THEN "save" ELSE "tools")
        PROVE  LaneInv'
    <3>0. Assistant(n) \in Entries /\ Assistant(n).role = "assistant"
      BY EntryFacts DEF Assistant
    <3>1. Continues(Append(hist[r], Assistant(n)), t)
      BY <1>0, <1>2, <2>1, <3>0, ContinuesAppend
    <3>2. Continues(hist'[r], transcript'[sess[r]])
      BY <1>0, <2>1, <2>3, <3>1
    <3>3. pc'[r] \in {"save", "tools"} /\ \A q \in Runs \ {r} : pc'[q] = pc[q]
      BY <1>0, <2>3
    <3> QED BY <1>0, <1>1, <1>2, <2>1, <3>2, <3>3, LaneOfOne
  <2>4. QED
    BY <1>6, <2>2, <2>3 DEF Respond
<1>7. CASE RunTool(r)
  <2>1. /\ UNCHANGED <<sess, active, transcript>> /\ pc[r] = "execute"
        /\ hist' = [hist EXCEPT ![r] = Append(@, Tool)]
        /\ pc' = [pc EXCEPT ![r] = "tools"]
    BY <1>7 DEF RunTool
  <2>2. Tool \in Entries /\ Tool.role = "tool"
    BY EntryFacts DEF Tool
  <2>3. Continues(Append(hist[r], Tool), t)
    BY <1>0, <1>2, <2>1, <2>2, ContinuesAppend
  <2>4. Continues(hist'[r], transcript'[sess[r]])
    BY <1>0, <2>1, <2>3
  <2> QED BY <1>0, <1>1, <1>2, <2>1, <2>4, LaneOfOne
<1>8. CASE Save(r)
  <2>1. UNCHANGED <<sess, active>> /\ pc[r] = "save" /\ pc' = [pc EXCEPT ![r] = "release"]
    BY <1>8 DEF Save
  <2>2. QED
    BY <1>0, <1>1, <1>2, <2>1, LaneOfOne
<1>9. CASE Release(r)
  <2>1. UNCHANGED sess /\ pc' = [pc EXCEPT ![r] = "notify"]
        /\ active' = [active EXCEPT ![sess[r]] = NoRun]
    BY <1>9 DEF Release
  <2>2. QED
    BY <1>0, <1>1, <2>1, LaneOfOne
<1>10. CASE Notify(r) \/ Drain(r) \/ Dequeue(r)
  <2>1. /\ UNCHANGED <<sess, active>> /\ pc[r] \in {"notify", "drain", "take"}
        /\ \A q \in Runs \ {r} : pc'[q] = pc[q]
        /\ pc'[r] \in {"drain", "done", "take", "reinsert"}
    BY <1>0, <1>10 DEF Notify, Drain, Dequeue
  <2>2. QED
    BY <1>0, <1>1, <1>2, <2>1, LaneOfOne
<1>11. QED
  BY <1>3, <1>4, <1>5, <1>6, <1>7, <1>8, <1>9, <1>10 DEF Step

\* One call at a time, each step keeps the entry true.
LEMMA LaneNext ==
  ASSUME RunnerAssumption, OneAtATime, LaneInv, [Next]_vars PROVE LaneInv'
<1> USE DEF sharedVars
<1>0. TurnsInv'
  BY TurnsNext DEF LaneInv
<1>1. ASSUME NEW r \in Runs, Step(r) PROVE LaneInv'
  BY <1>0, <1>1, LaneStep
<1>2. ASSUME NEW r \in Runs, NEW s \in Sessions, Call(r, s) PROVE LaneInv'
  BY <1>0, <1>2, LaneCall
<1>3. ASSUME NEW r \in Runs, DropCall(r) PROVE FALSE
  BY <1>3 DEF DropCall, OneAtATime
<1>4. ASSUME NEW m \in Queued, NEW s \in Sessions, QueueMessage(m, s) PROVE LaneInv'
  BY <1>0, <1>4, LaneElsewhere DEF QueueMessage
<1>5. ASSUME NEW s \in Sessions, Abort(s) \/ AbortTask(s) PROVE LaneInv'
  BY <1>0, <1>5, LaneElsewhere DEF Abort, AbortTask
<1>6. ASSUME NEW w \in Waiters, NEW s \in Sessions, Wait(w, s) PROVE LaneInv'
  BY <1>0, <1>6, LaneElsewhere DEF Wait
<1>7. ASSUME NEW w \in Waiters, WaitStep(w) PROVE LaneInv'
  BY <1>0, <1>7, LaneElsewhere DEF WaitStep, WaitCheck, WaitRegister
<1>8. CASE UNCHANGED vars
  BY <1>0, <1>8, LaneElsewhere DEF vars, runVars
<1>9. QED
  BY <1>1, <1>2, <1>3, <1>4, <1>5, <1>6, <1>7, <1>8 DEF Next

\* Driven through a lane, active_runs tells the truth: a session is busy
\* exactly while a call is in a lifecycle for it.
THEOREM EntriesAreTrue ==
  ASSUME RunnerAssumption, OneAtATime PROVE Spec => []EntryIsTheRun
<1>1. Init => LaneInv
  BY LaneInit
<1>2. LaneInv /\ [Next]_vars => LaneInv'
  BY LaneNext
<1>3. LaneInv => EntryIsTheRun
  BY DEF LaneInv
<1>4. QED
  BY <1>1, <1>2, <1>3, PTL DEF Spec

\* Only Save touches the store.
LEMMA OnlySave ==
  ASSUME [Next]_vars
  PROVE  \/ UNCHANGED transcript
         \/ \E r \in Runs : Save(r) /\ transcript' = [transcript EXCEPT ![sess[r]] = hist[r]]
<1> USE DEF sharedVars
<1>1. ASSUME NEW r \in Runs, Save(r)
      PROVE  \/ UNCHANGED transcript
             \/ transcript' = [transcript EXCEPT ![sess[r]] = hist[r]]
  BY <1>1, Zenon DEF Save
<1>2. ASSUME NEW r \in Runs, Step(r), ~Save(r) PROVE UNCHANGED transcript
  BY <1>2 DEF Step, Insert, Load, ResolveModel, CallModel, Request, Respond, CallTool,
     RunTool, Release, Notify, Drain, Dequeue, Reinsert
<1> QED
  BY <1>1, <1>2 DEF Next, Call, DropCall, QueueMessage, Abort, AbortTask, Wait,
     WaitStep, WaitCheck, WaitRegister, vars

\* What changes in the store continues what was there.
LEMMA SaveContinues ==
  ASSUME LaneInv, [Next]_vars, NEW s \in Sessions, transcript'[s] # transcript[s]
  PROVE  Continues(transcript'[s], transcript[s])
<1>1. PICK r \in Runs : Save(r) /\ transcript' = [transcript EXCEPT ![sess[r]] = hist[r]]
  BY OnlySave
<1>2. transcript \in [Sessions -> Seq(Entries)]
  BY DEF LaneInv, TurnsInv, TypeOK
<1>3. s = sess[r] /\ transcript'[s] = hist[r]
  BY <1>1, <1>2
<1>4. pc[r] = "save"
  BY <1>1 DEF Save
<1>5. Continues(hist[r], transcript[sess[r]])
  BY <1>4 DEF LaneInv, HistoryContinues, InLifecycle
<1> QED BY <1>3, <1>5

\* Driven through a lane, no turn is lost silently: what a call saves is what was
\* stored, or the end of it behind a summary of the rest, and its own turn; or the
\* last KeepLast entries and its turn.
THEOREM NoTurnIsLost ==
  ASSUME RunnerAssumption, OneAtATime PROVE Spec => TranscriptContinues
<1>1. Init => LaneInv
  BY LaneInit
<1>2. LaneInv /\ [Next]_vars => LaneInv'
  BY LaneNext
<1>3. LaneInv /\ [Next]_vars => [Continued]_vars
  BY SaveContinues DEF Continued
<1>4. QED
  BY <1>1, <1>2, <1>3, PTL DEF Spec, TranscriptContinues

-----------------------------------------------------------------------------
(* Buffered messages.                                                      *)

\* How many of the messages that arrived have been taken from the buffer.
Taken(s) == Len(arrived[s]) - Len(queue[s])

\* The buffer holds the others, in the order they arrived.
BufferIsTheRest ==
  \A s \in Sessions :
    /\ Taken(s) \in Nat
    /\ \A i \in 1..Len(queue[s]) : queue[s][i] = arrived[s][Taken(s) + i]

\* The buffered messages of history h are among the first d of v, in order.
Ordered(h, v, d) ==
  /\ \A j \in DOMAIN h : h[j].of \in Queued => \E a \in 1..d : v[a] = h[j].of
  /\ \A j, k \in DOMAIN h :
       j < k /\ h[j].of \in Queued /\ h[k].of \in Queued =>
         \E a, b \in 1..d : a < b /\ v[a] = h[j].of /\ v[b] = h[k].of

\* The message of call r was taken last, after those of the transcript.
TookLast(r) ==
  LET s == sess[r] IN
  /\ Taken(s) > 0
  /\ arrived[s][Taken(s)] = msg[r]
  /\ Ordered(transcript[s], arrived[s], Taken(s) - 1)

HistoryOrdered(r) ==
  /\ pc[r] \in {"reinsert", "load"} /\ msg[r] \in Queued => TookLast(r)
  /\ pc[r] \in InLifecycle \ {"load"} =>
       Ordered(hist[r], arrived[sess[r]], Taken(sess[r]))

BufferInv ==
  /\ LaneInv
  /\ BufferIsTheRest
  /\ \A s \in Sessions : Ordered(transcript[s], arrived[s], Taken(s))
  /\ \A r \in Runs : HistoryOrdered(r)

\* Messages that arrive later, or are taken later, change nothing.
LEMMA OrderedStays ==
  ASSUME NEW h, NEW v, NEW w, NEW d \in Nat, NEW e \in Nat, d <= e,
         \A a \in 1..d : w[a] = v[a], Ordered(h, v, d)
  PROVE  Ordered(h, w, e)
<1>1. \A a \in 1..d : a \in 1..e /\ w[a] = v[a]
  OBVIOUS
<1>2. ASSUME NEW j \in DOMAIN h, h[j].of \in Queued
      PROVE  \E a \in 1..e : w[a] = h[j].of
  <2>1. PICK a \in 1..d : v[a] = h[j].of
    BY <1>2 DEF Ordered
  <2>2. QED
    BY <1>1, <2>1
<1>3. ASSUME NEW j \in DOMAIN h, NEW k \in DOMAIN h, j < k,
             h[j].of \in Queued, h[k].of \in Queued
      PROVE  \E a, b \in 1..e : a < b /\ w[a] = h[j].of /\ w[b] = h[k].of
  <2>1. PICK a \in 1..d, b \in 1..d : a < b /\ v[a] = h[j].of /\ v[b] = h[k].of
    BY <1>3 DEF Ordered
  <2>2. QED
    BY <1>1, <2>1
<1>4. QED
  BY <1>2, <1>3 DEF Ordered

\* Neither does an entry that is no buffered message.
LEMMA OrderedOther ==
  ASSUME NEW h \in Seq(Entries), NEW e \in Entries, e.of \notin Queued,
         NEW v, NEW d, Ordered(h, v, d)
  PROVE  Ordered(Append(h, e), v, d)
<1> DEFINE g == Append(h, e)
<1>1. /\ DOMAIN h = 1..Len(h) /\ DOMAIN g = 1..(Len(h) + 1) /\ Len(h) \in Nat
      /\ \A i \in 1..Len(h) : g[i] = h[i]
      /\ g[Len(h) + 1] = e
  BY AppendPlaces
<1> HIDE DEF g
<1>2. \A j \in DOMAIN g : g[j].of \in Queued => j \in DOMAIN h /\ g[j] = h[j]
  BY <1>1
<1>3. ASSUME NEW j \in DOMAIN g, g[j].of \in Queued
      PROVE  \E a \in 1..d : v[a] = g[j].of
  BY <1>2, <1>3 DEF Ordered
<1>4. ASSUME NEW j \in DOMAIN g, NEW k \in DOMAIN g, j < k,
             g[j].of \in Queued, g[k].of \in Queued
      PROVE  \E a, b \in 1..d : a < b /\ v[a] = g[j].of /\ v[b] = g[k].of
  <2>1. /\ j \in DOMAIN h /\ g[j] = h[j]
        /\ k \in DOMAIN h /\ g[k] = h[k]
    BY <1>2, <1>4
  <2>2. \E a, b \in 1..d : a < b /\ v[a] = h[j].of /\ v[b] = h[k].of
    BY <1>4, <2>1 DEF Ordered
  <2>3. QED
    BY <2>1, <2>2
<1>5. QED
  BY <1>3, <1>4 DEF Ordered, g

\* The message taken last comes after the others.
LEMMA OrderedTake ==
  ASSUME NEW h \in Seq(Entries), NEW e \in Entries, NEW v, NEW d \in Nat, d > 0,
         e.of = v[d], Ordered(h, v, d - 1)
  PROVE  Ordered(Append(h, e), v, d)
<1> DEFINE g == Append(h, e)
           l == Len(h)
<1>1. /\ DOMAIN h = 1..l /\ DOMAIN g = 1..(l + 1) /\ l \in Nat
      /\ \A i \in 1..l : g[i] = h[i]
      /\ g[l + 1] = e
  BY AppendPlaces
<1> HIDE DEF g, l
<1>2. \A j \in DOMAIN g : j = l + 1 \/ (j \in 1..l /\ g[j] = h[j])
  BY <1>1
<1>3. /\ \A j \in 1..l : h[j].of \in Queued => \E a \in 1..(d - 1) : v[a] = h[j].of
      /\ \A j, k \in 1..l :
           j < k /\ h[j].of \in Queued /\ h[k].of \in Queued =>
             \E a, b \in 1..(d - 1) : a < b /\ v[a] = h[j].of /\ v[b] = h[k].of
  BY <1>1 DEF Ordered
<1>4. /\ 1..(d - 1) \subseteq 1..d /\ d \in 1..d
      /\ \A a \in 1..(d - 1) : a < d
  OBVIOUS
<1>5. ASSUME NEW j \in DOMAIN g, g[j].of \in Queued
      PROVE  \E a \in 1..d : v[a] = g[j].of
  <2>1. CASE j = l + 1
    BY <1>1, <1>4, <2>1
  <2>2. CASE j \in 1..l /\ g[j] = h[j]
    <3>1. PICK a \in 1..(d - 1) : v[a] = h[j].of
      BY <1>3, <1>5, <2>2
    <3>2. QED
      BY <1>4, <2>2, <3>1
  <2>3. QED
    BY <1>2, <2>1, <2>2
<1>6. ASSUME NEW j \in DOMAIN g, NEW k \in DOMAIN g, j < k,
             g[j].of \in Queued, g[k].of \in Queued
      PROVE  \E a, b \in 1..d : a < b /\ v[a] = g[j].of /\ v[b] = g[k].of
  <2>1. j \in 1..l /\ g[j] = h[j]
    BY <1>1, <1>2, <1>6
  <2>2. CASE k = l + 1
    <3>1. PICK a \in 1..(d - 1) : v[a] = g[j].of
      BY <1>3, <1>6, <2>1
    <3>2. a \in 1..d /\ a < d /\ v[d] = g[k].of
      BY <1>1, <1>4, <2>2
    <3>3. QED
      BY <1>4, <3>1, <3>2
  <2>3. CASE k \in 1..l /\ g[k] = h[k]
    <3>1. PICK a \in 1..(d - 1), b \in 1..(d - 1) :
            a < b /\ v[a] = h[j].of /\ v[b] = h[k].of
      BY <1>3, <1>6, <2>1, <2>3
    <3>2. QED
      BY <1>4, <2>1, <2>3, <3>1
  <2>4. QED
    BY <1>2, <2>2, <2>3
<1>7. QED
  BY <1>5, <1>6 DEF Ordered, g

\* The end of a history behind summaries has them in the same order.
LEMMA OrderedFollows ==
  ASSUME RunnerAssumption, NEW g, NEW h \in Seq(Entries), Follows(g, h), NEW v, NEW d,
         Ordered(h, v, d)
  PROVE  Ordered(g, v, d)
<1>1. g \in Seq(Entries) /\ Len(g) \in Nat /\ DOMAIN g = 1..Len(g)
  BY LenProperties DEF Follows
<1> DEFINE o == Len(h) - Len(g)
<1>2. ASSUME NEW j \in DOMAIN g, g[j].of \in Queued
      PROVE  \A k \in j..Len(g) : k + Len(h) - Len(g) \in DOMAIN h /\ g[k] = h[k + Len(h) - Len(g)]
  <2>1. g[j] \in Entries
    BY <1>1, ElementOfSeq
  <2>2. g[j].of # NoRun
    BY <1>2 DEF RunnerAssumption
  <2>3. g[j].role = "user"
    BY <2>1, <2>2, EntryKinds
  <2>4. j \in 1..Len(g) /\ g[j].role # "system"
    BY <1>1, <2>3
  <2> QED BY <2>4 DEF Follows, EndOf
<1>3. ASSUME NEW j \in DOMAIN g, g[j].of \in Queued
      PROVE  \E a \in 1..d : v[a] = g[j].of
  <2>1. j \in j..Len(g)
    BY <1>1
  <2>2. j + Len(h) - Len(g) \in DOMAIN h /\ g[j] = h[j + Len(h) - Len(g)]
    BY <1>2, <1>3, <2>1
  <2> QED BY <1>3, <2>2 DEF Ordered
<1>4. ASSUME NEW j \in DOMAIN g, NEW k \in DOMAIN g, j < k,
             g[j].of \in Queued, g[k].of \in Queued
      PROVE  \E a, b \in 1..d : a < b /\ v[a] = g[j].of /\ v[b] = g[k].of
  <2>1. PICK x \in DOMAIN h : x = j + Len(h) - Len(g) /\ g[j] = h[x]
    <3>1. j \in j..Len(g)
      BY <1>1
    <3> QED BY <1>2, <1>4, <3>1
  <2>2. PICK y \in DOMAIN h : y = k + Len(h) - Len(g) /\ g[k] = h[y]
    <3>1. k \in j..Len(g)
      BY <1>1, <1>4
    <3> QED BY <1>2, <1>4, <3>1
  <2>3. x < y
    <3>1. Len(h) \in Int
      BY LenProperties
    <3> QED BY <1>1, <1>4, <2>1, <2>2, <3>1
  <2> QED BY <1>4, <2>1, <2>2, <2>3 DEF Ordered
<1> QED BY <1>3, <1>4 DEF Ordered

\* A step of the call in progress that leaves the buffers alone.
LEMMA BufferOfOne ==
  ASSUME RunnerAssumption, BufferInv, LaneInv', NEW r \in Runs, InProgress(r),
         UNCHANGED <<sess, queue, arrived>>,
         \A q \in Runs \ {r} : pc'[q] = pc[q],
         \A s \in Sessions : Ordered(transcript'[s], arrived[s], Taken(s)),
         HistoryOrdered(r)'
  PROVE  BufferInv'
<1>1. \A s \in Sessions : Taken(s)' = Taken(s)
  BY DEF Taken
<1>2. ASSUME NEW q \in Runs \ {r} PROVE HistoryOrdered(q)'
  <2>1. ~InProgress(q)
    BY EntryOfOne DEF BufferInv
  <2>2. pc'[q] \notin InLifecycle \cup {"reinsert", "load"}
    BY <2>1 DEF InProgress, InLifecycle, Over
  <2>3. QED
    BY <2>2 DEF HistoryOrdered
<1>3. \A q \in Runs : HistoryOrdered(q)'
  BY <1>2
<1>4. BufferIsTheRest'
  BY <1>1 DEF BufferInv, BufferIsTheRest
<1>5. \A s \in Sessions : Ordered(transcript'[s], arrived'[s], Taken(s)')
  BY <1>1
<1>6. QED
  BY <1>3, <1>4, <1>5 DEF BufferInv

\* The first message of the buffer is the next of those that arrived.
LEMMA TakeFirst ==
  ASSUME TypeOK, BufferIsTheRest, NEW s \in Sessions, queue[s] # <<>>,
         UNCHANGED arrived, queue' = [queue EXCEPT ![s] = Tail(@)]
  PROVE  /\ Taken(s)' = Taken(s) + 1
         /\ \A t \in Sessions \ {s} : Taken(t)' = Taken(t)
         /\ Head(queue[s]) = arrived[s][Taken(s) + 1]
         /\ BufferIsTheRest'
<1> DEFINE q == queue[s]
           d == Taken(s)
<1>1. /\ q \in Seq(Queued) /\ Len(q) \in Nat /\ Len(arrived[s]) \in Nat
      /\ queue \in [Sessions -> Seq(Queued)]
  BY LenProperties DEF TypeOK
<1>2. /\ Len(q) > 0 /\ Head(q) = q[1] /\ Len(Tail(q)) = Len(q) - 1
      /\ \A i \in 1..(Len(q) - 1) : Tail(q)[i] = q[i + 1]
  BY <1>1, HeadTailProperties, EmptySeq
<1>3. d \in Nat /\ \A i \in 1..Len(q) : q[i] = arrived[s][d + i]
  BY DEF BufferIsTheRest
<1>4. queue'[s] = Tail(q) /\ \A t \in Sessions \ {s} : queue'[t] = queue[t]
  BY <1>1
<1>5. Taken(s)' = d + 1
  BY <1>1, <1>2, <1>4 DEF Taken
<1>6. \A t \in Sessions \ {s} : Taken(t)' = Taken(t)
  BY <1>4 DEF Taken
<1> HIDE DEF q, d
<1>7. ASSUME NEW i \in 1..(Len(q) - 1)
      PROVE  Tail(q)[i] = arrived[s][d + 1 + i]
  <2>1. i + 1 \in 1..Len(q) /\ d + (i + 1) = d + 1 + i
    BY <1>1, <1>2, <1>3
  <2>2. QED
    BY <1>2, <1>3, <2>1
<1>8. \A t \in Sessions \ {s} :
        /\ Taken(t)' \in Nat
        /\ \A i \in 1..Len(queue'[t]) : queue'[t][i] = arrived'[t][Taken(t)' + i]
  BY <1>4, <1>6 DEF BufferIsTheRest
<1>9. /\ Taken(s)' \in Nat
      /\ \A i \in 1..Len(queue'[s]) : queue'[s][i] = arrived'[s][Taken(s)' + i]
  <2>1. d + 1 \in Nat /\ Len(queue'[s]) = Len(q) - 1
    BY <1>2, <1>3, <1>4
  <2>2. QED
    BY <1>4, <1>5, <1>7, <2>1
<1>10. BufferIsTheRest'
  BY <1>8, <1>9 DEF BufferIsTheRest
<1>11. Head(q) = arrived[s][d + 1]
  BY <1>1, <1>2, <1>3
<1>12. QED
  BY <1>5, <1>6, <1>10, <1>11 DEF q, d

\* A step of a call keeps the buffered messages in order.
LEMMA BufferStep ==
  ASSUME RunnerAssumption, BufferInv, LaneInv', NEW r \in Runs, Step(r)
  PROVE  BufferInv'
<1> USE DEF Goto, Leave, sharedVars, waitVars, InLifecycle
<1> DEFINE s == sess[r]
           d == Taken(s)
<1>0. /\ pc \in [Runs -> PCs] /\ hist \in [Runs -> Seq(Entries)]
      /\ s \in Sessions /\ transcript \in [Sessions -> Seq(Entries)]
      /\ transcript[s] \in Seq(Entries) /\ hist[r] \in Seq(Entries) /\ Whole(transcript[s])
      /\ msg \in [Runs -> Messages] /\ msg[r] \in Messages
      /\ queue \in [Sessions -> Seq(Queued)] /\ arrived \in [Sessions -> Seq(Queued)]
  BY DEF BufferInv, LaneInv, TurnsInv, TypeOK
<1>1. InProgress(r)
  BY StepInProgress
<1>2. /\ d \in Nat /\ HistoryOrdered(r)
      /\ \A t \in Sessions : Ordered(transcript[t], arrived[t], Taken(t))
  BY <1>0 DEF BufferInv, BufferIsTheRest
<1>3. UNCHANGED <<queue, arrived>> => \A t \in Sessions : Taken(t)' = Taken(t)
  BY DEF Taken
<1>4. CASE Insert(r)
  <2>1. /\ UNCHANGED <<sess, queue, arrived, transcript>>
        /\ pc' = [pc EXCEPT ![r] = "load"] /\ msg'[r] = r
    BY <1>0, <1>4 DEF Insert
  <2>2. HistoryOrdered(r)'
    BY <1>0, <2>1 DEF HistoryOrdered, RunnerAssumption
  <2>3. QED
    BY <1>0, <1>1, <1>2, <2>1, <2>2, BufferOfOne
<1>5. CASE Reinsert(r)
  <2>1. /\ UNCHANGED <<sess, queue, arrived, transcript, msg>>
        /\ pc' = [pc EXCEPT ![r] = "load"] /\ pc[r] = "reinsert"
    BY <1>5 DEF Reinsert
  <2>2. HistoryOrdered(r)'
    BY <1>0, <1>2, <1>3, <2>1 DEF HistoryOrdered, TookLast
  <2>3. QED
    BY <1>0, <1>1, <1>2, <2>1, <2>2, BufferOfOne
<1>6. CASE Load(r)
  <2>1. UNCHANGED <<sess, queue, arrived, transcript, msg>> /\ pc[r] = "load"
    BY <1>6 DEF Load
  <2>3. User(msg[r]) \in Entries /\ User(msg[r]).of = msg[r]
    BY <1>0, EntryFacts DEF User
  <2>4. Ordered(Append(transcript[s], User(msg[r])), arrived[s], d)
    <3>1. CASE msg[r] \in Queued
      <4>1. d > 0 /\ arrived[s][d] = msg[r] /\ Ordered(transcript[s], arrived[s], d - 1)
        BY <1>2, <2>1, <3>1 DEF HistoryOrdered, TookLast
      <4>2. QED
        BY <1>0, <1>2, <2>3, <4>1, OrderedTake
    <3>2. CASE msg[r] \notin Queued
      BY <1>0, <1>2, <2>3, <3>2, OrderedOther
    <3>3. QED
      BY <3>1, <3>2
  <2>5. ASSUME NEW h \in Fitted(Append(transcript[s], User(msg[r]))),
               hist' = [hist EXCEPT ![r] = h], Goto(r, "prompt")
        PROVE  BufferInv'
    <3>1. Ordered(h, arrived[s], d)
      <4>1. Follows(h, Append(transcript[s], User(msg[r])))
        BY <1>0, LoadFits
      <4>2. Append(transcript[s], User(msg[r])) \in Seq(Entries)
        BY <1>0, <2>3, AppendPlaces
      <4> QED BY <2>4, <4>1, <4>2, OrderedFollows
    <3>2. hist'[r] = h /\ pc' = [pc EXCEPT ![r] = "prompt"]
      BY <1>0, <2>5
    <3>3. HistoryOrdered(r)'
      BY <1>0, <1>3, <2>1, <3>1, <3>2 DEF HistoryOrdered
    <3> QED BY <1>0, <1>1, <1>2, <2>1, <3>2, <3>3, BufferOfOne
  <2>6. CASE Leave(r, "err")
    <3>1. HistoryOrdered(r)'
      BY <1>0, <2>6 DEF HistoryOrdered
    <3> QED BY <1>0, <1>1, <1>2, <2>1, <2>6, <3>1, BufferOfOne
  <2> QED BY <1>6, <2>5, <2>6, Zenon DEF Load
<1>7. CASE ResolveModel(r) \/ CallModel(r) \/ Request(r) \/ CallTool(r)
  <2>1. /\ UNCHANGED <<sess, queue, arrived, transcript, hist>>
        /\ pc[r] \in {"prompt", "loop", "ask", "tools"}
        /\ \A q \in Runs \ {r} : pc'[q] = pc[q]
        /\ pc'[r] \in {"loop", "ask", "stream", "execute", "release"}
    BY <1>0, <1>7 DEF ResolveModel, CallModel, Request, CallTool
  <2>2. HistoryOrdered(r)'
    BY <1>0, <1>2, <1>3, <2>1 DEF HistoryOrdered
  <2>3. QED
    BY <1>0, <1>1, <1>2, <2>1, <2>2, BufferOfOne
<1>8. CASE Respond(r) \/ RunTool(r)
  <2>1. /\ UNCHANGED <<sess, queue, arrived, transcript>>
        /\ pc[r] \in {"stream", "execute"}
        /\ Ordered(hist[r], arrived[s], d)
    BY <1>2, <1>8 DEF Respond, RunTool, HistoryOrdered
  <2>2. \E e \in Entries :
          /\ e.of \notin Queued
          /\ hist' = hist \/ hist' = [hist EXCEPT ![r] = Append(@, e)]
    <3>1. CASE Respond(r)
      <4>1. hist' = hist \/ \E n \in 0..MaxCalls :
              hist' = [hist EXCEPT ![r] = Append(@, Assistant(n))]
        BY <3>1, Zenon DEF Respond
      <4>2. \A n \in 0..MaxCalls : Assistant(n) \in Entries /\ Assistant(n).of \notin Queued
        BY EntryFacts DEF Assistant, RunnerAssumption
      <4>3. Tool \in Entries /\ Tool.of \notin Queued
        BY EntryFacts DEF Tool, RunnerAssumption
      <4>4. QED
        BY <4>1, <4>2, <4>3
    <3>2. CASE RunTool(r)
      <4>1. hist' = hist \/ hist' = [hist EXCEPT ![r] = Append(@, Tool)]
        BY <3>2, Zenon DEF RunTool
      <4>2. Tool \in Entries /\ Tool.of \notin Queued
        BY EntryFacts DEF Tool, RunnerAssumption
      <4>3. QED
        BY <4>1, <4>2
    <3>3. QED
      BY <1>8, <3>1, <3>2
  <2>3. \A q \in Runs \ {r} : pc'[q] = pc[q]
    BY <1>0, <1>8 DEF Respond, RunTool
  <2>4. pc'[r] \in {"release", "save", "tools"}
    BY <1>0, <1>8 DEF Respond, RunTool
  <2>5. Ordered(hist'[r], arrived[s], d)
    <3>1. PICK e \in Entries :
            /\ e.of \notin Queued
            /\ hist' = hist \/ hist' = [hist EXCEPT ![r] = Append(@, e)]
      BY <2>2
    <3>2. Ordered(Append(hist[r], e), arrived[s], d)
      BY <1>0, <2>1, <3>1, OrderedOther
    <3>3. QED
      BY <1>0, <2>1, <3>1, <3>2
  <2>6. HistoryOrdered(r)'
    BY <1>0, <1>3, <2>1, <2>4, <2>5 DEF HistoryOrdered
  <2>7. QED
    BY <1>0, <1>1, <1>2, <2>1, <2>3, <2>6, BufferOfOne
<1>9. CASE Save(r)
  <2>1. /\ UNCHANGED <<sess, queue, arrived>> /\ pc[r] = "save"
        /\ pc' = [pc EXCEPT ![r] = "release"]
        /\ \/ UNCHANGED transcript
           \/ transcript' = [transcript EXCEPT ![s] = hist[r]]
    BY <1>9 DEF Save
  <2>2. Ordered(hist[r], arrived[s], d)
    BY <1>2, <2>1 DEF HistoryOrdered
  <2>3. \A t \in Sessions : Ordered(transcript'[t], arrived[t], Taken(t))
    BY <1>0, <1>2, <2>1, <2>2
  <2>4. HistoryOrdered(r)'
    BY <1>0, <2>1 DEF HistoryOrdered
  <2>5. QED
    BY <1>0, <1>1, <2>1, <2>3, <2>4, BufferOfOne
<1>10. CASE Release(r) \/ Notify(r)
  <2>1. /\ UNCHANGED <<sess, queue, arrived, transcript>>
        /\ \/ pc' = [pc EXCEPT ![r] = "notify"]
           \/ pc' = [pc EXCEPT ![r] = "drain"]
           \/ pc' = [pc EXCEPT ![r] = "done"]
    BY <1>10 DEF Release, Notify
  <2>2. HistoryOrdered(r)'
    BY <1>0, <2>1 DEF HistoryOrdered
  <2>3. QED
    BY <1>0, <1>1, <1>2, <2>1, <2>2, BufferOfOne
<1>a. CASE Drain(r)
  <2>1. /\ UNCHANGED <<sess, queue, arrived, transcript>>
        /\ \A q \in Runs \ {r} : pc'[q] = pc[q]
        /\ pc'[r] \in {"done", "take"}
    BY <1>0, <1>a DEF Drain
  <2>2. HistoryOrdered(r)'
    BY <2>1 DEF HistoryOrdered
  <2> QED BY <1>0, <1>1, <1>2, <2>1, <2>2, BufferOfOne
<1>11. CASE Dequeue(r)
  <2>1. /\ UNCHANGED <<sess, arrived, transcript>> /\ pc[r] = "take"
        /\ \/ UNCHANGED queue /\ pc' = [pc EXCEPT ![r] = "done"]
           \/ /\ queue[s] # <<>>
              /\ msg' = [msg EXCEPT ![r] = Head(queue[s])]
              /\ queue' = [queue EXCEPT ![s] = Tail(@)]
              /\ pc' = [pc EXCEPT ![r] = "reinsert"]
    BY <1>11, Zenon DEF Dequeue
  <2>2. CASE UNCHANGED queue /\ pc' = [pc EXCEPT ![r] = "done"]
    <3>1. HistoryOrdered(r)'
      BY <1>0, <2>2 DEF HistoryOrdered
    <3>2. QED
      BY <1>0, <1>1, <1>2, <2>1, <2>2, <3>1, BufferOfOne
  <2>3. CASE /\ queue[s] # <<>>
             /\ msg' = [msg EXCEPT ![r] = Head(queue[s])]
             /\ queue' = [queue EXCEPT ![s] = Tail(@)]
             /\ pc' = [pc EXCEPT ![r] = "reinsert"]
    <3>1. /\ d' = d + 1
          /\ \A t \in Sessions \ {s} : Taken(t)' = Taken(t)
          /\ Head(queue[s]) = arrived[s][d + 1]
          /\ BufferIsTheRest'
      <4>1. TypeOK /\ BufferIsTheRest
        BY DEF BufferInv, LaneInv, TurnsInv
      <4>2. Taken(s)' = d'
        BY <2>1
      <4>3. QED
        BY <1>0, <2>1, <2>3, <4>1, <4>2, TakeFirst
    <3>2. msg'[r] = Head(queue[s])
      BY <1>0, <2>3
    <3>3. d + 1 \in Nat /\ d <= d + 1 /\ d + 1 > 0 /\ d + 1 - 1 = d
      BY <1>2
    <3>4. Ordered(transcript[s], arrived[s], d)
      BY <1>0, <1>2
    <3>5. \A t \in Sessions : Ordered(transcript[t], arrived[t], Taken(t)')
      <4>1. Ordered(transcript[s], arrived[s], d + 1)
        BY <1>2, <3>3, <3>4, OrderedStays
      <4>2. QED
        BY <1>2, <2>1, <3>1, <4>1
    <3>6. TookLast(r)'
      <4>1. UNCHANGED <<s, arrived, transcript>>
        BY <2>1
      <4>2. d' > 0 /\ arrived'[s'][d'] = msg'[r]
        BY <3>1, <3>2, <3>3, <4>1
      <4>3. d' - 1 = d /\ transcript'[s'] = transcript[s] /\ arrived'[s'] = arrived[s]
        BY <1>2, <3>1, <4>1
      <4>4. Ordered(transcript'[s'], arrived'[s'], d' - 1)
        BY <3>4, <4>3, Zenon
      <4>5. QED
        BY <4>2, <4>4, Zenon DEF TookLast
    <3>7. HistoryOrdered(r)'
      BY <1>0, <2>3, <3>6 DEF HistoryOrdered
    <3>8. ASSUME NEW q \in Runs \ {r} PROVE HistoryOrdered(q)'
      <4>1. ~InProgress(q) /\ pc'[q] = pc[q]
        BY <1>0, <1>1, <2>3, EntryOfOne DEF BufferInv
      <4>2. pc'[q] \notin InLifecycle \cup {"reinsert", "load"}
        BY <4>1 DEF InProgress, Over
      <4>3. QED
        BY <4>2 DEF HistoryOrdered
    <3>9. QED
      BY <2>1, <3>1, <3>5, <3>7, <3>8 DEF BufferInv
  <2>4. QED
    BY <2>1, <2>2, <2>3, Zenon
<1>12. QED
  BY <1>4, <1>5, <1>6, <1>7, <1>8, <1>9, <1>10, <1>11, <1>a DEF Step

\* A step in which no call moves and the buffers stay as they are.
LEMMA BufferElsewhere ==
  ASSUME BufferInv, LaneInv', UNCHANGED runVars,
         UNCHANGED <<transcript, queue, arrived>>
  PROVE  BufferInv'
BY DEF BufferInv, BufferIsTheRest, Taken, HistoryOrdered, TookLast, runVars

\* Nothing is buffered at first.
LEMMA BufferInit == ASSUME RunnerAssumption, Init PROVE BufferInv
<1>1. Len(<<>>) = 0 /\ DOMAIN <<>> = {}
  BY EmptySeq, LenProperties
<1>2. BufferIsTheRest
  BY <1>1 DEF Init, BufferIsTheRest, Taken
<1>3. \A s \in Sessions : Ordered(transcript[s], arrived[s], Taken(s))
  BY <1>1 DEF Init, Ordered
<1>4. \A r \in Runs : HistoryOrdered(r)
  BY DEF Init, HistoryOrdered, InLifecycle
<1>5. QED
  BY <1>2, <1>3, <1>4, LaneInit DEF BufferInv

\* Where no call has taken a message or works on a history, none is out of order.
LEMMA BufferCall ==
  ASSUME RunnerAssumption, OneAtATime, BufferInv, LaneInv',
         NEW r \in Runs, NEW s \in Sessions, Call(r, s)
  PROVE  BufferInv'
<1>1. \A q \in Runs : ~InProgress(q)
  BY LaneIsFree
<1>2. /\ UNCHANGED <<transcript, queue, arrived>>
      /\ \A q \in Runs : pc'[q] = pc[q] \/ pc'[q] \in {"busy", "insert"}
  BY DEF BufferInv, LaneInv, TurnsInv, TypeOK, Call, Goto, sharedVars, waitVars
<1>3. \A q \in Runs : pc'[q] \notin InLifecycle \cup {"reinsert", "load"}
  BY <1>1, <1>2 DEF InProgress, InLifecycle, Over
<1>4. \A q \in Runs : HistoryOrdered(q)'
  BY <1>3 DEF HistoryOrdered
<1>5. \A t \in Sessions : Taken(t)' = Taken(t)
  BY <1>2 DEF Taken
<1>6. BufferIsTheRest' /\ \A t \in Sessions : Ordered(transcript'[t], arrived'[t], Taken(t)')
  BY <1>2, <1>5 DEF BufferInv, BufferIsTheRest
<1>7. QED
  BY <1>4, <1>6 DEF BufferInv

\* A message that arrives goes to the end.
LEMMA BufferArrival ==
  ASSUME RunnerAssumption, BufferInv, LaneInv',
         NEW m \in Queued, NEW s \in Sessions, QueueMessage(m, s)
  PROVE  BufferInv'
<1>0. /\ queue \in [Sessions -> Seq(Queued)] /\ arrived \in [Sessions -> Seq(Queued)]
      /\ queue[s] \in Seq(Queued) /\ arrived[s] \in Seq(Queued)
      /\ sess \in [Runs -> Sessions]
  BY DEF BufferInv, LaneInv, TurnsInv, TypeOK
<1>1. /\ UNCHANGED <<transcript, pc, sess, msg, hist>>
      /\ queue' = [queue EXCEPT ![s] = Append(@, m)]
      /\ arrived' = [arrived EXCEPT ![s] = Append(@, m)]
  BY DEF QueueMessage, runVars
<1> DEFINE q == queue[s]
           v == arrived[s]
           d == Taken(s)
<1>2. /\ Len(q) \in Nat /\ Len(v) \in Nat /\ d \in Nat /\ d = Len(v) - Len(q)
      /\ Len(Append(q, m)) = Len(q) + 1 /\ Len(Append(v, m)) = Len(v) + 1
      /\ \A i \in 1..Len(q) : Append(q, m)[i] = q[i]
      /\ \A i \in 1..Len(v) : Append(v, m)[i] = v[i]
      /\ Append(q, m)[Len(q) + 1] = m /\ Append(v, m)[Len(v) + 1] = m
      /\ \A i \in 1..Len(q) : q[i] = v[d + i]
  BY <1>0, AppendProperties, LenProperties DEF BufferInv, BufferIsTheRest, Taken
<1>3. /\ queue'[s] = Append(q, m) /\ arrived'[s] = Append(v, m)
      /\ \A t \in Sessions \ {s} : queue'[t] = queue[t] /\ arrived'[t] = arrived[t]
  BY <1>0, <1>1
<1>4. \A t \in Sessions : Taken(t)' = Taken(t)
  <2>1. Len(queue'[s]) = Len(q) + 1 /\ Len(arrived'[s]) = Len(v) + 1
    BY <1>2, <1>3
  <2>2. Len(arrived'[s]) - Len(queue'[s]) = Len(v) - Len(q)
    BY <1>2, <2>1
  <2>3. QED
    BY <1>3, <2>2 DEF Taken
<1> HIDE DEF q, v, d
<1>5. ASSUME NEW i \in 1..(Len(q) + 1) PROVE Append(q, m)[i] = Append(v, m)[d + i]
  <2>1. CASE i = Len(q) + 1
    <3>1. d + i = Len(v) + 1
      BY <1>2, <2>1
    <3>2. QED
      BY <1>2, <2>1, <3>1
  <2>2. CASE i # Len(q) + 1
    <3>1. i \in 1..Len(q) /\ d + i \in 1..Len(v)
      BY <1>2, <2>2
    <3>2. QED
      BY <1>2, <3>1
  <2>3. QED
    BY <2>1, <2>2
<1>6. BufferIsTheRest'
  <2>1. ASSUME NEW t \in Sessions
        PROVE  /\ Taken(t)' \in Nat
               /\ \A i \in 1..Len(queue'[t]) : queue'[t][i] = arrived'[t][Taken(t)' + i]
    <3>1. CASE t = s
      BY <1>2, <1>3, <1>4, <1>5, <3>1 DEF d
    <3>2. CASE t # s
      BY <1>3, <1>4, <3>2 DEF BufferInv, BufferIsTheRest
    <3>3. QED
      BY <3>1, <3>2
  <2>2. QED
    BY <2>1 DEF BufferIsTheRest
<1>7. ASSUME NEW t \in Sessions, NEW h, NEW e \in Nat, e <= Taken(t),
             Ordered(h, arrived[t], e)
      PROVE  Ordered(h, arrived'[t], e)
  <2>1. \A a \in 1..e : arrived'[t][a] = arrived[t][a]
    <3>1. CASE t = s
      <4>1. e <= d /\ d <= Len(v)
        BY <1>2, <1>7, <3>1 DEF d
      <4>2. \A a \in 1..e : a \in 1..Len(v)
        BY <1>2, <4>1
      <4>3. QED
        BY <1>2, <1>3, <3>1, <4>2 DEF v
    <3>2. CASE t # s
      BY <1>3, <3>2
    <3>3. QED
      BY <3>1, <3>2
  <2>2. QED
    BY <1>7, <2>1, OrderedStays
<1>8. \A t \in Sessions : Taken(t) \in Nat
  BY DEF BufferInv, BufferIsTheRest
<1>9. \A t \in Sessions : Ordered(transcript'[t], arrived'[t], Taken(t)')
  <2>1. ASSUME NEW t \in Sessions PROVE Ordered(transcript[t], arrived'[t], Taken(t))
    <3>1. Ordered(transcript[t], arrived[t], Taken(t)) /\ Taken(t) <= Taken(t)
      BY <1>8 DEF BufferInv
    <3>2. QED
      BY <1>7, <1>8, <3>1
  <2>2. QED
    BY <1>1, <1>4, <2>1
<1>10. ASSUME NEW r \in Runs PROVE HistoryOrdered(r)'
  <2> DEFINE u == sess[r]
  <2>1. u \in Sessions /\ Taken(u)' = Taken(u) /\ Taken(u) \in Nat /\ sess'[r] = u
    BY <1>0, <1>1, <1>4, <1>8
  <2>2. HistoryOrdered(r)
    BY DEF BufferInv
  <2>3. ASSUME TookLast(r) PROVE TookLast(r)'
    <3>1. /\ Taken(u) > 0 /\ arrived[u][Taken(u)] = msg[r]
          /\ Ordered(transcript[u], arrived[u], Taken(u) - 1)
      BY <2>3 DEF TookLast
    <3>2. Taken(u) - 1 \in Nat /\ Taken(u) - 1 <= Taken(u)
      BY <2>1, <3>1
    <3>3. Ordered(transcript[u], arrived'[u], Taken(u) - 1)
      BY <1>7, <2>1, <3>1, <3>2
    <3>4. arrived'[u][Taken(u)] = arrived[u][Taken(u)]
      <4>1. CASE u = s
        <5>1. Taken(u) \in 1..Len(v)
          BY <1>2, <2>1, <3>1, <4>1 DEF d
        <5>2. QED
          BY <1>2, <1>3, <4>1, <5>1 DEF v
      <4>2. CASE u # s
        BY <1>3, <2>1, <4>2
      <4>3. QED
        BY <4>1, <4>2
    <3>5. QED
      BY <1>1, <2>1, <3>1, <3>3, <3>4 DEF TookLast
  <2>4. Ordered(hist[r], arrived[u], Taken(u)) => Ordered(hist[r], arrived'[u], Taken(u))
    BY <1>7, <2>1
  <2>5. QED
    BY <1>1, <2>1, <2>2, <2>3, <2>4 DEF HistoryOrdered
<1>11. QED
  BY <1>6, <1>9, <1>10 DEF BufferInv

\* Each step keeps the buffered messages in order.
LEMMA BufferNext ==
  ASSUME RunnerAssumption, OneAtATime, BufferInv, [Next]_vars PROVE BufferInv'
<1> USE DEF sharedVars, waitVars
<1>0. LaneInv'
  BY LaneNext DEF BufferInv
<1>1. ASSUME NEW r \in Runs, Step(r) PROVE BufferInv'
  BY <1>0, <1>1, BufferStep
<1>2. ASSUME NEW r \in Runs, NEW s \in Sessions, Call(r, s) PROVE BufferInv'
  BY <1>0, <1>2, BufferCall
<1>3. ASSUME NEW r \in Runs, DropCall(r) PROVE FALSE
  BY <1>3 DEF DropCall, OneAtATime
<1>4. ASSUME NEW m \in Queued, NEW s \in Sessions, QueueMessage(m, s) PROVE BufferInv'
  BY <1>0, <1>4, BufferArrival
<1>5. ASSUME NEW s \in Sessions, Abort(s) \/ AbortTask(s) PROVE BufferInv'
  BY <1>0, <1>5, BufferElsewhere DEF Abort, AbortTask
<1>6. ASSUME NEW w \in Waiters, NEW s \in Sessions, Wait(w, s) PROVE BufferInv'
  BY <1>0, <1>6, BufferElsewhere DEF Wait
<1>7. ASSUME NEW w \in Waiters, WaitStep(w) PROVE BufferInv'
  BY <1>0, <1>7, BufferElsewhere DEF WaitStep, WaitCheck, WaitRegister
<1>8. CASE UNCHANGED vars
  BY <1>0, <1>8, BufferElsewhere DEF vars, runVars
<1>9. QED
  BY <1>1, <1>2, <1>3, <1>4, <1>5, <1>6, <1>7, <1>8 DEF Next

\* Driven through a lane, the messages buffered during runs reach a transcript
\* in the order they arrived, whichever of them fail.
THEOREM BufferKeepsOrder ==
  ASSUME RunnerAssumption, OneAtATime PROVE Spec => []BufferedInOrder
<1>1. Init => BufferInv
  BY BufferInit
<1>2. BufferInv /\ [Next]_vars => BufferInv'
  BY BufferNext
<1>3. BufferInv => BufferedInOrder
  <2> SUFFICES ASSUME BufferInv, NEW s \in Sessions,
                      NEW j \in DOMAIN transcript[s], NEW k \in DOMAIN transcript[s],
                      j < k, transcript[s][j].of \in Queued, transcript[s][k].of \in Queued
               PROVE  \E a, b \in DOMAIN arrived[s] :
                        /\ arrived[s][a] = transcript[s][j].of
                        /\ arrived[s][b] = transcript[s][k].of
                        /\ a < b
    BY DEF BufferedInOrder
  <2>1. PICK a \in 1..Taken(s), b \in 1..Taken(s) :
          /\ a < b
          /\ arrived[s][a] = transcript[s][j].of
          /\ arrived[s][b] = transcript[s][k].of
    BY DEF BufferInv, Ordered
  <2>2. /\ DOMAIN arrived[s] = 1..Len(arrived[s]) /\ Len(arrived[s]) \in Nat
        /\ Len(queue[s]) \in Nat
    BY LenProperties DEF BufferInv, LaneInv, TurnsInv, TypeOK
  <2>3. Taken(s) \in Nat
    BY DEF BufferInv, BufferIsTheRest
  <2>4. Taken(s) <= Len(arrived[s])
    <3>1. \A m, n \in Nat : m - n <= m
      OBVIOUS
    <3>2. QED
      BY <2>2, <3>1 DEF Taken
  <2>5. a \in DOMAIN arrived[s] /\ b \in DOMAIN arrived[s]
    BY <2>2, <2>3, <2>4
  <2>6. QED
    BY <2>1, <2>5
<1>4. QED
  BY <1>1, <1>2, <1>3, PTL DEF Spec

-----------------------------------------------------------------------------
(* What is reported as done is told.                                       *)

\* While a compaction may keep one message only, none is cut off unsummarised.
OneIsKept == \E p \in Preserved : p = 1

\* The history of call r tells what the transcript tells, and its message.
HistTells(r) ==
  \A x \in Messages : Told(x, sess[r]) \/ x = msg[r] => Tells(hist[r], Len(hist[r]), x)

\* From its history to the transcript, the message of a lifecycle is never out
\* of sight, and the first lifecycle is that of the call's own message.
Kept(r) ==
  /\ pc[r] \in {"idle", "busy", "insert"} => result[r] = "none"
  /\ pc[r] \in InLifecycle \cup {"release"} /\ result[r] = "none" => msg[r] = r
  /\ pc[r] \in InLifecycle \ {"load"} => HistTells(r)
  /\ pc[r] = "release" =>
       /\ outcome[r] # "none"
       /\ outcome[r] = "ok" => Told(msg[r], sess[r])
  /\ pc[r] \in {"notify", "drain", "take", "reinsert"} => result[r] # "none"
  /\ result[r] = "ok" => Told(r, sess[r])

KeptInv == LaneInv /\ \A r \in Runs : Kept(r)

\* A message that can be read can be read when more is appended.
LEMMA TellsAppend ==
  ASSUME NEW h \in Seq(Entries), NEW e \in Entries, NEW x, Tells(h, Len(h), x)
  PROVE  Tells(Append(h, e), Len(Append(h, e)), x)
<1> DEFINE g == Append(h, e)
<1>1. /\ Len(g) = Len(h) + 1 /\ Len(h) \in Nat
      /\ \A i \in 1..Len(h) : g[i] = h[i]
  BY AppendPlaces
<1> HIDE DEF g
<1>2. PICK k \in 1..Len(h) : Reads(h[k], x)
  BY DEF Tells
<1>3. k \in 1..Len(g) /\ g[k] = h[k]
  BY <1>1
<1>4. Tells(g, Len(g), x)
  BY <1>2, <1>3 DEF Tells
<1> QED BY <1>4 DEF g

\* A step of the runner makes no message unreadable.
LEMMA ToldStays ==
  ASSUME KeptInv, [Next]_vars, NEW s \in Sessions, NEW x \in Messages, Told(x, s)
  PROVE  Told(x, s)'
<1>1. CASE UNCHANGED transcript
  BY <1>1 DEF Told
<1>2. ASSUME NEW r \in Runs, Save(r), transcript' = [transcript EXCEPT ![sess[r]] = hist[r]]
      PROVE  Told(x, s)'
  <2>0. transcript \in [Sessions -> Seq(Entries)]
    BY DEF KeptInv, LaneInv, TurnsInv, TypeOK
  <2>1. CASE s = sess[r]
    <3>1. pc[r] = "save"
      BY <1>2 DEF Save
    <3>2. Tells(hist[r], Len(hist[r]), x)
      BY <2>1, <3>1 DEF KeptInv, Kept, InLifecycle, HistTells
    <3>3. transcript'[s] = hist[r]
      BY <1>2, <2>0, <2>1
    <3> QED BY <3>2, <3>3 DEF Told
  <2>2. CASE s # sess[r]
    <3>1. transcript'[s] = transcript[s]
      BY <1>2, <2>0, <2>2
    <3> QED BY <3>1 DEF Told
  <2> QED BY <2>1, <2>2
<1> QED BY <1>1, <1>2, OnlySave

\* A call that a step leaves alone loses nothing.
LEMMA KeptAlone ==
  ASSUME KeptInv, LaneInv', [Next]_vars, NEW q \in Runs,
         /\ pc'[q] = pc[q] /\ sess'[q] = sess[q] /\ msg'[q] = msg[q] /\ hist'[q] = hist[q]
         /\ outcome'[q] = outcome[q] /\ result'[q] = result[q]
  PROVE  Kept(q)'
<1>1. Kept(q) /\ sess[q] \in Sessions /\ msg[q] \in Messages /\ q \in Messages
  BY DEF KeptInv, LaneInv, TurnsInv, TypeOK, Messages
<1>2. \A x \in Messages : Told(x, sess[q]) => Told(x, sess[q])'
  BY <1>1, ToldStays
<1>4. ASSUME pc[q] \in InLifecycle PROVE UNCHANGED transcript
  <2>1. ASSUME NEW r \in Runs, Save(r) PROVE FALSE
    <3>1. InProgress(q) /\ InProgress(r)
      BY <1>4, <2>1 DEF InProgress, InLifecycle, Over, Save
    <3>2. q = r
      BY <3>1 DEF KeptInv, LaneInv, OneInProgress
    <3>3. pc[r] = "save" /\ pc'[r] = "release"
      BY <2>1 DEF Save, Goto, Leave, KeptInv, LaneInv, TurnsInv, TypeOK
    <3> QED BY <3>2, <3>3
  <2> QED BY <2>1, OnlySave
<1>5. ASSUME pc[q] \in InLifecycle, HistTells(q) PROVE HistTells(q)'
  BY <1>4, <1>5 DEF HistTells, Told
<1>6. \A x \in Messages : Told(x, sess[q]) => Tells(transcript'[sess'[q]], Len(transcript'[sess'[q]]), x)
  BY <1>2 DEF Told
<1> QED BY <1>1, <1>5, <1>6 DEF Kept, Told

\* A step of a call, as far as its own message goes.
LEMMA KeptStep ==
  ASSUME RunnerAssumption, OneIsKept, KeptInv, LaneInv', NEW r \in Runs, Step(r)
  PROVE  Kept(r)'
<1> USE DEF Goto, Leave, sharedVars, waitVars, InLifecycle
<1> DEFINE t == transcript[sess[r]]
<1>0. /\ pc \in [Runs -> PCs] /\ hist \in [Runs -> Seq(Entries)] /\ msg \in [Runs -> Messages]
      /\ outcome \in [Runs -> {"none", "ok", "err"}] /\ result \in [Runs -> {"none", "ok", "err"}]
      /\ transcript \in [Sessions -> Seq(Entries)] /\ sess[r] \in Sessions
      /\ hist[r] \in Seq(Entries) /\ t \in Seq(Entries) /\ msg[r] \in Messages /\ Whole(t)
      /\ r \in Messages
  BY DEF KeptInv, LaneInv, TurnsInv, TypeOK, Messages
<1>1. Kept(r)
  BY DEF KeptInv
<1>2. [Next]_vars
  BY DEF Next
<1>3. \A x \in Messages : Told(x, sess[r]) => Told(x, sess[r])'
  <2>1. sess' = sess
    BY DEF Step, Insert, Load, ResolveModel, CallModel, Request, Respond, CallTool, RunTool,
       Save, Release, Notify, Drain, Dequeue, Reinsert
  <2>2. \A x \in Messages : Told(x, sess[r]) => Tells(transcript'[sess[r]], Len(transcript'[sess[r]]), x)
    BY <1>0, <1>2, ToldStays DEF Told
  <2> QED BY <2>1, <2>2 DEF Told
<1>4. ASSUME UNCHANGED <<sess, result>>, result[r] = "ok" PROVE Told(r, sess[r])'
  BY <1>0, <1>1, <1>3, <1>4 DEF Kept
<1>5. ASSUME UNCHANGED <<sess, result, msg>>, pc[r] \in InLifecycle,
             pc'[r] \in InLifecycle \ {"load"}, HistTells(r)'
      PROVE  Kept(r)'
  BY <1>1, <1>4, <1>5 DEF Kept
<1>6. ASSUME UNCHANGED <<sess, result, msg>>, pc[r] \in InLifecycle,
             pc'[r] = "release", outcome'[r] = "err"
      PROVE  Kept(r)'
  BY <1>1, <1>4, <1>6 DEF Kept
<1>7. ASSUME UNCHANGED <<sess, transcript, msg, hist>>, pc[r] \in InLifecycle \ {"load"}
      PROVE  HistTells(r)'
  <2>1. HistTells(r)
    BY <1>1, <1>7 DEF Kept
  <2> QED BY <1>7, <2>1 DEF HistTells, Told
<1>8. ASSUME UNCHANGED <<sess, transcript, msg>>, pc[r] \in InLifecycle \ {"load"},
             NEW e \in Entries, hist'[r] = Append(hist[r], e)
      PROVE  HistTells(r)'
  <2>1. HistTells(r)
    BY <1>1, <1>8 DEF Kept
  <2>2. \A x : Tells(hist[r], Len(hist[r]), x) => Tells(hist'[r], Len(hist'[r]), x)
    BY <1>0, <1>8, TellsAppend
  <2> QED BY <1>8, <2>1, <2>2 DEF HistTells, Told
<1>9. CASE Insert(r) \/ Reinsert(r)
  <2>1. /\ pc'[r] = "load" /\ pc[r] \in {"insert", "reinsert"}
        /\ UNCHANGED <<sess, result>>
        /\ pc[r] = "insert" => msg'[r] = r
    BY <1>0, <1>9 DEF Insert, Reinsert
  <2> QED BY <1>1, <1>4, <2>1 DEF Kept
<1>10. CASE Load(r)
  <2>1. UNCHANGED <<sess, result, msg, transcript>> /\ pc[r] = "load"
    BY <1>10 DEF Load
  <2>2. ASSUME NEW h \in Fitted(Append(t, User(msg[r]))),
               hist' = [hist EXCEPT ![r] = h], pc' = [pc EXCEPT ![r] = "prompt"]
        PROVE  Kept(r)'
    <3>1. \A x \in Messages : Tells(t, Len(t), x) \/ x = msg[r] => Tells(h, Len(h), x)
      BY <1>0, LoadFits DEF OneIsKept
    <3>2. hist'[r] = h /\ pc'[r] = "prompt"
      BY <1>0, <2>2
    <3>3. HistTells(r)'
      BY <2>1, <3>1, <3>2 DEF HistTells, Told
    <3> QED BY <1>5, <2>1, <3>2, <3>3
  <2>3. ASSUME outcome' = [outcome EXCEPT ![r] = "err"], pc' = [pc EXCEPT ![r] = "release"]
        PROVE  Kept(r)'
    BY <1>0, <1>6, <2>1, <2>3
  <2> QED BY <1>10, <2>2, <2>3, Zenon DEF Load
<1>11. CASE ResolveModel(r) \/ CallModel(r) \/ Request(r) \/ CallTool(r)
  <2>1. /\ UNCHANGED <<sess, result, msg, hist, transcript>>
        /\ pc[r] \in InLifecycle \ {"load"}
        /\ \/ pc'[r] \in {"loop", "ask", "stream", "execute"}
           \/ pc'[r] = "release" /\ outcome'[r] = "err"
    BY <1>0, <1>11 DEF ResolveModel, CallModel, Request, CallTool
  <2> QED BY <1>5, <1>6, <1>7, <2>1
<1>12. CASE Respond(r)
  <2>1. UNCHANGED <<sess, result, msg, transcript>> /\ pc[r] = "stream"
    BY <1>12 DEF Respond
  <2>2. CASE Leave(r, "err")
    BY <1>0, <1>6, <2>1, <2>2
  <2>3. ASSUME NEW n \in 0..MaxCalls,
               hist' = [hist EXCEPT ![r] = Append(@, Assistant(n))],
               Goto(r, IF n = 0 THEN "save" ELSE "tools")
        PROVE  Kept(r)'
    <3>1. Assistant(n) \in Entries /\ hist'[r] = Append(hist[r], Assistant(n))
      BY <1>0, <2>3, EntryFacts
    <3>2. HistTells(r)'
      BY <1>8, <2>1, <3>1
    <3>3. pc'[r] \in {"save", "tools"}
      BY <1>0, <2>3
    <3> QED BY <1>5, <2>1, <3>2, <3>3
  <2> QED BY <1>12, <2>2, <2>3 DEF Respond
<1>13. CASE RunTool(r)
  <2>1. /\ UNCHANGED <<sess, result, msg, transcript>> /\ pc[r] = "execute"
        /\ pc'[r] = "tools" /\ hist'[r] = Append(hist[r], Tool) /\ Tool \in Entries
    BY <1>0, <1>13, EntryFacts DEF RunTool
  <2>2. HistTells(r)'
    BY <1>8, <2>1
  <2> QED BY <1>5, <2>1, <2>2
<1>14. CASE Save(r)
  <2>1. UNCHANGED <<sess, result, msg>> /\ pc[r] = "save" /\ pc'[r] = "release"
    BY <1>0, <1>14 DEF Save
  <2>2. CASE outcome'[r] = "err"
    BY <1>6, <2>1, <2>2
  <2>3. CASE transcript' = [transcript EXCEPT ![sess[r]] = hist[r]] /\ outcome'[r] = "ok"
    <3>1. Tells(hist[r], Len(hist[r]), msg[r])
      BY <1>0, <1>1, <2>1 DEF Kept, HistTells
    <3>2. transcript'[sess'[r]] = hist[r]
      BY <1>0, <2>1, <2>3
    <3>3. Told(msg[r], sess[r])'
      BY <2>1, <3>1, <3>2 DEF Told
    <3> QED BY <1>1, <1>4, <2>1, <2>3, <3>3 DEF Kept
  <2>4. outcome'[r] = "err" \/ (transcript' = [transcript EXCEPT ![sess[r]] = hist[r]] /\ outcome'[r] = "ok")
    BY <1>0, <1>14 DEF Save
  <2> QED BY <2>2, <2>3, <2>4
<1>15. CASE Release(r)
  <2>1. /\ UNCHANGED <<sess, transcript, msg>> /\ pc[r] = "release" /\ pc'[r] = "notify"
        /\ result'[r] = IF result[r] = "none" THEN outcome[r] ELSE result[r]
    BY <1>0, <1>15 DEF Release
  <2>2. result'[r] = "ok" => Told(r, sess[r])
    BY <1>1, <2>1 DEF Kept
  <2>3. result'[r] = "ok" => Told(r, sess[r])'
    BY <2>1, <2>2 DEF Told
  <2>4. result'[r] # "none"
    BY <1>1, <2>1 DEF Kept
  <2> QED BY <2>1, <2>3, <2>4 DEF Kept
<1>16. CASE Notify(r) \/ Drain(r) \/ Dequeue(r)
  <2>1. /\ UNCHANGED <<sess, result>> /\ pc[r] \in {"notify", "drain", "take"}
        /\ pc'[r] \in {"drain", "done", "take", "reinsert"}
    BY <1>0, <1>16 DEF Notify, Drain, Dequeue
  <2> QED BY <1>1, <1>4, <2>1 DEF Kept
<1> QED BY <1>9, <1>10, <1>11, <1>12, <1>13, <1>14, <1>15, <1>16 DEF Step

\* No call has returned at first.
LEMMA KeptInit == ASSUME RunnerAssumption, Init PROVE KeptInv
BY LaneInit DEF Init, KeptInv, Kept, InLifecycle

\* All steps.
LEMMA KeptNext ==
  ASSUME RunnerAssumption, OneAtATime, OneIsKept, KeptInv, [Next]_vars PROVE KeptInv'
<1> USE DEF sharedVars, waitVars, runVars
<1>0. LaneInv'
  BY LaneNext DEF KeptInv
<1>1. ASSUME NEW r \in Runs, Step(r) PROVE KeptInv'
  <2>1. Kept(r)'
    BY <1>0, <1>1, KeptStep
  <2>2. ASSUME NEW q \in Runs \ {r} PROVE Kept(q)'
    BY <1>0, <1>1, <2>2, StepIsOwn, KeptAlone DEF KeptInv, LaneInv, TurnsInv
  <2> QED BY <1>0, <2>1, <2>2 DEF KeptInv
<1>2. ASSUME NEW r \in Runs, NEW s \in Sessions, Call(r, s) PROVE KeptInv'
  <2>1. /\ UNCHANGED <<msg, hist, outcome, result>>
        /\ pc[r] = "idle" /\ pc'[r] \in {"busy", "insert"}
        /\ \A q \in Runs \ {r} : pc'[q] = pc[q] /\ sess'[q] = sess[q]
    BY <1>2 DEF Call, Goto, KeptInv, LaneInv, TurnsInv, TypeOK
  <2>2. Kept(r)'
    BY <2>1 DEF KeptInv, Kept, InLifecycle
  <2> QED BY <1>0, <2>1, <2>2, KeptAlone DEF KeptInv
<1>3. ASSUME NEW r \in Runs, DropCall(r) PROVE FALSE
  BY <1>3 DEF DropCall, OneAtATime
<1>4. CASE UNCHANGED runVars
  BY <1>0, <1>4, KeptAlone DEF KeptInv
<1> QED
  BY <1>1, <1>2, <1>3, <1>4 DEF Next, QueueMessage, Abort, AbortTask, Wait, WaitStep, WaitCheck, WaitRegister, vars

\* What run_agent reports as done is not forgotten: driven through a lane, the
\* message of a call that returned Ok can be read in its session's transcript, or
\* in a summary there, whatever runs, and whatever is compacted, later.
THEOREM OkStaysTold ==
  ASSUME RunnerAssumption, OneAtATime PROVE Spec => []OkIsTold
<1>1. ASSUME OneIsKept PROVE Spec => []OkIsTold
  <2>1. Init => KeptInv
    BY KeptInit
  <2>2. KeptInv /\ [Next]_vars => KeptInv'
    BY <1>1, KeptNext
  <2>3. KeptInv => OkIsTold
    BY DEF KeptInv, Kept, OkIsTold
  <2> QED BY <2>1, <2>2, <2>3, PTL DEF Spec
<1>2. ASSUME ~OneIsKept PROVE Spec => []OkIsTold
  <2>1. OkIsTold
    BY <1>2 DEF OkIsTold, OneIsKept
  <2> QED BY <2>1, PTL
<1> QED BY <1>1, <1>2

-----------------------------------------------------------------------------
\* All of it together, as the runs check it.
THEOREM TranscriptsHold ==
  ASSUME RunnerAssumption, OneAtATime PROVE Spec => []TranscriptHolds
<1>1. TypeOK /\ WholeTurns /\ BufferedInOrder /\ OkIsTold => TranscriptHolds
  BY DEF TranscriptHolds
<1>2. QED
  BY <1>1, TypeCorrect, TurnsAreWhole, BufferKeepsOrder, OkStaysTold, PTL
=============================================================================

----------------------------- MODULE AppProofs ------------------------------
(***************************************************************************)
(* Proofs about the program around the agents: the Claude Code loop, the   *)
(* panel's updates, and the panel's draft of the configuration.            *)
(***************************************************************************)
EXTENDS ClaudeCode, GuiUpdate, GuiConfig, Validation, Integers, FiniteSetTheorems, SequenceTheorems,
        WellFoundedInduction, TLAPS

-----------------------------------------------------------------------------
(* The Claude Code loop, for any conversations, messages and lines. What a *)
(* process printed is split into what the run has read, what the stream    *)
(* task handed over, what waits in the pipe, and what a cancellation cut   *)
(* off (Heard); a session that a /reset made stale is neither stored nor   *)
(* gone on with, for ids are new (Forgotten).                              *)

Words == {"text", "wide"}

\* The texts of n lines, in their order: told[i], of m, is the i-th line that is
\* a text.
Picks(at, lines, n, told, m) ==
  /\ at \in [1..m -> 1..n]
  /\ \A i, j \in 1..m : i < j => at[i] < at[j]
  /\ \A i \in 1..m : told[i] = lines[at[i]]
  /\ \A k \in 1..n : lines[k] \in Words => \E i \in 1..m : at[i] = k
Tells(lines, told) == \E at : Picks(at, lines, Len(lines), told, Len(told))

\* No lines, no texts.
LEMMA NothingTold == ASSUME NEW told \in Seq(Words) PROVE Tells(<< >>, told) <=> told = << >>
<1>1. ASSUME Tells(<< >>, told) PROVE told = << >>
  <2>1. Len(told) \in Nat /\ Len(<< >>) = 0
    BY LenProperties, EmptySeq
  <2>2. ASSUME told # << >> PROVE FALSE
    <3>1. 1 \in 1..Len(told)
      BY <2>1, <2>2, EmptySeq
    <3>2. PICK at : at \in [1..Len(told) -> 1..0]
      BY <1>1, <2>1 DEF Tells, Picks
    <3>3. at[1] \in 1..0
      BY <3>1, <3>2
    <3> QED BY <3>3
  <2> QED BY <2>2
<1>2. Tells(<< >>, << >>)
  <2>1. Len(<< >>) = 0
    BY EmptySeq
  <2>2. Picks([i \in 1..0 |-> i], << >>, 0, << >>, 0)
    BY DEF Picks
  <2> QED BY <2>1, <2>2 DEF Tells
<1> QED BY <1>1, <1>2

\* A line at the end adds its text at the end.
LEMMA TellsMore ==
  ASSUME NEW lines \in Seq(Line), NEW told \in Seq(Words), NEW l \in Line, Tells(lines, told)
  PROVE  IF l \in Words THEN Tells(Append(lines, l), Append(told, l))
                        ELSE Tells(Append(lines, l), told)
<1>1. PICK m \in Nat, n \in Nat : m = Len(told) /\ n = Len(lines)
  BY LenProperties
<1>2. PICK at : Picks(at, lines, n, told, m)
  BY <1>1 DEF Tells
<1>3. PICK more : more = Append(lines, l)
  OBVIOUS
<1>4. Len(more) = n + 1 /\ more[n + 1] = l /\ \A i \in 1..n : more[i] = lines[i]
  BY <1>1, <1>3, AppendProperties
<1>5. \A i \in 1..(n + 1) : i = n + 1 \/ i \in 1..n
  OBVIOUS
<1>6. ASSUME l \notin Words PROVE Tells(more, told)
  <2>1. at \in [1..m -> 1..(n + 1)] /\ \A i \in 1..m : at[i] \in 1..n
    BY <1>2 DEF Picks
  <2>2. \A k \in 1..(n + 1) : more[k] \in Words => \E i \in 1..m : at[i] = k
    BY <1>2, <1>4, <1>5, <1>6 DEF Picks
  <2>3. Picks(at, more, n + 1, told, m)
    BY <1>2, <1>4, <2>1, <2>2 DEF Picks
  <2> QED BY <1>1, <1>4, <2>3 DEF Tells
<1>7. ASSUME l \in Words PROVE Tells(more, Append(told, l))
  <2>1. PICK new : new = Append(told, l)
    OBVIOUS
  <2>2. Len(new) = m + 1 /\ new[m + 1] = l /\ \A i \in 1..m : new[i] = told[i]
    BY <1>1, <1>7, <2>1, AppendProperties
  <2>3. PICK to : to = [i \in 1..(m + 1) |-> IF i = m + 1 THEN n + 1 ELSE at[i]]
    OBVIOUS
  <2>4. \A i \in 1..(m + 1) : i = m + 1 \/ i \in 1..m
    OBVIOUS
  <2>5. DOMAIN to = 1..(m + 1) /\ to[m + 1] = n + 1
    BY <2>3
  <2>6. \A i \in 1..m : to[i] = at[i] /\ at[i] \in 1..n
    BY <1>2, <2>3 DEF Picks
  <2>7. to \in [1..(m + 1) -> 1..(n + 1)]
    <3>1. ASSUME NEW i \in 1..(m + 1) PROVE to[i] \in 1..(n + 1)
      <4>1. CASE i = m + 1
        BY <2>5, <4>1
      <4>2. CASE i \in 1..m
        BY <2>6, <4>2
      <4> QED BY <2>4, <4>1, <4>2
    <3> QED BY <2>3, <3>1
  <2>8. \A i, j \in 1..(m + 1) : i < j => to[i] < to[j]
    <3> SUFFICES ASSUME NEW i \in 1..(m + 1), NEW j \in 1..(m + 1), i < j PROVE to[i] < to[j]
      OBVIOUS
    <3>1. i \in 1..m
      BY <2>4
    <3>2. CASE j = m + 1
      BY <2>5, <2>6, <3>1, <3>2
    <3>3. CASE j \in 1..m
      BY <1>2, <2>6, <3>1, <3>3 DEF Picks
    <3> QED BY <2>4, <3>2, <3>3
  <2>9. \A i \in 1..(m + 1) : new[i] = more[to[i]]
    <3>1. \A i \in 1..m : new[i] = more[to[i]]
      BY <1>2, <1>4, <2>2, <2>6 DEF Picks
    <3> QED BY <1>4, <2>2, <2>4, <2>5, <3>1
  <2>10. \A k \in 1..(n + 1) : more[k] \in Words => \E i \in 1..(m + 1) : to[i] = k
    <3> SUFFICES ASSUME NEW k \in 1..(n + 1), more[k] \in Words PROVE \E i \in 1..(m + 1) : to[i] = k
      OBVIOUS
    <3>1. CASE k = n + 1
      BY <2>5, <3>1
    <3>2. CASE k \in 1..n
      <4>1. PICK i \in 1..m : at[i] = k
        BY <1>2, <1>4, <3>2 DEF Picks
      <4>2. i \in 1..(m + 1)
        OBVIOUS
      <4> QED BY <2>6, <4>1, <4>2
    <3> QED BY <1>5, <3>1, <3>2
  <2>11. Picks(to, more, n + 1, new, m + 1)
    BY <2>7, <2>8, <2>9, <2>10 DEF Picks
  <2> QED BY <1>4, <2>1, <2>2, <2>11 DEF Tells
<1> QED BY <1>3, <1>6, <1>7

\* A first line that is taken takes its text from the front.
LEMMA TellsLess ==
  ASSUME NEW lines \in Seq(Line), NEW told \in Seq(Words), lines # << >>, Tells(lines, told)
  PROVE  IF Head(lines) \in Words
         THEN told # << >> /\ Head(told) = Head(lines) /\ Tells(Tail(lines), Tail(told))
         ELSE Tells(Tail(lines), told)
<1>1. PICK m \in Nat, n \in Nat : m = Len(told) /\ n = Len(lines)
  BY LenProperties
<1>2. PICK at : Picks(at, lines, n, told, m)
  BY <1>1 DEF Tells
<1>3. n > 0 /\ Head(lines) = lines[1]
  BY <1>1, EmptySeq
<1>4. PICK less : less = Tail(lines)
  OBVIOUS
<1>5. Len(less) = n - 1 /\ \A i \in 1..(n - 1) : less[i] = lines[i + 1]
  BY <1>1, <1>4, HeadTailProperties
<1>6. \A k \in 1..(n - 1) : k + 1 \in 1..n /\ k + 1 \in 2..n /\ less[k] = lines[k + 1] /\ (k + 1) - 1 = k
  BY <1>3, <1>5
<1>7. \A k \in 2..n : k - 1 \in 1..(n - 1) /\ (k - 1) + 1 = k /\ less[k - 1] = lines[k]
  <2> SUFFICES ASSUME NEW k \in 2..n PROVE k - 1 \in 1..(n - 1) /\ (k - 1) + 1 = k /\ less[k - 1] = lines[k]
    OBVIOUS
  <2>1. k - 1 \in 1..(n - 1) /\ (k - 1) + 1 = k
    BY <1>3
  <2>2. less[k - 1] = lines[(k - 1) + 1]
    BY <1>5, <2>1
  <2> QED BY <2>1, <2>2
<1>8. \A i \in 1..m : told[i] \in Words
  BY <1>1, ElementOfSeq
<1>9. ASSUME lines[1] \notin Words PROVE Tells(less, told)
  <2>1. PICK to : to = [i \in 1..m |-> at[i] - 1]
    OBVIOUS
  <2>2. \A i \in 1..m : at[i] \in 2..n /\ to[i] = at[i] - 1
    <3>1. \A i \in 1..m : at[i] \in 1..n /\ lines[at[i]] \in Words
      BY <1>2, <1>8 DEF Picks
    <3> QED BY <1>9, <2>1, <3>1
  <2>3. to \in [1..m -> 1..(n - 1)]
    BY <2>1, <2>2
  <2>4. \A i, j \in 1..m : i < j => to[i] < to[j]
    BY <1>2, <2>2 DEF Picks
  <2>5. ASSUME NEW i \in 1..m PROVE told[i] = less[to[i]]
    <3>1. told[i] = lines[at[i]]
      BY <1>2 DEF Picks
    <3>2. less[at[i] - 1] = lines[at[i]]
      BY <1>7, <2>2
    <3> QED BY <2>2, <3>1, <3>2
  <2>6. \A k \in 1..(n - 1) : less[k] \in Words => \E i \in 1..m : to[i] = k
    <3> SUFFICES ASSUME NEW k \in 1..(n - 1), less[k] \in Words PROVE \E i \in 1..m : to[i] = k
      OBVIOUS
    <3>1. lines[k + 1] \in Words /\ k + 1 \in 1..n /\ (k + 1) - 1 = k
      BY <1>6
    <3>2. PICK i \in 1..m : at[i] = k + 1
      BY <1>2, <3>1 DEF Picks
    <3>3. to[i] = k
      BY <2>2, <3>1, <3>2
    <3> QED BY <3>3
  <2>7. Picks(to, less, n - 1, told, m)
    BY <2>3, <2>4, <2>5, <2>6 DEF Picks
  <2> QED BY <1>1, <1>5, <2>7 DEF Tells
<1>10. ASSUME lines[1] \in Words PROVE told # << >> /\ told[1] = lines[1] /\ Tells(less, Tail(told))
  <2>1. PICK i \in 1..m : at[i] = 1
    BY <1>2, <1>3, <1>10 DEF Picks
  <2>2. m > 0 /\ at[1] = 1
    <3>1. 1 \in 1..m /\ at[1] \in 1..n
      BY <1>2, <2>1 DEF Picks
    <3>2. ~(1 < i)
      BY <1>2, <2>1, <3>1 DEF Picks
    <3> QED BY <2>1, <3>1, <3>2
  <2>3. told # << >> /\ told[1] = lines[1]
    BY <1>1, <1>2, <2>2, EmptySeq DEF Picks
  <2>4. PICK rest : rest = Tail(told)
    OBVIOUS
  <2>5. Len(rest) = m - 1 /\ \A k \in 1..(m - 1) : rest[k] = told[k + 1]
    BY <1>1, <2>3, <2>4, HeadTailProperties
  <2>6. PICK to : to = [k \in 1..(m - 1) |-> at[k + 1] - 1]
    OBVIOUS
  <2>7. \A k \in 1..(m - 1) : at[k + 1] \in 2..n /\ to[k] = at[k + 1] - 1
    <3> SUFFICES ASSUME NEW k \in 1..(m - 1) PROVE at[k + 1] \in 2..n
      BY <2>6
    <3>1. 1 \in 1..m /\ k + 1 \in 1..m /\ 1 < k + 1
      BY <2>2
    <3>2. at[1] < at[k + 1] /\ at[k + 1] \in 1..n
      BY <1>2, <3>1 DEF Picks
    <3> QED BY <2>2, <3>2
  <2>8. to \in [1..(m - 1) -> 1..(n - 1)]
    BY <2>6, <2>7
  <2>9. \A j, k \in 1..(m - 1) : j < k => to[j] < to[k]
    <3> SUFFICES ASSUME NEW j \in 1..(m - 1), NEW k \in 1..(m - 1), j < k PROVE to[j] < to[k]
      OBVIOUS
    <3>1. j + 1 \in 1..m /\ k + 1 \in 1..m /\ j + 1 < k + 1
      BY <2>2
    <3>2. at[j + 1] < at[k + 1]
      BY <1>2, <3>1 DEF Picks
    <3> QED BY <2>7, <3>2
  <2>10. \A k \in 1..(m - 1) : rest[k] = less[to[k]]
    <3> SUFFICES ASSUME NEW k \in 1..(m - 1) PROVE rest[k] = less[to[k]]
      OBVIOUS
    <3>1. rest[k] = lines[at[k + 1]] /\ at[k + 1] \in 2..n /\ to[k] = at[k + 1] - 1
      BY <1>2, <2>5, <2>7 DEF Picks
    <3> QED BY <1>5, <3>1
  <2>11. \A k \in 1..(n - 1) : less[k] \in Words => \E j \in 1..(m - 1) : to[j] = k
    <3> SUFFICES ASSUME NEW k \in 1..(n - 1), less[k] \in Words PROVE \E j \in 1..(m - 1) : to[j] = k
      OBVIOUS
    <3>1. lines[k + 1] \in Words /\ k + 1 \in 1..n /\ k + 1 \in 2..n /\ (k + 1) - 1 = k
      BY <1>6
    <3>2. PICK j \in 1..m : at[j] = k + 1
      BY <1>2, <3>1 DEF Picks
    <3>3. j # 1
      BY <2>2, <3>2, <3>1
    <3>4. j - 1 \in 1..(m - 1) /\ (j - 1) + 1 = j
      BY <3>3
    <3>5. to[j - 1] = at[j] - 1
      BY <2>7, <3>4
    <3>6. to[j - 1] = k
      BY <3>2, <3>1, <3>5
    <3> QED BY <3>4, <3>6
  <2>12. Picks(to, less, n - 1, rest, m - 1)
    BY <2>8, <2>9, <2>10, <2>11 DEF Picks
  <2> QED BY <1>5, <2>3, <2>4, <2>5, <2>12 DEF Tells
<1>11. told # << >> => Head(told) = told[1]
  OBVIOUS
<1> QED BY <1>3, <1>4, <1>9, <1>10, <1>11

\* A queue that is not empty: its first element and the others.
LEMMA FirstOf == ASSUME NEW S, NEW s \in Seq(S), s # << >> PROVE Head(s) \in S /\ Tail(s) \in Seq(S)
BY HeadTailProperties

\* Two pieces, one after the other.
Join(p, q) == p \o q

\* What is added to the end of two pieces is added to the second; an empty piece
\* adds nothing.
LEMMA Joined ==
  \A S : /\ << >> \in Seq(S)
         /\ \A p \in Seq(S) : Join(p, << >>) = p /\ Join(<< >>, p) = p
         /\ \A p, q \in Seq(S) : Join(p, q) \in Seq(S)
         /\ \A p, q \in Seq(S), e \in S : Append(Join(p, q), e) = Join(p, Append(q, e))
<1> TAKE S
<1>1. /\ << >> \in Seq(S)
      /\ \A p \in Seq(S) : Join(p, << >>) = p /\ Join(<< >>, p) = p
      /\ \A p, q \in Seq(S) : Join(p, q) \in Seq(S)
  BY EmptySeq, ConcatEmptySeq, ConcatProperties DEF Join
<1>2. \A p, q \in Seq(S), e \in S : Append(Join(p, q), e) = Join(p, Append(q, e))
  <2> TAKE p, q \in Seq(S), e \in S
  <2>1. p \o q \in Seq(S) /\ <<e>> \in Seq(S)
    BY ConcatProperties
  <2>2. Append(p \o q, e) = (p \o q) \o <<e>> /\ Append(q, e) = q \o <<e>>
    BY <2>1, AppendIsConcat
  <2> QED BY <2>1, <2>2, ConcatAssociative DEF Join
<1> QED BY <1>1, <1>2

\* Pieces may be grouped from either end.
LEMMA Regrouped == \A S : \A p, q, r \in Seq(S) : Join(Join(p, q), r) = Join(p, Join(q, r))
<1> TAKE S
<1> TAKE p, q, r \in Seq(S)
<1>1. (p \o q) \o r = p \o (q \o r)
  BY ConcatAssociative, SMTT(30)
<1> QED BY <1>1 DEF Join

\* The first element of a second piece may be the last of the first.
LEMMA FirstMoves ==
  \A S : \A p, q, r \in Seq(S) :
    q # << >> => Join(p, Join(q, r)) = Join(Append(p, Head(q)), Join(Tail(q), r))
<1> TAKE S
<1> TAKE p, q, r \in Seq(S)
<1> HAVE q # << >>
<1>1. PICK e \in S, t \in Seq(S) : e = Head(q) /\ t = Tail(q)
  BY FirstOf
<1>2. PICK x \in Seq(S) : x = <<e>>
  <2>1. <<e>> \in Seq(S)
    OBVIOUS
  <2> QED BY <2>1
<1>3. q = Join(x, t)
  <2>1. PICK n \in Nat : n = Len(q) /\ n # 0
    BY LenProperties, EmptySeq
  <2>2. q = SubSeq(q, 1, n) /\ t = SubSeq(q, 2, n) /\ e = q[1] /\ 1 \in 1..n
    BY <1>1, <2>1, SubSeqFull, TailIsSubSeq
  <2>3. SubSeq(q, 1, n) = <<q[1]>> \o SubSeq(q, 2, n)
    BY <2>1, <2>2, SubSeqRecursiveFirst
  <2> QED BY <1>2, <2>2, <2>3 DEF Join
<1>4. Append(p, e) = Join(p, x)
  BY <1>2, AppendIsConcat DEF Join
<1>5. PICK rest \in Seq(S) : rest = Join(t, r)
  BY Joined
<1>6. Join(q, r) = Join(x, rest)
  BY <1>3, <1>5, Regrouped
<1>7. Join(Join(p, x), rest) = Join(p, Join(x, rest))
  BY Regrouped
<1> QED BY <1>1, <1>4, <1>5, <1>6, <1>7

-----------------------------------------------------------------------------

Message == [kind : {"prompt", "/reset", "/status"}, key : Keys]

ClaudeTypeOK ==
  /\ inboxed \in Seq(Message)
  /\ mapping \in [Keys -> [there : BOOLEAN, session : Nat, count : Nat]]
  /\ loopPc \in {"idle", "reading", "exited", "panicked"}
  /\ ccRun \in [key : Keys \cup {"none"}, resumed : Nat, session : Nat, text : Seq(Line)]
  /\ process \in [is : {"running", "exited", "none"}, session : Nat, lines : Nat]
  /\ pipe \in Seq(Line) /\ parsed \in Seq(Line) /\ printed \in Seq(Words)
  /\ stream \in {"open", "closed", "broken", "none"} /\ stopping \in BOOLEAN
  /\ lastSession \in Nat /\ stale \in [Keys -> SUBSET Nat]

\* What a /reset made stale is not what the store or a run goes on with: the
\* loop handles a conversation's messages one by one, and a new session's id is
\* new.
Forgotten ==
  /\ \A k \in Keys : /\ stale[k] \subseteq 1..lastSession
                     /\ mapping[k].session \notin stale[k] /\ mapping[k].session <= lastSession
  /\ loopPc = "reading" =>
       /\ ccRun.key \in Keys
       /\ process.session \notin stale[ccRun.key] /\ process.session \in 1..lastSession
       /\ ccRun.resumed \notin stale[ccRun.key]
       /\ ccRun.session \in {NoSession, process.session}

\* The stages of a run's output.
Stages ==
  /\ loopPc # "reading" => process.is = "none" /\ stream = "none"
  /\ loopPc = "reading" => process.is # "none" /\ stream # "none"
  /\ stream \in {"closed", "broken"} => pipe = << >>
  /\ stream = "closed" => stopping \/ process.is = "exited"
  /\ \A i \in DOMAIN parsed :
       parsed[i] = "result" => i = Len(parsed) /\ pipe = << >> /\ process.lines >= MaxLines
  /\ \A i \in DOMAIN pipe : pipe[i] = "result" => i = Len(pipe) /\ process.lines >= MaxLines

\* What was printed is what the run has read, what was handed over to it, what
\* waits in the pipe, and what came after a cancellation or a failed read and is
\* lost.
Complete == stream = "open" \/ ~Cut
Heard(handed, waiting, lost) ==
  /\ handed \in Seq(Words) /\ waiting \in Seq(Words) /\ lost \in Seq(Words)
  /\ Tells(parsed, handed) /\ Tells(pipe, waiting)
  /\ ccRun.text \in Seq(Words)
  /\ printed = Join(ccRun.text, Join(handed, Join(waiting, lost)))
  /\ Complete => lost = << >>
\* The result's text is taken where nothing else was printed.
OnlyResult ==
  /\ ccRun.text = <<"result">> /\ parsed = << >> /\ pipe = << >> /\ process.lines >= MaxLines
  /\ Complete => printed = << >>
Listening == loopPc = "reading" => OnlyResult \/ \E h, w, l : Heard(h, w, l)

ClaudeInv == ClaudeTypeOK /\ Forgotten /\ Stages /\ Listening /\ ReplyIsOutput

\* Types of the records' fields.
LEMMA ClaudeTypes ==
  ASSUME ClaudeTypeOK
  PROVE  /\ ccRun.text \in Seq(Line) /\ ccRun.session \in Nat /\ process.lines \in Nat
         /\ process.session \in Nat /\ process.is \in {"running", "exited", "none"}
         /\ \A k \in Keys : mapping[k] \in [there : BOOLEAN, session : Nat, count : Nat]
BY DEF ClaudeTypeOK

\* The loop is idle, and nothing was said.
LEMMA ClaudeInitInv == ClaudeInit => ClaudeInv
<1> SUFFICES ASSUME ClaudeInit PROVE ClaudeInv
  OBVIOUS
<1>1. \A S : << >> \in Seq(S)
  BY EmptySeq
<1>2. mapping \in [Keys -> [there : BOOLEAN, session : Nat, count : Nat]]
  BY DEF ClaudeInit, NoSession
<1>3. stale \in [Keys -> SUBSET Nat]
  BY DEF ClaudeInit
<1>4. ccRun \in [key : Keys \cup {"none"}, resumed : Nat, session : Nat, text : Seq(Line)]
  BY <1>1 DEF ClaudeInit, NoRun, NoSession
<1>5. process \in [is : {"running", "exited", "none"}, session : Nat, lines : Nat]
  BY DEF ClaudeInit, NoProcess, NoSession
<1>6. ClaudeTypeOK
  BY <1>1, <1>2, <1>3, <1>4, <1>5 DEF ClaudeInit, ClaudeTypeOK
<1>7. Forgotten
  BY DEF ClaudeInit, Forgotten, NoSession
<1>8. Stages
  BY EmptySeq DEF ClaudeInit, Stages, NoProcess
<1>9. ReplyIsOutput
  <2>1. IsPrefix(<< >>, << >>)
    BY EmptySeq DEF IsPrefix
  <2> QED BY <2>1 DEF ClaudeInit, ReplyIsOutput, NoReply
<1> QED BY <1>6, <1>7, <1>8, <1>9 DEF ClaudeInit, ClaudeInv, Listening

\* Messages that come, a /status and the end of the loop touch no run.
LEMMA LoopKeeps ==
  ASSUME ClaudeInv,
         \/ \E k \in Keys, kind \in {"prompt", "/reset", "/status"} : Arrive(kind, k)
         \/ StopLoop \/ LoopExit \/ HandleReset \/ HandleStatus
  PROVE  ClaudeInv'
<1>1. inboxed' \in Seq(Message)
  <2>1. inboxed \in Seq(Message)
    BY DEF ClaudeInv, ClaudeTypeOK
  <2>2. ASSUME NEW k \in Keys, NEW kind \in {"prompt", "/reset", "/status"}, Arrive(kind, k)
        PROVE  inboxed' \in Seq(Message)
    <3>1. [kind |-> kind, key |-> k] \in Message
      BY DEF Message
    <3> QED BY <2>1, <2>2, <3>1, AppendProperties DEF Arrive
  <2>3. CASE HandleReset \/ HandleStatus
    <3>1. inboxed # << >> /\ inboxed' = Tail(inboxed)
      BY <2>3 DEF HandleReset, HandleStatus, Taken
    <3> QED BY <2>1, <3>1, FirstOf
  <2>4. CASE StopLoop \/ LoopExit
    BY <2>1, <2>4 DEF StopLoop, LoopExit
  <2> QED BY <2>2, <2>3, <2>4
<1>2. /\ process' = process /\ pipe' = pipe /\ stream' = stream /\ parsed' = parsed
      /\ lastSession' = lastSession /\ printed' = printed /\ ccRun' = ccRun /\ replied' = replied
      /\ loopPc' \in {"idle", "reading", "exited", "panicked"}
      /\ loopPc' = loopPc \/ (loopPc = "idle" /\ loopPc' = "exited")
      /\ stopping' \in BOOLEAN /\ (stopping => stopping')
  BY DEF Arrive, StopLoop, LoopExit, HandleReset, HandleStatus, streamVars, ClaudeInv, ClaudeTypeOK
<1>3. /\ mapping' \in [Keys -> [there : BOOLEAN, session : Nat, count : Nat]]
      /\ stale' \in [Keys -> SUBSET Nat]
      /\ \A k \in Keys : /\ stale'[k] \subseteq 1..lastSession
                         /\ mapping'[k].session \notin stale'[k] /\ mapping'[k].session <= lastSession
      /\ loopPc' = "reading" => stale' = stale
  <2>1. CASE HandleReset /\ ~UNCHANGED <<mapping, stale>>
    <3>1. inboxed \in Seq(Message) /\ inboxed # << >>
      BY <2>1 DEF HandleReset, Taken, ClaudeInv, ClaudeTypeOK
    <3>2. PICK k : k = Head(inboxed).key
      OBVIOUS
    <3>3. k \in Keys
      <4>1. Head(inboxed) \in Message
        BY <3>1, FirstOf
      <4> QED BY <3>2, <4>1 DEF Message
    <3>4. /\ mapping' = [mapping EXCEPT ![k] = [there |-> FALSE, session |-> NoSession, count |-> 0]]
          /\ stale' = [stale EXCEPT ![k] = 1..lastSession]
      BY <2>1, <3>2 DEF HandleReset
    <3>5. /\ mapping' \in [Keys -> [there : BOOLEAN, session : Nat, count : Nat]]
          /\ mapping'[k].session = 0 /\ \A l \in Keys : l # k => mapping'[l] = mapping[l]
      BY <3>4, <3>3 DEF ClaudeInv, ClaudeTypeOK, NoSession
    <3>6. /\ stale' \in [Keys -> SUBSET Nat]
          /\ stale'[k] = 1..lastSession /\ \A l \in Keys : l # k => stale'[l] = stale[l]
      <4>1. stale \in [Keys -> SUBSET Nat] /\ lastSession \in Nat
        BY DEF ClaudeInv, ClaudeTypeOK
      <4>2. 1..lastSession \in SUBSET Nat
        BY <4>1
      <4> QED BY <3>4, <3>3, <4>1, <4>2
    <3>7. loopPc' = "idle" /\ lastSession \in Nat
      BY <2>1 DEF HandleReset, Taken, ClaudeInv, ClaudeTypeOK
    <3>8. \A l \in Keys : /\ stale'[l] \subseteq 1..lastSession
                           /\ mapping'[l].session \notin stale'[l] /\ mapping'[l].session <= lastSession
      <4> SUFFICES ASSUME NEW l \in Keys
                   PROVE /\ stale'[l] \subseteq 1..lastSession
                         /\ mapping'[l].session \notin stale'[l] /\ mapping'[l].session <= lastSession
        OBVIOUS
      <4>1. CASE l = k
        BY <3>5, <3>6, <3>7, <4>1
      <4>2. CASE l # k
        BY <3>5, <3>6, <4>2 DEF ClaudeInv, Forgotten
      <4> QED BY <4>1, <4>2
    <3> QED BY <3>5, <3>6, <3>7, <3>8
  <2>2. CASE ~HandleReset \/ UNCHANGED <<mapping, stale>>
    <3>1. mapping' = mapping /\ stale' = stale
      BY <2>2 DEF Arrive, StopLoop, LoopExit, HandleStatus
    <3> QED BY <3>1 DEF ClaudeInv, ClaudeTypeOK, Forgotten
  <2> QED BY <2>1, <2>2
<1>4. ClaudeTypeOK'
  BY <1>1, <1>2, <1>3 DEF ClaudeInv, ClaudeTypeOK
<1>5. Forgotten'
  BY <1>2, <1>3 DEF ClaudeInv, Forgotten
<1>6. Stages'
  BY <1>2 DEF ClaudeInv, Stages
<1>7. ASSUME loopPc' = "reading" PROVE OnlyResult' \/ \E h, w, l : Heard(h, w, l)'
  <2>1. Complete' => Complete
    BY <1>2 DEF Complete, Cut
  <2>2. CASE OnlyResult
    BY <1>2, <2>1, <2>2 DEF OnlyResult
  <2>3. CASE \E h, w, l : Heard(h, w, l)
    <3>1. PICK h, w, l : Heard(h, w, l)
      BY <2>3
    <3>2. Heard(h, w, l)'
      BY <1>2, <2>1, <3>1 DEF Heard
    <3> QED BY <3>2
  <2> QED BY <1>2, <1>7, <2>2, <2>3 DEF ClaudeInv, Listening
<1> QED BY <1>2, <1>4, <1>5, <1>6, <1>7 DEF ClaudeInv, Listening, ReplyIsOutput

\* A run begins with nothing said, in a session that is new or that the
\* conversation had since its last /reset.
LEMMA StartKeeps == ASSUME ClaudeInv, StartRun PROVE ClaudeInv'
<1>1. PICK k : k = Head(inboxed).key
  OBVIOUS
<1>2. k \in Keys /\ inboxed' \in Seq(Message)
  <2>1. inboxed \in Seq(Message) /\ inboxed # << >> /\ inboxed' = Tail(inboxed)
    BY DEF StartRun, Taken, ClaudeInv, ClaudeTypeOK
  <2>2. Head(inboxed) \in Message /\ Tail(inboxed) \in Seq(Message)
    BY <2>1, FirstOf
  <2> QED BY <1>1, <2>1, <2>2 DEF Message
<1>3. mapping' \in {mapping, [mapping EXCEPT ![k].there = TRUE]}
  BY <1>1 DEF StartRun
<1>4. /\ mapping' \in [Keys -> [there : BOOLEAN, session : Nat, count : Nat]]
      /\ \A c \in Keys : mapping'[c].session = mapping[c].session
  <2>1. mapping \in [Keys -> [there : BOOLEAN, session : Nat, count : Nat]]
    BY DEF ClaudeInv, ClaudeTypeOK
  <2>2. PICK m : m = [mapping[k] EXCEPT !.there = TRUE]
    OBVIOUS
  <2>3. m \in [there : BOOLEAN, session : Nat, count : Nat] /\ m.session = mapping[k].session
    BY <1>2, <2>1, <2>2
  <2>4. mapping' = mapping \/ mapping' = [mapping EXCEPT ![k] = m]
    BY <1>3, <2>2
  <2> QED BY <1>2, <2>1, <2>3, <2>4
<1>5. /\ loopPc = "idle" /\ stopping' = stopping /\ stale' = stale /\ replied' = NoReply
  BY DEF StartRun, Taken
<1>6. ReplyIsOutput'
  <2>1. IsPrefix(<< >>, << >>)
    BY EmptySeq DEF IsPrefix
  <2> QED BY <1>5, <2>1 DEF ReplyIsOutput, NoReply
<1>7. CASE loopPc' = loopPc /\ ccRun' = ccRun /\ UNCHANGED streamVars
  <2>1. ClaudeTypeOK'
    BY <1>2, <1>4, <1>5, <1>7 DEF ClaudeInv, ClaudeTypeOK, streamVars
  <2>2. Forgotten'
    BY <1>4, <1>5, <1>7 DEF ClaudeInv, Forgotten, streamVars
  <2>3. Stages'
    BY <1>5, <1>7 DEF ClaudeInv, Stages, streamVars
  <2>4. Listening'
    BY <1>5, <1>7 DEF Listening
  <2> QED BY <1>6, <2>1, <2>2, <2>3, <2>4 DEF ClaudeInv
<1>8. CASE /\ loopPc' = "reading" /\ stream' = "open"
           /\ ccRun' = [NoRun EXCEPT !.key = k, !.resumed = mapping[k].session]
           /\ \E id \in {lastSession + 1} \cup ({mapping[k].session} \ {NoSession}) :
                /\ process' = [is |-> "running", session |-> id, lines |-> 0]
                /\ lastSession' = IF id > lastSession THEN id ELSE lastSession
           /\ pipe' = << >> /\ parsed' = << >> /\ printed' = << >>
  <2>1. PICK id \in {lastSession + 1} \cup ({mapping[k].session} \ {NoSession}) :
                /\ process' = [is |-> "running", session |-> id, lines |-> 0]
                /\ lastSession' = IF id > lastSession THEN id ELSE lastSession
    BY <1>8
  <2>2. /\ lastSession \in Nat /\ mapping[k].session \in Nat /\ stale[k] \subseteq 1..lastSession
        /\ mapping[k].session \notin stale[k] /\ mapping[k].session <= lastSession
    BY <1>2 DEF ClaudeInv, ClaudeTypeOK, Forgotten
  <2>3. /\ lastSession' \in Nat /\ lastSession <= lastSession' /\ id \in 1..lastSession'
        /\ id \notin stale[k]
    BY <2>1, <2>2 DEF NoSession
  <2>4. process' \in [is : {"running", "exited", "none"}, session : Nat, lines : Nat]
    BY <2>1, <2>3
  <2>5. /\ ccRun'.key = k /\ ccRun'.resumed = mapping[k].session
        /\ ccRun'.session = NoSession /\ ccRun'.text = << >>
        /\ ccRun' \in [key : Keys \cup {"none"}, resumed : Nat, session : Nat, text : Seq(Line)]
    BY <1>2, <1>8, <2>2, EmptySeq DEF NoRun, NoSession
  <2>6. \A S : << >> \in Seq(S)
    BY EmptySeq
  <2>7. ClaudeTypeOK'
    BY <1>2, <1>4, <1>5, <1>8, <2>3, <2>4, <2>5, <2>6 DEF ClaudeInv, ClaudeTypeOK
  <2>8. Forgotten'
    <3>1. \A c \in Keys : /\ stale'[c] \subseteq 1..lastSession'
                          /\ mapping'[c].session \notin stale'[c] /\ mapping'[c].session <= lastSession'
      <4> SUFFICES ASSUME NEW c \in Keys
                   PROVE /\ stale'[c] \subseteq 1..lastSession'
                         /\ mapping'[c].session \notin stale'[c] /\ mapping'[c].session <= lastSession'
        OBVIOUS
      <4>1. /\ stale[c] \subseteq 1..lastSession /\ mapping[c].session \in Nat
            /\ mapping[c].session \notin stale[c] /\ mapping[c].session <= lastSession
        BY DEF ClaudeInv, ClaudeTypeOK, Forgotten
      <4> QED BY <1>4, <1>5, <2>2, <2>3, <4>1
    <3>2. process'.session = id
      BY <2>1
    <3> QED BY <1>2, <1>5, <2>2, <2>3, <2>5, <3>1, <3>2 DEF Forgotten
  <2>9. Stages'
    BY <1>8, <2>1, EmptySeq DEF Stages
  <2>10. \E h, w, l : Heard(h, w, l)'
    <3>1. Tells(<< >>, << >>)
      BY <2>6, NothingTold
    <3>2. PICK none \in Seq(Words) : none = << >>
      BY <2>6
    <3>3. none = Join(none, Join(none, Join(none, none)))
      BY <3>2, Joined
    <3>4. Tells(parsed', none) /\ Tells(pipe', none)
      BY <1>8, <3>1, <3>2
    <3>5. printed' = none /\ ccRun'.text = none
      BY <1>8, <2>5, <3>2
    <3>6. Heard(none, none, none)'
      BY <3>2, <3>4, <3>5, <3>3 DEF Heard
    <3> QED BY <3>2, <3>6
  <2> QED BY <1>6, <2>7, <2>8, <2>9, <2>10 DEF ClaudeInv, Listening
<1> QED BY <1>1, <1>7, <1>8 DEF StartRun

\* A line that is printed waits in the pipe, or is lost after a cancellation.
LEMMA PrintKeeps ==
  ASSUME ClaudeInv, NEW line \in Line, ProcessPrints(line)
  PROVE  ClaudeInv'
<1>1. /\ process.is = "running" /\ process.lines < MaxLines /\ process.lines \in Nat /\ MaxLines \in Nat
      /\ process' = [process EXCEPT !.lines = IF line = "result" THEN MaxLines ELSE @ + 1]
      /\ loopPc = "reading" /\ loopPc' = "reading" /\ ccRun' = ccRun /\ stream' = stream
      /\ parsed' = parsed /\ stopping' = stopping /\ replied' = replied /\ stale' = stale
      /\ mapping' = mapping /\ lastSession' = lastSession /\ inboxed' = inboxed
  BY ClaudeTypes, ClaudeAssumption DEF ProcessPrints, ClaudeInv, ClaudeTypeOK, Stages
<1>2. /\ process' \in [is : {"running", "exited", "none"}, session : Nat, lines : Nat]
      /\ process'.is = "running" /\ process'.session = process.session
      /\ line = "result" => process'.lines = MaxLines
  <2>1. PICK lines \in Nat : lines = IF line = "result" THEN MaxLines ELSE process.lines + 1
    BY <1>1
  <2>2. process' = [process EXCEPT !.lines = lines]
    BY <1>1, <2>1
  <2> QED BY <1>1, <2>1, <2>2 DEF ClaudeInv, ClaudeTypeOK
<1>3. /\ pipe \in Seq(Line) /\ printed \in Seq(Words)
      /\ pipe' = IF stream = "open" THEN Append(pipe, line) ELSE pipe
      /\ printed' = IF line \in Words THEN Append(printed, line) ELSE printed
  BY DEF ProcessPrints, Words, ClaudeInv, ClaudeTypeOK
<1>4. pipe' \in Seq(Line) /\ printed' \in Seq(Words)
  BY <1>3, AppendProperties
<1>5. ClaudeTypeOK'
  BY <1>1, <1>2, <1>4 DEF ClaudeInv, ClaudeTypeOK
<1>6. Forgotten'
  BY <1>1, <1>2 DEF ClaudeInv, Forgotten
<1>7. Stages'
  <2>1. \A i \in DOMAIN parsed : parsed[i] # "result"
    BY <1>1 DEF ClaudeInv, Stages
  <2>2. \A i \in DOMAIN pipe : pipe[i] # "result"
    BY <1>1 DEF ClaudeInv, Stages
  <2>3. \A i \in DOMAIN pipe' : pipe'[i] = "result" => i = Len(pipe') /\ process'.lines >= MaxLines
    <3>1. CASE stream = "open"
      <4>1. PICK n \in Nat, more \in Seq(Line) : n = Len(pipe) /\ more = pipe'
        BY <1>3, <1>4, LenProperties
      <4>2. /\ Len(more) = n + 1 /\ more[n + 1] = line /\ \A i \in 1..n : more[i] = pipe[i]
            /\ DOMAIN more = 1..(n + 1) /\ DOMAIN pipe = 1..n
        BY <1>3, <3>1, <4>1, AppendProperties, LenProperties
      <4>3. \A i \in 1..(n + 1) : i = n + 1 \/ i \in 1..n
        OBVIOUS
      <4> QED BY <1>1, <1>2, <2>2, <4>1, <4>2, <4>3
    <3> QED BY <1>3, <2>2, <3>1
  <2>4. /\ stream # "none" /\ (stream \in {"closed", "broken"} => pipe' = << >>)
        /\ stream = "closed" => stopping
    BY <1>1, <1>3 DEF ClaudeInv, Stages
  <2> QED BY <1>1, <1>2, <2>1, <2>3, <2>4 DEF Stages
<1>8. PICK h, w, l : Heard(h, w, l)
  <2>1. ~OnlyResult
    BY <1>1 DEF OnlyResult
  <2> QED BY <1>1, <2>1 DEF ClaudeInv, Listening
<1>9. PICK t : t = ccRun.text /\ t \in Seq(Words)
  BY <1>8 DEF Heard
<1>10. /\ h \in Seq(Words) /\ w \in Seq(Words) /\ l \in Seq(Words)
       /\ printed = Join(t, Join(h, Join(w, l))) /\ Tells(parsed, h) /\ Tells(pipe, w)
  BY <1>8, <1>9 DEF Heard
<1>11. ASSUME line \in Words
       PROVE  \A p, q \in Seq(Words) : Append(Join(p, q), line) = Join(p, Append(q, line))
  BY <1>11, Joined
<1>12. ASSUME stream = "open" PROVE \E a, b, c : Heard(a, b, c)'
  <2>1. l = << >> /\ Complete'
    BY <1>1, <1>8, <1>12 DEF Heard, Complete
  <2>2. CASE line \in Words
    <3>1. Tells(pipe', Append(w, line)) /\ Append(w, line) \in Seq(Words)
      BY <1>3, <1>10, <1>12, <2>2, TellsMore, AppendProperties
    <3>2. printed' = Append(Join(t, Join(h, Join(w, l))), line)
      BY <1>3, <1>10, <2>2
    <3>3. Join(w, l) = w /\ Join(h, w) \in Seq(Words)
      BY <1>10, <2>1, Joined, Joined
    <3>4. printed' = Join(t, Join(h, Append(w, line)))
      <4>1. PICK j : j = Join(h, w) /\ j \in Seq(Words)
        BY <3>3
      <4>2. Append(Join(t, j), line) = Join(t, Append(j, line))
        BY <1>9, <1>11, <2>2, <4>1
      <4>3. Append(j, line) = Join(h, Append(w, line))
        BY <1>10, <1>11, <2>2, <4>1
      <4> QED BY <3>2, <3>3, <4>1, <4>2, <4>3
    <3>5. Join(Append(w, line), l) = Append(w, line)
      BY <2>1, <3>1, Joined
    <3>6. Heard(h, Append(w, line), l)'
      BY <1>1, <1>9, <1>10, <2>1, <3>1, <3>4, <3>5 DEF Heard
    <3> QED BY <3>6
  <2>3. CASE line \notin Words
    <3>1. Tells(pipe', w)
      BY <1>3, <1>10, <1>12, <2>3, TellsMore
    <3>2. Heard(h, w, l)'
      BY <1>1, <1>3, <1>9, <1>10, <2>1, <2>3, <3>1 DEF Heard
    <3> QED BY <3>2
  <2> QED BY <2>2, <2>3
<1>13. ASSUME stream # "open" PROVE \E a, b, c : Heard(a, b, c)'
  <2>1. ~Complete'
    BY <1>1, <1>13 DEF ClaudeInv, ClaudeTypeOK, Stages, Complete, Cut
  <2>2. CASE line \in Words
    <3>1. Append(l, line) \in Seq(Words) /\ Join(w, l) \in Seq(Words) /\ Join(h, Join(w, l)) \in Seq(Words)
      BY <1>10, <2>2, AppendProperties, Joined
    <3>2. printed' = Join(t, Append(Join(h, Join(w, l)), line))
      BY <1>3, <1>9, <1>10, <1>11, <2>2, <3>1
    <3>3. printed' = Join(t, Join(h, Append(Join(w, l), line)))
      BY <1>10, <1>11, <2>2, <3>1, <3>2
    <3>4. printed' = Join(t, Join(h, Join(w, Append(l, line))))
      BY <1>10, <1>11, <2>2, <3>3
    <3>5. Heard(h, w, Append(l, line))'
      BY <1>1, <1>3, <1>9, <1>10, <1>13, <2>1, <3>1, <3>4 DEF Heard
    <3> QED BY <3>5
  <2>3. CASE line \notin Words
    <3>1. Heard(h, w, l)'
      BY <1>1, <1>3, <1>9, <1>10, <1>13, <2>1, <2>3 DEF Heard
    <3> QED BY <3>1
  <2> QED BY <2>2, <2>3
<1>14. Listening'
  BY <1>1, <1>12, <1>13 DEF Listening
<1>15. ReplyIsOutput'
  BY <1>1 DEF ClaudeInv, ReplyIsOutput
<1> QED BY <1>5, <1>6, <1>7, <1>14, <1>15 DEF ClaudeInv

\* That the process exits changes nothing that was said.
LEMMA ExitKeeps == ASSUME ClaudeInv, ProcessExits PROVE ClaudeInv'
<1>1. /\ process.is = "running" /\ process' = [process EXCEPT !.is = "exited"]
      /\ loopPc' = loopPc /\ ccRun' = ccRun /\ stream' = stream /\ pipe' = pipe
      /\ parsed' = parsed /\ printed' = printed
      /\ stopping' = stopping /\ replied' = replied /\ stale' = stale
      /\ mapping' = mapping /\ lastSession' = lastSession /\ inboxed' = inboxed
  BY DEF ProcessExits
<1>2. /\ process' \in [is : {"running", "exited", "none"}, session : Nat, lines : Nat]
      /\ process'.is = "exited" /\ process'.session = process.session /\ process'.lines = process.lines
  BY <1>1 DEF ClaudeInv, ClaudeTypeOK
<1>3. ClaudeTypeOK' /\ Forgotten'
  BY <1>1, <1>2 DEF ClaudeInv, ClaudeTypeOK, Forgotten
<1>4. Stages'
  BY <1>1, <1>2 DEF ClaudeInv, Stages
<1>5. Complete' <=> Complete
  BY <1>1 DEF Complete, Cut
<1>6. ASSUME loopPc' = "reading" PROVE OnlyResult' \/ \E h, w, l : Heard(h, w, l)'
  <2>1. CASE OnlyResult
    BY <1>1, <1>2, <1>5, <2>1 DEF OnlyResult
  <2>2. CASE \E h, w, l : Heard(h, w, l)
    <3>1. PICK h, w, l : Heard(h, w, l)
      BY <2>2
    <3>2. Heard(h, w, l)'
      BY <1>1, <1>5, <3>1 DEF Heard
    <3> QED BY <3>2
  <2> QED BY <1>1, <1>6, <2>1, <2>2 DEF ClaudeInv, Listening
<1>7. ReplyIsOutput'
  BY <1>1 DEF ClaudeInv, ReplyIsOutput
<1> QED BY <1>3, <1>4, <1>6, <1>7 DEF ClaudeInv, Listening

\* A line that is read goes from the pipe to the run.
LEMMA ReadKeeps == ASSUME ClaudeInv, StreamReads PROVE ClaudeInv'
<1>1. /\ process' = process /\ loopPc' = loopPc /\ ccRun' = ccRun /\ stream' = stream
      /\ printed' = printed /\ stopping' = stopping /\ replied' = replied /\ stale' = stale
      /\ mapping' = mapping /\ lastSession' = lastSession /\ inboxed' = inboxed
      /\ stream = "open"
  BY DEF StreamReads
<1>2. PICK line : line = Head(pipe)
  OBVIOUS
<1>3. /\ pipe \in Seq(Line) /\ parsed \in Seq(Line) /\ pipe # << >> /\ pipe' = Tail(pipe)
      /\ parsed' = IF line = "junk" THEN parsed ELSE Append(parsed, line)
  BY <1>2 DEF StreamReads, ClaudeInv, ClaudeTypeOK
<1>4. line \in Line /\ pipe' \in Seq(Line)
  BY <1>2, <1>3, FirstOf
<1>5. parsed' \in Seq(Line)
  BY <1>3, <1>4, AppendProperties
<1>6. ClaudeTypeOK' /\ Forgotten'
  BY <1>1, <1>4, <1>5 DEF ClaudeInv, ClaudeTypeOK, Forgotten
<1>7. PICK n \in Nat, rest \in Seq(Line) :
        /\ n = Len(pipe) /\ n > 0 /\ rest = pipe' /\ line = pipe[1]
        /\ DOMAIN pipe = 1..n /\ DOMAIN rest = 1..(n - 1) /\ Len(rest) = n - 1
        /\ \A i \in 1..(n - 1) : rest[i] = pipe[i + 1]
  <2>1. Len(pipe) \in Nat /\ DOMAIN pipe = 1..Len(pipe) /\ Len(pipe) # 0
    BY <1>3, LenProperties, EmptySeq
  <2>2. line = pipe[1]
    BY <1>2
  <2>3. PICK rest : rest = Tail(pipe)
    OBVIOUS
  <2>4. /\ rest \in Seq(Line) /\ Len(rest) = Len(pipe) - 1
        /\ \A i \in 1..Len(rest) : rest[i] = pipe[i + 1]
    BY <1>3, <2>3, HeadTailProperties
  <2>5. DOMAIN rest = 1..Len(rest)
    BY <2>4, LenProperties
  <2>6. Len(pipe) > 0 /\ rest = pipe'
    BY <1>3, <2>1, <2>3
  <2> QED BY <2>1, <2>2, <2>4, <2>5, <2>6
<1>8. Stages'
  <2>1. /\ \A i \in 1..n : pipe[i] = "result" => i = n /\ process.lines >= MaxLines
        /\ \A i \in DOMAIN parsed : parsed[i] # "result"
    BY <1>3, <1>7 DEF ClaudeInv, Stages
  <2>2. \A i \in DOMAIN rest : rest[i] = "result" => i = Len(rest) /\ process.lines >= MaxLines
    BY <1>7, <2>1
  <2>3. line = "result" => rest = << >> /\ process.lines >= MaxLines
    <3> SUFFICES ASSUME line = "result" PROVE rest = << >> /\ process.lines >= MaxLines
      OBVIOUS
    <3>1. 1 \in 1..n /\ pipe[1] = "result"
      BY <1>7
    <3>2. n = 1 /\ process.lines >= MaxLines
      BY <2>1, <3>1
    <3>3. Len(rest) = 0
      BY <1>7, <3>2
    <3> QED BY <3>2, <3>3, EmptySeq
  <2>4. \A i \in DOMAIN parsed' :
           parsed'[i] = "result" => i = Len(parsed') /\ rest = << >> /\ process.lines >= MaxLines
    <3>1. CASE line = "junk"
      BY <1>3, <2>1, <3>1
    <3>2. CASE line # "junk"
      <4>1. PICK m \in Nat, more \in Seq(Line) : m = Len(parsed) /\ more = parsed'
        BY <1>3, <1>5, LenProperties
      <4>2. /\ Len(more) = m + 1 /\ more[m + 1] = line /\ \A i \in 1..m : more[i] = parsed[i]
            /\ DOMAIN more = 1..(m + 1) /\ DOMAIN parsed = 1..m
        BY <1>3, <1>4, <3>2, <4>1, AppendProperties, LenProperties
      <4>3. \A i \in 1..(m + 1) : i = m + 1 \/ i \in 1..m
        OBVIOUS
      <4> QED BY <2>1, <2>3, <4>1, <4>2, <4>3
    <3> QED BY <3>1, <3>2
  <2> QED BY <1>1, <1>7, <2>2, <2>4 DEF ClaudeInv, Stages
<1>9. ASSUME loopPc = "reading" PROVE \E a, b, c : Heard(a, b, c)'
  <2>1. ~OnlyResult
    BY <1>3 DEF OnlyResult
  <2>2. PICK h, w, l : Heard(h, w, l)
    BY <1>9, <2>1 DEF ClaudeInv, Listening
  <2>3. PICK t : t = ccRun.text /\ t \in Seq(Words)
    BY <2>2 DEF Heard
  <2>4. /\ h \in Seq(Words) /\ w \in Seq(Words) /\ l \in Seq(Words)
        /\ printed = Join(t, Join(h, Join(w, l))) /\ Tells(parsed, h) /\ Tells(pipe, w)
        /\ Complete => l = << >>
    BY <2>2, <2>3 DEF Heard
  <2>5. Complete' <=> Complete
    BY <1>1 DEF Complete, Cut
  <2>6. CASE line \in Words
    <3>1. w # << >> /\ Head(w) = line /\ Tells(pipe', Tail(w))
      BY <1>2, <1>3, <2>4, <2>6, TellsLess
    <3>2. parsed' = Append(parsed, line)
      BY <1>3, <2>6 DEF Words
    <3>3. Tells(parsed', Append(h, line))
      BY <1>3, <1>4, <2>4, <2>6, <3>2, TellsMore
    <3>4. Append(h, line) \in Seq(Words) /\ Tail(w) \in Seq(Words)
      BY <2>4, <2>6, <3>1, FirstOf, AppendProperties
    <3>5. Join(h, Join(w, l)) = Join(Append(h, Head(w)), Join(Tail(w), l))
      BY <2>4, <3>1, FirstMoves
    <3>6. Heard(Append(h, line), Tail(w), l)'
      BY <1>1, <2>3, <2>4, <2>5, <3>1, <3>3, <3>4, <3>5 DEF Heard
    <3> QED BY <3>6
  <2>7. CASE line \notin Words
    <3>1. Tells(pipe', w)
      BY <1>2, <1>3, <2>4, <2>7, TellsLess
    <3>2. Tells(parsed', h)
      BY <1>3, <1>4, <2>4, <2>7, TellsMore
    <3>3. Heard(h, w, l)'
      BY <1>1, <2>3, <2>4, <2>5, <3>1, <3>2 DEF Heard
    <3> QED BY <3>3
  <2> QED BY <2>6, <2>7
<1>10. ReplyIsOutput'
  BY <1>1 DEF ClaudeInv, ReplyIsOutput
<1> QED BY <1>1, <1>6, <1>8, <1>9, <1>10 DEF ClaudeInv, Listening

\* Where the stream ends, what waits in the pipe is lost: nothing, unless it was
\* cancelled or a read failed.
LEMMA StreamEndKeeps == ASSUME ClaudeInv, StreamEnds PROVE ClaudeInv'
<1>1. /\ process' = process /\ loopPc' = loopPc /\ ccRun' = ccRun /\ stream' \in {"closed", "broken"}
      /\ printed' = printed /\ stopping' = stopping /\ replied' = replied /\ stale' = stale
      /\ mapping' = mapping /\ lastSession' = lastSession /\ inboxed' = inboxed
      /\ stream = "open" /\ pipe' = << >> /\ parsed' = parsed
      /\ stream' = "closed" => stopping \/ (pipe = << >> /\ process.is = "exited")
  BY DEF StreamEnds
<1>2. pipe' \in Seq(Line) /\ pipe \in Seq(Line) /\ stopping \in BOOLEAN
  BY <1>1, EmptySeq DEF ClaudeInv, ClaudeTypeOK
<1>3. ClaudeTypeOK' /\ Forgotten'
  BY <1>1, <1>2 DEF ClaudeInv, ClaudeTypeOK, Forgotten
<1>4. Stages'
  <2>1. \A i \in DOMAIN pipe' : FALSE
    BY <1>1
  <2> QED BY <1>1, <2>1 DEF ClaudeInv, Stages
<1>5. Complete /\ (Complete' => ~stopping /\ stream' = "closed")
  BY <1>1 DEF Complete, Cut
<1>6. ASSUME OnlyResult PROVE OnlyResult'
  BY <1>1, <1>5, <1>6 DEF OnlyResult
<1>7. ASSUME NEW h, NEW w, NEW l, Heard(h, w, l) PROVE \E a, b, c : Heard(a, b, c)'
  <2>1. PICK t : t = ccRun.text /\ t \in Seq(Words)
    BY <1>7 DEF Heard
  <2>2. /\ h \in Seq(Words) /\ w \in Seq(Words) /\ l \in Seq(Words)
        /\ printed = Join(t, Join(h, Join(w, l))) /\ Tells(parsed, h) /\ Tells(pipe, w) /\ l = << >>
    BY <1>5, <1>7, <2>1 DEF Heard
  <2>3. PICK none \in Seq(Words) : none = << >>
    BY EmptySeq
  <2>4. Join(w, l) \in Seq(Words) /\ Join(none, Join(w, l)) = Join(w, l)
    BY <2>2, <2>3, Joined, Joined
  <2>5. Tells(pipe', none)
    BY <1>1, <2>3, NothingTold
  <2>6. Complete' => Join(w, l) = << >>
    <3> SUFFICES ASSUME Complete' PROVE Join(w, l) = << >>
      OBVIOUS
    <3>1. pipe = << >>
      BY <1>1, <1>5
    <3>2. w = << >>
      BY <2>2, <3>1, NothingTold
    <3> QED BY <2>2, <3>2, Joined
  <2>7. Heard(h, none, Join(w, l))'
    BY <1>1, <2>1, <2>2, <2>3, <2>4, <2>5, <2>6 DEF Heard
  <2> QED BY <2>7
<1>8. ReplyIsOutput'
  BY <1>1 DEF ClaudeInv, ReplyIsOutput
<1>9. Listening'
  <2>1. CASE loopPc = "reading"
    <3>1. OnlyResult \/ \E h, w, l : Heard(h, w, l)
      BY <2>1 DEF ClaudeInv, Listening
    <3> QED BY <1>6, <1>7, <3>1 DEF Listening
  <2>2. CASE loopPc # "reading"
    BY <1>1, <2>2 DEF Listening
  <2> QED BY <2>1, <2>2
<1> QED BY <1>3, <1>4, <1>8, <1>9 DEF ClaudeInv

\* A message the run takes: its text is the next one, or the result's where there
\* is no other.
LEMMA RecvKeeps == ASSUME ClaudeInv, RecvMessage PROVE ClaudeInv'
<1>1. /\ process' = process /\ loopPc' = loopPc /\ stream' = stream /\ pipe' = pipe
      /\ printed' = printed /\ stopping' = stopping /\ replied' = replied /\ stale' = stale
      /\ mapping' = mapping /\ lastSession' = lastSession /\ inboxed' = inboxed
      /\ loopPc = "reading" /\ parsed # << >> /\ parsed' = Tail(parsed)
  BY DEF RecvMessage
<1>2. PICK line : line = Head(parsed)
  OBVIOUS
<1>3. parsed \in Seq(Line) /\ pipe \in Seq(Line) /\ line \in Line /\ parsed' \in Seq(Line)
  BY <1>1, <1>2, FirstOf DEF ClaudeInv, ClaudeTypeOK
<1>4. PICK h, w, l : Heard(h, w, l)
  BY <1>1 DEF ClaudeInv, Listening, OnlyResult
<1>5. PICK t : t = ccRun.text /\ t \in Seq(Words)
  BY <1>4 DEF Heard
<1>6. /\ h \in Seq(Words) /\ w \in Seq(Words) /\ l \in Seq(Words)
      /\ printed = Join(t, Join(h, Join(w, l))) /\ Tells(parsed, h) /\ Tells(pipe, w)
      /\ Complete => l = << >>
  BY <1>4, <1>5 DEF Heard
<1>7. PICK id : id = IF line \in {"system", "result"} THEN process.session ELSE ccRun.session
  OBVIOUS
<1>8. PICK said : said = IF line \in Words \/ (line = "result" /\ t = << >>)
                        THEN Append(t, line) ELSE t
  OBVIOUS
<1>9. ccRun' = [ccRun EXCEPT !.session = id, !.text = said]
  BY <1>2, <1>5, <1>7, <1>8 DEF RecvMessage, Words
<1>10. said \in Seq(Line)
  <2>1. t \in Seq(Line)
    BY <1>5 DEF ClaudeInv, ClaudeTypeOK
  <2> QED BY <1>3, <1>8, <2>1, AppendProperties
<1>11. id \in Nat /\ id \in {NoSession, process.session}
  BY <1>1, <1>7, ClaudeTypes DEF ClaudeInv, Forgotten
<1>12. /\ ccRun' \in [key : Keys \cup {"none"}, resumed : Nat, session : Nat, text : Seq(Line)]
       /\ ccRun'.key = ccRun.key /\ ccRun'.resumed = ccRun.resumed
       /\ ccRun'.session = id /\ ccRun'.text = said
  BY <1>9, <1>10, <1>11 DEF ClaudeInv, ClaudeTypeOK
<1>13. ClaudeTypeOK' /\ Forgotten'
  BY <1>1, <1>3, <1>11, <1>12 DEF ClaudeInv, ClaudeTypeOK, Forgotten
<1>14. PICK n \in Nat, rest \in Seq(Line) :
        /\ n = Len(parsed) /\ n > 0 /\ rest = parsed' /\ line = parsed[1]
        /\ DOMAIN parsed = 1..n /\ DOMAIN rest = 1..(n - 1) /\ Len(rest) = n - 1
        /\ \A i \in 1..(n - 1) : rest[i] = parsed[i + 1]
  <2>1. Len(parsed) \in Nat /\ DOMAIN parsed = 1..Len(parsed) /\ Len(parsed) # 0
    BY <1>1, <1>3, LenProperties, EmptySeq
  <2>2. line = parsed[1]
    BY <1>2
  <2>3. PICK rest : rest = Tail(parsed)
    OBVIOUS
  <2>4. /\ rest \in Seq(Line) /\ Len(rest) = Len(parsed) - 1
        /\ \A i \in 1..Len(rest) : rest[i] = parsed[i + 1]
    BY <1>1, <1>3, <2>3, HeadTailProperties
  <2>5. DOMAIN rest = 1..Len(rest)
    BY <2>4, LenProperties
  <2>6. Len(parsed) > 0 /\ rest = parsed'
    BY <1>1, <2>1, <2>3
  <2> QED BY <2>1, <2>2, <2>4, <2>5, <2>6
<1>15. \A i \in 1..n : parsed[i] = "result" => i = n /\ pipe = << >> /\ process.lines >= MaxLines
  BY <1>14 DEF ClaudeInv, Stages
<1>16. Stages'
  <2>1. \A i \in DOMAIN rest :
          rest[i] = "result" => i = Len(rest) /\ pipe = << >> /\ process.lines >= MaxLines
    BY <1>14, <1>15
  <2> QED BY <1>1, <1>14, <2>1 DEF ClaudeInv, Stages
<1>17. Complete' <=> Complete
  BY <1>1 DEF Complete, Cut
<1>18. ASSUME line \in Words PROVE OnlyResult' \/ \E a, b, c : Heard(a, b, c)'
  <2>1. h # << >> /\ Head(h) = line /\ Tells(parsed', Tail(h))
    BY <1>1, <1>2, <1>3, <1>6, <1>18, TellsLess
  <2>2. said = Append(t, line) /\ said \in Seq(Words) /\ Tail(h) \in Seq(Words)
    BY <1>5, <1>6, <1>8, <1>18, <2>1, FirstOf, AppendProperties
  <2>3. Join(w, l) \in Seq(Words)
    BY <1>6, Joined
  <2>4. printed = Join(Append(t, Head(h)), Join(Tail(h), Join(w, l)))
    BY <1>5, <1>6, <2>1, <2>3, FirstMoves
  <2>5. Heard(Tail(h), w, l)'
    BY <1>1, <1>6, <1>12, <1>17, <2>1, <2>2, <2>4 DEF Heard
  <2> QED BY <2>5
<1>19. ASSUME line = "result", t = << >> PROVE OnlyResult' \/ \E a, b, c : Heard(a, b, c)'
  <2>1. n = 1 /\ pipe = << >> /\ process.lines >= MaxLines
    <3>1. 1 \in 1..n /\ parsed[1] = "result"
      BY <1>14, <1>19
    <3> QED BY <1>15, <3>1
  <2>2. rest = << >>
    <3>1. Len(rest) = 0
      BY <1>14, <2>1
    <3> QED BY <3>1, EmptySeq
  <2>3. said = <<"result">>
    BY <1>8, <1>19
  <2>4. h = << >> /\ w = << >>
    <3>1. line \notin Words
      BY <1>19 DEF Words
    <3>2. Tells(parsed', h)
      BY <1>1, <1>2, <1>3, <1>6, <3>1, TellsLess
    <3> QED BY <1>6, <1>14, <2>1, <2>2, <3>2, NothingTold
  <2>5. Complete => printed = << >>
    <3> SUFFICES ASSUME Complete PROVE printed = << >>
      OBVIOUS
    <3>1. PICK none \in Seq(Words) : none = << >>
      BY Joined
    <3>2. printed = Join(none, Join(none, Join(none, none)))
      BY <1>6, <1>19, <2>4, <3>1
    <3>3. Join(none, none) = none
      BY <3>1, Joined
    <3> QED BY <3>1, <3>2, <3>3
  <2>6. OnlyResult'
    BY <1>1, <1>12, <1>14, <1>17, <2>1, <2>2, <2>3, <2>5 DEF OnlyResult
  <2> QED BY <2>6
<1>20. ASSUME line \notin Words, ~(line = "result" /\ t = << >>)
       PROVE  OnlyResult' \/ \E a, b, c : Heard(a, b, c)'
  <2>1. Tells(parsed', h)
    BY <1>1, <1>2, <1>3, <1>6, <1>20, TellsLess
  <2>2. said = t
    BY <1>8, <1>20
  <2>3. Heard(h, w, l)'
    BY <1>1, <1>5, <1>6, <1>12, <1>17, <2>1, <2>2 DEF Heard
  <2> QED BY <2>3
<1>21. Listening'
  <2>1. OnlyResult' \/ \E a, b, c : Heard(a, b, c)'
    BY <1>18, <1>19, <1>20
  <2> QED BY <2>1 DEF Listening
<1>22. ReplyIsOutput'
  BY <1>1 DEF ClaudeInv, ReplyIsOutput
<1> QED BY <1>13, <1>16, <1>21, <1>22 DEF ClaudeInv

\* The run's reply is what it has read; the store keeps the session it went on in.
LEMMA FinishKeeps == ASSUME ClaudeInv, FinishRun PROVE ClaudeInv'
<1>1. /\ loopPc = "reading" /\ parsed = << >> /\ stream \in {"closed", "broken"} /\ process.is = "exited"
      /\ process' = NoProcess /\ stream' = "none" /\ printed' = << >>
      /\ inboxed' = inboxed /\ pipe' = pipe /\ parsed' = parsed /\ stopping' = stopping
      /\ lastSession' = lastSession /\ stale' = stale
      /\ loopPc' \in {"idle", "panicked"}
  BY DEF FinishRun
<1>2. /\ ccRun' \in {ccRun, NoRun}
      /\ \/ mapping' = mapping
         \/ /\ ccRun.session # NoSession
            /\ mapping' = [mapping EXCEPT ![ccRun.key].session = ccRun.session,
                                          ![ccRun.key].count = @ + 1]
      /\ replied' = replied \/ replied' = [text |-> ccRun.text, said |-> printed, cut |-> Cut]
  BY DEF FinishRun
<1>3. /\ mapping' \in [Keys -> [there : BOOLEAN, session : Nat, count : Nat]]
      /\ \A k \in Keys : mapping'[k].session \notin stale[k] /\ mapping'[k].session <= lastSession
  <2>1. CASE mapping' = mapping
    BY <2>1 DEF ClaudeInv, ClaudeTypeOK, Forgotten
  <2>2. CASE /\ ccRun.session # NoSession
             /\ mapping' = [mapping EXCEPT ![ccRun.key].session = ccRun.session,
                                           ![ccRun.key].count = @ + 1]
    <3>1. PICK k, id : k = ccRun.key /\ id = ccRun.session
      OBVIOUS
    <3>2. k \in Keys /\ id \in Nat /\ id \notin stale[k] /\ id <= lastSession
      BY <1>1, <2>2, <3>1, ClaudeTypes DEF ClaudeInv, ClaudeTypeOK, Forgotten
    <3>3. mapping' = [mapping EXCEPT ![k].session = id, ![k].count = @ + 1]
      BY <2>2, <3>1
    <3>4. /\ mapping' \in [Keys -> [there : BOOLEAN, session : Nat, count : Nat]]
          /\ mapping'[k].session = id /\ \A c \in Keys : c # k => mapping'[c] = mapping[c]
      <4>1. mapping \in [Keys -> [there : BOOLEAN, session : Nat, count : Nat]]
        BY DEF ClaudeInv, ClaudeTypeOK
      <4>2. PICK m : m = [mapping[k] EXCEPT !.session = id, !.count = @ + 1]
        OBVIOUS
      <4>3. m \in [there : BOOLEAN, session : Nat, count : Nat] /\ m.session = id
        <5>1. PICK old \in [there : BOOLEAN, session : Nat, count : Nat] : old = mapping[k]
          BY <3>2, <4>1
        <5>2. m = [old EXCEPT !.session = id, !.count = @ + 1]
          BY <4>2, <5>1
        <5>3. m = [there |-> old.there, session |-> id, count |-> old.count + 1]
          BY <5>1, <5>2
        <5> QED BY <3>2, <5>1, <5>3
      <4>4. mapping' = [mapping EXCEPT ![k] = m]
        BY <3>2, <3>3, <4>1, <4>2
      <4> QED BY <3>2, <4>1, <4>3, <4>4
    <3> QED BY <3>2, <3>4 DEF ClaudeInv, Forgotten
  <2> QED BY <1>2, <2>1, <2>2
<1>4. ClaudeTypeOK'
  <2>1. NoRun \in [key : Keys \cup {"none"}, resumed : Nat, session : Nat, text : Seq(Line)]
    BY EmptySeq DEF NoRun, NoSession
  <2>2. NoProcess \in [is : {"running", "exited", "none"}, session : Nat, lines : Nat]
    BY DEF NoProcess, NoSession
  <2>3. printed' \in Seq(Words)
    BY <1>1, EmptySeq
  <2> QED BY <1>1, <1>2, <1>3, <2>1, <2>2, <2>3 DEF ClaudeInv, ClaudeTypeOK
<1>5. Forgotten'
  BY <1>1, <1>3 DEF ClaudeInv, Forgotten
<1>6. pipe = << >> /\ (Cut \/ Complete)
  BY <1>1 DEF ClaudeInv, ClaudeTypeOK, Stages, Complete
<1>7. Stages'
  <2>1. \A i \in DOMAIN << >> : FALSE
    OBVIOUS
  <2> QED BY <1>1, <1>6, <2>1 DEF Stages, NoProcess
<1>8. Listening'
  BY <1>1 DEF Listening
<1>9. ASSUME replied' = [text |-> ccRun.text, said |-> printed, cut |-> Cut]
      PROVE  ReplyIsOutput'
  <2>1. replied'.text = ccRun.text /\ replied'.said = printed /\ replied'.cut = Cut
    BY <1>9
  <2>2. CASE OnlyResult
    BY <1>6, <2>1, <2>2 DEF OnlyResult, ReplyIsOutput
  <2>3. ASSUME NEW h, NEW w, NEW l, Heard(h, w, l) PROVE ReplyIsOutput'
    <3>1. PICK t, none : t = ccRun.text /\ none = << >>
      OBVIOUS
    <3>2. /\ t \in Seq(Words) /\ none \in Seq(Words) /\ l \in Seq(Words)
          /\ h = none /\ w = none /\ (Complete => l = none)
          /\ printed = Join(t, Join(h, Join(w, l)))
      BY <1>1, <1>6, <2>3, <3>1, NothingTold, Joined DEF Heard
    <3>3. Join(none, l) = l /\ Join(t, none) = t
      BY <3>1, <3>2, Joined
    <3>4. printed = Join(t, l)
      BY <3>2, <3>3
    <3>5. Cut \/ t = printed
      BY <1>6, <3>2, <3>3, <3>4
    <3>6. IsPrefix(t, printed)
      <4>1. PICK m \in Nat, n \in Nat : m = Len(t) /\ n = Len(l)
        BY <3>2, LenProperties
      <4>2. Len(printed) = m + n /\ \A i \in 1..(m + n) : printed[i] = IF i <= m THEN t[i] ELSE l[i - m]
        BY <3>2, <3>4, <4>1, ConcatProperties DEF Join
      <4>3. \A i \in 1..m : printed[i] = t[i]
        BY <4>2
      <4>4. SubSeq(t, 1, m) = SubSeq(printed, 1, m)
        BY <4>3
      <4> QED BY <4>1, <4>2, <4>4 DEF IsPrefix
    <3> QED BY <2>1, <3>1, <3>5, <3>6 DEF ReplyIsOutput
  <2> QED BY <1>1, <2>2, <2>3 DEF ClaudeInv, Listening
<1>10. ReplyIsOutput'
  <2>1. CASE replied' = replied
    BY <2>1 DEF ClaudeInv, ReplyIsOutput
  <2> QED BY <1>2, <1>9, <2>1
<1> QED BY <1>4, <1>5, <1>7, <1>8, <1>10 DEF ClaudeInv

-----------------------------------------------------------------------------

\* Every step keeps the invariant.
LEMMA ClaudeNextInv == ASSUME ClaudeInv, [ClaudeNext]_claudeVars PROVE ClaudeInv'
<1>1. ASSUME NEW line \in Lines, ProcessPrints(line) PROVE ClaudeInv'
  <2>1. line \in Line
    BY ClaudeAssumption
  <2> QED BY <1>1, <2>1, PrintKeeps
<1>2. CASE UNCHANGED claudeVars
  <2>1. ClaudeTypeOK' /\ Forgotten' /\ Stages' /\ ReplyIsOutput'
    BY <1>2 DEF ClaudeInv, ClaudeTypeOK, Forgotten, Stages, ReplyIsOutput, claudeVars
  <2>2. OnlyResult => OnlyResult'
    BY <1>2 DEF OnlyResult, Complete, Cut, claudeVars
  <2>3. \A h, w, l : Heard(h, w, l) => Heard(h, w, l)'
    BY <1>2 DEF Heard, Complete, Cut, claudeVars
  <2>4. loopPc' = loopPc
    BY <1>2 DEF claudeVars
  <2>5. CASE loopPc = "reading"
    <3>1. OnlyResult \/ \E h, w, l : Heard(h, w, l)
      BY <2>5 DEF ClaudeInv, Listening
    <3> QED BY <2>1, <2>2, <2>3, <3>1 DEF ClaudeInv, Listening
  <2>6. CASE loopPc # "reading"
    BY <2>1, <2>4, <2>6 DEF ClaudeInv, Listening
  <2> QED BY <2>5, <2>6
<1> QED BY <1>1, <1>2, LoopKeeps, StartKeeps, ExitKeeps, ReadKeeps, StreamEndKeeps, RecvKeeps, FinishKeeps
        DEF ClaudeNext, RunStep, StreamStep

\* The invariant of the loop, the process and the stream.
THEOREM ClaudeInvariance == ClaudeSpec => []ClaudeInv
<1>1. ClaudeInit => ClaudeInv
  BY ClaudeInitInv
<1>2. ClaudeInv /\ [ClaudeNext]_claudeVars => ClaudeInv'
  BY ClaudeNextInv
<1> QED BY <1>1, <1>2, PTL DEF ClaudeSpec

\* No run resumes a session its conversation had before a /reset that succeeded,
\* and a reply is what the process printed, or a beginning of it where the run was
\* cancelled or a read failed, for any messages, any lines and any number of them.
THEOREM RepliesAreTrue == ClaudeSpec => []ClaudeReplies
<1>1. ClaudeInv => ClaudeReplies
  BY DEF ClaudeInv, Forgotten, ClaudeReplies, ResetHolds
<1> QED BY <1>1, ClaudeInvariance, PTL

-----------------------------------------------------------------------------
(* The panel's updates, for any number of checks and downloads, where the  *)
(* installer is not started by the program. Between the click that asks    *)
(* for a download and the frame that starts it nothing is written or told, *)
(* and while one writes nothing else is (OneAtATime); what was told last   *)
(* is so (LastIsTrue).                                                     *)

Told == {"downloading", "completed", "failed"}
Phases == {"unused", "fetching", "writing", "launching", "ended"}
Shown == [status : CheckResults \cup {"idle", "checking"}, progress : Told \cup {None},
          check : BOOLEAN, download : BOOLEAN]

UpdateTypeOK ==
  /\ about \in Shown /\ drained \in Seq(CheckResults) /\ sent \in Seq(Told)
  /\ tasks \in [1..MaxDownloads -> Phases]

SomeWrites == \E d \in 1..MaxDownloads : Writing(d)

\* Downloads are numbered in the order in which they start, and one that was
\* asked for has a number left.
Numbered ==
  /\ \E n \in Nat : \A d \in 1..MaxDownloads : tasks[d] = "unused" <=> d > n
  /\ about.download => \E d \in 1..MaxDownloads : tasks[d] = "unused"

\* What was told last is so: "downloading" is followed by the end.
LastIsTrue == sent # <<>> /\ sent[Len(sent)] = "downloading" => SomeWrites

\* Between a click on a button and the frame that starts the download nothing
\* is written or told; while one writes, nothing else is shown or told.
OneAtATime ==
  ~LaunchFails =>
    /\ about.download => ~SomeWrites /\ sent = <<>>
    /\ \A d, e \in 1..MaxDownloads : Writing(d) /\ Writing(e) => d = e
    /\ SomeWrites => about.progress = "downloading" /\ \A i \in DOMAIN sent : sent[i] = "downloading"

UpdateInv == UpdateTypeOK /\ Numbered /\ ProgressIsTrue /\ LastIsTrue /\ OneAtATime

\* No download at first.
LEMMA UpdateInitInv == UpdateInit => UpdateInv
<1> SUFFICES ASSUME UpdateInit PROVE UpdateInv
  OBVIOUS
<1> USE UpdateAssumption
<1>1. UpdateTypeOK /\ ~SomeWrites /\ sent = <<>> /\ ~about.download /\ about.progress = None
  BY DEF UpdateInit, UpdateTypeOK, Shown, Phases, SomeWrites, Writing
<1>2. Numbered
  <2>1. 0 \in Nat /\ \A d \in 1..MaxDownloads : tasks[d] = "unused" <=> d > 0
    BY DEF UpdateInit
  <2> QED BY <1>1, <2>1 DEF Numbered
<1> QED BY <1>1, <1>2 DEF UpdateInv, ProgressIsTrue, LastIsTrue, OneAtATime, SomeWrites

\* What a download tells joins what was told before.
LEMMA TaskTells ==
  ASSUME NEW s \in Seq(Told), NEW t \in Told
  PROVE  /\ Append(s, t) \in Seq(Told) /\ Append(s, t) # <<>>
         /\ Append(s, t)[Len(Append(s, t))] = t
         /\ \A i \in DOMAIN Append(s, t) : Append(s, t)[i] = t \/ \E j \in DOMAIN s : Append(s, t)[i] = s[j]
<1>1. /\ Append(s, t) \in Seq(Told) /\ Len(Append(s, t)) = Len(s) + 1
      /\ \A i \in 1..Len(s) : Append(s, t)[i] = s[i]
      /\ Append(s, t)[Len(s) + 1] = t
  BY AppendProperties
<1>2. /\ DOMAIN s = 1..Len(s) /\ Len(s) \in Nat
      /\ DOMAIN Append(s, t) = 1..(Len(s) + 1)
  BY <1>1, LenProperties
<1> QED BY <1>1, <1>2

\* A step of a download: it goes on writing, or it stops and says so.
LEMMA DownloadKeeps ==
  ASSUME UpdateInv, NEW d \in 1..MaxDownloads, DownloadStep(d) PROVE UpdateInv'
<1> USE UpdateAssumption
<1>1. PICK phase \in {"writing", "launching", "ended"}, status \in Told \cup {None} :
        /\ tasks[d] \in {"fetching", "writing", "launching"}
        /\ TaskSends(d, phase, status)
        /\ phase = "writing" <=> status = "downloading"
        /\ phase = "writing" => Writing(d)
        /\ ~Writing(d) /\ ~LaunchFails => status = None
        /\ Writing(d) => status # None
  BY DEF DownloadStep, FetchRelease, WriteInstaller, LaunchInstaller, Told, Writing
<1>2. /\ tasks' = [tasks EXCEPT ![d] = phase] /\ about' = about /\ drained' = drained
      /\ sent' = IF status = None THEN sent ELSE Append(sent, status)
  BY <1>1 DEF TaskSends
<1>3. UpdateTypeOK /\ sent \in Seq(Told)
  BY DEF UpdateInv, UpdateTypeOK
<1>4. /\ tasks' \in [1..MaxDownloads -> Phases] /\ tasks'[d] = phase
      /\ \A e \in 1..MaxDownloads : e # d => tasks'[e] = tasks[e]
  BY <1>1, <1>2, <1>3 DEF UpdateTypeOK, Phases
<1>5. /\ sent' \in Seq(Told)
      /\ status = None => sent' = sent
      /\ status # None => /\ sent' # <<>> /\ sent'[Len(sent')] = status
                          /\ \A i \in DOMAIN sent' : sent'[i] = status \/ \E j \in DOMAIN sent : sent'[i] = sent[j]
  BY <1>1, <1>2, <1>3, TaskTells DEF Told
<1>6. /\ Writing(d)' <=> phase = "writing"
      /\ \A e \in 1..MaxDownloads : e # d => (Writing(e)' <=> Writing(e))
  BY <1>1, <1>4 DEF Writing
<1>7. Numbered'
  <2>1. \A e \in 1..MaxDownloads : tasks'[e] = "unused" <=> tasks[e] = "unused"
    BY <1>1, <1>4
  <2> QED BY <1>2, <2>1 DEF UpdateInv, Numbered
<1>8. ProgressIsTrue' /\ LastIsTrue'
  <2>1. CASE status = None
    <3>1. SomeWrites => SomeWrites'
      BY <1>1, <1>6, <2>1 DEF SomeWrites
    <3> QED BY <1>2, <1>5, <2>1, <3>1 DEF UpdateInv, ProgressIsTrue, LastIsTrue, SomeWrites
  <2>2. CASE status # None
    <3>1. status = "downloading" => SomeWrites'
      BY <1>1, <1>6 DEF SomeWrites
    <3> QED BY <1>5, <2>2, <3>1 DEF ProgressIsTrue, LastIsTrue
  <2> QED BY <2>1, <2>2
<1>9. OneAtATime'
  <2> SUFFICES ASSUME ~LaunchFails PROVE
        /\ about'.download => ~SomeWrites' /\ sent' = <<>>
        /\ \A c, e \in 1..MaxDownloads : Writing(c)' /\ Writing(e)' => c = e
        /\ SomeWrites' => about'.progress = "downloading" /\ \A i \in DOMAIN sent' : sent'[i] = "downloading"
    BY DEF OneAtATime
  <2>1. \A e \in 1..MaxDownloads : Writing(e)' => Writing(e)
    BY <1>1, <1>6
  <2>2. \A c, e \in 1..MaxDownloads : Writing(c)' /\ Writing(e)' => c = e
    BY <2>1 DEF UpdateInv, OneAtATime
  <2>3. about'.download => ~SomeWrites' /\ sent' = <<>>
    BY <1>1, <1>2, <1>5, <2>1 DEF UpdateInv, OneAtATime, SomeWrites
  <2>4. ASSUME SomeWrites'
        PROVE  about'.progress = "downloading" /\ \A i \in DOMAIN sent' : sent'[i] = "downloading"
    <3>1. SomeWrites
      BY <2>1, <2>4 DEF SomeWrites
    <3>2. about.progress = "downloading" /\ \A i \in DOMAIN sent : sent[i] = "downloading"
      BY <3>1 DEF UpdateInv, OneAtATime
    <3>3. status \in {None, "downloading"}
      <4>1. CASE Writing(d)
        BY <1>1, <1>6, <2>1, <2>4, <4>1 DEF UpdateInv, OneAtATime, SomeWrites
      <4>2. CASE ~Writing(d)
        BY <1>1, <4>2
      <4> QED BY <4>1, <4>2
    <3> QED BY <1>2, <1>5, <3>2, <3>3
  <2> QED BY <2>2, <2>3, <2>4
<1> QED BY <1>2, <1>3, <1>4, <1>5, <1>7, <1>8, <1>9 DEF UpdateInv, UpdateTypeOK

\* What a frame makes of the state before its input is drawn.
Asked == IF about.check THEN Trigger(about) ELSE about
Found == DrainResult(Asked)
Drawn == DrainProgress(HandleDownload(Found))

\* The last result of a check is a status, the last told progress is shown, and
\* a download that starts is shown unless another's end was told.
LEMMA FrameDraws ==
  ASSUME UpdateTypeOK
  PROVE  /\ Found \in Shown /\ Found.download = about.download /\ Found.progress = about.progress
         /\ Drawn \in Shown /\ Drawn.download = FALSE
         /\ Drawn.progress = IF sent # <<>> THEN sent[Len(sent)]
                             ELSE IF Chosen(Found) THEN "downloading" ELSE about.progress
<1> USE UpdateAssumption
<1>1. Asked \in Shown /\ Asked.download = about.download /\ Asked.progress = about.progress
  BY DEF Asked, Trigger, UpdateTypeOK, Shown
<1>2. drained # <<>> => drained[Len(drained)] \in CheckResults
  BY LenProperties DEF UpdateTypeOK
<1>3. Found \in Shown /\ Found.download = Asked.download /\ Found.progress = Asked.progress
  BY <1>1, <1>2 DEF Found, DrainResult, Shown
<1>4. sent # <<>> => sent[Len(sent)] \in Told
  BY LenProperties DEF UpdateTypeOK
<1>5. PICK h : h = HandleDownload(Found)
  OBVIOUS
<1>6. h \in Shown /\ h.download = FALSE
      /\ h.progress = IF Chosen(Found) THEN "downloading" ELSE about.progress
  BY <1>1, <1>3, <1>5 DEF HandleDownload, Shown, Told
<1>7. Drawn \in Shown /\ Drawn.download = FALSE
      /\ Drawn.progress = IF sent # <<>> THEN sent[Len(sent)] ELSE h.progress
  BY <1>4, <1>5, <1>6 DEF Drawn, DrainProgress, Shown
<1> QED BY <1>1, <1>3, <1>6, <1>7

\* A click asks for a download only where none is shown as going on.
LEMMA ClickAsks ==
  ASSUME NEW a \in Shown, a.download = FALSE, NEW now \in Clicked(a)
  PROVE  /\ now \in Shown
         /\ now.progress = a.progress \/ (now.progress = None /\ a.progress = "failed")
         /\ now.download => a.progress # "downloading"
<1>1. CASE now = a
  BY <1>1
<1>2. CASE now = [a EXCEPT !.check = TRUE]
  BY <1>2 DEF Shown
<1>3. CASE CanDownload(a) /\ now = [a EXCEPT !.download = TRUE]
  BY <1>3 DEF CanDownload, Shown
<1>4. CASE CanRetry(a) /\ now = [a EXCEPT !.progress = None, !.download = TRUE]
  BY <1>4 DEF CanRetry, Shown
<1> QED BY <1>1, <1>2, <1>3, <1>4 DEF Clicked

\* The download that a frame starts is the next one.
LEMMA NextUnused ==
  ASSUME UpdateInv, about.download,
         NEW next, next = CHOOSE d \in 1..MaxDownloads :
                            tasks[d] = "unused" /\ \A e \in 1..(d - 1) : tasks[e] # "unused"
  PROVE  /\ next \in 1..MaxDownloads /\ tasks[next] = "unused"
         /\ \A d \in 1..MaxDownloads : tasks[d] = "unused" <=> d > next - 1
<1> USE UpdateAssumption
<1>1. PICK n \in Nat : \A d \in 1..MaxDownloads : tasks[d] = "unused" <=> d > n
  BY DEF UpdateInv, Numbered
<1>2. n + 1 \in 1..MaxDownloads
  BY <1>1 DEF UpdateInv, Numbered
<1>3. tasks[n + 1] = "unused" /\ \A e \in 1..((n + 1) - 1) : tasks[e] # "unused"
  BY <1>1, <1>2
<1>4. next \in 1..MaxDownloads /\ tasks[next] = "unused" /\ \A e \in 1..(next - 1) : tasks[e] # "unused"
  BY <1>2, <1>3
<1>5. next = n + 1
  <2>1. next > n
    BY <1>1, <1>4
  <2>2. ~(n + 1 < next)
    BY <1>2, <1>3, <1>4
  <2> QED BY <1>2, <1>4, <2>1, <2>2
<1> QED BY <1>1, <1>4, <1>5

\* A frame takes what was told, starts what was asked for and takes a click.
LEMMA FrameKeeps == ASSUME UpdateInv, Update PROVE UpdateInv'
<1> USE UpdateAssumption
<1> DEFINE next == CHOOSE d \in 1..MaxDownloads :
                     tasks[d] = "unused" /\ \A e \in 1..(d - 1) : tasks[e] # "unused"
<1>1. PICK menu \in BOOLEAN, now \in Clicked(Drawn) :
        /\ menu => now = Drawn
        /\ now.download => \E d \in 1..MaxDownloads : tasks'[d] = "unused"
        /\ about' = IF menu THEN [now EXCEPT !.status = "checking"] ELSE now
  BY DEF Update, Bounded, Drawn, Found, Asked
<1>2. /\ drained' = <<>> /\ sent' = <<>>
      /\ tasks' = IF Chosen(Found) THEN [tasks EXCEPT ![next] = "fetching"] ELSE tasks
  BY DEF Update, Found, Asked
<1>3. /\ Found \in Shown /\ Found.download = about.download
      /\ Drawn \in Shown /\ Drawn.download = FALSE
      /\ Drawn.progress = IF sent # <<>> THEN sent[Len(sent)]
                          ELSE IF Chosen(Found) THEN "downloading" ELSE about.progress
  BY FrameDraws DEF UpdateInv
<1>4. PICK drawn \in Shown : drawn = Drawn
  BY <1>3
<1>5. /\ now \in Shown
      /\ now.progress = drawn.progress \/ (now.progress = None /\ drawn.progress = "failed")
      /\ now.download => drawn.progress # "downloading"
  BY <1>1, <1>3, <1>4, ClickAsks
<1>6. /\ about' \in Shown /\ about'.download = now.download /\ about'.progress = now.progress
  BY <1>1, <1>5 DEF Shown
<1>7. Chosen(Found) =>
        /\ about.download /\ next \in 1..MaxDownloads /\ tasks[next] = "unused"
        /\ \A d \in 1..MaxDownloads : tasks[d] = "unused" <=> d > next - 1
  BY <1>3, NextUnused DEF Chosen
<1> HIDE DEF next
<1>8. /\ tasks' \in [1..MaxDownloads -> Phases]
      /\ ~Chosen(Found) => tasks' = tasks
      /\ Chosen(Found) => /\ tasks'[next] = "fetching"
                          /\ \A d \in 1..MaxDownloads : d # next => tasks'[d] = tasks[d]
  BY <1>2, <1>7 DEF UpdateInv, UpdateTypeOK, Phases
<1>9. UpdateTypeOK'
  BY <1>2, <1>6, <1>8 DEF UpdateTypeOK
<1>10. Numbered'
  <2>1. about'.download => \E d \in 1..MaxDownloads : tasks'[d] = "unused"
    BY <1>1, <1>6
  <2>2. CASE Chosen(Found)
    <3>1. next \in Nat /\ \A d \in 1..MaxDownloads : tasks'[d] = "unused" <=> d > next
      BY <1>7, <1>8, <2>2
    <3> QED BY <2>1, <3>1 DEF Numbered
  <2>3. CASE ~Chosen(Found)
    BY <1>8, <2>1, <2>3 DEF UpdateInv, Numbered
  <2> QED BY <2>2, <2>3
<1>11. /\ SomeWrites' <=> SomeWrites \/ Chosen(Found)
       /\ \A d \in 1..MaxDownloads : Writing(d)' <=> Writing(d) \/ (Chosen(Found) /\ d = next)
  <2>1. \A d \in 1..MaxDownloads : Writing(d)' <=> Writing(d) \/ (Chosen(Found) /\ d = next)
    BY <1>7, <1>8 DEF Writing
  <2> QED BY <1>7, <2>1 DEF SomeWrites
<1>12. about'.progress = "downloading" => SomeWrites'
  <2>1. about'.progress = "downloading" => drawn.progress = "downloading"
    BY <1>5, <1>6
  <2>2. drawn.progress = "downloading" => SomeWrites \/ Chosen(Found)
    BY <1>3, <1>4 DEF UpdateInv, ProgressIsTrue, LastIsTrue, SomeWrites
  <2> QED BY <1>11, <2>1, <2>2
<1>13. ProgressIsTrue' /\ LastIsTrue'
  BY <1>2, <1>12 DEF ProgressIsTrue, LastIsTrue, SomeWrites
<1>14. OneAtATime'
  <2> SUFFICES ASSUME ~LaunchFails PROVE
        /\ about'.download => ~SomeWrites'
        /\ \A c, e \in 1..MaxDownloads : Writing(c)' /\ Writing(e)' => c = e
        /\ SomeWrites' => about'.progress = "downloading"
    BY <1>2 DEF OneAtATime
  <2>1. SomeWrites' => drawn.progress = "downloading"
    <3>1. CASE Chosen(Found)
      BY <1>3, <1>4, <1>7, <3>1 DEF UpdateInv, OneAtATime
    <3>2. CASE ~Chosen(Found) /\ SomeWrites
      <4>1. sent # <<>> => sent[Len(sent)] = "downloading"
        BY <3>2, LenProperties DEF UpdateInv, UpdateTypeOK, OneAtATime
      <4> QED BY <1>3, <1>4, <3>2, <4>1 DEF UpdateInv, OneAtATime
    <3> QED BY <1>11, <3>1, <3>2
  <2>2. \A c, e \in 1..MaxDownloads : Writing(c)' /\ Writing(e)' => c = e
    BY <1>7, <1>11 DEF UpdateInv, OneAtATime, SomeWrites
  <2> QED BY <1>5, <1>6, <2>1, <2>2
<1> QED BY <1>9, <1>10, <1>13, <1>14 DEF UpdateInv

\* Checks that end touch no download.
LEMMA UpdateNextInv == UpdateInv /\ [UpdateNext]_updateVars => UpdateInv'
<1> SUFFICES ASSUME UpdateInv, [UpdateNext]_updateVars PROVE UpdateInv'
  OBVIOUS
<1>1. CASE CheckForUpdate
  <2>1. drained' \in Seq(CheckResults)
    BY <1>1, AppendProperties DEF CheckForUpdate, UpdateInv, UpdateTypeOK
  <2> QED BY <1>1, <2>1 DEF CheckForUpdate, UpdateInv, UpdateTypeOK, Numbered, ProgressIsTrue, LastIsTrue,
             OneAtATime, SomeWrites, Writing
<1>2. CASE UNCHANGED updateVars
  BY <1>2 DEF updateVars, UpdateInv, UpdateTypeOK, Numbered, ProgressIsTrue, LastIsTrue, OneAtATime,
              SomeWrites, Writing
<1> QED BY <1>1, <1>2, FrameKeeps, DownloadKeeps DEF UpdateNext

\* Where the installer is not started by the panel one download writes at a
\* time; everywhere a download that is shown as going on is, or has just told
\* its end.
THEOREM UpdatesAreTrue == UpdateSpec => []UpdateIsTrue
<1>1. UpdateInv => UpdateIsTrue
  <2> SUFFICES ASSUME UpdateInv PROVE UpdateIsTrue
    OBVIOUS
  <2>1. ASSUME ~LaunchFails PROVE Cardinality({d \in 1..MaxDownloads : Writing(d)}) <= 1
    <3>1. CASE \E d \in 1..MaxDownloads : Writing(d)
      <4>1. PICK d \in 1..MaxDownloads : {e \in 1..MaxDownloads : Writing(e)} = {d}
        BY <2>1, <3>1 DEF UpdateInv, OneAtATime
      <4>2. Cardinality({d}) = 1
        BY FS_Singleton
      <4> QED BY <4>1, <4>2
    <3>2. CASE ~\E d \in 1..MaxDownloads : Writing(d)
      <4>1. {e \in 1..MaxDownloads : Writing(e)} = {}
        BY <3>2
      <4>2. Cardinality({}) = 0
        BY FS_EmptySet
      <4> QED BY <4>1, <4>2
    <3> QED BY <3>1, <3>2
  <2> QED BY <2>1 DEF UpdateIsTrue, OneDownload, UpdateInv
<1> QED BY UpdateInitInv, UpdateNextInv, <1>1, PTL DEF UpdateSpec

-----------------------------------------------------------------------------
(* The panel's draft, for any lists, settings and files. Drafts, the live  *)
(* configuration and the copies kept for undo and redo have the shape of a *)
(* configuration (Formed) and the copies are bounded (Held); reading a     *)
(* configuration twice is reading it once (LoadedTwice), so what a panel   *)
(* that was started again calls live agrees with the file.                 *)

\* A configuration: sections for the tabs, and lists, those with keys of entries.
ListEntry ==
  [name : Names \cup {None}, target : Names \cup {None}, form : {None, "default", "set", "edited"}]
Listed(l) == l = [list \in Lists |-> l[list]] /\ \A list \in KeyedLists : l[list] \in Seq(ListEntry)
Formed(c) ==
  \E s, l : c = [settings |-> s, lists |-> l] /\ s = [t \in Tabs |-> s[t]] /\ Listed(l)

\* Drafts are configurations, and those kept for undo and redo are few.
Managers(S) == [live : S, draft : S, undo : Seq(S), redo : Seq(S)]
Held(m) ==
  /\ \E S : (\A c \in S : Formed(c)) /\ m \in Managers(S)
  /\ Len(m.undo) + Len(m.redo) <= MaxUndo

DraftInv ==
  /\ Held(manager)
  /\ DOMAIN gui = {"view", "tab", "phase", "raw"} /\ (gui.raw # << >> => Formed(gui.raw[1]))
  /\ DOMAIN file = {"config", "torn"} /\ Formed(file.config)
  /\ panel = "running" /\ ~file.torn => Loaded(file.config) = Loaded(manager.live)

\* What was loaded holds no more references.
LEMMA LoadedTwice ==
  ASSUME NEW c, Formed(c) PROVE Formed(Loaded(c)) /\ Loaded(Loaded(c)) = Loaded(c)
<1>1. PICK s, l : c = [settings |-> s, lists |-> l] /\ s = [t \in Tabs |-> s[t]] /\ Listed(l)
  BY DEF Formed
<1>2. PICK new : new = [t \in Tabs |-> IF s[t] = "variable" THEN "value" ELSE s[t]]
  OBVIOUS
<1>3. Loaded(c) = [settings |-> new, lists |-> l]
  BY <1>1, <1>2 DEF Loaded
<1>4. new = [t \in Tabs |-> new[t]] /\ \A t \in Tabs : new[t] # "variable"
  BY <1>2
<1>5. [t \in Tabs |-> IF new[t] = "variable" THEN "value" ELSE new[t]] = new
  BY <1>4
<1>6. Loaded(Loaded(c)) = [settings |-> [t \in Tabs |-> IF new[t] = "variable" THEN "value" ELSE new[t]],
                           lists |-> l]
  BY <1>3, <1>4 DEF Loaded
<1> QED BY <1>1, <1>3, <1>4, <1>5, <1>6 DEF Formed

\* A change of a list, or of a setting, leaves a configuration one.
LEMMA ListStaysFormed == ASSUME NEW c, Formed(c), NEW l, Listed(l) PROVE Formed([c EXCEPT !.lists = l])
<1>1. PICK s, k : c = [settings |-> s, lists |-> k] /\ s = [t \in Tabs |-> s[t]]
  BY DEF Formed
<1>2. [c EXCEPT !.lists = l] = [settings |-> s, lists |-> l]
  BY <1>1
<1> QED BY <1>1, <1>2 DEF Formed

\* So does a setting.
LEMMA SettingStaysFormed ==
  ASSUME NEW c, Formed(c), NEW t, NEW v
  PROVE  Formed([c EXCEPT !.settings = [c.settings EXCEPT ![t] = v]])
<1>1. PICK s, l : c = [settings |-> s, lists |-> l] /\ s = [u \in Tabs |-> s[u]] /\ Listed(l)
  BY DEF Formed
<1>2. PICK new : new = [s EXCEPT ![t] = v]
  OBVIOUS
<1>3. new = [u \in Tabs |-> new[u]]
  BY <1>1, <1>2
<1>4. [c EXCEPT !.settings = [c.settings EXCEPT ![t] = v]] = [settings |-> new, lists |-> l]
  BY <1>1, <1>2
<1> QED BY <1>1, <1>3, <1>4 DEF Formed

\* A draft may be any configuration.
LEMMA DraftHeld ==
  ASSUME NEW m, Held(m), NEW c, Formed(c)
  PROVE  Held([m EXCEPT !.draft = c]) /\ [m EXCEPT !.draft = c].live = m.live
<1>1. PICK S : (\A e \in S : Formed(e)) /\ m \in Managers(S)
  BY DEF Held
<1>2. PICK T : T = S \cup {c}
  OBVIOUS
<1>3. m.live \in T /\ m.undo \in Seq(T) /\ m.redo \in Seq(T)
  BY <1>1, <1>2, SeqMonotonic DEF Managers
<1>4. [m EXCEPT !.draft = c] = [live |-> m.live, draft |-> c, undo |-> m.undo, redo |-> m.redo]
  BY <1>1 DEF Managers
<1>5. [m EXCEPT !.draft = c] \in Managers(T) /\ \A e \in T : Formed(e)
  BY <1>1, <1>2, <1>3, <1>4 DEF Managers
<1> QED BY <1>4, <1>5 DEF Held

\* The drafts and stacks of a manager that is held.
LEMMA HeldParts ==
  ASSUME NEW m, Held(m)
  PROVE  /\ Formed(m.draft) /\ Formed(m.live)
         /\ \E S, live, draft, old, back :
              /\ live \in S /\ draft \in S /\ old \in Seq(S) /\ back \in Seq(S)
              /\ \A c \in S : Formed(c)
              /\ m = [live |-> live, draft |-> draft, undo |-> old, redo |-> back]
              /\ Len(old) + Len(back) <= MaxUndo
<1>1. PICK S : (\A c \in S : Formed(c)) /\ m \in Managers(S)
  BY DEF Held
<1>2. m.live \in S /\ m.draft \in S /\ m.undo \in Seq(S) /\ m.redo \in Seq(S)
  BY <1>1 DEF Managers
<1>3. m = [live |-> m.live, draft |-> m.draft, undo |-> m.undo, redo |-> m.redo]
  BY <1>1 DEF Managers
<1>4. Len(m.undo) + Len(m.redo) <= MaxUndo
  BY DEF Held
<1> QED BY <1>1, <1>2, <1>3, <1>4

\* A manager of configurations and short stacks is held.
LEMMA HeldAs ==
  ASSUME NEW S, \A c \in S : Formed(c), NEW live \in S, NEW draft \in S,
         NEW old \in Seq(S), NEW back \in Seq(S), Len(old) + Len(back) <= MaxUndo
  PROVE  Held([live |-> live, draft |-> draft, undo |-> old, redo |-> back])
<1>1. PICK m : m = [live |-> live, draft |-> draft, undo |-> old, redo |-> back]
  OBVIOUS
<1>2. m \in Managers(S) /\ m.undo = old /\ m.redo = back
  BY <1>1 DEF Managers
<1>3. Len(m.undo) + Len(m.redo) <= MaxUndo
  BY <1>2
<1>4. Held(m)
  BY <1>2, <1>3 DEF Held
<1> QED BY <1>1, <1>4

\* An edit saves the draft for undo, and drops the oldest where there are too many.
LEMMA EditHeld ==
  ASSUME NEW m, Held(m)
  PROVE  Held(BeginEdit(m)) /\ BeginEdit(m).live = m.live
<1>1. PICK S, live, draft, old, back :
          /\ live \in S /\ draft \in S /\ old \in Seq(S) /\ back \in Seq(S)
          /\ \A c \in S : Formed(c)
          /\ m = [live |-> live, draft |-> draft, undo |-> old, redo |-> back]
          /\ Len(old) + Len(back) <= MaxUndo
  BY HeldParts
<1>2. PICK n \in Nat, k \in Nat : n = Len(old) /\ k = Len(back)
  BY <1>1, LenProperties
<1>3. n <= MaxUndo /\ MaxUndo \in Nat
  BY <1>1, <1>2, ConfigAssumption
<1>4. PICK pushed : pushed = Append(old, draft)
  OBVIOUS
<1>5. pushed \in Seq(S) /\ Len(pushed) = n + 1 /\ pushed # << >>
  BY <1>1, <1>2, <1>4, AppendProperties
<1>6. PICK rest : rest = Tail(pushed) /\ rest \in Seq(S) /\ Len(rest) = n
  <2>1. Tail(pushed) \in Seq(S) /\ Len(Tail(pushed)) = Len(pushed) - 1
    BY <1>5, HeadTailProperties
  <2>2. PICK rest : rest = Tail(pushed)
    OBVIOUS
  <2>3. rest \in Seq(S) /\ Len(rest) = Len(pushed) - 1
    BY <2>1, <2>2
  <2>4. Len(rest) = n
    BY <1>5, <2>3
  <2> QED BY <2>2, <2>3, <2>4
<1>7. PICK u : u = IF n + 1 > MaxUndo THEN rest ELSE pushed
  OBVIOUS
<1>8. u \in Seq(S) /\ Len(u) \in Nat /\ Len(u) <= MaxUndo
  BY <1>3, <1>5, <1>6, <1>7
<1>9. BeginEdit(m) = [live |-> live, draft |-> draft, undo |-> u, redo |-> << >>]
  <2>1. m.undo = old /\ m.draft = draft
    BY <1>1
  <2>2. BeginEdit(m) = [m EXCEPT !.redo = << >>, !.undo = u]
    BY <1>4, <1>5, <1>6, <1>7, <2>1 DEF BeginEdit
  <2> QED BY <1>1, <2>2
<1>10. << >> \in Seq(S) /\ Len(u) + Len(<< >>) <= MaxUndo
  BY <1>8, EmptySeq
<1>11. Held(BeginEdit(m))
  BY <1>1, <1>8, <1>9, <1>10, HeldAs
<1> QED BY <1>1, <1>9, <1>11

\* Undo takes a draft from one stack and puts one on the other.
LEMMA UndoHeld ==
  ASSUME NEW m, Held(m)
  PROVE  Held(Undo(m)) /\ Undo(m).live = m.live
<1>1. CASE m.undo = << >>
  BY <1>1 DEF Undo
<1>2. CASE m.undo # << >>
  <2>1. PICK S, live, draft, old, back :
          /\ live \in S /\ draft \in S /\ old \in Seq(S) /\ back \in Seq(S)
          /\ \A c \in S : Formed(c)
          /\ m = [live |-> live, draft |-> draft, undo |-> old, redo |-> back]
          /\ Len(old) + Len(back) <= MaxUndo
    BY HeldParts
  <2>2. PICK n \in Nat, k \in Nat : n = Len(old) /\ k = Len(back)
    BY <2>1, LenProperties
  <2>3. n > 0 /\ n + k <= MaxUndo
    <3>1. old # << >>
      BY <1>2, <2>1
    <3> QED BY <2>1, <2>2, <3>1, EmptySeq
  <2>4. PICK less, more : less = SubSeq(old, 1, n - 1) /\ more = Append(back, draft)
    OBVIOUS
  <2>5. \A i \in 1..n : old[i] \in S
    BY <2>1, <2>2, ElementOfSeq
  <2>6. old[n] \in S /\ less \in Seq(S) /\ Len(less) = n - 1
    <3>1. n \in 1..n /\ \A i \in 1..(n - 1) : old[i] \in S
      BY <2>3, <2>5
    <3> QED BY <2>3, <2>4, <2>5, <3>1, SubSeqProperties
  <2>7. more \in Seq(S) /\ Len(more) = k + 1
    BY <2>1, <2>2, <2>4, AppendProperties
  <2>8. Undo(m) = [live |-> live, draft |-> old[n], undo |-> less, redo |-> more]
    BY <1>2, <2>1, <2>2, <2>4 DEF Undo
  <2>9. Len(less) + Len(more) <= MaxUndo /\ Len(more) + Len(less) <= MaxUndo
    <3>1. MaxUndo \in Nat
      BY ConfigAssumption
    <3> QED BY <2>3, <2>6, <2>7, <3>1
  <2>10. Held(Undo(m))
    BY <2>1, <2>6, <2>7, <2>8, <2>9, HeldAs
  <2> QED BY <2>1, <2>8, <2>10
<1> QED BY <1>1, <1>2

\* Redo takes a draft from one stack and puts one on the other.
LEMMA RedoHeld ==
  ASSUME NEW m, Held(m)
  PROVE  Held(Redo(m)) /\ Redo(m).live = m.live
<1>1. CASE m.redo = << >>
  BY <1>1 DEF Redo
<1>2. CASE m.redo # << >>
  <2>1. PICK S, live, draft, old, back :
          /\ live \in S /\ draft \in S /\ old \in Seq(S) /\ back \in Seq(S)
          /\ \A c \in S : Formed(c)
          /\ m = [live |-> live, draft |-> draft, undo |-> old, redo |-> back]
          /\ Len(old) + Len(back) <= MaxUndo
    BY HeldParts
  <2>2. PICK n \in Nat, k \in Nat : n = Len(back) /\ k = Len(old)
    BY <2>1, LenProperties
  <2>3. n > 0 /\ n + k <= MaxUndo
    <3>1. back # << >>
      BY <1>2, <2>1
    <3> QED BY <2>1, <2>2, <3>1, EmptySeq
  <2>4. PICK less, more : less = SubSeq(back, 1, n - 1) /\ more = Append(old, draft)
    OBVIOUS
  <2>5. \A i \in 1..n : back[i] \in S
    BY <2>1, <2>2, ElementOfSeq
  <2>6. back[n] \in S /\ less \in Seq(S) /\ Len(less) = n - 1
    <3>1. n \in 1..n /\ \A i \in 1..(n - 1) : back[i] \in S
      BY <2>3, <2>5
    <3> QED BY <2>3, <2>4, <2>5, <3>1, SubSeqProperties
  <2>7. more \in Seq(S) /\ Len(more) = k + 1
    BY <2>1, <2>2, <2>4, AppendProperties
  <2>8. Redo(m) = [live |-> live, draft |-> back[n], undo |-> more, redo |-> less]
    BY <1>2, <2>1, <2>2, <2>4 DEF Redo
  <2>9. Len(less) + Len(more) <= MaxUndo /\ Len(more) + Len(less) <= MaxUndo
    <3>1. MaxUndo \in Nat
      BY ConfigAssumption
    <3> QED BY <2>3, <2>6, <2>7, <3>1
  <2>10. Held(Redo(m))
    BY <2>1, <2>6, <2>7, <2>8, <2>9, HeldAs
  <2> QED BY <2>1, <2>8, <2>10
<1> QED BY <1>1, <1>2

\* A manager without stacks is held.
LEMMA ClearedHeld ==
  ASSUME NEW c, Formed(c), NEW d, Formed(d)
  PROVE  Held([live |-> c, draft |-> d, undo |-> << >>, redo |-> << >>])
<1>1. << >> \in Seq({c, d}) /\ Len(<< >>) = 0
  BY EmptySeq
<1>2. Len(<< >>) + Len(<< >>) <= MaxUndo
  BY <1>1, ConfigAssumption
<1> QED BY <1>1, <1>2, HeldAs

\* The lists of a configuration that is formed.
LEMMA ListsOf == ASSUME NEW c, Formed(c) PROVE Listed(c.lists)
BY DEF Formed

\* A list of the draft may be put in the place of another, as a whole or in part.
LEMMA ListHeld ==
  ASSUME NEW m, Held(m), NEW list, NEW new, list \in KeyedLists => new \in Seq(ListEntry)
  PROVE  /\ Held([m EXCEPT !.draft.lists[list] = new])
         /\ [m EXCEPT !.draft.lists[list] = new].live = m.live
<1>1. PICK old, l : old = m.draft.lists /\ l = [old EXCEPT ![list] = new]
  OBVIOUS
<1>2. Listed(old)
  BY <1>1, HeldParts, ListsOf
<1>3. Listed(l)
  BY <1>1, <1>2 DEF Listed
<1>4. PICK c : c = [m.draft EXCEPT !.lists = l]
  OBVIOUS
<1>5. Formed(c)
  BY <1>3, <1>4, HeldParts, ListStaysFormed
<1>6. [m EXCEPT !.draft.lists[list] = new] = [m EXCEPT !.draft = c]
  BY <1>1, <1>4
<1> QED BY <1>5, <1>6, DraftHeld

\* The same, as the views say it.
LEMMA WithListHeld ==
  ASSUME NEW m, Held(m), NEW list, NEW new, list \in KeyedLists => new \in Seq(ListEntry)
  PROVE  Held(WithList(m, list, new)) /\ WithList(m, list, new).live = m.live
BY ListHeld DEF WithList

\* So may a setting.
LEMMA SettingHeld ==
  ASSUME NEW m, Held(m), NEW tab, NEW v
  PROVE  /\ Held([m EXCEPT !.draft.settings[tab] = v])
         /\ [m EXCEPT !.draft.settings[tab] = v].live = m.live
<1>1. PICK c : c = [m.draft EXCEPT !.settings = [m.draft.settings EXCEPT ![tab] = v]]
  OBVIOUS
<1>2. Formed(c)
  BY <1>1, HeldParts, SettingStaysFormed
<1>3. [m EXCEPT !.draft.settings[tab] = v] = [m EXCEPT !.draft = c]
  BY <1>1
<1> QED BY <1>2, <1>3, DraftHeld

\* A detail form that is drawn changes the draft alone, and the stacks by an edit.
LEMMA DetailHeld ==
  ASSUME NEW m, Held(m), NEW list, NEW form
  PROVE  Held(DrawDetail(m, list, form).m) /\ DrawDetail(m, list, form).m.live = m.live
<1>1. PICK at, saved, new :
        /\ at = Place(m.draft, list, form.selected)
        /\ saved = IF form.snapshot THEN m ELSE BeginEdit(m)
        /\ new = [saved EXCEPT !.draft.lists[list][at] = FilledIn(list, @)]
  OBVIOUS
<1>2. DrawDetail(m, list, form).m = IF at = 0 THEN m ELSE new
  BY <1>1 DEF DrawDetail
<1>3. Held(saved) /\ saved.live = m.live
  BY <1>1, EditHeld
<1>4. PICK entries : entries = [saved.draft.lists[list] EXCEPT ![at] = FilledIn(list, @)]
  OBVIOUS
<1>5. new = [saved EXCEPT !.draft.lists[list] = entries]
  BY <1>1, <1>4
<1>6. list \in KeyedLists => entries \in Seq(ListEntry)
  <2> SUFFICES ASSUME list \in KeyedLists PROVE entries \in Seq(ListEntry)
    OBVIOUS
  <2>1. PICK q : q = saved.draft.lists[list] /\ q \in Seq(ListEntry)
    BY <1>3, HeldParts, ListsOf DEF Listed
  <2>2. CASE at \in 1..Len(q)
    <3>1. q[at] \in ListEntry
      BY <2>1, <2>2, ElementOfSeq
    <3>2. FilledIn(list, q[at]) \in ListEntry
      BY <3>1 DEF FilledIn, ListEntry
    <3> QED BY <1>4, <2>1, <2>2, <3>2, ExceptSeq
  <2>3. CASE at \notin 1..Len(q)
    <3>1. DOMAIN q = 1..Len(q) /\ q = [i \in DOMAIN q |-> q[i]]
      BY <2>1
    <3>2. entries = q
      BY <1>4, <2>1, <2>3, <3>1
    <3> QED BY <2>1, <3>2
  <2> QED BY <2>2, <2>3
<1>7. Held(new) /\ new.live = saved.live
  BY <1>3, <1>5, <1>6, ListHeld
<1> QED BY <1>2, <1>3, <1>7

\* The settings that are drawn insert a default.
LEMMA SettingsHeld ==
  ASSUME NEW m, Held(m), NEW tab
  PROVE  Held(DrawSettings(m, tab)) /\ DrawSettings(m, tab).live = m.live
<1>1. CASE tab \notin Tabs
  BY <1>1 DEF DrawSettings
<1>2. CASE tab \in Tabs
  <2>1. PICK old, v : old = m.draft.settings[tab] /\ v = IF old = None THEN "default" ELSE old
    OBVIOUS
  <2>2. DrawSettings(m, tab) = [m EXCEPT !.draft.settings[tab] = v]
    BY <1>2, <2>1 DEF DrawSettings
  <2> QED BY <2>2, SettingHeld
<1> QED BY <1>1, <1>2

\* The rest of a frame keeps what is live.
LEMMA DrawHeld ==
  ASSUME NEW m, Held(m), NEW g, Draw(m, g)
  PROVE  Held(manager') /\ manager'.live = m.live /\ gui' = g
<1>1. PICK drawn : drawn = DrawDetail(m, g.view, forms[g.view])
  OBVIOUS
<1>2. \/ manager' = drawn.m
      \/ manager' = DrawSettings(m, g.tab)
      \/ manager' = m
  BY <1>1 DEF Draw
<1>3. Held(drawn.m) /\ drawn.m.live = m.live
  BY <1>1, DetailHeld
<1> QED BY <1>2, <1>3, SettingsHeld DEF Draw

-----------------------------------------------------------------------------

\* A frame that leaves what is live and the file's configuration as they are.
Edits ==
  /\ Held(manager') /\ manager'.live = manager.live
  /\ file' \in {file, [file EXCEPT !.torn = TRUE]}
  /\ DOMAIN gui' = DOMAIN gui /\ gui'.raw \in {gui.raw, << >>, <<manager.draft>>}
  /\ panel' = "running" => panel = "running"

\* Edits leave what is live and what is in the file, and take no copy but of the
\* draft.
LEMMA EditsKeep == ASSUME DraftInv, Edits PROVE DraftInv'
<1>1. gui'.raw # << >> => Formed(gui'.raw[1])
  <2>1. Formed(manager.draft)
    BY HeldParts DEF DraftInv
  <2>2. CASE gui'.raw = <<manager.draft>>
    BY <2>1, <2>2
  <2>3. CASE gui'.raw \in {gui.raw, << >>}
    BY <2>3 DEF DraftInv
  <2> QED BY <2>2, <2>3 DEF Edits
<1>2. /\ DOMAIN file' = {"config", "torn"} /\ file'.config = file.config
      /\ ~file'.torn => ~file.torn
  BY DEF DraftInv, Edits
<1>3. Loaded(file'.config) = Loaded(file.config)
  BY <1>2
<1> QED BY <1>1, <1>2, <1>3 DEF DraftInv, Edits

\* What discarding and committing leave.
LEMMA DiscardHeld == ASSUME NEW m, Held(m) PROVE Held(Discard(m)) /\ Discard(m).live = m.live
<1>1. PICK live, draft, old, back : m = [live |-> live, draft |-> draft, undo |-> old, redo |-> back]
  BY HeldParts
<1>2. m.live = live
  BY <1>1
<1>3. PICK none : none = << >>
  OBVIOUS
<1>4. Discard(m) = [m EXCEPT !.draft = live, !.undo = none, !.redo = none]
  BY <1>2, <1>3 DEF Discard
<1>5. Discard(m) = [live |-> live, draft |-> live, undo |-> none, redo |-> none]
  BY <1>1, <1>4
<1> QED BY <1>2, <1>3, <1>5, HeldParts, ClearedHeld

\* Likewise.
LEMMA PromoteHeld == ASSUME NEW m, Held(m) PROVE Held(Promote(m)) /\ Promote(m).live = m.draft
<1>1. PICK live, draft, old, back : m = [live |-> live, draft |-> draft, undo |-> old, redo |-> back]
  BY HeldParts
<1>2. m.draft = draft
  BY <1>1
<1>3. PICK none : none = << >>
  OBVIOUS
<1>4. Promote(m) = [m EXCEPT !.live = draft, !.undo = none, !.redo = none]
  BY <1>2, <1>3 DEF Promote
<1>5. Promote(m) = [live |-> draft, draft |-> draft, undo |-> none, redo |-> none]
  BY <1>1, <1>4
<1> QED BY <1>2, <1>3, <1>5, HeldParts, ClearedHeld

\* The menu, the shortcuts and the buttons above a view draw the view from a manager
\* that is held.
LEMMA MenuDraws ==
  ASSUME DraftInv,
         \/ Repaint \/ SaveShortcut \/ UndoClicked \/ RedoClicked
         \/ \E view \in Lists \cup {"dashboard", "settings"} : Navigate(view)
         \/ SaveClicked \/ DiscardClicked \/ CancelClicked \/ BannerGoes
  PROVE  \E m, g : /\ Draw(m, g) /\ Held(m) /\ m.live = manager.live
                   /\ DOMAIN g = DOMAIN gui /\ g.raw = gui.raw
                   /\ file' = file /\ panel = "running"
<1>1. Held(manager) /\ DOMAIN gui = {"view", "tab", "phase", "raw"}
  BY DEF DraftInv
<1>2. PICK m, g : /\ Draw(m, g) /\ m \in {manager, Undo(manager), Redo(manager), Discard(manager)}
                  /\ DOMAIN g = DOMAIN gui /\ g.raw = gui.raw
                  /\ file' = file /\ panel = "running"
  <2>1. ASSUME NEW view, Navigate(view)
        PROVE  LET g == [gui EXCEPT !.view = view] IN
               Draw(manager, g) /\ DOMAIN g = DOMAIN gui /\ g.raw = gui.raw /\ file' = file /\ panel = "running"
    BY <1>1, <2>1 DEF Navigate, Frame
  <2>2. \A p : LET g == [gui EXCEPT !.phase = p] IN DOMAIN g = DOMAIN gui /\ g.raw = gui.raw
    BY <1>1
  <2>3. ASSUME SaveShortcut \/ SaveClicked
        PROVE  Draw(manager, [gui EXCEPT !.phase = "confirming"]) /\ file' = file /\ panel = "running"
    BY <2>3 DEF SaveShortcut, SaveClicked, Frame
  <2>4. ASSUME CancelClicked \/ BannerGoes
        PROVE  Draw(manager, [gui EXCEPT !.phase = "idle"]) /\ file' = file /\ panel = "running"
    BY <2>4 DEF CancelClicked, BannerGoes, Frame
  <2>5. ASSUME DiscardClicked
        PROVE  Draw(Discard(manager), [gui EXCEPT !.phase = "idle"]) /\ file' = file /\ panel = "running"
    BY <2>5 DEF DiscardClicked, Frame
  <2>6. ASSUME Repaint \/ UndoClicked \/ RedoClicked
        PROVE  /\ Draw(manager, gui) \/ Draw(Undo(manager), gui) \/ Draw(Redo(manager), gui)
               /\ file' = file /\ panel = "running"
    BY <2>6 DEF Repaint, UndoClicked, RedoClicked, Frame
  <2> QED BY <2>1, <2>2, <2>3, <2>4, <2>5, <2>6
<1>3. Held(m) /\ m.live = manager.live
  BY <1>1, <1>2, DiscardHeld, UndoHeld, RedoHeld
<1> QED BY <1>2, <1>3

\* What the menu, the shortcuts and the workflow of a commit do.
LEMMA MenuKeeps ==
  ASSUME DraftInv,
         \/ Repaint \/ SaveShortcut \/ UndoClicked \/ RedoClicked
         \/ \E view \in Lists \cup {"dashboard", "settings"} : Navigate(view)
         \/ SaveClicked \/ DiscardClicked \/ CancelClicked \/ BannerGoes
  PROVE  DraftInv'
<1>1. PICK m, g : /\ Draw(m, g) /\ Held(m) /\ m.live = manager.live
                  /\ DOMAIN g = DOMAIN gui /\ g.raw = gui.raw
                  /\ file' = file /\ panel = "running"
  BY MenuDraws
<1>2. Held(manager') /\ manager'.live = m.live /\ gui' = g
  BY <1>1, DrawHeld
<1>3. Edits
  BY <1>1, <1>2 DEF Edits, DraftInv
<1> QED BY <1>3, EditsKeep

\* A commit writes the draft, which becomes what is live, or leaves both.
LEMMA CommitKeeps == ASSUME DraftInv, Commit PROVE DraftInv'
<1>1. /\ Held(manager) /\ DOMAIN gui = {"view", "tab", "phase", "raw"}
      /\ DOMAIN file = {"config", "torn"} /\ panel = "running" /\ Formed(manager.draft)
  BY HeldParts DEF DraftInv, Commit, Frame
<1>2. \A p : LET g == [gui EXCEPT !.phase = p] IN DOMAIN g = DOMAIN gui /\ g.raw = gui.raw
  BY <1>1
<1>3. CASE /\ file' = [config |-> manager.draft, torn |-> FALSE]
           /\ Draw(Promote(manager), [gui EXCEPT !.phase = "success"])
  <2>2. Held(Promote(manager)) /\ Promote(manager).live = manager.draft
    BY <1>1, PromoteHeld
  <2>3. Held(manager') /\ manager'.live = manager.draft /\ gui' = [gui EXCEPT !.phase = "success"]
    BY <1>3, <2>2, DrawHeld
  <2>4. /\ DOMAIN file' = {"config", "torn"} /\ file'.config = manager.draft
    BY <1>1, <1>3
  <2> QED BY <1>1, <1>2, <2>3, <2>4 DEF DraftInv
<1>4. CASE /\ file' \in {file, [file EXCEPT !.torn = TRUE]}
           /\ Draw(manager, [gui EXCEPT !.phase = "error"])
  <2>1. Held(manager') /\ manager'.live = manager.live /\ gui' = [gui EXCEPT !.phase = "error"]
    BY <1>1, <1>4, DrawHeld
  <2>2. Edits
    BY <1>1, <1>2, <1>4, <2>1 DEF Edits
  <2> QED BY <2>2, EditsKeep
<1> QED BY <1>3, <1>4 DEF Commit

\* An input to the content of a list's view puts a manager that is held, with
\* what is live in it.
LEMMA InputKeeps ==
  ASSUME DraftInv, panel = "running",
         NEW m, Held(m), m.live = manager.live, NEW list, NEW form, ListInput(m, list, form)
  PROVE  DraftInv'
<1>1. Edits
  BY DEF Edits, ListInput, DraftInv
<1> QED BY <1>1, EditsKeep

\* What is left of a list when an entry is taken out.
LEMMA RemovedFrom == ASSUME NEW q \in Seq(ListEntry), NEW i \in 1..Len(q) PROVE RemoveAt(q, i) \in Seq(ListEntry)
<1>1. PICK n \in Nat : n = Len(q)
  BY LenProperties
<1>2. \A j \in 1..n : q[j] \in ListEntry
  BY <1>1, ElementOfSeq
<1>3. SubSeq(q, 1, i - 1) \in Seq(ListEntry) /\ SubSeq(q, i + 1, n) \in Seq(ListEntry)
  BY <1>1, <1>2, SubSeqProperties
<1>4. RemoveAt(q, i) = SubSeq(q, 1, i - 1) \o SubSeq(q, i + 1, n)
  BY <1>1 DEF RemoveAt
<1> QED BY <1>3, <1>4, ConcatProperties

\* The cards and the buttons of a list.
LEMMA CardsKeep ==
  ASSUME DraftInv,
         \/ \E list, entry : entry \in ListEntry /\ CreateEntry(list, entry)
         \/ \E list, i : DeleteEntry(list, i) \/ OpenDetail(list, i)
         \/ \E agent, channel : ToggleBinding(agent, channel)
  PROVE  DraftInv'
<1>1. Held(manager) /\ Held(BeginEdit(manager)) /\ BeginEdit(manager).live = manager.live
  BY EditHeld DEF DraftInv
<1>2. ASSUME NEW list, NEW entries, list \in KeyedLists => entries \in Seq(ListEntry)
      PROVE  /\ Held(WithList(BeginEdit(manager), list, entries))
             /\ WithList(BeginEdit(manager), list, entries).live = manager.live
  BY <1>1, <1>2, ListHeld DEF WithList
<1>3. \A list \in KeyedLists : manager.draft.lists[list] \in Seq(ListEntry)
  BY <1>1, HeldParts, ListsOf DEF Listed
<1>4. ASSUME NEW list, NEW entry \in ListEntry, CreateEntry(list, entry) PROVE DraftInv'
  <2>1. list \in KeyedLists => Append(manager.draft.lists[list], entry) \in Seq(ListEntry)
    BY <1>3, AppendProperties
  <2> QED BY <1>2, <1>4, <2>1, InputKeeps DEF CreateEntry, InList, Frame
<1>5. ASSUME NEW list, NEW i, DeleteEntry(list, i) PROVE DraftInv'
  <2>1. list \in KeyedLists => RemoveAt(manager.draft.lists[list], i) \in Seq(ListEntry)
    <3> SUFFICES ASSUME list \in KeyedLists PROVE RemoveAt(manager.draft.lists[list], i) \in Seq(ListEntry)
      OBVIOUS
    <3>1. PICK q \in Seq(ListEntry) : q = manager.draft.lists[list]
      BY <1>3
    <3>2. i \in 1..Len(q)
      BY <1>5, <3>1 DEF DeleteEntry
    <3> QED BY <3>1, <3>2, RemovedFrom
  <2> QED BY <1>2, <1>5, <2>1, InputKeeps DEF DeleteEntry, InList, Frame
<1>6. ASSUME NEW list, NEW i, OpenDetail(list, i) PROVE DraftInv'
  BY <1>1, <1>6, InputKeeps DEF OpenDetail, InList, Frame
<1>7. ASSUME NEW agent, NEW channel, ToggleBinding(agent, channel) PROVE DraftInv'
  <2>1. "bindings" \notin KeyedLists
    BY ConfigAssumption
  <2> QED BY <1>2, <1>7, <2>1, InputKeeps DEF ToggleBinding, InList, Frame
<1> QED BY <1>4, <1>5, <1>6, <1>7

\* A set of numbers has a least one.
LEMMA LeastIsThere == ASSUME NEW T \in SUBSET Nat, T # {} PROVE Min(T) \in T
<1>1. PICK R : R = OpToRel(<, Nat)
  OBVIOUS
<1>2. IsWellFoundedOn(R, Nat)
  BY <1>1, NatLessThanWellFounded
<1>3. PICK x \in T : \A y \in T : ~(<<y, x>> \in R)
  BY <1>2, WFMin
<1>4. \A y \in T : y < x => <<y, x>> \in R
  BY <1>1 DEF OpToRel
<1>5. ASSUME NEW y \in T PROVE x <= y
  <2>1. x \in Nat /\ y \in Nat /\ ~(y < x)
    BY <1>3, <1>4
  <2> QED BY <2>1
<1> QED BY <1>5 DEF Min

\* The place of a key in a list of entries.
ByKey(q, key) == SelectInSeq(q, LAMBDA e : e.name = key)

\* It is that of an entry with the key, and there is one if there is an entry.
LEMMA KeyPlace ==
  ASSUME NEW q \in Seq(ListEntry), NEW key
  PROVE  /\ ByKey(q, key) # 0 => ByKey(q, key) \in 1..Len(q) /\ q[ByKey(q, key)].name = key
         /\ (\E i \in 1..Len(q) : q[i].name = key) => ByKey(q, key) # 0
<1>1. PICK I : I = {i \in 1..Len(q) : q[i].name = key}
  OBVIOUS
<1>2. ByKey(q, key) = IF I # {} THEN Min(I) ELSE 0
  BY <1>1 DEF ByKey, SelectInSeq
<1>3. Len(q) \in Nat /\ I \subseteq Nat /\ 0 \notin I
  BY <1>1, LenProperties
<1>4. I # {} => Min(I) \in I
  BY <1>3, LeastIsThere
<1> QED BY <1>1, <1>2, <1>3, <1>4

\* The place of an entry is one of its list.
LEMMA PlaceIsThere ==
  ASSUME NEW c, Formed(c), NEW list \in Lists, NEW selected, Place(c, list, selected) # 0
  PROVE  Place(c, list, selected) \in DOMAIN c.lists[list]
<1>1. CASE list \in IndexedLists
  BY <1>1 DEF Place
<1>2. CASE list \notin IndexedLists
  <2>1. PICK q \in Seq(ListEntry) : q = c.lists[list]
    BY <1>2, ListsOf DEF Lists, Listed
  <2>2. Place(c, list, selected) = ByKey(q, selected)
    BY <1>2, <2>1 DEF Place, ByKey
  <2>3. Place(c, list, selected) \in 1..Len(q)
    BY <2>2, KeyPlace
  <2> QED BY <2>1, <2>3
<1> QED BY <1>1, <1>2

\* It stays there when the entry changes but for its key.
LEMMA PlaceStays ==
  ASSUME NEW c, Formed(c), NEW list \in Lists, NEW selected, NEW at,
         at = Place(c, list, selected), at # 0,
         NEW d, NEW new, d.lists[list] = [c.lists[list] EXCEPT ![at] = new],
         list \in KeyedLists => new \in ListEntry /\ new.name = c.lists[list][at].name
  PROVE  Place(d, list, selected) # 0
<1>1. PICK q : q = c.lists[list]
  OBVIOUS
<1>2. CASE list \in IndexedLists
  BY <1>1, <1>2 DEF Place
<1>3. CASE list \notin IndexedLists
  <2>1. list \in KeyedLists /\ q \in Seq(ListEntry)
    BY <1>1, <1>3, ListsOf DEF Lists, Listed
  <2>2. at = ByKey(q, selected)
    BY <1>1, <1>3 DEF Place, ByKey
  <2>3. at \in 1..Len(q) /\ q[at].name = selected
    BY <2>1, <2>2, KeyPlace
  <2>4. PICK r : r = [q EXCEPT ![at] = new]
    OBVIOUS
  <2>5. r \in Seq(ListEntry) /\ Len(r) = Len(q) /\ r[at] = new /\ new.name = selected
    BY <1>1, <2>1, <2>3, <2>4, ExceptSeq
  <2>6. ByKey(r, selected) # 0
    BY <2>3, <2>5, KeyPlace
  <2> QED BY <1>1, <1>3, <2>4, <2>6 DEF Place, ByKey
<1> QED BY <1>2, <1>3

\* A list in which the entry at a place is filled in.
WithFilledIn(q, list, at) == [q EXCEPT ![at] = FilledIn(list, @)]

\* A detail form that is drawn fills in its entry, if that is there.
LEMMA DrawnEntry ==
  ASSUME NEW m, Held(m), NEW list \in Lists, NEW form,
         NEW at, at = Place(m.draft, list, form.selected), NEW drawn, drawn = DrawDetail(m, list, form)
  PROVE  /\ drawn.at = at
         /\ at # 0 => drawn.m.draft.lists[list] = WithFilledIn(m.draft.lists[list], list, at)
<1>1. CASE at = 0
  BY <1>1 DEF DrawDetail
<1>2. CASE at # 0
  <2>1. PICK saved : saved = IF form.snapshot THEN m ELSE BeginEdit(m)
    OBVIOUS
  <2>2. /\ drawn.at = at
        /\ drawn.m = [saved EXCEPT !.draft.lists[list][at] = FilledIn(list, @)]
    BY <1>2, <2>1 DEF DrawDetail
  <2>3. saved.draft = m.draft /\ Held(saved)
    <3>1. PICK live, draft, old, back : m = [live |-> live, draft |-> draft, undo |-> old, redo |-> back]
      BY HeldParts
    <3>2. BeginEdit(m).draft = m.draft
      BY <3>1 DEF BeginEdit
    <3> QED BY <2>1, <3>2, EditHeld
  <2>4. PICK old, back, live, draft : saved = [live |-> live, draft |-> draft, undo |-> old, redo |-> back]
    BY <2>3, HeldParts
  <2>5. PICK set, l : draft = [settings |-> set, lists |-> l] /\ Listed(l)
    <3>1. Formed(saved.draft) /\ saved.draft = draft
      BY <2>3, <2>4, HeldParts
    <3> QED BY <3>1 DEF Formed
  <2>6. drawn.m.draft.lists = [l EXCEPT ![list] = [l[list] EXCEPT ![at] = FilledIn(list, @)]]
    BY <2>2, <2>4, <2>5
  <2>7. drawn.m.draft.lists[list] = [l[list] EXCEPT ![at] = FilledIn(list, @)]
    BY <2>5, <2>6 DEF Listed
  <2>8. m.draft.lists = l
    BY <2>3, <2>4, <2>5
  <2> QED BY <1>2, <2>2, <2>7, <2>8 DEF WithFilledIn
<1> QED BY <1>1, <1>2

\* The detail forms.
LEMMA FormsKeep ==
  ASSUME DraftInv, NEW list,
         (\E entry \in ListEntry : EditDetail(list, entry)) \/ BackClicked(list) \/ DetailDelete(list)
  PROVE  DraftInv'
<1>1. PICK drawn : drawn = DrawDetail(manager, list, forms[list])
  OBVIOUS
<1>2. Held(drawn.m) /\ drawn.m.live = manager.live
  BY <1>1, DetailHeld DEF DraftInv
<1>3. list \in KeyedLists => drawn.m.draft.lists[list] \in Seq(ListEntry)
  BY <1>2, HeldParts, ListsOf DEF Listed
<1>4. ASSUME NEW entry \in ListEntry, EditDetail(list, entry) PROVE DraftInv'
  <2>1. /\ panel = "running"
        /\ ListInput([drawn.m EXCEPT !.draft.lists[list][drawn.at] = entry], list, drawn.form)
    BY <1>1, <1>4 DEF EditDetail, InDetail, Frame
  <2>2. PICK new : new = [drawn.m.draft.lists[list] EXCEPT ![drawn.at] = entry]
    OBVIOUS
  <2>3. [drawn.m EXCEPT !.draft.lists[list][drawn.at] = entry] = [drawn.m EXCEPT !.draft.lists[list] = new]
    BY <2>2
  <2>4. PICK m : m = [drawn.m EXCEPT !.draft.lists[list] = new]
    OBVIOUS
  <2>5. list \in KeyedLists => new \in Seq(ListEntry)
    <3> SUFFICES ASSUME list \in KeyedLists PROVE new \in Seq(ListEntry)
      OBVIOUS
    <3>1. PICK q \in Seq(ListEntry) : q = drawn.m.draft.lists[list]
      BY <1>3
    <3>2. CASE drawn.at \in 1..Len(q)
      BY <2>2, <3>1, <3>2, ExceptSeq
    <3>3. CASE drawn.at \notin 1..Len(q)
      <4>1. DOMAIN q = 1..Len(q) /\ q = [i \in DOMAIN q |-> q[i]]
        OBVIOUS
      <4>2. new = q
        BY <2>2, <3>1, <3>3, <4>1
      <4> QED BY <4>2
    <3> QED BY <3>2, <3>3
  <2>6. Held(m) /\ m.live = manager.live
    <3>1. ASSUME NEW o, Held(o)
          PROVE  Held([o EXCEPT !.draft.lists[list] = new]) /\ [o EXCEPT !.draft.lists[list] = new].live = o.live
      BY <2>5, <3>1, ListHeld, Zenon
    <3>2. /\ Held([drawn.m EXCEPT !.draft.lists[list] = new])
          /\ [drawn.m EXCEPT !.draft.lists[list] = new].live = drawn.m.live
      BY <1>2, <3>1, Zenon
    <3> QED BY <1>2, <2>4, <3>2, Zenon
  <2>7. ListInput(m, list, drawn.form)
    BY <2>1, <2>3, <2>4
  <2> QED BY <2>1, <2>6, <2>7, InputKeeps
<1>5. CASE BackClicked(list)
  BY <1>1, <1>2, <1>5, InputKeeps DEF BackClicked, InDetail, Frame
<1>6. CASE DetailDelete(list)
  <2>1. PICK left, m : /\ left = RemoveAt(drawn.m.draft.lists[list], drawn.at)
                       /\ m = WithList(drawn.m, list, left)
    OBVIOUS
  <2>2. panel = "running" /\ ListInput(m, list, Closed) /\ drawn.at # 0
    BY <1>1, <1>6, <2>1 DEF DetailDelete, InDetail, Frame
  <2>3. list \in KeyedLists => left \in Seq(ListEntry)
    <3> SUFFICES ASSUME list \in KeyedLists
                 PROVE  left \in Seq(ListEntry)
      OBVIOUS
    <3>1. PICK form, at, q, r :
            /\ form = forms[list] /\ at = Place(manager.draft, list, form.selected)
            /\ q = manager.draft.lists[list] /\ r = drawn.m.draft.lists[list]
      OBVIOUS
    <3>2. list \in Lists /\ Held(manager) /\ Formed(manager.draft)
      BY HeldParts DEF DraftInv, Lists
    <3>3. at # 0 /\ drawn.at = at /\ r = [q EXCEPT ![at] = FilledIn(list, @)]
      <4>1. drawn = DrawDetail(manager, list, form)
        BY <1>1, <3>1
      <4>2. /\ drawn.at = at
            /\ at # 0 => drawn.m.draft.lists[list] = WithFilledIn(manager.draft.lists[list], list, at)
        BY <3>1, <3>2, <4>1, DrawnEntry
      <4>3. at # 0
        BY <2>2, <4>2
      <4> QED BY <3>1, <4>2, <4>3 DEF WithFilledIn
    <3>4. at \in DOMAIN q
      BY <3>1, <3>2, <3>3, PlaceIsThere
    <3>5. r \in Seq(ListEntry) /\ at \in DOMAIN r
      BY <1>3, <3>1, <3>3, <3>4
    <3>6. at \in 1..Len(r)
      BY <3>5
    <3> QED BY <2>1, <3>1, <3>3, <3>5, <3>6, RemovedFrom
  <2>4. Held(m) /\ m.live = manager.live
    <3>1. PICK before : before = drawn.m /\ Held(before) /\ before.live = manager.live
      BY <1>2
    <3>2. m = WithList(before, list, left)
      BY <2>1, <3>1
    <3> QED BY <2>3, <3>1, <3>2, WithListHeld
  <2> QED BY <2>2, <2>4, InputKeeps
<1> QED BY <1>4, <1>5, <1>6

\* The form for a new binding, and the settings.
LEMMA PickerKeeps ==
  ASSUME DraftInv, (\E p : PickBinding(p)) \/ CreateBinding
  PROVE  DraftInv'
<1>1. Edits
  BY DEF Edits, PickBinding, CreateBinding, InList, Frame, DraftInv
<1> QED BY <1>1, EditsKeep

\* The inputs of the settings view edit the draft or change the tab.
LEMMA SettingsKeep == ASSUME DraftInv, SettingsInput PROVE DraftInv'
<1>1. /\ Held(manager) /\ DOMAIN gui = {"view", "tab", "phase", "raw"}
      /\ gui.raw # << >> => Formed(gui.raw[1])
  BY DEF DraftInv
<1>2. ASSUME NEW tab, NEW s \in Settings, EditSettings(tab, s) PROVE DraftInv'
  <2>1. Held(manager') /\ manager'.live = manager.live
    BY <1>1, <1>2, SettingHeld DEF EditSettings
  <2>2. Edits
    BY <1>2, <2>1 DEF Edits, EditSettings, Frame
  <2> QED BY <2>2, EditsKeep
<1>3. ASSUME NEW tab, SelectTab(tab) PROVE DraftInv'
  <2>1. Held(manager') /\ manager'.live = manager.live /\ gui' = [gui EXCEPT !.tab = tab]
    BY <1>1, <1>3, DrawHeld DEF SelectTab
  <2>2. Edits
    BY <1>1, <1>3, <2>1 DEF Edits, SelectTab, Frame
  <2> QED BY <2>2, EditsKeep
<1>4. CASE RawEdit
  <2>1. Edits
    BY <1>1, <1>4 DEF Edits, RawEdit, Frame
  <2> QED BY <2>1, EditsKeep
<1>5. CASE RawCancel
  <2>1. Edits
    BY <1>1, <1>5 DEF Edits, RawCancel, Frame
  <2> QED BY <2>1, EditsKeep
<1>6. ASSUME NEW tab, NEW s \in Settings, RawSave(tab, s) PROVE DraftInv'
  <2>1. PICK c : c = [gui.raw[1] EXCEPT !.settings = [gui.raw[1].settings EXCEPT ![tab] = s]]
    OBVIOUS
  <2>2. Formed(c)
    BY <1>1, <1>6, <2>1, SettingStaysFormed DEF RawSave
  <2>3. manager' = [manager EXCEPT !.draft = c]
    BY <1>6, <2>1 DEF RawSave
  <2>4. Held(manager') /\ manager'.live = manager.live
    BY <1>1, <2>2, <2>3, DraftHeld
  <2>5. Edits
    BY <1>1, <1>6, <2>4 DEF Edits, RawSave, Frame
  <2> QED BY <2>5, EditsKeep
<1> QED BY <1>2, <1>3, <1>4, <1>5, <1>6 DEF SettingsInput, GatewayTab, ModelsTab, RawTab

\* A panel that is started has loaded the file.
LEMMA LoadHeld ==
  ASSUME NEW config, Formed(config)
  PROVE  Held(LoadConfig(config)) /\ Loaded(LoadConfig(config).live) = Loaded(config)
<1>1. PICK c : c = Loaded(config) /\ Formed(c) /\ Loaded(c) = c
  BY LoadedTwice
<1>2. LoadConfig(config) = [live |-> c, draft |-> c, undo |-> << >>, redo |-> << >>]
  BY <1>1 DEF LoadConfig
<1>3. Held([live |-> c, draft |-> c, undo |-> << >>, redo |-> << >>])
  BY <1>1, ClearedHeld
<1> QED BY <1>1, <1>2, <1>3

\* The panel starts with what it loads from the file, or does not start.
LEMMA RestartKeeps == ASSUME DraftInv, Restart PROVE DraftInv'
<1>1. file' = file /\ gui' = [view |-> "dashboard", tab |-> "gateway", phase |-> "idle", raw |-> << >>]
  BY DEF Restart
<1>2. CASE file.torn
  <2>1. manager' = manager /\ panel' = "unloaded"
    BY <1>2 DEF Restart
  <2> QED BY <1>1, <2>1 DEF DraftInv
<1>3. CASE ~file.torn
  <2>1. manager' = LoadConfig(file.config)
    BY <1>3 DEF Restart
  <2>2. Held(manager') /\ Loaded(manager'.live) = Loaded(file.config)
    BY <2>1, LoadHeld DEF DraftInv
  <2> QED BY <1>1, <2>2 DEF DraftInv
<1> QED BY <1>2, <1>3

\* What is live at first was read from the file.
LEMMA DraftInit == GuiInit => DraftInv
<1> SUFFICES ASSUME GuiInit PROVE DraftInv
  OBVIOUS
<1>1. PICK config \in Files : file = [config |-> config, torn |-> FALSE]
  BY DEF GuiInit
<1>2. Formed(config)
  <2>1. PICK s : s = [tab \in Tabs |-> config.settings[tab]]
    OBVIOUS
  <2>2. config = [settings |-> s, lists |-> config.lists] /\ s = [tab \in Tabs |-> s[tab]]
    BY <2>1, ConfigAssumption
  <2>3. PICK l : l = [list \in Lists |-> config.lists[list]]
    OBVIOUS
  <2>4. config = [settings |-> s, lists |-> l]
    BY <2>1, <2>3, ConfigAssumption DEF Lists
  <2>5. Listed(l)
    <3>1. PICK some : some = [name : Names, target : {None}, form : {None, "default", "set"}]
      OBVIOUS
    <3>2. \A list \in KeyedLists : config.lists[list] \in Seq(some)
      BY <3>1, ConfigAssumption
    <3>3. some \subseteq ListEntry
      BY <3>1 DEF ListEntry
    <3>4. \A list \in KeyedLists : l[list] \in Seq(ListEntry)
      BY <2>3, <3>2, <3>3, SeqMonotonic DEF Lists
    <3> QED BY <2>3, <3>4 DEF Listed
  <2> QED BY <2>2, <2>4, <2>5 DEF Formed
<1>3. Held(manager) /\ Loaded(manager.live) = Loaded(config)
  BY <1>1, <1>2, LoadHeld DEF GuiInit
<1> QED BY <1>1, <1>2, <1>3 DEF DraftInv, GuiInit

\* The entries that are made or edited.
LEMMA NewEntries ==
  /\ \A name \in Names, target \in Names \cup {None} : NewEntry(name, target) \in ListEntry
  /\ \A name \in Names : [NewEntry(name, None) EXCEPT !.form = "default"] \in ListEntry
  /\ \A name \in Names \cup {None}, target \in Names \cup {None} :
        [name |-> name, target |-> target, form |-> "edited"] \in ListEntry
BY DEF NewEntry, ListEntry

\* The inputs of a detail form.
LEMMA EntryFormKeeps ==
  ASSUME DraftInv, NEW list, NEW targets, targets \subseteq Names \cup {None}, EntryForm(list, targets)
  PROVE  DraftInv'
BY NewEntries, FormsKeep DEF EntryForm

\* Every frame keeps the invariant.
LEMMA DraftNext == ASSUME DraftInv, [GuiNext]_guiVars PROVE DraftInv'
<1>1. CASE AgentInput
  BY <1>1, CardsKeep, EntryFormKeeps, NewEntries DEF AgentInput, CreateAgent, AddTemplate, AgentCards, AgentForm
<1>2. CASE ChannelInput
  <2>1. ASSUME NEW key \in Names, NEW known \in BOOLEAN, CreateChannel(key, known) PROVE DraftInv'
    <3>1. PICK entry : /\ CreateEntry("channels", entry)
                       /\ entry = [NewEntry(key, None) EXCEPT !.form = IF known THEN "default" ELSE None]
      BY <2>1 DEF CreateChannel
    <3>2. entry \in ListEntry
      BY <3>1 DEF NewEntry, ListEntry
    <3> QED BY <3>1, <3>2, CardsKeep
  <2> QED BY <1>2, <2>1, CardsKeep, EntryFormKeeps DEF ChannelInput, ChannelCards, ChannelForm
<1>3. CASE SkillInput
  BY <1>3, CardsKeep, EntryFormKeeps, NewEntries DEF SkillInput, CreateSkill, SkillCards, SkillForm
<1>4. CASE BindingInput
  BY <1>4, CardsKeep, EntryFormKeeps, PickerKeeps DEF BindingInput, BindingCards, BindingForm
<1>5. CASE UNCHANGED guiVars
  BY <1>5 DEF guiVars, DraftInv
<1> QED BY <1>1, <1>2, <1>3, <1>4, <1>5, MenuKeeps, CommitKeeps, SettingsKeep, RestartKeeps DEF GuiNext

\* The drafts kept for undo and redo are at most MAX_UNDO_DEPTH, and what the
\* panel takes for saved is what the file says: for any lists, names and files, and
\* through undo, failed writes, panics and restarts.
THEOREM DraftsAreBounded == GuiSpec => []DraftHistoryHolds
<1>1. DraftInv => DraftHistoryHolds
  BY DEF DraftInv, Held, DraftHistoryHolds
<1>2. GuiInit => DraftInv
  BY DraftInit
<1>3. DraftInv /\ [GuiNext]_guiVars => DraftInv'
  BY DraftNext
<1> QED BY <1>1, <1>2, <1>3, PTL DEF GuiSpec

-----------------------------------------------------------------------------
(* A detail form is drawn for an entry that is there. What a frame did     *)
(* before does not matter: a form that is drawn has looked for its entry   *)
(* in the draft it draws, and what it changes then, or the user, leaves    *)
(* the entry at its place and its key as it is (PlaceStays).               *)

\* Every list has a form, open or not.
FormsOK ==
  /\ forms = [list \in Lists |-> forms[list]]
  /\ \A list \in Lists : DOMAIN forms[list] = {"selected", "snapshot"}

\* What FormHasEntry says of a frame and a list.
Shows(list) ==
  gui'.view = list /\ forms'[list].selected # None /\ forms'[list].snapshot /\ forms[list].selected # None
    => Place(manager'.draft, list, forms'[list].selected) # 0
FormsShow == FormsOK' /\ \A list \in Lists : Shows(list)

\* The form that is drawn.
LEMMA DrawnForm ==
  ASSUME NEW m, NEW list, NEW form, DOMAIN form = {"selected", "snapshot"},
         NEW drawn, drawn = DrawDetail(m, list, form)
  PROVE  /\ DOMAIN drawn.form = {"selected", "snapshot"}
         /\ drawn.at = Place(m.draft, list, form.selected)
         /\ drawn.at = 0 => drawn.form.selected = None
         /\ drawn.at # 0 => drawn.form.selected = form.selected
BY DEF DrawDetail

\* The entries of a list with keys.
LEMMA KeyedEntries ==
  ASSUME NEW c, Formed(c), NEW list \in KeyedLists, NEW i \in DOMAIN c.lists[list]
  PROVE  c.lists[list][i] \in ListEntry
<1>1. PICK q : q = c.lists[list] /\ q \in Seq(ListEntry)
  BY ListsOf DEF Listed
<1>2. i \in 1..Len(q)
  BY <1>1
<1> QED BY <1>1, <1>2, ElementOfSeq

\* What a detail form leaves of its entry.
LEMMA DrawnShows ==
  ASSUME NEW m, Held(m), NEW list \in Lists, NEW form, DOMAIN form = {"selected", "snapshot"},
         NEW drawn, drawn = DrawDetail(m, list, form), drawn.at # 0
  PROVE  Place(drawn.m.draft, list, drawn.form.selected) # 0
<1>1. PICK at, c, d, q, new :
        /\ at = Place(m.draft, list, form.selected) /\ c = m.draft /\ d = drawn.m.draft
        /\ q = c.lists[list] /\ new = FilledIn(list, q[at])
  OBVIOUS
<1>2. at # 0 /\ drawn.form.selected = form.selected /\ Formed(c)
  BY <1>1, DrawnForm, HeldParts
<1>3. d.lists[list] = WithFilledIn(q, list, at)
  BY <1>1, <1>2, DrawnEntry
<1>4. d.lists[list] = [q EXCEPT ![at] = new]
  BY <1>1, <1>3 DEF WithFilledIn
<1>5. at \in DOMAIN q
  BY <1>1, <1>2, PlaceIsThere
<1>6. list \in KeyedLists => q[at] \in ListEntry
  BY <1>1, <1>2, <1>5, KeyedEntries
<1>7. list \in KeyedLists => new \in ListEntry /\ new.name = q[at].name
  BY <1>1, <1>5, <1>6 DEF FilledIn, ListEntry
<1>8. Place(d, list, form.selected) # 0
  BY <1>1, <1>2, <1>4, <1>7, PlaceStays
<1> QED BY <1>1, <1>2, <1>8

\* The rest of a frame draws a form whose entry is there.
LEMMA DrawShows == ASSUME NEW m, Held(m), NEW g, Draw(m, g), FormsOK PROVE FormsShow
<1>1. PICK view, form, drawn : view = g.view /\ form = forms[view] /\ drawn = DrawDetail(m, view, form)
  OBVIOUS
<1>2. gui' = g
  BY DEF Draw
<1>3. CASE view \in Lists /\ form.selected # None
  <2>1. manager' = drawn.m /\ forms' = [forms EXCEPT ![view] = drawn.form]
    BY <1>1, <1>3 DEF Draw
  <2>2. DOMAIN form = {"selected", "snapshot"}
    BY <1>1, <1>3 DEF FormsOK
  <2>3. /\ DOMAIN drawn.form = {"selected", "snapshot"}
        /\ drawn.at = 0 => drawn.form.selected = None
    BY <1>1, <2>2, DrawnForm
  <2>4. forms'[view] = drawn.form /\ FormsOK'
    BY <1>3, <2>1, <2>3 DEF FormsOK
  <2>5. drawn.at # 0 => Place(manager'.draft, view, drawn.form.selected) # 0
    BY <1>1, <1>3, <2>1, <2>2, DrawnShows
  <2>6. Shows(view)
    BY <2>3, <2>4, <2>5 DEF Shows
  <2> QED BY <1>1, <1>2, <2>4, <2>6 DEF FormsShow, Shows
<1>4. CASE ~(view \in Lists /\ form.selected # None)
  <2>1. forms' = forms
    BY <1>1, <1>4 DEF Draw
  <2> QED BY <1>1, <1>2, <1>4, <2>1 DEF FormsShow, FormsOK, Shows
<1> QED BY <1>3, <1>4

\* An input to the content of a list's view.
LEMMA InputShows ==
  ASSUME FormsOK, NEW list, NEW m, NEW form, ListInput(m, list, form), gui.view = list,
         list \in Lists => DOMAIN form = {"selected", "snapshot"},
         \/ forms[list].selected = None
         \/ form.selected = None
         \/ list \in Lists => Place(m.draft, list, form.selected) # 0
  PROVE  FormsShow
<1>1. manager' = m /\ forms' = [forms EXCEPT ![list] = form] /\ gui' = gui
  BY DEF ListInput
<1>2. FormsOK' /\ (list \in Lists => forms'[list] = form)
  BY <1>1 DEF FormsOK
<1> QED BY <1>1, <1>2 DEF FormsShow, Shows

\* Cards, buttons and the form for a new binding are drawn while no detail form is.
LEMMA CardsShow ==
  ASSUME FormsOK,
         \/ \E list, entry : CreateEntry(list, entry)
         \/ \E list, i : DeleteEntry(list, i) \/ OpenDetail(list, i)
         \/ \E agent, channel : ToggleBinding(agent, channel)
         \/ (\E p : PickBinding(p)) \/ CreateBinding
  PROVE  FormsShow
<1>1. ASSUME NEW list, NEW m, NEW form, InList(list), ListInput(m, list, form),
             list \in Lists => DOMAIN form = {"selected", "snapshot"}
      PROVE  FormsShow
  BY <1>1, InputShows DEF InList
<1>2. ASSUME NEW list, NEW entry, CreateEntry(list, entry) PROVE FormsShow
  BY <1>1, <1>2 DEF CreateEntry, FormsOK
<1>3. ASSUME NEW list, NEW i, DeleteEntry(list, i) PROVE FormsShow
  BY <1>1, <1>3 DEF DeleteEntry, FormsOK
<1>4. ASSUME NEW list, NEW i, OpenDetail(list, i) PROVE FormsShow
  <2>1. PICK form, selected : form = [forms[list] EXCEPT !.selected = selected]
                              /\ ListInput(manager, list, form) /\ InList(list)
    BY <1>4 DEF OpenDetail
  <2>2. list \in Lists => DOMAIN form = {"selected", "snapshot"}
    BY <2>1 DEF FormsOK
  <2> QED BY <1>1, <2>1, <2>2
<1>5. ASSUME NEW agent, NEW channel, ToggleBinding(agent, channel) PROVE FormsShow
  BY <1>1, <1>5 DEF ToggleBinding, FormsOK
<1>6. CASE (\E p : PickBinding(p)) \/ CreateBinding
  BY <1>6 DEF PickBinding, CreateBinding, InList, FormsShow, FormsOK, Shows
<1> QED BY <1>2, <1>3, <1>4, <1>5, <1>6

\* The fields of a detail form, "Back" and "Delete".
LEMMA FormsStillShow ==
  ASSUME DraftInv, FormsOK, NEW list,
         (\E entry \in ListEntry : EditDetail(list, entry)) \/ BackClicked(list) \/ DetailDelete(list)
  PROVE  FormsShow
<1>1. PICK form, drawn : form = forms[list] /\ drawn = DrawDetail(manager, list, form)
  OBVIOUS
<1>2. Held(manager)
  BY DEF DraftInv
<1>3. CASE BackClicked(list) \/ DetailDelete(list)
  BY <1>3, InputShows DEF BackClicked, DetailDelete, InDetail, Closed
<1>4. ASSUME NEW entry \in ListEntry, EditDetail(list, entry) PROVE FormsShow
  <2>1. /\ gui.view = list /\ drawn.at # 0
        /\ list \in KeyedLists => entry.name = drawn.m.draft.lists[list][drawn.at].name
        /\ ListInput([drawn.m EXCEPT !.draft.lists[list][drawn.at] = entry], list, drawn.form)
    BY <1>1, <1>4 DEF EditDetail, InDetail
  <2>2. PICK m : m = [drawn.m EXCEPT !.draft.lists[list][drawn.at] = entry] /\ ListInput(m, list, drawn.form)
    BY <2>1
  <2>3. ASSUME list \in Lists
        PROVE  /\ DOMAIN drawn.form = {"selected", "snapshot"}
               /\ Place(m.draft, list, drawn.form.selected) # 0
    <3>1. DOMAIN form = {"selected", "snapshot"}
      BY <1>1, <2>3 DEF FormsOK
    <3>2. PICK at, c, q, l :
            /\ at = Place(manager.draft, list, form.selected) /\ c = manager.draft
            /\ q = manager.draft.lists[list] /\ l = drawn.m.draft.lists[list]
      OBVIOUS
    <3>3. /\ drawn.at = at /\ at # 0 /\ drawn.form.selected = form.selected /\ Formed(c)
          /\ DOMAIN drawn.form = {"selected", "snapshot"}
      <4>1. /\ DOMAIN drawn.form = {"selected", "snapshot"} /\ drawn.at = at
            /\ drawn.at # 0 => drawn.form.selected = form.selected
        BY <1>1, <3>1, <3>2, DrawnForm
      <4> QED BY <1>2, <2>1, <3>2, <4>1, HeldParts
    <3>4. l = WithFilledIn(q, list, at)
      BY <1>1, <1>2, <2>3, <3>2, <3>3, DrawnEntry
    <3>5. at \in DOMAIN q /\ l = [q EXCEPT ![at] = FilledIn(list, q[at])]
      BY <2>3, <3>2, <3>3, <3>4, PlaceIsThere DEF WithFilledIn
    <3>6. list \in KeyedLists => q[at] \in ListEntry
      BY <3>2, <3>3, <3>5, KeyedEntries
    <3>7. list \in KeyedLists => entry.name = q[at].name
      <4>1. PICK old : old = q[at]
        OBVIOUS
      <4>2. l[at] = FilledIn(list, old)
        BY <3>5, <4>1
      <4>3. list \in KeyedLists => FilledIn(list, old).name = old.name
        BY <3>6, <4>1 DEF FilledIn, ListEntry
      <4>4. list \in KeyedLists => entry.name = l[at].name
        BY <2>1, <3>2, <3>3
      <4> QED BY <4>1, <4>2, <4>3, <4>4
    <3>8. m.draft.lists[list] = [q EXCEPT ![at] = entry]
      <4>1. PICK live, draft, old, back : drawn.m = [live |-> live, draft |-> draft, undo |-> old, redo |-> back]
                                          /\ Formed(draft)
        <5>1. PICK before : before = drawn.m /\ Held(before)
          BY <1>1, <1>2, DetailHeld
        <5>2. PICK S, live, draft, old, back :
                /\ live \in S /\ draft \in S /\ old \in Seq(S) /\ back \in Seq(S)
                /\ \A e \in S : Formed(e)
                /\ before = [live |-> live, draft |-> draft, undo |-> old, redo |-> back]
                /\ Len(old) + Len(back) <= MaxUndo
          BY <5>1, HeldParts
        <5> QED BY <5>1, <5>2
      <4>2. PICK set, lists : draft = [settings |-> set, lists |-> lists] /\ Listed(lists)
        BY <4>1 DEF Formed
      <4>3. m.draft.lists = [lists EXCEPT ![list] = [lists[list] EXCEPT ![at] = entry]]
        BY <2>2, <3>3, <4>1, <4>2
      <4>4. m.draft.lists[list] = [lists[list] EXCEPT ![at] = entry]
        BY <2>3, <4>2, <4>3 DEF Listed
      <4>5. lists[list] = l
        BY <3>2, <4>1, <4>2
      <4> QED BY <3>5, <4>4, <4>5
    <3>9. Place(m.draft, list, form.selected) # 0
      BY <2>3, <3>2, <3>3, <3>7, <3>8, PlaceStays
    <3> QED BY <3>3, <3>9
  <2>4. PICK after : after = drawn.form /\ ListInput(m, list, after)
    BY <2>2
  <2> QED BY <2>1, <2>3, <2>4, InputShows
<1> QED BY <1>3, <1>4

\* Nothing of the settings is a form.
LEMMA SettingsShow == ASSUME DraftInv, FormsOK, SettingsInput PROVE FormsShow
<1>1. Held(manager) /\ DOMAIN gui = {"view", "tab", "phase", "raw"} /\ "settings" \notin Lists
  BY ConfigAssumption DEF DraftInv, Lists
<1>2. ASSUME NEW tab, SelectTab(tab) PROVE FormsShow
  BY <1>1, <1>2, DrawShows DEF SelectTab
<1>3. ASSUME gui.view = "settings", forms' = forms, gui'.view = gui.view PROVE FormsShow
  BY <1>1, <1>3 DEF FormsShow, FormsOK, Shows
<1>4. ASSUME NEW tab, NEW s, EditSettings(tab, s) PROVE FormsShow
  BY <1>3, <1>4 DEF EditSettings
<1>5. ASSUME NEW tab, NEW s, RawSave(tab, s) PROVE FormsShow
  BY <1>1, <1>3, <1>5 DEF RawSave
<1>6. CASE RawEdit \/ RawCancel
  BY <1>1, <1>3, <1>6 DEF RawEdit, RawCancel
<1> QED BY <1>2, <1>4, <1>5, <1>6 DEF SettingsInput, GatewayTab, ModelsTab, RawTab

\* The menu, the commit and a restart.
LEMMA MenuShows ==
  ASSUME DraftInv, FormsOK,
         \/ Repaint \/ SaveShortcut \/ UndoClicked \/ RedoClicked
         \/ \E view \in Lists \cup {"dashboard", "settings"} : Navigate(view)
         \/ SaveClicked \/ DiscardClicked \/ CancelClicked \/ Commit \/ BannerGoes
         \/ Restart
  PROVE  FormsShow
<1>1. Held(manager)
  BY DEF DraftInv
<1>2. CASE Commit
  BY <1>1, <1>2, PromoteHeld, DrawShows DEF Commit
<1>3. CASE Restart
  <2>1. forms' = [list \in Lists |-> Closed]
    BY <1>3 DEF Restart
  <2> QED BY <2>1 DEF FormsShow, FormsOK, Shows, Closed
<1>4. CASE ~Commit /\ ~Restart
  <2>1. PICK m, g : Draw(m, g) /\ Held(m)
    BY <1>4, MenuDraws
  <2> QED BY <2>1, DrawShows
<1> QED BY <1>2, <1>3, <1>4

\* An entry's form.
LEMMA EntryFormShows ==
  ASSUME DraftInv, FormsOK, NEW list, NEW targets, targets \subseteq Names \cup {None}, EntryForm(list, targets)
  PROVE  FormsShow
BY NewEntries, FormsStillShow DEF EntryForm

\* Every frame draws a form whose entry is there.
LEMMA FramesShow == ASSUME DraftInv, FormsOK, GuiNext PROVE FormsShow
<1>1. CASE AgentInput
  BY <1>1, CardsShow, EntryFormShows DEF AgentInput, CreateAgent, AddTemplate, AgentCards, AgentForm
<1>2. CASE ChannelInput
  BY <1>2, CardsShow, EntryFormShows DEF ChannelInput, CreateChannel, ChannelCards, ChannelForm
<1>3. CASE SkillInput
  BY <1>3, CardsShow, EntryFormShows DEF SkillInput, CreateSkill, SkillCards, SkillForm
<1>4. CASE BindingInput
  BY <1>4, CardsShow, EntryFormShows DEF BindingInput, BindingCards, BindingForm
<1> QED BY <1>1, <1>2, <1>3, <1>4, MenuShows, SettingsShow DEF GuiNext

\* A frame never draws the detail form of an entry that is gone: for any lists, names
\* and files, whatever undo, redo, discard, the raw editor or a commit takes away.
THEOREM FormsHaveEntries == GuiSpec => FormHasEntry
<1>1. GuiInit => DraftInv /\ FormsOK
  BY DraftInit DEF GuiInit, FormsOK, Closed
<1>2. DraftInv /\ FormsOK /\ [GuiNext]_guiVars => (DraftInv /\ FormsOK)'
  <2>1. ASSUME FormsOK, UNCHANGED guiVars PROVE FormsOK'
    BY <2>1 DEF FormsOK, guiVars
  <2> QED BY <2>1, DraftNext, FramesShow DEF FormsShow
<1>3. DraftInv /\ FormsOK /\ [GuiNext]_guiVars =>
        [ \A list \in Lists :
             gui'.view = list /\ forms'[list].selected # None /\ forms'[list].snapshot /\ forms[list].selected # None
             => Place(manager'.draft, list, forms'[list].selected) # 0 ]_guiVars
  BY FramesShow DEF FormsShow, Shows
<1> QED BY <1>1, <1>2, <1>3, PTL DEF GuiSpec, FormHasEntry

-----------------------------------------------------------------------------
(* The configuration: what is valid can be served, and old keys are moved. *)

\* A gateway section that has no error names a port and the secret of its mode.
LEMMA ValidGateway ==
  ASSUME NEW gw, gw # None, ~HasErrors(ValidateGateway(gw))
  PROVE  /\ gw.port # 0
         /\ gw.auth # None /\ gw.auth.mode = "token" => Given(gw.auth.token)
         /\ gw.auth # None /\ gw.auth.mode = "password" => Given(gw.auth.password) \/ Given(gw.auth.token)
<1>1. \A p : Issue(p, "error") \notin ValidateGateway(gw)
  BY DEF HasErrors, Issue
<1>2. gw.port # 0
  BY <1>1 DEF ValidateGateway
<1>3. gw.auth # None /\ gw.auth.mode = "token" => Given(gw.auth.token)
  BY <1>1 DEF ValidateGateway
<1>4. gw.auth # None /\ gw.auth.mode = "password" => Given(gw.auth.password) \/ Given(gw.auth.token)
  BY <1>1 DEF ValidateGateway
<1> QED BY <1>2, <1>3, <1>4

\* The port and the authentication that the gateway is started with.
LEMMA OptionsAre ==
  ASSUME NEW gw
  PROVE  /\ gw = None \/ gw.port = None => BuildGatewayOptions(gw).port = DefaultPort
         /\ gw # None /\ gw.port # None => BuildGatewayOptions(gw).port = gw.port
         /\ gw = None \/ gw.auth = None => BuildGatewayOptions(gw).auth = AuthMode("none", "")
         /\ gw # None /\ gw.auth # None => BuildGatewayOptions(gw).auth = BuildAuthMode(gw.auth)
<1>1. PICK port, bind, ui, auth :
             /\ port = IF gw = None \/ gw.port = None THEN DefaultPort ELSE gw.port
             /\ auth = IF gw = None \/ gw.auth = None THEN AuthMode("none", "") ELSE BuildAuthMode(gw.auth)
             /\ BuildGatewayOptions(gw) = [port |-> port, bind |-> bind, ui |-> ui, auth |-> auth]
  BY Zenon DEF BuildGatewayOptions
<1>2. PICK options : options = [port |-> port, bind |-> bind, ui |-> ui, auth |-> auth]
  OBVIOUS
<1>3. options.port = port /\ options.auth = auth
  BY <1>2
<1> QED BY <1>1, <1>2, <1>3, Zenon

LEMMA NoAuthMode == AuthMode("none", "").kind = "none"
BY DEF AuthMode

\* The secret of the two modes that have one.
LEMMA AuthModeIs ==
  ASSUME NEW auth
  PROVE  /\ BuildAuthMode(auth).kind \in {"token", "password"} => auth.mode \in {"token", "password"}
         /\ auth.mode = "token" /\ auth.token # None => BuildAuthMode(auth).secret = auth.token
         /\ auth.mode = "password" /\ auth.password # None => BuildAuthMode(auth).secret = auth.password
         /\ auth.mode = "password" /\ auth.password = None /\ auth.token # None =>
              BuildAuthMode(auth).secret = auth.token
<1>1. \A kind, secret : AuthMode(kind, secret).kind = kind /\ AuthMode(kind, secret).secret = secret
  BY DEF AuthMode
<1> HIDE DEF AuthMode
<1>2. auth.mode \notin {"token", "password"} => BuildAuthMode(auth).kind \in {"trusted-proxy", "none"}
  <2>1. auth.mode \notin {"token", "password"} =>
          BuildAuthMode(auth) \in {AuthMode("trusted-proxy", ""), AuthMode("none", "")}
    BY Zenon DEF BuildAuthMode
  <2> QED BY <1>1, <2>1, Zenon
<1>3. auth.mode = "token" /\ auth.token # None => BuildAuthMode(auth) = AuthMode("token", auth.token)
  BY Zenon DEF BuildAuthMode
<1>4. auth.mode = "password" /\ auth.password # None =>
        BuildAuthMode(auth) = AuthMode("password", auth.password)
  BY Zenon DEF BuildAuthMode
<1>5. auth.mode = "password" /\ auth.password = None /\ auth.token # None =>
        BuildAuthMode(auth) = AuthMode("password", auth.token)
  BY Zenon DEF BuildAuthMode
<1>6. BuildAuthMode(auth).kind \in {"token", "password"} => auth.mode \in {"token", "password"}
  BY <1>2
<1>7. auth.mode = "token" /\ auth.token # None => BuildAuthMode(auth).secret = auth.token
  BY <1>3 DEF AuthMode
<1>8. auth.mode = "password" /\ auth.password # None => BuildAuthMode(auth).secret = auth.password
  BY <1>4 DEF AuthMode
<1>9. auth.mode = "password" /\ auth.password = None /\ auth.token # None =>
        BuildAuthMode(auth).secret = auth.token
  BY <1>5 DEF AuthMode
<1> QED BY <1>6, <1>7, <1>8, <1>9, Zenon

LEMMA ValidIsServed == ASSUME NEW gw PROVE ValidatedServes(gw)
<1>1. PICK port, auth : port = BuildGatewayOptions(gw).port /\ auth = BuildGatewayOptions(gw).auth
  OBVIOUS
<1> SUFFICES ASSUME ~HasErrors(ValidateGateway(gw))
             PROVE  port # 0 /\ (auth.kind \in {"token", "password"} /\ gw.auth.password # "" => auth.secret # "")
  BY <1>1, Zenon DEF ValidatedServes
<1>2. port # 0
  <2>1. port = DefaultPort \/ (gw # None /\ port = gw.port)
    BY <1>1, OptionsAre, Zenon
  <2>2. DefaultPort # 0
    BY DEF DefaultPort
  <2> QED BY <2>1, <2>2, ValidGateway, Zenon
<1>3. CASE gw = None \/ gw.auth = None
  <2>1. auth.kind = "none"
    BY <1>1, <1>3, OptionsAre, NoAuthMode, Zenon
  <2> QED BY <1>2, <2>1
<1>4. CASE gw # None /\ gw.auth # None
  <2>1. auth = BuildAuthMode(gw.auth)
    BY <1>1, <1>4, OptionsAre, Zenon
  <2>2. ASSUME auth.kind \in {"token", "password"}, gw.auth.password # ""
        PROVE  auth.secret # ""
    <3>1. gw.auth.mode \in {"token", "password"}
      BY <2>1, <2>2, AuthModeIs, Zenon
    <3>2. PICK mode, token, password, secret :
                 /\ mode = gw.auth.mode /\ token = gw.auth.token /\ password = gw.auth.password
                 /\ secret = auth.secret
      OBVIOUS
    <3>3. /\ mode = "token" => token \notin {None, ""}
          /\ mode = "password" => password \notin {None, ""} \/ token \notin {None, ""}
      BY <1>4, <3>2, ValidGateway, Zenon DEF Given
    <3>4. /\ mode = "token" /\ token # None => secret = token
          /\ mode = "password" /\ password # None => secret = password
          /\ mode = "password" /\ password = None /\ token # None => secret = token
      BY <2>1, <3>2, AuthModeIs, Zenon
    <3>5. password # "" /\ mode \in {"token", "password"}
      BY <2>2, <3>1, <3>2, Zenon
    <3>6. secret # ""
      BY <3>3, <3>4, <3>5, Zenon
    <3> QED BY <3>2, <3>6, Zenon
  <2> QED BY <1>2, <2>2, Zenon
<1> QED BY <1>3, <1>4, Zenon

LEMMA OldKeyMoved ==
  ASSUME NEW sections, NEW extra, NEW old, NEW new
  PROVE  LET after == MigrateKey(sections, extra, old, new)
         IN /\ DOMAIN after.extra = DOMAIN extra \ {old}
            /\ DOMAIN after.sections = DOMAIN sections
            /\ \A s \in DOMAIN sections : sections[s] # None => after.sections[s] = sections[s]
<1>1. PICK moved : moved = IF old \in DOMAIN extra /\ sections[new] = None
                           THEN [sections EXCEPT ![new] = extra[old]] ELSE sections
  OBVIOUS
<1>2. /\ DOMAIN moved = DOMAIN sections
      /\ \A s \in DOMAIN sections : sections[s] # None => moved[s] = sections[s]
  BY <1>1
<1>3. MigrateKey(sections, extra, old, new)
        = [sections |-> moved, extra |-> [k \in DOMAIN extra \ {old} |-> extra[k]]]
  BY <1>1 DEF MigrateKey
<1> QED BY <1>2, <1>3

LEMMA MigrationIsSettled == ASSUME NEW sections, NEW extra PROVE MigrationSettles(sections, extra)
<1>1. PICK server : server = MigrateKey(sections, extra, "server", "gateway")
  OBVIOUS
<1>2. PICK after : after = MigrateKey(server.sections, server.extra, "bot", "agents")
  OBVIOUS
<1>3. /\ DOMAIN server.extra = DOMAIN extra \ {"server"} /\ DOMAIN server.sections = DOMAIN sections
      /\ \A s \in DOMAIN sections : sections[s] # None => server.sections[s] = sections[s]
  BY <1>1, OldKeyMoved
<1>4. /\ DOMAIN after.extra = DOMAIN server.extra \ {"bot"}
      /\ \A s \in DOMAIN server.sections :
           server.sections[s] # None => after.sections[s] = server.sections[s]
  BY <1>2, OldKeyMoved
<1>5. ValidateExtraKeys(after.extra) = {}
  BY <1>3, <1>4 DEF ValidateExtraKeys, Deprecated
<1>6. MigrateLegacyConfig(sections, extra) = after
  BY <1>1, <1>2 DEF MigrateLegacyConfig
<1> QED BY <1>3, <1>4, <1>5, <1>6 DEF MigrationSettles

SettingsKnown ==
  /\ ValidationFirst
  /\ \/ others = <<>> \/ function = "validate"
     \/ function = "migrate" /\ \E sections \in Sections : others = <<sections>>

\* Whatever the gateway section, what passes validation can be served with a port and the
\* secret of its mode, and migration leaves no old key and keeps every new section.
THEOREM ConfigurationAlwaysHolds == ValidationSpec => []ConfigurationHolds
<1>1. others = <<>> /\ ValidationFirst => SettingsKnown
  BY DEF SettingsKnown
<1>2. SettingsKnown /\ [others = <<>> /\ ValidationRest /\ UNCHANGED <<function, one>>]_callVars => SettingsKnown'
  BY DEF SettingsKnown, ValidationFirst, ValidationRest, callVars
<1>3. SettingsKnown => ConfigurationHolds
  BY ValidIsServed, MigrationIsSettled DEF SettingsKnown, ConfigurationHolds, Called
<1> QED BY <1>1, <1>2, <1>3, PTL DEF ValidationSpec
=============================================================================

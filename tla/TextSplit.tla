------------------------------ MODULE TextSplit ------------------------------
(* How texts are cut to size: the chunks of an outbound reply (claw-       *)
(* channels outbound.rs), the chunks of a streamed reply and the thinking  *)
(* tags stripped from it (claw-agent-runtime subscriber.rs), a truncated   *)
(* tool result (claw-agent-tools pipeline.rs), a pruned one (pruning.rs).  *)
(* A text is a sequence of bytes: "w" begins a character of two bytes and  *)
(* "+" ends it, "~" is a fence mark, "<" and ">" stand for the opening and *)
(* the closing thinking tag.  Slicing a text inside a character panics.    *)
(* And the mentions that stand in a text.                                  *)
EXTENDS Integers, Sequences, SequencesExt

CONSTANTS Digits, Letters  \* the characters of an id, and of a name

Panicked == <<"panic">>
Panic == <<Panicked>>
Space == {" ", "\n"}

LOCAL Largest(S) == CHOOSE n \in S : \A k \in S : k <= n
LOCAL Smallest(S) == CHOOSE n \in S : \A k \in S : n <= k

Boundary(text, at) == at = Len(text) \/ text[at + 1] # "+"
Found(text, pattern) ==
    {at \in 0..(Len(text) - Len(pattern)) :
        SubSeq(text, at + 1, at + Len(pattern)) = pattern}
RFind(text, pattern) ==
    IF Found(text, pattern) = {} THEN -1 ELSE Largest(Found(text, pattern))

\* The fences (three marks), counted from the left without overlap.
Fences(text) ==
    LET f[i \in 0..Len(text)] ==
            IF i < 3 THEN [n |-> 0, last |-> 0]
            ELSE IF i - f[i - 1].last >= 3 /\ SubSeq(text, i - 2, i) = <<"~", "~", "~">>
                 THEN [n |-> f[i - 1].n + 1, last |-> i] ELSE f[i - 1]
    IN f[Len(text)].n

TrimEnd(text) ==
    LET said == {i \in DOMAIN text : text[i] \notin Space}
    IN IF said = {} THEN <<>> ELSE SubSeq(text, 1, Largest(said))
TrimStart(text) ==
    LET said == {i \in DOMAIN text : text[i] \notin Space}
    IN IF said = {} THEN <<>> ELSE SubSeq(text, Smallest(said), Len(text))

--------------------------------------------------------------------------------
(* chunk_text *)

\* Where a text longer than the limit is cut, if its first limit bytes end
\* between two characters.
FindSplitPointChannel(text, limit) ==
    LET region == SubSeq(text, 1, limit)
        found(pattern) == RFind(region, pattern)
    IN IF found(<<"\n", "\n">>) > 0 THEN found(<<"\n", "\n">>) + 1
       ELSE IF found(<<"\n">>) > 0 THEN found(<<"\n">>) + 1
       ELSE IF found(<<".", " ">>) > 0 THEN found(<<".", " ">>) + 2
       ELSE IF found(<<" ">>) > 0 THEN found(<<" ">>) + 1 ELSE limit

\* The chunks before their fences are mended, or Panic.
ChunksOf(text, limit) ==
    LET n == Len(text)
        from[k \in 0..n] ==    \* the chunks of the last k bytes
            LET rest == SubSeq(text, n - k + 1, n)
                at == FindSplitPointChannel(rest, limit)
                more == from[Len(TrimStart(SubSeq(rest, at + 1, k)))]
            IN IF k = 0 THEN <<>>
               ELSE IF k <= limit THEN <<rest>>
               ELSE IF ~Boundary(rest, limit) \/ more = Panic THEN Panic
               ELSE <<TrimEnd(SubSeq(rest, 1, at))>> \o more
    IN IF n <= limit THEN <<text>> ELSE from[n]

\* A chunk that leaves a fence open is closed, and the next one reopens it
\* (with the line that opened it, its language left out here).
FixCodeFences(chunks) ==
    LET fence == <<"~", "~", "~">>
        f[i \in 0..Len(chunks)] ==
            IF i = 0 THEN [open |-> FALSE, done |-> <<>>]
            ELSE LET chunk == IF f[i - 1].open THEN fence \o <<"\n">> \o chunks[i]
                              ELSE chunks[i]
                     odd == Fences(chunk) % 2 # 0
                 IN [open |-> odd,
                     done |-> Append(f[i - 1].done,
                                     IF odd THEN chunk \o <<"\n">> \o fence ELSE chunk)]
    IN f[Len(chunks)].done

ChunkText(text, limit) ==
    LET chunks == ChunksOf(text, limit)
    IN IF chunks = Panic \/ Len(text) <= limit THEN chunks ELSE FixCodeFences(chunks)

--------------------------------------------------------------------------------
(* The stream subscriber *)

\* Never inside an open fence when it can be helped, then at a paragraph, a
\* line or a sentence past the first quarter, then between two characters.
FindSplitPointAlwaysHard(text, max) ==
    IF Len(text) <= max THEN Len(text) ELSE max + 1
FindSplitPoint(text, max) ==
    LET region == SubSeq(text, 1, max)
        found(pattern) == RFind(region, pattern)
        late(pattern) == found(pattern) > max \div 4
    IN IF Len(text) <= max THEN Len(text)
       ELSE IF Fences(region) % 2 # 0 /\ found(<<"~", "~", "~">>) > 0 THEN found(<<"~", "~", "~">>)
       ELSE IF late(<<"\n", "\n">>) THEN found(<<"\n", "\n">>) + 2
       ELSE IF late(<<"\n">>) THEN found(<<"\n">>) + 1
       ELSE IF late(<<".", " ">>) THEN found(<<".", " ">>) + 2
       ELSE Largest({at \in 0..max : Boundary(text, at)})

\* The text outside the tags and whether the chunk ends inside one: inside,
\* only the closing tag counts; outside, only the opening one.
ProcessThinkingTags(text, inThinking) ==
    LET inside[i \in 0..Len(text)] ==
            IF i = 0 THEN inThinking
            ELSE IF inside[i - 1] THEN text[i] # ">" ELSE text[i] = "<"
        shown == SelectSeq([i \in DOMAIN text |-> [at |-> i, byte |-> text[i]]],
                           LAMBDA b : ~inside[b.at - 1] /\ b.byte # "<")
    IN [shown |-> [i \in DOMAIN shown |-> shown[i].byte], inside |-> inside[Len(text)]]

\* Pieces sent while the buffer is full, and what stays in it, or Panic.
Flush(buffer, max) ==
    LET n == Len(buffer)
        from[k \in 0..n] ==
            LET rest == SubSeq(buffer, n - k + 1, n)
                at == FindSplitPoint(rest, max)
                more == from[k - at]
            IN CASE k < max -> [sent |-> <<>>, buffer |-> rest, panic |-> FALSE]
                 [] k > max /\ ~Boundary(rest, max) ->
                      [sent |-> <<>>, buffer |-> rest, panic |-> TRUE]
                 [] OTHER -> [more EXCEPT !.sent = <<SubSeq(rest, 1, at)>> \o @]
    IN from[n]

\* subscribe, for the content deltas of a stream that ends well.
Subscribe(deltas, max) ==
    LET f[i \in 0..Len(deltas)] ==
            IF i = 0 THEN [sent |-> <<>>, buffer |-> <<>>, inside |-> FALSE, panic |-> FALSE]
            ELSE LET was == f[i - 1]
                     said == ProcessThinkingTags(deltas[i], was.inside)
                     flushed == Flush(was.buffer \o said.shown, max)
                 IN IF was.panic \/ said.shown = <<>> \/ said.inside
                    THEN [was EXCEPT !.inside = said.inside]
                    ELSE [sent |-> was.sent \o flushed.sent, buffer |-> flushed.buffer,
                          inside |-> said.inside, panic |-> flushed.panic]
        last == f[Len(deltas)]
    IN IF last.panic THEN Panic
       ELSE IF last.buffer = <<>> THEN last.sent ELSE Append(last.sent, last.buffer)

--------------------------------------------------------------------------------
(* Truncation *)

\* pruning.rs backs off to the start of a character; pipeline.rs keeps the
\* beginning and the end around a marker, and does not look.
TruncateAtBoundary(text, max) ==
    IF Len(text) <= max THEN text
    ELSE SubSeq(text, 1, Largest({at \in 0..max : Boundary(text, at)}))

MaybeTruncate(text, max, end, marker) ==
    LET start == max - end - Len(marker)
    IN IF Len(text) <= max THEN text
       ELSE IF Len(marker) + end >= max
            THEN IF Boundary(text, max) THEN SubSeq(text, 1, max) ELSE Panicked
       ELSE IF ~Boundary(text, start) \/ ~Boundary(text, Len(text) - end) THEN Panicked
       ELSE SubSeq(text, 1, start) \o marker \o SubSeq(text, Len(text) - end + 1, Len(text))

--------------------------------------------------------------------------------
(* Mentions of users, as the adapters of claw-discord and claw-telegram write and *)
(* find them: here a text is a sequence of tokens, "<@" one of them.              *)

\* Discord: what stands between "<@" or "<@!" and the next ">", if digits.
MentionToken(s, c) ==
    IF ~s.open THEN IF c = "<@" THEN [s EXCEPT !.open = TRUE, !.id = <<>>, !.at = 0] ELSE s
    ELSE CASE c = ">" -> [s EXCEPT !.open = FALSE,
                                   !.found = IF s.id # <<>> /\ ToSet(s.id) \subseteq Digits
                                             THEN Append(@, s.id) ELSE @]
           [] c = "!" /\ s.at = 0 -> [s EXCEPT !.at = 1]
           [] OTHER -> [s EXCEPT !.id = Append(@, c), !.at = 1]
DiscordMentions(text) ==
    FoldLeft(MentionToken, [open |-> FALSE, id |-> <<>>, at |-> 0, found |-> <<>>], text).found
FormatDiscordMention(id) == <<"<@">> \o id \o <<">">>

\* Telegram: the words that begin with "@" once what is no letter is trimmed.
Trimmed(word) ==
    LET kept == {i \in DOMAIN word : word[i] \in Letters \union Digits \union {"@", "_"}}
    IN IF kept = {} THEN <<>> ELSE SubSeq(word, Smallest(kept), Largest(kept))
TelegramMentions(text) ==
    LET step(s, c) == IF c = " " THEN Append(s, <<>>)
                      ELSE [s EXCEPT ![Len(s)] = Append(@, c)]
        words == FoldLeft(step, <<<<>>>>, text)
        trimmed == [i \in DOMAIN words |-> Trimmed(words[i])]
    IN SelectSeq(trimmed, LAMBDA w : Len(w) > 1 /\ w[1] = "@")
FormatTelegramMention(id) == IF id[1] = "@" THEN id ELSE <<"@">> \o id

--------------------------------------------------------------------------------
(* Properties *)

Valid(text) ==
    \A i \in DOMAIN text : /\ text[i] = "w" => i < Len(text) /\ text[i + 1] = "+"
                           /\ text[i] = "+" => i > 1 /\ text[i - 1] = "w"
LOCAL Said(text) == SelectSeq(text, LAMBDA b : b \notin Space)
LOCAL Narrow(text) == \A i \in DOMAIN text : text[i] # "w"

\* Cutting a reply loses nothing but white space, keeps the order and cuts
\* no character in two; before the fences are mended no chunk is longer
\* than the limit.  A panic needs a character of two bytes (chunk_text).
ReplyKept(text, limit) ==
    LET chunks == ChunksOf(text, limit)
    IN IF chunks = Panic THEN ~Narrow(text) ELSE
         /\ Said(FlattenSeq(chunks)) = Said(text)
         /\ \A i \in DOMAIN chunks : Len(chunks[i]) <= limit /\ Valid(chunks[i])

\* What the channel gets of a streamed reply is what lies outside its
\* thinking tags, byte for byte, however the stream was cut into deltas,
\* as long as no delta ends inside a tag; each message fits and cuts no
\* character in two.  A panic needs a character of two bytes (subscribe,
\* process_thinking_tags).
StreamKept(deltas, max) ==
    LET sent == Subscribe(deltas, max)
        closed == \A i \in DOMAIN deltas :
                     ~ProcessThinkingTags(FlattenSeq(SubSeq(deltas, 1, i)), FALSE).inside
    IN IF sent = Panic THEN ~Narrow(FlattenSeq(deltas)) ELSE
         /\ closed => FlattenSeq(sent) = ProcessThinkingTags(FlattenSeq(deltas), FALSE).shown
         /\ \A i \in DOMAIN sent : Len(sent[i]) <= max /\ Valid(sent[i])

\* The same without the condition on the tags ("Emit text before the tag.").
TextBeforeTagKept(deltas, max) ==
    Subscribe(deltas, max) # Panic =>
        FlattenSeq(Subscribe(deltas, max))
            = ProcessThinkingTags(FlattenSeq(deltas), FALSE).shown

\* A truncated text fits, begins like the whole and is made of characters; only
\* one that has a character of two bytes may panic.
TruncatedFits(text, max, end, marker) ==
    LET kept == TruncateAtBoundary(text, max)
        cut == MaybeTruncate(text, max, end, marker)
    IN /\ IsPrefix(kept, text) /\ Len(kept) <= max /\ Valid(kept)
       /\ IF cut = Panicked THEN ~Narrow(text) ELSE Len(cut) <= max /\ Valid(cut)

\* A mention that is formatted is found again, in whatever text it stands,
\* unless that text opens a mention it does not close (parse_mentions,
\* format_mention).
MentionsFound(before, id, after) ==
    /\ /\ ToSet(id) \subseteq Digits /\ id # <<>>
       /\ (\A i \in DOMAIN before : before[i] = "<@" =>
             \E j \in (i + 1)..Len(before) : before[j] = ">")
       => id \in ToSet(DiscordMentions(before \o FormatDiscordMention(id) \o after))
    /\ ToSet(id) \subseteq Letters \union Digits /\ id # <<>>
       => <<"@">> \o id \in ToSet(TelegramMentions(before \o <<" ">> \o
                                     FormatTelegramMention(id) \o <<" ">> \o after))
================================================================================

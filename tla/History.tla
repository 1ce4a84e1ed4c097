------------------------------- MODULE History -------------------------------
(* What the agent runtime does to a conversation that grows or is damaged: *)
(* pruning (pruning.rs), compaction (compaction.rs) and the repair of a    *)
(* transcript file (repair.rs).  A message is [role, text, size, calls,    *)
(* answers]: its text is an identity, size its length, calls the ids of    *)
(* the tools an assistant message calls and answers the id a tool message  *)
(* answers.  A file is a sequence of tokens: "[", "]", ",", the objects    *)
(* that are complete, "torn" for one that is not, "junk".                  *)
EXTENDS Options, Naturals, Sequences, SequencesExt, FiniteSetsExt, Calls

CONSTANTS PrunedMark, TruncatedMark,   \* lengths of "... [pruned]", "... [truncated]"
          Escaped,   \* the objects whose last string ends in a backslash
          ChatMessages, Histories,   \* the messages, and conversations of them
          CompactConfigs,   \* settings of compaction
          SummarySize       \* the length of a summary

\* Settings are lengths and counts.
ASSUME HistoryAssumption ==
    /\ Histories \subseteq Seq(ChatMessages)
    /\ \A c \in CompactConfigs : c.preserveRecent \in Nat /\ c.maxRetries \in Nat

LOCAL Total(f(_), s) == FoldLeft(LAMBDA a, m : a + f(m), 0, s)
Greatest(S) == CHOOSE i \in S : \A j \in S : j <= i
LOCAL Keep(s, Wanted(_)) ==    \* the elements at the wanted places
    LET marked == SelectSeq([i \in DOMAIN s |-> i], Wanted)
    IN [i \in DOMAIN marked |-> s[marked[i]]]

--------------------------------------------------------------------------------
(* Pruning, with c = [maxTool, maxMessage, dropRepeated, preserve] *)

Protected(messages, c) ==
    IF Len(messages) <= c.preserve THEN 0 ELSE Len(messages) - c.preserve

Repeats(messages, i) ==
    /\ i < Len(messages) /\ messages[i].role = "system" /\ messages[i + 1].role = "system"
    /\ messages[i].text = messages[i + 1].text /\ messages[i].size = messages[i + 1].size

NeedsPruning(messages, c) ==
    LET prunable == SubSeq(messages, 1, Protected(messages, c))
    IN \E i \in DOMAIN prunable :
          \/ prunable[i].role = "tool" /\ prunable[i].size > c.maxTool
          \/ prunable[i].size > c.maxMessage
          \/ c.dropRepeated /\ Repeats(prunable, i)

\* A long tool result is cut once the model has answered to it.
StripVerboseToolResults(messages, max) ==
    [i \in DOMAIN messages |->
        IF /\ messages[i].role = "tool" /\ messages[i].size > max
           /\ i < Len(messages) /\ messages[i + 1].role = "assistant"
        THEN [messages[i] EXCEPT !.size = max + PrunedMark] ELSE messages[i]]

RemoveRedundantSystem(messages) == Keep(messages, LAMBDA i : ~Repeats(messages, i))

TrimLongMessages(messages, max) ==
    [i \in DOMAIN messages |->
        IF messages[i].size > max THEN [messages[i] EXCEPT !.size = max + TruncatedMark]
        ELSE messages[i]]

Prune(messages, c) ==
    LET split == Protected(messages, c)
        stripped == StripVerboseToolResults(SubSeq(messages, 1, split), c.maxTool)
        single == IF c.dropRepeated THEN RemoveRedundantSystem(stripped) ELSE stripped
    IN TrimLongMessages(single, c.maxMessage) \o SubSeq(messages, split + 1, Len(messages))

HasPendingToolCall(messages) ==
    LET callers == {i \in DOMAIN messages :
                       messages[i].role = "assistant" /\ messages[i].calls # {}}
    IN callers # {} /\ \E call \in messages[Greatest(callers)].calls :
          \A j \in (Greatest(callers) + 1)..Len(messages) :
              messages[j].role = "tool" => messages[j].answers # call

--------------------------------------------------------------------------------
(* Compaction, with c = [maxMessages, preserveRecent, maxTokens, maxRetries] *)

EstimateTokens(messages) == Total(LAMBDA m : (m.size + 6 + 3) \div 4, messages)
Fits(messages, c) ==
    Len(messages) <= c.maxMessages /\ EstimateTokens(messages) <= c.maxTokens

SystemPrefix(messages) ==
    LET talk == {i \in DOMAIN messages : messages[i].role # "system"}
    IN IF talk = {} THEN Len(messages) ELSE Min(talk) - 1

\* How many messages come before the tail that is kept: all but the last
\* preserve ones, but never the last user message.
TailStartByCount(messages, preserve) ==
    Max({SystemPrefix(messages),
         IF Len(messages) <= preserve THEN 0 ELSE Len(messages) - preserve})
TailStart(messages, preserve) ==
    LET byCount == IF Len(messages) <= preserve THEN 0 ELSE Len(messages) - preserve
        users == {i \in DOMAIN messages : messages[i].role = "user"}
        start == IF users # {} /\ Greatest(users) <= byCount THEN Greatest(users) - 1 ELSE byCount
    IN Max({start, SystemPrefix(messages)})

\* The snippets of the removed messages stand in their place (their joined
\* size is left to the caller, as a bound on the summary).
BuildSummary(removed) == ToSet([i \in DOMAIN removed |-> removed[i].text])
SummaryMessage(removed, size) ==
    [role |-> "system", text |-> <<"summary", BuildSummary(removed)>>, size |-> size,
     calls |-> {}, answers |-> None]

TryCompact(messages, preserve, size) ==
    LET prefix == SystemPrefix(messages)
        start == TailStart(messages, preserve)
    IN IF Len(messages) - prefix <= preserve \/ start = prefix THEN None
       ELSE [removed |-> start - prefix,
             messages |-> SubSeq(messages, 1, prefix)
                            \o <<SummaryMessage(SubSeq(messages, prefix + 1, start), size)>>
                            \o SubSeq(messages, start + 1, Len(messages))]

\* What an attempt preserves: half of what the one before did, at least 1.
Preserved(c) ==
    LET preserve[n \in 0..c.maxRetries] ==
            IF n = 0 THEN c.preserveRecent
            ELSE IF preserve[n - 1] \div 2 > 1 THEN preserve[n - 1] \div 2 ELSE 1
    IN preserve

\* Attempt after attempt; the last one's result counts even when it is still too long.
Compact(messages, c, size) ==
    LET preserved == Preserved(c)
        attempt(n) == TryCompact(messages, preserved[n], size)
        over(n) == attempt(n) = None \/ ~Fits(attempt(n).messages, c)
        ends == {n \in 0..c.maxRetries :
                    ~over(n) \/ n = c.maxRetries \/ preserved[n] <= 1}
    IN IF messages = <<>> \/ Fits(messages, c) THEN [removed |-> 0, messages |-> messages]
       ELSE attempt(Min(ends))

--------------------------------------------------------------------------------
(* Repair *)

Objects(file) == SelectSeq(file, LAMBDA t : t \notin {"[", "]", ",", "torn", "junk"})
Dedup(objects) ==
    Keep(objects, LAMBDA i : \A j \in 1..(i - 1) : objects[j] # objects[i])
ArrayOf(objects) ==
    <<"[">> \o FlattenSeq([i \in DOMAIN objects |->
                              IF i = 1 THEN <<objects[i]>> ELSE <<",", objects[i]>>]) \o <<"]">>
ParsesAsArray(file) == file = ArrayOf(Objects(file))

\* The scan takes the quote after an escaped backslash for a part of the
\* string and misses every brace that follows.
FixTruncatedArray(file) ==
    LET misled == {i \in DOMAIN file : file[i] \in Escaped}
        ends == {i \in DOMAIN file : /\ file[i] \in ToSet(Objects(file))
                                     /\ \A m \in misled : i < m
                                     /\ \A t \in 1..i : file[t] # "torn"}
    IN IF ends = {} THEN <<"[", "]">> ELSE SubSeq(file, 1, Greatest(ends)) \o <<"]">>

TryRemoveLastEntry(file) ==
    LET commas == {i \in DOMAIN file : /\ file[i] = ","
                                       /\ \A t \in 1..i : file[t] \notin {"torn"} \union Escaped}
        fixed == SubSeq(file, 1, Greatest(commas) - 1) \o <<"]">>
    IN IF commas # {} /\ ParsesAsArray(fixed) THEN fixed ELSE <<"[", "]">>

RepairTranscript(file) ==
    LET opened == IF file # <<>> /\ file[1] = "[" THEN file ELSE <<"[">> \o file
        closed == IF opened[Len(opened)] = "]" THEN opened ELSE FixTruncatedArray(opened)
    IN IF file = <<>> \/ file[1] \in {"junk", ",", "]"} THEN <<"[", "]">>
       ELSE IF ParsesAsArray(file) THEN ArrayOf(Dedup(Objects(file)))
       ELSE IF ParsesAsArray(closed) THEN ArrayOf(Dedup(Objects(closed)))
       ELSE TryRemoveLastEntry(closed)

--------------------------------------------------------------------------------
(* Properties *)

LOCAL Bare(messages) == [i \in DOMAIN messages |-> <<messages[i].role, messages[i].text>>]

\* Pruning never touches the protected tail, drops nothing but repeated
\* system messages, leaves no tool call without its answer that had one,
\* and done again changes nothing more (prune).
PruneKeeps(messages, c) ==
    LET pruned == Prune(messages, c)
    IN /\ IsSuffix(SubSeq(messages, Protected(messages, c) + 1, Len(messages)), pruned)
       /\ ToSet(Bare(pruned)) = ToSet(Bare(messages))
       /\ SelectSeq(Bare(pruned), LAMBDA m : m[1] # "system")
            = SelectSeq(Bare(messages), LAMBDA m : m[1] # "system")
       /\ HasPendingToolCall(pruned) = HasPendingToolCall(messages)
       /\ Prune(pruned, c) = pruned

\* Compaction keeps the system prefix and, from the last user message on,
\* the whole conversation, whichever attempt its result comes from; the
\* last message stays too, and one summary stands for what was removed
\* (compact, try_compact).
CompactKeeps(messages, c, size) ==
    LET result == Compact(messages, c, size)
        users == {i \in DOMAIN messages : messages[i].role = "user"}
    IN result # None =>
         /\ IsPrefix(SubSeq(messages, 1, SystemPrefix(messages)), result.messages)
         /\ users # {} => IsSuffix(SubSeq(messages, Greatest(users), Len(messages)),
                                   result.messages)
         /\ c.preserveRecent > 0 /\ messages # <<>> =>
              IsSuffix(<<messages[Len(messages)]>>, result.messages)
         /\ Len(result.messages) = Len(messages) - result.removed
                                     + (IF result.removed = 0 THEN 0 ELSE 1)

\* A transcript whose write was cut short comes back as an array of its
\* complete objects, in order and without repetition (repair_transcript).
RepairKeeps(objects, cut, torn) ==
    LET whole == ArrayOf(objects)
        file == SubSeq(whole, 1, cut) \o (IF torn THEN <<"torn">> ELSE <<>>)
        repaired == RepairTranscript(file)
    IN /\ ParsesAsArray(repaired)
       /\ ToSet(objects) \cap Escaped = {} =>
            Objects(repaired) = Dedup(Objects(file))

--------------------------------------------------------------------------------
(* The calls of compaction *)

CompactionFirst == function = "compact" /\ one \in Histories
CompactionRest == function = "compact" /\ \E c \in CompactConfigs : others' = <<c>>

CompactionSpec ==
  /\ others = <<>> /\ CompactionFirst
  /\ [][others = <<>> /\ CompactionRest /\ UNCHANGED <<function, one>>]_callVars

\* However long a conversation is and however often it must be cut, its compaction
\* keeps the beginning and the recent part and says how much it removed (compact).
CompactionKept == Called("compact") => CompactKeeps(one, others[1], SummarySize)
================================================================================

------------------------------- MODULE PanelText -------------------------------
(* claw-gui: the log buffer of the panel (logging.rs) and the line diff that *)
(* the commit workflow shows before a configuration is written               *)
(* (widgets/diff_view.rs).  A text is the sequence of its lines.             *)
EXTENDS Naturals, Sequences, SequencesExt

--------------------------------------------------------------------------------
(* The log buffer *)

Push(entries, entry, capacity) ==
    Append(IF Len(entries) >= capacity /\ entries # <<>> THEN Tail(entries) ELSE entries, entry)

DrainReceiver(entries, received, capacity) ==
    FoldLeft(LAMBDA kept, entry : Push(kept, entry, capacity), entries, received)

\* An entry is [target, message], each the set of the needles it contains.
EntriesFiltered(entries, needle) ==
    SelectSeq(entries, LAMBDA e : needle \in e.target \cup e.message)

--------------------------------------------------------------------------------
(* compute_diff *)

\* The table of the lengths of the longest common subsequences of prefixes.
CommonLengths(old, new) ==
    LET dp[i \in 0..Len(old), j \in 0..Len(new)] ==
            IF i = 0 \/ j = 0 THEN 0
            ELSE IF old[i] = new[j] THEN dp[i - 1, j - 1] + 1
            ELSE IF dp[i - 1, j] >= dp[i, j - 1] THEN dp[i - 1, j] ELSE dp[i, j - 1]
    IN dp

DiffLine(kind, text) == [kind |-> kind, text |-> text]

ComputeDiffGreedy(old, new) ==
    LET back[i \in 0..Len(old), j \in 0..Len(new)] ==
            IF i > 0 /\ j > 0 /\ old[i] = new[j] THEN Append(back[i - 1, j - 1], DiffLine("context", old[i]))
            ELSE IF j > 0 THEN Append(back[i, j - 1], DiffLine("added", new[j]))
            ELSE IF i > 0 THEN Append(back[i - 1, j], DiffLine("removed", old[i]))
            ELSE <<>>
    IN back[Len(old), Len(new)]

\* The way back through the table from its end, read from the start.
ComputeDiff(old, new) ==
    LET dp == CommonLengths(old, new)
        back[i \in 0..Len(old), j \in 0..Len(new)] ==
            IF i > 0 /\ j > 0 /\ old[i] = new[j] THEN Append(back[i - 1, j - 1], DiffLine("context", old[i]))
            ELSE IF j > 0 /\ (i = 0 \/ dp[i, j - 1] >= dp[i - 1, j]) THEN Append(back[i, j - 1], DiffLine("added", new[j]))
            ELSE IF i > 0 THEN Append(back[i - 1, j], DiffLine("removed", old[i]))
            ELSE <<>>
    IN back[Len(old), Len(new)]

--------------------------------------------------------------------------------
(* Properties *)

TextsOf(diff, kinds) ==
    LET kept == SelectSeq(diff, LAMBDA line : line.kind \in kinds)
    IN [i \in DOMAIN kept |-> kept[i].text]

\* What the user confirms is the change: without the added lines the diff is
\* the old text, without the removed lines the new one, and no diff that holds
\* both keeps more lines unmarked.
DiffIsTheChange(old, new) ==
    LET diff   == ComputeDiff(old, new)
        common == {s \in UNION {[1..n -> ToSet(old)] : n \in 0..Len(old)} :
                     /\ \E at \in [1..Len(s) -> 1..Len(old)] :
                           /\ \A i \in 1..Len(s) : old[at[i]] = s[i]
                           /\ \A i \in 1..(Len(s) - 1) : at[i] < at[i + 1]
                     /\ \E at \in [1..Len(s) -> 1..Len(new)] :
                           /\ \A i \in 1..Len(s) : new[at[i]] = s[i]
                           /\ \A i \in 1..(Len(s) - 1) : at[i] < at[i + 1]}
    IN /\ TextsOf(diff, {"context", "removed"}) = old
       /\ TextsOf(diff, {"context", "added"}) = new
       /\ \A s \in common : Len(s) <= Len(TextsOf(diff, {"context"}))

\* The buffer holds the latest entries in the order they came, whatever the
\* frames in which they were drained.
LatestEntriesKept(first, second, capacity) ==
    LET kept == DrainReceiver(DrainReceiver(<<>>, first, capacity), second, capacity)
        all  == first \o second
    IN IF Len(all) <= capacity THEN kept = all
       ELSE kept = SubSeq(all, Len(all) - capacity + 1, Len(all))
================================================================================

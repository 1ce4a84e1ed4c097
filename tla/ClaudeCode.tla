----------------------------- MODULE ClaudeCode -----------------------------
(***************************************************************************)
(* The Claude Code path of the dispatch loop: one inbound message at a     *)
(* time, /reset and /status, or a prompt that runs the CLI as a process    *)
(* whose output lines a stream task parses and hands over; the session id  *)
(* the process reports is kept per conversation, to be resumed.  The       *)
(* process is external: it may print what it likes, and ends at some time. *)
(***************************************************************************)
EXTENDS Naturals, Sequences, SequencesExt

CONSTANTS
  Keys,       \* conversations
  Lines,      \* what the process may print: see Line
  MaxInbox,   \* bound: messages that arrive
  MaxLines    \* bound: lines a process prints

\* Lines of a process: the system message and the result carry its session id,
\* the result also a text; a text block; a text of more than 200 bytes whose
\* 200th falls inside a character; other blocks and messages; what is no JSON,
\* or over the parser's limit.
Line == {"system", "result", "text", "wide", "other", "junk"}
ASSUME ClaudeAssumption ==
  /\ Lines \subseteq Line /\ MaxInbox \in Nat /\ MaxLines \in Nat
  /\ "none" \notin Keys

NoSession == 0
NoRun == [key |-> "none", resumed |-> NoSession, session |-> NoSession, text |-> << >>]
NoProcess == [is |-> "none", session |-> NoSession, lines |-> 0]
NoReply == [text |-> << >>, said |-> << >>, cut |-> FALSE]

VARIABLES
  inboxed,   \* messages for the loop
  came,   \* bound: how many came
  mapping,   \* the store: conversation -> session and count, or none
  loopPc,    \* where the loop stands
  ccRun,     \* the run it is in
  process,   \* running, exited or none, and what it prints with
  pipe,      \* lines printed and not read
  stream,    \* the stream task: open, closed (by the end of the output or a
             \* cancellation), broken (by a read that failed) or none
  parsed,    \* messages it handed over
  stopping,  \* the cancellation token
  lastSession,\* session ids given by the CLI so far
  printed,   \* history: texts of this process
  stale,     \* history: sessions of each conversation before its last /reset
  replied    \* history: the last run's reply, and whether it was cut short

claudeVars == <<inboxed, came, mapping, loopPc, ccRun, process, pipe, stream, parsed,
                stopping, lastSession, printed, stale, replied>>

ClaudeInit ==
  /\ inboxed = << >> /\ came = 0
  /\ mapping = [k \in Keys |-> [there |-> FALSE, session |-> NoSession, count |-> 0]]
  /\ loopPc = "idle" /\ ccRun = NoRun
  /\ process = NoProcess /\ pipe = << >>
  /\ stream = "none" /\ parsed = << >> /\ stopping = FALSE
  /\ lastSession = 0 /\ printed = << >> /\ stale = [k \in Keys |-> {}]
  /\ replied = NoReply

streamVars == <<process, pipe, stream, parsed, lastSession, printed>>

Arrive(kind, k) ==
  /\ came < MaxInbox /\ came' = came + 1
  /\ inboxed' = Append(inboxed, [kind |-> kind, key |-> k])
  /\ UNCHANGED <<mapping, loopPc, ccRun, streamVars, stopping, stale, replied>>

StopLoop ==
  /\ ~stopping /\ stopping' = TRUE
  /\ UNCHANGED <<inboxed, came, mapping, loopPc, ccRun, streamVars, stale, replied>>

\* select!: the cancellation, or a message.
LoopExit ==
  /\ loopPc = "idle" /\ stopping /\ loopPc' = "exited"
  /\ UNCHANGED <<inboxed, came, mapping, ccRun, streamVars, stopping, stale, replied>>

Taken(kind) ==
  /\ loopPc = "idle" /\ inboxed # << >> /\ Head(inboxed).kind = kind
  /\ inboxed' = Tail(inboxed)

\* Mutant: /reset keeps the session id.
ResetKeepsId ==
  /\ Taken("/reset")
  /\ LET k == Head(inboxed).key IN
     /\ mapping' = [mapping EXCEPT ![k].count = 0]
     /\ stale' = [stale EXCEPT ![k] = 1..lastSession]
  /\ UNCHANGED <<came, loopPc, ccRun, streamVars, stopping, replied>>

\* The mapping is deleted, or the store fails and the reply says so.
HandleReset ==
  /\ Taken("/reset")
  /\ \/ LET k == Head(inboxed).key IN
        /\ mapping' = [mapping EXCEPT ![k] = [there |-> FALSE, session |-> NoSession, count |-> 0]]
        /\ stale' = [stale EXCEPT ![k] = 1..lastSession]
     \/ UNCHANGED <<mapping, stale>>
  /\ UNCHANGED <<came, loopPc, ccRun, streamVars, stopping, replied>>

HandleStatus ==
  /\ Taken("/status")
  /\ UNCHANGED <<came, mapping, loopPc, ccRun, streamVars, stopping, stale, replied>>

\* run_claude_code: the mapping is found or made, unless the store fails; then
\* the process starts, new or resumed, or cannot be started.
StartRun ==
  /\ Taken("prompt")
  /\ LET k == Head(inboxed).key IN
     /\ mapping' \in {mapping, [mapping EXCEPT ![k].there = TRUE]}
     /\ \/ /\ mapping'[k].there
           /\ loopPc' = "reading" /\ stream' = "open"
           /\ ccRun' = [NoRun EXCEPT !.key = k, !.resumed = mapping[k].session]
           /\ \E id \in {lastSession + 1} \cup ({mapping[k].session} \ {NoSession}) :
                /\ process' = [is |-> "running", session |-> id, lines |-> 0]
                /\ lastSession' = IF id > lastSession THEN id ELSE lastSession
           /\ pipe' = << >> /\ parsed' = << >> /\ printed' = << >>
        \/ UNCHANGED <<loopPc, ccRun, streamVars>>
  /\ replied' = NoReply
  /\ UNCHANGED <<came, stopping, stale>>

\* The result is its last line.
ProcessPrints(line) ==
  /\ process.is = "running" /\ process.lines < MaxLines
  /\ process' = [process EXCEPT !.lines = IF line = "result" THEN MaxLines ELSE @ + 1]
  /\ pipe' = IF stream = "open" THEN Append(pipe, line) ELSE pipe
  /\ printed' = IF line \in {"text", "wide"} THEN Append(printed, line) ELSE printed
  /\ UNCHANGED <<inboxed, came, mapping, loopPc, ccRun, stream, parsed, stopping,
                 lastSession, stale, replied>>

ProcessExits ==
  /\ process.is = "running" /\ process' = [process EXCEPT !.is = "exited"]
  /\ UNCHANGED <<inboxed, came, mapping, loopPc, ccRun, pipe, stream, parsed, stopping,
                 lastSession, printed, stale, replied>>

\* The stream task: select! between the token and a line, parsed by feed.  Junk
\* is skipped. At the end of the output, or on cancellation, it is gone; so it is
\* where reading fails, as it does for a line that is not UTF-8, though the
\* process goes on.
StreamReads ==
  /\ stream = "open" /\ pipe # << >>
  /\ pipe' = Tail(pipe)
  /\ parsed' = IF Head(pipe) = "junk" THEN parsed ELSE Append(parsed, Head(pipe))
  /\ UNCHANGED <<inboxed, came, mapping, loopPc, ccRun, process, stream, stopping,
                 lastSession, printed, stale, replied>>

\* Mutant: the end of the output goes unnoticed.
StreamEndsOnCancel ==
  /\ stream = "open" /\ stopping /\ stream' = "closed" /\ pipe' = << >>
  /\ UNCHANGED <<inboxed, came, mapping, loopPc, ccRun, process, parsed, stopping,
                 lastSession, printed, stale, replied>>

StreamEnds ==
  /\ stream = "open" /\ pipe' = << >>
  /\ \/ /\ stopping \/ (pipe = << >> /\ process.is = "exited")
        /\ stream' = "closed"
     \/ stream' = "broken"
  /\ UNCHANGED <<inboxed, came, mapping, loopPc, ccRun, process, parsed, stopping,
                 lastSession, printed, stale, replied>>

\* Mutant: the result's text is always appended.
RecvResultTwice ==
  /\ loopPc = "reading" /\ parsed # << >> /\ parsed' = Tail(parsed)
  /\ ccRun' = [ccRun EXCEPT
       !.session = IF Head(parsed) \in {"system", "result"} THEN process.session ELSE @,
       !.text = IF Head(parsed) \in {"text", "wide", "result"} THEN Append(@, Head(parsed)) ELSE @]
  /\ UNCHANGED <<inboxed, came, mapping, loopPc, process, pipe, stream, stopping,
                 lastSession, printed, stale, replied>>

\* The loop of run_claude_code over the messages handed over.
RecvMessage ==
  /\ loopPc = "reading" /\ parsed # << >> /\ parsed' = Tail(parsed)
  /\ ccRun' = [ccRun EXCEPT
       !.session = IF Head(parsed) \in {"system", "result"} THEN process.session ELSE @,
       !.text = IF Head(parsed) \in {"text", "wide"} \/ (Head(parsed) = "result" /\ @ = << >>)
                THEN Append(@, Head(parsed)) ELSE @]
  /\ UNCHANGED <<inboxed, came, mapping, loopPc, process, pipe, stream, stopping,
                 lastSession, printed, stale, replied>>

\* What the process printed may be lost.
Cut == stopping \/ stream = "broken"

\* No more messages, and the process has exited: nobody kills it. The answer
\* goes out once the mapping is updated, which may fail; slicing a preview out
\* of a text cuts a character in two, and the loop panics.
FinishRun ==
  /\ loopPc = "reading" /\ parsed = << >> /\ stream \in {"closed", "broken"} /\ process.is = "exited"
  /\ process' = NoProcess /\ stream' = "none" /\ printed' = << >>
  /\ IF ccRun.session # NoSession /\ ccRun.text # << >> /\ ccRun.text[1] = "wide"
     THEN loopPc' = "panicked" /\ UNCHANGED <<mapping, ccRun, replied>>
     ELSE /\ loopPc' = "idle" /\ ccRun' = NoRun
          /\ \/ /\ ccRun.session # NoSession
                /\ mapping' = [mapping EXCEPT ![ccRun.key].session = ccRun.session,
                                              ![ccRun.key].count = @ + 1]
             \/ UNCHANGED mapping
          /\ replied' = [text |-> ccRun.text, said |-> printed, cut |-> Cut]
  /\ UNCHANGED <<inboxed, came, pipe, parsed, stopping, lastSession, stale>>

RunStep == LoopExit \/ HandleReset \/ HandleStatus \/ StartRun \/ RecvMessage \/ FinishRun
StreamStep == StreamReads \/ StreamEnds
ClaudeNext ==
  \/ \E k \in Keys, kind \in {"prompt", "/reset", "/status"} : Arrive(kind, k)
  \/ StopLoop \/ RunStep \/ StreamStep \/ ProcessExits
  \/ \E l \in Lines : ProcessPrints(l)

\* The runtime runs its tasks; that the process ends is assumed of the CLI, for
\* no code here waits for it with a limit.
ClaudeFairness ==
  WF_claudeVars(RunStep) /\ WF_claudeVars(StreamStep) /\ WF_claudeVars(ProcessExits)
ClaudeSpec == ClaudeInit /\ [][ClaudeNext]_claudeVars /\ ClaudeFairness

-----------------------------------------------------------------------------

\* After a /reset that succeeded the conversation starts anew: no run resumes a
\* session it had before.
ResetHolds ==
  loopPc = "reading" => ccRun.resumed \notin stale[ccRun.key]

\* A reply is every text the process printed, once and in order (the result's
\* text only where there is no other), unless the run was cancelled or its output
\* could not be read to the end, and then it is a beginning of it.
ReplyIsOutput ==
  \/ replied.text = <<"result">> /\ (replied.cut \/ replied.said = << >>)
  \/ IsPrefix(replied.text, replied.said) /\ (replied.cut \/ replied.text = replied.said)

\* A /reset holds, and a reply is what the process printed.
ClaudeReplies == ResetHolds /\ ReplyIsOutput

\* Every run ends, also one that is cancelled; the loop takes the next message,
\* exits, or has panicked.
RunsEnd == loopPc = "reading" ~> loopPc # "reading"
=============================================================================

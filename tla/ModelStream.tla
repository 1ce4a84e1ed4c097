----------------------------- MODULE ModelStream -----------------------------
(* The Anthropic provider of claw-agent-models: the request made of a      *)
(* conversation and the reading of an answer (anthropic.rs), the parser of *)
(* the event stream (anthropic_sse.rs), and what the subscriber assembles  *)
(* from it (claw-agent-runtime subscriber.rs).  The bytes of the stream    *)
(* are tokens: <<"data">> opens a data line, <<e, 1>> and <<e, 2>> are the *)
(* halves of the JSON of event e, <<"end">> ends a line.  An event is      *)
(* [type, index, id, text], its text an element that is copied; in a text  *)
(* of Wide the halves meet inside a character of several bytes.            *)
EXTENDS Options, Naturals, Sequences, SequencesExt, FiniteSetsExt

LOCAL Flatten(s) == FoldLeft(LAMBDA a, b : a \o b, <<>>, s)

--------------------------------------------------------------------------------
(* Requests: a message is [role, content, calls, callId, images], images    *)
(* the readable image attachments; system messages are left out.            *)

ConvertRole(role) == IF role = "assistant" THEN "assistant" ELSE "user"
TextBlock(m) == IF m.content = "" THEN <<>> ELSE <<[type |-> "text", of |-> m.content]>>
Block(type, of) == [type |-> type, of |-> of]
BuildImageBlocks(m) == [i \in DOMAIN m.images |-> Block("image", m.images[i])]
ConvertMessage(m) ==
    [role |-> ConvertRole(m.role),
     blocks |->
        CASE m.role = "tool" /\ m.callId # None -> <<Block("tool_result", m.callId)>>
          [] m.role = "assistant" /\ m.calls # <<>> ->
               TextBlock(m) \o [i \in DOMAIN m.calls |-> Block("tool_use", m.calls[i])]
          [] m.role = "user" /\ m.images # <<>> -> BuildImageBlocks(m) \o TextBlock(m)
          [] OTHER -> <<Block("text", m.content)>>]

BuildRequestBody(request, defaultModel, defaultMax) ==
    LET said == SelectSeq(request.messages, LAMBDA m : m.role # "system")
    IN [model |-> IF request.model = "" THEN defaultModel ELSE request.model,
        max_tokens |-> IF request.max = None THEN defaultMax ELSE request.max,
        messages |-> [i \in DOMAIN said |-> ConvertMessage(said[i])],
        system |-> request.system]

--------------------------------------------------------------------------------
(* Answers *)

FinishReason(stop) ==
    CASE stop = "tool_use" -> "tool_use" [] stop = "max_tokens" -> "max_tokens"
      [] OTHER -> "stop"

ConvertResponse(blocks, stop) ==
    LET texts == SelectSeq(blocks, LAMBDA b : b.type = "text")
    IN [content |-> [i \in DOMAIN texts |-> texts[i].of],
        calls |-> SelectSeq(blocks, LAMBDA b : b.type = "tool_use"),
        finish |-> FinishReason(stop)]

\* mentions: the body of the answer has the word "context" or "token".
ClassifyError(status, mentions) ==
    CASE status = 401 -> "auth" [] status = 429 -> "rate limited"
      [] status = 400 /\ mentions -> "context length" [] OTHER -> "provider"
MapTransportError(timedOut) == IF timedOut THEN "timeout" ELSE "provider"

\* One call: its headers, the transport, the status and the body may fail.
CompleteChat(key, transport, status, mentions, body) ==
    IF key = "unprintable" THEN "auth"
    ELSE IF transport # "answered" THEN MapTransportError(transport = "timeout")
    ELSE IF status \notin 200..299 THEN ClassifyError(status, mentions)
    ELSE IF body = "unreadable" THEN "provider" ELSE "answer"

--------------------------------------------------------------------------------
(* The event stream *)

ParseContentBlockStart(e, ids) ==
    IF e.id = None THEN [chunk |-> None, ids |-> ids]
    ELSE [chunk |-> [type |-> "call", id |-> e.id, text |-> None],
          ids |-> [i \in DOMAIN ids \union {e.index} |-> IF i = e.index THEN e.id ELSE ids[i]]]

ParseContentBlockDelta(e, ids) ==
    IF e.type = "text" THEN [type |-> "text", id |-> None, text |-> e.text]
    ELSE [type |-> "arguments", text |-> e.text,
          id |-> IF e.index \in DOMAIN ids THEN ids[e.index] ELSE ""]

ParseSseData(e, ids) ==
    CASE e.type = "start" -> ParseContentBlockStart(e, ids)
      [] e.type \in {"text", "json"} ->
           [chunk |-> ParseContentBlockDelta(e, ids), ids |-> ids]
      [] e.type = "message_delta" ->
           [chunk |-> [type |-> "done", id |-> None, text |-> None], ids |-> ids]
      [] e.type = "error" ->
           [chunk |-> [type |-> "error", id |-> None, text |-> None], ids |-> ids]
      [] OTHER -> [chunk |-> None, ids |-> ids]

\* Each piece of the network is made a text by itself: what it has of a
\* character that is cut is replaced, the end here, the beginning there.
Wide == {"w"}
Replaced == "replaced"
FromUtf8Lossy(piece, events) ==
    [i \in DOMAIN piece |->
        LET token == piece[i] IN
        IF Len(token) = 2 /\ events[token[1]].text \in Wide
              /\ <<token[1], 3 - token[2]>> \notin ToSet(piece)
        THEN <<token[1], 0>> ELSE token]

\* A line that is not a whole event is skipped.
EventOf(line, events) ==
    LET event == events[line[2][1]] IN
    IF 0 \in {line[2][2], line[3][2]} THEN [event EXCEPT !.text = Replaced] ELSE event
ParseLine(s, line, events) ==
    IF Len(line) # 3 \/ line[1] # <<"data">> \/ line[2][1] # line[3][1] THEN s
    ELSE LET parsed == ParseSseData(EventOf(line, events), s.ids)
         IN [s EXCEPT !.ids = parsed.ids,
                      !.out = IF parsed.chunk = None THEN @ ELSE Append(@, parsed.chunk)]

LOCAL Ends(buffer) == {i \in DOMAIN buffer : buffer[i] = <<"end">>}
\* The lines that are complete, and the rest that waits for more bytes.
Lines(buffer) ==
    LET ends == SelectSeq([i \in DOMAIN buffer |-> i], LAMBDA i : i \in Ends(buffer))
    IN [i \in DOMAIN ends |->
           SubSeq(buffer, (IF i = 1 THEN 0 ELSE ends[i - 1]) + 1, ends[i] - 1)]
Rest(buffer) ==
    IF Ends(buffer) = {} THEN buffer ELSE SubSeq(buffer, Max(Ends(buffer)) + 1, Len(buffer))

ParseSseBufferDroppingRest(s, bytes, events) ==
    LET read == FoldLeft(LAMBDA a, line : ParseLine(a, line, events), s, Lines(bytes))
    IN [read EXCEPT !.buffer = <<>>]
ParseSseBuffer(s, bytes, events) ==
    LET buffer == s.buffer \o bytes
        read == FoldLeft(LAMBDA a, line : ParseLine(a, line, events), s, Lines(buffer))
    IN [read EXCEPT !.buffer = Rest(buffer)]

\* The chunks of the model's stream, from the pieces the network delivers.
ParseSseStream(pieces, events) ==
    FoldLeft(LAMBDA s, piece : ParseSseBuffer(s, FromUtf8Lossy(piece, events), events),
             [buffer |-> <<>>, ids |-> <<>>, out |-> <<>>], pieces).out

--------------------------------------------------------------------------------
(* subscribe: the text, the calls and how the stream ended *)

Assemble(r, chunk) ==
    IF r.failed THEN r ELSE
    CASE chunk.type = "text" -> [r EXCEPT !.text = Append(@, chunk.text)]
      [] chunk.type = "call" ->
           [r EXCEPT !.calls = Append(@, [id |-> chunk.id, arguments |-> <<>>])]
      [] chunk.type = "arguments" /\ r.calls # <<>> ->
           [r EXCEPT !.calls[Len(r.calls)].arguments = Append(@, chunk.text)]
      [] chunk.type = "done" -> [r EXCEPT !.done = TRUE]
      [] chunk.type = "error" -> [r EXCEPT !.failed = TRUE]
      [] OTHER -> r
Collect(chunks) ==
    FoldLeft(Assemble, [text |-> <<>>, calls |-> <<>>, done |-> FALSE, failed |-> FALSE],
             chunks)

--------------------------------------------------------------------------------
(* Properties *)

\* The events in which the API tells an answer of these blocks, a block of
\* text or of a call being [id, deltas] (external).
Told(blocks) ==
    LET event(type, i, id, text) == [type |-> type, index |-> i - 1, id |-> id, text |-> text]
        block(i) ==
            <<event("start", i, blocks[i].id, None)>>
              \o [k \in DOMAIN blocks[i].deltas |->
                     event(IF blocks[i].id = None THEN "text" ELSE "json", i, None,
                           blocks[i].deltas[k])]
              \o <<event("content_block_stop", i, None, None)>>
    IN Flatten([i \in DOMAIN blocks |-> block(i)])
         \o <<event("message_delta", 0, None, None)>>

Wire(events) ==
    Flatten([e \in DOMAIN events |-> <<<<"data">>, <<e, 1>>, <<e, 2>>, <<"end">>>>])

\* However the network cuts the stream, the subscriber gets the text, the
\* calls and, call by call, the arguments the model sent, and it is done
\* only then; of a stream that breaks off it gets a beginning of them.  What
\* the cut falls into arrives replaced, if it is a character of several bytes,
\* and nothing else does.
AnswerAssembled(blocks, cut, broken) ==
    LET events == Told(blocks)
        wire == Wire(events)
        pieces == <<SubSeq(wire, 1, cut)>>
                    \o (IF broken THEN <<>> ELSE <<SubSeq(wire, cut + 1, Len(wire))>>)
        got == Collect(ParseSseStream(pieces, events))
        inside == cut \in DOMAIN wire /\ Len(wire[cut]) = 2 /\ wire[cut][2] = 1
        torn == IF inside THEN {wire[cut][1]} ELSE {}
        arrives == [e \in DOMAIN events |->
                       IF e \in torn /\ events[e].text \in Wide THEN Replaced ELSE events[e].text]
        textsOf(type, index) ==
            LET of == SelectSeq([e \in DOMAIN events |-> e],
                                LAMBDA e : events[e].type = type /\ events[e].index \in index)
            IN [i \in DOMAIN of |-> arrives[of[i]]]
        said == textsOf("text", 0..Len(blocks))
        calls == SelectSeq([i \in DOMAIN blocks |-> i], LAMBDA i : blocks[i].id # None)
        arguments(i) == textsOf("json", {calls[i] - 1})
    IN /\ IsPrefix(got.text, said) /\ Len(got.calls) <= Len(calls)
       /\ \A i \in DOMAIN got.calls : /\ got.calls[i].id = blocks[calls[i]].id
                                      /\ IsPrefix(got.calls[i].arguments, arguments(i))
       /\ got.done = (~broken \/ cut = Len(wire))
       /\ got.done => /\ got.text = said /\ Len(got.calls) = Len(calls)
                      /\ \A i \in DOMAIN calls : got.calls[i].arguments = arguments(i)

\* Every call of an assistant message and every result that names its call
\* are in the request, in their order and under the role the API expects.
RequestKeepsTools(request, defaultModel, defaultMax) ==
    LET body == BuildRequestBody(request, defaultModel, defaultMax)
        blocks == Flatten([i \in DOMAIN body.messages |-> body.messages[i].blocks])
        of(type) == LET b == SelectSeq(blocks, LAMBDA x : x.type = type)
                    IN [i \in DOMAIN b |-> b[i].of]
        asked == SelectSeq(request.messages, LAMBDA m : m.role = "assistant")
        told == SelectSeq(request.messages, LAMBDA m : m.role = "tool" /\ m.callId # None)
    IN /\ of("tool_use") = Flatten([i \in DOMAIN asked |-> asked[i].calls])
       /\ of("tool_result") = [i \in DOMAIN told |-> told[i].callId]
       /\ \A i \in DOMAIN body.messages : \A k \in DOMAIN body.messages[i].blocks :
             body.messages[i].blocks[k].type = "tool_result" => body.messages[i].role = "user"
================================================================================

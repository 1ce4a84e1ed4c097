------------------------------ MODULE MCFunctions ------------------------------
(***************************************************************************)
(* The parts of the system that compute a result and keep no state, on     *)
(* small inputs: a behaviour chooses a function and its first argument,    *)
(* then the other arguments, and the invariants judge the result.          *)
(***************************************************************************)
EXTENDS Conversations, History, Validation, Integers, FiniteSets, SequencesExt, TLC

Files(dir, name) == <<dir, name>>
Dir(path) == path[1]

Text == INSTANCE TextSplit WITH Digits <- {"1"}, Letters <- {"a"}
Stream == INSTANCE ModelStream
Config == INSTANCE Configuration WITH Join <- Files, Parent <- Dir
Panel == INSTANCE PanelText

Seqs(S, n) == UNION {[1..k -> S] : k \in 0..n}

----------------------------------------------------------------------------
(* The inputs *)

\* Conversations: results of tools and messages that are short and long.
Said(role, text, size, calls, answers) ==
  [role |-> role, text |-> text, size |-> size, calls |-> calls, answers |-> answers]
SomeMessages ==
  {Said("system", "s", 1, {}, None), Said("user", "u", 6, {}, None),
   Said("assistant", "a", 2, {}, None), Said("assistant", "c", 2, {"t"}, None),
   Said("tool", "r", 9, {}, "t")}
SomeHistories == Seqs(SomeMessages, 4)
PruneConfigs == [maxTool : {3}, maxMessage : {4}, dropRepeated : {TRUE}, preserve : 0..3]
SomeCompactConfigs == [maxMessages : {2}, preserveRecent : 0..3, maxTokens : {5, 100}, maxRetries : {2}]

\* Bytes: "w" and "+" are a character of two, "~" three times is a fence.
Texts(bytes, n) == {t \in Seqs(bytes, n) : Text!Valid(t)}

\* Answers of text and calls, cut anywhere.
Blocks == [id : {None, "c1", "c2"}, deltas : Seqs({"x", "w"}, 2)]
WireLength(blocks) == Len(Stream!Wire(Stream!Told(blocks)))
Asked == [role : {"user"}, content : {"hi"}, calls : {<<>>}, callId : {None}, images : {<<>>, <<"i">>}]
  \cup [role : {"system"}, content : {"s"}, calls : {<<>>}, callId : {None}, images : {<<>>}]
  \cup [role : {"assistant"}, content : {"", "a"}, calls : Seqs({"c1", "c2"}, 2), callId : {None},
        images : {<<>>}]
  \cup [role : {"tool"}, content : {"r"}, calls : {<<>>}, callId : {None, "c1"}, images : {<<>>}]

\* Senders of a direct or a group chat on two channels and accounts, with and
\* without an identity that links two of them.
SomeLowered == ("A" :> "a") @@ ("T" :> "t")
SomeCleaned == ("A" :> "a") @@ ("@" :> "")
SendersOf(scopes, peers, parents, guilds, roles, keys) ==
  [channel : {"t", "d"}, account : {"default", "w"}, kind : {"direct", "group"}, peer : peers,
   scope : scopes, links : {<<>>, [ann |-> {<<"a">>, <<"t", "b">>}]}, guild : guilds, team : {None},
   parent : parents, roles : roles, mainKey : keys]
SomeSenders == SendersOf(Scopes, {<<"A">>, <<"b">>}, {None}, {None}, {{}}, {None})
SomeRouted ==
  {s \in SendersOf({"main", "per-peer"}, {<<"A">>, <<>>}, {None, <<"a">>}, {None, "g"}, {{}, {"r"}},
                 {None, "T"}) : s.links = <<>>}
Matches ==
  [channel : {None, "T"}, account : {None, "w"}, guild : {None, "g"}, team : {None},
   roles : {None, {"r"}}, peer : {None} \cup [id : {<<"a">>}, kind : {None, "group"}]]
ChannelMatch ==
  [channel |-> "t", account |-> None, peer |-> None, guild |-> None, team |-> None, roles |-> None]
SomeBindings == {<<[agent |-> "A", match |-> m], [agent |-> "b", match |-> ChannelMatch]>> : m \in Matches}
SomeAgents ==
  {<<>>, <<[id |-> "A", default |-> FALSE], [id |-> "@", default |-> TRUE]>>}

\* Events of the three platforms.
TelegramEvents ==
  [platform : {"telegram"}, kind : {"message"}, service : BOOLEAN, from : {None, "u1"},
   chat : {"u1", "g1"}, chatKind : {"private", "group", "channel"}, id : {"m1"},
   media : [kind : {"text", "photo", "document", "sticker", "poll"}, text : {<<"a">>}, file : {None, "f"},
            name : {"n"}, mime : {"x"}],
   reply : {None} \cup [id : {"m0"}, kind : {"text", "service"}, text : {<<"a">>}, sender : {"u2"}],
   forward : {None} \cup [kind : {"user", "channel"}, name : {None, "n"}, id : {"u3"},
                          username : {"un"}, message : {"m3"}, date : {"d"}],
   thread : {None}, topic : {FALSE}]
DiscordEvents ==
  [platform : {"discord"}, kind : {"MESSAGE_CREATE", "READY"}, bot : BOOLEAN, from : {None, "u1"},
   chat : {None, "g1"}, id : {"m1"}, text : {None, <<"a">>}, guild : {None, "g"}, thread : {None, "t"},
   threadType : BOOLEAN, reply : {None} \cup [id : {"m0"}, text : {<<"a">>}], urls : {<<>>, <<"x", "y">>}]
WhatsAppEvents ==
  [platform : {"whatsapp"}, chat : {None} \cup [jid : {"u1"}, group : BOOLEAN], fromMe : BOOLEAN,
   participant : {None, "u2"}, id : {None, "m1"}, conversation : {None, <<"a">>}, extended : {None, <<"b">>},
   caption : {None}, media : {None, "image"}, reply : {None} \cup [id : {"m0"}, text : {<<"a">>}]]
SomeEvents == TelegramEvents \cup DiscordEvents \cup WhatsAppEvents

\* Three files of a configuration that include each other, or not.
Included == {None, "a", "b"}
Leaves == {Config!Scalar("s"), Config!Variable("X", TRUE), Config!Variable("X", FALSE)}
\* X is not set, a word, or the text of an object that includes a file.
Environments ==
  {None, Config!Holds(Config!Scalar("v"), None), Config!Holds(None, Config!Object("a", Config!EmptyMap))}
Bare == {Config!Object(i, Config!EmptyMap) : i \in Included}
Values == Bare \cup {Config!Object(i, "x" :> v) : i \in Included, v \in Leaves \cup Bare}
               \cup {Config!Array(<<v>>) : v \in Bare}
Roots == Values \cup {Config!Object(i, ("x" :> v) @@ ("y" :> w)) : i \in Included,
                        v \in Bare \cup {Config!Scalar("s")},
                        w \in {Config!Object("b", Config!EmptyMap),
                               Config!Object("not_a_text", Config!EmptyMap), Config!Scalar("t")}}
FilesOf(root, a, b) ==
  [p \in {<<"d", "root">>, <<"d", "a">>, <<"d", "b">>} |->
     CASE p[2] = "root" -> root [] p[2] = "a" -> a [] OTHER -> b]
SomeGateways ==
  [port : {None, 0, 1}, bind : {None, "auto", "custom"}, flat : {None, TRUE}, nested : {None, FALSE},
   auth : {None} \cup [mode : {None, "token", "password", "x"}, token : {None, "", "t"},
                       password : {None, "", "p"}]]
SomeOldKeys == UNION {[names -> {None, "v"}] : names \in SUBSET {"server", "bot", "z"}}
SomeSections == [gateway : {None, "g"}, agents : {None, "a"}]

----------------------------------------------------------------------------
(* The calls *)

Init ==
  /\ others = <<>>
  /\ \/ ConversationFirst \/ CompactionFirst \/ ValidationFirst
     \/ function = "prune" /\ one \in Histories
     \/ function = "repair" /\ one \in Seqs({"o1", "o2", "e1"}, 3)
     \/ function = "chunk_text" /\ one \in Texts({"a", "w", "+", " ", "\n", "."}, 5)
     \/ function = "subscribe" /\ one \in Texts({"a", "w", "+", "<", ">", "~", "\n"}, 3)
     \/ function = "truncate" /\ one \in Texts({"a", "w", "+"}, 6)
     \/ function = "parse_sse" /\ one \in Seqs(Blocks, 2) \ {<<>>}
     \/ function = "request" /\ one \in Seqs(Asked, 2)
     \/ function = "mentions" /\ one \in Seqs({"<@", ">", "@", " ", "1", "a"}, 3)
     \/ function = "load" /\ one \in Roots
     \/ function = "diff" /\ one \in Seqs({"x", "y"}, 3)
     \/ function = "log" /\ one \in Seqs(1..2, 3)

Rest ==
  \/ ConversationRest \/ CompactionRest \/ ValidationRest
  \/ function = "prune" /\ \E c \in PruneConfigs : others' = <<c>>
  \/ function = "repair" /\ \E cut \in 0..Len(ArrayOf(one)), torn \in BOOLEAN : others' = <<cut, torn>>
  \/ function = "chunk_text" /\ \E limit \in 2..4 : others' = <<limit>>
  \/ function = "subscribe" /\ \E next \in Texts({"a", "w", "+", "<", ">", "~", "\n"}, 3), max \in 2..4 :
        others' = <<next, max>>
  \/ function = "truncate" /\ \E max \in 2..4, end \in 0..2 : others' = <<max, end>>
  \/ function = "parse_sse" /\ \E cut \in 0..WireLength(one), broken \in BOOLEAN :
        others' = <<cut, broken>>
  \/ function = "request" /\ \E last \in Asked, model \in {"", "m"} : others' = <<last, model>>
  \/ function = "mentions" /\ \E id \in Seqs({"1", "a", "@"}, 2) \ {<<>>}, after \in Seqs({">", "1"}, 1) :
        others' = <<id, after>>
  \/ function = "load" /\ \E a \in {None} \cup Values, b \in Values, x \in Environments :
        others' = <<a, b, x>>
  \/ function = "diff" /\ \E new \in Seqs({"x", "y", "z"}, 3) : others' = <<new>>
  \/ function = "log" /\ \E more \in Seqs(1..2, 2), capacity \in 1..3 : others' = <<more, capacity>>

Next == others = <<>> /\ Rest /\ UNCHANGED <<function, one>>

Spec == Init /\ [][Next]_callVars

----------------------------------------------------------------------------
(* The functions' properties: the modules say what each of them means.     *)
(* CompactionKept, MessagesRouted and ConfigurationHolds are among them.   *)

\* A history that is pruned keeps its recent part and its calls, and a damaged
\* transcript comes back as its complete objects; a text that is split or streamed in
\* pieces is all there, in pieces that fit; a mention in it is found again; of a text
\* that is shown the diff is the change, and the log's the latest entries.
ContentKept ==
  /\ Called("prune") => PruneKeeps(one, others[1])
  /\ Called("repair") => RepairKeeps(one, others[1], others[2])
  /\ Called("chunk_text") => Text!ReplyKept(one, others[1])
  /\ Called("subscribe") => Text!StreamKept(<<one, others[1]>>, others[2])
  /\ Called("truncate") => Text!TruncatedFits(one, others[1], others[2], <<".">>)
  /\ Called("mentions") => Text!MentionsFound(one, others[1], others[2])
  /\ Called("diff") => Panel!DiffIsTheChange(one, others[1])
  /\ Called("log") => Panel!LatestEntriesKept(one, others[1], others[2])

\* What comes in pieces is put together: a model's answer as it was sent, however the
\* network cuts it, but for a character that a cut falls into; a request with every
\* call and every result; and a configuration of files that include each other, or
\* the error that they justify.
InputAssembled ==
  /\ Called("parse_sse") => Stream!AnswerAssembled(one, others[1], others[2])
  /\ Called("request") =>
       Stream!RequestKeepsTools(
         [messages |-> Append(one, others[1]), model |-> others[2], max |-> None, system |-> None],
         "default", 1)
  /\ Called("load") =>
       Config!IncludesResolve(FilesOf(one, others[1], others[2]), [X |-> others[3]], <<"d", "root">>)
============================================================================

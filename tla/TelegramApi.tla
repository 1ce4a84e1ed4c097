------------------------------ MODULE TelegramApi ------------------------------
(* What the Telegram channel asks of the Bot API: sending (outbound.rs), the *)
(* adapters (adapters.rs) and the download of the files of a message         *)
(* (file_resolver.rs).  The chat and its messages are outside the process; a *)
(* call may fail although it took effect.  Ids that are no numbers are the   *)
(* value "bad".                                                              *)
EXTENDS Options, Naturals, Sequences, SequencesExt

CONSTANTS Accounts,      \* the accounts calls are made for
          PostTexts,     \* the texts that are sent
          Emoji,         \* the reactions
          FileMessages,  \* the messages with a file, [account, chat, kind, name, id, ext],
                         \* a name being a sequence of its parts
          MaxPosts,      \* bound: the messages posted
          MaxFiles       \* bound: the messages whose file is resolved

ASSUME TelegramAssumption ==
    /\ \A f \in FileMessages : f.account \in Accounts
    /\ None \notin [file : FileMessages, at : {"get_file", "download"}]

VARIABLES
    bots,      \* BotStore: the accounts that have a bot
    posts,     \* the messages of the chat, [text, reactions, gone] (external)
    editing,   \* the message that is streamed, or None
    told,      \* [op, result] of the last call
    resolver,  \* [account -> what its polling task is resolving], a file or None
    disk,      \* [path -> the file whose bytes it holds, if it is whole]
    handed     \* the files handed on with a media_path, oldest first

telegramVars == <<bots, posts, editing, told, resolver, disk, handed>>
apiVars == <<bots, posts, editing, told>>
fileVars == <<resolver, disk, handed>>

TelegramInit ==
    /\ bots = {} /\ posts = <<>> /\ editing = None /\ told = [op |-> None, result |-> "ok"]
    /\ resolver = [a \in Accounts |-> None] /\ disk = <<>> /\ handed = <<>>

\* build_bot adds the bot of an account that starts.  Nothing in the workspace
\* calls the adapter's stop_account, which removes it.
AddBot(a) == bots' = bots \union {a} /\ UNCHANGED <<posts, editing, told, fileVars>>
RemoveBot(a) == bots' = bots \ {a} /\ UNCHANGED <<posts, editing, told, fileVars>>

--------------------------------------------------------------------------------
(* Calls *)

\* get_bot, then the numbers, refuse a call before it is made.
Refusal(account, ids) ==
    IF account \notin bots THEN "account not found" ELSE IF "bad" \in ids THEN "invalid id" ELSE None

Tell(op, result) == told' = [op |-> op, result |-> result]

\* A call whose effect on the chat is given; the answer may be lost.
Ask(op, account, ids, after) ==
    \/ Refusal(account, ids) # None /\ Tell(op, Refusal(account, ids)) /\ UNCHANGED posts
    \/ Refusal(account, ids) = None /\ posts' = after /\ Tell(op, "ok")
    \/ Refusal(account, ids) = None /\ posts' \in {posts, after} /\ Tell(op, "failed")

Post(text) == Append(posts, [text |-> text, reactions |-> {}, gone |-> FALSE])
Room == Len(posts) < MaxPosts

\* A reply-to id that is no number is left out of the request.
SendText(account, chat, text) ==
    Room /\ Ask("send", account, {chat}, Post(text)) /\ UNCHANGED <<bots, editing, fileVars>>
\* A local file that is not there is refused, as is a poll of one option.
SendMedia(account, chat, text, there) ==
    /\ Room
    /\ IF Refusal(account, {chat}) = None /\ ~there
       THEN Tell("send", "file not found") /\ UNCHANGED posts
       ELSE Ask("send", account, {chat}, Post(text))
    /\ UNCHANGED <<bots, editing, fileVars>>
SendPoll(account, chat, text, options) ==
    /\ Room
    /\ IF Refusal(account, {chat}) = None /\ options < 2
       THEN Tell("send", "too few options") /\ UNCHANGED posts
       ELSE Ask("send", account, {chat}, Post(text))
    /\ UNCHANGED <<bots, editing, fileVars>>

\* The API refuses to edit a message that is gone, or to the text it has.
EditPost(op, account, ids, i, text) ==
    IF Refusal(account, ids) = None /\ (posts[i].gone \/ posts[i].text = text)
    THEN /\ UNCHANGED posts
         /\ Tell(op, IF posts[i].gone THEN "failed" ELSE "not modified")
    ELSE Ask(op, account, ids, [posts EXCEPT ![i].text = text])
EditMessage(account, chat, i, text) ==
    EditPost("edit", account, {chat}, i, text) /\ UNCHANGED <<bots, editing, fileVars>>

DeleteMessage(account, chat, i) ==
    /\ Ask("delete", account, {chat}, [posts EXCEPT ![i].gone = TRUE])
    /\ UNCHANGED <<bots, editing, fileVars>>
\* A bot has one reaction to a message; removing one removes them all.
AddReaction(account, chat, i, emoji) ==
    /\ Ask("react", account, {chat}, [posts EXCEPT ![i].reactions = {emoji}])
    /\ UNCHANGED <<bots, editing, fileVars>>
RemoveReaction(account, chat, i) ==
    /\ Ask("react", account, {chat}, [posts EXCEPT ![i].reactions = {}])
    /\ UNCHANGED <<bots, editing, fileVars>>

\* Commands, the keyboard's callback, chat members and titles, typing, users
\* and forum topics: calls that leave the messages alone.
Query(account, id) ==
    Ask("query", account, {id}, posts) /\ UNCHANGED <<bots, editing, fileVars>>

\* Streaming: a message that is posted and then edited in place.
StreamStart(account, chat, text) ==
    /\ editing = None /\ Room
    /\ Ask("start", account, {chat}, Post(text))
    /\ editing' = IF told'.result = "ok" THEN Len(posts) + 1 ELSE None
    /\ UNCHANGED <<bots, fileVars>>
StreamUpdate(account, chat, text) ==
    /\ editing # None /\ EditPost("stream", account, {chat}, editing, text)
    /\ UNCHANGED <<bots, editing, fileVars>>
StreamEnd(account, chat, text) ==
    /\ editing # None /\ EditPost("stream", account, {chat}, editing, text)
    /\ editing' = None /\ UNCHANGED <<bots, fileVars>>

--------------------------------------------------------------------------------
(* resolve_and_download *)

DefaultExtension(kind) ==
    CASE kind = "photo" -> "jpg" [] kind = "audio" -> "mp3" [] kind = "voice" -> "ogg"
      [] kind \in {"video", "animation"} -> "mp4" [] kind = "sticker" -> "webp"
      [] OTHER -> "bin"

\* The name Telegram told, or one made of the kind and the end of the file id;
\* a voice message is an ogg file whatever its path says.
FileName(f) ==
    IF f.name # None THEN f.name
    ELSE <<f.kind, f.id, IF f.ext = None \/ f.kind = "voice" THEN DefaultExtension(f.kind)
                         ELSE f.ext>>
FilePathFlat(f) == <<f.account, FileName(f)>>
FilePath(f) == <<f.account, f.chat, FileName(f)>>

\* An update is delivered once while the process runs.
ResolveFile(f) ==
    /\ resolver[f.account] = None /\ Len(handed) < MaxFiles /\ f \notin ToSet(handed)
    /\ resolver' = [resolver EXCEPT ![f.account] = [file |-> f, at |-> "get_file"]]
    /\ UNCHANGED <<apiVars, disk, handed>>

\* The API tells where the file is; creating the file empties what is there.
CreateFile(a) ==
    /\ resolver[a] # None /\ resolver[a].at = "get_file"
    /\ resolver' = [resolver EXCEPT ![a].at = "download"]
    /\ LET path == FilePath(resolver[a].file)
       IN disk' = [p \in DOMAIN disk \union {path} |-> IF p = path THEN {} ELSE disk[p]]
    /\ UNCHANGED <<apiVars, handed>>

Downloaded(a) ==
    /\ resolver[a] # None /\ resolver[a].at = "download"
    /\ LET f == resolver[a].file
       IN disk' = [disk EXCEPT ![FilePath(f)] = {f}] /\ handed' = Append(handed, f)
    /\ resolver' = [resolver EXCEPT ![a] = None] /\ UNCHANGED apiVars

\* Any step may fail: the message goes on without a path.
ResolveFails(a) ==
    /\ resolver[a] # None /\ resolver' = [resolver EXCEPT ![a] = None]
    /\ UNCHANGED <<apiVars, disk, handed>>

CallNext ==
    \/ \E a \in Accounts : AddBot(a) \/ RemoveBot(a)
    \/ \E a \in Accounts, chat \in {"chat", "bad"} :
           \/ \E t \in PostTexts :
                 \/ SendText(a, chat, t) \/ StreamStart(a, chat, t)
                 \/ StreamUpdate(a, chat, t) \/ StreamEnd(a, chat, t)
                 \/ \E there \in BOOLEAN : SendMedia(a, chat, t, there)
                 \/ \E options \in 1..2 : SendPoll(a, chat, t, options)
                 \/ \E i \in DOMAIN posts : EditMessage(a, chat, i, t)
           \/ \E i \in DOMAIN posts :
                 \/ DeleteMessage(a, chat, i) \/ RemoveReaction(a, chat, i)
                 \/ \E e \in Emoji : AddReaction(a, chat, i, e)
           \/ Query(a, chat)
FileNext ==
    \/ \E f \in FileMessages : ResolveFile(f)
    \/ \E a \in Accounts : CreateFile(a) \/ Downloaded(a) \/ ResolveFails(a)
TelegramNext == CallNext \/ FileNext
TelegramSpec == TelegramInit /\ [][TelegramNext]_telegramVars

--------------------------------------------------------------------------------
(* Properties *)

\* The file a message was handed on with holds that message's bytes, whatever
\* other chats and accounts download meanwhile, unless another message of its
\* chat brings a file of the same name (resolve_and_download).
FilesAreOwn ==
    \A f \in ToSet(handed) :
        \/ disk[FilePath(f)] = {f}
        \/ \E g \in FileMessages \ {f} : /\ g.account = f.account /\ g.chat = f.chat
                                  /\ FileName(g) = FileName(f)

\* Editing a streamed message to the text it has is no error
\* (the comment of stream_update: "treat as non-fatal").
UnchangedEditIsNoError == told.op = "stream" => told.result # "not modified"
================================================================================

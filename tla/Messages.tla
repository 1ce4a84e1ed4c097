------------------------------ MODULE Messages ------------------------------
(* The envelope of a message (claw-channels msg_context.rs), how an      *)
(* event of each platform becomes one (normalize.rs of claw-telegram,    *)
(* claw-discord and claw-whatsapp) and what dispatch reads from it: the  *)
(* command (dispatch.rs), the chat a reply goes to and the session it    *)
(* belongs to (bridge.rs). An event is a record of what the normalizers  *)
(* look at, a key missing from the JSON being None; a text is a sequence *)
(* of tokens, " " standing for white space. Display names, dates and the *)
(* signature and chat type of a forward are copied as they are and left  *)
(* out.                                                                  *)
EXTENDS Options, Naturals, Sequences

CONSTANTS LowerCase,  \* [character -> its lower case]; others are fixed
          Words       \* the tokens that begin with a letter or a digit

Or(a, b) == IF a = None THEN b ELSE a
LOCAL Lower(s) == IF s \in DOMAIN LowerCase THEN LowerCase[s] ELSE s

--------------------------------------------------------------------------------
(* MsgContext: one optional field each *)

CommandFields == {"raw", "values"}
StickerFields == {"emoji", "set", "file", "unique", "description"}
UnderstandingFields == {"MediaType", "Content", "Action", "Reason"}
BodyFields == {"Body", "BodyForAgent", "RawBody", "CommandBody", "BodyForCommands",
               "CommandArgs"}
AddressFields == {"From", "To", "SessionKey", "AccountId", "ParentSessionKey"}
SidFields == {"MessageSid", "MessageSidFull", "MessageSids", "MessageSidFirst",
              "MessageSidLast"}
ReplyFields == {"ReplyToId", "ReplyToIdFull", "ReplyToBody", "ReplyToSender",
                "ReplyToIsQuote"}
ForwardFields == {"ForwardedFrom", "ForwardedFromType", "ForwardedFromId",
                  "ForwardedFromUsername", "ForwardedFromTitle", "ForwardedFromSignature",
                  "ForwardedFromChatType", "ForwardedFromMessageId", "ForwardedDate",
                  "ThreadStarterBody", "ThreadLabel"}
MediaFields == {"MediaPath", "MediaUrl", "MediaType", "MediaFileName", "MediaMimeType",
                "MediaDir", "MediaPaths", "MediaUrls", "MediaTypes", "Sticker",
                "OutputDir", "OutputBase", "MediaRemoteHost", "Transcript",
                "MediaUnderstanding", "MediaUnderstandingDecisions", "LinkUnderstanding"}
ConversationFields == {"Prompt", "MaxChars", "ChatType", "ConversationLabel",
                       "GroupSubject", "GroupChannel", "GroupSpace", "GroupMembers",
                       "GroupSystemPrompt", "UntrustedContext"}
SenderFields == {"SenderName", "SenderId", "SenderUsername", "SenderTag", "SenderE164",
                 "Timestamp", "Provider", "Surface"}
RoutingFields == {"WasMentioned", "CommandAuthorized", "CommandSource",
                  "CommandTargetSessionKey", "GatewayClientScopes", "MessageThreadId",
                  "IsForum", "OriginatingChannel", "OriginatingTo", "HookMessages"}
MsgFields == UNION {BodyFields, AddressFields, SidFields, ReplyFields, ForwardFields,
                    MediaFields, ConversationFields, SenderFields, RoutingFields}
EmptyContext == [f \in MsgFields |-> None]

ReplyPayloadFields == {"text", "mediaUrl", "mediaUrls", "replyToId", "replyToTag",
                       "replyToCurrent", "audioAsVoice", "isError", "channelData"}

\* FinalizedMsgContext: the context without its flag, and the flag itself.
FromMsgContextOpen(ctx) ==
    [inner |-> [ctx EXCEPT !["CommandAuthorized"] = None],
     authorized |-> Or(ctx["CommandAuthorized"], TRUE)]
FromMsgContext(ctx) ==
    [inner |-> [ctx EXCEPT !["CommandAuthorized"] = None],
     authorized |-> Or(ctx["CommandAuthorized"], FALSE)]
IntoMsgContext(fin) == [fin.inner EXCEPT !["CommandAuthorized"] = fin.authorized]

\* On the wire a field that is not set has no key, and one that is read
\* without its key is not set; the flag of a finalized context is flattened
\* among the fields of the inner one.
Encode(ctx) == [f \in {g \in DOMAIN ctx : ctx[g] # None} |-> ctx[f]]
Decode(json) == [f \in MsgFields |-> IF f \in DOMAIN json THEN json[f] ELSE None]
EncodeFinalized(fin) == Encode(IntoMsgContext(fin))
DecodeFinalized(json) ==
    [inner |-> [Decode(json) EXCEPT !["CommandAuthorized"] = None],
     authorized |-> json["CommandAuthorized"]]

--------------------------------------------------------------------------------
(* Telegram *)

\* What a message's media sets; only these kinds do.
MediaOf(media) ==
    LET captioned == media.kind # "sticker"
        linked == media.kind \notin {"text", "sticker"} /\ media.file # None
        named == media.kind \in {"document", "audio", "animation"}
        typed == named \/ media.kind = "video"
    IN [EmptyContext EXCEPT
          !["Body"] = IF captioned THEN media.text ELSE None,
          !["MediaType"] = IF media.kind = "text" THEN None ELSE media.kind,
          !["MediaUrl"] = IF linked THEN <<"tg://file/", media.file>> ELSE None,
          !["MediaFileName"] = IF named THEN media.name ELSE None,
          !["MediaMimeType"] = IF typed THEN media.mime ELSE None,
          !["Sticker"] = IF media.kind = "sticker" THEN media.file ELSE None]
ExtractMedia(media) ==
    IF media.kind \in {"text", "photo", "document", "audio", "video", "voice", "sticker",
                       "animation"} THEN MediaOf(media) ELSE EmptyContext

ExtractReply(ctx, reply) ==
    IF reply = None THEN ctx
    ELSE [ctx EXCEPT !["ReplyToId"] = reply.id,
                     !["ReplyToBody"] = IF reply.kind = "text" THEN reply.text ELSE @,
                     !["ReplyToSender"] = IF reply.kind = "service" THEN @ ELSE reply.sender]

\* The origin of a forwarded message; the title of an untitled chat reads
\* "Unknown", and a user's name is taken again from the legacy field.
ExtractForward(ctx, origin) ==
    IF origin = None THEN ctx
    ELSE [ctx EXCEPT
            !["ForwardedDate"] = origin.date,
            !["ForwardedFromType"] = origin.kind,
            !["ForwardedFrom"] = IF origin.kind \in {"chat", "channel"}
                                 THEN Or(origin.name, "Unknown") ELSE origin.name,
            !["ForwardedFromId"] = IF origin.kind = "hidden_user" THEN None ELSE origin.id,
            !["ForwardedFromUsername"] = IF origin.kind = "user" THEN origin.username
                                         ELSE None,
            !["ForwardedFromTitle"] = IF origin.kind = "channel" THEN origin.name ELSE None,
            !["ForwardedFromMessageId"] = IF origin.kind = "channel" THEN origin.message
                                          ELSE None]

TelegramChatType(chat) ==
    CASE chat = "private" -> "direct" [] chat = "channel" -> "channel" [] OTHER -> "group"

NormalizeUpdate(u) ==
    IF u.kind # "message" \/ u.service \/ u.from = None THEN None
    ELSE LET core == [ExtractMedia(u.media) EXCEPT
                        !["From"] = u.from, !["SenderId"] = u.from, !["To"] = u.chat,
                        !["Provider"] = "telegram", !["MessageSid"] = u.id,
                        !["ChatType"] = TelegramChatType(u.chatKind),
                        !["MessageThreadId"] = u.thread, !["IsForum"] = u.topic]
         IN ExtractForward(ExtractReply(core, u.reply), u.forward)

--------------------------------------------------------------------------------
(* Discord and WhatsApp *)

NormalizeMessageCreate(d) ==
    IF d.bot \/ None \in {d.from, d.chat, d.id} THEN None
    ELSE [EmptyContext EXCEPT
            !["Body"] = Or(d.text, <<>>), !["From"] = d.from, !["SenderId"] = d.from,
            !["To"] = d.chat, !["Provider"] = "discord", !["MessageSid"] = d.id,
            !["ChatType"] = IF d.guild = None THEN "direct"
                            ELSE IF d.thread # None \/ d.threadType THEN "thread" ELSE "group",
            !["ReplyToId"] = IF d.reply = None THEN None ELSE d.reply.id,
            !["ReplyToBody"] = IF d.reply = None THEN None ELSE d.reply.text,
            !["MessageThreadId"] = d.thread,
            !["MediaUrls"] = IF d.urls = <<>> THEN None ELSE d.urls,
            !["MediaUrl"] = IF d.urls = <<>> THEN None ELSE Head(d.urls),
            !["MediaType"] = IF d.urls = <<>> THEN None ELSE "attachment"]

NormalizeDiscordEvent(e) ==
    IF e.kind = "MESSAGE_CREATE" THEN NormalizeMessageCreate(e) ELSE None

\* The first of the text, extended text and captions that is there.
WhatsAppText(m) == Or(m.conversation, Or(m.extended, m.caption))

NormalizeWhatsAppEvent(m) ==
    IF m.chat = None \/ m.fromMe THEN None
    ELSE LET sender == Or(m.participant, m.chat.jid)
         IN [EmptyContext EXCEPT
               !["Body"] = WhatsAppText(m), !["From"] = sender, !["SenderId"] = sender,
               !["To"] = m.chat.jid, !["Provider"] = "whatsapp",
               !["MessageSid"] = Or(m.id, ""),
               !["ChatType"] = IF m.chat.group THEN "group" ELSE "direct",
               !["MediaType"] = m.media,
               !["ReplyToId"] = IF m.reply = None THEN None ELSE m.reply.id,
               !["ReplyToBody"] = IF m.reply = None THEN None ELSE m.reply.text]

Normalize(event) ==
    CASE event.platform = "telegram" -> NormalizeUpdate(event)
      [] event.platform = "discord" -> NormalizeDiscordEvent(event)
      [] OTHER -> NormalizeWhatsAppEvent(event)

--------------------------------------------------------------------------------
(* What dispatch reads *)

LOCAL Trim(text) ==
    LET said == {i \in DOMAIN text : text[i] # " "}
    IN IF said = {} THEN <<>>
       ELSE SubSeq(text, CHOOSE i \in said : \A j \in said : i <= j,
                         CHOOSE i \in said : \A j \in said : j <= i)

CommandBody(ctx) ==
    Or(ctx["BodyForCommands"],
       Or(ctx["CommandBody"], Or(ctx["RawBody"], Or(ctx["Body"], <<>>))))

DetectCommand(body) ==
    LET t == Trim(body)
        gaps == {i \in DOMAIN t : t[i] = " "}
        end == IF gaps = {} THEN Len(t) ELSE (CHOOSE i \in gaps : \A j \in gaps : i <= j) - 1
    IN IF Len(t) < 2 \/ t[1] \notin {"/", "!"} \/ t[2] \notin Words THEN None
       ELSE [name |-> [i \in 1..(end - 1) |-> Lower(t[i + 1])],
             args |-> Trim(SubSeq(t, end + 1, Len(t))), native |-> t[1] = "/"]

\* dispatch_inbound_message and dispatch_with_agent: the session and agent.
SessionKeyOf(ctx) == Or(ctx["SessionKey"], "unknown")
AgentIdOf(ctx) == Or(ctx["Provider"], "default")

\* ChannelReplyBridge::from_inbound, and the key of a Claude Code session.
ReplyChat(ctx) == Or(ctx["From"], Or(ctx["To"], "unknown"))
ReplyTarget(ctx) == [chat |-> ReplyChat(ctx), replyTo |-> ctx["MessageSid"]]
ClaudeSessionKey(channel, account, ctx) == <<channel, account, ReplyChat(ctx)>>

\* The calls send_reply makes on the outbound adapter, by which of them fail:
\* a text that is not sent ends it, media that is not sent does not.
SendReply(text, urls, url, textFails) ==
    LET said == IF text = None THEN <<>> ELSE <<text>>
        media == IF urls # None THEN urls ELSE IF url # None THEN <<url>> ELSE <<>>
    IN IF textFails /\ text # None THEN said ELSE said \o media

\* What the Claude Code branch of the loop does with a body.
ClaudeRequest(body) ==
    LET said == [i \in DOMAIN Trim(Or(body, <<>>)) |-> Lower(Trim(Or(body, <<>>))[i])]
    IN CASE said = <<"/", "reset">> -> "reset" [] said = <<"/", "status">> -> "status"
         [] said = <<>> -> "skip" [] OTHER -> "run"

--------------------------------------------------------------------------------
(* Properties *)

\* No message of a platform may run commands by itself, and the flag a
\* context was finalized with survives the wire and a second finalization
\* (FinalizedMsgContext: default-deny).
DeniedByDefault(event, flag) ==
    LET ctx == Normalize(event)
        fin == FromMsgContext([ctx EXCEPT !["CommandAuthorized"] = flag])
    IN ctx # None =>
         /\ ~FromMsgContext(ctx).authorized
         /\ fin.authorized = (flag = TRUE)
         /\ DecodeFinalized(EncodeFinalized(fin)) = fin
         /\ FromMsgContext(IntoMsgContext(fin)) = fin

\* The platforms' fact the bridge relies on: in a private Telegram chat the
\* chat has the id of the user.
PrivateChat(event) ==
    event.platform = "telegram" /\ event.chatKind = "private" => event.chat = event.from

\* The answer to a direct Telegram or WhatsApp message goes to the chat the
\* message came from, as a reply to it (from_inbound).
DirectAnswered(event) ==
    LET ctx == Normalize(event)
    IN ctx # None /\ PrivateChat(event) /\ event.platform # "discord" =>
         /\ ctx["ChatType"] = "direct" /\ (event.platform = "whatsapp" => event.participant = None)
              => ReplyChat(ctx) = ctx["To"]
         /\ ReplyTarget(ctx).replyTo = ctx["MessageSid"]

\* The answer to a message of a group goes to the group
\* (the comment of from_inbound: "`from` for DMs and `to` for groups").
GroupAnswered(event) ==
    LET ctx == Normalize(event)
    IN ctx # None => (ctx["ChatType"] = "group" => ReplyChat(ctx) = ctx["To"])
================================================================================

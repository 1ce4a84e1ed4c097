------------------------------- MODULE Outbound -------------------------------
(* deliver_reply and deliver_with_retry of claw-channels/src/outbound.rs:  *)
(* one reply goes out as Texts chunks, each retried with a back-off, and   *)
(* then Media attachments, each tried once.  The platform's API is outside *)
(* the process: a call may fail although the part reached the chat.        *)
EXTENDS Naturals, Sequences, SequencesExt

CONSTANTS Texts, Media,   \* how many chunks and attachments the reply has
          MaxRetries      \* DeliveryOptions.max_retries

ASSUME OutboundAssumption == Texts \in Nat /\ Media \in Nat /\ MaxRetries \in Nat

VARIABLES
    dphase,      \* "look_up", "send", "sleep", or how deliver_reply ended
    part,        \* the part being delivered
    attempt,     \* its attempts so far, counted from 0
    results,     \* one per part that is over with: "sent", "failed", "cancelled"
    dcancelled,  \* the token of the options has fired
    lateCancel,  \* it had fired when the sleep began
    chat         \* the parts that reached the chat, oldest first (external)

outboundVars == <<dphase, part, attempt, results, dcancelled, lateCancel, chat>>
Parts == 1..(Texts + Media)
IsText(p) == p <= Texts

OutboundInit ==
    /\ dphase = "look_up" /\ part = 1 /\ attempt = 0 /\ results = <<>>
    /\ dcancelled = FALSE /\ lateCancel = FALSE /\ chat = <<>>

\* The channel, its plugin or its adapter may be missing: nothing is sent.
LookUp ==
    /\ dphase = "look_up"
    /\ \/ dphase' \in {"not_found", "not_enabled", "not_supported"}
       \/ dphase' = IF Parts = {} THEN "delivered" ELSE "send"
    /\ UNCHANGED <<part, attempt, results, dcancelled, lateCancel, chat>>

\* The part is over with; the next one follows whatever became of it.
SettleAsSent(result) ==
    /\ results' = Append(results, IF result = "failed" THEN "sent" ELSE result)
    /\ IF part + 1 \in Parts
       THEN part' = part + 1 /\ attempt' = 0 /\ dphase' = "send"
       ELSE dphase' = "delivered" /\ UNCHANGED <<part, attempt>>
    /\ UNCHANGED dcancelled
Settle(result) ==
    /\ results' = Append(results, result)
    /\ IF part + 1 \in Parts
       THEN part' = part + 1 /\ attempt' = 0 /\ dphase' = "send"
       ELSE dphase' = "delivered" /\ UNCHANGED <<part, attempt>>
    /\ UNCHANGED dcancelled

Reach(p) == chat' \in {chat, Append(chat, p)}

SendSucceeds == dphase = "send" /\ chat' = Append(chat, part) /\ Settle("sent")
                /\ UNCHANGED lateCancel

\* A failed chunk that has retries left sleeps; the attempts are 0..max.
SendFails ==
    /\ dphase = "send" /\ Reach(part)
    /\ IF IsText(part) /\ attempt < MaxRetries
       THEN /\ dphase' = "sleep" /\ lateCancel' = dcancelled
            /\ UNCHANGED <<part, attempt, results, dcancelled>>
       ELSE Settle("failed") /\ UNCHANGED lateCancel

\* The sleep may end although the token fired meanwhile, if both are ready
\* when the task is polled; a token that had fired before ends it at once.
SleepElapses ==
    /\ dphase = "sleep" /\ ~lateCancel
    /\ attempt' = attempt + 1 /\ dphase' = "send"
    /\ UNCHANGED <<part, results, dcancelled, lateCancel, chat>>

RetryAborted ==
    dphase = "sleep" /\ dcancelled /\ Settle("cancelled") /\ UNCHANGED <<lateCancel, chat>>

CancelDelivery ==
    /\ ~dcancelled /\ dcancelled' = TRUE
    /\ UNCHANGED <<dphase, part, attempt, results, lateCancel, chat>>

OutboundSteps == LookUp \/ SendSucceeds \/ SendFails \/ SleepElapses \/ RetryAborted
OutboundNext == OutboundSteps \/ CancelDelivery
\* The task runs: the API answers, the sleeps end.
OutboundFairness == WF_outboundVars(OutboundSteps)
OutboundSpec == OutboundInit /\ [][OutboundNext]_outboundVars /\ OutboundFairness

--------------------------------------------------------------------------------
OutboundTypeOK ==
    /\ dphase \in {"look_up", "send", "sleep", "delivered", "not_found", "not_enabled",
                   "not_supported"}
    /\ part \in Nat \ {0} /\ attempt \in 0..MaxRetries
    /\ results \in Seq({"sent", "failed", "cancelled"}) /\ chat \in Seq(Parts)
    /\ dcancelled \in BOOLEAN /\ lateCancel \in BOOLEAN

\* What the caller is told of each part is true and in order: one result per
\* part, a part told "sent" is in the chat, no part reaches the chat after a
\* later one, however often it is tried, and an attachment reaches it once
\* at most (deliver_reply's results).
ResultsAreTrue ==
    /\ \A i \in DOMAIN results : results[i] = "sent" => i \in ToSet(chat)
    /\ \A i, j \in DOMAIN chat : i < j => chat[i] <= chat[j]
    /\ \A i, j \in DOMAIN chat : i # j /\ chat[i] = chat[j] => IsText(chat[i])
    /\ dphase = "delivered" => Len(results) = Texts + Media

\* Every delivery ends, also when every call fails (the bounded retries).
Delivering == dphase \in {"look_up", "send", "sleep"}
DeliveryEnds == Delivering ~> ~Delivering
================================================================================

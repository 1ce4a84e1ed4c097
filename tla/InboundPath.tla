---------------------------- MODULE InboundPath -----------------------------
(***************************************************************************)
(* The way of an inbound Telegram update: the long-polling loop of         *)
(* claw-telegram, the file resolver, the dispatch channel, and             *)
(* run_dispatch_loop with its one dispatch at a time.                      *)
(*                                                                         *)
(* The Telegram server keeps the updates a bot has not confirmed; a        *)
(* getUpdates request with an offset confirms all updates below it.  The   *)
(* documents of Documents are sent to one chat under one file name, so     *)
(* they share a path below the file directory.                             *)
(***************************************************************************)
EXTENDS Naturals, Sequences, FiniteSets

CONSTANTS
  Updates,    \* ids of the updates that may arrive: 1..n
  Messages,   \* those that normalize_update turns into a message
  Documents,  \* messages with a document, all of the same file name
  MaxLives    \* bound: times the poller is started

ASSUME InboundAssumption ==
  /\ IsFiniteSet(Updates)
  /\ Updates = 1..Cardinality(Updates)
  /\ Documents \subseteq Messages
  /\ Messages \subseteq Updates
  /\ MaxLives \in Nat

NoUpdate == 0

VARIABLES
  arrived,     \* updates 1..arrived have reached the server
  confirmed,   \* updates 1..confirmed are discarded by the server
  pc,          \* where the poller stands
  offset,      \* its offset
  batch,       \* updates of the last response still to process
  media,       \* whether the message in hand has a media_path
  stopped,     \* whether the account's token is cancelled
  down,        \* whether the application's token is cancelled
  chan,        \* the dispatch channel: [of |-> update, media |-> has a path]
  loop,        \* where run_dispatch_loop stands
  cur,         \* the message it dispatches
  file,        \* whose bytes are at the shared path
  lives,       \* starts of the poller
  crashed,     \* history: whether the process was restarted
  log,         \* history: what this poller forwarded, in order
  handled      \* history: messages whose dispatch began

serverVars == <<arrived, confirmed>>
pollerVars == <<pc, offset, batch, media>>
loopVars == <<loop, cur, handled>>
vars == <<arrived, confirmed, pc, offset, batch, media, stopped, down, chan,
          loop, cur, file, lives, crashed, log, handled>>

NoMessage == [of |-> NoUpdate, media |-> FALSE]
Message == [of : Messages, media : BOOLEAN]

-----------------------------------------------------------------------------
(* start_polling.                                                          *)

\* The manager starts the account: a new token, offset 0.
Start ==
  /\ pc = "off"
  /\ ~down
  /\ lives < MaxLives
  /\ lives' = lives + 1
  /\ pc' = "check"
  /\ offset' = 0
  /\ stopped' = FALSE
  /\ log' = <<>>
  /\ UNCHANGED <<serverVars, batch, media, down, chan, loopVars, file, crashed>>

\* Mutant: the account's token is no child of the application's.
CheckOwnToken ==
  /\ pc = "check"
  /\ pc' = IF stopped THEN "off" ELSE "poll"
  /\ UNCHANGED <<serverVars, offset, batch, media, stopped, down, chan, loopVars,
                 file, lives, crashed, log>>

\* The token is only looked at here, between two batches.
Check ==
  /\ pc = "check"
  /\ pc' = IF stopped \/ down THEN "off" ELSE "poll"
  /\ UNCHANGED <<serverVars, offset, batch, media, stopped, down, chan, loopVars,
                 file, lives, crashed, log>>

\* What the server has confirmed after a request with this offset.
Confirm == IF offset > confirmed THEN offset - 1 ELSE confirmed

\* getUpdates is answered with all that is not confirmed.
PollAnswered ==
  /\ pc = "poll"
  /\ confirmed' = Confirm
  /\ batch' = [k \in 1..(arrived - Confirm) |-> Confirm + k]
  /\ pc' = "batch"
  /\ UNCHANGED <<arrived, offset, media, stopped, down, chan, loopVars, file,
                 lives, crashed, log>>

\* Mutant: an error ends the poller.
PollFailedReturns ==
  /\ pc = "poll"
  /\ confirmed' \in {confirmed, Confirm}
  /\ pc' = "off"
  /\ UNCHANGED <<arrived, offset, batch, media, stopped, down, chan, loopVars,
                 file, lives, crashed, log>>

\* The request or the response is lost; the same request is made again.
PollFailed ==
  /\ pc = "poll"
  /\ confirmed' \in {confirmed, Confirm}
  /\ pc' = "check"
  /\ UNCHANGED <<arrived, offset, batch, media, stopped, down, chan, loopVars,
                 file, lives, crashed, log>>

BatchDone ==
  /\ pc = "batch"
  /\ batch = <<>>
  /\ pc' = "check"
  /\ UNCHANGED <<serverVars, offset, batch, media, stopped, down, chan, loopVars,
                 file, lives, crashed, log>>

\* Mutant: the offset is the update's own id.
TakeUpdateOwnId ==
  /\ pc = "batch"
  /\ batch # <<>>
  /\ LET u == Head(batch) IN
     /\ offset' = u
     /\ pc' = IF u \in Documents THEN "download"
              ELSE IF u \in Messages THEN "forward" ELSE "batch"
     /\ batch' = IF u \in Messages THEN batch ELSE Tail(batch)
  /\ media' = FALSE
  /\ UNCHANGED <<serverVars, stopped, down, chan, loopVars, file, lives, crashed, log>>

\* Mutant: the offset is moved twice.
TakeUpdateTwice ==
  /\ pc = "batch"
  /\ batch # <<>>
  /\ LET u == Head(batch) IN
     /\ offset' = u + 2
     /\ pc' = IF u \in Documents THEN "download"
              ELSE IF u \in Messages THEN "forward" ELSE "batch"
     /\ batch' = IF u \in Messages THEN batch ELSE Tail(batch)
  /\ media' = FALSE
  /\ UNCHANGED <<serverVars, stopped, down, chan, loopVars, file, lives, crashed, log>>

\* The next update: the offset moves past it; other than messages are skipped.
TakeUpdate ==
  /\ pc = "batch"
  /\ batch # <<>>
  /\ LET u == Head(batch) IN
     /\ offset' = u + 1
     /\ pc' = IF u \in Documents THEN "download"
              ELSE IF u \in Messages THEN "forward" ELSE "batch"
     /\ batch' = IF u \in Messages THEN batch ELSE Tail(batch)
  /\ media' = FALSE
  /\ UNCHANGED <<serverVars, stopped, down, chan, loopVars, file, lives, crashed, log>>

\* Mutant: a message whose file cannot be downloaded is skipped.
DownloadOrSkip ==
  /\ pc = "download"
  /\ \/ /\ file' = Head(batch)
        /\ media' = TRUE
        /\ pc' = "forward"
        /\ UNCHANGED batch
     \/ /\ batch' = Tail(batch)
        /\ pc' = "batch"
        /\ UNCHANGED <<file, media>>
  /\ UNCHANGED <<serverVars, offset, stopped, down, chan, loopVars, lives, crashed, log>>

\* resolve_and_download: the file replaces what is at its path.  A failure
\* before the file is created, or after, leaves the message without a path.
Download ==
  /\ pc = "download"
  /\ \/ file' = Head(batch) /\ media' = TRUE
     \/ file' \in {file, NoUpdate} /\ UNCHANGED media
  /\ pc' = "forward"
  /\ UNCHANGED <<serverVars, offset, batch, stopped, down, chan, loopVars, lives,
                 crashed, log>>

\* tx.send fails once the dispatch loop is gone; that is only logged.
Forward ==
  /\ pc = "forward"
  /\ chan' = IF loop = "ended" THEN chan
             ELSE Append(chan, [of |-> Head(batch), media |-> media])
  /\ log' = Append(log, Head(batch))
  /\ batch' = Tail(batch)
  /\ media' = FALSE
  /\ pc' = "batch"
  /\ UNCHANGED <<serverVars, offset, stopped, down, loopVars, file, lives, crashed>>

-----------------------------------------------------------------------------
(* run_dispatch_loop.                                                      *)

Receive ==
  /\ loop = "recv"
  /\ chan # <<>>
  /\ cur' = Head(chan)
  /\ chan' = Tail(chan)
  /\ handled' = handled \cup {Head(chan).of}
  /\ loop' = "dispatch"
  /\ UNCHANGED <<serverVars, pollerVars, stopped, down, file, lives, crashed, log>>

\* The agent's run: the attachment is read by now.
Dispatched ==
  /\ loop = "dispatch"
  /\ loop' = "clean"
  /\ UNCHANGED <<serverVars, pollerVars, stopped, down, chan, cur, handled, file,
                 lives, crashed, log>>

\* The media file is removed, whosever it is by now.
CleanUp ==
  /\ loop = "clean"
  /\ file' = IF cur.media THEN NoUpdate ELSE file
  /\ cur' = NoMessage
  /\ loop' = "recv"
  /\ UNCHANGED <<serverVars, pollerVars, stopped, down, chan, handled, lives,
                 crashed, log>>

\* The receiver is dropped with what it holds.
LoopEnds ==
  /\ loop = "recv"
  /\ down
  /\ loop' = "ended"
  /\ chan' = <<>>
  /\ UNCHANGED <<serverVars, pollerVars, stopped, down, cur, handled, file, lives,
                 crashed, log>>

-----------------------------------------------------------------------------
(* The environment.                                                        *)

Arrive ==
  /\ arrived + 1 \in Updates
  /\ arrived' = arrived + 1
  /\ UNCHANGED <<confirmed, pollerVars, stopped, down, chan, loopVars, file, lives,
                 crashed, log>>

\* stop_account of the channel manager.
StopAccount ==
  /\ ~stopped
  /\ stopped' = TRUE
  /\ UNCHANGED <<serverVars, pollerVars, down, chan, loopVars, file, lives,
                 crashed, log>>

Shutdown ==
  /\ ~down
  /\ down' = TRUE
  /\ UNCHANGED <<serverVars, pollerVars, stopped, chan, loopVars, file, lives,
                 crashed, log>>

\* The process dies and is started again; files and the server are as before.
Restart ==
  /\ lives < MaxLives
  /\ pc' = "off"
  /\ batch' = <<>>
  /\ media' = FALSE
  /\ offset' = 0
  /\ stopped' = FALSE
  /\ down' = FALSE
  /\ chan' = <<>>
  /\ loop' = "recv"
  /\ cur' = NoMessage
  /\ crashed' = TRUE
  /\ log' = <<>>
  /\ UNCHANGED <<serverVars, file, lives, handled>>

-----------------------------------------------------------------------------
Init ==
  /\ arrived = 0
  /\ confirmed = 0
  /\ pc = "off"
  /\ offset = 0
  /\ batch = <<>>
  /\ media = FALSE
  /\ stopped = FALSE
  /\ down = FALSE
  /\ chan = <<>>
  /\ loop = "recv"
  /\ cur = NoMessage
  /\ file = NoUpdate
  /\ lives = 0
  /\ crashed = FALSE
  /\ log = <<>>
  /\ handled = {}

PollerStep ==
  \/ Check
  \/ PollFailed
  \/ BatchDone
  \/ TakeUpdate
  \/ Download
  \/ Forward

LoopStep == Receive \/ Dispatched \/ CleanUp

Next ==
  \/ Start
  \/ PollerStep
  \/ PollAnswered
  \/ LoopStep
  \/ LoopEnds
  \/ Arrive
  \/ StopAccount
  \/ Shutdown
  \/ Restart

\* Both tasks run, a dispatch ends, a request that is made again and again is
\* answered; after shutdown the select! does not prefer messages for ever.
Spec ==
  /\ Init /\ [][Next]_vars
  /\ WF_vars(PollerStep)
  /\ SF_vars(PollAnswered)
  /\ WF_vars(LoopStep)
  /\ SF_vars(LoopEnds)

-----------------------------------------------------------------------------
(* Invariants.                                                             *)

TypeOK ==
  /\ arrived \in Updates \cup {0}
  /\ confirmed \in 0..arrived
  /\ pc \in {"off", "check", "poll", "batch", "download", "forward"}
  /\ offset \in 0..(arrived + 1)
  /\ batch \in Seq(Updates)
  /\ media \in BOOLEAN
  /\ stopped \in BOOLEAN
  /\ down \in BOOLEAN
  /\ chan \in Seq(Message)
  /\ loop \in {"recv", "dispatch", "clean", "ended"}
  /\ cur \in Message \cup {NoMessage}
  /\ file \in Documents \cup {NoUpdate}
  /\ lives \in 0..MaxLives
  /\ crashed \in BOOLEAN
  /\ log \in Seq(Messages)
  /\ handled \subseteq Messages

\* Out of the poller's hands: in the dispatch channel, or dispatched.
Passed(u) == u \in handled \/ \E k \in DOMAIN chan : chan[k].of = u

\* Between two restarts no update is discarded by the server before it is in
\* the dispatch loop's hands: failed requests, failed downloads and a stopped
\* and started account lose no message.
NothingSkipped ==
  ~crashed /\ loop # "ended" => \A u \in Messages : u <= confirmed => Passed(u)

\* One life of the poller forwards every message at most once, in the order of
\* the updates, though requests are repeated when their response is lost.
OnceInOrder ==
  \A j, k \in DOMAIN log : j < k => log[j] < log[k]

-----------------------------------------------------------------------------
(* Liveness.                                                               *)

\* Every message that arrives gets its dispatch, unless the account is stopped
\* or the application shut down or restarted.
EveryMessageDispatched ==
  \A u \in Messages :
    arrived >= u /\ pc # "off" ~> u \in handled \/ stopped \/ down \/ crashed

\* After a shutdown both tasks end.
ShutdownEnds == down ~> (pc = "off" /\ loop = "ended") \/ ~down

\* The path moves on: messages reach their dispatch, shutdowns their end.
PathMovesOn == EveryMessageDispatched /\ ShutdownEnds

-----------------------------------------------------------------------------
(* What the documentation says and the code does not do.                   *)

\* media_path: "Local path to downloaded media file."  A dispatch that was
\* given a path finds its own document there.
MediaIsThere ==
  loop = "dispatch" /\ cur.media /\ ~crashed => file = cur.of
=============================================================================

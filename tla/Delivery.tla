------------------------------ MODULE Delivery ------------------------------
(***************************************************************************)
(* The ticks of outgoing direct messages: ChatAPI.sendMessage and its      *)
(* three ways out (a direct channel first, the relays, the offline queue), *)
(* DeliveryTracker with its retries, the relays in between, and the        *)
(* device of the peer, of which only the promise of Conversation is used.  *)
(*                                                                         *)
(* A message has several ids over its life: the app id the sender made,    *)
(* and the id of the rumor it is published as. A publish that fails leaves *)
(* no copy anywhere but may leave a rumor, and the offline queue then      *)
(* makes another one.                                                      *)
(*                                                                         *)
(* Left out: what the queue does besides publishing (OfflineQueue), the    *)
(* rows of the sender's store, groups, a blocked sender.                   *)
(***************************************************************************)
EXTENDS Naturals, Sequences, SequencesExt

CONSTANTS
  Message,        \* the messages sent
  RetryLimit,     \* RETRY_DELAYS_MS.length
  MaxTracked,     \* MAX_TRACKED_OUTGOING
  Background,     \* messages of other chats: only the room they take counts
  None,           \* no timer, no queue entry
  MaxLosses,      \* how many copies the relays lose
  MaxLostReceipts,
  MaxRestarts     \* how often the sender's app or the peer's restarts

Id == (Message \cup Background) \X {"app", "live", "queued"}
Rumor == Message \X {"live", "queued"}
App(m) == <<m, "app">>
Live(m) == <<m, "live">>
Queued(m) == <<m, "queued">>

Tick == {"none", "sending", "sent", "delivered", "read"}
STATE_ORDER == [none |-> 0, sending |-> 1, sent |-> 2, delivered |-> 3,
                read |-> 4]

Timer == [of : Id, attempt : 0 .. RetryLimit]
Entry == [rumor : Rumor \cup {None}, app : BOOLEAN]
Receipt == [id : Id, type : {"delivery", "read"}]

ASSUME ConstantsAssumption ==
  /\ Message \cap Background = {}
  /\ None \notin Timer \cup Entry \cup Rumor
  /\ RetryLimit \in Nat \ {0}
  /\ MaxTracked \in Nat \ {0}
  /\ MaxLosses \in Nat
  /\ MaxLostReceipts \in Nat
  /\ MaxRestarts \in Nat

VARIABLES
  file,         \* the messages sent as a JSON envelope, which holds the app id
  tracker,      \* DeliveryTracker: states, outgoingResend in order, timers
  stage,        \* where sendMessage is with each message
  channel,      \* the direct copy of each message and its OK
  entry,        \* the offline queue
  copies,       \* the copies of each rumor that relays will hand over
  receipts,     \* the receipts on their way back

  \* the peer's device: see Conversation
  kept, settled, acked,
  pending,      \* rumors the direct channel brings to its pool
  acking,       \* rumors settled whose receipt has not left yet
  marked,       \* rumors a read receipt was sent for

  lost, lostReceipts, restarts, peerRestarts,   \* how often each happened

  \* for the properties
  handed,       \* rumors that were handed to the relays
  vouched,      \* messages ticked on the word of the direct channel
  unbacked,     \* of those, the ones a restart kept from the queue
  evicted,      \* rumors dropped from the tracker at MaxTracked
  early         \* messages the queue published before its first flush

sender == <<file, tracker, stage, channel, entry>>
peer == <<kept, settled, acked, pending, acking, marked>>
counters == <<lost, lostReceipts, restarts, peerRestarts>>
noted == <<handed, vouched, unbacked, evicted, early>>
vars == <<sender, copies, receipts, peer, counters, noted>>

Stage == {"new", "saved", "direct", "backstop", "row", "queue", "done"}
Channel == {"none", "frame", "ok", "over"}

TypeOK ==
  /\ file \subseteq Message
  /\ tracker.tick \in [Id -> Tick]
  /\ tracker.resend \in Seq(Id) /\ Len(tracker.resend) <= MaxTracked
  /\ tracker.timer \in [Id -> Timer \cup {None}]
  /\ stage \in [Message -> Stage]
  /\ channel \in [Message -> Channel]
  /\ entry \in [Message -> Entry \cup {None}]
  /\ copies \in [Rumor -> Nat]
  /\ receipts \subseteq Receipt
  /\ kept \subseteq settled /\ acked \subseteq settled
  /\ settled \subseteq Rumor
  /\ pending \subseteq Rumor /\ acking \subseteq settled
  /\ marked \subseteq Rumor

(* The peer's device keeps its promise; deletions play no part here.       *)
Peer == INSTANCE Conversation WITH
  Message <- Rumor, told <- {}, gone <- {}, doubted <- {}

Init ==
  /\ file \in SUBSET Message
  /\ tracker = [tick |-> [i \in Id |-> "none"], resend |-> <<>>,
                timer |-> [i \in Id |-> None]]
  /\ stage = [m \in Message |-> "new"]
  /\ channel = [m \in Message |-> "none"]
  /\ entry = [m \in Message |-> None]
  /\ copies = [r \in Rumor |-> 0]
  /\ receipts = {}
  /\ kept = {} /\ settled = {} /\ acked = {}
  /\ pending = {} /\ acking = {} /\ marked = {}
  /\ lost = 0 /\ lostReceipts = 0 /\ restarts = 0 /\ peerRestarts = 0
  /\ handed = {} /\ vouched = {} /\ unbacked = {} /\ evicted = {} /\ early = {}

-----------------------------------------------------------------------------
(* DeliveryTracker: each operator is the tracker t after a call.           *)
Reached(t, i, state) == STATE_ORDER[t.tick[i]] >= STATE_ORDER[state]

Tracked(t, i) == i \in ToSet(t.resend)

SetTick(t, i, state) == [t EXCEPT !.tick[i] = state]

clearRetry(t, i) == [t EXCEPT !.timer[i] = None,
                              !.resend = RemoveFirst(@, i)]

(* Nothing gives way.                                                      *)
registerOutgoing_NoCap(t, i) ==
  IF Tracked(t, i) THEN t ELSE [t EXCEPT !.resend = Append(@, i)]

(* The oldest entries give way at the cap.                                 *)
registerOutgoing(t, i) ==
  LET added == IF Tracked(t, i) THEN t
               ELSE [t EXCEPT !.resend = Append(@, i)] IN
  IF Len(added.resend) > MaxTracked
  THEN clearRetry(added, Head(added.resend))
  ELSE added

(* The last retry is left out.                                             *)
scheduleRetry_OneTooFew(t, i, attempt) ==
  IF attempt + 1 >= RetryLimit THEN clearRetry(t, i)
  ELSE [t EXCEPT !.timer[i] = [of |-> i, attempt |-> attempt]]

(* The retries end at the limit.                                           *)
scheduleRetry(t, i, attempt) ==
  IF attempt >= RetryLimit THEN clearRetry(t, i)
  ELSE [t EXCEPT !.timer[i] = [of |-> i, attempt |-> attempt]]

(* The state, the place in the order and the timer move to the new id; a   *)
(* moved timer keeps the id it was armed for.                              *)
rekey(t, from, to) ==
  LET moved == IF t.tick[from] = "none" THEN t
               ELSE [t EXCEPT !.tick[to] = t.tick[from],
                              !.tick[from] = "none"]
      placed == [moved EXCEPT !.resend =
                   [k \in DOMAIN @ |-> IF @[k] = from THEN to ELSE @[k]]] IN
  IF t.timer[from] = None THEN placed
  ELSE [placed EXCEPT !.timer[to] = t.timer[from], !.timer[from] = None]

(* A tick of sent is set whatever the message reached.                     *)
markSent_AnyState(t, i) ==
  IF Tracked(t, i) THEN scheduleRetry(SetTick(t, i, "sent"), i, 0)
  ELSE SetTick(t, i, "sent")

(* Only forwards; the retries start if a resend is registered.             *)
markSent(t, i) ==
  IF Reached(t, i, "sent") THEN t
  ELSE IF Tracked(t, i) THEN scheduleRetry(SetTick(t, i, "sent"), i, 0)
  ELSE SetTick(t, i, "sent")

(* A receipt moves the tick and leaves the retries alone.                  *)
acknowledge_NoClear(t, i, state) ==
  IF Reached(t, i, state) THEN t ELSE SetTick(t, i, state)

(* A receipt for an id the tracker does not hold is dropped.               *)
acknowledge_OnlyTracked(t, i, state) ==
  IF ~Tracked(t, i) \/ Reached(t, i, state) THEN clearRetry(t, i)
  ELSE SetTick(clearRetry(t, i), i, state)

(* markDeliveredDirect and both branches of handleReceipt: the retries end *)
(* whatever the state is.                                                  *)
acknowledge(t, i, state) ==
  IF Reached(t, i, state) THEN clearRetry(t, i)
  ELSE SetTick(clearRetry(t, i), i, state)

(* A published message is tracked under the id its receipt will name.      *)
Track(t, m, r) == registerOutgoing(rekey(t, App(m), r), r)

(* The rumors that give way to a registration.                             *)
Evictions(t, i) ==
  Rumor \cap (ToSet(Append(t.resend, i)) \ ToSet(registerOutgoing(t, i).resend))

HandOver(r) ==
  /\ copies' = [copies EXCEPT ![r] = @ + 1]
  /\ handed' = handed \cup {r}

-----------------------------------------------------------------------------
(* sendMessage: the tracker first, then the row...                         *)
Send(m) ==
  /\ stage[m] = "new"
  /\ stage' = [stage EXCEPT ![m] = "saved"]
  /\ tracker' = SetTick(tracker, App(m), "sending")
  /\ UNCHANGED <<file, channel, entry, copies, receipts, peer, counters,
                 noted>>

(* ...then with a live direct channel the copy for it, before the relays.  *)
(* The tracker is re-keyed first. With no relay the send waits for the OK. *)
DirectFirst(m) ==
  /\ stage[m] = "saved"
  /\ tracker' = Track(tracker, m, Live(m))
  /\ evicted' = evicted \cup Evictions(rekey(tracker, App(m), Live(m)), Live(m))
  /\ channel' = [channel EXCEPT ![m] = "frame"]
  /\ \/ /\ HandOver(Live(m))
        /\ stage' = [stage EXCEPT ![m] = "row"]
     \/ /\ stage' = [stage EXCEPT ![m] = "direct"]
        /\ UNCHANGED <<copies, handed>>
  /\ UNCHANGED <<file, entry, receipts, peer, counters, vouched, unbacked,
                 early>>

(* ...or the relays: what follows the wrap runs in one piece up to the     *)
(* update of the row. A message no relay took has a rumor all the same.    *)
(* Whatever they took, a peer that can be dialled is sent the wraps too;   *)
(* the OK of that copy only says which path it took. If it gets through it *)
(* is pending from here on, until it arrives and is handled.               *)
Publish(m) ==
  /\ stage[m] = "saved"
  /\ tracker' = Track(tracker, m, Live(m))
  /\ evicted' = evicted \cup Evictions(rekey(tracker, App(m), Live(m)), Live(m))
  /\ UNCHANGED pending \/ pending' = pending \cup {Live(m)}
  /\ \/ /\ HandOver(Live(m))
        /\ stage' = [stage EXCEPT ![m] = "row"]
     \/ /\ stage' = [stage EXCEPT ![m] = "queue"]
        /\ UNCHANGED <<copies, handed>>
  /\ UNCHANGED <<file, channel, entry, receipts, kept, settled, acked, acking,
                 marked, counters, vouched, unbacked, early>>

(* The pool is not connected, or the wrap failed.                          *)
NotPublished(m) ==
  /\ stage[m] = "saved"
  /\ stage' = [stage EXCEPT ![m] = "queue"]
  /\ UNCHANGED <<file, tracker, channel, entry, copies, receipts, peer,
                 counters, noted>>

(* Once the row is updated, the message is marked sent.                    *)
MarkSent(m) ==
  /\ stage[m] = "row"
  /\ stage' = [stage EXCEPT ![m] = "done"]
  /\ tracker' = markSent(tracker, Live(m))
  /\ UNCHANGED <<file, channel, entry, copies, receipts, peer, counters,
                 noted>>

(* The OK comes in: the message counts as delivered...                     *)
DirectAcked(m) ==
  /\ channel[m] = "ok"
  /\ channel' = [channel EXCEPT ![m] = "over"]
  /\ tracker' = acknowledge(tracker, Live(m), "delivered")
  /\ vouched' = vouched \cup {m}
  /\ stage' = IF stage[m] = "direct" THEN [stage EXCEPT ![m] = "backstop"]
              ELSE stage
  /\ UNCHANGED <<file, entry, copies, receipts, peer, counters, handed,
                 unbacked, evicted, early>>

(* ...and a send that waited for it, once the row is updated, leaves its   *)
(* rumor in the queue, for which the tracker is done. queue() publishes at *)
(* once if it is connected, and what fails in it is caught there.          *)
Backstop(m) ==
  /\ stage[m] = "backstop"
  /\ stage' = [stage EXCEPT ![m] = "done"]
  /\ entry' = [entry EXCEPT ![m] = [rumor |-> Live(m), app |-> FALSE]]
  /\ HandOver(Live(m)) \/ UNCHANGED <<copies, handed>>
  /\ UNCHANGED <<file, tracker, channel, receipts, peer, counters, vouched,
                 unbacked, evicted, early>>

(* No OK in time, or a refusal: a frame under way may still arrive.        *)
DirectTimeout(m) ==
  /\ channel[m] \in {"frame", "ok"}
  /\ channel' = [channel EXCEPT ![m] = "over"]
  /\ \/ UNCHANGED pending
     \/ channel[m] = "frame" /\ pending' = pending \cup {Live(m)}
  /\ stage' = IF stage[m] = "direct" THEN [stage EXCEPT ![m] = "queue"]
              ELSE stage
  /\ UNCHANGED <<file, tracker, entry, copies, receipts, kept, settled, acked,
                 acking, marked, counters, noted>>

(* queueMessage: the rumor of a direct attempt is handed over, but that of *)
(* a publish is not. The queue publishes at once if it is connected, and   *)
(* keeps the message for the next flush either way. With the chat closed   *)
(* meanwhile there is no one to queue it for: the message failed.          *)
QueueMessage(m) ==
  LET direct == channel[m] # "none"
      sent == IF direct THEN Live(m) ELSE Queued(m) IN
  /\ stage[m] = "queue"
  /\ stage' = [stage EXCEPT ![m] = "done"]
  /\ \/ /\ HandOver(sent)
        /\ early' = early \cup {m}
        /\ entry' = [entry EXCEPT ![m] = [rumor |-> sent, app |-> TRUE]]
     \/ /\ \E r \in IF direct THEN {sent} ELSE {sent, None} :
             entry' = [entry EXCEPT ![m] = [rumor |-> r, app |-> TRUE]]
        /\ UNCHANGED <<copies, handed, early>>
     \/ UNCHANGED <<entry, copies, handed, early>>
  /\ UNCHANGED <<file, tracker, channel, receipts, peer, counters, vouched,
                 unbacked, evicted>>

(* Each flush makes a rumor of its own.                                    *)
FlushedRumor_Fresh(m) == Queued(m)

FlushedRumor(m) == IF entry[m].rumor = None THEN Queued(m) ELSE entry[m].rumor

(* A flush publishes and handleQueueFlushed settles the ids, in one piece. *)
Flush(m) ==
  LET r == FlushedRumor(m) IN
  /\ entry[m] # None
  /\ entry' = [entry EXCEPT ![m] = None]
  /\ HandOver(r)
  /\ IF entry[m].app
     THEN /\ tracker' = markSent(Track(tracker, m, r), r)
          /\ evicted' = evicted \cup Evictions(rekey(tracker, App(m), r), r)
     ELSE UNCHANGED <<tracker, evicted>>
  /\ UNCHANGED <<file, stage, channel, receipts, peer, counters, vouched,
                 unbacked, early>>

(* A retry timer fires: it runs with the id it was armed for.              *)
RetryTimer(i) ==
  LET o == tracker.timer[i].of
      t == [tracker EXCEPT !.timer[o] = None] IN
  /\ tracker.timer[i] # None
  /\ IF Reached(t, o, "delivered")
     THEN tracker' = clearRetry(t, o) /\ UNCHANGED <<copies, handed>>
     ELSE /\ tracker' = scheduleRetry(t, o, tracker.timer[i].attempt + 1)
          /\ IF Tracked(t, o) THEN HandOver(o) ELSE UNCHANGED <<copies, handed>>
  /\ UNCHANGED <<file, stage, channel, entry, receipts, peer, counters,
                 vouched, unbacked, evicted, early>>

(* A message of another chat is registered.                                *)
SendOther(o) ==
  /\ tracker' = registerOutgoing(tracker, Live(o))
  /\ evicted' = evicted \cup Evictions(tracker, Live(o))
  /\ UNCHANGED <<file, stage, channel, entry, copies, receipts, peer, counters,
                 handed, vouched, unbacked, early>>

(* A receipt comes in, from the relays' subscription. With read receipts   *)
(* off, one of those only ends the retries.                                *)
HandleReceipt(receipt) ==
  /\ receipt \in receipts
  /\ receipts' = receipts \ {receipt}
  /\ \/ tracker' = acknowledge(tracker, receipt.id,
                     IF receipt.type = "read" THEN "read" ELSE "delivered")
     \/ receipt.type = "read" /\ tracker' = clearRetry(tracker, receipt.id)
  /\ UNCHANGED <<file, stage, channel, entry, copies, peer, counters, noted>>

(* The app restarts: the tracker is memory, the queue is on disk. (What a  *)
(* crash does to a save under way is in OfflineQueue.)                     *)
Restart ==
  /\ restarts + peerRestarts < MaxRestarts
  /\ restarts' = restarts + 1
  /\ tracker' = [tick |-> [i \in Id |-> "none"], resend |-> <<>>,
                 timer |-> [i \in Id |-> None]]
  /\ stage' = [m \in Message |-> IF stage[m] = "new" THEN "new" ELSE "done"]
  /\ channel' = [m \in Message |->
                   IF channel[m] = "none" THEN "none" ELSE "over"]
  /\ unbacked' = unbacked \cup {m \in Message : stage[m] = "backstop"}
  /\ UNCHANGED <<file, entry, copies, receipts, peer, lost, lostReceipts,
                 peerRestarts, handed, vouched, evicted, early>>

-----------------------------------------------------------------------------
(* The peer. A wrap from the direct channel is acknowledged when it is     *)
(* unwrapped and in the line of the pool, before any handler ran; a wrap   *)
(* that cannot be taken is acknowledged too.                               *)
IngestDirect(m) ==
  /\ channel[m] = "frame"
  /\ channel' = [channel EXCEPT ![m] = "ok"]
  /\ \/ pending' = pending \cup {Live(m)}
     \/ UNCHANGED pending
  /\ UNCHANGED <<file, tracker, stage, entry, copies, receipts, kept, settled,
                 acked, acking, marked, counters, noted>>

(* A handler settles a rumor it has not settled yet.                       *)
Receive(r) ==
  /\ r \in pending \/ copies[r] > 0
  /\ r \notin settled
  /\ Peer!Keep(r) \/ Peer!GiveUp(r)
  /\ pending' = pending \ {r}
  /\ acking' = acking \cup {r}
  /\ UNCHANGED <<sender, copies, receipts, marked, counters, noted>>

(* The receipt of a file names the app id that is in the envelope.         *)
ReceiptId(r) == IF r[1] \in file THEN App(r[1]) ELSE r

(* The receipt leaves before the message is settled.                       *)
SendReceipt_AtOnce(r) ==
  /\ r \notin acked
  /\ r \in pending \/ copies[r] > 0
  /\ acked' = acked \cup {r}
  /\ receipts' = receipts \cup {[id |-> ReceiptId(r), type |-> "delivery"]}
  /\ UNCHANGED <<sender, copies, kept, settled, acking, pending, marked,
                 counters, noted>>

(* A delivery receipt leaves, once.                                        *)
SendReceipt(r) ==
  /\ r \in acking
  /\ Peer!Acknowledge(r)
  /\ acking' = acking \ {r}
  /\ receipts' = receipts \cup {[id |-> ReceiptId(r), type |-> "delivery"]}
  /\ UNCHANGED <<sender, copies, pending, marked, counters, noted>>

(* The peer opens the chat: a read receipt for a message on disk.          *)
SendReadReceipt(r) ==
  /\ r \in kept \ marked
  /\ marked' = marked \cup {r}
  /\ receipts' = receipts \cup {[id |-> ReceiptId(r), type |-> "read"]}
  /\ UNCHANGED <<sender, copies, kept, settled, acked, pending, acking,
                 counters, noted>>

(* The peer's app restarts: what was in memory is not taken up again.      *)
PeerRestart ==
  /\ restarts + peerRestarts < MaxRestarts
  /\ peerRestarts' = peerRestarts + 1
  /\ pending' = {} /\ acking' = {} /\ marked' = {}
  /\ UNCHANGED <<sender, copies, receipts, kept, settled, acked, lost,
                 lostReceipts, restarts, noted>>

(* A copy the relays took never reaches the peer.                          *)
LoseCopy(r) ==
  /\ lost < MaxLosses
  /\ copies[r] > 0
  /\ lost' = lost + 1
  /\ copies' = [copies EXCEPT ![r] = @ - 1]
  /\ UNCHANGED <<sender, receipts, peer, lostReceipts, restarts, peerRestarts,
                 noted>>

(* A receipt is lost: on the relays, or to a walk of the history, which    *)
(* claims its wrap and leaves receipts to the live subscription that will  *)
(* not take a claimed wrap.                                                *)
LoseReceipt(receipt) ==
  /\ lostReceipts < MaxLostReceipts
  /\ receipt \in receipts
  /\ lostReceipts' = lostReceipts + 1
  /\ receipts' = receipts \ {receipt}
  /\ UNCHANGED <<sender, copies, peer, lost, restarts, peerRestarts, noted>>

Sending(m) ==
  \/ DirectFirst(m) \/ Publish(m) \/ NotPublished(m) \/ MarkSent(m)
  \/ DirectAcked(m) \/ Backstop(m) \/ DirectTimeout(m)
  \/ QueueMessage(m) \/ Flush(m)

Next ==
  \/ \E m \in Message : Send(m) \/ Sending(m)
                         \/ IngestDirect(m)
  \/ \E o \in Background : SendOther(o)
  \/ \E i \in Id : RetryTimer(i)
  \/ \E receipt \in Receipt : HandleReceipt(receipt) \/ LoseReceipt(receipt)
  \/ \E r \in Rumor : \/ Receive(r) \/ SendReceipt(r) \/ SendReadReceipt(r)
                      \/ LoseCopy(r)
  \/ Restart
  \/ PeerRestart

(* Timers fire, promises of the send path resolve, a copy that is not lost *)
(* is handed over, a handler that started runs to its end, and the queue   *)
(* is flushed (OfflineQueue shows when).                                   *)
Fairness ==
  /\ \A m \in Message : WF_vars(Sending(m))
  /\ \A i \in Id : WF_vars(RetryTimer(i))
  /\ \A r \in Rumor : WF_vars(Receive(r)) /\ WF_vars(SendReceipt(r))
  /\ \A receipt \in Receipt : WF_vars(HandleReceipt(receipt))

Spec == Init /\ [][Next]_vars /\ Fairness

-----------------------------------------------------------------------------
Shown(m, state) == \E i \in Id : i[1] = m /\ Reached(tracker, i, state)
Settled(m) == \E r \in settled : r[1] = m

(* Two ticks mean that the peer's device saved the message or gave it up.  *)
(* The word of the direct channel is weaker: then the relays took a copy,  *)
(* the queue has it or is about to get it, unless the app was closed       *)
(* before it did.                                                          *)
TickIsTrue ==
  \A m \in Message :
    /\ Shown(m, "delivered") => Settled(m) \/ m \in vouched
    /\ m \in vouched => \/ Live(m) \in handed \/ entry[m] # None
                        \/ stage[m] = "backstop" \/ m \in unbacked

(* The peer has a message under two rumor ids, which it cannot tell from   *)
(* two messages, only if it got the one no relay took from the copy that   *)
(* the publish added: that rumor is not handed on to the queue. Neither    *)
(* retries nor flushes nor a direct attempt make a second one.             *)
NeverDouble ==
  \A m \in Message : {Live(m), Queued(m)} \subseteq settled =>
    Live(m) \notin handed /\ channel[m] = "none"

(* A timer is armed for a message that is sent and not acknowledged, under *)
(* its own id, with something to send again.                               *)
TimersAwaitReceipts ==
  \A i \in Id : tracker.timer[i] # None =>
    /\ tracker.timer[i].of = i
    /\ tracker.tick[i] = "sent"
    /\ Tracked(tracker, i)

(* The ticks of a message never go back, whatever the order of receipts,   *)
(* the OK, the end of the send and the flush. A message the queue          *)
(* published before it was flushed is excepted: the flush sets it back.    *)
TickNeverFalls ==
  [][\A m \in Message \ early, state \in {"sent", "delivered", "read"} :
       Shown(m, state) /\ restarts' = restarts => Shown(m, state)']_vars

(* A message the relays took reaches the peer even if they lose as many    *)
(* copies as there are retries, as long as the app runs, the tracker has   *)
(* room and the direct channel did not vouch for it.                       *)
PublishedIsKept ==
  \A m \in Message :
    {Live(m), Queued(m)} \cap handed # {} ~>
      \/ Settled(m)
      \/ restarts > 0 \/ m \in vouched
      \/ {Live(m), Queued(m)} \cap evicted # {}

(* The sender sees the second tick of a message the peer has, if no        *)
(* receipt is lost.                                                        *)
TickArrives ==
  \A m \in Message :
    Settled(m) ~> \/ Shown(m, "delivered")
                  \/ lostReceipts > 0 \/ restarts > 0 \/ peerRestarts > 0
                  \/ m \in early
=============================================================================

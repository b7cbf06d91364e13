--------------------------- MODULE ReceiveMessage ---------------------------
(***************************************************************************)
(* One direct chat on the receiving device: handleRelayMessage             *)
(* (chat-api-receive.ts), the rows of the message store, the second save   *)
(* of PhantomChatSync.onIncomingMessage, and deleteConversation.           *)
(*                                                                         *)
(* The relay pool hands rumors to the handler on several lanes (the live   *)
(* subscription and the walks), one rumor at a time per lane and one       *)
(* handler per rumor, and may hand one over again later. A handler is cut  *)
(* into steps at its awaits. It calls onMessage without waiting for what   *)
(* PhantomChatSync does, so that second writer runs beside the lanes, and  *)
(* so does a deletion of the chat by the user.                             *)
(*                                                                         *)
(* A rumor is a message, an edit of one or a notice that its sender        *)
(* deleted one. Messages in Own are this user's, echoed by relays from     *)
(* another device. Any read or write of the store may fail. Groups,        *)
(* control messages, contact requests, replies and what a row holds        *)
(* besides its text are left out.                                          *)
(***************************************************************************)
EXTENDS Naturals, FiniteSets

CONSTANTS
  Message,        \* the messages of the chat
  Own,            \* those this user sent from another device
  Enveloped,      \* those sent as a JSON envelope (files), not as plain text
  SentAt,         \* created_at of each message
  Edit,           \* the edits a message may get, by time: 1, 2, ...
  Lane,           \* the lanes of the relay pool that can be busy at once
  DeleteTimes,    \* the clock readings of deleteConversation
  Idle, NoRow,    \* an idle lane, a missing row
  MaxDeletes,     \* how often the user deletes the chat
  MaxRestarts,    \* how often the app restarts
  MaxFaults       \* how often a read or a write of the store fails

Rumor == [kind : {"message", "delete"}, of : Message]
           \cup [kind : {"edit"}, of : Message, at : Edit]

(* text is 0 for the original, or the edit the text is from.               *)
Row == [text : Edit \cup {0}, editedAt : Edit \cup {0}]
Original == [text |-> 0, editedAt |-> 0]

Step == {"start", "dedup", "lookup", "check", "put", "finish"}
Work == [rumor : Rumor, pc : Step, found : Row]

ASSUME ConstantsAssumption ==
  /\ Own \subseteq Message
  /\ Enveloped \subseteq Message
  /\ SentAt \in [Message -> Nat \ {0}]
  /\ Edit \subseteq Nat \ {0}
  /\ DeleteTimes \subseteq Nat
  /\ MaxDeletes \in Nat
  /\ MaxRestarts \in Nat
  /\ MaxFaults \in Nat
  /\ NoRow \notin Row
  /\ Idle \notin Work

VARIABLES
  row,        \* the message store: a row per message, or NoRow
  tomb,       \* the deletion watermark of the chat
  lane,       \* what each lane's handler is at
  sync,       \* PhantomChatSync: where the second save of a message is
  history,    \* ChatAPI.history, by message
  seen,       \* MessageStore.seenEventIds
  cached,     \* MessageStore.tombstoneCache holds the watermark
  clearing,   \* where deleteConversation is
  faults, restarts, deletes,   \* how often each happened

  \* what the device promised, for the properties: see Conversation
  settled, told, acked, gone,
  old,        \* the rows that are there since the session started
  ungated,    \* the gate of these could not be read, and none was told since
  unread      \* taken for new, as the look-up of their row failed

memory == <<lane, sync, history, seen, cached, clearing>>
doubts == <<ungated, unread>>
promised == <<settled, told, acked, gone, old, doubts>>
counters == <<faults, restarts, deletes>>
vars == <<row, tomb, memory, promised, counters>>

TypeOK ==
  /\ row \in [Message -> Row \cup {NoRow}]
  /\ tomb \in Nat
  /\ lane \in [Lane -> Work \cup {Idle}]
  /\ sync \in [Message -> {"none", "check", "put", "tell"}]
  /\ history \subseteq Message
  /\ seen \subseteq Message
  /\ cached \in BOOLEAN
  /\ clearing \in {"no", "tomb", "forget"}
  /\ faults \in Nat
  /\ restarts \in Nat
  /\ deletes \in Nat
  /\ settled \subseteq Message
  /\ told \subseteq Message
  /\ acked \subseteq Message
  /\ gone \subseteq Message
  /\ old \subseteq Message
  /\ ungated \subseteq Message \ Own
  /\ unread \subseteq Message \ Own

Kept == {m \in Message : row[m] # NoRow}

(* A message of the very second of the deletion passes.                    *)
Buried_Strict(m) == SentAt[m] < tomb

(* A replay at or below the watermark is of history the user deleted.      *)
Buried(m) == SentAt[m] <= tomb

At(l, kind, pc) ==
  /\ lane[l] # Idle
  /\ lane[l].rumor.kind = kind
  /\ lane[l].pc = pc

Target(l) == lane[l].rumor.of

Go(l, pc) == lane' = [lane EXCEPT ![l].pc = pc]
Done(l) == lane' = [lane EXCEPT ![l] = Idle]

(* A handler or the second save may still write or announce m: only a      *)
(* handler that has yet to pass a check that drops m does not count.       *)
Writing(m) ==
  \/ sync[m] # "none"
  \/ \E l \in Lane :
       /\ lane[l] # Idle
       /\ Target(l) = m
       /\ lane[l].pc # "start"
       /\ lane[l].pc = "dedup" => m \notin seen

(* A read or a write of the store fails.                                   *)
Fault ==
  /\ faults < MaxFaults
  /\ faults' = faults + 1

(* No replay of m can reach the disk in this session: the store remembers  *)
(* its event id. An echo of an own message is looked up on disk only.      *)
Remembered(m) == m \in seen \ Own

Init ==
  /\ row = [m \in Message |-> NoRow]
  /\ tomb = 0
  /\ lane = [l \in Lane |-> Idle]
  /\ sync = [m \in Message |-> "none"]
  /\ history = {}
  /\ seen = {}
  /\ cached = FALSE
  /\ clearing = "no"
  /\ faults = 0
  /\ restarts = 0
  /\ deletes = 0
  /\ settled = {}
  /\ told = {}
  /\ acked = {}
  /\ gone = {}
  /\ old = {}
  /\ ungated = {}
  /\ unread = {}

-----------------------------------------------------------------------------
(* The pool hands a rumor over: one at a time has a handler (Inbox shows   *)
(* it), and a rumor is handed over again only once the pool has forgotten  *)
(* it, long after the second save.                                         *)
Deliver(l, r) ==
  /\ lane[l] = Idle
  /\ \A k \in Lane : lane[k] # Idle => lane[k].rumor # r
  /\ r.kind = "message" => sync[r.of] = "none"
  /\ lane' = [lane EXCEPT ![l] = [rumor |-> r, pc |-> "start",
                                  found |-> Original]]
  /\ UNCHANGED <<row, tomb, sync, history, seen, cached, clearing, promised,
                 counters>>

(* A delete notice removes the row, in one transaction. Nothing on disk    *)
(* remembers it. The deletion is for good if nothing is writing the row    *)
(* and this session has seen the message.                                  *)
HandleDelete(l) ==
  LET m == Target(l) IN
  /\ At(l, "delete", "start")
  /\ Done(l)
  /\ row' = [row EXCEPT ![m] = NoRow]
  /\ gone' = IF m \in Kept /\ Remembered(m) /\ ~Writing(m)
             THEN gone \cup {m} ELSE gone
  /\ old' = old \ {m}
  /\ UNCHANGED <<tomb, sync, history, seen, cached, clearing, settled, told,
                 acked, doubts, counters>>

(* getByAppMessageId: an edit names the app id of the message, which the   *)
(* row of a plain text message does not hold.                              *)
FindOriginal(m) == IF m \in Enveloped THEN row[m] ELSE NoRow

(* An edit whose text is there already is dropped.                         *)
EditApplied(r, original) ==
  original.text = r.at /\ original.editedAt >= r.at

(* An edit reads the row it changes...                                     *)
ReadOriginal(l) ==
  LET r == lane[l].rumor
      original == FindOriginal(r.of) IN
  /\ At(l, "edit", "start")
  /\ IF original = NoRow \/ EditApplied(r, original)
     THEN Done(l)
     ELSE lane' = [lane EXCEPT ![l].pc = "check", ![l].found = original]
  /\ UNCHANGED <<row, tomb, sync, history, seen, cached, clearing, promised,
                 counters>>

(* What an edit, a delete notice or an echo asks of the store fails: an    *)
(* edit is dropped, and the handler of the others throws.                  *)
HandlerFails(l) ==
  /\ Fault
  /\ \/ At(l, "edit", "start")
     \/ At(l, "delete", "start")
     \/ At(l, "message", "lookup") /\ Target(l) \in Own
  /\ Done(l)
  /\ UNCHANGED <<row, tomb, sync, history, seen, cached, clearing, promised,
                 restarts, deletes>>

(* A message of a blocked sender, or out of the time window, is dropped:   *)
(* an edit and a deletion are handled before the sender is looked at.      *)
Refuse(l) ==
  /\ At(l, "message", "start")
  /\ Done(l)
  /\ UNCHANGED <<row, tomb, sync, history, seen, cached, clearing, promised,
                 counters>>

(* The tombstone gate. An echo of an own message branches off before it.   *)
Gate(l) ==
  LET m == Target(l) IN
  /\ At(l, "message", "start")
  /\ IF m \in Own THEN Go(l, "lookup") /\ UNCHANGED cached
     ELSE /\ IF Buried(m) THEN Done(l) ELSE Go(l, "dedup")
          /\ cached' = TRUE
  /\ UNCHANGED <<row, tomb, sync, history, seen, clearing, promised, counters>>

(* The watermark cannot be read, which a session that has read it does not *)
(* do again: the gate falls open.                                          *)
GateFails(l) ==
  LET m == Target(l) IN
  /\ Fault
  /\ At(l, "message", "start")
  /\ m \notin Own
  /\ ~cached
  /\ Go(l, "dedup")
  /\ ungated' = ungated \cup {m}
  /\ UNCHANGED <<row, tomb, sync, history, seen, cached, clearing, settled,
                 told, acked, gone, old, unread, restarts, deletes>>

(* Only the history is asked, not the ids the store has seen.              *)
InMemory_HistoryOnly(m) == m \in history

(* After the awaits of the peer mapping, what memory knows of the message: *)
(* isDuplicate and hasSeenEventId.                                         *)
InMemory(m) == m \in history \cup seen

Dedup(l) ==
  LET m == Target(l) IN
  /\ At(l, "message", "dedup")
  /\ IF InMemory(m)
     THEN Done(l) /\ history' = history \cup {m}
     ELSE Go(l, "lookup") /\ UNCHANGED history
  /\ UNCHANGED <<row, tomb, sync, seen, cached, clearing, promised, counters>>

(* The disk is not asked: only what this session handled is a replay.      *)
Lookup_MemoryOnly(l) ==
  LET m == Target(l) IN
  /\ At(l, "message", "lookup")
  /\ history' = IF m \in Own THEN history ELSE history \cup {m}
  /\ Go(l, "check")
  /\ UNCHANGED <<row, tomb, sync, seen, cached, clearing, promised, counters>>

(* getByEventId: a row on disk makes the message a replay.                 *)
Lookup(l) ==
  LET m == Target(l) IN
  /\ At(l, "message", "lookup")
  /\ history' = IF m \in Own THEN history ELSE history \cup {m}
  /\ IF m \in Kept
     THEN Done(l) /\ seen' = seen \cup {m}
     ELSE Go(l, "check") /\ UNCHANGED seen
  /\ UNCHANGED <<row, tomb, sync, cached, clearing, promised, counters>>

(* The row of a peer's message cannot be looked up: it is taken for new.   *)
LookupFails(l) ==
  LET m == Target(l) IN
  /\ Fault
  /\ At(l, "message", "lookup")
  /\ m \notin Own \cup seen
  /\ history' = history \cup {m}
  /\ Go(l, "check")
  /\ unread' = unread \cup {m}
  /\ UNCHANGED <<row, tomb, sync, seen, cached, clearing, settled, told, acked,
                 gone, old, ungated, restarts, deletes>>

-----------------------------------------------------------------------------
(* saveMessage: nothing is written at or below the watermark...            *)
CheckTombstone(l) ==
  LET m == Target(l) IN
  /\ lane[l] # Idle
  /\ lane[l].pc = "check"
  /\ IF ~Buried(m) THEN Go(l, "put") /\ UNCHANGED settled
     ELSE IF lane[l].rumor.kind = "edit" THEN Done(l) /\ UNCHANGED settled
     ELSE Go(l, "finish") /\ settled' = settled \cup {m}
  /\ cached' = TRUE
  /\ UNCHANGED <<row, tomb, sync, history, seen, clearing,
                 told, acked, gone, old, doubts, counters>>

(* ...and a write merges into the row that is there: the first save and    *)
(* the second bring the original text and no editedAt.                     *)
Merge(existing, incoming) ==
  IF existing = NoRow \/ incoming.editedAt # 0 THEN incoming
  ELSE [incoming EXCEPT !.editedAt = existing.editedAt]

(* The edit time is kept in milliseconds.                                  *)
Incoming_InMilliseconds(l) ==
  IF lane[l].rumor.kind = "edit"
  THEN [lane[l].found EXCEPT !.text = lane[l].rumor.at,
                             !.editedAt = 1000 * lane[l].rumor.at]
  ELSE Original

Incoming(l) ==
  IF lane[l].rumor.kind = "edit"
  THEN [lane[l].found EXCEPT !.text = lane[l].rumor.at,
                             !.editedAt = lane[l].rumor.at]
  ELSE Original

Write(m, incoming) ==
  /\ row' = [row EXCEPT ![m] = Merge(row[m], incoming)]
  /\ seen' = seen \cup {m}
  /\ settled' = settled \cup {m}

Put(l) ==
  /\ lane[l] # Idle
  /\ lane[l].pc = "put"
  /\ Write(Target(l), Incoming(l))
  /\ IF lane[l].rumor.kind = "edit" THEN Done(l) ELSE Go(l, "finish")
  /\ UNCHANGED <<tomb, sync, history, cached, clearing, told, acked, gone, old,
                 doubts, counters>>

(* The ids of a message's row cannot be resolved, the watermark cannot be  *)
(* read, or the transaction aborts. The failure of a message's save is     *)
(* logged and the handler goes on; an edit or an echo is given up.         *)
SaveFails(l) ==
  LET m == Target(l) IN
  /\ Fault
  /\ lane[l] # Idle
  /\ lane[l].pc \in {"check", "put"}
  /\ lane[l].rumor.kind = "edit" /\ cached => lane[l].pc = "put"
  /\ IF lane[l].rumor.kind = "edit" \/ m \in Own
     THEN Done(l) /\ UNCHANGED settled
     ELSE Go(l, "finish") /\ settled' = settled \cup {m}
  /\ UNCHANGED <<row, tomb, sync, history, seen, cached, clearing,
                 told, acked, gone, old, doubts, restarts, deletes>>

(* The receipt leaves and onMessage starts the second save; the row of an  *)
(* echo is not saved again.                                                *)
Finish(l) ==
  LET m == Target(l) IN
  /\ At(l, "message", "finish")
  /\ Done(l)
  /\ IF m \in Own
     THEN /\ sync' = [sync EXCEPT ![m] = "tell"]
          /\ UNCHANGED acked
     ELSE /\ sync' = [sync EXCEPT ![m] = "check"]
          /\ acked' = acked \cup {m}
  /\ UNCHANGED <<row, tomb, history, seen, cached, clearing, settled, told,
                 gone, old, doubts, counters>>

-----------------------------------------------------------------------------
(* PhantomChatSync.onIncomingMessage: once the ids are mapped, it saves    *)
(* the message again...                                                    *)
SyncCheck(m) ==
  /\ sync[m] = "check"
  /\ sync' = [sync EXCEPT ![m] = IF Buried(m) THEN "tell" ELSE "put"]
  /\ cached' = TRUE
  /\ UNCHANGED <<row, tomb, lane, history, seen, clearing, promised, counters>>

SyncPut(m) ==
  /\ sync[m] = "put"
  /\ Write(m, Original)
  /\ sync' = [sync EXCEPT ![m] = "tell"]
  /\ UNCHANGED <<tomb, lane, history, cached, clearing, told, acked, gone, old,
                 doubts, counters>>

(* ...and a failure of either, or of the look-up of the ids, ends it: the  *)
(* app is not told.                                                        *)
SyncFails(m) ==
  /\ Fault
  /\ sync[m] # "none"
  /\ sync[m] = "tell" => m \in Own
  /\ sync' = [sync EXCEPT ![m] = "none"]
  /\ unread' = unread \ {m}
  /\ UNCHANGED <<row, tomb, lane, history, seen, cached, clearing, settled, told,
                 acked, gone, old, ungated, restarts, deletes>>

(* phantomchat_new_message is dispatched.                                  *)
SyncTell(m) ==
  /\ sync[m] = "tell"
  /\ sync' = [sync EXCEPT ![m] = "none"]
  /\ told' = told \cup {m}
  /\ ungated' = ungated \ {m}
  /\ unread' = unread \ {m}
  /\ UNCHANGED <<row, tomb, lane, history, seen, cached, clearing, settled,
                 acked, gone, old, counters>>

-----------------------------------------------------------------------------
(* deleteConversation: the rows first...                                   *)
DeleteRows ==
  /\ clearing = "no"
  /\ deletes < MaxDeletes
  /\ deletes' = deletes + 1
  /\ clearing' = "tomb"
  /\ row' = [m \in Message |-> NoRow]
  /\ gone' = gone \cup {m \in Kept : Remembered(m) /\ ~Writing(m)}
  /\ old' = {}
  /\ UNCHANGED <<tomb, lane, sync, history, seen, cached, settled, told, acked,
                 doubts, faults, restarts>>

(* ...then the watermark, which only moves up: what is below it and is     *)
(* neither on disk nor being written is gone for good...                   *)
SetTombstone ==
  /\ clearing = "tomb"
  /\ clearing' = "forget"
  /\ \E now \in DeleteTimes : tomb' = IF now > tomb THEN now ELSE tomb
  /\ cached' = TRUE
  /\ gone' = gone \cup {m \in Message \ Kept :
                          SentAt[m] <= tomb' /\ ~Writing(m)}
  /\ UNCHANGED <<row, lane, sync, history, seen, settled, told, acked, old,
                 doubts, counters>>

(* Either may fail, and the deletion goes on with what is left.            *)
DeleteRowsFail ==
  /\ Fault
  /\ clearing = "no"
  /\ deletes < MaxDeletes
  /\ deletes' = deletes + 1
  /\ clearing' = "tomb"
  /\ UNCHANGED <<row, tomb, lane, sync, history, seen, cached, promised,
                 restarts>>

SetTombstoneFails ==
  /\ Fault
  /\ clearing = "tomb"
  /\ clearing' = "forget"
  /\ UNCHANGED <<row, tomb, lane, sync, history, seen, cached, promised,
                 restarts, deletes>>

(* ...and last the history in memory.                                      *)
ForgetHistory ==
  /\ clearing = "forget"
  /\ clearing' = "no"
  /\ history' = {}
  /\ told' = {}
  /\ UNCHANGED <<row, tomb, lane, sync, seen, cached, settled, acked, gone, old,
                 doubts, counters>>

(* The app is closed at any point, and starts again from the disk.         *)
Restart ==
  /\ restarts < MaxRestarts
  /\ restarts' = restarts + 1
  /\ lane' = [l \in Lane |-> Idle]
  /\ sync' = [m \in Message |-> "none"]
  /\ history' = {}
  /\ seen' = {}
  /\ cached' = FALSE
  /\ clearing' = "no"
  /\ told' = {}
  /\ old' = Kept
  /\ ungated' = {}
  /\ unread' = {}
  /\ gone' = {m \in gone : Buried(m)}
  /\ UNCHANGED <<row, tomb, settled, acked, faults, deletes>>

Handle(l) ==
  \/ HandleDelete(l) \/ ReadOriginal(l)
  \/ Refuse(l) \/ Gate(l) \/ GateFails(l) \/ Dedup(l)
  \/ Lookup(l) \/ LookupFails(l) \/ HandlerFails(l)
  \/ CheckTombstone(l) \/ Put(l) \/ SaveFails(l) \/ Finish(l)

SecondSave(m) == SyncCheck(m) \/ SyncPut(m) \/ SyncFails(m) \/ SyncTell(m)

Next ==
  \/ \E l \in Lane, r \in Rumor : Deliver(l, r)
  \/ \E l \in Lane : Handle(l)
  \/ \E m \in Message : SecondSave(m)
  \/ DeleteRows \/ DeleteRowsFail
  \/ SetTombstone \/ SetTombstoneFails
  \/ ForgetHistory
  \/ Restart

Spec == Init /\ [][Next]_vars

-----------------------------------------------------------------------------
(* The promise of Conversation about the messages of the peer. Whatever    *)
(* the order of the handlers, the second saves and the deletions, whatever *)
(* read or write of the store fails, and wherever the app is closed: no    *)
(* receipt and no announcement of a message that was neither saved nor     *)
(* given up, and no message deleted for good comes back or is announced,   *)
(* but for one announcement of a message whose gate could not be read.     *)
Promise == INSTANCE Conversation WITH
  Message <- Message \ Own,
  kept    <- Kept \ Own,
  settled <- settled \ Own,
  told    <- told \ Own,
  acked   <- acked \ Own,
  gone    <- gone \ Own,
  doubted <- ungated

KeepsPromise == Promise!Spec

(* A row that was deleted with no writer of it at work stays deleted: the  *)
(* store remembers it or the watermark is above it, and no handler of a    *)
(* replay gets past the checks that look at these, or, where the gate      *)
(* could not be read, past the one saveMessage makes.                      *)
GoneIsSealed ==
  \A m \in gone : /\ row[m] = NoRow
                  /\ Remembered(m) \/ Buried(m)
                  /\ \/ m \in Own
                     \/ ~Writing(m)
                     \/ m \in ungated /\ Buried(m)

(* The app is told of a message once: not again in a session, and not when *)
(* the session found its row on disk, unless the message was deleted in    *)
(* between or the look-up of the row failed. The relays replay a message   *)
(* for as long as they hold it, on every lane and in every session.        *)
ToldOnce ==
  [][\A m \in Message \ Own :
       SyncTell(m) => m \notin told \cup (old \ unread)]_vars

(* Once the session announced a message, or found it on disk, an edit in   *)
(* its row gives way to another edit or a deletion only: neither a replay  *)
(* of the message nor a second save that is late brings the original back. *)
(* A row the handler could not look up is excepted until its second save   *)
(* is over.                                                                *)
Edited(m) == row[m] # NoRow /\ row[m].text # 0

EditSticks ==
  [][\A m \in (told \cup (old \ unread)) \ Own :
       Edited(m) /\ row'[m] # NoRow => Edited(m)']_vars

(* An edit that is handled while the row it changes is there is applied.   *)
EditIsNotDropped ==
  [][\A l \in Lane :
       /\ At(l, "edit", "start") /\ restarts' = restarts
       /\ row[Target(l)] # NoRow
       /\ ~EditApplied(lane[l].rumor, row[Target(l)])
       => (lane'[l] # Idle)]_vars

=============================================================================

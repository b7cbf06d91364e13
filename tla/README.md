# PhantomChat: a verification project

PhantomChat is a serverless messenger: the web client of Telegram Web K with its
protocol replaced by Nostr relays and WebRTC channels. Its own logic is
`src/src/lib/phantomchat/` (147 files); the rest of the tree is the inherited
interface, the desktop shell, scripts and planning documents. This directory
holds TLA+ models of that logic, the TLC configurations that check them, and
TLAPS proofs about them. Paths below are relative to `src/src/lib/phantomchat/`
unless they say otherwise.

## 1. Inventory

There is no server to hold the truth. Each device is one JavaScript process
(one tab) with its own IndexedDB; devices of one account, and the account's
peers, meet only through relays that may lose, duplicate, delay or reorder, and
through direct channels. So nearly every hard behaviour has the same shape: a
function reads state, awaits the network or the disk, and acts on what it read.

| Component | State | Operations | Talks to | What makes it correct |
|---|---|---|---|---|
| sync CRDT (`sync-crdt.ts`) | none: pure | `mergeEntry`, `mergeMaps`, `differs` | all sync adapters | outcome and payload of a merge depend on the entries only |
| sync engine (`crdt-sync.ts`) | in-flight flags, the relay snapshot | `reconcile`, `publish`, `publishWithRetry` | an adapter, the relay pool | devices converge; an unanswered query never overwrites a snapshot; a lost write is noticed |
| contacts adapter and address book (`contacts-sync-adapter.ts`, `virtual-peers-db.ts`, `add-p2p-contact.ts`) | mappings, durable deletion log, watermarks | `read`, `apply`, add, delete, clear, rename, profile refresh, inbound message | sync engine, user, receive path | deletes and deliberate re-adds win everywhere; nothing is removed that was not deleted |
| offline queue (`offline-queue.ts`) | per-chat arrays, acknowledged set, IndexedDB rows | `queue`, `flush`, `retryMessage`, `clearQueue`, restore | `ChatAPI`, relay pool | nothing is lost before a relay took it; nothing goes out twice under two identities; it drains |
| send path (`chat-api.ts`) | active chat, history, stored row | `sendMessage`, `queueMessage`, pool state handler | queue, tracker, store, pool | a message goes to the chat it was typed in and its row ends up keyed by its rumor |
| delivery tracking (`delivery-tracker.ts`, `group-delivery-tracker.ts`) | tick per message, resend closures, timers | `rekey`, `registerOutgoing`, `markSent`, `handleReceipt`, retry timers | send path, UI | ticks are true and only move forward; resends outlive the losses and stop at the receipt |
| receive path (`chat-api-receive.ts`, `phantomchat-sync.ts`) | seen ids, history, store rows | the handler of one incoming rumor, the second save, `deleteConversation` | pool, store, address book | one announcement per rumor; deleted, cleared and edited stays so |
| message store (`message-store.ts`) | rows, watermarks | save, re-key, tombstones | everything | re-keying keeps identity; watermarks only rise |
| groups (`group-api.ts`, `group-store.ts`, control messages) | roster, roles, epoch | create, add, remove, leave, admin | pool, store | members agree on the roster; a removed member stays out |
| groups, read-state and folders sync | snapshots per kind | merge, apply | sync engine, own devices | as contacts, with per-field, max-wins and last-writer merges |
| relay pool (`nostr-relay-pool.ts`, `nostr-relay.ts`) | sockets, wrap claims, watermark and gap, write health, publish buffers | publish, subscribe, history walks, poll, re-fetch, recovery | relays | every wrap a relay keeps is handled or will be asked for; one handler per rumor; quarantine never empties the write set |
| peer transport (`transport.ts`, `mesh-manager.ts`, `peerNegotiation.ts`, `transport/`) | data channels, pending acks | negotiate, deliver, acknowledge | send path | both sides end on one session; an ack is for what was sent |
| idle controller (`transport-idle-controller.ts`) | hidden/idle mode, timers | suspend and resume hooks | relay pool, voice and transport | never suspended while active |
| voice upload queue (`voice-upload-queue.ts`) | recordings in IndexedDB | enqueue, flush, clear | uploads, send path | each recording is sent once |
| incoming scheduling, device sync, presence, reactions, embedded relay, crypto, virtual MTProto server | see PROJECT.json | | | |

The inherited Telegram client and the Electron shell are outside this project.

The hazards these components are exposed to are listed in `PROJECT.json`, each
at its line and with the properties that would notice it.

## 2. Modules

| Module | Models | Proofs |
|---|---|---|
| `SyncCrdt` | the merge operators of `sync-crdt.ts` | |
| `SyncReplicas` | replicas that write entries and merge each other, for one id | `SyncReplicasProofs` |
| `ContactsSync` | the sync engine, the contacts adapter and the address book on several devices; takes `SyncCrdt` by INSTANCE | `ContactsSyncProofs` |
| `OfflineQueue` | the offline queue with the steps of `ChatAPI` that fill and drain it | `OfflineQueueProofs` |
| `Inbox` | the inbound half of the relay pool: from a wrap on a relay to the receive handler and the watermark | `InboxProofs` |
| `Conversation` | abstract: what a device promises about the messages of a chat | |
| `ReceiveMessage` | the receive handler, the second save and the deletion of a chat; implements `Conversation` | `ReceiveMessageProofs` |
| `Delivery` | the send path, the direct channel, the tracker and the peer, which is `Conversation` | `DeliveryProofs` |
| `MCSyncReplicas`, `MCContactsSync`, `MCOfflineQueue`, `MCInbox`, `MCReceiveMessage`, `MCDelivery` | values for TLC | |
| `SequenceFacts` | nothing: lemmas on sequences, least numbers and bounded iteration that the proofs share | |

They meet where the components do. `Inbox` hands rumors to a handler, one
handler per rumor and possibly again later; `ReceiveMessage` is that handler and
takes exactly this as its input. What it owes in return is `Conversation`, and
`Delivery` puts `Conversation`, not the handler, at the far end of the sender.
`Delivery` in turn sees of `OfflineQueue` only that a queued message is flushed
under one rumor, which is what `OfflineQueue`'s properties say.

### SyncCrdt, SyncReplicas

An entry is a tombstone or a live entry with a time, the stamp of its last
deliberate add (0 for an absent `deliberateAddAt`) and a payload. The code
breaks ties between payloads by comparing stable serializations; the model
takes that order as a constant relation `Above` on an arbitrary set of payloads
and assumes only that it is a strict total order. `SyncReplicas` runs
`mergeEntry` the way the engine leaves it to chance: each replica folds in its
own entries and the others' results, in any order, on either side of the merge
and repeatedly. `seen[r]` is a history variable, the set of entries that went
into `acc[r]`.

### ContactsSync

One device's tab is the variables `mapping`, `deletedRow`, `watermark`
(IndexedDB), and `pass`, `dirty`, `applying`, `admitted` (memory); `relay` is
the replaceable event. A pass is the code's sequence, cut at its awaits:

| Code | Action |
|---|---|
| `adapter.read()`, with its tear-down of resurrected mappings and clearing of outranked rows | `Read` |
| `fetchRemote`: answered / no snapshot / no answer or unreadable | `FetchOk`, `FetchAbsent`, `FetchUnavailable` |
| `adapter.apply()`, per entry | `ApplyDelete`, `ApplyAdd` then `ApplyPin`, `ApplyUpdate` |
| `publishMap` (resolves at hand-off) | `Write` |
| the read-back of `publishOnce` | `Verify` |
| `publish()` while one is in flight / while a pass applies / retries | `QueueRerun`, `Start`, `Abandon` |

`FetchOk` computes the merge and decides on the apply and the write from the
map `Read` took, whatever the user did since: that is the code's behaviour and
the source of one of the findings. Reconcile and publish have passes of their
own, which interleave; `applying` is the one flag they share. User acts are
deliberate adds, deletes, cleared histories, renames, profile refreshes, and
inbound messages (whose check of the deletion row and whose write are two
steps). An add or a delete may be cut in half by a crash.

Abstractions: one relay store, so a relay that never got the snapshot is the
`FetchAbsent` fault; one clock for all devices; whole seconds, the unit of
every comparison; display name and `addedAt` stand for the payload; the retry
cap of `publishWithRetry` is a nondeterministic give-up; the clearing writes
and the mapping write of one `addP2PContact` call on the sync path are one
step; the conversation residue wipe, the leftovers sweep and sync nudges change
no synced state (a nudge starts a reconcile, which may start at any time here).

### OfflineQueue

Each `await` on the relay pool is a cut. `object[m]` is the `QueuedMessage` in
memory, `disk` the object store, `io` the IndexedDB writes that were issued and
not awaited, in order. `flush` is the flush in flight with the array it
iterates (it keeps the array when `clearQueue` replaces it, as the code does)
and the publish it is waiting for.

| Code | Action |
|---|---|
| `sendMessage` up to the decision to queue; `queueMessage`, for the active chat, or the backstop of a direct send, for its own (`Addressees`); with no active chat; `queue()` trying the relays first | `SendMessage`, `QueueMessage` (`QueueFor`), `QueueFails`, `QueuePublished` |
| `handlePoolStateChange` and the start of `doFlush` | `PoolStateChange` |
| `doFlush` after each publish, to the next one or the end | `FlushPublished` (`FlushSent`, `FlushRefused`, `FlushEnd`) |
| `retryMessage`, `clearQueue` | `RetryMessage`, `RetryPublished`, `ClearQueue` |
| completion of an IndexedDB write; the constructor's restore | `WriteDone`, `Restore` |

A publish ends in one of three ways: "sent" (handed to a relay; the pool
buffers while that socket opens), "refused" (wrapped, but there was no relay to
write to) and "failed" (the wrap or the call failed). A live send that succeeds
never meets the queue and is left out; the pool's own buffers are not modelled,
so "published" means handed over. `retryMessage` and `clearQueue` have no
caller in the repository at this commit; they are part of the class and one run
includes them. Two `retryMessage` calls for one message in flight start one
publish.

### Inbox

One action is the code between two awaits. A wrap (its number is its place in
the order of publishing, `Stamp` its time, `Rumor` the first wrap of the same
rumor) is claimed in `seenWrapIds`, unwrapped by the worker, and handed over by
one of several lanes; only `disk` (the watermark and the gap record of
localStorage) and `saved` survive a `Crash`.

| Code | Action |
|---|---|
| a relay connects: the live request, and on a reconnect the retry budget and the relay's own walk; it disconnects; the tab resumes | `Connect`, `Disconnect`, `Resume` |
| `handleEvent` of the live subscription up to the unwrap | `Push` |
| the worker answers, with `commitWrapId` or `releaseWrapId` | `UnwrapOk`, `UnwrapFails` |
| `getMessagesPaged` on each relay; `queryPage` that ends early | `WalkAnswered`, `WalkUnanswered` |
| `backfillRecent` and `backfill`; `applyWalkEvidence`; the loop over the messages | `StartPoll`, `WalkResolves`, `WalkEnds` |
| `refetchPendingWraps` | `RefetchAnswered`, `RefetchUnanswered` |
| `handleIncomingMessage`, `dispatchMessage`, the handler's end and the watermark | `Dispatch`, `Delivered`, `DeliveryFails` |
| `drainUndelivered` | `Attach` |

The pages of one relay are one step (`Walked` is the loop of `getMessagesPaged`
as a function of the page number); a rumor is either saved or, when its handler
throws, `dropped`. Left out: receipts and control envelopes, the caps of the
seen-set and of the deferred buffer, unregistering a consumer, `catchUpInbox`,
which is another caller of the same walk, and the minimum interval between two
walks of a relay.

### Conversation, ReceiveMessage

`Conversation` is five sets of messages (on disk, settled, announced,
acknowledged, gone for good) and two promises: nothing is acknowledged or
announced before it is settled, and nothing gone for good comes back.
`ReceiveMessage` implements it (`KeepsPromise`): `kept` is the set of rows,
the others are history variables the handler's steps update.

| Code | Action |
|---|---|
| the pool calls the handler on a lane | `Deliver` |
| a delete notice; an edit up to the row it changes | `HandleDelete`, `ReadOriginal` |
| the blocked-sender and time-window checks; the tombstone gate and the branch for own echoes; `getTombstone` failing | `Refuse`, `Gate`, `GateFails` |
| the in-memory dedup; `getByEventId` and the push to history; its failing | `Dedup`, `Lookup`, `LookupFails` |
| a failed read of an edit's original, a failed delete by notice | `HandlerFails` |
| `saveMessage`: the tombstone check, the transaction, its failure | `CheckTombstone`, `Put`, `SaveFails` |
| the receipt and `onMessage` | `Finish` |
| `PhantomChatSync.onIncomingMessage`, not awaited by the handler | `SyncCheck`, `SyncPut`, `SyncFails`, `SyncTell` |
| `deleteConversation`: rows, watermark, history; each write failing | `DeleteRows`, `SetTombstone`, `ForgetHistory`, `DeleteRowsFail`, `SetTombstoneFails` |

A row is its text (0, or the edit it is from) and its edit time. "Gone" is
defined narrowly: a message counts as deleted for good when no handler or second
save was at work on it and memory or the watermark remembers it, because a
deletion with a writer in flight is undone by the code (section 4). Every read
and write of the store may fail where the code catches it. `getTombstone` reads
the disk only while `cached` is false, so it fails after a start and never once
it answered; the gate then lets everything by. Two history variables remember
this: `ungated` the messages that passed a gate that could not be read,
`unread` those taken for new because their row could not be looked up. The
bound of `seenEventIds` (`SEEN_CAP`) is ignored.

### Delivery

A message has an app id, and the ids of the rumors it is published as: one of
the live send, one the queue may make. `tracker` is the `DeliveryTracker` (tick
per id, resend closures in order of registration, timers), `stage` the point
`sendMessage` has reached, `channel` the direct copy and its OK, `entry` the
queue, `copies` and `receipts` what is on the relays.

| Code | Action |
|---|---|
| `sendMessage`: tracker and row; direct first; publish, with the copy it adds on the direct channel; not connected; after the row update | `Send`, `DirectFirst`, `Publish`, `NotPublished`, `MarkSent` |
| the OK of the direct channel, its timeout | `DirectAcked`, `DirectTimeout` |
| the backstop entry of a direct send, after the row update and the awaits of `queue()` | `Backstop` |
| `queueMessage`, `doFlush` with `handleQueueFlushed` | `QueueMessage`, `Flush` |
| the resend timer, `handleReceipt` | `RetryTimer`, `HandleReceipt` |
| the peer: a frame from the channel, the handler, delivery and read receipts | `IngestDirect`, `Receive`, `SendReceipt`, `SendReadReceipt` |

The environment loses copies and receipts (`LoseCopy`, `LoseReceipt`), closes
either app (`Restart`, `PeerRestart`) and sends messages of other chats, which
take room in the tracker (`SendOther`). Whether a message is a file is chosen in
`Init`: the receipt of a file names the app id. Left out: the group tracker, a
blocked sender, the sender's own rows.

## 3. Runs

| Run | Instance | Shows |
|---|---|---|
| `merge` | 2 replicas, 2 payloads, times and stamps 0..2, 3 different entries | outcome and evidence of a merge, and the payload of live merges, are functions of the set merged |
| `contacts_safety` | 2 devices, 1 peer, both passes and all six acts racing, 2 acts, clock to 2 | `RemovalIsDeleted`, `NoInventedProof`, `RowDroppedForAdd` |
| `contacts_converge` | 2 devices, 1 peer, 3 acts (add, delete, profile) between passes, clock to 3 | `EventuallySameContacts`, `DeleteSticks`, `AddSticks` |
| `contacts_faults` | both passes, 1 add or delete at any point, 1 crash / failed query / lost write | `EventuallySameContacts`, `OldSnapshotReplaced` |
| `outbox_safety` | 3 messages in 2 chats, one already sent directly, 1 crash, 1 chat switch | `KeptUntilPublished`, `AcknowledgedLeavesDisk`, `NoFlushAfterAcknowledge`, `OneRumorPerLife`, `SelfCopyPublished` |
| `outbox_drains` | 2 messages of one chat, each out of retries after 1 refusal in a flush (`MaxRetry` = 1), retry and clear beside the flush, 1 crash, flapping relays | `EventuallyPublished`, `RecoverableUntilPublished` |
| `inbox_faults` | 1 relay, 3 wraps of 2 rumors, 1 failed unwrap, 1 lost socket / unanswered query / failed handler / crash | `ClaimsAreHeld`, `WatermarkIsSaved`, `OneHandlerPerRumor`, `InReachKept` |
| `inbox_retries` | 1 relay, backlog of 2 and 1 later, pages of 2, one wrap that never unwraps, 3 failed unwraps, fuzz 1 | `InReachKept`, `EventuallySaved` |
| `receive` | 1 message of the peer (a file) and 1 own echo, 2 edits, 2 lanes, 1 deletion of the chat, 2 restarts, 1 failed read or write of the store | `KeepsPromise`, `GoneIsSealed`, `ToldOnce`, `EditSticks` |
| `delivery` | 1 message (text or file) and 1 of another chat, room for 1, 3 retries, 3 lost copies, 1 lost receipt, 1 restart of either side | `TickIsTrue`, `NeverDouble`, `TimersAwaitReceipts`, `TickNeverFalls`, `PublishedIsKept`, `TickArrives` |
| `contacts_readd_reverted` | acts during passes | violation of `AddSticks` |
| `receive_text_edit` | a text message and an edit of it | violation of `EditIsNotDropped` |

**Bounds.** One peer is enough for contacts: no code compares entries of
different ids. Two devices are the smallest that can disagree; with three the
relay still holds one snapshot and a pass talks only to it. The clock bound
leaves room for an add before, in and after the second of a delete; at the
bound seconds still pass without being counted, so a second write is never
blocked for ever. Three messages in two chats give a queue with two messages, a
flush for a chat that is not the active one, and a message that joins an array
under iteration. One crash is the interesting number for both systems: what it
can separate is one write from the next. Symmetry of devices is used only in
`contacts_safety`, whose properties hold no liveness.

In `Inbox` a page of two and one page a walk are the smallest for which a walk
is truncated with three wraps; pages that end in the middle of a second are
possible with two wraps of one stamp only, which the instances do not have. One
relay still gives three lanes that race (live, poll, reconnect); with two
relays the faults run is out of TLC's time. The fuzz window is 0 in
`inbox_faults`, so that what the watermark hides is not hidden again by the
window, and 1 in `inbox_retries`. The third wrap of `inbox_faults` is the first
message wrapped again. In `ReceiveMessage` nothing relates two messages of one
chat but the watermark, so one of each kind, before and after it, are enough;
two lanes are the smallest that interleave, and a second restart is needed to
see a row found by the session after the one that announced it. Lanes are
symmetric there (no liveness is checked). In `Delivery` messages meet only in
the tracker's bound, which the message of another chat fills. As many copies
can be lost as there are retries: one more and the message is lost, which
`PublishedIsKept` would show.

**Deadlock** is checked everywhere but in `delivery`, where the system really
comes to rest: everything delivered, no timer left, bounds used up.

**Exemptions.** Some properties name what they do not cover, since the code
does not either. `InReachKept` excludes the steps of `LossStep`: a crash, a lost
socket, an unanswered query, a walk that timed out part way, a watermark that
moves over what another lane still holds, a poll that clears a gap it did not
walk, and a walk that may end in the middle of its first second (impossible in
the two runs, whose stamps are distinct). Everything else, and in particular every failed unwrap, truncated walk,
retry budget and second wrap, keeps every message in reach; and
`EventuallySaved` then says that what stays in reach arrives. Both are about one
relay: with more, a wrap that one relay holds is out of reach of a walk or
re-fetch made while that one is away. `TickNeverFalls`
and `TickArrives` exclude messages the queue published before their first
flush; `PublishedIsKept` a message the direct channel vouched for or the
tracker had no room for. `RecoverableUntilPublished` excludes a cleared queue. `RowDroppedForAdd` excludes
the drop by a pass whose `read()` came before the row (`ReadBeforeRow`).
`GoneIsSealed` and `KeepsPromise` leave out messages whose gate could not be
read (`ungated`), `ToldOnce` and `EditSticks` those whose row could not be
looked up (`unread`); each exemption is of one message, and ends at the latest when the
app is told of it or with the session. `TickIsTrue` names the window
between the tick of a direct send and its queue entry (stage `backstop`) and
what a closed app leaves of it (`unbacked`); `NeverDouble` names a live rumor no
relay took that the peer has from the added direct copy.

**Fairness.** A pass step is the answer to an await the code waits for, and
passes are started by timers that never stop (the 30-minute reconcile, the
debounced publish): weak fairness on each pass, and on the clock. Nobody owes an
act or a fault, and their number is bounded, so convergence is claimed from the
moment they stop. In `OfflineQueue` every await is answered, IndexedDB writes
complete, and the pool reconnects. `FlappingSpec` adds what the code relies on
and does not provide: relays that keep coming and going while the tab is
connected, since a flush starts only at a pool state change. In `Inbox` sockets
reconnect (the pool's recovery timer), what was asked is answered or times out,
the worker answers one way or the other, handlers return, `ChatAPI` registers
and the poll's timer fires; nothing is owed for `Resume`, `Publish` or any
fault. In `Delivery` timers fire, the promises of the send path resolve, a copy
or receipt that is not lost is handed over, a handler runs to its end and the
queue is flushed (the question of `outbox_drains`); a read receipt, a restart
and a loss are never owed.

## 4. What the code does otherwise than it says

Found by the violation runs:

1. **A re-add made during a pass is reverted** (`contacts_readd_reverted`).
   `apply()` removes the contact on the strength of a map read before the relay
   query, and stamps the row and watermark over the user's new add.
2. **The edit of a plain text message is dropped** (`receive_text_edit`). An
   edit names the app id of the message. Plain text travels as the bare content
   of the rumor, so the receiver's row knows the rumor id only, and
   `getByAppMessageId` finds nothing; `chat-api-receive.ts:276` says the lookup
   "works regardless of whether the original row is sender-side (eventId == app
   id) or receiver-side (appMessageId column)". Files travel in an envelope with
   the app id and are found.

Seen while modelling, without a run of their own. Contacts:

- A cleared history becomes a delete: its watermark is harmless only while the
  mapping lives, and when the mapping goes for another reason it is published as
  a tombstone (`contacts-sync-adapter.ts:155`; the comment at `:35` says
  "Watermark-sourced deletes never tear down").
- A tie is never settled (`contacts-sync-adapter.ts:266`): a restored contact
  has the merged `updatedAt` and an `addedAt` of its own; the merge prefers one
  of the two payloads and the other device never stores it, so every later pass
  finds the same difference (`virtual-peers-db.ts:367`: "the merge converges to a
  fixed point").
- The sync path clears the durable deletion row unconditionally
  (`add-p2p-contact.ts:163`): a delete made during the pass loses its row.
  `RowDroppedForAdd` says that a row is lost in no other way.
- A rename schedules no publish (`rename-p2p-contact.ts:60`); siblings learn it
  from the next reconcile.

Outgoing:

- Messages of other chats are stranded: only the active chat is flushed
  (`chat-api.ts:1795`; `offline-queue.ts:6` says "When connectivity returns,
  queued messages are flushed").
- A chat switch redirects a message: the fallback reads the active chat again
  after the awaits of the failed publish (`chat-api.ts:1485`).
- A refused publish computes a backoff and never waits for it
  (`offline-queue.ts:490`): with steady relays a refused message is not tried
  again, hence `FlappingSpec`.
- A crash between the hand-off and the saved rumor makes a second rumor
  (`offline-queue.ts:454`); `OneRumorPerLife` counts exactly those.
- A message refused because there was no relay to write to keeps its rumor and
  is retried without a self copy; `SelfCopyPublished` is about messages that
  travelled directly first.
- A `retryMessage` beside a flush can make two rumors, and drops the rumor of an
  attempt that failed; `clearQueue` during a flush lets the flush's end write
  the old array back over what was queued since, and only a restart reads those
  rows again.
- A flush asked for one chat while another's is in flight is answered with that
  flush (`offline-queue.ts:396`).
- A live publish that failed after it made a rumor leaves the tracker and the row
  re-keyed to it; the queue mints another, and `handleQueueFlushed` finds no row.
- The wraps of such a publish still go to the peer over the direct channel
  (`chat-api.ts:1014-1052`: "the receiver dedups whichever lands second for
  free"), but `queueMessage` is not given their rumor (`directRumor` is undefined
  there): what the peer got and what the queue sends later have different ids,
  and the peer shows two messages. `NeverDouble` says that this is the only way.
- The second tick of a direct send shows before its backstop entry exists: the
  row is updated and `queue()` awaits in between (`chat-api.ts:1476`, then
  `1104-1132` and `offline-queue.ts:333-371`). An app closed in that window
  leaves no copy for the peer's other devices, nor one for the sender's.
- A message published by `queue()` while the pool is connected is published again
  at the next flush, which sets a delivered tick back to sent (`early`).
- The stored tick can be overwritten by a later save of the row
  (`virtual-mtproto-server.ts:2663`, `chat-api.ts:1107`), and an app closed
  between the row and the publish leaves "sending" for ever.
- The receipt of a file names its app id (`chat-api-receive.ts:589`), though
  `chat-api.ts:1054` says text and media receipts reference the rumor id: the
  tick shows, but the retries registered under the rumor id run to their end.
- A lost receipt is never repaired: a duplicate is not acknowledged again, and a
  walk of the history claims a receipt's wrap and leaves it unhandled
  (`nostr-relay.ts:1708-1729`).
- The OK of the direct channel is sent once the pool has been given the wrap,
  before any handler, and even if it could not be unwrapped
  (`transport/p2p-receipts.ts:95`; `delivery-tracker.ts:276` takes it for a
  delivery). `TickIsTrue` has the weaker claim for such a message.

Incoming, from the relay to the handler:

- At a cold start the poll walks before any relay is connected
  (`nostr-relay-pool.ts:2748-2794`), the first connect starts no walk, and the
  live request replays one page: older wraps wait for the next poll, and a
  message of that page moves the watermark past them. The model reaches this as
  a watermark that moves over wraps not fetched yet.
- A full page whose oldest wrap has exactly the second the walk starts from ends
  the walk as "exhausted" (`nostr-relay.ts:852`), though more wraps of that
  second may lie below the page: they are not fetched, and a gap over them is
  cleared. With two wraps of one stamp TLC reaches this in nine steps.
- The watermark moves over messages that other lanes hold and have not saved, and
  over a handler that threw; a crash then leaves them below it.
- A poll that began before a gap was recorded may clear it; a page that times
  out part way raises no gap; an unanswered re-fetch forgets the released ids, and
  so does one that could not ask the only relay with the wrap, because that is not
  connected (`nostr-relay-pool.ts:2271`; `:2274` says "Ignorance is not absence —
  keep the ids" of no connected relay at all);
  an unwrap that ends after its page timed out is handed to nobody, with its
  claim kept; while a gap is open every walk asks only below its cursor.

Incoming, the handler:

- A failed read of the deletion watermark is logged and the message let through
  (`chat-api-receive.ts:399-401`). `saveMessage` reads the watermark again and
  may still refuse the row, but the receipt and `onMessage` follow all the same:
  a message of a deleted chat is announced.
- A failed `getByEventId` is logged too (`chat-api-receive.ts:490-492`), and the
  replay of a message on disk counts as new: it is announced again, and its
  original text is saved over an edit.
- Messages, echoes and edits more than three days old are dropped by the
  created_at window (`chat-api-receive.ts:229`), though walks recover older
  history and the watermark moves past it.
- An edit or a delete notice that arrives before its message has no effect, and
  an older edit that arrives later overwrites a newer one
  (`chat-api-receive.ts:301-303`).
- The second save writes the original text again: an edit or a deletion that
  falls between the two saves is undone. `EditSticks` begins at the announcement,
  which is later.
- A delete notice leaves no mark: after a restart a replay restores the message.
  The user's own copy of a notice has no effect on the other devices.
- An own echo passes no tombstone gate before `saveMessage`'s own.
- `deleteConversation` removes the rows before it writes the watermark: a handler
  in between brings a message back (`chat-api.ts:1667`).
- A blocked sender's edits and delete notices still apply.
- The receipt leaves even when the save was skipped or failed: to the sender
  "delivered" means saved or given up (`settled`).

## 5. Proofs

Every safety invariant the runs check is also a theorem, and so are the action
properties but one; each theorem holds for all values of the constants that
satisfy the assumptions named with it. TLC evaluates those assumptions in the
runs.

`SyncReplicasProofs`, for any set of replicas, payloads, times and bounds
(`PayloadOrder`, `ReplicasAssumption`):

- `TypeCorrect`: `Spec => []TypeOK`;
- `OutcomeOrderIndependent`: `Spec => []OutcomeIsFoldOrderIndependent`;
- `EvidenceLatest`: `Spec => []EvidenceIsLatest`;
- `LiveEntriesConverge`: `Spec => []LiveMergesConverge`.

Whether an item is deleted is not inductive: the next merge is decided by a
number the outcome does not mention. `IInv` therefore says that a merged entry
*summarizes* the entries behind it: a tombstone carries the time of the latest
delete and no add in the set is later; a live entry carries the latest
deliberate add and every delete is earlier. The lemma `MergeSummary` joins two
summaries, one case per pair of kinds, from small lemmas about the merge
operators; the inductive step is then one application per action. Which payload
survives needs a second invariant, `LInv`: without deletes in the set the merged
entry is the greatest of it, by `updatedAt` and then by `Above`, and the summary
gives its stamp. The greatest element of a total order is unique, so two
replicas that merged the same entries hold the same one.

`ContactsSyncProofs`, for any devices, contacts, names, kinds of act and bounds
(`ContactsAssumption`, `NoMappingIsNone`; the stores start as `Init` says):

- `TypeCorrect`: `Spec => []TypeOK`;
- `NoInventedProofHolds`: `Spec => []NoInventedProof`;
- `RemovalsAreDeletions`: `Spec => RemovalIsDeleted`;
- `RowsGoForAdds`: `Spec => RowDroppedForAdd`, with acts at any point and both
  kinds of pass, the racing pass being an exception the property names (section
  4).

`NoInventedProof` speaks of the address books and the relays, but a stamp gets
there through the maps a pass read or merged some awaits ago, so it is not
inductive. `IInv` bounds the live entries of those maps too (`PassesWithin`),
says that the entries apply() still has to write belong to the merged map and
that the one being pinned is live, and that no add is later than the clock, so
that a new add only raises the bound (`Raised`). `MergeEntryWithin` and
`MergeMapsWithin` carry the bound through the merge; `PassMoved`,
`MappingWritten` and the `...Kept` lemmas say what a step that moves one pass,
writes one mapping or leaves a part alone owes; then there is one lemma per
action.

`RemovalIsDeleted` needs where tombstones come from. `DInv` traces them: every
deletion row, every tombstone in a map of a pass or on the relay, and the
watermark of a peer without a mapping, goes back to a deletion by a user, and
none is later than the clock. `RowDroppedForAdd` needs what a pass knows:
`QInv` says that where a pass applies a live entry over a deletion its `read()`
found, there was an add no earlier than that deletion. A row the pass drops is
then no later than what it read, and so outranked, or was written since.

`ReceiveMessageProofs`, for any messages, edits, lanes, times and bounds
(`ConstantsAssumption`):

- `ReceiveTypeOK`: `Spec => []TypeOK`;
- `GoneStaysGone`: `Spec => []GoneIsSealed`;
- `AnnouncedOnce`: `Spec => ToldOnce`;
- `EditIsKept`: `Spec => EditSticks`;
- `DeviceKeepsPromise`: `Spec => KeepsPromise`, the refinement: the initial
  state of `ReceiveMessage` is one of `Conversation`, and each of its steps is a
  step of `Conversation` or a stutter.

The properties speak of rows, announcements and deletions; what decides them is
where a handler or a second save is. `IInv` says it: a message has one writer
(`OneAtATime`), an announced message is remembered in memory or lies below the
watermark, so that the next handler of it is turned away (`ToldIsKnown`), a
handler past the look-up is of a message neither announced nor found by the
session (`FreshLane`, `FreshSync`), an own echo has no second save (`OwnSync`),
what the session found is on disk (`old`), and no write of a gone message is
about to happen (`PutIsAlive`). Where a read failed the same facts hold of every
message but the marked ones: `GateIsRead` says that nothing was announced until
the watermark is in memory, and only before that can the gate fail; the two
freshness conditions except `unread`. There is one lemma per action and conjunct the
action can disturb; the action properties and the refinement then follow from
`IInv` step by step.

`OfflineQueueProofs`, for any chats, messages and bounds (`QueueAssumption`,
`SentinelAssumption`):

- `OutboxTypeOK`: `Spec => []TypeOK`;
- `PlacesHold`: `Spec => [](TypeOK /\ Places)`;
- `MessagesAreRecoverable`: `Spec => []RecoverableUntilPublished`;
- `SelfCopiesArePublished`: `Spec => []SelfCopyPublished`;
- `MessagesAreKept`: `Spec => []KeptUntilPublished`, without `clearQueue`;
- `AcknowledgedAreNotFlushed`, `AcknowledgedVanish`, `OneRumorInEachLife`:
  `Spec => []NoFlushAfterAcknowledge`, `[]AcknowledgedLeavesDisk` and
  `[]OneRumorPerLife`, without `retryMessage`.

The two exclusions are assumptions on the constant `Operator`; no code of the
repository calls either operation, and with it the property fails (section 4).
The base of the argument is `Places`: an unsettled message is in exactly one
array, once; the array a flush iterates is the chat's own unless it was cleared;
what a restore is about to bring back is nowhere else; and a save was issued only
for a message the queue took. On it stand, one each, the part of the invariant a
theorem needs: the writes issued and not done leave an unpublished message its
row (`Recoverable`); whoever may publish a direct message owes the self copy
(`SelfOwed`); an unpublished message is queued (`Kept`); what is left of the
array of a flush is not acknowledged (`Unacked`); the writes issued leave an
acknowledged message no row (`LeavesDisk`); and the rumor a message will be
published under next is the one of this life or a new one (`OneRumor`). The
array operations come from `SequenceFacts`.

`InboxProofs`, for any relays, wraps, windows, page sizes and retry limits
(`InboxAssumption`, which also keeps the names of relays apart from the model's
own route names):

- `Invariance`: `Spec => []Core`;
- `InboxTypeOK`: `Spec => []TypeOK`;
- `NoClaimIsLeft`: `Spec => []ClaimsAreHeld`;
- `WatermarkIsHandled`: `Spec => []WatermarkIsSaved`;
- `RumorsHaveOneHandler`: `Spec => []OneHandlerPerRumor`.

`Core` is `TypeOK` with: a wrap in the unwrap worker is claimed and has retries
left (`Claims`); messages and unwraps of a walk belong to its phase (`Walking`);
a lane in the handler has a first message and its rumor is known (`Handling`),
and two messages in or waiting for the handler are of different rumors
(`Apart`); every claimed wrap is accounted for (`Accounts`); and the watermark
itself. That the pages of a walk are well typed is the one place where a
recursive function has to be understood: `IterationExists` of `SequenceFacts`
derives it, and `SortedExists` that a set can be listed newest first, from the
least element of a set of numbers.

`DeliveryProofs`, for any messages, retries, losses and restarts
(`ConstantsAssumption`):

- `Invariance`: `Spec => []IInv`;
- `DeliveryTypeOK`: `Spec => []TypeOK`;
- `TicksAreTrue`: `Spec => []TickIsTrue`;
- `OneRumorSettled`: `Spec => []NeverDouble`;
- `TimersAreOfSent`: `Spec => []TimersAwaitReceipts`;
- `TicksNeverFall`: `Spec => TickNeverFalls`.

The properties speak of ticks and of what the peer settled; what connects them
is which rumor of a message is out at all. `IInv` says what a send leaves behind
at each stage (`Stages`), which rumor a queued message has (`Entries`), that at
most one of the two rumors of a message is with the relays, the queue or a direct
attempt (`OneRumor`), that copies, receipts and settled rumors come from a rumor
that went out, or from a publish that made one (`Origins`), that the word of the
direct channel stands for a copy with the relays or the queue, or one still owed
(`Vouched`), that an armed timer is of a sent id (`Tracking`), and which ids may
hold a tick that a later re-keying would overwrite (`Ticks`).

**Model-checked only.** Liveness is out of the prover's reach:
`EventuallySameContacts`, `OldSnapshotReplaced`, `EventuallyPublished`,
`EventuallySaved`, `PublishedIsKept` and `TickArrives`, and `DeleteSticks` and
`AddSticks`, which are stated with it. Of the action properties `Inbox!InReachKept`
is not proved. It does not hold for every value of the constants: with two relays
a re-fetch that asks only the connected one loses a wrap of the other (TLC
reaches it with two wraps, one failed unwrap and one lost socket). For one relay
it needs what every page of a walk leaves unread, and an argument for each step
about each way a wrap can be in reach.

## 6. Plan

1. `GroupRoster`: membership epochs and admin operations over fan-out control
   messages, with `GroupsSync`, the merge of the same state between devices, and
   the members' ticks (`group-delivery-tracker.ts`).
2. Proofs: `Inbox!InReachKept` for one relay. Its invariant is `Core` with, for a walk in
   flight, what lies between its cursor and its lower bound; its lemma is that a
   walk's answer holds everything in the range above where it stopped.
3. `PeerNegotiation`, `IdleController`, `VoiceUploadQueue`: three small
   concurrent components, each with the hazard listed for it.
4. The outbound half of the relay pool: publish buffers, write health and
   quarantine.

## 7. Not modelled

By far the largest part of the tree is the inherited web client (user interface,
managers, MTProto) and its assets: third-party logic this project does not
claim anything about. Of `phantomchat/` itself, cryptography, key storage,
profiles and media encodings are pure functions over library calls; the virtual
server's translation of requests is data mapping; the embedded relay is a filter
over a list; typing and presence keep no state. Groups, folders and read-state
sync, peer negotiation, the idle controller, the voice queue and incoming
scheduling have behaviour worth modelling and are not modelled yet;
`PROJECT.json` gives each its reason, and their hazards are listed there without
a property.

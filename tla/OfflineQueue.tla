---------------------------- MODULE OfflineQueue ----------------------------
(***************************************************************************)
(* The outbox: messages ChatAPI could not hand to a relay, kept in memory  *)
(* and in IndexedDB until a flush publishes them (offline-queue.ts), with  *)
(* the ChatAPI steps that fill and drain it (chat-api.ts: sendMessage's    *)
(* fallback, queueMessage, handlePoolStateChange).                         *)
(*                                                                         *)
(* One tab.  Every await on the relay pool is a cut; between two awaits    *)
(* the code runs alone.  IndexedDB writes are fired and forgotten: they    *)
(* wait in io, in the order they were issued, and a crash loses the rest.  *)
(*                                                                         *)
(* A send whose live publish succeeds never reaches the queue and is not   *)
(* modelled.  A "success" of a publish is a hand-off to one relay at least *)
(* (publishWraps), and the pool mints the rumor - the receiver's           *)
(* deduplication key - on the first wrap.                                  *)
(***************************************************************************)
EXTENDS Naturals, FiniteSets, SequencesExt

CONSTANTS
  Peer,          \* the chats
  Recipient,     \* [Msg -> Peer]: the chat each message is written in
  Prebuilt,      \* messages that already went out over a direct channel
  NoRow,         \* no such row on disk
  NoFlush,       \* no flush in flight
  NoLoad,        \* the constructor's restore is done
  Operator,      \* the manual operations in use: a subset of {"retry", "clear"}
  MaxRetry,      \* MAX_RETRY_ATTEMPTS
  MaxManual,     \* bound on manual operations
  MaxCrashes,    \* bound on crashes
  MaxSwitches    \* bound on switches of the active chat

Msg == DOMAIN Recipient        \* in the order in which their ids are generated

ASSUME QueueAssumption ==
  /\ Msg \subseteq Nat /\ IsFiniteSet(Msg)
  /\ Recipient \in [Msg -> Peer]
  /\ Prebuilt \subseteq Msg
  /\ Operator \subseteq {"retry", "clear"}
  /\ MaxRetry \in Nat \ {0}
  /\ MaxManual \in Nat /\ MaxCrashes \in Nat /\ MaxSwitches \in Nat

-----------------------------------------------------------------------------
NoRumor == 0

Row     == [rumor : Nat, retries : 0..MaxRetry, selfOwed : BOOLEAN]
Rows    == [Msg -> Row \cup {NoRow}]
Attempt == [rumor : Nat, fresh : BOOLEAN, self : BOOLEAN, tries : 0..MaxRetry]

(* A flush is at a place of the array it iterates, with a publish in       *)
(* flight; the array is its own only after clearQueue.                     *)
FlushRun == [peer : Peer, detached : BOOLEAN, list : Seq(Msg), at : Nat,
             flushed : BOOLEAN, attempt : Attempt]

Save(m, row)  == [op |-> "save", msg |-> m, row |-> row]
Delete(m)     == [op |-> "delete", msg |-> m]
DeletePeer(p) == [op |-> "deletePeer", peer |-> p]

Write == [op : {"save"}, msg : Msg, row : Row] \cup [op : {"delete"}, msg : Msg]
           \cup [op : {"deletePeer"}, peer : Peer]

ASSUME SentinelAssumption ==
  NoRow \notin Row /\ NoFlush \notin FlushRun /\ NoLoad \notin Rows

VARIABLES
  status,        \* [Msg -> "new", "sending", "publishing" (in queue()), "stored" or "lost"]
  addressee,     \* [Msg -> Peer]: QueuedMessage.to
  object,        \* [Msg -> Row]: the QueuedMessage in memory
  queue,         \* [Peer -> Seq(Msg)]: _queue
  acked,         \* _acknowledged
  flush,         \* the flush in flight
  retrying,      \* [SUBSET Msg -> Attempt]: the retryMessage calls in flight
  disk,          \* [Msg -> Row, or NoRow]: the object store
  io,            \* IndexedDB writes issued and not yet done
  loading,       \* what the constructor's restore will bring back
  connected,     \* relayPool.isConnected()
  notified,      \* a pool state change is about to reach handlePoolStateChange
  activePeer,    \* ChatAPI.activePeer
  published,     \* history: [Msg -> [Peer -> rumors handed to the relays for the peer]]
  selfCopied,    \* history: messages whose self-addressed copy was handed over
  cleared,       \* history: messages clearQueue was asked to forget
  minted,        \* [Msg -> Nat]: rumors made for a message
  manual, crashes, switches

memory  == <<addressee, object, queue, acked, flush, retrying>>
stored  == <<disk, io, loading>>
pool    == <<connected, notified>>
history == <<published, selfCopied, cleared, minted>>
bounds  == <<manual, crashes, switches>>
vars    == <<status, memory, stored, pool, activePeer, history, bounds>>

-----------------------------------------------------------------------------
(* A publish: publish() when the message has no rumor yet (it mints one    *)
(* and wraps a self copy too), rewrapAndPublish otherwise.                 *)
NewAttempt_AlwaysMints(m) ==
  [rumor |-> minted[m] + 1, fresh |-> TRUE, self |-> TRUE, tries |-> object[m].retries]

NewAttempt_NoSelfCopy(m) ==
  LET fresh == object[m].rumor = NoRumor
  IN  [rumor |-> IF fresh THEN minted[m] + 1 ELSE object[m].rumor,
       fresh |-> fresh, self |-> fresh, tries |-> object[m].retries]

NewAttempt(m) ==
  LET fresh == object[m].rumor = NoRumor
  IN  [rumor |-> IF fresh THEN minted[m] + 1 ELSE object[m].rumor,
       fresh |-> fresh,
       self  |-> fresh \/ object[m].selfOwed,
       tries |-> object[m].retries]

Minted(m, attempt) ==
  IF attempt.fresh THEN [minted EXCEPT ![m] = attempt.rumor] ELSE minted

(* "sent": some relay took it.  "refused": none did, the rumor comes back. *)
(* "failed": the wrap or the call failed, nothing comes back.              *)
Outcome == {"sent", "refused", "failed"}

HandedOver(m, attempt, outcome) ==
  IF outcome = "sent"
  THEN /\ published' = [published EXCEPT ![m][addressee[m]] = @ \cup {attempt.rumor}]
       /\ selfCopied' = selfCopied \cup (IF attempt.self THEN {m} ELSE {})
  ELSE UNCHANGED <<published, selfCopied>>

(* A rumor just made is saved, then the acknowledged row deleted.          *)
AcknowledgeWrites_DeleteFirst(m, attempt, row) ==
  IF attempt.fresh THEN <<Delete(m), Save(m, row)>> ELSE <<Delete(m)>>

AcknowledgeWrites(m, attempt, row) ==
  IF attempt.fresh THEN <<Save(m, row), Delete(m)>> ELSE <<Delete(m)>>

-----------------------------------------------------------------------------
(* Filling the queue.                                                      *)

(* sendMessage, for the chat that is active when it starts.                *)
SendMessage(m) ==
  /\ status[m] = "new" /\ \A n \in Msg : n < m => status[n] # "new"
  /\ activePeer = Recipient[m]
  /\ status' = [status EXCEPT ![m] = "sending"]
  /\ UNCHANGED <<memory, stored, pool, activePeer, history, bounds>>

(* The message is pushed and its row saved.                                *)
Stored_MemoryOnly(m, to, row) ==
  /\ status' = [status EXCEPT ![m] = "stored"]
  /\ object' = [object EXCEPT ![m] = row]
  /\ queue' = [queue EXCEPT ![to] = Append(@, m)]
  /\ io' = io

Stored(m, to, row) ==
  /\ status' = [status EXCEPT ![m] = "stored"]
  /\ object' = [object EXCEPT ![m] = row]
  /\ queue' = [queue EXCEPT ![to] = Append(@, m)]
  /\ io' = Append(io, Save(m, row))

InitialRow(m) ==
  [rumor |-> IF m \in Prebuilt THEN 1 ELSE NoRumor, retries |-> 0,
   selfOwed |-> m \in Prebuilt]

(* queueMessage reads the active chat again; only the backstop of a direct *)
(* send that was acknowledged goes to the chat it was written in.          *)
Addressees(m) == {activePeer} \cup (IF m \in Prebuilt THEN {Recipient[m]} ELSE {})

(* queue() tries the relays first if they are there.                       *)
QueueFor(m, to) ==
  /\ status[m] = "sending"
  /\ addressee' = [addressee EXCEPT ![m] = to]
  /\ IF connected
     THEN /\ status' = [status EXCEPT ![m] = "publishing"]
          /\ object' = [object EXCEPT ![m] = InitialRow(m)]
          /\ UNCHANGED <<queue, io>>
     ELSE Stored(m, to, InitialRow(m))
  /\ UNCHANGED <<acked, flush, retrying, disk, loading, pool, activePeer, history, bounds>>

QueueMessage(m) == \E to \in Addressees(m) : QueueFor(m, to)

(* The chat was closed and none is active: the message is marked failed.   *)
QueueFails(m) ==
  /\ status[m] = "sending"
  /\ status' = [status EXCEPT ![m] = "lost"]
  /\ UNCHANGED <<memory, stored, pool, activePeer, history, bounds>>

(* Whatever came of it the message is queued, with the rumor it now has.   *)
QueuePublished(m) ==
  /\ status[m] = "publishing"
  /\ \E outcome \in Outcome :
       LET attempt == NewAttempt(m)
       IN  /\ HandedOver(m, attempt, outcome)
           /\ minted' = Minted(m, attempt)
           /\ Stored(m, addressee[m], [object[m] EXCEPT
                           !.rumor = IF outcome = "failed" THEN @ ELSE attempt.rumor,
                           !.selfOwed = @ /\ outcome # "sent"])
  /\ UNCHANGED <<addressee, acked, flush, retrying, disk, loading, pool, activePeer,
                 cleared, bounds>>

-----------------------------------------------------------------------------
(* Draining it.                                                            *)

(* The array a flush iterates is the one that was in _queue when it began. *)
Captured == IF flush.detached THEN flush.list ELSE queue[flush.peer]

(* The next message to publish; those out of retries are passed over.      *)
NextIndex_NoCap(list, from) == SelectInSubSeq(list, from, Len(list), LAMBDA m : TRUE)

NextIndex_StopsAtExhausted(list, from) ==
  IF from <= Len(list) /\ object[list[from]].retries < MaxRetry THEN from ELSE 0

NextIndex(list, from) ==
  SelectInSubSeq(list, from, Len(list), LAMBDA m : object[m].retries < MaxRetry)

(* A pool state change flushes the active chat; a flush already in flight  *)
(* stands for this one too.                                                *)
PoolStateChange ==
  /\ notified
  /\ notified' = FALSE
  /\ LET list == queue[activePeer]
         at   == NextIndex(list, 1)
     IN  IF connected /\ flush = NoFlush /\ at > 0
         THEN /\ flush' = [peer |-> activePeer, detached |-> FALSE, list |-> <<>>,
                           at |-> at, flushed |-> FALSE, attempt |-> NewAttempt(list[at])]
              /\ minted' = Minted(list[at], NewAttempt(list[at]))
         ELSE UNCHANGED <<flush, minted>>
  /\ UNCHANGED <<status, addressee, object, queue, acked, retrying, stored, connected,
                 activePeer, published, selfCopied, cleared, bounds>>

(* The end of a flush drops what was acknowledged.                         *)
Remaining_AllFlushed(list, acks) == <<>>

Remaining_KeepsAll(list, acks) == list

Remaining(list, acks) ==
  LET kept[n \in 0..Len(list)] ==
        IF n = 0 THEN <<>>
        ELSE IF list[n] \in acks THEN kept[n - 1]
        ELSE Append(kept[n - 1], list[n])
  IN  kept[Len(list)]

FlushEnd(flushed, acks) ==
  /\ flush' = NoFlush
  /\ queue' = IF flushed THEN [queue EXCEPT ![flush.peer] = Remaining(Captured, acks)]
              ELSE queue

(* A publish succeeded: acknowledge, delete the row, and on to the next    *)
(* message without looking at the connection again.                        *)
FlushSent(m) ==
  LET attempt == flush.attempt
      acks    == acked \cup {m}
      at      == NextIndex(Captured, flush.at + 1)
  IN  /\ acked' = acks
      /\ object' = IF attempt.fresh THEN [object EXCEPT ![m].rumor = attempt.rumor]
                   ELSE object
      /\ io' = io \o AcknowledgeWrites(m, attempt, object'[m])
      /\ IF at > 0
         THEN /\ flush' = [flush EXCEPT !.at = at, !.flushed = TRUE,
                                        !.attempt = NewAttempt(Captured[at])]
              /\ minted' = Minted(Captured[at], NewAttempt(Captured[at]))
              /\ queue' = queue
         ELSE FlushEnd(TRUE, acks) /\ minted' = minted

(* It did not: count the retry, and leave the rest for another flush.      *)
FlushRefused(m, outcome) ==
  LET attempt == flush.attempt
      known   == outcome = "refused" /\ attempt.fresh
      learnt  == IF known THEN [object[m] EXCEPT !.rumor = attempt.rumor] ELSE object[m]
      row     == [learnt EXCEPT !.retries = attempt.tries + 1]
  IN  /\ object' = [object EXCEPT ![m] = row]
      /\ io' = (IF known THEN Append(io, Save(m, learnt)) ELSE io) \o <<Save(m, row)>>
      /\ FlushEnd(flush.flushed, acked)
      /\ UNCHANGED <<acked, minted>>

FlushPublished ==
  /\ flush # NoFlush
  /\ LET m == Captured[flush.at]
     IN  \E outcome \in Outcome :
           /\ HandedOver(m, flush.attempt, outcome)
           /\ IF outcome = "sent" THEN FlushSent(m) ELSE FlushRefused(m, outcome)
  /\ UNCHANGED <<status, addressee, retrying, disk, loading, pool, activePeer, cleared, bounds>>

-----------------------------------------------------------------------------
(* The manual operations.                                                  *)
Manual(op) == op \in Operator /\ manual < MaxManual /\ manual' = manual + 1

(* retryMessage finds the message in memory, acknowledged or not.          *)
RetryMessage(m) ==
  /\ Manual("retry")
  /\ status[m] = "stored" /\ Contains(queue[addressee[m]], m)
  /\ object' = [object EXCEPT ![m].retries = 0]
  /\ io' = Append(io, Save(m, object'[m]))
  /\ IF connected /\ m \notin DOMAIN retrying
     THEN /\ retrying' = [n \in DOMAIN retrying \cup {m} |->
                            IF n = m THEN NewAttempt(m) ELSE retrying[n]]
          /\ minted' = Minted(m, NewAttempt(m))
     ELSE UNCHANGED <<retrying, minted>>
  /\ UNCHANGED <<status, addressee, queue, acked, flush, disk, loading, pool, activePeer,
                 published, selfCopied, cleared, crashes, switches>>

(* A retry that fails keeps nothing, not even the rumor it made.           *)
RetryPublished(m) ==
  /\ m \in DOMAIN retrying
  /\ retrying' = [n \in DOMAIN retrying \ {m} |-> retrying[n]]
  /\ LET attempt == retrying[m]
     IN  \E outcome \in Outcome :
           /\ HandedOver(m, attempt, outcome)
           /\ IF outcome = "sent"
              THEN /\ object' = IF attempt.fresh
                                THEN [object EXCEPT ![m].rumor = attempt.rumor] ELSE object
                   /\ acked' = acked \cup {m}
                   /\ io' = io \o AcknowledgeWrites(m, attempt, object'[m])
              ELSE UNCHANGED <<object, acked, io>>
  /\ UNCHANGED <<status, addressee, queue, flush, disk, loading, pool, activePeer,
                 cleared, minted, bounds>>

(* clearQueue forgets the array; a flush keeps iterating it.               *)
ClearQueue(p) ==
  /\ Manual("clear")
  /\ queue[p] # <<>>
  /\ queue' = [queue EXCEPT ![p] = <<>>]
  /\ cleared' = cleared \cup {m \in Msg : status[m] = "stored" /\ addressee[m] = p}
  /\ flush' = IF flush # NoFlush /\ flush.peer = p /\ ~flush.detached
              THEN [flush EXCEPT !.detached = TRUE, !.list = queue[p]] ELSE flush
  /\ io' = Append(io, DeletePeer(p))
  /\ UNCHANGED <<status, addressee, object, acked, retrying, disk, loading, pool, activePeer,
                 published, selfCopied, minted, crashes, switches>>

-----------------------------------------------------------------------------
(* The disk, the tab, the relays and the user.                             *)
WriteDone ==
  /\ io # <<>>
  /\ io' = Tail(io)
  /\ LET write == Head(io)
     IN  disk' = CASE write.op = "save"   -> [disk EXCEPT ![write.msg] = write.row]
                   [] write.op = "delete" -> [disk EXCEPT ![write.msg] = NoRow]
                   [] OTHER -> [m \in Msg |-> IF addressee[m] = write.peer THEN NoRow ELSE disk[m]]
  /\ UNCHANGED <<status, memory, loading, pool, activePeer, history, bounds>>

(* The tab dies and another starts: memory is gone, the constructor begins *)
(* to read the store back.  A message with no row is lost to the queue.    *)
Crash ==
  /\ crashes < MaxCrashes /\ crashes' = crashes + 1
  /\ status' = [m \in Msg |->
       IF status[m] \in {"sending", "publishing"} \/ (status[m] = "stored" /\ disk[m] = NoRow)
       THEN "lost" ELSE status[m]]
  /\ object' = [m \in Msg |-> InitialRow(m)]
  /\ queue' = [p \in Peer |-> <<>>]
  /\ acked' = {}
  /\ flush' = NoFlush
  /\ retrying' = <<>>
  /\ io' = <<>>
  /\ loading' = disk
  /\ connected' = FALSE /\ notified' = FALSE
  /\ UNCHANGED <<addressee, disk, activePeer, history, manual, switches>>

(* getAll hands the rows over in the order of their ids.                   *)
InOrder(S) ==
  CHOOSE s \in [1..Cardinality(S) -> S] :
    /\ ToSet(s) = S
    /\ \A i, j \in DOMAIN s : i < j => s[i] < s[j]

Restore ==
  /\ loading # NoLoad
  /\ LET rows == {m \in Msg : loading[m] # NoRow}
     IN  /\ object' = [m \in Msg |-> IF m \in rows THEN loading[m] ELSE object[m]]
         /\ queue' = [p \in Peer |->
              queue[p] \o InOrder({m \in rows : addressee[m] = p})]
  /\ loading' = NoLoad
  /\ UNCHANGED <<status, addressee, acked, flush, retrying, disk, io, pool, activePeer,
                 history, bounds>>

Connect ==
  /\ ~connected
  /\ connected' = TRUE /\ notified' = TRUE
  /\ UNCHANGED <<status, memory, stored, activePeer, history, bounds>>

Disconnect ==
  /\ connected
  /\ connected' = FALSE /\ notified' = TRUE
  /\ UNCHANGED <<status, memory, stored, activePeer, history, bounds>>

(* Some relay comes or goes while others stay.                             *)
RelayFlaps ==
  /\ connected /\ ~notified
  /\ notified' = TRUE
  /\ UNCHANGED <<status, memory, stored, connected, activePeer, history, bounds>>

SwitchChat ==
  /\ switches < MaxSwitches /\ switches' = switches + 1
  /\ \E p \in Peer \ {activePeer} : activePeer' = p
  /\ UNCHANGED <<status, memory, stored, pool, history, manual, crashes>>

Init ==
  /\ status = [m \in Msg |-> "new"]
  /\ addressee = Recipient
  /\ object = [m \in Msg |-> InitialRow(m)]
  /\ queue = [p \in Peer |-> <<>>]
  /\ acked = {} /\ flush = NoFlush /\ retrying = <<>>
  /\ disk = [m \in Msg |-> NoRow] /\ io = <<>> /\ loading = NoLoad
  /\ connected = FALSE /\ notified = FALSE
  /\ activePeer \in Peer
  /\ published = [m \in Msg |-> [p \in Peer |-> {}]]
  /\ selfCopied = {} /\ cleared = {}
  /\ minted = [m \in Msg |-> IF m \in Prebuilt THEN 1 ELSE 0]
  /\ manual = 0 /\ crashes = 0 /\ switches = 0

Next ==
  \/ \E m \in Msg : SendMessage(m) \/ QueueMessage(m) \/ QueueFails(m)
                      \/ QueuePublished(m) \/ RetryMessage(m) \/ RetryPublished(m)
  \/ \E p \in Peer : ClearQueue(p)
  \/ PoolStateChange \/ FlushPublished
  \/ WriteDone \/ Crash \/ Restore
  \/ Connect \/ Disconnect \/ RelayFlaps \/ SwitchChat

(* Every await is answered; the pool reconnects and reports it.            *)
Fairness ==
  /\ WF_vars(PoolStateChange) /\ WF_vars(FlushPublished)
  /\ WF_vars(WriteDone) /\ WF_vars(Restore) /\ WF_vars(Connect)
  /\ \A m \in Msg : WF_vars(QueueMessage(m)) /\ WF_vars(QueuePublished(m))

Spec == Init /\ [][Next]_vars /\ Fairness

(* Relays keep coming and going: the pool reports again and again while it *)
(* is connected.  This is the environment's doing, not the program's.      *)
FlappingSpec == Spec /\ SF_vars(RelayFlaps) /\ SF_vars(connected /\ PoolStateChange)

-----------------------------------------------------------------------------
TypeOK ==
  /\ status \in [Msg -> {"new", "sending", "publishing", "stored", "lost"}]
  /\ addressee \in [Msg -> Peer] /\ object \in [Msg -> Row]
  /\ queue \in [Peer -> Seq(Msg)] /\ acked \subseteq Msg
  /\ flush \in FlushRun \cup {NoFlush}
  /\ flush # NoFlush =>
       flush.at \in 1..Len(Captured) /\ flush.attempt.tries < MaxRetry
  /\ DOMAIN retrying \subseteq Msg
  /\ \A m \in DOMAIN retrying : retrying[m] \in Attempt
  /\ disk \in Rows /\ io \in Seq(Write) /\ loading \in Rows \cup {NoLoad}
  /\ connected \in BOOLEAN /\ notified \in BOOLEAN /\ activePeer \in Peer
  /\ published \in [Msg -> [Peer -> SUBSET Nat]] /\ minted \in [Msg -> Nat]
  /\ selfCopied \subseteq Msg /\ cleared \subseteq Msg
  /\ manual \in Nat /\ crashes \in Nat /\ switches \in Nat

Rumors(m) == UNION {published[m][p] : p \in Peer}

Owed(m) == status[m] = "stored" /\ Rumors(m) = {} /\ m \notin cleared

(* A message the queue took stays in the queue, or in the rows being       *)
(* restored, until some relay took it: over failed flushes, flushes for    *)
(* other chats, and crashes once its row is on disk ("persisted to         *)
(* IndexedDB so they survive browser restarts", offline-queue.ts:9).       *)
KeptUntilPublished ==
  \A m \in Msg : Owed(m) =>
    \/ Contains(queue[addressee[m]], m)
    \/ loading # NoLoad /\ loading[m] # NoRow

(* Whatever the manual operations do, such a message has a row on disk or  *)
(* one on its way there: a restart brings it back.                         *)
RecoverableUntilPublished ==
  \A m \in Msg : Owed(m) =>
    disk[m] # NoRow \/ \E i \in 1..Len(io) : io[i].op = "save" /\ io[i].msg = m

(* An acknowledged message has no row left once the writes are done: the   *)
(* saves of a flush never land after its delete.                           *)
AcknowledgedLeavesDisk ==
  io = <<>> => \A m \in acked : disk[m] = NoRow

(* "Mark as acknowledged so we don't deliver it again"                     *)
(* (offline-queue.ts:473): doFlush never looks at _acknowledged, so only   *)
(* dropping acknowledged messages at the end of each flush keeps the next  *)
(* one from publishing them again.                                         *)
NoFlushAfterAcknowledge == flush # NoFlush => Captured[flush.at] \notin acked

(* The receiver deduplicates by rumor, so retries must re-wrap the same    *)
(* one (offline-queue.ts:60-63): the relays only get a second rumor of a   *)
(* message when a crash came between the hand-off and the saved row.       *)
OneRumorPerLife == \A m \in Msg : Cardinality(Rumors(m)) <= 1 + crashes

(* A message that first went out over a direct channel, once on a relay,   *)
(* also reached the account's own other devices: "Its first relay publish  *)
(* must also emit the self-addressed copy" (offline-queue.ts:54), whatever *)
(* refusals and restarts come before that publish.                         *)
SelfCopyPublished == \A m \in Prebuilt : Rumors(m) # {} => m \in selfCopied

(* A queued message reaches a relay, unless its retries run out            *)
(* (offline-queue.ts:6: "When connectivity returns, queued messages are    *)
(* flushed") or clearQueue ran: a flush that was iterating the cleared     *)
(* array puts it back over what was queued since, and only a restart reads *)
(* those rows again.                                                       *)
Handled(m) ==
  \/ Rumors(m) # {} \/ cleared # {}
  \/ object[m].retries = MaxRetry \/ status[m] = "lost"

EventuallyPublished == \A m \in Msg : status[m] = "stored" ~> Handled(m)

=============================================================================

---------------------------- MODULE ContactsSync ----------------------------
(***************************************************************************)
(* Contacts synchronisation between the devices of one account.            *)
(*                                                                         *)
(* Every device keeps its address book in IndexedDB (virtual-peers-db.ts)  *)
(* and converges with the others through one replaceable event on the      *)
(* relays (crdt-sync.ts), which the contacts adapter                       *)
(* (contacts-sync-adapter.ts) reads from and applies to the address book.  *)
(*                                                                         *)
(* A pass - a reconcile (boot, 30-minute timer, sibling's nudge) or a      *)
(* debounced publish - is cut at its awaits: adapter.read(), the relay     *)
(* query, each entry of adapter.apply(), the write, the read-back.  The    *)
(* user, the receive path and the device's other pass run in between.      *)
(* Each IndexedDB call group named by an action below is one step; the     *)
(* awaits inside a group last milliseconds, those between groups seconds.  *)
(*                                                                         *)
(* Times are whole seconds, the unit of every comparison the code makes.   *)
(***************************************************************************)
EXTENDS Naturals, FiniteSets

CONSTANTS
  Device,          \* the account's devices
  Peer,            \* the contacts' public keys
  Name,            \* display names, positive numbers ordered as the strings are
  NoMapping,       \* the address book holds no mapping for the peer
  NoPeer,          \* no entry's add is waiting for its timestamps
  NoSnapshot,      \* the relays hold no snapshot
  Passes,          \* which kinds of pass run
  Acts,            \* which kinds of user and receive-path act happen
  ActsDuringPass,  \* whether a device's user acts while it has a pass running
  MaxTime,         \* bound: the clock stops here
  MaxActs,         \* bound on acts
  MaxFaults        \* bound on crashes, failed queries and lost writes

PassKind == {"reconcile", "publish"}
ActKinds == {"add", "delete", "rename", "profile", "clear", "inbound"}

ASSUME ContactsAssumption ==
  /\ Name \subseteq Nat \ {0}
  /\ Passes \subseteq PassKind
  /\ Acts \subseteq ActKinds
  /\ ActsDuringPass \in BOOLEAN
  /\ NoPeer \notin Peer
  /\ MaxTime \in Nat \ {0} /\ MaxActs \in Nat /\ MaxFaults \in Nat

NoName == 0
Time   == 0..MaxTime

(* ContactSyncData.  Its stable serialization lists addedAt before         *)
(* displayName before pubkey and leaves an undefined name out, so a        *)
(* nameless payload ("pubkey" follows) is greater than any named one.      *)
Payload == [addedAt : Time, name : Name \cup {NoName}]

Above(x, y) ==
  \/ x.addedAt > y.addedAt
  \/ x.addedAt = y.addedAt /\ y.name # NoName /\ (x.name = NoName \/ x.name > y.name)

INSTANCE SyncCrdt

VARIABLES
  mapping,      \* [Device -> [Peer -> Mapping]]: the mappings store
  deletedRow,   \* [Device -> [Peer -> Time]]: the durable deletion log (0: no row)
  watermark,    \* [Device -> [Peer -> Time]]: conversation deletion watermarks
  admitted,     \* [Device -> SUBSET Peer]: inbound senders past storeMapping's guards
  dirty,        \* [Device -> SUBSET {"due", "rerun"}]: a publish is due (debounced or
                \* to be retried), or to be run once more when the one in flight ends
  applying,     \* [Device -> BOOLEAN]: CrdtSync.applying
  pass,         \* [Device -> [PassKind -> Pass]]: the passes in flight
  relay,        \* the relays' latest snapshot
  now, acts, faults,
  lastAdd,      \* history: the latest deliberate add of a peer, on any device
  lastDelete    \* history: the latest deletion of a peer by the user, on any device

stores  == <<mapping, deletedRow, watermark>>
history == <<lastAdd, lastDelete>>
vars    == <<stores, admitted, dirty, applying, pass, relay, now, acts, faults, history>>

-----------------------------------------------------------------------------
Version  == 2       \* CONTACTS_SYNC_VERSION; version 1 is still read
Idle     == [phase |-> "idle"]

Mapping == [name : Name \cup {NoName}, addedAt : Time, updatedAt : Time, stamp : Time]

ASSUME NoMappingIsNone == NoMapping \notin Mapping

Mapped(d, p) == mapping[d][p] # NoMapping
PayloadOf(m) == [addedAt |-> m.addedAt, name |-> m.name]
EntryOf(m)   == liveEntry(PayloadOf(m), m.updatedAt, m.stamp)

(* storeMapping's transaction: an upsert that keeps what the caller does   *)
(* not supply, advances updatedAt only when the identity changed and never *)
(* lowers a stamp.                                                         *)
Upserted(m, name, stamp) ==
  IF m = NoMapping
  THEN [name |-> name, addedAt |-> now, updatedAt |-> now, stamp |-> stamp]
  ELSE [m EXCEPT !.name = IF name = NoName THEN @ ELSE name,
                 !.updatedAt = IF name = NoName THEN @ ELSE now,
                 !.stamp = Greater(@, stamp)]

(* addP2PContact stores the nickname it was given, or the name on record.  *)
NameToStore(m, nickname) ==
  IF m = NoMapping \/ nickname # NoName THEN nickname ELSE m.name

-----------------------------------------------------------------------------
(* The adapter's read().                                                   *)

(* Under a live mapping a watermark may only be a cleared history, so it   *)
(* counts as a delete for unmapped peers alone.                            *)
DeleteStamp_CountsClearedHistory(d, p) == Greater(deletedRow[d][p], watermark[d][p])

DeleteStamp(d, p) ==
  IF Mapped(d, p) THEN deletedRow[d][p] ELSE Greater(deletedRow[d][p], watermark[d][p])

(* A mapping survives a delete only on a strictly later deliberate add.    *)
Outranked(d, p) ==
  DeleteStamp(d, p) > 0 /\ (Mapped(d, p) => mapping[d][p].stamp <= DeleteStamp(d, p))

LocalMap(d) ==
  [p \in {q \in Peer : Mapped(d, q) \/ DeleteStamp(d, q) > 0} |->
     IF Outranked(d, p) THEN tombstone(DeleteStamp(d, p)) ELSE EntryOf(mapping[d][p])]

(* read() also writes: it drops a resurrected mapping, and the deletion    *)
(* row a deliberate re-add outranks.                                       *)
Healed(d) ==
  /\ mapping' = [mapping EXCEPT ![d] =
                   [p \in Peer |-> IF Outranked(d, p) THEN NoMapping ELSE @[p]]]
  /\ deletedRow' = [deletedRow EXCEPT ![d] =
                      [p \in Peer |-> IF Mapped(d, p) /\ ~Outranked(d, p) THEN 0 ELSE @[p]]]
  /\ UNCHANGED watermark

-----------------------------------------------------------------------------
(* Passes.                                                                 *)

Phase(d, k) == pass[d][k].phase
SetPass(d, k, to) == pass' = [pass EXCEPT ![d][k] = to]

(* A publish that could not confirm is tried again, until its attempts     *)
(* run out; a reconcile just ends, and the timer starts another.           *)
Abandon(d, k) ==
  /\ SetPass(d, k, Idle)
  /\ IF k = "publish"
     THEN dirty' \in {dirty, [dirty EXCEPT ![d] = @ \cup {"due"}]}
     ELSE dirty' = dirty

SchedulePublish(d) == dirty' = [dirty EXCEPT ![d] = @ \cup {"due"}]

Fault == faults < MaxFaults /\ faults' = faults + 1

(* A publish asked for while one is in flight runs after it.               *)
QueueRerun(d) ==
  /\ "due" \in dirty[d] /\ ~applying[d]
  /\ Phase(d, "publish") # "idle"
  /\ dirty' = [dirty EXCEPT ![d] = {"rerun"}]
  /\ UNCHANGED <<stores, admitted, applying, pass, relay, now, acts, faults, history>>

(* A publish asked for while a pass applies is refused, and retried; the   *)
(* queued rerun is not asked for again.                                    *)
Start(d, k) ==
  IF k = "reconcile" THEN dirty' = dirty
  ELSE \/ /\ "rerun" \in dirty[d]
          /\ dirty' = [dirty EXCEPT ![d] = @ \ {"rerun"}]
       \/ /\ dirty[d] = {"due"} /\ ~applying[d]
          /\ dirty' = [dirty EXCEPT ![d] = {}]

Read(d, k) ==
  /\ k \in Passes /\ Phase(d, k) = "idle"
  /\ Start(d, k)
  /\ Healed(d)
  /\ SetPass(d, k, [phase |-> "fetch", local |-> LocalMap(d)])
  /\ UNCHANGED <<admitted, applying, relay, now, acts, faults, history>>

(* No relay answered, or the snapshot cannot be read: never publish over it. *)
FetchUnavailable(d, k) ==
  /\ Phase(d, k) = "fetch"
  /\ Fault
  /\ Abandon(d, k)
  /\ UNCHANGED <<stores, admitted, applying, relay, now, acts, history>>

(* A relay answered that there is no snapshot.  With several relays, one   *)
(* that never stored it may be the only one to answer: that is a fault.    *)
FetchAbsent(d, k) ==
  /\ Phase(d, k) = "fetch"
  /\ IF relay = NoSnapshot THEN faults' = faults ELSE Fault
  /\ LET local == pass[d][k].local
     IN  SetPass(d, k, IF k = "reconcile" /\ DOMAIN local = {} THEN Idle
                       ELSE [phase |-> "write", merged |-> local])
  /\ UNCHANGED <<stores, admitted, dirty, applying, relay, now, acts, history>>

(* What a pass does once it has merged and, if needed, applied.            *)
AfterApply(merged, write) ==
  IF write THEN [phase |-> "write", merged |-> merged] ELSE Idle

(* Whether the relays must be rewritten, given what they served.           *)
MustWrite_IgnoresVersion(merged, snapshot) == differs(merged, snapshot.items)

MustWrite(merged, snapshot) ==
  differs(merged, snapshot.items) \/ snapshot.version # Version

FetchOk(d, k) ==
  /\ Phase(d, k) = "fetch"
  /\ relay # NoSnapshot
  /\ LET local  == pass[d][k].local
         merged == mergeMaps(local, relay.items)
         write  == MustWrite(merged, relay)
     IN  IF differs(merged, local)
         THEN /\ applying' = [applying EXCEPT ![d] = TRUE]
              /\ SetPass(d, k, [phase |-> "apply", local |-> local, merged |-> merged,
                                stored |-> mapping[d], todo |-> DOMAIN merged,
                                pinning |-> NoPeer, write |-> write])
         ELSE /\ applying' = applying
              /\ SetPass(d, k, AfterApply(merged, write))
  /\ UNCHANGED <<stores, admitted, dirty, relay, now, acts, faults, history>>

(* The adapter's apply(), one entry at a time.                             *)
Applying(d, k, p) ==
  /\ Phase(d, k) = "apply"
  /\ p \in pass[d][k].todo
  /\ pass[d][k].pinning \in {NoPeer, p}

WasLive(run, p) == p \in DOMAIN run.local /\ ~run.local[p].deleted

(* The entry is done: the next one, or the end of apply().                 *)
EntryApplied(d, k, p) ==
  LET run  == pass[d][k]
      last == run.todo = {p}
  IN  /\ applying' = [applying EXCEPT ![d] = @ /\ ~last]
      /\ SetPass(d, k, IF last THEN AfterApply(run.merged, run.write)
                       ELSE [run EXCEPT !.todo = @ \ {p}, !.pinning = NoPeer])

(* setMappingUpdatedAt and setDeliberateAddAt: both leave a peer without a *)
(* mapping alone, and the stamp only moves forward.                        *)
Pinned_CreatesRow(m, updatedAt, stamp) ==
  IF m = NoMapping THEN [updatedAt |-> updatedAt, stamp |-> stamp]
  ELSE [m EXCEPT !.updatedAt = updatedAt, !.stamp = Greater(@, stamp)]

Pinned_StampsUpdate(m, updatedAt, stamp) ==
  IF m = NoMapping THEN m
  ELSE [m EXCEPT !.updatedAt = updatedAt, !.stamp = Greater(@, updatedAt)]

Pinned(m, updatedAt, stamp) ==
  IF m = NoMapping THEN m
  ELSE [m EXCEPT !.updatedAt = updatedAt, !.stamp = Greater(@, stamp)]

StampToPin(run, p) ==
  IF run.stored[p] = NoMapping \/ run.merged[p].stamp > run.stored[p].stamp
  THEN run.merged[p].stamp ELSE 0

(* A merged delete is made durable here too, and tears down what the store *)
(* held when apply() began.                                                *)
ApplyDelete(d, k, p) ==
  /\ Applying(d, k, p)
  /\ LET run == pass[d][k]
         at  == run.merged[p].updatedAt
     IN  /\ run.merged[p].deleted
         /\ deletedRow' = [deletedRow EXCEPT ![d][p] = Greater(@, at)]
         /\ IF run.stored[p] # NoMapping
            THEN /\ mapping' = [mapping EXCEPT ![d][p] = NoMapping]
                 /\ watermark' = [watermark EXCEPT ![d][p] = Greater(@, at)]
            ELSE UNCHANGED <<mapping, watermark>>
  /\ EntryApplied(d, k, p)
  /\ UNCHANGED <<admitted, dirty, relay, now, acts, faults, history>>

(* A live entry this device did not have: addP2PContact drops the deletion *)
(* row and the watermark, then stores the mapping; the Worker and the peer *)
(* connection come before its timestamps are pinned.                       *)
ApplyAdd(d, k, p) ==
  /\ Applying(d, k, p)
  /\ LET run == pass[d][k]
     IN  /\ ~run.merged[p].deleted /\ ~WasLive(run, p) /\ run.pinning = NoPeer
         /\ deletedRow' = [deletedRow EXCEPT ![d][p] = 0]
         /\ watermark' = [watermark EXCEPT ![d][p] = 0]
         /\ mapping' = [mapping EXCEPT ![d][p] =
                          Upserted(@, NameToStore(@, run.merged[p].data.name), 0)]
         /\ SetPass(d, k, [run EXCEPT !.pinning = p])
  /\ UNCHANGED <<admitted, dirty, applying, relay, now, acts, faults, history>>

ApplyPin(d, k, p) ==
  /\ Applying(d, k, p)
  /\ LET run == pass[d][k]
     IN  /\ run.pinning = p
         /\ mapping' = [mapping EXCEPT ![d][p] =
                          Pinned(@, run.merged[p].updatedAt, StampToPin(run, p))]
  /\ EntryApplied(d, k, p)
  /\ UNCHANGED <<deletedRow, watermark, admitted, dirty, relay, now, acts, faults, history>>

(* A live entry this device had: the name and the time when the merged     *)
(* entry is newer than the one read, the stamp when it is later.           *)
(* setMappingDisplayName arms the publisher.                               *)
ApplyUpdate(d, k, p) ==
  /\ Applying(d, k, p)
  /\ LET run     == pass[d][k]
         entry   == run.merged[p]
         newer   == entry.updatedAt > run.local[p].updatedAt
         renamed == newer /\ entry.data.name \notin {NoName, run.local[p].data.name}
         m       == mapping[d][p]
     IN  /\ ~entry.deleted /\ WasLive(run, p) /\ run.pinning = NoPeer
         /\ mapping' = [mapping EXCEPT ![d][p] =
              IF m = NoMapping THEN m
              ELSE [Pinned(m, IF newer THEN entry.updatedAt ELSE m.updatedAt,
                           StampToPin(run, p))
                      EXCEPT !.name = IF renamed THEN entry.data.name ELSE @]]
         /\ IF renamed /\ m # NoMapping THEN SchedulePublish(d) ELSE dirty' = dirty
  /\ EntryApplied(d, k, p)
  /\ UNCHANGED <<deletedRow, watermark, admitted, relay, now, acts, faults, history>>

-----------------------------------------------------------------------------
(* publishEvent resolves at hand-off.  The snapshot replaces the one the   *)
(* relays hold, unless that one is of the same second (the relays keep     *)
(* either) or the write is lost.                                           *)
Write(d, k) ==
  /\ Phase(d, k) = "write"
  /\ LET snapshot == [version |-> Version, items |-> pass[d][k].merged, fresh |-> TRUE]
     IN  \/ relay' = snapshot /\ faults' = faults
         \/ relay # NoSnapshot /\ relay.fresh /\ UNCHANGED <<relay, faults>>
         \/ Fault /\ relay' = relay
  /\ SetPass(d, k, IF k = "publish" THEN [phase |-> "verify", merged |-> pass[d][k].merged]
                   ELSE Idle)
  /\ UNCHANGED <<stores, admitted, dirty, applying, now, acts, history>>

(* A publish is confirmed only when the relays serve the merged view back. *)
Stored_AnyVersion(snapshot, merged) ==
  snapshot # NoSnapshot /\ ~differs(merged, snapshot.items)

Stored(snapshot, merged) ==
  /\ snapshot # NoSnapshot
  /\ snapshot.version = Version
  /\ ~differs(merged, snapshot.items)

Verify(d) ==
  /\ Phase(d, "publish") = "verify"
  /\ \/ /\ Stored(relay, pass[d]["publish"].merged)
        /\ SetPass(d, "publish", Idle)
        /\ UNCHANGED <<dirty, faults>>
     \/ /\ ~Stored(relay, pass[d]["publish"].merged)
        /\ Abandon(d, "publish")
        /\ faults' = faults
     \/ Fault /\ Abandon(d, "publish")
  /\ UNCHANGED <<stores, admitted, applying, relay, now, acts, history>>

(* The tab closes: everything but IndexedDB is gone.                       *)
Stop(d) ==
  /\ pass' = [pass EXCEPT ![d] = [k \in PassKind |-> Idle]]
  /\ dirty' = [dirty EXCEPT ![d] = {}]
  /\ applying' = [applying EXCEPT ![d] = FALSE]
  /\ admitted' = [admitted EXCEPT ![d] = {}]

Crash(d) ==
  /\ Fault
  /\ Stop(d)
  /\ UNCHANGED <<stores, relay, now, acts, history>>

-----------------------------------------------------------------------------
(* Acts of the device's user, and of its receive path.                     *)
Act(d, kind) ==
  /\ kind \in Acts
  /\ acts < MaxActs /\ acts' = acts + 1
  /\ ActsDuringPass \/ \A k \in PassKind : Phase(d, k) = "idle"

(* Everything an act leaves alone unless it interrupts the device.         *)
Elsewhere == UNCHANGED <<relay, now>>
Running   == UNCHANGED <<admitted, applying, pass, faults>>

(* addP2PContact with deliberate: the stamp is written with the mapping,   *)
(* before the deletion row and the watermark are cleared.                  *)
Added(d, p, n) ==
  /\ mapping' = [mapping EXCEPT ![d][p] = Upserted(@, NameToStore(@, n), now)]
  /\ lastAdd' = [lastAdd EXCEPT ![p] = now]
  /\ UNCHANGED lastDelete

AddContact(d, p) ==
  /\ Act(d, "add")
  /\ \E n \in Name \cup {NoName} : Added(d, p, n)
  /\ deletedRow' = [deletedRow EXCEPT ![d][p] = 0]
  /\ watermark' = [watermark EXCEPT ![d][p] = 0]
  /\ SchedulePublish(d)
  /\ Running /\ Elsewhere

(* The tab closes between the mapping and the deletion row.                *)
AddInterrupted(d, p) ==
  /\ Act(d, "add")
  /\ \E n \in Name \cup {NoName} : Added(d, p, n)
  /\ UNCHANGED <<deletedRow, watermark>>
  /\ Fault /\ Stop(d) /\ Elsewhere

(* deleteConversation, deleteContacts: the watermark, the durable row,     *)
(* then the mapping.                                                       *)
Deleted(d, p) ==
  /\ Mapped(d, p)
  /\ watermark' = [watermark EXCEPT ![d][p] = Greater(@, now)]
  /\ deletedRow' = [deletedRow EXCEPT ![d][p] = Greater(@, now)]
  /\ lastDelete' = [lastDelete EXCEPT ![p] = now]
  /\ UNCHANGED lastAdd

DeleteContact(d, p) ==
  /\ Act(d, "delete")
  /\ Deleted(d, p)
  /\ mapping' = [mapping EXCEPT ![d][p] = NoMapping]
  /\ SchedulePublish(d)
  /\ Running /\ Elsewhere

(* The tab closes between the durable row and the mapping.                 *)
DeleteInterrupted(d, p) ==
  /\ Act(d, "delete")
  /\ Deleted(d, p)
  /\ UNCHANGED mapping
  /\ Fault /\ Stop(d) /\ Elsewhere

(* deleteHistory leaves the contact in the address book.                   *)
ClearHistory(d, p) ==
  /\ Act(d, "clear")
  /\ Mapped(d, p)
  /\ watermark' = [watermark EXCEPT ![d][p] = Greater(@, now)]
  /\ UNCHANGED <<mapping, deletedRow, dirty, history>>
  /\ Running /\ Elsewhere

(* renameP2PContact stores the name and schedules no publish.  Through     *)
(* storeMapping it gives a peer without a mapping one, unless that peer    *)
(* was deleted.                                                            *)
RenameContact(d, p) ==
  /\ Act(d, "rename")
  /\ Mapped(d, p) \/ (deletedRow[d][p] = 0 /\ watermark[d][p] = 0)
  /\ \E n \in Name : mapping' = [mapping EXCEPT ![d][p] = Upserted(@, n, 0)]
  /\ UNCHANGED <<deletedRow, watermark, dirty, history>>
  /\ Running /\ Elsewhere

(* updateMappingProfile, when the kind-0 profile it fetched is new: the    *)
(* name follows unless the user chose it.                                  *)
RefreshProfile(d, p) ==
  /\ Act(d, "profile")
  /\ Mapped(d, p)
  /\ \E n \in Name \cup {mapping[d][p].name} :
       mapping' = [mapping EXCEPT ![d][p] = [@ EXCEPT !.name = n, !.updatedAt = now]]
  /\ UNCHANGED <<deletedRow, watermark, dirty, history>>
  /\ Running /\ Elsewhere

(* A message arrives from a peer: storeMapping looks at the deletion row   *)
(* (a strictly newer message overrides the watermark), and writes the      *)
(* mapping in a later transaction.                                         *)
InboundAdmitted(d, p) ==
  /\ Act(d, "inbound")
  /\ Mapped(d, p) \/ deletedRow[d][p] = 0
  /\ admitted' = [admitted EXCEPT ![d] = @ \cup {p}]
  /\ UNCHANGED <<stores, dirty, applying, pass, faults, history>>
  /\ Elsewhere

InboundStored(d, p) ==
  /\ p \in admitted[d]
  /\ admitted' = [admitted EXCEPT ![d] = @ \ {p}]
  /\ mapping' = [mapping EXCEPT ![d][p] = Upserted(@, NoName, 0)]
  /\ UNCHANGED <<deletedRow, watermark, dirty, applying, pass, relay, now, acts, faults, history>>

-----------------------------------------------------------------------------
(* The clock.  At its bound seconds still pass, they are only not counted. *)
SecondPasses ==
  /\ now < MaxTime \/ (relay # NoSnapshot /\ relay.fresh)
  /\ now' = IF now < MaxTime THEN now + 1 ELSE now
  /\ relay' = IF relay = NoSnapshot THEN relay ELSE [relay EXCEPT !.fresh = FALSE]
  /\ UNCHANGED <<stores, admitted, dirty, applying, pass, acts, faults, history>>

(* Devices that have, or have not, a contact from before stamps were kept, *)
(* and the relays with no snapshot or one that a version-1 client wrote    *)
(* from one of those address books.                                        *)
Legacy(n) == [name |-> n, addedAt |-> 1, updatedAt |-> 1, stamp |-> 0]

OldSnapshot(book) ==
  [version |-> 1, fresh |-> FALSE,
   items |-> [p \in {q \in Peer : book[q] # NoMapping} |-> EntryOf(book[p])]]

Init ==
  /\ mapping \in [Device -> [Peer -> {NoMapping} \cup {Legacy(n) : n \in Name}]]
  /\ relay \in {NoSnapshot} \cup {OldSnapshot(mapping[d]) : d \in Device}
  /\ deletedRow = [d \in Device |-> [p \in Peer |-> 0]]
  /\ watermark = [d \in Device |-> [p \in Peer |-> 0]]
  /\ admitted = [d \in Device |-> {}]
  /\ dirty = [d \in Device |-> {}]
  /\ applying = [d \in Device |-> FALSE]
  /\ pass = [d \in Device |-> [k \in PassKind |-> Idle]]
  /\ now = 1 /\ acts = 0 /\ faults = 0
  /\ lastAdd = [p \in Peer |-> 0]
  /\ lastDelete = [p \in Peer |-> 0]

ApplyStep(d, k) ==
  \E p \in Peer : ApplyDelete(d, k, p) \/ ApplyAdd(d, k, p)
                    \/ ApplyPin(d, k, p) \/ ApplyUpdate(d, k, p)

(* Every step of a pass that the code takes of its own accord.             *)
PassStep(d, k) ==
  \/ Read(d, k) \/ FetchAbsent(d, k) \/ FetchOk(d, k) \/ ApplyStep(d, k) \/ Write(d, k)
  \/ k = "publish" /\ Verify(d)

UserAct(d, p) ==
  \/ AddContact(d, p) \/ AddInterrupted(d, p)
  \/ DeleteContact(d, p) \/ DeleteInterrupted(d, p)
  \/ ClearHistory(d, p) \/ RenameContact(d, p) \/ RefreshProfile(d, p)
  \/ InboundAdmitted(d, p)

Next ==
  \/ SecondPasses
  \/ \E d \in Device :
       \/ Crash(d) \/ QueueRerun(d)
       \/ \E k \in PassKind : PassStep(d, k) \/ FetchUnavailable(d, k)
       \/ \E p \in Peer : UserAct(d, p) \/ InboundStored(d, p)

(* A reconcile is started by a timer that never stops, a due publish by a  *)
(* timer too, and each step of a running pass by the answer to the await   *)
(* before it; the clock advances.  Acts and faults are never owed.         *)
Fairness ==
  /\ WF_vars(SecondPasses)
  /\ \A d \in Device : \A k \in PassKind : WF_vars(PassStep(d, k))

Spec == Init /\ [][Next]_vars /\ Fairness

-----------------------------------------------------------------------------
TypeOK ==
  /\ \A d \in Device, p \in Peer : mapping[d][p] \in Mapping \cup {NoMapping}
  /\ deletedRow \in [Device -> [Peer -> Time]]
  /\ watermark \in [Device -> [Peer -> Time]]
  /\ admitted \in [Device -> SUBSET Peer]
  /\ dirty \in [Device -> SUBSET {"due", "rerun"}]
  /\ applying \in [Device -> BOOLEAN]
  /\ \A d \in Device, k \in PassKind :
       Phase(d, k) \in {"idle", "fetch", "apply", "write", "verify"}
  /\ relay # NoSnapshot => relay.version \in {1, Version}

(* A contact leaves a device only because the user deleted it on some      *)
(* device: "absence never means delete" (sync-crdt.ts:20), and clearing a  *)
(* chat's history is no delete (contacts-sync-adapter.ts:35).              *)
RemovalIsDeleted ==
  [][\A d \in Device, p \in Peer :
       (Mapped(d, p) /\ ~Mapped(d, p)') => lastDelete'[p] > 0]_vars

(* A pass of the device applies a map read before the row was written: the *)
(* user, or the device's other pass, deleted the contact since.            *)
ReadBeforeRow(d, k, p) ==
  LET run == pass[d][k]
  IN  /\ run.phase = "apply" /\ p \in run.todo
      /\ p \in DOMAIN run.local =>
           ~run.local[p].deleted \/ run.local[p].updatedAt < deletedRow[d][p]

(* A durable deletion row is dropped only for a deliberate add no earlier  *)
(* than it (virtual-peers-db.ts:508: "Only two callers are legitimate"),   *)
(* with one exception: the sync path of addP2PContact asks nothing of the  *)
(* row it clears, so a pass drops one that its read() could not see.       *)
RowDroppedForAdd ==
  [][\A d \in Device, p \in Peer :
       (deletedRow[d][p] > 0 /\ deletedRow'[d][p] = 0) =>
         \/ lastAdd'[p] >= deletedRow[d][p]
         \/ \E k \in PassKind : ReadBeforeRow(d, k, p)]_vars

(* The proof of intent is never minted by the program: no stamp in an      *)
(* address book or on the relays is later than the last deliberate add,    *)
(* whatever automatic paths wrote in between (sync-crdt.ts:104).       *)
NoInventedProof ==
  /\ \A d \in Device, p \in Peer : Mapped(d, p) => mapping[d][p].stamp <= lastAdd[p]
  /\ relay # NoSnapshot => \A p \in DOMAIN relay.items :
       ~relay.items[p].deleted => relay.items[p].stamp <= lastAdd[p]

-----------------------------------------------------------------------------
(* What the account's user wants, once acts have stopped.                  *)
Wanted(p)   == lastAdd[p] > lastDelete[p]
Unwanted(p) == lastDelete[p] > lastAdd[p]

(* All devices end up with the same contacts.                              *)
EventuallySameContacts ==
  <>[](\A d, e \in Device, p \in Peer : Mapped(d, p) <=> Mapped(e, p))

DeleteSticks == <>[](\A p \in Peer : Unwanted(p) => \A d \in Device : ~Mapped(d, p))

AddSticks == <>[](\A p \in Peer : Wanted(p) => \A d \in Device : Mapped(d, p))

(* Once a device reads a version-1 snapshot the relays get a version-2 one *)
(* and keep it: stale clients are locked out.                              *)
OldSnapshotReplaced == <>[](relay # NoSnapshot => relay.version = Version)
=============================================================================

------------------------------ MODULE SyncCrdt ------------------------------
(***************************************************************************)
(* The union-merge CRDT that contacts-sync, groups-sync and read-state     *)
(* sync share (src/lib/phantomchat/sync-crdt.ts): one entry per id, either *)
(* live (with a payload, and the stamp of its last deliberate add) or a    *)
(* tombstone; deletes are tombstones, absence says nothing.                *)
(*                                                                         *)
(* Times are seconds.  A stamp of 0 stands for an absent deliberateAddAt.  *)
(* The payload is opaque: all mergeEntry asks of it is which of two stable *)
(* serializations is the lexicographically greater, Above below.           *)
(***************************************************************************)
EXTENDS Naturals

CONSTANTS
  Payload,       \* the payloads of live entries, up to stable serialization
  Above(_, _)    \* Above(x, y): x serializes to the greater string

ASSUME PayloadOrder ==
  /\ \A x, y \in Payload : Above(x, y) \in BOOLEAN
  /\ \A x \in Payload : ~Above(x, x)
  /\ \A x, y \in Payload : x # y => (Above(x, y) <=> ~Above(y, x))
  /\ \A x, y, z \in Payload : Above(x, y) /\ Above(y, z) => Above(x, z)

Tombstone == [deleted : {TRUE}, updatedAt : Nat]
Live      == [deleted : {FALSE}, updatedAt : Nat, stamp : Nat, data : Payload]
SyncEntry == Tombstone \cup Live

tombstone(t) == [deleted |-> TRUE, updatedAt |-> t]

liveEntry(data, t, stamp) ==
  [deleted |-> FALSE, updatedAt |-> t, stamp |-> stamp, data |-> data]

-----------------------------------------------------------------------------
Greater(m, n) == IF m >= n THEN m ELSE n

(* Tombstone against tombstone: the later delete. *)
LaterTombstone(a, b) == IF a.updatedAt >= b.updatedAt THEN a ELSE b

(* Tombstone against live: only a deliberate add stamped strictly after    *)
(* the delete brings the item back.                                        *)
TombstoneOrLive_PureLWW(tstone, live) ==
  IF live.updatedAt > tstone.updatedAt THEN live ELSE tstone

TombstoneOrLive_DeleteWins(tstone, live) == tstone

TombstoneOrLive_KeepsPayload(tstone, live) ==
  IF live.stamp > tstone.updatedAt THEN live
  ELSE [live EXCEPT !.deleted = TRUE, !.updatedAt = tstone.updatedAt]

TombstoneOrLive(tstone, live) ==
  IF live.stamp > tstone.updatedAt THEN live ELSE tstone

(* Live against live: the later write, ties to the greater payload, and    *)
(* the greater stamp rides on the winner.                                  *)
LiveOrLive_NoForward(a, b) ==
  IF a.updatedAt > b.updatedAt THEN a
  ELSE IF b.updatedAt > a.updatedAt THEN b
  ELSE IF a.data = b.data THEN (IF b.stamp > a.stamp THEN b ELSE a)
  ELSE IF Above(a.data, b.data) THEN a ELSE b

LiveOrLive_TieKeepsMine(a, b) ==
  LET forward(winner) == [winner EXCEPT !.stamp = Greater(a.stamp, b.stamp)]
  IN  IF a.updatedAt >= b.updatedAt THEN forward(a) ELSE forward(b)

LiveOrLive(a, b) ==
  LET forward(winner) == [winner EXCEPT !.stamp = Greater(a.stamp, b.stamp)]
  IN  IF a.updatedAt > b.updatedAt THEN forward(a)
      ELSE IF b.updatedAt > a.updatedAt THEN forward(b)
      ELSE IF a.data = b.data THEN (IF b.stamp > a.stamp THEN b ELSE a)
      ELSE IF Above(a.data, b.data) THEN forward(a) ELSE forward(b)

mergeEntry(a, b) ==
  IF a.deleted
  THEN IF b.deleted THEN LaterTombstone(a, b) ELSE TombstoneOrLive(a, b)
  ELSE IF b.deleted THEN TombstoneOrLive(b, a) ELSE LiveOrLive(a, b)

(* A SyncMap is a function from the ids it mentions to their entries.      *)
mergeMaps_LocalIdsOnly(local, remote) ==
  [id \in DOMAIN local |->
     IF id \notin DOMAIN remote THEN local[id] ELSE mergeEntry(local[id], remote[id])]

mergeMaps(local, remote) ==
  [id \in DOMAIN local \cup DOMAIN remote |->
     IF id \notin DOMAIN local THEN remote[id]
     ELSE IF id \notin DOMAIN remote THEN local[id]
     ELSE mergeEntry(local[id], remote[id])]

(* Entries are compared in full - time, deleted flag, stamp and payload.   *)
differs(a, b) == a # b
=============================================================================

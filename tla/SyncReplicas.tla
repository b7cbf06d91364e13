---------------------------- MODULE SyncReplicas ----------------------------
(***************************************************************************)
(* What mergeEntry promises, for one id: replicas that write entries of    *)
(* their own and merge each other's results, in any order, on either side  *)
(* of the merge, any number of times.  Nothing of the transport is here;   *)
(* the order in which snapshots reach a device is what CrdtSync leaves to  *)
(* chance.                                                                 *)
(*                                                                         *)
(* seen[r] is a history variable: every entry that went, directly or       *)
(* through another replica, into r's merged entry acc[r].                  *)
(***************************************************************************)
EXTENDS SyncCrdt, FiniteSets

CONSTANTS
  Replica,     \* the devices
  Times,       \* the seconds at which entries are written
  MaxSeen      \* bound: the number of different entries in play

ASSUME ReplicasAssumption == Times \subseteq Nat /\ MaxSeen \in Nat

VARIABLES
  acc,         \* acc[r]: r's merged entry (meaningful once seen[r] # {})
  seen         \* seen[r]: the entries merged into it

vars == <<acc, seen>>

Writable ==
  {tombstone(t) : t \in Times}
    \cup {liveEntry(d, t, s) : d \in Payload, t \in Times, s \in Times}

(* A replica that has seen nothing holds an entry nobody reads.            *)
Init ==
  /\ acc = [r \in Replica |-> tombstone(0)]
  /\ seen = [r \in Replica |-> {}]

Fold(r, e) == IF seen[r] = {} THEN {e} ELSE {mergeEntry(acc[r], e), mergeEntry(e, acc[r])}

Write(r) ==
  \E e \in Writable :
    /\ Cardinality(UNION {seen[q] : q \in Replica} \cup {e}) <= MaxSeen
    /\ acc' \in {[acc EXCEPT ![r] = m] : m \in Fold(r, e)}
    /\ seen' = [seen EXCEPT ![r] = @ \cup {e}]

Receive(r, q) ==
  /\ seen[q] # {}
  /\ acc' \in {[acc EXCEPT ![r] = m] : m \in Fold(r, acc[q])}
  /\ seen' = [seen EXCEPT ![r] = @ \cup seen[q]]

Next == \E r \in Replica : Write(r) \/ \E q \in Replica : Receive(r, q)

Spec == Init /\ [][Next]_vars

-----------------------------------------------------------------------------
TypeOK ==
  /\ acc \in [Replica -> SyncEntry]
  /\ seen \in [Replica -> SUBSET SyncEntry]

(* The reference: an item is deleted exactly when some delete is at least  *)
(* as late as every deliberate add.                                        *)
DeletedBy(entries) ==
  \E t \in entries :
    /\ t.deleted
    /\ \A e \in entries : ~e.deleted => e.stamp <= t.updatedAt

(* "The live/deleted OUTCOME of any set of entries is fold-order           *)
(* independent" (sync-crdt.ts:91): it is a function of the set of entries, *)
(* however they were grouped, ordered and repeated on the way.             *)
OutcomeIsFoldOrderIndependent ==
  \A r \in Replica : seen[r] # {} => (acc[r].deleted <=> DeletedBy(seen[r]))

(* What the next merge will compare is also a function of the set: a live  *)
(* result carries the latest deliberate add, a tombstone the latest delete *)
(* (rule 3: "not propagating it makes a later tombstone-vs-live compare    *)
(* order-dependent across three-way merges").                              *)
EvidenceIsLatest ==
  \A r \in Replica : seen[r] # {} =>
    /\ acc[r].deleted =>
         \A t \in seen[r] : t.deleted => t.updatedAt <= acc[r].updatedAt
    /\ ~acc[r].deleted =>
         \A e \in seen[r] : ~e.deleted => e.stamp <= acc[r].stamp

(* Replicas that have seen the same live entries, and no delete, hold the  *)
(* same entry, payload included (crdt-sync.ts:180: "Both sides always      *)
(* converge on the same union").                                           *)
LiveMergesConverge ==
  \A r, q \in Replica :
    (seen[r] # {} /\ seen[r] = seen[q] /\ \A e \in seen[r] : ~e.deleted)
      => acc[r] = acc[q]
=============================================================================

------------------------- MODULE SyncReplicasProofs -------------------------
(***************************************************************************)
(* The live/deleted outcome of a merge is a function of the entries that   *)
(* went into it, for any replicas, payloads and times.                     *)
(*                                                                         *)
(* The outcome alone is not inductive: whether the next merge deletes is   *)
(* decided by the time or stamp the merged entry still carries.  IInv says *)
(* what that number is - the latest delete for a tombstone, the latest     *)
(* deliberate add for a live entry - and that it beats everything on the   *)
(* other side.  Summary(m, S) is that statement for an entry m standing    *)
(* for the entries S; the lemma MergeSummary joins two of them.            *)
(***************************************************************************)
EXTENDS SyncReplicas, TLAPS

Summary(m, S) ==
  /\ m \in SyncEntry
  /\ S \subseteq SyncEntry
  /\ S # {}
  /\ m.deleted =>
       /\ \E t \in S : t.deleted /\ t.updatedAt = m.updatedAt
       /\ \A t \in S : t.deleted => t.updatedAt <= m.updatedAt
       /\ \A e \in S : ~e.deleted => e.stamp <= m.updatedAt
  /\ ~m.deleted =>
       /\ \E e \in S : ~e.deleted /\ e.stamp = m.stamp
       /\ \A e \in S : ~e.deleted => e.stamp <= m.stamp
       /\ \A t \in S : t.deleted => t.updatedAt < m.stamp

IInv ==
  /\ acc \in [Replica -> SyncEntry]
  /\ seen \in [Replica -> SUBSET SyncEntry]
  /\ \A r \in Replica : seen[r] # {} => Summary(acc[r], seen[r])

-----------------------------------------------------------------------------
(* Merging two live entries yields a live entry with the greater stamp.    *)
LEMMA LiveMerge ==
  ASSUME NEW a \in Live, NEW b \in Live
  PROVE  /\ LiveOrLive(a, b) \in Live
         /\ LiveOrLive(a, b).stamp = Greater(a.stamp, b.stamp)
<1>1. /\ [a EXCEPT !.stamp = Greater(a.stamp, b.stamp)] \in Live
      /\ [a EXCEPT !.stamp = Greater(a.stamp, b.stamp)].stamp = Greater(a.stamp, b.stamp)
      /\ [b EXCEPT !.stamp = Greater(a.stamp, b.stamp)] \in Live
      /\ [b EXCEPT !.stamp = Greater(a.stamp, b.stamp)].stamp = Greater(a.stamp, b.stamp)
  BY DEF Live, Greater
<1>2. a.stamp \in Nat /\ b.stamp \in Nat
  BY DEF Live
<1>3. (IF b.stamp > a.stamp THEN b ELSE a).stamp = Greater(a.stamp, b.stamp)
  BY <1>2 DEF Greater
<1> QED
  BY <1>1, <1>3 DEF LiveOrLive

LEMMA MergeType ==
  ASSUME NEW a \in SyncEntry, NEW b \in SyncEntry
  PROVE  mergeEntry(a, b) \in SyncEntry
<1>1. a \in Live /\ b \in Live => mergeEntry(a, b) \in Live
  BY LiveMerge DEF mergeEntry, Live
<1>2. (a \in Tombstone \/ b \in Tombstone) => mergeEntry(a, b) \in {a, b}
  BY DEF mergeEntry, LaterTombstone, TombstoneOrLive, Tombstone, Live, SyncEntry
<1> QED
  BY <1>1, <1>2 DEF SyncEntry

(* The merge of two entries summarizes the union of what each summarizes.  *)
LEMMA MergeSummary ==
  ASSUME NEW a, NEW b, NEW S, NEW T, Summary(a, S), Summary(b, T)
  PROVE  Summary(mergeEntry(a, b), S \cup T)
<1> DEFINE m == mergeEntry(a, b)
<1>1. /\ a \in SyncEntry /\ b \in SyncEntry
      /\ S \cup T \subseteq SyncEntry /\ S \cup T # {}
  BY DEF Summary
<1>2. m \in SyncEntry
  BY <1>1, MergeType
<1>3. /\ \A e \in S \cup T : e.deleted => e.updatedAt \in Nat
      /\ \A e \in S \cup T : ~e.deleted => e.stamp \in Nat
  BY <1>1 DEF SyncEntry, Live, Tombstone
<1>4. CASE a.deleted /\ b.deleted
  <2>1. a.updatedAt \in Nat /\ b.updatedAt \in Nat
    BY <1>1 DEF SyncEntry, Live, Tombstone
  <2>2. m = LaterTombstone(a, b)
    BY <1>4 DEF mergeEntry
  <2> QED
    BY <1>1, <1>2, <1>3, <1>4, <2>1, <2>2 DEF Summary, LaterTombstone
<1>5. CASE a.deleted /\ ~b.deleted
  <2>1. a.updatedAt \in Nat /\ b.stamp \in Nat
    BY <1>1, <1>5 DEF SyncEntry, Live, Tombstone
  <2>2. m = TombstoneOrLive(a, b)
    BY <1>5 DEF mergeEntry
  <2> QED
    BY <1>1, <1>2, <1>3, <1>5, <2>1, <2>2 DEF Summary, TombstoneOrLive
<1>6. CASE ~a.deleted /\ b.deleted
  <2>1. b.updatedAt \in Nat /\ a.stamp \in Nat
    BY <1>1, <1>6 DEF SyncEntry, Live, Tombstone
  <2>2. m = TombstoneOrLive(b, a)
    BY <1>6 DEF mergeEntry
  <2> QED
    BY <1>1, <1>2, <1>3, <1>6, <2>1, <2>2 DEF Summary, TombstoneOrLive
<1>7. CASE ~a.deleted /\ ~b.deleted
  <2>1. a \in Live /\ b \in Live
    BY <1>1, <1>7 DEF SyncEntry, Live, Tombstone
  <2>2. m = LiveOrLive(a, b)
    BY <1>7 DEF mergeEntry
  <2>3. m \in Live /\ m.stamp = Greater(a.stamp, b.stamp)
    BY <2>1, <2>2, LiveMerge
  <2>4. ~m.deleted /\ a.stamp \in Nat /\ b.stamp \in Nat
    BY <2>1, <2>3 DEF Live
  <2> QED
    BY <1>1, <1>2, <1>3, <1>7, <2>3, <2>4 DEF Summary, Greater
<1>8. a.deleted \in BOOLEAN /\ b.deleted \in BOOLEAN
  BY <1>1 DEF SyncEntry, Live, Tombstone
<1> QED
  BY <1>4, <1>5, <1>6, <1>7, <1>8

LEMMA SingletonSummary ==
  ASSUME NEW e \in SyncEntry
  PROVE  Summary(e, {e})
<1>1. CASE e \in Tombstone
  <2>1. e.deleted = TRUE /\ e.updatedAt \in Nat
    BY <1>1 DEF Tombstone
  <2> QED
    BY <2>1 DEF Summary
<1>2. CASE e \in Live
  <2>1. e.deleted = FALSE /\ e.stamp \in Nat
    BY <1>2 DEF Live
  <2> QED
    BY <2>1 DEF Summary
<1> QED
  BY <1>1, <1>2 DEF SyncEntry

LEMMA WritableType == Writable \subseteq SyncEntry
<1>1. \A t \in Times : tombstone(t) \in Tombstone
  BY ReplicasAssumption DEF tombstone, Tombstone
<1>2. \A d \in Payload, t \in Times, s \in Times : liveEntry(d, t, s) \in Live
  BY ReplicasAssumption DEF liveEntry, Live
<1> QED
  BY <1>1, <1>2 DEF Writable, SyncEntry

(* Folding an entry that summarizes E into r leaves r summarizing both.    *)
LEMMA FoldSummary ==
  ASSUME IInv, NEW r \in Replica, NEW e, NEW E, Summary(e, E), NEW m \in Fold(r, e)
  PROVE  /\ m \in SyncEntry
         /\ Summary(m, seen[r] \cup E)
<1>1. CASE seen[r] = {}
  <2>1. m = e
    BY <1>1 DEF Fold
  <2> QED
    BY <1>1, <2>1 DEF Summary
<1>2. CASE seen[r] # {}
  <2>1. Summary(acc[r], seen[r])
    BY <1>2 DEF IInv
  <2>2. Summary(mergeEntry(acc[r], e), seen[r] \cup E)
    BY <2>1, MergeSummary
  <2>3. E \cup seen[r] = seen[r] \cup E
    OBVIOUS
  <2>4. Summary(mergeEntry(e, acc[r]), seen[r] \cup E)
    BY <2>1, <2>3, MergeSummary
  <2>5. m = mergeEntry(acc[r], e) \/ m = mergeEntry(e, acc[r])
    BY <1>2 DEF Fold
  <2>6. Summary(m, seen[r] \cup E)
    BY <2>2, <2>4, <2>5
  <2> QED
    BY <2>6 DEF Summary
<1> QED
  BY <1>1, <1>2

(* IInv is inductive.                                                      *)
LEMMA Inductive == Spec => []IInv
<1>1. Init => IInv
  <2>1. tombstone(0) \in SyncEntry
    BY DEF tombstone, SyncEntry, Tombstone
  <2> QED
    BY <2>1 DEF Init, IInv
<1>2. IInv /\ [Next]_vars => IInv'
  <2> SUFFICES ASSUME IInv, [Next]_vars
               PROVE  IInv'
    OBVIOUS
  <2>1. ASSUME NEW r \in Replica, Write(r)
        PROVE  IInv'
    <3>1. PICK e \in Writable :
            /\ acc' \in {[acc EXCEPT ![r] = m] : m \in Fold(r, e)}
            /\ seen' = [seen EXCEPT ![r] = @ \cup {e}]
      BY <2>1 DEF Write
    <3>2. PICK m \in Fold(r, e) : acc' = [acc EXCEPT ![r] = m]
      BY <3>1
    <3>3. Summary(e, {e})
      BY WritableType, SingletonSummary
    <3>4. m \in SyncEntry /\ Summary(m, seen[r] \cup {e})
      BY <3>3, FoldSummary
    <3> QED
      BY <3>1, <3>2, <3>4 DEF IInv, Summary
  <2>2. ASSUME NEW r \in Replica, NEW q \in Replica, Receive(r, q)
        PROVE  IInv'
    <3>1. Summary(acc[q], seen[q])
      BY <2>2 DEF Receive, IInv
    <3>2. PICK m \in Fold(r, acc[q]) :
            /\ acc' = [acc EXCEPT ![r] = m]
            /\ seen' = [seen EXCEPT ![r] = @ \cup seen[q]]
      BY <2>2 DEF Receive
    <3>3. m \in SyncEntry /\ Summary(m, seen[r] \cup seen[q])
      BY <3>1, FoldSummary
    <3> QED
      BY <3>2, <3>3 DEF IInv, Summary
  <2>3. CASE UNCHANGED vars
    BY <2>3 DEF IInv, vars
  <2> QED
    BY <2>1, <2>2, <2>3 DEF Next
<1> QED
  BY <1>1, <1>2, PTL DEF Spec

-----------------------------------------------------------------------------
(* Merged entries and the entries behind them keep their types, whatever   *)
(* order snapshots are merged in.                                          *)
THEOREM TypeCorrect == Spec => []TypeOK
<1>1. IInv => TypeOK
  BY DEF IInv, TypeOK
<1> QED
  BY <1>1, Inductive, PTL

(* Whether an item is deleted depends only on which deletes and deliberate *)
(* adds were merged: mergeEntry's "fold-order independent" outcome.        *)
THEOREM OutcomeOrderIndependent == Spec => []OutcomeIsFoldOrderIndependent
<1>1. IInv => OutcomeIsFoldOrderIndependent
  <2> SUFFICES ASSUME IInv, NEW r \in Replica, seen[r] # {}
               PROVE  acc[r].deleted <=> DeletedBy(seen[r])
    BY DEF OutcomeIsFoldOrderIndependent
  <2>1. Summary(acc[r], seen[r])
    BY DEF IInv
  <2>2. CASE acc[r].deleted
    BY <2>1, <2>2 DEF Summary, DeletedBy
  <2>3. CASE ~acc[r].deleted
    <3>1. PICK e \in seen[r] : ~e.deleted /\ e.stamp = acc[r].stamp
      BY <2>1, <2>3 DEF Summary
    <3>2. e.stamp \in Nat
      BY <2>1, <3>1 DEF Summary, SyncEntry, Live, Tombstone
    <3>3. ASSUME NEW t \in seen[r], t.deleted, e.stamp <= t.updatedAt
          PROVE  FALSE
      <4>1. t.updatedAt \in Nat /\ t.updatedAt < e.stamp
        BY <2>1, <2>3, <3>1, <3>3 DEF Summary, SyncEntry, Live, Tombstone
      <4> QED
        BY <3>2, <3>3, <4>1
    <3> QED
      BY <2>3, <3>1, <3>3 DEF DeletedBy
  <2> QED
    BY <2>2, <2>3
<1> QED
  BY <1>1, Inductive, PTL

(* A merged tombstone carries the latest delete and a merged live entry    *)
(* the latest deliberate add, so the next comparison is order-independent. *)
THEOREM EvidenceLatest == Spec => []EvidenceIsLatest
<1>1. IInv => EvidenceIsLatest
  BY DEF IInv, EvidenceIsLatest, Summary
<1> QED
  BY <1>1, Inductive, PTL

-----------------------------------------------------------------------------
(* Live entries by themselves: the latest write wins, ties go to the       *)
(* greater payload.  NotAfter is that order, and Latest says that an entry *)
(* without deletes behind it is its greatest element.                      *)
NotAfter(e, m) ==
  \/ e.updatedAt < m.updatedAt
  \/ e.updatedAt = m.updatedAt /\ (e.data = m.data \/ Above(m.data, e.data))

NoDelete(S) == \A e \in S : ~e.deleted

Latest(m, S) ==
  NoDelete(S) =>
    /\ m \in Live
    /\ \E e \in S : e.updatedAt = m.updatedAt /\ e.data = m.data
    /\ \A e \in S : NotAfter(e, m)

LEMMA LiveWithoutDelete ==
  ASSUME NEW S, S \subseteq SyncEntry, NoDelete(S)
  PROVE  S \subseteq Live
BY DEF NoDelete, SyncEntry, Tombstone

LEMMA NotAfterTransitive ==
  ASSUME NEW a \in Live, NEW b \in Live, NEW c \in Live, NotAfter(a, b), NotAfter(b, c)
  PROVE  NotAfter(a, c)
<1>1. /\ a.updatedAt \in Nat /\ b.updatedAt \in Nat /\ c.updatedAt \in Nat
      /\ a.data \in Payload /\ b.data \in Payload /\ c.data \in Payload
  BY DEF Live
<1>2. Above(c.data, b.data) /\ Above(b.data, a.data) => Above(c.data, a.data)
  BY <1>1, PayloadOrder
<1> QED
  BY <1>1, <1>2 DEF NotAfter

LEMMA LiveMergeIsLatest ==
  ASSUME NEW a \in Live, NEW b \in Live
  PROVE  /\ NotAfter(a, LiveOrLive(a, b)) /\ NotAfter(b, LiveOrLive(a, b))
         /\ \E w \in {a, b} : /\ w.updatedAt = LiveOrLive(a, b).updatedAt
                              /\ w.data = LiveOrLive(a, b).data
<1> DEFINE m == LiveOrLive(a, b)
           Won(w) == m.updatedAt = w.updatedAt /\ m.data = w.data
<1>1. /\ a.updatedAt \in Nat /\ b.updatedAt \in Nat
      /\ a.data \in Payload /\ b.data \in Payload
  BY DEF Live
<1>2. /\ [a EXCEPT !.stamp = Greater(a.stamp, b.stamp)].updatedAt = a.updatedAt
      /\ [a EXCEPT !.stamp = Greater(a.stamp, b.stamp)].data = a.data
      /\ [b EXCEPT !.stamp = Greater(a.stamp, b.stamp)].updatedAt = b.updatedAt
      /\ [b EXCEPT !.stamp = Greater(a.stamp, b.stamp)].data = b.data
  BY DEF Live
<1>3. CASE a.updatedAt > b.updatedAt
  <2>1. Won(a)
    BY <1>2, <1>3 DEF LiveOrLive
  <2> HIDE DEF m
  <2> QED
    BY <1>1, <1>3, <2>1 DEF NotAfter, m
<1>4. CASE b.updatedAt > a.updatedAt
  <2>1. Won(b)
    BY <1>1, <1>2, <1>4 DEF LiveOrLive
  <2> HIDE DEF m
  <2> QED
    BY <1>1, <1>4, <2>1 DEF NotAfter, m
<1>5. CASE a.updatedAt = b.updatedAt /\ a.data = b.data
  <2>1. Won(a) /\ Won(b)
    BY <1>1, <1>5 DEF LiveOrLive
  <2> HIDE DEF m
  <2> QED
    BY <1>5, <2>1 DEF NotAfter, m
<1>6. CASE a.updatedAt = b.updatedAt /\ a.data # b.data
  <2>1. Above(a.data, b.data) <=> ~Above(b.data, a.data)
    BY <1>1, <1>6, PayloadOrder
  <2>2. CASE Above(a.data, b.data)
    <3>1. Won(a)
      BY <1>1, <1>2, <1>6, <2>2 DEF LiveOrLive
    <3> HIDE DEF m
    <3> QED
      BY <1>6, <2>2, <3>1 DEF NotAfter, m
  <2>3. CASE ~Above(a.data, b.data)
    <3>1. Won(b)
      BY <1>1, <1>2, <1>6, <2>3 DEF LiveOrLive
    <3> HIDE DEF m
    <3> QED
      BY <1>6, <2>1, <2>3, <3>1 DEF NotAfter, m
  <2> QED
    BY <2>2, <2>3
<1> QED
  BY <1>1, <1>3, <1>4, <1>5, <1>6

LEMMA MergeLatest ==
  ASSUME NEW a, NEW b, NEW S, NEW T, Summary(a, S), Summary(b, T), Latest(a, S), Latest(b, T)
  PROVE  Latest(mergeEntry(a, b), S \cup T)
<1> SUFFICES ASSUME NoDelete(S \cup T)
             PROVE  /\ mergeEntry(a, b) \in Live
                    /\ \E e \in S \cup T : /\ e.updatedAt = mergeEntry(a, b).updatedAt
                                           /\ e.data = mergeEntry(a, b).data
                    /\ \A e \in S \cup T : NotAfter(e, mergeEntry(a, b))
  BY DEF Latest
<1> DEFINE m == LiveOrLive(a, b)
<1>1. NoDelete(S) /\ NoDelete(T)
  BY DEF NoDelete
<1>2. /\ a \in Live /\ \A e \in S : NotAfter(e, a)
      /\ \E e \in S : e.updatedAt = a.updatedAt /\ e.data = a.data
  BY <1>1 DEF Latest
<1>3. /\ b \in Live /\ \A e \in T : NotAfter(e, b)
      /\ \E e \in T : e.updatedAt = b.updatedAt /\ e.data = b.data
  BY <1>1 DEF Latest
<1>4. S \subseteq Live /\ T \subseteq Live
  BY <1>1, LiveWithoutDelete DEF Summary
<1>5. mergeEntry(a, b) = m /\ m \in Live
  BY <1>2, <1>3, LiveMerge DEF mergeEntry, Live
<1>6. /\ NotAfter(a, m) /\ NotAfter(b, m)
      /\ \E w \in {a, b} : w.updatedAt = m.updatedAt /\ w.data = m.data
  BY <1>2, <1>3, LiveMergeIsLatest
<1> HIDE DEF m
<1>7. \A e \in S \cup T : NotAfter(e, m)
  BY <1>2, <1>3, <1>4, <1>5, <1>6, NotAfterTransitive
<1>8. \E e \in S \cup T : e.updatedAt = m.updatedAt /\ e.data = m.data
  BY <1>2, <1>3, <1>6
<1> QED
  BY <1>5, <1>7, <1>8

LEMMA SingletonLatest ==
  ASSUME NEW e \in SyncEntry
  PROVE  Latest(e, {e})
<1>1. NoDelete({e}) => e \in Live
  BY LiveWithoutDelete
<1> QED
  BY <1>1 DEF Latest, NotAfter

Merged(m, S) == Summary(m, S) /\ Latest(m, S)

LInv == IInv /\ \A r \in Replica : seen[r] # {} => Latest(acc[r], seen[r])

LEMMA FoldLatest ==
  ASSUME LInv, NEW r \in Replica, NEW e, NEW E, Merged(e, E), NEW m \in Fold(r, e)
  PROVE  Latest(m, seen[r] \cup E)
<1>1. CASE seen[r] = {}
  <2>1. m = e /\ seen[r] \cup E = E
    BY <1>1 DEF Fold
  <2> QED
    BY <2>1 DEF Merged
<1>2. CASE seen[r] # {}
  <2>1. Summary(acc[r], seen[r]) /\ Latest(acc[r], seen[r])
    BY <1>2 DEF LInv, IInv
  <2>2. Latest(mergeEntry(acc[r], e), seen[r] \cup E)
    BY <2>1, MergeLatest DEF Merged
  <2>3. E \cup seen[r] = seen[r] \cup E
    OBVIOUS
  <2>4. Latest(mergeEntry(e, acc[r]), E \cup seen[r])
    BY <2>1, MergeLatest DEF Merged
  <2>5. m = mergeEntry(acc[r], e) \/ m = mergeEntry(e, acc[r])
    BY <1>2 DEF Fold
  <2> QED
    BY <2>2, <2>3, <2>4, <2>5
<1> QED
  BY <1>1, <1>2

(* One replica folds m in, the others keep what they have.                 *)
LEMMA FoldKeepsLatest ==
  ASSUME LInv, NEW r \in Replica, NEW e, NEW E, Merged(e, E), NEW m \in Fold(r, e),
         acc' = [acc EXCEPT ![r] = m], seen' = [seen EXCEPT ![r] = @ \cup E]
  PROVE  \A q \in Replica : seen'[q] # {} => Latest(acc'[q], seen'[q])
<1>1. acc \in [Replica -> SyncEntry] /\ seen \in [Replica -> SUBSET SyncEntry]
  BY DEF LInv, IInv
<1>2. acc'[r] = m /\ seen'[r] = seen[r] \cup E
  BY <1>1
<1>3. \A q \in Replica : q # r => acc'[q] = acc[q] /\ seen'[q] = seen[q]
  BY <1>1
<1>4. Latest(m, seen[r] \cup E)
  BY FoldLatest
<1> QED
  BY <1>2, <1>3, <1>4 DEF LInv

LEMMA LatestInductive == Spec => []LInv
<1>1. Init => \A r \in Replica : seen[r] # {} => Latest(acc[r], seen[r])
  BY DEF Init
<1>2. LInv /\ [Next]_vars => \A r \in Replica : seen'[r] # {} => Latest(acc'[r], seen'[r])
  <2> SUFFICES ASSUME LInv, [Next]_vars
               PROVE  \A r \in Replica : seen'[r] # {} => Latest(acc'[r], seen'[r])
    OBVIOUS
  <2>1. ASSUME NEW r \in Replica, Write(r)
        PROVE  \A q \in Replica : seen'[q] # {} => Latest(acc'[q], seen'[q])
    <3>1. PICK e \in Writable :
            /\ acc' \in {[acc EXCEPT ![r] = m] : m \in Fold(r, e)}
            /\ seen' = [seen EXCEPT ![r] = @ \cup {e}]
      BY <2>1 DEF Write
    <3>2. PICK m \in Fold(r, e) : acc' = [acc EXCEPT ![r] = m]
      BY <3>1
    <3>3. Merged(e, {e})
      BY WritableType, SingletonSummary, SingletonLatest DEF Merged
    <3> QED
      BY <3>1, <3>2, <3>3, FoldKeepsLatest
  <2>2. ASSUME NEW r \in Replica, NEW q \in Replica, Receive(r, q)
        PROVE  \A p \in Replica : seen'[p] # {} => Latest(acc'[p], seen'[p])
    <3>1. Merged(acc[q], seen[q])
      BY <2>2 DEF Receive, LInv, IInv, Merged
    <3>2. PICK m \in Fold(r, acc[q]) :
            /\ acc' = [acc EXCEPT ![r] = m]
            /\ seen' = [seen EXCEPT ![r] = @ \cup seen[q]]
      BY <2>2 DEF Receive
    <3> QED
      BY <3>1, <3>2, FoldKeepsLatest
  <2>3. CASE UNCHANGED vars
    BY <2>3 DEF LInv, vars
  <2> QED
    BY <2>1, <2>2, <2>3 DEF Next
<1>3. (\A r \in Replica : seen[r] # {} => Latest(acc[r], seen[r]))'
        <=> \A r \in Replica : seen'[r] # {} => Latest(acc'[r], seen'[r])
  BY DEF Latest, NoDelete, NotAfter
<1> DEFINE Part == \A r \in Replica : seen[r] # {} => Latest(acc[r], seen[r])
<1>4. LInv <=> IInv /\ Part
  BY DEF LInv
<1>5. Init => Part
  BY <1>1
<1>6. IInv /\ Part /\ [Next]_vars => Part'
  BY <1>2, <1>3, <1>4
<1> HIDE DEF Part
<1> QED
  BY <1>4, <1>5, <1>6, Inductive, PTL DEF Spec

LEMMA LiveIsItsFields ==
  ASSUME NEW a \in Live, NEW b \in Live,
         a.updatedAt = b.updatedAt, a.stamp = b.stamp, a.data = b.data
  PROVE  a = b
<1>1. a = [deleted |-> a.deleted, updatedAt |-> a.updatedAt,
           stamp |-> a.stamp, data |-> a.data]
  BY DEF Live
<1>2. b = [deleted |-> b.deleted, updatedAt |-> b.updatedAt,
           stamp |-> b.stamp, data |-> b.data]
  BY DEF Live
<1>3. a.deleted = FALSE /\ b.deleted = FALSE
  BY DEF Live
<1> QED
  BY <1>1, <1>2, <1>3

(* "Both sides always converge on the same union" (crdt-sync.ts): replicas *)
(* that merged the same live entries hold the same one, payload included.  *)
THEOREM LiveEntriesConverge == Spec => []LiveMergesConverge
<1>1. LInv => LiveMergesConverge
  <2> SUFFICES ASSUME LInv, NEW r \in Replica, NEW q \in Replica,
                      seen[r] # {}, seen[r] = seen[q], NoDelete(seen[r])
               PROVE  acc[r] = acc[q]
    BY DEF LiveMergesConverge, NoDelete
  <2> DEFINE a == acc[r]
             b == acc[q]
             S == seen[r]
  <2>1. Summary(a, S) /\ Summary(b, S) /\ Latest(a, S) /\ Latest(b, S) /\ S \subseteq SyncEntry
    BY DEF LInv, IInv
  <2>2. S \subseteq Live /\ a \in Live /\ b \in Live
    BY <2>1, LiveWithoutDelete DEF Latest
  <2> HIDE DEF a, b, S
  <2>3. ~a.deleted /\ ~b.deleted /\ a.stamp \in Nat /\ b.stamp \in Nat
    BY <2>2 DEF Live
  <2>4. a.stamp = b.stamp
    <3>1. PICK d \in S : d.stamp = a.stamp
      BY <2>1, <2>3 DEF Summary
    <3>2. PICK e \in S : e.stamp = b.stamp
      BY <2>1, <2>3 DEF Summary
    <3>3. NoDelete(S)
      BY DEF S
    <3>4. d.stamp <= b.stamp /\ e.stamp <= a.stamp
      BY <2>1, <2>3, <3>3 DEF Summary, NoDelete
    <3> QED
      BY <2>3, <3>1, <3>2, <3>4
  <2>5. NotAfter(a, b) /\ NotAfter(b, a)
    <3>1. NoDelete(S)
      BY DEF S
    <3>2. PICK d \in S : d.updatedAt = a.updatedAt /\ d.data = a.data
      BY <2>1, <3>1 DEF Latest
    <3>3. PICK e \in S : e.updatedAt = b.updatedAt /\ e.data = b.data
      BY <2>1, <3>1 DEF Latest
    <3>4. NotAfter(d, b) /\ NotAfter(e, a)
      BY <2>1, <3>1 DEF Latest
    <3> QED
      BY <3>2, <3>3, <3>4 DEF NotAfter
  <2>6. a.updatedAt = b.updatedAt /\ a.data = b.data
    <3>1. /\ a.updatedAt \in Nat /\ b.updatedAt \in Nat
          /\ a.data \in Payload /\ b.data \in Payload
      BY <2>2 DEF Live
    <3>2. a.updatedAt = b.updatedAt
      BY <2>5, <3>1 DEF NotAfter
    <3>3. a.data = b.data \/ (Above(a.data, b.data) /\ Above(b.data, a.data))
      BY <2>5, <3>1, <3>2 DEF NotAfter
    <3>4. a.data # b.data => ~(Above(a.data, b.data) /\ Above(b.data, a.data))
      BY <3>1, PayloadOrder
    <3> QED
      BY <3>2, <3>3, <3>4
  <2>7. a = b
    BY <2>2, <2>4, <2>6, LiveIsItsFields
  <2> QED
    BY <2>7 DEF a, b
<1> QED
  BY <1>1, LatestInductive, PTL
=============================================================================

------------------------- MODULE ContactsSyncProofs -------------------------
(***************************************************************************)
(* Type correctness of ContactsSync, and that no pass, on any device,      *)
(* invents the proof of a deliberate add: for any devices, contacts,       *)
(* names, kinds of act and bounds.                                         *)
(*                                                                         *)
(* NoInventedProof speaks of the address books and the relays, and a stamp *)
(* reaches both through the maps that passes carry over their awaits, some *)
(* read long ago.  The inductive invariant bounds those too, and lastAdd   *)
(* by the clock, so that an add only ever raises the bound.                *)
(***************************************************************************)
EXTENDS ContactsSync, TLAPS

Entry ==
  {e \in SyncEntry : e.updatedAt \in Time /\ (~e.deleted => e.stamp \in Time)}

View == UNION {[D -> Entry] : D \in SUBSET Peer}

Book == [Peer -> Mapping \cup {NoMapping}]

Run ==
  {Idle}
    \cup [phase : {"fetch"}, local : View]
    \cup [phase : {"apply"}, local : View, merged : View, stored : Book,
          todo : SUBSET Peer, pinning : Peer \cup {NoPeer}, write : BOOLEAN]
    \cup [phase : {"write", "verify"}, merged : View]

Snapshot == [version : {1, Version}, items : View, fresh : BOOLEAN]

TypeInv ==
  /\ mapping \in [Device -> Book]
  /\ deletedRow \in [Device -> [Peer -> Time]]
  /\ watermark \in [Device -> [Peer -> Time]]
  /\ admitted \in [Device -> SUBSET Peer]
  /\ dirty \in [Device -> SUBSET {"due", "rerun"}]
  /\ applying \in [Device -> BOOLEAN]
  /\ pass \in [Device -> [PassKind -> Run]]
  /\ relay \in Snapshot \cup {NoSnapshot}
  /\ now \in Time
  /\ lastAdd \in [Peer -> Time]

(* A view's live entries carry no stamp later than the bound.              *)
Within(view, bound) ==
  \A p \in DOMAIN view : ~view[p].deleted => view[p].stamp <= bound[p]

RunWithin(run, bound) ==
  /\ run.phase \in {"fetch", "apply"} => Within(run.local, bound)
  /\ run.phase \in {"apply", "write", "verify"} => Within(run.merged, bound)
  /\ run.phase = "apply" =>
       /\ run.todo \subseteq DOMAIN run.merged
       /\ run.pinning # NoPeer =>
            run.pinning \in DOMAIN run.merged /\ ~run.merged[run.pinning].deleted

BooksWithin ==
  \A d \in Device, p \in Peer : Mapped(d, p) => mapping[d][p].stamp <= lastAdd[p]

RelayWithin == relay # NoSnapshot => Within(relay.items, lastAdd)

PassesWithin == \A d \in Device, k \in PassKind : RunWithin(pass[d][k], lastAdd)

StampInv ==
  /\ \A p \in Peer : lastAdd[p] <= now
  /\ BooksWithin /\ RelayWithin /\ PassesWithin

IInv == TypeInv /\ StampInv

-----------------------------------------------------------------------------
LEMMA TimeIsNat == Time \subseteq Nat /\ 0 \in Time /\ 1 \in Time
BY ContactsAssumption DEF Time

(* storeMapping's upsert, and the pinning of a merged entry's timestamps.  *)
LEMMA UpsertedType ==
  ASSUME NEW m \in Mapping \cup {NoMapping}, NEW name \in Name \cup {NoName},
         NEW stamp \in Time, now \in Time
  PROVE  /\ Upserted(m, name, stamp) \in Mapping
         /\ m = NoMapping => Upserted(m, name, stamp).stamp = stamp
         /\ m # NoMapping => Upserted(m, name, stamp).stamp = Greater(m.stamp, stamp)
<1>1. CASE m = NoMapping
  BY <1>1 DEF Upserted, Mapping
<1>2. CASE m # NoMapping
  <2>1. m \in Mapping
    BY <1>2
  <2>2. Greater(m.stamp, stamp) \in Time
    BY <2>1 DEF Greater, Mapping
  <2> QED
    BY <1>2, <2>1, <2>2 DEF Upserted, Mapping
<1> QED
  BY <1>1, <1>2

LEMMA PinnedType ==
  ASSUME NEW m \in Mapping \cup {NoMapping}, NEW updatedAt \in Time, NEW stamp \in Time
  PROVE  /\ Pinned(m, updatedAt, stamp) \in Mapping \cup {NoMapping}
         /\ m = NoMapping => Pinned(m, updatedAt, stamp) = NoMapping
         /\ m # NoMapping =>
              /\ Pinned(m, updatedAt, stamp) \in Mapping
              /\ Pinned(m, updatedAt, stamp).stamp = Greater(m.stamp, stamp)
<1>1. CASE m = NoMapping
  BY <1>1 DEF Pinned
<1>2. CASE m # NoMapping
  <2>1. m \in Mapping
    BY <1>2
  <2>2. Greater(m.stamp, stamp) \in Time
    BY <2>1 DEF Greater, Mapping
  <2> QED
    BY <1>2, <2>1, <2>2 DEF Pinned, Mapping
<1> QED
  BY <1>1, <1>2

(* Merging entries keeps them well formed and their stamps within a bound. *)
LEMMA MergeEntryWithin ==
  ASSUME NEW a \in Entry, NEW b \in Entry, NEW n \in Nat,
         ~a.deleted => a.stamp <= n, ~b.deleted => b.stamp <= n
  PROVE  /\ mergeEntry(a, b) \in Entry
         /\ ~mergeEntry(a, b).deleted => mergeEntry(a, b).stamp <= n
<1>1. CASE a.deleted \/ b.deleted
  BY <1>1 DEF mergeEntry, LaterTombstone, TombstoneOrLive
<1>2. CASE ~a.deleted /\ ~b.deleted
  <2>1. /\ a \in Live /\ a.stamp \in Time /\ a.updatedAt \in Time
        /\ b \in Live /\ b.stamp \in Time /\ b.updatedAt \in Time
    BY <1>2 DEF Entry, SyncEntry, Tombstone
  <2> DEFINE s == Greater(a.stamp, b.stamp)
             fa == [a EXCEPT !.stamp = s]
             fb == [b EXCEPT !.stamp = s]
  <2>2. s \in Time /\ s \in Nat /\ s <= n
    BY <1>2, <2>1, TimeIsNat DEF Greater
  <2>3. /\ fa \in Live /\ fa.stamp = s /\ fa.updatedAt = a.updatedAt /\ ~fa.deleted
        /\ fb \in Live /\ fb.stamp = s /\ fb.updatedAt = b.updatedAt /\ ~fb.deleted
    BY <1>2, <2>1, <2>2 DEF Live
  <2>4. mergeEntry(a, b) \in {a, b, fa, fb}
    BY <1>2 DEF mergeEntry, LiveOrLive
  <2> QED
    BY <1>2, <2>1, <2>2, <2>3, <2>4 DEF Entry, SyncEntry
<1> QED
  BY <1>1, <1>2

LEMMA MergeMapsWithin ==
  ASSUME NEW f \in View, NEW g \in View, NEW bound \in [Peer -> Time],
         Within(f, bound), Within(g, bound)
  PROVE  mergeMaps(f, g) \in View /\ Within(mergeMaps(f, g), bound)
<1> DEFINE h == mergeMaps(f, g)
<1>1. /\ DOMAIN f \subseteq Peer /\ \A p \in DOMAIN f : f[p] \in Entry
      /\ DOMAIN g \subseteq Peer /\ \A p \in DOMAIN g : g[p] \in Entry
  BY DEF View
<1>2. ASSUME NEW p \in DOMAIN f \cup DOMAIN g
      PROVE  h[p] \in Entry /\ (~h[p].deleted => h[p].stamp <= bound[p])
  <2>1. bound[p] \in Nat
    BY <1>1, TimeIsNat
  <2>2. CASE p \in DOMAIN f /\ p \in DOMAIN g
    <3>1. h[p] = mergeEntry(f[p], g[p])
      BY <2>2 DEF mergeMaps
    <3> QED
      BY <1>1, <2>1, <2>2, <3>1, MergeEntryWithin DEF Within
  <2>3. CASE p \notin DOMAIN f
    BY <1>1, <2>3 DEF mergeMaps, Within
  <2>4. CASE p \notin DOMAIN g
    BY <1>1, <2>4 DEF mergeMaps, Within
  <2> QED
    BY <2>2, <2>3, <2>4
<1>3. h = [p \in DOMAIN f \cup DOMAIN g |-> h[p]]
  BY DEF mergeMaps
<1>4. h \in [DOMAIN f \cup DOMAIN g -> Entry]
  BY <1>2, <1>3
<1> QED
  BY <1>1, <1>2, <1>4 DEF View, Within

LEMMA TombstoneType ==
  ASSUME NEW t \in Time
  PROVE  tombstone(t) \in Entry /\ tombstone(t).deleted
<1>1. tombstone(t) = [deleted |-> TRUE, updatedAt |-> t]
  BY DEF tombstone
<1>2. t \in Nat
  BY TimeIsNat
<1>3. tombstone(t) \in Tombstone
  BY <1>1, <1>2 DEF Tombstone
<1> QED
  BY <1>1, <1>3 DEF Entry, SyncEntry

(* What a pass reads off the address book.                                 *)
LEMMA LocalMapWithin ==
  ASSUME IInv, NEW d \in Device
  PROVE  LocalMap(d) \in View /\ Within(LocalMap(d), lastAdd)
<1> DEFINE D == {q \in Peer : Mapped(d, q) \/ DeleteStamp(d, q) > 0}
<1>1. ASSUME NEW p \in D
      PROVE  /\ LocalMap(d)[p] \in Entry
             /\ ~LocalMap(d)[p].deleted => LocalMap(d)[p].stamp <= lastAdd[p]
  <2>1. CASE Outranked(d, p)
    <3>1. deletedRow[d][p] \in Time /\ watermark[d][p] \in Time
      BY DEF IInv, TypeInv
    <3>2. DeleteStamp(d, p) \in Time
      BY <3>1 DEF DeleteStamp, Greater
    <3>3. LocalMap(d)[p] = tombstone(DeleteStamp(d, p))
      BY <2>1 DEF LocalMap
    <3> QED
      BY <3>2, <3>3, TombstoneType
  <2>2. CASE ~Outranked(d, p)
    <3>1. Mapped(d, p)
      BY <1>1, <2>2 DEF Outranked
    <3>2. /\ mapping[d][p] \in Mapping
          /\ mapping[d][p].stamp <= lastAdd[p]
      BY <3>1 DEF IInv, TypeInv, Book, StampInv, BooksWithin, Mapped
    <3>3. LocalMap(d)[p] = EntryOf(mapping[d][p])
      BY <2>2 DEF LocalMap
    <3>4. EntryOf(mapping[d][p]) \in Live
      BY <3>2, TimeIsNat DEF EntryOf, PayloadOf, liveEntry, Live, Payload, Mapping
    <3>5. /\ EntryOf(mapping[d][p]).stamp = mapping[d][p].stamp
          /\ EntryOf(mapping[d][p]).updatedAt = mapping[d][p].updatedAt
      BY DEF EntryOf, liveEntry
    <3> QED
      BY <3>2, <3>3, <3>4, <3>5 DEF Entry, SyncEntry, Mapping
  <2> QED
    BY <2>1, <2>2
<1>2. LocalMap(d) \in [D -> Entry]
  BY <1>1 DEF LocalMap
<1>3. DOMAIN LocalMap(d) = D /\ D \in SUBSET Peer
  BY DEF LocalMap
<1> QED
  BY <1>1, <1>2, <1>3 DEF View, Within

(* What is known of a pass from its phase.                                 *)
LEMMA RunFacts ==
  ASSUME IInv, NEW d \in Device, NEW k \in PassKind, NEW run, run = pass[d][k]
  PROVE  /\ run \in Run
         /\ run.phase = "fetch" => run.local \in View /\ Within(run.local, lastAdd)
         /\ run.phase = "apply" =>
              /\ run \in [phase : {"apply"}, local : View, merged : View, stored : Book,
                          todo : SUBSET Peer, pinning : Peer \cup {NoPeer},
                          write : BOOLEAN]
              /\ RunWithin(run, lastAdd)
         /\ run.phase \in {"write", "verify"} => run.merged \in View /\ Within(run.merged, lastAdd)
<1>1. run \in Run /\ RunWithin(run, lastAdd)
  BY DEF IInv, TypeInv, StampInv, PassesWithin
<1> QED
  BY <1>1 DEF Run, Idle, RunWithin

LEMMA IdleRun == Idle \in Run /\ RunWithin(Idle, lastAdd)
BY DEF Run, Idle, RunWithin

(* A deliberate add raises the bound, and nothing lowers it.               *)
Raised == lastAdd' \in [Peer -> Time] /\ \A p \in Peer : lastAdd[p] <= lastAdd'[p]

LEMMA StillWithin ==
  ASSUME NEW lo \in [Peer -> Time], NEW hi \in [Peer -> Time],
         \A p \in Peer : lo[p] <= hi[p],
         NEW view \in View, Within(view, lo)
  PROVE  Within(view, hi)
<1> SUFFICES ASSUME NEW p \in DOMAIN view, ~view[p].deleted
             PROVE  view[p].stamp <= hi[p]
  BY DEF Within
<1>1. p \in Peer /\ view[p] \in Entry
  BY DEF View
<1>2. view[p].stamp \in Nat /\ lo[p] \in Nat /\ hi[p] \in Nat
  BY <1>1, TimeIsNat DEF Entry
<1> QED
  BY <1>1, <1>2 DEF Within

LEMMA RunStillWithin ==
  ASSUME NEW lo \in [Peer -> Time], NEW hi \in [Peer -> Time],
         \A p \in Peer : lo[p] <= hi[p],
         NEW run \in Run, RunWithin(run, lo)
  PROVE  RunWithin(run, hi)
<1>1. run.phase \in {"fetch", "apply"} => run.local \in View
  BY DEF Run, Idle
<1>2. run.phase \in {"apply", "write", "verify"} => run.merged \in View
  BY DEF Run, Idle
<1> QED
  BY <1>1, <1>2, StillWithin DEF RunWithin

LEMMA PassesStillWithin ==
  ASSUME IInv, Raised, NEW d \in Device, NEW k \in PassKind
  PROVE  RunWithin(pass[d][k], lastAdd')
<1>1. pass[d][k] \in Run /\ RunWithin(pass[d][k], lastAdd)
  BY DEF IInv, TypeInv, StampInv, PassesWithin
<1>2. /\ lastAdd \in [Peer -> Time] /\ lastAdd' \in [Peer -> Time]
      /\ \A p \in Peer : lastAdd[p] <= lastAdd'[p]
  BY DEF IInv, TypeInv, Raised
<1> QED
  BY <1>1, <1>2, RunStillWithin

(* A step that moves at most one pass.                                     *)
LEMMA PassMoved ==
  ASSUME IInv, Raised, NEW d \in Device, NEW k \in PassKind,
         NEW run \in Run, RunWithin(run, lastAdd), SetPass(d, k, run)
  PROVE  pass' \in [Device -> [PassKind -> Run]] /\ PassesWithin'
<1>1. pass' \in [Device -> [PassKind -> Run]]
  BY DEF IInv, TypeInv, SetPass
<1>2. RunWithin(run, lastAdd')
  BY RunStillWithin DEF IInv, TypeInv, Raised
<1>3. ASSUME NEW e \in Device, NEW j \in PassKind
      PROVE  RunWithin(pass'[e][j], lastAdd')
  <2>1. pass'[e][j] = run \/ pass'[e][j] = pass[e][j]
    BY DEF IInv, TypeInv, SetPass
  <2> QED
    BY <1>2, <2>1, PassesStillWithin
<1> QED
  BY <1>1, <1>3 DEF PassesWithin

(* A step that writes one peer's mapping, under the bound it leaves.       *)
LEMMA MappingWritten ==
  ASSUME IInv, Raised, NEW d \in Device, NEW p \in Peer,
         NEW m \in Mapping \cup {NoMapping},
         m # NoMapping => m.stamp <= lastAdd'[p],
         mapping' = [mapping EXCEPT ![d][p] = m]
  PROVE  mapping' \in [Device -> Book] /\ BooksWithin'
<1>1. mapping' \in [Device -> Book]
  BY DEF IInv, TypeInv, Book
<1>2. ASSUME NEW e \in Device, NEW q \in Peer, mapping'[e][q] # NoMapping
      PROVE  mapping'[e][q].stamp <= lastAdd'[q]
  <2>1. (e = d /\ q = p /\ mapping'[e][q] = m) \/ mapping'[e][q] = mapping[e][q]
    BY DEF IInv, TypeInv, Book
  <2>2. CASE mapping'[e][q] = mapping[e][q]
    <3>1. mapping[e][q] \in Mapping /\ mapping[e][q].stamp <= lastAdd[q]
      BY <1>2, <2>2 DEF IInv, TypeInv, Book, StampInv, BooksWithin, Mapped
    <3>2. mapping[e][q].stamp \in Nat /\ lastAdd[q] \in Nat /\ lastAdd'[q] \in Nat
      BY <3>1, TimeIsNat DEF Mapping, IInv, TypeInv, Raised
    <3> QED
      BY <2>2, <3>1, <3>2 DEF Raised
  <2> QED
    BY <1>2, <2>1, <2>2
<1> QED
  BY <1>1, <1>2 DEF BooksWithin, Mapped

(* The parts a step leaves alone.                                          *)
LEMMA BooksKept ==
  ASSUME IInv, Raised, mapping' = mapping
  PROVE  mapping' \in [Device -> Book] /\ BooksWithin'
<1>1. ASSUME NEW d \in Device, NEW p \in Peer, Mapped(d, p)
      PROVE  mapping[d][p].stamp <= lastAdd'[p]
  <2>1. mapping[d][p] \in Mapping /\ mapping[d][p].stamp <= lastAdd[p]
    BY <1>1 DEF IInv, TypeInv, Book, StampInv, BooksWithin, Mapped
  <2>2. mapping[d][p].stamp \in Nat /\ lastAdd[p] \in Nat /\ lastAdd'[p] \in Nat
    BY <2>1, TimeIsNat DEF Mapping, IInv, TypeInv, Raised
  <2> QED
    BY <2>1, <2>2 DEF Raised
<1> QED
  BY <1>1 DEF BooksWithin, Mapped, IInv, TypeInv

LEMMA RelayKept ==
  ASSUME IInv, Raised, relay' = relay
  PROVE  relay' \in Snapshot \cup {NoSnapshot} /\ RelayWithin'
<1>1. relay # NoSnapshot => relay.items \in View /\ Within(relay.items, lastAdd)
  BY DEF IInv, TypeInv, StampInv, RelayWithin, Snapshot
<1>2. relay # NoSnapshot => Within(relay.items, lastAdd')
  BY <1>1, StillWithin DEF IInv, TypeInv, Raised
<1> QED
  BY <1>2 DEF RelayWithin, IInv, TypeInv

LEMMA PassesKept ==
  ASSUME IInv, Raised, pass' = pass
  PROVE  pass' \in [Device -> [PassKind -> Run]] /\ PassesWithin'
BY PassesStillWithin DEF PassesWithin, IInv, TypeInv

LEMMA NotRaised == ASSUME IInv, lastAdd' = lastAdd PROVE Raised
<1>1. \A p \in Peer : lastAdd[p] \in Nat
  BY TimeIsNat DEF IInv, TypeInv
<1> QED
  BY <1>1 DEF Raised, IInv, TypeInv

-----------------------------------------------------------------------------
(* One lemma per action that touches what IInv speaks of.                  *)
LEMMA InitStep == Init => IInv
<1> SUFFICES ASSUME Init
             PROVE  IInv
  OBVIOUS
<1> DEFINE Old == {NoMapping} \cup {Legacy(n) : n \in Name}
<1>1. \A n \in Name : Legacy(n) \in Mapping /\ Legacy(n).stamp = 0
  BY TimeIsNat DEF Legacy, Mapping
<1>2. mapping \in [Device -> Book]
  BY <1>1 DEF Init, Book
<1>3. \A p \in Peer : lastAdd[p] = 0
  BY DEF Init
<1>4. BooksWithin
  BY <1>1, <1>3 DEF Init, BooksWithin, Mapped
<1>5. ASSUME NEW d \in Device, relay = OldSnapshot(mapping[d])
      PROVE  relay \in Snapshot /\ Within(relay.items, lastAdd)
  <2> DEFINE D == {q \in Peer : mapping[d][q] # NoMapping}
             items == [p \in D |-> EntryOf(mapping[d][p])]
  <2>1. ASSUME NEW p \in D
        PROVE  /\ items[p] \in Entry
               /\ items[p].stamp = 0
    <3>1. mapping[d][p] \in Mapping /\ mapping[d][p].stamp = 0
      BY <1>1 DEF Init
    <3>2. EntryOf(mapping[d][p]) \in Live
      BY <3>1, TimeIsNat DEF EntryOf, PayloadOf, liveEntry, Live, Payload, Mapping
    <3>3. /\ EntryOf(mapping[d][p]).stamp = 0
          /\ EntryOf(mapping[d][p]).updatedAt = mapping[d][p].updatedAt
      BY <3>1 DEF EntryOf, liveEntry
    <3> QED
      BY <3>1, <3>2, <3>3, TimeIsNat DEF Entry, SyncEntry, Mapping
  <2>2. items \in View
    <3>1. items \in [D -> Entry] /\ D \in SUBSET Peer
      BY <2>1
    <3> QED
      BY <3>1 DEF View
  <2>3. relay = [version |-> 1, fresh |-> FALSE, items |-> items]
    BY <1>5 DEF OldSnapshot
  <2>4. Within(items, lastAdd)
    BY <1>3, <2>1 DEF Within
  <2> HIDE DEF items
  <2> QED
    BY <2>2, <2>3, <2>4 DEF Snapshot
<1>6. /\ relay \in Snapshot \cup {NoSnapshot}
      /\ RelayWithin
  BY <1>5 DEF Init, RelayWithin
<1>7. \A d \in Device, k \in PassKind : pass[d][k] = Idle
  BY DEF Init
<1>8. PassesWithin /\ pass \in [Device -> [PassKind -> Run]]
  BY <1>7, IdleRun DEF PassesWithin, Init
<1> QED
  BY <1>2, <1>3, <1>4, <1>6, <1>8, TimeIsNat DEF Init, IInv, TypeInv, StampInv

LEMMA ReadStep ==
  ASSUME IInv, NEW d \in Device, NEW k \in PassKind, Read(d, k)
  PROVE  IInv'
<1> DEFINE run == [phase |-> "fetch", local |-> LocalMap(d)]
<1>1. run \in Run /\ RunWithin(run, lastAdd)
  BY LocalMapWithin DEF Run, RunWithin
<1>2. SetPass(d, k, run) /\ lastAdd' = lastAdd
  BY DEF Read, history
<1> HIDE DEF run
<1>3. pass' \in [Device -> [PassKind -> Run]] /\ PassesWithin'
  BY <1>1, <1>2, NotRaised, PassMoved
<1>4. mapping' \in [Device -> Book] /\ BooksWithin'
  <2>1. mapping' = [mapping EXCEPT ![d] =
                      [p \in Peer |-> IF Outranked(d, p) THEN NoMapping ELSE @[p]]]
    BY DEF Read, Healed
  <2>2. \A e \in Device, p \in Peer :
          mapping'[e][p] = NoMapping \/ mapping'[e][p] = mapping[e][p]
    BY <2>1 DEF IInv, TypeInv, Book
  <2>3. mapping' \in [Device -> Book]
    BY <2>1 DEF IInv, TypeInv, Book
  <2> QED
    BY <1>2, <2>2, <2>3 DEF IInv, StampInv, BooksWithin, Mapped
<1>5. deletedRow' \in [Device -> [Peer -> Time]]
  <2>1. deletedRow' = [deletedRow EXCEPT ![d] =
          [p \in Peer |-> IF Mapped(d, p) /\ ~Outranked(d, p) THEN 0 ELSE @[p]]]
    BY DEF Read, Healed
  <2> QED
    BY <2>1, TimeIsNat DEF IInv, TypeInv
<1>6. dirty' \in [Device -> SUBSET {"due", "rerun"}]
  <2>1. Start(d, k)
    BY DEF Read
  <2>2. dirty' \in {dirty, [dirty EXCEPT ![d] = @ \ {"rerun"}], [dirty EXCEPT ![d] = {}]}
    BY <2>1 DEF Start
  <2>3. dirty \in [Device -> SUBSET {"due", "rerun"}]
    BY DEF IInv, TypeInv
  <2> QED
    BY <2>2, <2>3
<1>7. UNCHANGED <<watermark, admitted, applying, relay, now, lastAdd>>
  BY DEF Read, Healed, history
<1>8. RelayWithin'
  BY <1>7, NotRaised, RelayKept
<1> QED
  BY <1>3, <1>4, <1>5, <1>6, <1>7, <1>8 DEF IInv, TypeInv, StampInv

LEMMA RerunStep ==
  ASSUME IInv, NEW d \in Device, QueueRerun(d)
  PROVE  IInv'
<1>1. /\ UNCHANGED <<mapping, deletedRow, watermark, admitted, applying, pass, relay, now>>
      /\ lastAdd' = lastAdd
      /\ dirty' = [dirty EXCEPT ![d] = {"rerun"}]
  BY DEF QueueRerun, stores, history
<1>2. dirty' \in [Device -> SUBSET {"due", "rerun"}]
  BY <1>1 DEF IInv, TypeInv
<1>3. Raised
  BY <1>1, NotRaised
<1> QED
  BY <1>1, <1>2, <1>3, BooksKept, RelayKept, PassesKept DEF IInv, TypeInv, StampInv

(* A step that moves a pass, and may write its flags.                      *)
LEMMA PassAlone ==
  ASSUME IInv, NEW d \in Device, NEW k \in PassKind,
         NEW run \in Run, RunWithin(run, lastAdd), SetPass(d, k, run),
         UNCHANGED <<mapping, deletedRow, watermark, admitted, relay, now, lastAdd>>,
         dirty' \in [Device -> SUBSET {"due", "rerun"}],
         applying' \in [Device -> BOOLEAN]
  PROVE  IInv'
<1>1. Raised
  BY NotRaised
<1> QED
  BY <1>1, PassMoved, BooksKept, RelayKept DEF IInv, TypeInv, StampInv

LEMMA AbandonStep ==
  ASSUME IInv, NEW d \in Device, NEW k \in PassKind, Abandon(d, k),
         UNCHANGED <<mapping, deletedRow, watermark, admitted, applying, relay, now, lastAdd>>
  PROVE  IInv'
<1>1. SetPass(d, k, Idle)
  BY DEF Abandon
<1>2. dirty' \in [Device -> SUBSET {"due", "rerun"}]
  <2>1. dirty' \in {dirty, [dirty EXCEPT ![d] = @ \cup {"due"}]}
    BY DEF Abandon
  <2>2. dirty \in [Device -> SUBSET {"due", "rerun"}]
    BY DEF IInv, TypeInv
  <2> QED
    BY <2>1, <2>2
<1>3. applying' \in [Device -> BOOLEAN]
  BY DEF IInv, TypeInv
<1> QED
  BY <1>1, <1>2, <1>3, IdleRun, PassAlone

LEMMA UnavailableStep ==
  ASSUME IInv, NEW d \in Device, NEW k \in PassKind, FetchUnavailable(d, k)
  PROVE  IInv'
<1>1. /\ UNCHANGED <<mapping, deletedRow, watermark, admitted, applying, relay, now, lastAdd>>
      /\ Abandon(d, k)
  BY DEF FetchUnavailable, stores, history
<1> QED
  BY <1>1, AbandonStep

LEMMA AbsentStep ==
  ASSUME IInv, NEW d \in Device, NEW k \in PassKind, FetchAbsent(d, k)
  PROVE  IInv'
<1> DEFINE local == pass[d][k].local
           run   == IF k = "reconcile" /\ DOMAIN local = {} THEN Idle
                    ELSE [phase |-> "write", merged |-> local]
<1>1. local \in View /\ Within(local, lastAdd)
  BY RunFacts DEF FetchAbsent, Phase
<1>2. run \in Run /\ RunWithin(run, lastAdd)
  BY <1>1, IdleRun DEF Run, RunWithin
<1>3. /\ SetPass(d, k, run)
      /\ UNCHANGED <<mapping, deletedRow, watermark, admitted, applying, relay, now, lastAdd>>
      /\ dirty' = dirty
  BY DEF FetchAbsent, stores, history
<1> HIDE DEF run
<1> QED
  BY <1>2, <1>3, PassAlone DEF IInv, TypeInv

LEMMA AfterApplyType ==
  ASSUME IInv, NEW merged \in View, Within(merged, lastAdd), NEW write
  PROVE  AfterApply(merged, write) \in Run /\ RunWithin(AfterApply(merged, write), lastAdd)
<1>1. [phase |-> "write", merged |-> merged] \in Run
  BY DEF Run
<1>2. RunWithin([phase |-> "write", merged |-> merged], lastAdd)
  BY DEF RunWithin
<1> QED
  BY <1>1, <1>2, IdleRun DEF AfterApply

LEMMA FetchedStep ==
  ASSUME IInv, NEW d \in Device, NEW k \in PassKind, FetchOk(d, k)
  PROVE  IInv'
<1> DEFINE local  == pass[d][k].local
           merged == mergeMaps(local, relay.items)
           write  == MustWrite(merged, relay)
           run    == [phase |-> "apply", local |-> local, merged |-> merged,
                      stored |-> mapping[d], todo |-> DOMAIN merged,
                      pinning |-> NoPeer, write |-> write]
<1>1. local \in View /\ Within(local, lastAdd)
  BY RunFacts DEF FetchOk, Phase
<1>2. relay.items \in View /\ Within(relay.items, lastAdd)
  BY DEF FetchOk, IInv, TypeInv, StampInv, RelayWithin, Snapshot
<1>3. merged \in View /\ Within(merged, lastAdd)
  BY <1>1, <1>2, MergeMapsWithin DEF IInv, TypeInv
<1>4. /\ UNCHANGED <<mapping, deletedRow, watermark, admitted, dirty, relay, now, lastAdd>>
      /\ dirty' \in [Device -> SUBSET {"due", "rerun"}]
  BY DEF FetchOk, stores, history, IInv, TypeInv
<1>5. CASE differs(merged, local)
  <2>1. /\ applying' = [applying EXCEPT ![d] = TRUE]
        /\ SetPass(d, k, run)
    BY <1>5 DEF FetchOk
  <2>2. DOMAIN merged \in SUBSET Peer /\ mapping[d] \in Book /\ write \in BOOLEAN
    BY <1>3 DEF View, IInv, TypeInv, MustWrite, differs
  <2>3. run \in Run /\ RunWithin(run, lastAdd)
    <3> HIDE DEF local, merged, write
    <3> QED
      BY <1>1, <1>3, <2>2 DEF Run, RunWithin
  <2>4. applying' \in [Device -> BOOLEAN]
    BY <2>1 DEF IInv, TypeInv
  <2> HIDE DEF run
  <2> QED
    BY <1>4, <2>1, <2>3, <2>4, PassAlone
<1>6. CASE ~differs(merged, local)
  <2>1. applying' = applying /\ SetPass(d, k, AfterApply(merged, write))
    BY <1>6 DEF FetchOk
  <2>2. AfterApply(merged, write) \in Run /\ RunWithin(AfterApply(merged, write), lastAdd)
    BY <1>3, AfterApplyType
  <2> HIDE DEF merged, write
  <2> QED
    BY <1>4, <2>1, <2>2, PassAlone DEF IInv, TypeInv
<1> QED
  BY <1>5, <1>6

(* The entry of a pass that apply() has come to, and the pass after it.    *)
LEMMA EntryFacts ==
  ASSUME IInv, NEW d \in Device, NEW k \in PassKind, NEW p \in Peer,
         Applying(d, k, p), NEW run, run = pass[d][k]
  PROVE  /\ run.merged[p] \in Entry
         /\ run.merged[p].updatedAt \in Time
         /\ ~run.merged[p].deleted =>
              /\ run.merged[p].stamp \in Time
              /\ run.merged[p].data \in Payload
              /\ run.merged[p].stamp <= lastAdd[p]
         /\ run.pinning = p => ~run.merged[p].deleted
<1>1. /\ run.merged \in View /\ Within(run.merged, lastAdd)
      /\ p \in DOMAIN run.merged
      /\ run.pinning # NoPeer => ~run.merged[run.pinning].deleted
  BY RunFacts DEF Applying, Phase, RunWithin
<1>2. run.merged[p] \in Entry
  BY <1>1 DEF View
<1>3. ~run.merged[p].deleted => run.merged[p].data \in Payload
  BY <1>2 DEF Entry, SyncEntry, Tombstone, Live
<1>4. p # NoPeer
  BY ContactsAssumption
<1> QED
  BY <1>1, <1>2, <1>3, <1>4 DEF Entry, Within

LEMMA EntryAppliedType ==
  ASSUME IInv, NEW d \in Device, NEW k \in PassKind, NEW p \in Peer,
         Applying(d, k, p), EntryApplied(d, k, p), lastAdd' = lastAdd
  PROVE  /\ pass' \in [Device -> [PassKind -> Run]] /\ PassesWithin'
         /\ applying' \in [Device -> BOOLEAN]
<1> DEFINE run  == pass[d][k]
           next == [run EXCEPT !.todo = @ \ {p}, !.pinning = NoPeer]
           last == run.todo = {p}
           to   == IF last THEN AfterApply(run.merged, run.write) ELSE next
<1>1. /\ run \in [phase : {"apply"}, local : View, merged : View, stored : Book,
                  todo : SUBSET Peer, pinning : Peer \cup {NoPeer}, write : BOOLEAN]
      /\ RunWithin(run, lastAdd)
  BY RunFacts DEF Applying, Phase
<1>2. next \in Run /\ RunWithin(next, lastAdd)
  <2>1. next \in [phase : {"apply"}, local : View, merged : View, stored : Book,
                  todo : SUBSET Peer, pinning : Peer \cup {NoPeer}, write : BOOLEAN]
    BY <1>1
  <2>2. /\ next.phase = run.phase /\ next.local = run.local /\ next.merged = run.merged
        /\ next.todo = run.todo \ {p} /\ next.pinning = NoPeer
    BY <1>1
  <2> HIDE DEF next
  <2> QED
    BY <1>1, <2>1, <2>2 DEF Run, RunWithin
<1>3. AfterApply(run.merged, run.write) \in Run
        /\ RunWithin(AfterApply(run.merged, run.write), lastAdd)
  <2>1. run.merged \in View /\ Within(run.merged, lastAdd)
    BY <1>1 DEF RunWithin
  <2> QED
    BY <2>1, AfterApplyType
<1>4. to \in Run /\ RunWithin(to, lastAdd)
  BY <1>2, <1>3
<1>5. SetPass(d, k, to)
  BY DEF EntryApplied
<1>6. applying' \in [Device -> BOOLEAN]
  BY DEF EntryApplied, IInv, TypeInv
<1> HIDE DEF to
<1> QED
  BY <1>4, <1>5, <1>6, NotRaised, PassMoved

LEMMA ApplyDeleteStep ==
  ASSUME IInv, NEW d \in Device, NEW k \in PassKind, NEW p \in Peer, ApplyDelete(d, k, p)
  PROVE  IInv'
<1> DEFINE run == pass[d][k]
           at  == run.merged[p].updatedAt
<1>1. at \in Time
  BY EntryFacts DEF ApplyDelete
<1>2. Applying(d, k, p) /\ EntryApplied(d, k, p) /\ lastAdd' = lastAdd
  BY DEF ApplyDelete, history
<1>3. UNCHANGED <<admitted, dirty, relay, now>>
  BY DEF ApplyDelete
<1>4. deletedRow' \in [Device -> [Peer -> Time]]
  <2>1. deletedRow' = [deletedRow EXCEPT ![d][p] = Greater(@, at)]
    BY DEF ApplyDelete
  <2> QED
    BY <1>1, <2>1 DEF IInv, TypeInv, Greater
<1>5. watermark' \in [Device -> [Peer -> Time]]
  <2>1. watermark' = [watermark EXCEPT ![d][p] = Greater(@, at)] \/ watermark' = watermark
    BY DEF ApplyDelete
  <2>2. [watermark EXCEPT ![d][p] = Greater(@, at)] \in [Device -> [Peer -> Time]]
    BY <1>1 DEF IInv, TypeInv, Greater
  <2> QED
    BY <2>1, <2>2 DEF IInv, TypeInv
<1>6. mapping' \in [Device -> Book] /\ BooksWithin'
  <2>1. mapping' = [mapping EXCEPT ![d][p] = NoMapping] \/ mapping' = mapping
    BY DEF ApplyDelete
  <2> QED
    <3>1. Raised
      BY <1>2, NotRaised
    <3>2. CASE mapping' = [mapping EXCEPT ![d][p] = NoMapping]
      BY <3>1, <3>2, MappingWritten
    <3>3. CASE mapping' = mapping
      BY <3>1, <3>3, BooksKept
    <3> QED
      BY <2>1, <3>2, <3>3
<1>7. /\ pass' \in [Device -> [PassKind -> Run]] /\ PassesWithin'
      /\ applying' \in [Device -> BOOLEAN]
  BY <1>2, EntryAppliedType
<1> QED
  BY <1>2, <1>3, <1>4, <1>5, <1>6, <1>7, NotRaised, RelayKept DEF IInv, TypeInv, StampInv

LEMMA ApplyAddStep ==
  ASSUME IInv, NEW d \in Device, NEW k \in PassKind, NEW p \in Peer, ApplyAdd(d, k, p)
  PROVE  IInv'
<1> DEFINE run  == pass[d][k]
           next == [run EXCEPT !.pinning = p]
           name == NameToStore(mapping[d][p], run.merged[p].data.name)
           m    == Upserted(mapping[d][p], name, 0)
<1>1. /\ Applying(d, k, p) /\ lastAdd' = lastAdd
      /\ p \in run.todo /\ ~run.merged[p].deleted
      /\ UNCHANGED <<admitted, dirty, applying, relay, now>>
  BY DEF ApplyAdd, Applying, history
<1>2. Raised
  BY <1>1, NotRaised
<1>3. deletedRow' \in [Device -> [Peer -> Time]] /\ watermark' \in [Device -> [Peer -> Time]]
  BY TimeIsNat DEF ApplyAdd, IInv, TypeInv
<1>4. mapping' \in [Device -> Book] /\ BooksWithin'
  <2>1. run.merged[p].data \in Payload
    BY <1>1, EntryFacts
  <2>2. mapping[d][p] \in Mapping \cup {NoMapping} /\ now \in Time
    BY DEF IInv, TypeInv, Book
  <2>3. name \in Name \cup {NoName}
    BY <2>1, <2>2 DEF NameToStore, Payload, Mapping
  <2>4. /\ m \in Mapping
        /\ mapping[d][p] = NoMapping => m.stamp = 0
        /\ mapping[d][p] # NoMapping => m.stamp = Greater(mapping[d][p].stamp, 0)
    BY <2>2, <2>3, TimeIsNat, UpsertedType
  <2>5. mapping[d][p] # NoMapping => /\ mapping[d][p].stamp \in Nat
                                     /\ mapping[d][p].stamp <= lastAdd[p]
    BY <2>2, TimeIsNat DEF Mapping, IInv, StampInv, BooksWithin, Mapped
  <2>6. lastAdd[p] \in Nat
    BY TimeIsNat DEF IInv, TypeInv
  <2>7. m.stamp <= lastAdd'[p]
    BY <1>1, <2>4, <2>5, <2>6 DEF Greater
  <2>8. mapping' = [mapping EXCEPT ![d][p] = m]
    BY DEF ApplyAdd, IInv, TypeInv, Book
  <2> HIDE DEF m
  <2> QED
    BY <1>2, <2>4, <2>7, <2>8, MappingWritten
<1>5. pass' \in [Device -> [PassKind -> Run]] /\ PassesWithin'
  <2>1. /\ run \in [phase : {"apply"}, local : View, merged : View, stored : Book,
                    todo : SUBSET Peer, pinning : Peer \cup {NoPeer}, write : BOOLEAN]
        /\ RunWithin(run, lastAdd)
    BY <1>1, RunFacts DEF Applying, Phase
  <2>2. next \in [phase : {"apply"}, local : View, merged : View, stored : Book,
                  todo : SUBSET Peer, pinning : Peer \cup {NoPeer}, write : BOOLEAN]
    BY <2>1
  <2>3. /\ next.phase = run.phase /\ next.local = run.local /\ next.merged = run.merged
        /\ next.todo = run.todo /\ next.pinning = p
    BY <2>1
  <2>4. next \in Run /\ RunWithin(next, lastAdd)
    <3> HIDE DEF next
    <3> QED
      BY <1>1, <2>1, <2>2, <2>3 DEF Run, RunWithin
  <2>5. SetPass(d, k, next)
    BY DEF ApplyAdd
  <2> HIDE DEF next
  <2> QED
    BY <1>2, <2>4, <2>5, PassMoved
<1> QED
  BY <1>1, <1>2, <1>3, <1>4, <1>5, RelayKept DEF IInv, TypeInv, StampInv

(* Pinning a merged entry's timestamps keeps the stamp under the bound.    *)
LEMMA PinnedWithin ==
  ASSUME IInv, NEW d \in Device, NEW k \in PassKind, NEW p \in Peer,
         Applying(d, k, p), ~pass[d][k].merged[p].deleted, NEW updatedAt \in Time,
         NEW m, m = Pinned(mapping[d][p], updatedAt, StampToPin(pass[d][k], p))
  PROVE  /\ m \in Mapping \cup {NoMapping}
         /\ mapping[d][p] = NoMapping => m = NoMapping
         /\ mapping[d][p] # NoMapping => m \in Mapping /\ m.stamp <= lastAdd[p]
<1> DEFINE run == pass[d][k]
           s   == StampToPin(run, p)
<1>1. run.merged[p].stamp \in Time /\ run.merged[p].stamp <= lastAdd[p]
  BY EntryFacts
<1>2. lastAdd[p] \in Nat
  BY TimeIsNat DEF IInv, TypeInv
<1>3. s \in Time /\ s <= lastAdd[p]
  BY <1>1, <1>2, TimeIsNat DEF StampToPin
<1>4. mapping[d][p] \in Mapping \cup {NoMapping}
  BY DEF IInv, TypeInv, Book
<1> HIDE DEF s
<1>5. /\ m \in Mapping \cup {NoMapping}
      /\ mapping[d][p] = NoMapping => m = NoMapping
      /\ mapping[d][p] # NoMapping =>
           m \in Mapping /\ m.stamp = Greater(mapping[d][p].stamp, s)
  BY <1>3, <1>4, PinnedType DEF s
<1>6. mapping[d][p] # NoMapping => mapping[d][p].stamp <= lastAdd[p]
  BY DEF IInv, StampInv, BooksWithin, Mapped
<1> QED
  BY <1>3, <1>5, <1>6 DEF Greater

LEMMA ApplyPinStep ==
  ASSUME IInv, NEW d \in Device, NEW k \in PassKind, NEW p \in Peer, ApplyPin(d, k, p)
  PROVE  IInv'
<1> DEFINE run == pass[d][k]
           m   == Pinned(mapping[d][p], run.merged[p].updatedAt, StampToPin(run, p))
<1>1. /\ Applying(d, k, p) /\ EntryApplied(d, k, p) /\ lastAdd' = lastAdd
      /\ run.pinning = p
      /\ UNCHANGED <<deletedRow, watermark, admitted, dirty, relay, now>>
  BY DEF ApplyPin, history
<1>2. ~run.merged[p].deleted /\ run.merged[p].updatedAt \in Time
  BY <1>1, EntryFacts
<1>3. /\ m \in Mapping \cup {NoMapping}
      /\ m # NoMapping => m.stamp <= lastAdd[p]
  BY <1>1, <1>2, PinnedWithin
<1>4. mapping' = [mapping EXCEPT ![d][p] = m]
  BY DEF ApplyPin, IInv, TypeInv, Book
<1>5. Raised
  BY <1>1, NotRaised
<1>6. mapping' \in [Device -> Book] /\ BooksWithin'
  <2> HIDE DEF m
  <2> QED
    BY <1>1, <1>3, <1>4, <1>5, MappingWritten
<1>7. /\ pass' \in [Device -> [PassKind -> Run]] /\ PassesWithin'
      /\ applying' \in [Device -> BOOLEAN]
  BY <1>1, EntryAppliedType
<1> QED
  BY <1>1, <1>5, <1>6, <1>7, RelayKept DEF IInv, TypeInv, StampInv

LEMMA ApplyUpdateStep ==
  ASSUME IInv, NEW d \in Device, NEW k \in PassKind, NEW p \in Peer, ApplyUpdate(d, k, p)
  PROVE  IInv'
<1> DEFINE run     == pass[d][k]
           entry   == run.merged[p]
           newer   == entry.updatedAt > run.local[p].updatedAt
           renamed == newer /\ entry.data.name \notin {NoName, run.local[p].data.name}
           row     == mapping[d][p]
           at      == IF newer THEN entry.updatedAt ELSE row.updatedAt
           pinned  == Pinned(row, at, StampToPin(run, p))
           m       == IF row = NoMapping THEN row
                      ELSE [pinned EXCEPT !.name = IF renamed THEN entry.data.name ELSE @]
<1>1. /\ Applying(d, k, p) /\ EntryApplied(d, k, p) /\ lastAdd' = lastAdd
      /\ ~entry.deleted
      /\ mapping' = [mapping EXCEPT ![d][p] = m]
      /\ UNCHANGED <<deletedRow, watermark, admitted, relay, now>>
  BY DEF ApplyUpdate, history
<1>2. dirty' \in [Device -> SUBSET {"due", "rerun"}]
  <2>1. dirty' \in {dirty, [dirty EXCEPT ![d] = @ \cup {"due"}]}
    BY DEF ApplyUpdate, SchedulePublish
  <2>2. dirty \in [Device -> SUBSET {"due", "rerun"}]
    BY DEF IInv, TypeInv
  <2> QED
    BY <2>1, <2>2
<1>3. m \in Mapping \cup {NoMapping} /\ (m # NoMapping => m.stamp <= lastAdd[p])
  <2>1. CASE row = NoMapping
    BY <2>1
  <2>2. CASE row # NoMapping
    <3>1. entry.updatedAt \in Time /\ entry.data \in Payload
      BY <1>1, EntryFacts
    <3>2. row \in Mapping
      BY <2>2 DEF IInv, TypeInv, Book
    <3>3. at \in Time
      BY <3>1, <3>2 DEF Mapping
    <3>4. pinned \in Mapping /\ pinned.stamp <= lastAdd[p]
      <4> HIDE DEF at
      <4> QED
        BY <1>1, <2>2, <3>3, PinnedWithin
    <3>5. entry.data.name \in Name \cup {NoName}
      BY <3>1 DEF Payload
    <3> HIDE DEF pinned
    <3>6. m \in Mapping /\ m.stamp = pinned.stamp
      BY <2>2, <3>4, <3>5 DEF Mapping
    <3> QED
      BY <3>4, <3>6
  <2> QED
    BY <2>1, <2>2
<1>4. Raised
  BY <1>1, NotRaised
<1>5. mapping' \in [Device -> Book] /\ BooksWithin'
  <2> HIDE DEF m
  <2> QED
    BY <1>1, <1>3, <1>4, MappingWritten
<1>6. /\ pass' \in [Device -> [PassKind -> Run]] /\ PassesWithin'
      /\ applying' \in [Device -> BOOLEAN]
  BY <1>1, EntryAppliedType
<1> QED
  BY <1>1, <1>2, <1>4, <1>5, <1>6, RelayKept DEF IInv, TypeInv, StampInv

LEMMA WriteStep ==
  ASSUME IInv, NEW d \in Device, NEW k \in PassKind, Write(d, k)
  PROVE  IInv'
<1> DEFINE merged   == pass[d][k].merged
           snapshot == [version |-> Version, items |-> merged, fresh |-> TRUE]
           run      == IF k = "publish" THEN [phase |-> "verify", merged |-> merged] ELSE Idle
<1>1. merged \in View /\ Within(merged, lastAdd)
  BY RunFacts DEF Write, Phase
<1>2. /\ relay' = snapshot \/ relay' = relay
      /\ SetPass(d, k, run)
      /\ UNCHANGED <<mapping, deletedRow, watermark, admitted, dirty, applying, now, lastAdd>>
  BY DEF Write, stores, history
<1>3. Raised
  BY <1>2, NotRaised
<1>4. run \in Run /\ RunWithin(run, lastAdd)
  BY <1>1, IdleRun DEF Run, RunWithin
<1>5. pass' \in [Device -> [PassKind -> Run]] /\ PassesWithin'
  <2> HIDE DEF run
  <2> QED
    BY <1>2, <1>3, <1>4, PassMoved
<1>6. relay' \in Snapshot \cup {NoSnapshot} /\ RelayWithin'
  <2>1. CASE relay' = snapshot
    <3>1. snapshot \in Snapshot /\ snapshot.items = merged
      BY <1>1 DEF Snapshot, Version
    <3> QED
      BY <1>1, <1>2, <2>1, <3>1 DEF RelayWithin
  <2>2. CASE relay' = relay
    BY <1>3, <2>2, RelayKept
  <2> QED
    BY <1>2, <2>1, <2>2
<1> QED
  BY <1>2, <1>3, <1>5, <1>6, BooksKept DEF IInv, TypeInv, StampInv

LEMMA VerifyStep ==
  ASSUME IInv, NEW d \in Device, Verify(d)
  PROVE  IInv'
<1>1. UNCHANGED <<mapping, deletedRow, watermark, admitted, applying, relay, now, lastAdd>>
  BY DEF Verify, stores, history
<1>2. "publish" \in PassKind
  BY DEF PassKind
<1>3. CASE SetPass(d, "publish", Idle) /\ dirty' = dirty
  BY <1>1, <1>2, <1>3, IdleRun, PassAlone DEF IInv, TypeInv
<1>4. CASE Abandon(d, "publish")
  BY <1>1, <1>2, <1>4, AbandonStep
<1> QED
  BY <1>3, <1>4 DEF Verify

(* Stopping a device forgets its passes.                                   *)
LEMMA StopType ==
  ASSUME IInv, Raised, NEW d \in Device, Stop(d)
  PROVE  /\ pass' \in [Device -> [PassKind -> Run]] /\ PassesWithin'
         /\ dirty' \in [Device -> SUBSET {"due", "rerun"}]
         /\ applying' \in [Device -> BOOLEAN]
         /\ admitted' \in [Device -> SUBSET Peer]
<1>1. pass' = [pass EXCEPT ![d] = [k \in PassKind |-> Idle]]
  BY DEF Stop
<1>2. pass' \in [Device -> [PassKind -> Run]]
  BY <1>1, IdleRun DEF IInv, TypeInv
<1>3. ASSUME NEW e \in Device, NEW j \in PassKind
      PROVE  RunWithin(pass'[e][j], lastAdd')
  <2>1. pass'[e][j] = Idle \/ pass'[e][j] = pass[e][j]
    BY <1>1 DEF IInv, TypeInv
  <2>2. RunWithin(Idle, lastAdd')
    BY DEF RunWithin, Idle
  <2> QED
    BY <2>1, <2>2, PassesStillWithin
<1>4. PassesWithin'
  BY <1>3 DEF PassesWithin
<1>5. dirty' \in [Device -> SUBSET {"due", "rerun"}]
  BY DEF Stop, IInv, TypeInv
<1>6. applying' \in [Device -> BOOLEAN] /\ admitted' \in [Device -> SUBSET Peer]
  BY DEF Stop, IInv, TypeInv
<1> QED
  BY <1>2, <1>4, <1>5, <1>6

LEMMA CrashStep ==
  ASSUME IInv, NEW d \in Device, Crash(d)
  PROVE  IInv'
<1>1. /\ Stop(d)
      /\ UNCHANGED <<mapping, deletedRow, watermark, relay, now, lastAdd>>
  BY DEF Crash, stores, history
<1>2. Raised
  BY <1>1, NotRaised
<1> QED
  BY <1>1, <1>2, StopType, BooksKept, RelayKept DEF IInv, TypeInv, StampInv

(* A deliberate add raises the bound to the clock and stamps no later.     *)
LEMMA AddedType ==
  ASSUME IInv, NEW d \in Device, NEW p \in Peer,
         \E n \in Name \cup {NoName} : Added(d, p, n), now' = now
  PROVE  /\ Raised /\ \A q \in Peer : lastAdd'[q] <= now'
         /\ mapping' \in [Device -> Book] /\ BooksWithin'
<1>1. PICK n \in Name \cup {NoName} : Added(d, p, n)
  OBVIOUS
<1> DEFINE row == mapping[d][p]
           m   == Upserted(row, NameToStore(row, n), now)
<1>2. /\ lastAdd' = [lastAdd EXCEPT ![p] = now]
      /\ mapping' = [mapping EXCEPT ![d][p] = m]
  BY <1>1 DEF Added, IInv, TypeInv, Book
<1>3. /\ now \in Time /\ now \in Nat
      /\ lastAdd \in [Peer -> Time]
      /\ \A q \in Peer : lastAdd[q] <= now /\ lastAdd[q] \in Nat
  BY TimeIsNat DEF IInv, TypeInv, StampInv
<1>4. Raised /\ \A q \in Peer : lastAdd'[q] <= now'
  BY <1>2, <1>3 DEF Raised
<1>5. row \in Mapping \cup {NoMapping}
  BY DEF IInv, TypeInv, Book
<1>6. NameToStore(row, n) \in Name \cup {NoName}
  BY <1>1, <1>5 DEF NameToStore, Mapping
<1>7. /\ m \in Mapping
      /\ row = NoMapping => m.stamp = now
      /\ row # NoMapping => m.stamp = Greater(row.stamp, now)
  BY <1>3, <1>5, <1>6, UpsertedType
<1>8. row # NoMapping => row.stamp <= lastAdd[p] /\ row.stamp \in Nat
  BY <1>5, TimeIsNat DEF Mapping, IInv, StampInv, BooksWithin, Mapped
<1>9. lastAdd'[p] = now
  BY <1>2, <1>3
<1>10. m.stamp <= lastAdd'[p]
  <2> HIDE DEF m
  <2> QED
    BY <1>3, <1>7, <1>8, <1>9 DEF Greater
<1> HIDE DEF m
<1> QED
  BY <1>2, <1>4, <1>7, <1>10, MappingWritten

LEMMA AddStep ==
  ASSUME IInv, NEW d \in Device, NEW p \in Peer, AddContact(d, p)
  PROVE  IInv'
<1>1. /\ \E n \in Name \cup {NoName} : Added(d, p, n)
      /\ UNCHANGED <<admitted, applying, pass, relay, now>>
  BY DEF AddContact, Running, Elsewhere
<1>2. deletedRow' \in [Device -> [Peer -> Time]] /\ watermark' \in [Device -> [Peer -> Time]]
  BY TimeIsNat DEF AddContact, IInv, TypeInv
<1>3. dirty' \in [Device -> SUBSET {"due", "rerun"}]
  BY DEF AddContact, SchedulePublish, IInv, TypeInv
<1>4. /\ Raised /\ \A q \in Peer : lastAdd'[q] <= now'
      /\ mapping' \in [Device -> Book] /\ BooksWithin'
  BY <1>1, AddedType
<1> QED
  BY <1>1, <1>2, <1>3, <1>4, RelayKept, PassesKept DEF IInv, TypeInv, StampInv, Raised

LEMMA AddInterruptedStep ==
  ASSUME IInv, NEW d \in Device, NEW p \in Peer, AddInterrupted(d, p)
  PROVE  IInv'
<1>1. /\ \E n \in Name \cup {NoName} : Added(d, p, n)
      /\ Stop(d)
      /\ UNCHANGED <<deletedRow, watermark, relay, now>>
  BY DEF AddInterrupted, Elsewhere
<1>2. /\ Raised /\ \A q \in Peer : lastAdd'[q] <= now'
      /\ mapping' \in [Device -> Book] /\ BooksWithin'
  BY <1>1, AddedType
<1> QED
  BY <1>1, <1>2, RelayKept, StopType DEF IInv, TypeInv, StampInv, Raised

LEMMA DeletedType ==
  ASSUME IInv, NEW d \in Device, NEW p \in Peer, Deleted(d, p)
  PROVE  /\ deletedRow' \in [Device -> [Peer -> Time]]
         /\ watermark' \in [Device -> [Peer -> Time]]
         /\ lastAdd' = lastAdd
BY DEF Deleted, IInv, TypeInv, Greater

LEMMA DeleteStep ==
  ASSUME IInv, NEW d \in Device, NEW p \in Peer, DeleteContact(d, p)
  PROVE  IInv'
<1>1. /\ Deleted(d, p)
      /\ mapping' = [mapping EXCEPT ![d][p] = NoMapping]
      /\ UNCHANGED <<admitted, applying, pass, relay, now>>
  BY DEF DeleteContact, Running, Elsewhere
<1>2. /\ deletedRow' \in [Device -> [Peer -> Time]]
      /\ watermark' \in [Device -> [Peer -> Time]]
      /\ lastAdd' = lastAdd
  BY <1>1, DeletedType
<1>3. dirty' \in [Device -> SUBSET {"due", "rerun"}]
  BY DEF DeleteContact, SchedulePublish, IInv, TypeInv
<1>4. Raised
  BY <1>2, NotRaised
<1>5. mapping' \in [Device -> Book] /\ BooksWithin'
  BY <1>1, <1>4, MappingWritten
<1> QED
  BY <1>1, <1>2, <1>3, <1>4, <1>5, RelayKept, PassesKept DEF IInv, TypeInv, StampInv

LEMMA DeleteInterruptedStep ==
  ASSUME IInv, NEW d \in Device, NEW p \in Peer, DeleteInterrupted(d, p)
  PROVE  IInv'
<1>1. /\ Deleted(d, p) /\ Stop(d)
      /\ UNCHANGED <<mapping, relay, now>>
  BY DEF DeleteInterrupted, Elsewhere
<1>2. /\ deletedRow' \in [Device -> [Peer -> Time]]
      /\ watermark' \in [Device -> [Peer -> Time]]
      /\ lastAdd' = lastAdd
  BY <1>1, DeletedType
<1>3. Raised
  BY <1>2, NotRaised
<1> QED
  BY <1>1, <1>2, <1>3, BooksKept, RelayKept, StopType DEF IInv, TypeInv, StampInv

LEMMA ClearStep ==
  ASSUME IInv, NEW d \in Device, NEW p \in Peer, ClearHistory(d, p)
  PROVE  IInv'
<1>1. UNCHANGED <<mapping, deletedRow, admitted, dirty, applying, pass, relay, now, lastAdd>>
  BY DEF ClearHistory, Running, Elsewhere, history
<1>2. watermark' \in [Device -> [Peer -> Time]]
  BY DEF ClearHistory, IInv, TypeInv, Greater
<1>3. Raised
  BY <1>1, NotRaised
<1> QED
  BY <1>1, <1>2, <1>3, BooksKept, RelayKept, PassesKept DEF IInv, TypeInv, StampInv

(* A write to one mapping that brings no stamp of its own.                 *)
LEMMA UnstampedWrite ==
  ASSUME IInv, NEW d \in Device, NEW p \in Peer, NEW m \in Mapping,
         m.stamp <= lastAdd[p], mapping' = [mapping EXCEPT ![d][p] = m],
         UNCHANGED <<deletedRow, watermark, dirty, applying, pass, relay, now, lastAdd>>,
         admitted' \in [Device -> SUBSET Peer]
  PROVE  IInv'
<1>1. Raised
  BY NotRaised
<1>2. mapping' \in [Device -> Book] /\ BooksWithin'
  BY <1>1, MappingWritten
<1> QED
  BY <1>1, <1>2, RelayKept, PassesKept DEF IInv, TypeInv, StampInv

LEMMA UpsertedUnstamped ==
  ASSUME IInv, NEW d \in Device, NEW p \in Peer, NEW name \in Name \cup {NoName},
         NEW m, m = Upserted(mapping[d][p], name, 0)
  PROVE  m \in Mapping /\ m.stamp <= lastAdd[p]
<1>1. /\ mapping[d][p] \in Mapping \cup {NoMapping} /\ now \in Time
      /\ lastAdd[p] \in Nat
  BY TimeIsNat DEF IInv, TypeInv, Book
<1>2. /\ m \in Mapping
      /\ mapping[d][p] = NoMapping => m.stamp = 0
      /\ mapping[d][p] # NoMapping => m.stamp = Greater(mapping[d][p].stamp, 0)
  BY <1>1, TimeIsNat, UpsertedType
<1>3. mapping[d][p] # NoMapping => /\ mapping[d][p].stamp \in Nat
                                   /\ mapping[d][p].stamp <= lastAdd[p]
  BY <1>1, TimeIsNat DEF Mapping, IInv, StampInv, BooksWithin, Mapped
<1> QED
  BY <1>1, <1>2, <1>3 DEF Greater

LEMMA RenameStep ==
  ASSUME IInv, NEW d \in Device, NEW p \in Peer, RenameContact(d, p)
  PROVE  IInv'
<1>1. PICK n \in Name : mapping' = [mapping EXCEPT ![d][p] = Upserted(@, n, 0)]
  BY DEF RenameContact
<1> DEFINE m == Upserted(mapping[d][p], n, 0)
<1>2. m \in Mapping /\ m.stamp <= lastAdd[p]
  BY UpsertedUnstamped
<1>3. mapping' = [mapping EXCEPT ![d][p] = m]
  BY <1>1 DEF IInv, TypeInv, Book
<1>4. /\ UNCHANGED <<deletedRow, watermark, dirty, applying, pass, relay, now, lastAdd>>
      /\ admitted' \in [Device -> SUBSET Peer]
  BY DEF RenameContact, Running, Elsewhere, history, IInv, TypeInv
<1> HIDE DEF m
<1> QED
  BY <1>2, <1>3, <1>4, UnstampedWrite

LEMMA ProfileStep ==
  ASSUME IInv, NEW d \in Device, NEW p \in Peer, RefreshProfile(d, p)
  PROVE  IInv'
<1>1. PICK n \in Name \cup {mapping[d][p].name} :
        mapping' = [mapping EXCEPT ![d][p] = [@ EXCEPT !.name = n, !.updatedAt = now]]
  BY DEF RefreshProfile
<1> DEFINE m == [mapping[d][p] EXCEPT !.name = n, !.updatedAt = now]
<1>2. mapping[d][p] \in Mapping /\ mapping[d][p].stamp <= lastAdd[p]
  BY DEF RefreshProfile, Mapped, IInv, TypeInv, Book, StampInv, BooksWithin
<1>3. m \in Mapping /\ m.stamp <= lastAdd[p]
  BY <1>1, <1>2 DEF Mapping, IInv, TypeInv
<1>4. mapping' = [mapping EXCEPT ![d][p] = m]
  BY <1>1 DEF IInv, TypeInv, Book
<1>5. /\ UNCHANGED <<deletedRow, watermark, dirty, applying, pass, relay, now, lastAdd>>
      /\ admitted' \in [Device -> SUBSET Peer]
  BY DEF RefreshProfile, Running, Elsewhere, history, IInv, TypeInv
<1> HIDE DEF m
<1> QED
  BY <1>3, <1>4, <1>5, UnstampedWrite

LEMMA AdmittedStep ==
  ASSUME IInv, NEW d \in Device, NEW p \in Peer, InboundAdmitted(d, p)
  PROVE  IInv'
<1>1. UNCHANGED <<mapping, deletedRow, watermark, dirty, applying, pass, relay, now, lastAdd>>
  BY DEF InboundAdmitted, Elsewhere, stores, history
<1>2. admitted' \in [Device -> SUBSET Peer]
  BY DEF InboundAdmitted, IInv, TypeInv
<1>3. Raised
  BY <1>1, NotRaised
<1> QED
  BY <1>1, <1>2, <1>3, BooksKept, RelayKept, PassesKept DEF IInv, TypeInv, StampInv

LEMMA StoredStep ==
  ASSUME IInv, NEW d \in Device, NEW p \in Peer, InboundStored(d, p)
  PROVE  IInv'
<1> DEFINE m == Upserted(mapping[d][p], NoName, 0)
<1>1. m \in Mapping /\ m.stamp <= lastAdd[p]
  BY UpsertedUnstamped
<1>2. mapping' = [mapping EXCEPT ![d][p] = m]
  BY DEF InboundStored, IInv, TypeInv, Book
<1>3. UNCHANGED <<deletedRow, watermark, dirty, applying, pass, relay, now, lastAdd>>
  BY DEF InboundStored, history
<1>4. admitted' \in [Device -> SUBSET Peer]
  BY DEF InboundStored, IInv, TypeInv
<1> HIDE DEF m
<1> QED
  BY <1>1, <1>2, <1>3, <1>4, UnstampedWrite

LEMMA SecondStep ==
  ASSUME IInv, SecondPasses
  PROVE  IInv'
<1>1. UNCHANGED <<mapping, deletedRow, watermark, admitted, dirty, applying, pass, lastAdd>>
  BY DEF SecondPasses, stores, history
<1>2. now' \in Time /\ now <= now' /\ now \in Nat /\ now' \in Nat
  BY ContactsAssumption DEF SecondPasses, Time, IInv, TypeInv
<1>3. relay' = NoSnapshot \/ (relay # NoSnapshot /\ relay' = [relay EXCEPT !.fresh = FALSE])
  BY DEF SecondPasses
<1>4. relay' # NoSnapshot =>
        relay' \in Snapshot /\ relay'.items = relay.items /\ relay # NoSnapshot
  BY <1>3 DEF Snapshot, IInv, TypeInv
<1>5. relay' \in Snapshot \cup {NoSnapshot} /\ RelayWithin'
  BY <1>1, <1>4 DEF RelayWithin, IInv, StampInv
<1>6. Raised
  BY <1>1, NotRaised
<1>7. \A p \in Peer : lastAdd'[p] <= now'
  <2>1. \A p \in Peer : lastAdd[p] \in Nat /\ lastAdd[p] <= now
    BY TimeIsNat DEF IInv, TypeInv, StampInv
  <2> QED
    BY <1>1, <1>2, <2>1
<1> QED
  BY <1>1, <1>2, <1>5, <1>6, <1>7, BooksKept, PassesKept DEF IInv, TypeInv, StampInv

LEMMA StutterStep ==
  ASSUME IInv, UNCHANGED vars
  PROVE  IInv'
<1>1. UNCHANGED <<mapping, deletedRow, watermark, admitted, dirty, applying, pass, relay, now,
                  lastAdd>>
  BY DEF vars, stores, history
<1>2. Raised
  BY <1>1, NotRaised
<1> QED
  BY <1>1, <1>2, BooksKept, RelayKept, PassesKept DEF IInv, TypeInv, StampInv

-----------------------------------------------------------------------------
LEMMA Inductive == Spec => []IInv
<1>1. Init => IInv
  BY InitStep
<1>2. IInv /\ [Next]_vars => IInv'
  <2> SUFFICES ASSUME IInv, [Next]_vars
               PROVE  IInv'
    OBVIOUS
  <2>1. CASE SecondPasses
    BY <2>1, SecondStep
  <2>2. ASSUME NEW d \in Device, Crash(d) \/ QueueRerun(d)
        PROVE  IInv'
    BY <2>2, CrashStep, RerunStep
  <2>3. ASSUME NEW d \in Device, NEW k \in PassKind, PassStep(d, k) \/ FetchUnavailable(d, k)
        PROVE  IInv'
    <3>1. CASE Read(d, k)
      BY <3>1, ReadStep
    <3>2. CASE FetchAbsent(d, k)
      BY <3>2, AbsentStep
    <3>3. CASE FetchOk(d, k)
      BY <3>3, FetchedStep
    <3>4. CASE ApplyStep(d, k)
      BY <3>4, ApplyDeleteStep, ApplyAddStep, ApplyPinStep, ApplyUpdateStep DEF ApplyStep
    <3>5. CASE Write(d, k)
      BY <3>5, WriteStep
    <3>6. CASE Verify(d)
      BY <3>6, VerifyStep
    <3>7. CASE FetchUnavailable(d, k)
      BY <3>7, UnavailableStep
    <3> QED
      BY <2>3, <3>1, <3>2, <3>3, <3>4, <3>5, <3>6, <3>7 DEF PassStep
  <2>4. ASSUME NEW d \in Device, NEW p \in Peer, UserAct(d, p) \/ InboundStored(d, p)
        PROVE  IInv'
    BY <2>4, AddStep, AddInterruptedStep, DeleteStep, DeleteInterruptedStep, ClearStep,
       RenameStep, ProfileStep, AdmittedStep, StoredStep DEF UserAct
  <2>5. CASE UNCHANGED vars
    BY <2>5, StutterStep
  <2> QED
    BY <2>1, <2>2, <2>3, <2>4, <2>5 DEF Next
<1> QED
  BY <1>1, <1>2, PTL DEF Spec

(* Every variable keeps its type: the stores, the flags and the passes in  *)
(* flight of each device (crdt-sync.ts, virtual-peers-db.ts).              *)
THEOREM TypeCorrect == Spec => []TypeOK
<1>1. IInv => TypeOK
  <2> SUFFICES ASSUME IInv
               PROVE  TypeOK
    OBVIOUS
  <2>1. \A d \in Device, p \in Peer : mapping[d][p] \in Mapping \cup {NoMapping}
    BY DEF IInv, TypeInv, Book
  <2>2. \A d \in Device, k \in PassKind :
          Phase(d, k) \in {"idle", "fetch", "apply", "write", "verify"}
    BY DEF IInv, TypeInv, Run, Idle, Phase
  <2>3. relay # NoSnapshot => relay.version \in {1, Version}
    BY DEF IInv, TypeInv, Snapshot
  <2> QED
    BY <2>1, <2>2, <2>3 DEF IInv, TypeInv, TypeOK
<1> QED
  BY <1>1, Inductive, PTL

(* Whatever passes, faults and acts interleave on whatever devices, the    *)
(* program never mints the proof of intent that lets a contact outlive a   *)
(* delete: no deliberateAddAt in an address book or on the relays is later *)
(* than the last add a user made of the contact (mergeEntry, storeMapping, *)
(* setDeliberateAddAt).                                                    *)
THEOREM NoInventedProofHolds == Spec => []NoInventedProof
<1>1. IInv => NoInventedProof
  BY DEF IInv, StampInv, BooksWithin, RelayWithin, Within, NoInventedProof
<1> QED
  BY <1>1, Inductive, PTL

-----------------------------------------------------------------------------
(* Removals.  A mapping goes on the strength of a deletion row, a          *)
(* watermark or a merged tombstone, written by whatever device and carried *)
(* over whatever awaits; so each of these must go back to a deletion by    *)
(* the user.  A watermark alone does not (a cleared history writes one),   *)
(* but it counts only once the mapping is gone.                            *)
Backed(view, del, t) ==
  \A p \in DOMAIN view : view[p].deleted => del[p] > 0 /\ view[p].updatedAt <= t

RunBacked(run, del, t) ==
  /\ run.phase \in {"fetch", "apply"} => Backed(run.local, del, t)
  /\ run.phase \in {"apply", "write", "verify"} => Backed(run.merged, del, t)

MarksBacked ==
  \A d \in Device, p \in Peer :
    /\ deletedRow[d][p] <= now /\ watermark[d][p] <= now
    /\ deletedRow[d][p] > 0 => lastDelete[p] > 0
    /\ watermark[d][p] > 0 /\ ~Mapped(d, p) => lastDelete[p] > 0

PassesBacked == \A d \in Device, k \in PassKind : RunBacked(pass[d][k], lastDelete, now)

RelayBacked == relay # NoSnapshot => Backed(relay.items, lastDelete, now)

DInv ==
  /\ lastDelete \in [Peer -> Time] /\ now > 0
  /\ MarksBacked /\ PassesBacked /\ RelayBacked

LEMMA MergedDeleteIsOneOfBoth ==
  ASSUME NEW a \in Entry, NEW b \in Entry, mergeEntry(a, b).deleted
  PROVE  \/ a.deleted /\ mergeEntry(a, b) = a
         \/ b.deleted /\ mergeEntry(a, b) = b
<1>1. CASE a.deleted \/ b.deleted
  BY <1>1 DEF mergeEntry, LaterTombstone, TombstoneOrLive
<1>2. CASE ~a.deleted /\ ~b.deleted
  <2>1. a \in Live /\ b \in Live
    BY <1>2 DEF Entry, SyncEntry, Tombstone
  <2> DEFINE s  == Greater(a.stamp, b.stamp)
             fa == [a EXCEPT !.stamp = s]
             fb == [b EXCEPT !.stamp = s]
  <2>2. ~fa.deleted /\ ~fb.deleted
    BY <1>2, <2>1 DEF Live
  <2>3. mergeEntry(a, b) \in {a, b, fa, fb}
    BY <1>2 DEF mergeEntry, LiveOrLive
  <2> QED
    BY <1>2, <2>2, <2>3
<1> QED
  BY <1>1, <1>2

LEMMA MergeMapsBacked ==
  ASSUME NEW f \in View, NEW g \in View, NEW del, NEW t,
         Backed(f, del, t), Backed(g, del, t)
  PROVE  Backed(mergeMaps(f, g), del, t)
<1> DEFINE h == mergeMaps(f, g)
<1>1. SUFFICES ASSUME NEW p \in DOMAIN h, h[p].deleted
               PROVE  del[p] > 0 /\ h[p].updatedAt <= t
  BY DEF Backed
<1>2. p \in DOMAIN f \cup DOMAIN g
  BY DEF mergeMaps
<1>3. CASE p \in DOMAIN f /\ p \in DOMAIN g
  <2>1. h[p] = mergeEntry(f[p], g[p])
    BY <1>3 DEF mergeMaps
  <2>2. f[p] \in Entry /\ g[p] \in Entry
    BY <1>3 DEF View
  <2>3. \/ f[p].deleted /\ h[p] = f[p]
        \/ g[p].deleted /\ h[p] = g[p]
    <3> HIDE DEF h
    <3> QED
      BY <1>1, <2>1, <2>2, MergedDeleteIsOneOfBoth
  <2> HIDE DEF h
  <2> QED
    BY <1>3, <2>3 DEF Backed
<1>4. CASE p \notin DOMAIN f
  BY <1>1, <1>2, <1>4 DEF mergeMaps, Backed
<1>5. CASE p \notin DOMAIN g
  BY <1>1, <1>2, <1>5 DEF mergeMaps, Backed
<1> QED
  BY <1>3, <1>4, <1>5

(* What read() finds to be deleted goes back to a deletion.                *)
LEMMA OutrankedIsBacked ==
  ASSUME IInv, DInv, NEW d \in Device, NEW p \in Peer, DeleteStamp(d, p) > 0
  PROVE  lastDelete[p] > 0 /\ DeleteStamp(d, p) <= now
<1>1. /\ deletedRow[d][p] \in Nat /\ watermark[d][p] \in Nat /\ now \in Nat
      /\ deletedRow[d][p] <= now /\ watermark[d][p] <= now
      /\ deletedRow[d][p] > 0 => lastDelete[p] > 0
      /\ watermark[d][p] > 0 /\ ~Mapped(d, p) => lastDelete[p] > 0
  BY TimeIsNat DEF IInv, TypeInv, DInv, MarksBacked
<1>2. CASE Mapped(d, p)
  BY <1>1, <1>2 DEF DeleteStamp
<1>3. CASE ~Mapped(d, p)
  BY <1>1, <1>3 DEF DeleteStamp, Greater
<1> QED
  BY <1>2, <1>3

LEMMA LocalMapBacked ==
  ASSUME IInv, DInv, NEW d \in Device
  PROVE  Backed(LocalMap(d), lastDelete, now)
<1>1. SUFFICES ASSUME NEW p \in DOMAIN LocalMap(d), LocalMap(d)[p].deleted
               PROVE  lastDelete[p] > 0 /\ LocalMap(d)[p].updatedAt <= now
  BY DEF Backed
<1>2. p \in Peer
  BY DEF LocalMap
<1>3. LocalMap(d)[p] = IF Outranked(d, p) THEN tombstone(DeleteStamp(d, p))
                       ELSE EntryOf(mapping[d][p])
  BY DEF LocalMap
<1>4. Outranked(d, p)
  BY <1>1, <1>3 DEF EntryOf, liveEntry
<1>5. LocalMap(d)[p].updatedAt = DeleteStamp(d, p)
  BY <1>3, <1>4 DEF tombstone
<1>6. DeleteStamp(d, p) > 0
  BY <1>4 DEF Outranked
<1> QED
  BY <1>2, <1>5, <1>6, OutrankedIsBacked

(* Deletions and seconds only add to what is backed.                       *)
DeletesGrow ==
  /\ lastDelete' \in [Peer -> Time]
  /\ now' \in Time /\ now <= now'
  /\ \A p \in Peer : lastDelete[p] > 0 => lastDelete'[p] > 0

LEMMA StillBacked ==
  ASSUME IInv, DeletesGrow, NEW view \in View, Backed(view, lastDelete, now)
  PROVE  Backed(view, lastDelete', now')
<1>1. SUFFICES ASSUME NEW p \in DOMAIN view, view[p].deleted
               PROVE  lastDelete'[p] > 0 /\ view[p].updatedAt <= now'
  BY DEF Backed
<1>2. p \in Peer /\ view[p] \in Entry
  BY DEF View
<1>3. view[p].updatedAt \in Nat /\ now \in Nat /\ now' \in Nat
  BY <1>2, TimeIsNat DEF Entry, IInv, TypeInv, DeletesGrow
<1>4. lastDelete[p] > 0 /\ view[p].updatedAt <= now
  BY <1>1 DEF Backed
<1> QED
  BY <1>2, <1>3, <1>4 DEF DeletesGrow

LEMMA RunStillBacked ==
  ASSUME IInv, DeletesGrow, NEW run \in Run, RunBacked(run, lastDelete, now)
  PROVE  RunBacked(run, lastDelete', now')
<1>1. run.phase \in {"fetch", "apply"} => run.local \in View
  BY DEF Run, Idle
<1>2. run.phase \in {"apply", "write", "verify"} => run.merged \in View
  BY DEF Run, Idle
<1> QED
  BY <1>1, <1>2, StillBacked DEF RunBacked

LEMMA IdleBacked == \A del, t : RunBacked(Idle, del, t)
BY DEF RunBacked, Idle

LEMMA PassesStayBacked ==
  ASSUME IInv, DInv, DeletesGrow, NEW d \in Device, NEW k \in PassKind
  PROVE  RunBacked(pass[d][k], lastDelete', now')
BY RunStillBacked DEF IInv, TypeInv, DInv, PassesBacked

LEMMA PassesUnmoved ==
  ASSUME IInv, DInv, DeletesGrow, pass' = pass
  PROVE  PassesBacked'
BY PassesStayBacked DEF PassesBacked

LEMMA PassMovedBacked ==
  ASSUME IInv, DInv, DeletesGrow, NEW d \in Device, NEW k \in PassKind,
         NEW run \in Run, RunBacked(run, lastDelete, now), SetPass(d, k, run)
  PROVE  PassesBacked'
<1>1. RunBacked(run, lastDelete', now')
  BY RunStillBacked
<1>2. ASSUME NEW e \in Device, NEW j \in PassKind
      PROVE  RunBacked(pass'[e][j], lastDelete', now')
  <2>1. pass'[e][j] = run \/ pass'[e][j] = pass[e][j]
    BY DEF IInv, TypeInv, SetPass
  <2> QED
    BY <1>1, <2>1, PassesStayBacked
<1> QED
  BY <1>2 DEF PassesBacked

LEMMA PassesStopped ==
  ASSUME IInv, DInv, DeletesGrow, NEW d \in Device, Stop(d)
  PROVE  PassesBacked'
<1>1. ASSUME NEW e \in Device, NEW j \in PassKind
      PROVE  RunBacked(pass'[e][j], lastDelete', now')
  <2>1. pass'[e][j] = Idle \/ pass'[e][j] = pass[e][j]
    BY DEF Stop, IInv, TypeInv
  <2> QED
    BY <2>1, IdleBacked, PassesStayBacked
<1> QED
  BY <1>1 DEF PassesBacked

LEMMA RelayStaysBacked ==
  ASSUME IInv, DInv, DeletesGrow, relay' = relay
  PROVE  RelayBacked'
<1>1. relay # NoSnapshot => relay.items \in View /\ Backed(relay.items, lastDelete, now)
  BY DEF IInv, TypeInv, Snapshot, DInv, RelayBacked
<1> QED
  BY <1>1, StillBacked DEF RelayBacked

(* A peer's marks after a step are no newer than the clock, and: nothing   *)
(* was marked and no mapping went; or the peer has been deleted; or the    *)
(* peer is mapped and no row was written.                                  *)
LEMMA MarksStayBacked ==
  ASSUME IInv, DInv, DeletesGrow,
         \A d \in Device, p \in Peer :
           \/ /\ deletedRow'[d][p] \in {0, deletedRow[d][p]}
              /\ watermark'[d][p] \in {0, watermark[d][p]}
              /\ Mapped(d, p) => Mapped(d, p)'
           \/ /\ deletedRow'[d][p] <= now' /\ watermark'[d][p] <= now'
              /\ lastDelete'[p] > 0
           \/ /\ deletedRow'[d][p] = deletedRow[d][p] /\ watermark'[d][p] <= now'
              /\ Mapped(d, p)'
  PROVE  MarksBacked'
<1>1. SUFFICES ASSUME NEW d \in Device, NEW p \in Peer
               PROVE  /\ deletedRow'[d][p] <= now' /\ watermark'[d][p] <= now'
                      /\ deletedRow'[d][p] > 0 => lastDelete'[p] > 0
                      /\ watermark'[d][p] > 0 /\ ~Mapped(d, p)' => lastDelete'[p] > 0
  BY DEF MarksBacked
<1>2. /\ deletedRow[d][p] \in Nat /\ watermark[d][p] \in Nat /\ now \in Nat /\ now' \in Nat
      /\ deletedRow[d][p] <= now /\ watermark[d][p] <= now
      /\ deletedRow[d][p] > 0 => lastDelete[p] > 0
      /\ watermark[d][p] > 0 /\ ~Mapped(d, p) => lastDelete[p] > 0
  BY TimeIsNat DEF IInv, TypeInv, DInv, MarksBacked, DeletesGrow
<1>3. now <= now' /\ (lastDelete[p] > 0 => lastDelete'[p] > 0)
  BY DEF DeletesGrow
<1>4. CASE /\ deletedRow'[d][p] \in {0, deletedRow[d][p]}
           /\ watermark'[d][p] \in {0, watermark[d][p]}
           /\ Mapped(d, p) => Mapped(d, p)'
  BY <1>2, <1>3, <1>4
<1>5. CASE /\ deletedRow'[d][p] <= now' /\ watermark'[d][p] <= now'
           /\ lastDelete'[p] > 0
  BY <1>5
<1>6. CASE /\ deletedRow'[d][p] = deletedRow[d][p] /\ watermark'[d][p] <= now'
           /\ Mapped(d, p)'
  BY <1>2, <1>3, <1>6
<1> QED
  BY <1>4, <1>5, <1>6

-----------------------------------------------------------------------------
(* The mappings that go in a step are of peers that were deleted.          *)
NoneLost ==
  \A d \in Device, p \in Peer : Mapped(d, p) /\ ~Mapped(d, p)' => lastDelete'[p] > 0

LEMMA NoDeletion ==
  ASSUME IInv, DInv, lastDelete' = lastDelete, now' = now
  PROVE  DeletesGrow
<1>1. now \in Nat
  BY TimeIsNat DEF IInv, TypeInv
<1> QED
  BY <1>1 DEF DeletesGrow, DInv, IInv, TypeInv

LEMMA StoresAlone ==
  ASSUME IInv, DInv, DeletesGrow, UNCHANGED stores
  PROVE  MarksBacked' /\ NoneLost
<1>1. UNCHANGED <<mapping, deletedRow, watermark>>
  BY DEF stores
<1>2. \A d \in Device, p \in Peer : Mapped(d, p)' <=> Mapped(d, p)
  BY <1>1 DEF Mapped
<1> QED
  BY <1>1, <1>2, MarksStayBacked DEF NoneLost

LEMMA DInvHolds ==
  ASSUME IInv, DInv, DeletesGrow, MarksBacked', PassesBacked', RelayBacked'
  PROVE  DInv'
<1>1. now \in Nat /\ now' \in Nat /\ now > 0 /\ now <= now'
  BY TimeIsNat DEF IInv, TypeInv, DInv, DeletesGrow
<1> QED
  BY <1>1 DEF DInv, DeletesGrow

(* A step of one pass that writes no store.                                *)
LEMMA PassOnlyBacked ==
  ASSUME IInv, DInv, NEW d \in Device, NEW k \in PassKind,
         NEW run \in Run, RunBacked(run, lastDelete, now), SetPass(d, k, run),
         UNCHANGED stores, UNCHANGED <<relay, now, lastDelete>>
  PROVE  DInv' /\ NoneLost
<1>1. DeletesGrow
  BY NoDeletion
<1> QED
  BY <1>1, StoresAlone, PassMovedBacked, RelayStaysBacked, DInvHolds

LEMMA PassViewsBacked ==
  ASSUME IInv, DInv, NEW d \in Device, NEW k \in PassKind, NEW run, run = pass[d][k]
  PROVE  /\ run \in Run
         /\ run.phase \in {"fetch", "apply"} =>
              run.local \in View /\ Backed(run.local, lastDelete, now)
         /\ run.phase \in {"apply", "write", "verify"} =>
              run.merged \in View /\ Backed(run.merged, lastDelete, now)
<1>1. run \in Run /\ RunBacked(run, lastDelete, now)
  BY DEF IInv, TypeInv, DInv, PassesBacked
<1> QED
  BY <1>1 DEF Run, Idle, RunBacked

LEMMA WriteRunBacked ==
  ASSUME NEW merged \in View, NEW phase \in {"write", "verify"},
         Backed(merged, lastDelete, now)
  PROVE  /\ [phase |-> phase, merged |-> merged] \in Run
         /\ RunBacked([phase |-> phase, merged |-> merged], lastDelete, now)
BY DEF Run, RunBacked

LEMMA AfterApplyBacked ==
  ASSUME NEW merged \in View, Backed(merged, lastDelete, now), NEW write
  PROVE  /\ AfterApply(merged, write) \in Run
         /\ RunBacked(AfterApply(merged, write), lastDelete, now)
<1>1. CASE write
  BY <1>1, WriteRunBacked DEF AfterApply
<1>2. CASE ~write
  BY <1>2, IdleRun, IdleBacked DEF AfterApply
<1> QED
  BY <1>1, <1>2

LEMMA FetchAbsentBacked ==
  ASSUME IInv, DInv, NEW d \in Device, NEW k \in PassKind, FetchAbsent(d, k)
  PROVE  DInv' /\ NoneLost
<1> DEFINE local == pass[d][k].local
           run   == IF k = "reconcile" /\ DOMAIN local = {} THEN Idle
                    ELSE [phase |-> "write", merged |-> local]
<1>1. local \in View /\ Backed(local, lastDelete, now)
  BY PassViewsBacked DEF FetchAbsent, Phase
<1>2. run \in Run /\ RunBacked(run, lastDelete, now)
  <2> HIDE DEF local
  <2> QED
    BY <1>1, WriteRunBacked, IdleRun, IdleBacked
<1>3. SetPass(d, k, run) /\ UNCHANGED stores /\ UNCHANGED <<relay, now, lastDelete>>
  BY DEF FetchAbsent, history
<1> HIDE DEF run
<1> QED
  BY <1>2, <1>3, PassOnlyBacked

LEMMA FetchOkBacked ==
  ASSUME IInv, DInv, NEW d \in Device, NEW k \in PassKind, FetchOk(d, k)
  PROVE  DInv' /\ NoneLost
<1> DEFINE local  == pass[d][k].local
           merged == mergeMaps(local, relay.items)
           write  == MustWrite(merged, relay)
           run    == [phase |-> "apply", local |-> local, merged |-> merged,
                      stored |-> mapping[d], todo |-> DOMAIN merged,
                      pinning |-> NoPeer, write |-> write]
<1>1. local \in View /\ Within(local, lastAdd) /\ Backed(local, lastDelete, now)
  BY PassViewsBacked, RunFacts DEF FetchOk, Phase
<1>2. /\ relay.items \in View /\ Within(relay.items, lastAdd)
      /\ Backed(relay.items, lastDelete, now)
  BY DEF FetchOk, IInv, TypeInv, StampInv, RelayWithin, Snapshot, DInv, RelayBacked
<1>3. merged \in View /\ Backed(merged, lastDelete, now)
  BY <1>1, <1>2, MergeMapsWithin, MergeMapsBacked DEF IInv, TypeInv
<1>4. UNCHANGED stores /\ UNCHANGED <<relay, now, lastDelete>>
  BY DEF FetchOk, history
<1>5. CASE differs(merged, local)
  <2>1. SetPass(d, k, run)
    BY <1>5 DEF FetchOk
  <2>2. DOMAIN merged \in SUBSET Peer /\ mapping[d] \in Book /\ write \in BOOLEAN
    BY <1>3 DEF View, IInv, TypeInv, MustWrite, differs
  <2>3. run \in Run /\ RunBacked(run, lastDelete, now)
    <3> HIDE DEF local, merged, write
    <3> QED
      BY <1>1, <1>3, <2>2 DEF Run, RunBacked
  <2> HIDE DEF run
  <2> QED
    BY <1>4, <2>1, <2>3, PassOnlyBacked
<1>6. CASE ~differs(merged, local)
  <2>1. SetPass(d, k, AfterApply(merged, write))
    BY <1>6 DEF FetchOk
  <2>2. /\ AfterApply(merged, write) \in Run
        /\ RunBacked(AfterApply(merged, write), lastDelete, now)
    BY <1>3, AfterApplyBacked
  <2> HIDE DEF merged, write
  <2> QED
    BY <1>4, <2>1, <2>2, PassOnlyBacked
<1> QED
  BY <1>5, <1>6

LEMMA WriteBacked ==
  ASSUME IInv, DInv, NEW d \in Device, NEW k \in PassKind, Write(d, k)
  PROVE  DInv' /\ NoneLost
<1> DEFINE merged   == pass[d][k].merged
           snapshot == [version |-> Version, items |-> merged, fresh |-> TRUE]
           run      == IF k = "publish" THEN [phase |-> "verify", merged |-> merged] ELSE Idle
<1>1. merged \in View /\ Backed(merged, lastDelete, now)
  BY PassViewsBacked DEF Write, Phase
<1>2. /\ relay' = snapshot \/ relay' = relay
      /\ SetPass(d, k, run)
      /\ UNCHANGED stores /\ UNCHANGED <<now, lastDelete>>
  BY DEF Write, history
<1>3. DeletesGrow
  BY <1>2, NoDeletion
<1>4. run \in Run /\ RunBacked(run, lastDelete, now)
  <2> HIDE DEF merged
  <2> QED
    BY <1>1, WriteRunBacked, IdleRun, IdleBacked
<1>5. RelayBacked'
  <2>1. CASE relay' = snapshot
    <3>1. snapshot.items = merged
      OBVIOUS
    <3> HIDE DEF merged, snapshot
    <3> QED
      BY <1>1, <1>2, <2>1, <3>1 DEF RelayBacked
  <2>2. CASE relay' = relay
    BY <1>3, <2>2, RelayStaysBacked
  <2> QED
    BY <1>2, <2>1, <2>2
<1> HIDE DEF run
<1> QED
  BY <1>2, <1>3, <1>4, <1>5, StoresAlone, PassMovedBacked, DInvHolds

(* The steps that only end, or restart, a pass.                            *)
LEMMA PassEndsBacked ==
  ASSUME IInv, DInv, NEW d \in Device, NEW k \in PassKind,
         \/ FetchUnavailable(d, k)
         \/ Verify(d)
  PROVE  DInv' /\ NoneLost
<1>1. UNCHANGED stores /\ UNCHANGED <<relay, now, lastDelete>>
  BY DEF FetchUnavailable, Verify, history
<1>2. SetPass(d, k, Idle) \/ SetPass(d, "publish", Idle)
  BY DEF FetchUnavailable, Verify, Abandon
<1>3. "publish" \in PassKind
  BY DEF PassKind
<1> QED
  BY <1>1, <1>2, <1>3, IdleRun, IdleBacked, PassOnlyBacked

LEMMA IdleStepsBacked ==
  ASSUME IInv, DInv, NEW d \in Device,
         \/ QueueRerun(d)
         \/ Crash(d)
         \/ \E p \in Peer : InboundAdmitted(d, p)
  PROVE  DInv' /\ NoneLost
<1>1. UNCHANGED stores /\ UNCHANGED <<relay, now, lastDelete>>
  BY DEF QueueRerun, Crash, InboundAdmitted, Elsewhere, history
<1>2. DeletesGrow
  BY <1>1, NoDeletion
<1>3. pass' = pass \/ Stop(d)
  BY DEF QueueRerun, Crash, InboundAdmitted
<1> QED
  BY <1>1, <1>2, <1>3, PassesUnmoved, PassesStopped, StoresAlone, RelayStaysBacked, DInvHolds

LEMMA SecondBacked ==
  ASSUME IInv, DInv, SecondPasses
  PROVE  DInv' /\ NoneLost
<1>1. UNCHANGED stores /\ pass' = pass /\ lastDelete' = lastDelete
  BY DEF SecondPasses, history
<1>2. now' \in Time /\ now <= now'
  BY ContactsAssumption DEF SecondPasses, Time, IInv, TypeInv
<1>3. DeletesGrow
  BY <1>1, <1>2 DEF DeletesGrow, DInv
<1>4. relay' = NoSnapshot \/ (relay # NoSnapshot /\ relay' = [relay EXCEPT !.fresh = FALSE])
  BY DEF SecondPasses
<1>5. relay' # NoSnapshot => relay # NoSnapshot /\ relay'.items = relay.items
  BY <1>4 DEF Snapshot, IInv, TypeInv
<1>6. relay # NoSnapshot => relay.items \in View /\ Backed(relay.items, lastDelete, now)
  BY DEF IInv, TypeInv, Snapshot, DInv, RelayBacked
<1>7. RelayBacked'
  BY <1>3, <1>5, <1>6, StillBacked DEF RelayBacked
<1> QED
  BY <1>1, <1>3, <1>7, StoresAlone, PassesUnmoved, DInvHolds

(* read() drops a mapping its deletion row outranks.                       *)
LEMMA ReadBacked ==
  ASSUME IInv, DInv, NEW d \in Device, NEW k \in PassKind, Read(d, k)
  PROVE  DInv' /\ NoneLost
<1> DEFINE run == [phase |-> "fetch", local |-> LocalMap(d)]
<1>1. run \in Run /\ RunBacked(run, lastDelete, now)
  BY LocalMapWithin, LocalMapBacked DEF Run, RunBacked
<1>2. SetPass(d, k, run) /\ UNCHANGED <<relay, now, lastDelete, watermark>> /\ Healed(d)
  BY DEF Read, Healed, history
<1>3. DeletesGrow
  BY <1>2, NoDeletion
<1>4. ASSUME NEW e \in Device, NEW p \in Peer
      PROVE  /\ deletedRow'[e][p] \in {0, deletedRow[e][p]}
             /\ watermark'[e][p] = watermark[e][p]
             /\ (Mapped(e, p) => Mapped(e, p)') \/ lastDelete'[p] > 0
  <2>1. CASE e # d
    <3>1. mapping'[e] = mapping[e] /\ deletedRow'[e] = deletedRow[e]
      BY <1>2, <2>1 DEF Healed, IInv, TypeInv
    <3> QED
      BY <1>2, <3>1 DEF Mapped
  <2>2. CASE e = d
    <3>1. /\ mapping'[d][p] = IF Outranked(d, p) THEN NoMapping ELSE mapping[d][p]
          /\ deletedRow'[d][p] = IF Mapped(d, p) /\ ~Outranked(d, p) THEN 0
                                 ELSE deletedRow[d][p]
      BY <1>2 DEF Healed, IInv, TypeInv
    <3>2. Outranked(d, p) => lastDelete[p] > 0
      BY OutrankedIsBacked DEF Outranked
    <3> QED
      BY <1>2, <2>2, <3>1, <3>2 DEF Mapped
  <2> QED
    BY <2>1, <2>2
<1>5. MarksBacked'
  <2>1. ASSUME NEW e \in Device, NEW p \in Peer
        PROVE  deletedRow'[e][p] <= now' /\ watermark'[e][p] <= now'
    <3>1. /\ deletedRow[e][p] <= now /\ watermark[e][p] <= now /\ now \in Nat
          /\ 0 <= now
      BY TimeIsNat DEF IInv, TypeInv, DInv, MarksBacked
    <3> QED
      BY <1>2, <1>4, <3>1
  <2> QED
    BY <1>3, <1>4, <2>1, MarksStayBacked
<1>6. NoneLost
  BY <1>4 DEF NoneLost
<1> HIDE DEF run
<1> QED
  BY <1>1, <1>2, <1>3, <1>5, <1>6, PassMovedBacked, RelayStaysBacked, DInvHolds

LEMMA EntryAppliedBacked ==
  ASSUME IInv, DInv, NEW d \in Device, NEW k \in PassKind, NEW p \in Peer,
         Applying(d, k, p), EntryApplied(d, k, p), DeletesGrow
  PROVE  PassesBacked'
<1> DEFINE run  == pass[d][k]
           next == [run EXCEPT !.todo = @ \ {p}, !.pinning = NoPeer]
           to   == IF run.todo = {p} THEN AfterApply(run.merged, run.write) ELSE next
<1>1. /\ run \in [phase : {"apply"}, local : View, merged : View, stored : Book,
                  todo : SUBSET Peer, pinning : Peer \cup {NoPeer}, write : BOOLEAN]
      /\ Backed(run.local, lastDelete, now) /\ Backed(run.merged, lastDelete, now)
  BY RunFacts, PassViewsBacked DEF Applying, Phase
<1>2. next \in Run /\ RunBacked(next, lastDelete, now)
  <2>1. next \in [phase : {"apply"}, local : View, merged : View, stored : Book,
                  todo : SUBSET Peer, pinning : Peer \cup {NoPeer}, write : BOOLEAN]
    BY <1>1
  <2>2. next.local = run.local /\ next.merged = run.merged
    BY <1>1
  <2> HIDE DEF next
  <2> QED
    BY <1>1, <2>1, <2>2 DEF Run, RunBacked
<1>3. /\ AfterApply(run.merged, run.write) \in Run
      /\ RunBacked(AfterApply(run.merged, run.write), lastDelete, now)
  BY <1>1, AfterApplyBacked
<1>4. to \in Run /\ RunBacked(to, lastDelete, now)
  BY <1>2, <1>3
<1>5. SetPass(d, k, to)
  BY DEF EntryApplied
<1> HIDE DEF to
<1> QED
  BY <1>4, <1>5, PassMovedBacked

LEMMA ApplyDeleteBacked ==
  ASSUME IInv, DInv, NEW d \in Device, NEW k \in PassKind, NEW p \in Peer,
         ApplyDelete(d, k, p)
  PROVE  DInv' /\ NoneLost
<1> DEFINE run == pass[d][k]
           at  == run.merged[p].updatedAt
<1>1. /\ Applying(d, k, p) /\ EntryApplied(d, k, p)
      /\ UNCHANGED <<relay, now, lastDelete>>
      /\ run.merged[p].deleted
      /\ deletedRow' = [deletedRow EXCEPT ![d][p] = Greater(@, at)]
      /\ \/ /\ mapping' = [mapping EXCEPT ![d][p] = NoMapping]
            /\ watermark' = [watermark EXCEPT ![d][p] = Greater(@, at)]
         \/ mapping' = mapping /\ watermark' = watermark
  BY DEF ApplyDelete, history
<1>2. DeletesGrow
  BY <1>1, NoDeletion
<1>3. /\ Backed(run.merged, lastDelete, now) /\ RunWithin(run, lastAdd)
      /\ run.phase = "apply" /\ p \in run.todo
  BY <1>1, RunFacts, PassViewsBacked DEF Applying, Phase
<1>4. p \in DOMAIN run.merged
  BY <1>3 DEF RunWithin
<1>5. at \in Nat /\ at <= now /\ now \in Nat /\ lastDelete'[p] > 0
  BY <1>1, <1>3, <1>4, EntryFacts, TimeIsNat DEF Backed, IInv, TypeInv
<1>6. /\ deletedRow[d][p] \in Nat /\ watermark[d][p] \in Nat
      /\ deletedRow[d][p] <= now /\ watermark[d][p] <= now
  BY TimeIsNat DEF IInv, TypeInv, DInv, MarksBacked
<1> HIDE DEF at
<1>7. /\ deletedRow'[d][p] = Greater(deletedRow[d][p], at)
      /\ watermark'[d][p] = Greater(watermark[d][p], at) \/ watermark'[d][p] = watermark[d][p]
  BY <1>1 DEF IInv, TypeInv
<1>8. deletedRow'[d][p] <= now' /\ watermark'[d][p] <= now'
  BY <1>1, <1>5, <1>6, <1>7 DEF Greater
<1>9. \A e \in Device, q \in Peer : e # d \/ q # p =>
        /\ deletedRow'[e][q] = deletedRow[e][q] /\ watermark'[e][q] = watermark[e][q]
        /\ mapping'[e][q] = mapping[e][q]
  BY <1>1 DEF IInv, TypeInv, Book
<1>10. MarksBacked'
  BY <1>2, <1>5, <1>8, <1>9, MarksStayBacked DEF Mapped
<1>11. NoneLost
  BY <1>5, <1>9 DEF NoneLost, Mapped
<1> QED
  BY <1>1, <1>2, <1>10, <1>11, EntryAppliedBacked, RelayStaysBacked, DInvHolds

(* A write to one mapping, that does not take it away.                     *)
LEMMA MappingStays ==
  ASSUME IInv, NEW d \in Device, NEW p \in Peer, NEW m \in Mapping \cup {NoMapping},
         Mapped(d, p) => m # NoMapping, mapping' = [mapping EXCEPT ![d][p] = m]
  PROVE  \A e \in Device, q \in Peer : Mapped(e, q) => Mapped(e, q)'
BY DEF IInv, TypeInv, Book, Mapped

LEMMA UpsertedIsMapping ==
  ASSUME IInv, NEW d \in Device, NEW p \in Peer, NEW name \in Name \cup {NoName},
         NEW stamp \in Time
  PROVE  /\ Upserted(mapping[d][p], name, stamp) \in Mapping
         /\ Upserted(mapping[d][p], name, stamp) # NoMapping
<1>1. mapping[d][p] \in Mapping \cup {NoMapping} /\ now \in Time
  BY DEF IInv, TypeInv, Book
<1>2. Upserted(mapping[d][p], name, stamp) \in Mapping
  BY <1>1, UpsertedType
<1> QED
  BY <1>2, NoMappingIsNone

LEMMA StoredNameType ==
  ASSUME IInv, NEW d \in Device, NEW p \in Peer, NEW n \in Name \cup {NoName}
  PROVE  NameToStore(mapping[d][p], n) \in Name \cup {NoName}
<1>1. mapping[d][p] \in Mapping \cup {NoMapping}
  BY DEF IInv, TypeInv, Book
<1> QED
  BY <1>1 DEF NameToStore, Mapping

LEMMA ApplyAddBacked ==
  ASSUME IInv, DInv, NEW d \in Device, NEW k \in PassKind, NEW p \in Peer,
         ApplyAdd(d, k, p)
  PROVE  DInv' /\ NoneLost
<1> DEFINE run  == pass[d][k]
           next == [run EXCEPT !.pinning = p]
           m    == Upserted(mapping[d][p],
                            NameToStore(mapping[d][p], run.merged[p].data.name), 0)
<1>1. /\ Applying(d, k, p) /\ ~run.merged[p].deleted /\ SetPass(d, k, next)
      /\ UNCHANGED <<relay, now, lastDelete>>
      /\ deletedRow' = [deletedRow EXCEPT ![d][p] = 0]
      /\ watermark' = [watermark EXCEPT ![d][p] = 0]
  BY DEF ApplyAdd, history
<1>2. DeletesGrow
  BY <1>1, NoDeletion
<1>3. mapping' = [mapping EXCEPT ![d][p] = m]
  BY DEF ApplyAdd, IInv, TypeInv, Book
<1>4. run.merged[p].data.name \in Name \cup {NoName}
  BY <1>1, EntryFacts DEF Payload
<1>5. m \in Mapping /\ m # NoMapping
  BY <1>4, StoredNameType, UpsertedIsMapping, TimeIsNat
<1>6. \A e \in Device, q \in Peer : Mapped(e, q) => Mapped(e, q)'
  <2> HIDE DEF m
  <2> QED
    BY <1>3, <1>5, MappingStays
<1>7. \A e \in Device, q \in Peer :
        deletedRow'[e][q] \in {0, deletedRow[e][q]} /\ watermark'[e][q] \in {0, watermark[e][q]}
  BY <1>1 DEF IInv, TypeInv
<1>8. MarksBacked' /\ NoneLost
  BY <1>2, <1>6, <1>7, MarksStayBacked DEF NoneLost
<1>9. next \in Run /\ RunBacked(next, lastDelete, now)
  <2>1. /\ run \in [phase : {"apply"}, local : View, merged : View, stored : Book,
                    todo : SUBSET Peer, pinning : Peer \cup {NoPeer}, write : BOOLEAN]
        /\ Backed(run.local, lastDelete, now) /\ Backed(run.merged, lastDelete, now)
    BY <1>1, RunFacts, PassViewsBacked DEF Applying, Phase
  <2>2. next \in [phase : {"apply"}, local : View, merged : View, stored : Book,
                  todo : SUBSET Peer, pinning : Peer \cup {NoPeer}, write : BOOLEAN]
    BY <2>1
  <2>3. next.local = run.local /\ next.merged = run.merged
    BY <2>1
  <2> HIDE DEF next
  <2> QED
    BY <2>1, <2>2, <2>3 DEF Run, RunBacked
<1> HIDE DEF next
<1> QED
  BY <1>1, <1>2, <1>8, <1>9, PassMovedBacked, RelayStaysBacked, DInvHolds

LEMMA PinnedIsMapping ==
  ASSUME NEW m \in Mapping \cup {NoMapping}, NEW at \in Time, NEW stamp \in Time
  PROVE  /\ Pinned(m, at, stamp) \in Mapping \cup {NoMapping}
         /\ m # NoMapping => Pinned(m, at, stamp) \in Mapping
                               /\ Pinned(m, at, stamp) # NoMapping
BY PinnedType, NoMappingIsNone

LEMMA StampToPinType ==
  ASSUME IInv, NEW d \in Device, NEW k \in PassKind, NEW p \in Peer,
         Applying(d, k, p), ~pass[d][k].merged[p].deleted
  PROVE  StampToPin(pass[d][k], p) \in Time
BY EntryFacts, TimeIsNat DEF StampToPin

LEMMA ApplyPinBacked ==
  ASSUME IInv, DInv, NEW d \in Device, NEW k \in PassKind, NEW p \in Peer,
         ApplyPin(d, k, p)
  PROVE  DInv' /\ NoneLost
<1> DEFINE run == pass[d][k]
           m   == Pinned(mapping[d][p], run.merged[p].updatedAt, StampToPin(run, p))
<1>1. /\ Applying(d, k, p) /\ EntryApplied(d, k, p) /\ run.pinning = p
      /\ UNCHANGED <<deletedRow, watermark, relay, now, lastDelete>>
  BY DEF ApplyPin, history
<1>2. DeletesGrow
  BY <1>1, NoDeletion
<1>3. ~run.merged[p].deleted /\ run.merged[p].updatedAt \in Time
  BY <1>1, EntryFacts
<1>4. StampToPin(run, p) \in Time
  BY <1>1, <1>3, StampToPinType
<1>5. mapping[d][p] \in Mapping \cup {NoMapping}
  BY DEF IInv, TypeInv, Book
<1>6. m \in Mapping \cup {NoMapping} /\ (Mapped(d, p) => m # NoMapping)
  BY <1>3, <1>4, <1>5, PinnedIsMapping DEF Mapped
<1>7. mapping' = [mapping EXCEPT ![d][p] = m]
  BY DEF ApplyPin, IInv, TypeInv, Book
<1> HIDE DEF m
<1>8. \A e \in Device, q \in Peer : Mapped(e, q) => Mapped(e, q)'
  BY <1>6, <1>7, MappingStays
<1>9. MarksBacked' /\ NoneLost
  BY <1>1, <1>2, <1>8, MarksStayBacked DEF NoneLost
<1> QED
  BY <1>1, <1>2, <1>9, EntryAppliedBacked, RelayStaysBacked, DInvHolds

LEMMA ApplyUpdateBacked ==
  ASSUME IInv, DInv, NEW d \in Device, NEW k \in PassKind, NEW p \in Peer,
         ApplyUpdate(d, k, p)
  PROVE  DInv' /\ NoneLost
<1> DEFINE run     == pass[d][k]
           entry   == run.merged[p]
           newer   == entry.updatedAt > run.local[p].updatedAt
           renamed == newer /\ entry.data.name \notin {NoName, run.local[p].data.name}
           row     == mapping[d][p]
           at      == IF newer THEN entry.updatedAt ELSE row.updatedAt
           pinned  == Pinned(row, at, StampToPin(run, p))
           m       == IF row = NoMapping THEN row
                      ELSE [pinned EXCEPT !.name = IF renamed THEN entry.data.name ELSE @]
<1>1. /\ Applying(d, k, p) /\ EntryApplied(d, k, p) /\ ~entry.deleted
      /\ mapping' = [mapping EXCEPT ![d][p] = m]
      /\ UNCHANGED <<deletedRow, watermark, relay, now, lastDelete>>
  BY DEF ApplyUpdate, history
<1>2. DeletesGrow
  BY <1>1, NoDeletion
<1>3. m \in Mapping \cup {NoMapping} /\ (Mapped(d, p) => m # NoMapping)
  <2>1. CASE row = NoMapping
    BY <2>1 DEF Mapped
  <2>2. CASE row # NoMapping
    <3>1. entry.updatedAt \in Time /\ entry.data \in Payload
      BY <1>1, EntryFacts
    <3>2. row \in Mapping
      BY <2>2 DEF IInv, TypeInv, Book
    <3>3. at \in Time
      BY <3>1, <3>2 DEF Mapping
    <3>4. StampToPin(run, p) \in Time
      BY <1>1, StampToPinType
    <3>5. pinned \in Mapping
      <4> HIDE DEF at
      <4> QED
        BY <2>2, <3>2, <3>3, <3>4, PinnedIsMapping
    <3>6. entry.data.name \in Name \cup {NoName}
      BY <3>1 DEF Payload
    <3> HIDE DEF pinned
    <3>7. m \in Mapping
      BY <2>2, <3>5, <3>6 DEF Mapping
    <3> QED
      BY <3>7, NoMappingIsNone
  <2> QED
    BY <2>1, <2>2
<1> HIDE DEF m
<1>4. \A e \in Device, q \in Peer : Mapped(e, q) => Mapped(e, q)'
  BY <1>1, <1>3, MappingStays
<1>5. MarksBacked' /\ NoneLost
  BY <1>1, <1>2, <1>4, MarksStayBacked DEF NoneLost
<1> QED
  BY <1>1, <1>2, <1>5, EntryAppliedBacked, RelayStaysBacked, DInvHolds

(* The acts that store a mapping and mark nothing.                         *)
LEMMA StoredBacked ==
  ASSUME IInv, DInv, NEW d \in Device, NEW p \in Peer, NEW m \in Mapping,
         mapping' = [mapping EXCEPT ![d][p] = m],
         \A e \in Device, q \in Peer :
           /\ deletedRow'[e][q] \in {0, deletedRow[e][q]}
           /\ watermark'[e][q] \in {0, watermark[e][q]},
         pass' = pass \/ Stop(d), UNCHANGED <<relay, now, lastDelete>>
  PROVE  DInv' /\ NoneLost
<1>1. DeletesGrow
  BY NoDeletion
<1>2. \A e \in Device, q \in Peer : Mapped(e, q) => Mapped(e, q)'
  BY MappingStays, NoMappingIsNone
<1>3. MarksBacked' /\ NoneLost
  BY <1>1, <1>2, MarksStayBacked DEF NoneLost
<1> QED
  BY <1>1, <1>3, PassesUnmoved, PassesStopped, RelayStaysBacked, DInvHolds

LEMMA AddBacked ==
  ASSUME IInv, DInv, NEW d \in Device, NEW p \in Peer,
         AddContact(d, p) \/ AddInterrupted(d, p)
  PROVE  DInv' /\ NoneLost
<1>1. PICK n \in Name \cup {NoName} : Added(d, p, n)
  BY DEF AddContact, AddInterrupted
<1> DEFINE m == Upserted(mapping[d][p], NameToStore(mapping[d][p], n), now)
<1>2. mapping' = [mapping EXCEPT ![d][p] = m] /\ lastDelete' = lastDelete
  BY <1>1 DEF Added, IInv, TypeInv, Book
<1>3. m \in Mapping
  BY <1>1, StoredNameType, UpsertedIsMapping DEF IInv, TypeInv
<1>4. UNCHANGED <<relay, now>> /\ (pass' = pass \/ Stop(d))
  BY DEF AddContact, AddInterrupted, Running, Elsewhere
<1>5. \A e \in Device, q \in Peer :
        deletedRow'[e][q] \in {0, deletedRow[e][q]} /\ watermark'[e][q] \in {0, watermark[e][q]}
  <2>1. CASE AddContact(d, p)
    BY <2>1 DEF AddContact, IInv, TypeInv
  <2>2. CASE AddInterrupted(d, p)
    BY <2>2 DEF AddInterrupted
  <2> QED
    BY <2>1, <2>2
<1> HIDE DEF m
<1> QED
  BY <1>2, <1>3, <1>4, <1>5, StoredBacked

LEMMA RenameBacked ==
  ASSUME IInv, DInv, NEW d \in Device, NEW p \in Peer,
         RenameContact(d, p) \/ InboundStored(d, p)
  PROVE  DInv' /\ NoneLost
<1>1. PICK n \in Name \cup {NoName} :
        mapping' = [mapping EXCEPT ![d][p] = Upserted(@, n, 0)]
  BY DEF RenameContact, InboundStored
<1> DEFINE m == Upserted(mapping[d][p], n, 0)
<1>2. mapping' = [mapping EXCEPT ![d][p] = m]
  BY <1>1 DEF IInv, TypeInv, Book
<1>3. m \in Mapping
  BY <1>1, UpsertedIsMapping, TimeIsNat
<1>4. UNCHANGED <<deletedRow, watermark, pass, relay, now, lastDelete>>
  BY DEF RenameContact, InboundStored, Running, Elsewhere, history
<1> HIDE DEF m
<1> QED
  BY <1>2, <1>3, <1>4, StoredBacked

LEMMA ProfileBacked ==
  ASSUME IInv, DInv, NEW d \in Device, NEW p \in Peer, RefreshProfile(d, p)
  PROVE  DInv' /\ NoneLost
<1>1. PICK n \in Name \cup {mapping[d][p].name} :
        mapping' = [mapping EXCEPT ![d][p] = [@ EXCEPT !.name = n, !.updatedAt = now]]
  BY DEF RefreshProfile
<1> DEFINE m == [mapping[d][p] EXCEPT !.name = n, !.updatedAt = now]
<1>2. mapping[d][p] \in Mapping
  BY DEF RefreshProfile, Mapped, IInv, TypeInv, Book
<1>3. m \in Mapping
  BY <1>1, <1>2 DEF Mapping, IInv, TypeInv
<1>4. mapping' = [mapping EXCEPT ![d][p] = m]
  BY <1>1 DEF IInv, TypeInv, Book
<1>5. UNCHANGED <<deletedRow, watermark, pass, relay, now, lastDelete>>
  BY DEF RefreshProfile, Running, Elsewhere, history
<1> HIDE DEF m
<1> QED
  BY <1>3, <1>4, <1>5, StoredBacked

(* The user deletes: what is marked is the deletion, at this second.       *)
LEMMA DeleteBacked ==
  ASSUME IInv, DInv, NEW d \in Device, NEW p \in Peer,
         DeleteContact(d, p) \/ DeleteInterrupted(d, p)
  PROVE  DInv' /\ NoneLost
<1>1. /\ watermark' = [watermark EXCEPT ![d][p] = Greater(@, now)]
      /\ deletedRow' = [deletedRow EXCEPT ![d][p] = Greater(@, now)]
      /\ lastDelete' = [lastDelete EXCEPT ![p] = now]
      /\ UNCHANGED <<relay, now>>
      /\ mapping' = [mapping EXCEPT ![d][p] = NoMapping] \/ mapping' = mapping
  BY DEF DeleteContact, DeleteInterrupted, Deleted, Elsewhere
<1>2. /\ now \in Nat /\ now \in Time /\ now > 0 /\ lastDelete \in [Peer -> Time]
      /\ deletedRow[d][p] \in Nat /\ watermark[d][p] \in Nat
      /\ deletedRow[d][p] <= now /\ watermark[d][p] <= now
  BY TimeIsNat DEF IInv, TypeInv, DInv, MarksBacked
<1>3. DeletesGrow /\ lastDelete'[p] > 0
  BY <1>1, <1>2 DEF DeletesGrow
<1>4. /\ deletedRow'[d][p] = Greater(deletedRow[d][p], now)
      /\ watermark'[d][p] = Greater(watermark[d][p], now)
  BY <1>1 DEF IInv, TypeInv
<1>5. deletedRow'[d][p] <= now' /\ watermark'[d][p] <= now'
  BY <1>1, <1>2, <1>4 DEF Greater
<1>6. \A e \in Device, q \in Peer : e # d \/ q # p =>
        /\ deletedRow'[e][q] = deletedRow[e][q] /\ watermark'[e][q] = watermark[e][q]
        /\ mapping'[e][q] = mapping[e][q]
  BY <1>1 DEF IInv, TypeInv, Book
<1>7. MarksBacked'
  BY <1>3, <1>5, <1>6, MarksStayBacked DEF Mapped
<1>8. NoneLost
  BY <1>3, <1>6 DEF NoneLost, Mapped
<1>9. pass' = pass \/ Stop(d)
  BY DEF DeleteContact, DeleteInterrupted, Running
<1> QED
  BY <1>1, <1>3, <1>7, <1>8, <1>9, PassesUnmoved, PassesStopped, RelayStaysBacked, DInvHolds

(* A cleared history marks a peer that stays in the address book.          *)
LEMMA ClearBacked ==
  ASSUME IInv, DInv, NEW d \in Device, NEW p \in Peer, ClearHistory(d, p)
  PROVE  DInv' /\ NoneLost
<1>1. /\ Mapped(d, p)
      /\ watermark' = [watermark EXCEPT ![d][p] = Greater(@, now)]
      /\ UNCHANGED <<mapping, deletedRow, pass, relay, now, lastDelete>>
  BY DEF ClearHistory, Running, Elsewhere, history
<1>2. DeletesGrow
  BY <1>1, NoDeletion
<1>3. \A e \in Device, q \in Peer : Mapped(e, q)' <=> Mapped(e, q)
  BY <1>1 DEF Mapped
<1>4. watermark[d][p] \in Nat /\ watermark[d][p] <= now /\ now \in Nat
  BY TimeIsNat DEF IInv, TypeInv, DInv, MarksBacked
<1>5. watermark'[d][p] <= now'
  BY <1>1, <1>4 DEF Greater, IInv, TypeInv
<1>6. \A e \in Device, q \in Peer : e # d \/ q # p => watermark'[e][q] = watermark[e][q]
  BY <1>1 DEF IInv, TypeInv
<1>7. MarksBacked' /\ NoneLost
  BY <1>1, <1>2, <1>3, <1>5, <1>6, MarksStayBacked DEF NoneLost
<1> QED
  BY <1>1, <1>2, <1>7, PassesUnmoved, RelayStaysBacked, DInvHolds

LEMMA InitBacked == Init => DInv
<1> SUFFICES ASSUME Init
             PROVE  DInv
  OBVIOUS
<1>1. lastDelete \in [Peer -> Time] /\ now > 0
  BY TimeIsNat DEF Init
<1>2. MarksBacked
  BY DEF Init, MarksBacked
<1>3. PassesBacked
  BY IdleBacked DEF Init, PassesBacked
<1>4. ASSUME NEW d \in Device, relay = OldSnapshot(mapping[d])
      PROVE  Backed(relay.items, lastDelete, now)
  <2> DEFINE D == {q \in Peer : mapping[d][q] # NoMapping}
  <2>1. relay.items = [p \in D |-> EntryOf(mapping[d][p])]
    BY <1>4 DEF OldSnapshot
  <2>2. \A p \in D : ~EntryOf(mapping[d][p]).deleted
    BY DEF EntryOf, liveEntry
  <2> HIDE DEF D
  <2> QED
    BY <2>1, <2>2 DEF Backed
<1>5. RelayBacked
  BY <1>4 DEF Init, RelayBacked
<1> QED
  BY <1>1, <1>2, <1>3, <1>5 DEF DInv

LEMMA StepBacked ==
  ASSUME IInv, DInv, [Next]_vars
  PROVE  DInv' /\ NoneLost
<1>1. CASE SecondPasses
  BY <1>1, SecondBacked
<1>2. ASSUME NEW d \in Device, Crash(d) \/ QueueRerun(d)
      PROVE  DInv' /\ NoneLost
  BY <1>2, IdleStepsBacked
<1>3. ASSUME NEW d \in Device, NEW k \in PassKind, PassStep(d, k) \/ FetchUnavailable(d, k)
      PROVE  DInv' /\ NoneLost
  BY <1>3, ReadBacked, FetchAbsentBacked, FetchOkBacked, WriteBacked, PassEndsBacked,
     ApplyDeleteBacked, ApplyAddBacked, ApplyPinBacked, ApplyUpdateBacked
     DEF PassStep, ApplyStep
<1>4. ASSUME NEW d \in Device, NEW p \in Peer, UserAct(d, p) \/ InboundStored(d, p)
      PROVE  DInv' /\ NoneLost
  BY <1>4, AddBacked, RenameBacked, ProfileBacked, DeleteBacked, ClearBacked, IdleStepsBacked
     DEF UserAct
<1>5. CASE UNCHANGED vars
  <2>1. UNCHANGED stores /\ UNCHANGED <<pass, relay, now, lastDelete>>
    BY <1>5 DEF vars, history
  <2>2. DeletesGrow
    BY <2>1, NoDeletion
  <2> QED
    BY <2>1, <2>2, PassesUnmoved, StoresAlone, RelayStaysBacked, DInvHolds
<1> QED
  BY <1>1, <1>2, <1>3, <1>4, <1>5 DEF Next

LEMMA InductiveBacked == Spec => [](IInv /\ DInv)
<1>1. Init => IInv /\ DInv
  BY InitStep, InitBacked
<1>2. IInv /\ DInv /\ [Next]_vars => DInv'
  BY StepBacked
<1> QED
  BY <1>1, <1>2, Inductive, PTL DEF Spec

(* "Absence never means delete" (sync-crdt.ts): whatever passes, crashes,  *)
(* cleared histories and messages interleave on whatever devices, the step *)
(* that takes a contact out of an address book (read()'s tear-down, a      *)
(* merged delete, the user) is of a contact the user deleted somewhere.    *)
THEOREM RemovalsAreDeletions == Spec => RemovalIsDeleted
<1>1. IInv /\ DInv /\ [Next]_vars =>
        [\A d \in Device, p \in Peer :
           (Mapped(d, p) /\ ~Mapped(d, p)') => lastDelete'[p] > 0]_vars
  BY StepBacked DEF NoneLost
<1> QED
  BY <1>1, InductiveBacked, PTL DEF RemovalIsDeleted, Spec

-----------------------------------------------------------------------------
(* Deletion rows.  A deletion that read() found is in the map the pass     *)
(* carries, so an entry it has left to apply is alive over that deletion   *)
(* only on a later deliberate add.                                         *)
RevivedForAdd(run, add) ==
  run.phase = "apply" =>
    \A p \in run.todo :
      (~run.merged[p].deleted /\ p \in DOMAIN run.local /\ run.local[p].deleted) =>
        run.local[p].updatedAt <= add[p]

QInv == \A d \in Device, k \in PassKind : RevivedForAdd(pass[d][k], lastAdd)

DroppedForAdd ==
  \A d \in Device, p \in Peer :
    (deletedRow[d][p] > 0 /\ deletedRow'[d][p] = 0) =>
      \/ lastAdd'[p] >= deletedRow[d][p]
      \/ \E k \in PassKind : ReadBeforeRow(d, k, p)

LEMMA StillRevivedForAdd ==
  ASSUME IInv, QInv, Raised, NEW d \in Device, NEW k \in PassKind
  PROVE  RevivedForAdd(pass[d][k], lastAdd')
<1> DEFINE run == pass[d][k]
<1> SUFFICES ASSUME run.phase = "apply", NEW p \in run.todo,
                    ~run.merged[p].deleted, p \in DOMAIN run.local, run.local[p].deleted
             PROVE  run.local[p].updatedAt <= lastAdd'[p]
  BY DEF RevivedForAdd
<1>1. run.local \in View /\ run.todo \subseteq Peer
  BY RunFacts
<1>2. run.local[p].updatedAt \in Nat
  <2>1. run.local[p] \in Entry
    BY <1>1 DEF View
  <2> QED
    BY <2>1, TimeIsNat DEF Entry
<1>3. run.local[p].updatedAt <= lastAdd[p]
  BY DEF QInv, RevivedForAdd
<1>4. lastAdd[p] \in Nat /\ lastAdd'[p] \in Nat /\ lastAdd[p] <= lastAdd'[p]
  BY <1>1, TimeIsNat DEF IInv, TypeInv, Raised
<1> QED
  BY <1>2, <1>3, <1>4

(* Passes that stand where they stood, or start over.                      *)
LEMMA PassesKeep ==
  ASSUME IInv, QInv, Raised,
         \A d \in Device, k \in PassKind :
           pass'[d][k] = pass[d][k] \/ RevivedForAdd(pass'[d][k], lastAdd')
  PROVE  QInv'
BY StillRevivedForAdd DEF QInv

LEMMA StoppedKeeps ==
  ASSUME IInv, QInv, Raised, NEW d \in Device, Stop(d)
  PROVE  QInv'
<1>1. ASSUME NEW e \in Device, NEW k \in PassKind
      PROVE  pass'[e][k] = pass[e][k] \/ pass'[e][k] = Idle
  BY DEF Stop, IInv, TypeInv
<1>2. RevivedForAdd(Idle, lastAdd')
  BY DEF RevivedForAdd, Idle
<1> QED
  BY <1>1, <1>2, PassesKeep

LEMMA PassMovedKeeps ==
  ASSUME IInv, QInv, lastAdd' = lastAdd, NEW d \in Device, NEW k \in PassKind,
         NEW run, SetPass(d, k, run), RevivedForAdd(run, lastAdd)
  PROVE  QInv'
<1>1. ASSUME NEW e \in Device, NEW j \in PassKind
      PROVE  pass'[e][j] = pass[e][j] \/ pass'[e][j] = run
  BY DEF SetPass, IInv, TypeInv
<1> QED
  BY <1>1, NotRaised, PassesKeep

(* A merged entry is alive again only on an add later than the deletion.   *)
LEMMA RevivedByAdd ==
  ASSUME NEW a \in Entry, NEW b \in Entry, a.deleted, ~mergeEntry(a, b).deleted
  PROVE  ~b.deleted /\ mergeEntry(a, b) = b /\ b.stamp > a.updatedAt
BY DEF mergeEntry, LaterTombstone, TombstoneOrLive

LEMMA FetchOkKeeps ==
  ASSUME IInv, QInv, NEW d \in Device, NEW k \in PassKind, FetchOk(d, k)
  PROVE  QInv'
<1> DEFINE local  == pass[d][k].local
           merged == mergeMaps(local, relay.items)
           write  == MustWrite(merged, relay)
           run    == [phase |-> "apply", local |-> local, merged |-> merged,
                      stored |-> mapping[d], todo |-> DOMAIN merged,
                      pinning |-> NoPeer, write |-> write]
<1>1. local \in View /\ lastAdd' = lastAdd
  BY RunFacts DEF FetchOk, Phase, history
<1>2. relay.items \in View /\ Within(relay.items, lastAdd)
  BY DEF FetchOk, IInv, TypeInv, StampInv, RelayWithin, Snapshot
<1>3. ASSUME NEW p \in DOMAIN merged, ~merged[p].deleted,
             p \in DOMAIN local, local[p].deleted
      PROVE  local[p].updatedAt <= lastAdd[p]
  <2>1. p \in DOMAIN relay.items /\ merged[p] = mergeEntry(local[p], relay.items[p])
    BY <1>3 DEF mergeMaps
  <2>2. local[p] \in Entry /\ relay.items[p] \in Entry
    BY <1>1, <1>2, <1>3, <2>1 DEF View
  <2>3. ~relay.items[p].deleted /\ relay.items[p].stamp > local[p].updatedAt
    <3> HIDE DEF local, merged
    <3> QED
      BY <1>3, <2>1, <2>2, RevivedByAdd
  <2>4. relay.items[p].stamp <= lastAdd[p] /\ p \in Peer
    BY <1>2, <2>1, <2>3 DEF Within, View
  <2>5. /\ relay.items[p].stamp \in Nat /\ local[p].updatedAt \in Nat
        /\ lastAdd[p] \in Nat
    <3> HIDE DEF local
    <3> QED
      BY <2>2, <2>3, <2>4, TimeIsNat DEF Entry, IInv, TypeInv
  <2> HIDE DEF local, merged
  <2> QED
    BY <2>3, <2>4, <2>5
<1>4. CASE differs(merged, local)
  <2>1. SetPass(d, k, run)
    BY <1>4 DEF FetchOk
  <2>2. run.todo = DOMAIN merged /\ run.merged = merged /\ run.local = local
    OBVIOUS
  <2> HIDE DEF run, merged, local
  <2>3. RevivedForAdd(run, lastAdd)
    BY <1>3, <2>2 DEF RevivedForAdd
  <2> QED
    BY <1>1, <2>1, <2>3, PassMovedKeeps
<1>5. CASE ~differs(merged, local)
  <2>1. SetPass(d, k, AfterApply(merged, write))
    BY <1>5 DEF FetchOk
  <2>2. RevivedForAdd(AfterApply(merged, write), lastAdd)
    BY DEF RevivedForAdd, AfterApply, Idle
  <2> HIDE DEF merged, write
  <2> QED
    BY <1>1, <2>1, <2>2, PassMovedKeeps
<1> QED
  BY <1>4, <1>5

(* apply() works on the map it merged: what is left to do is less.         *)
LEMMA ApplyStepKeeps ==
  ASSUME IInv, QInv, NEW d \in Device, NEW k \in PassKind, NEW p \in Peer,
         ApplyDelete(d, k, p) \/ ApplyAdd(d, k, p) \/ ApplyPin(d, k, p) \/ ApplyUpdate(d, k, p)
  PROVE  QInv'
<1> DEFINE run    == pass[d][k]
           less   == [run EXCEPT !.todo = @ \ {p}, !.pinning = NoPeer]
           pinned == [run EXCEPT !.pinning = p]
           done   == AfterApply(run.merged, run.write)
<1>1. lastAdd' = lastAdd /\ run.phase = "apply"
  BY DEF ApplyDelete, ApplyAdd, ApplyPin, ApplyUpdate, Applying, Phase, history
<1>2. SetPass(d, k, less) \/ SetPass(d, k, pinned) \/ SetPass(d, k, done)
  BY DEF ApplyDelete, ApplyAdd, ApplyPin, ApplyUpdate, EntryApplied
<1>3. run \in [phase : {"apply"}, local : View, merged : View, stored : Book,
               todo : SUBSET Peer, pinning : Peer \cup {NoPeer}, write : BOOLEAN]
  BY <1>1, RunFacts
<1>4. /\ less.phase = "apply" /\ less.local = run.local /\ less.merged = run.merged
      /\ less.todo = run.todo \ {p}
      /\ pinned.phase = "apply" /\ pinned.local = run.local /\ pinned.merged = run.merged
      /\ pinned.todo = run.todo
  BY <1>3
<1>5. RevivedForAdd(run, lastAdd)
  BY DEF QInv
<1>6. RevivedForAdd(done, lastAdd)
  BY DEF RevivedForAdd, AfterApply, Idle
<1> HIDE DEF run, less, pinned, done
<1>7. RevivedForAdd(less, lastAdd) /\ RevivedForAdd(pinned, lastAdd)
  BY <1>1, <1>4, <1>5 DEF RevivedForAdd
<1> QED
  BY <1>1, <1>2, <1>6, <1>7, PassMovedKeeps

(* The other steps of a pass leave nothing to apply.                       *)
LEMMA PassStepKeeps ==
  ASSUME IInv, QInv, NEW d \in Device, NEW k \in PassKind,
         PassStep(d, k) \/ FetchUnavailable(d, k)
  PROVE  QInv'
<1>1. ASSUME NEW j \in PassKind, NEW run, SetPass(d, j, run), run.phase # "apply",
             lastAdd' = lastAdd
      PROVE  QInv'
  BY <1>1, PassMovedKeeps DEF RevivedForAdd
<1>2. CASE Read(d, k)
  <2> DEFINE run == [phase |-> "fetch", local |-> LocalMap(d)]
  <2>1. SetPass(d, k, run) /\ lastAdd' = lastAdd
    BY <1>2 DEF Read, history
  <2>2. run.phase # "apply"
    OBVIOUS
  <2> HIDE DEF run
  <2> QED
    BY <1>1, <2>1, <2>2
<1>3. CASE FetchOk(d, k)
  BY <1>3, FetchOkKeeps
<1>4. CASE FetchAbsent(d, k)
  <2> DEFINE local == pass[d][k].local
             run   == IF k = "reconcile" /\ DOMAIN local = {} THEN Idle
                      ELSE [phase |-> "write", merged |-> local]
  <2>1. SetPass(d, k, run) /\ lastAdd' = lastAdd
    BY <1>4 DEF FetchAbsent, history
  <2>2. run.phase # "apply"
    BY DEF Idle
  <2> HIDE DEF run
  <2> QED
    BY <1>1, <2>1, <2>2
<1>5. CASE Write(d, k)
  <2> DEFINE run == IF k = "publish"
                    THEN [phase |-> "verify", merged |-> pass[d][k].merged] ELSE Idle
  <2>1. SetPass(d, k, run) /\ lastAdd' = lastAdd
    BY <1>5 DEF Write, history
  <2>2. run.phase # "apply"
    BY DEF Idle
  <2> HIDE DEF run
  <2> QED
    BY <1>1, <2>1, <2>2
<1>6. CASE FetchUnavailable(d, k) \/ Verify(d)
  <2>1. /\ SetPass(d, k, Idle) \/ SetPass(d, "publish", Idle)
        /\ lastAdd' = lastAdd /\ "publish" \in PassKind
    BY <1>6 DEF FetchUnavailable, Verify, Abandon, PassKind, history
  <2>2. Idle.phase # "apply"
    BY DEF Idle
  <2> QED
    BY <1>1, <2>1, <2>2
<1>7. CASE ApplyStep(d, k)
  BY <1>7, ApplyStepKeeps DEF ApplyStep
<1> QED
  BY <1>2, <1>3, <1>4, <1>5, <1>6, <1>7 DEF PassStep

LEMMA ActRaises ==
  ASSUME IInv, NEW d \in Device, NEW p \in Peer, UserAct(d, p)
  PROVE  Raised
<1>1. CASE AddContact(d, p) \/ AddInterrupted(d, p)
  <2>1. (\E n \in Name \cup {NoName} : Added(d, p, n)) /\ now' = now
    BY <1>1 DEF AddContact, AddInterrupted, Elsewhere
  <2> QED
    BY <2>1, AddedType
<1>2. CASE ~(AddContact(d, p) \/ AddInterrupted(d, p))
  <2>1. lastAdd' = lastAdd
    BY <1>2 DEF UserAct, DeleteContact, DeleteInterrupted, Deleted, ClearHistory,
       RenameContact, RefreshProfile, InboundAdmitted, history
  <2> QED
    BY <2>1, NotRaised
<1> QED
  BY <1>1, <1>2

LEMMA StepKeeps ==
  ASSUME IInv, QInv, [Next]_vars
  PROVE  QInv'
<1>1. ASSUME Raised, pass' = pass
      PROVE  QInv'
  BY <1>1, PassesKeep
<1>2. CASE SecondPasses \/ UNCHANGED vars
  BY <1>1, <1>2, NotRaised DEF SecondPasses, vars, stores, history
<1>3. ASSUME NEW d \in Device, QueueRerun(d)
      PROVE  QInv'
  BY <1>1, <1>3, NotRaised DEF QueueRerun, stores, history
<1>4. ASSUME NEW d \in Device, Crash(d)
      PROVE  QInv'
  BY <1>4, NotRaised, StoppedKeeps DEF Crash, stores, history
<1>5. ASSUME NEW d \in Device, NEW k \in PassKind, PassStep(d, k) \/ FetchUnavailable(d, k)
      PROVE  QInv'
  BY <1>5, PassStepKeeps
<1>6. ASSUME NEW d \in Device, NEW p \in Peer, UserAct(d, p)
      PROVE  QInv'
  <2>1. Raised
    BY <1>6, ActRaises
  <2>2. pass' = pass \/ Stop(d)
    BY <1>6 DEF UserAct, AddContact, AddInterrupted, DeleteContact, DeleteInterrupted,
       ClearHistory, RenameContact, RefreshProfile, InboundAdmitted, Running
  <2> QED
    BY <1>1, <2>1, <2>2, StoppedKeeps
<1>7. ASSUME NEW d \in Device, NEW p \in Peer, InboundStored(d, p)
      PROVE  QInv'
  BY <1>1, <1>7, NotRaised DEF InboundStored, history
<1> QED
  BY <1>2, <1>3, <1>4, <1>5, <1>6, <1>7 DEF Next

-----------------------------------------------------------------------------
(* The steps that drop a row.                                              *)
LEMMA ReadDrops ==
  ASSUME IInv, NEW d \in Device, NEW k \in PassKind, Read(d, k),
         NEW e \in Device, NEW p \in Peer, deletedRow[e][p] > 0, deletedRow'[e][p] = 0
  PROVE  lastAdd'[p] >= deletedRow[e][p]
<1>1. /\ lastAdd' = lastAdd
      /\ deletedRow' = [deletedRow EXCEPT ![d] =
           [q \in Peer |-> IF Mapped(d, q) /\ ~Outranked(d, q) THEN 0 ELSE @[q]]]
  BY DEF Read, Healed, history
<1>2. /\ deletedRow[d][p] \in Nat
      /\ deletedRow'[d][p] = IF Mapped(d, p) /\ ~Outranked(d, p) THEN 0 ELSE deletedRow[d][p]
  <2>1. deletedRow \in [Device -> [Peer -> Time]]
    BY DEF IInv, TypeInv
  <2>2. deletedRow'[d] =
          [q \in Peer |-> IF Mapped(d, q) /\ ~Outranked(d, q) THEN 0 ELSE deletedRow[d][q]]
    BY <1>1, <2>1
  <2> QED
    BY <2>1, <2>2, TimeIsNat
<1>3. e = d
  BY <1>1 DEF IInv, TypeInv
<1>4. Mapped(d, p) /\ ~Outranked(d, p)
  BY <1>2, <1>3
<1>5. DeleteStamp(d, p) = deletedRow[d][p]
  BY <1>4 DEF DeleteStamp
<1>6. mapping[d][p] \in Mapping /\ mapping[d][p].stamp <= lastAdd[p]
  BY <1>4 DEF IInv, TypeInv, Book, StampInv, BooksWithin, Mapped
<1>7. lastAdd[p] \in Nat /\ mapping[d][p].stamp \in Nat
  BY <1>6, TimeIsNat DEF IInv, TypeInv, Mapping
<1>8. mapping[d][p].stamp > deletedRow[d][p]
  BY <1>2, <1>3, <1>4, <1>5, <1>7 DEF Outranked
<1> QED
  BY <1>1, <1>2, <1>3, <1>6, <1>7, <1>8

LEMMA ApplyAddDrops ==
  ASSUME IInv, QInv, NEW d \in Device, NEW k \in PassKind, NEW p \in Peer, ApplyAdd(d, k, p),
         ~ReadBeforeRow(d, k, p)
  PROVE  lastAdd'[p] >= deletedRow[d][p]
<1> DEFINE run == pass[d][k]
<1>1. /\ run.phase = "apply" /\ p \in run.todo /\ ~run.merged[p].deleted /\ lastAdd' = lastAdd
  BY DEF ApplyAdd, Applying, Phase, history
<1>2. /\ p \in DOMAIN run.local /\ run.local[p].deleted
      /\ ~(run.local[p].updatedAt < deletedRow[d][p])
  BY <1>1 DEF ReadBeforeRow
<1>3. run.local[p].updatedAt <= lastAdd[p]
  BY <1>1, <1>2 DEF QInv, RevivedForAdd
<1>4. run.local[p] \in Entry
  BY <1>1, <1>2, RunFacts DEF View
<1>5. run.local[p].updatedAt \in Nat /\ lastAdd[p] \in Nat /\ deletedRow[d][p] \in Nat
  BY <1>4, TimeIsNat DEF Entry, IInv, TypeInv
<1> QED
  BY <1>1, <1>2, <1>3, <1>5

LEMMA StepDrops ==
  ASSUME IInv, DInv, QInv, [Next]_vars
  PROVE  DroppedForAdd
<1> SUFFICES ASSUME NEW e \in Device, NEW q \in Peer,
                    deletedRow[e][q] > 0, deletedRow'[e][q] = 0
             PROVE  \/ lastAdd'[q] >= deletedRow[e][q]
                    \/ \E k \in PassKind : ReadBeforeRow(e, k, q)
  BY DEF DroppedForAdd
<1>1. /\ deletedRow[e][q] \in Nat /\ now \in Nat /\ deletedRow[e][q] <= now
      /\ deletedRow \in [Device -> [Peer -> Time]] /\ lastAdd \in [Peer -> Time]
  BY TimeIsNat DEF IInv, TypeInv, DInv, MarksBacked
<1>2. ASSUME NEW d \in Device, NEW p \in Peer, NEW at \in Nat,
             deletedRow' = [deletedRow EXCEPT ![d][p] = Greater(@, at)]
      PROVE  FALSE
  <2>1. e = d /\ q = p
    BY <1>1, <1>2
  <2>2. deletedRow'[e][q] = Greater(deletedRow[e][q], at)
    BY <1>1, <1>2, <2>1
  <2> QED
    BY <1>1, <2>2 DEF Greater
<1>3. ASSUME NEW d \in Device, NEW k \in PassKind, NEW p \in Peer, ApplyDelete(d, k, p)
      PROVE  FALSE
  <2> DEFINE at == pass[d][k].merged[p].updatedAt
  <2>1. Applying(d, k, p) /\ deletedRow' = [deletedRow EXCEPT ![d][p] = Greater(@, at)]
    BY <1>3 DEF ApplyDelete
  <2>2. at \in Nat
    BY <2>1, EntryFacts, TimeIsNat
  <2> HIDE DEF at
  <2> QED
    BY <1>2, <2>1, <2>2
<1>4. ASSUME NEW d \in Device, NEW k \in PassKind, NEW p \in Peer, ApplyAdd(d, k, p)
      PROVE  lastAdd'[q] >= deletedRow[e][q] \/ ReadBeforeRow(e, k, q)
  <2>1. deletedRow' = [deletedRow EXCEPT ![d][p] = 0]
    BY <1>4 DEF ApplyAdd
  <2>2. e = d /\ q = p
    BY <1>1, <2>1
  <2> QED
    BY <1>4, <2>2, ApplyAddDrops
<1>5. ASSUME NEW d \in Device, NEW p \in Peer, UserAct(d, p)
      PROVE  lastAdd'[q] >= deletedRow[e][q]
  <2>1. \/ deletedRow' = deletedRow
        \/ deletedRow' = [deletedRow EXCEPT ![d][p] = Greater(@, now)]
        \/ /\ deletedRow' = [deletedRow EXCEPT ![d][p] = 0]
           /\ \E n \in Name \cup {NoName} : Added(d, p, n)
    BY <1>5 DEF UserAct, AddContact, AddInterrupted, DeleteContact, DeleteInterrupted, Deleted,
       ClearHistory, RenameContact, RefreshProfile, InboundAdmitted, stores
  <2>2. CASE /\ deletedRow' = [deletedRow EXCEPT ![d][p] = 0]
             /\ \E n \in Name \cup {NoName} : Added(d, p, n)
    <3>1. e = d /\ q = p
      BY <1>1, <2>2
    <3>2. lastAdd'[p] = now
      BY <1>1, <2>2 DEF Added
    <3> QED
      BY <1>1, <3>1, <3>2
  <2> QED
    BY <1>1, <1>2, <2>1, <2>2
<1>6. CASE deletedRow' = deletedRow
  BY <1>6
<1>7. CASE deletedRow' # deletedRow
  <2>1. \/ \E d \in Device, k \in PassKind : Read(d, k)
        \/ \E d \in Device, k \in PassKind, p \in Peer : ApplyDelete(d, k, p)
        \/ \E d \in Device, k \in PassKind, p \in Peer : ApplyAdd(d, k, p)
        \/ \E d \in Device, p \in Peer : UserAct(d, p)
    <3>1. ASSUME NEW d \in Device, NEW k \in PassKind,
                 \/ FetchAbsent(d, k) \/ FetchUnavailable(d, k) \/ FetchOk(d, k)
                 \/ Write(d, k) \/ Verify(d)
          PROVE  FALSE
      BY <1>7, <3>1 DEF FetchAbsent, FetchUnavailable, FetchOk, Write, Verify, stores
    <3>2. ASSUME NEW d \in Device, NEW k \in PassKind, NEW p \in Peer,
                 \/ ApplyPin(d, k, p) \/ ApplyUpdate(d, k, p) \/ InboundStored(d, p)
          PROVE  FALSE
      BY <1>7, <3>2 DEF ApplyPin, ApplyUpdate, InboundStored
    <3>3. ASSUME NEW d \in Device, Crash(d) \/ QueueRerun(d)
          PROVE  FALSE
      BY <1>7, <3>3 DEF Crash, QueueRerun, stores
    <3>4. ~(SecondPasses \/ UNCHANGED vars)
      BY <1>7 DEF SecondPasses, stores, vars
    <3>5. PassKind # {}
      BY DEF PassKind
    <3> QED
      BY <3>1, <3>2, <3>3, <3>4, <3>5 DEF Next, PassStep, ApplyStep
  <2> QED
    BY <1>3, <1>4, <1>5, <2>1, ReadDrops
<1> QED
  BY <1>6, <1>7

(* "Only two callers are legitimate" (virtual-peers-db.ts): whatever acts  *)
(* and passes of both kinds interleave, a durable deletion row is dropped  *)
(* - by read(), by the sync path of addP2PContact, by the user - only for  *)
(* a deliberate add no earlier than it, or by a pass whose read() came     *)
(* before the row: the one way the code loses a deletion.                  *)
THEOREM RowsGoForAdds == Spec => RowDroppedForAdd
<1>1. Init => QInv
  BY DEF Init, QInv, RevivedForAdd, Idle
<1>2. IInv /\ DInv /\ QInv /\ [Next]_vars => QInv'
  BY StepKeeps
<1>3. IInv /\ DInv /\ QInv /\ [Next]_vars =>
        [\A d \in Device, p \in Peer :
           (deletedRow[d][p] > 0 /\ deletedRow'[d][p] = 0) =>
             \/ lastAdd'[p] >= deletedRow[d][p]
             \/ \E k \in PassKind : ReadBeforeRow(d, k, p)]_vars
  BY StepDrops DEF DroppedForAdd
<1> QED
  BY <1>1, <1>2, <1>3, InductiveBacked, PTL DEF RowDroppedForAdd, Spec
=============================================================================

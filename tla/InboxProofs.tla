----------------------------- MODULE InboxProofs -----------------------------
(***************************************************************************)
(* Theorems about the inbound half of the relay pool, for every number of  *)
(* relays and wraps, every window, page size and retry limit: what the     *)
(* types are, that no claim is left behind, that the watermark is the time *)
(* of a handled message, and that no rumor has two handlers.               *)
(***************************************************************************)
EXTENDS Inbox, SequenceFacts, FiniteSetTheorems

Unwrapping(w) == unwrapping[w] # None

(* A wrap in the unwrap worker is claimed and has retries left; a wrap     *)
(* without retries stays claimed.                                          *)
Claims ==
  /\ \A w \in Wraps : Unwrapping(w) => w \in claimed /\ failures[w] < RetryLimit
  /\ \A w \in Wraps : failures[w] >= RetryLimit => w \in claimed

(* Messages and unwraps of a walk belong to its phase.                     *)
Gathering == {"asking", "unwrapping"}

Walking ==
  \A k \in Walks :
    /\ walk[k].phase \notin Gathering => walk[k].got = <<>>
    /\ walk[k].phase # "unwrapping" => \A w \in Wraps : unwrapping[w] # k
    /\ walk[k].phase # "dispatching" => queue[k] = <<>>

(* Messages wait in held until a consumer registers, and then in a lane of *)
(* their own; what waits there or is in the handler passed the seen check. *)
Handling ==
  /\ ~ attached => busy = {} /\ queue["held"] = <<>>
  /\ attached => held = <<>>
  /\ \A l \in busy : queue[l] # <<>> /\ Rumor[Head(queue[l])] \in known
  /\ \A w \in Range(held) \cup Range(queue["held"]) : Rumor[w] \in known

(* No two of them are of one rumor.                                        *)
OneOfEach(s) == \A i, j \in DOMAIN s : Rumor[s[i]] = Rumor[s[j]] => i = j

Apart ==
  /\ OneOfEach(held) /\ OneOfEach(queue["held"])
  /\ \A l \in busy \ {"held"} :
       /\ \A k \in busy \ {"held", l} : Rumor[Head(queue[l])] # Rumor[Head(queue[k])]
       /\ \A w \in Range(queue["held"]) : Rumor[Head(queue[l])] # Rumor[w]

-----------------------------------------------------------------------------
(* The parts of the type invariant.                                        *)
NetTypes ==
  /\ published \subseteq Wraps /\ relayHas \in [Relays -> SUBSET Wraps]
  /\ up \subseteq Relays /\ everUp \subseteq Relays /\ stream \in [Relays -> Message]

DiskTypes ==
  /\ disk \in [watermark : Nat, open : BOOLEAN, cursor : Nat]
  /\ saved \cup dropped \subseteq Wraps
  /\ deepWalked \in BOOLEAN

ClaimTypes ==
  /\ claimed \subseteq Wraps /\ refetch \subseteq Wraps
  /\ failures \in [Wraps -> 0..RetryLimit]
  /\ unwrapping \in [Wraps -> {"live", "stray", "lost", None} \cup Walks]
  /\ asking \in [ids : SUBSET Wraps, todo : SUBSET Relays]

LaneTypes ==
  /\ known \subseteq Wraps
  /\ queue \in [Lanes -> Message] /\ busy \subseteq Lanes /\ held \in Message
  /\ attached \in BOOLEAN

BoundTypes == failed \in 0..MaxFailures /\ faults \in 0..MaxFaults

LEMMA TypeParts ==
  TypeOK <=> /\ NetTypes /\ DiskTypes /\ ClaimTypes /\ LaneTypes /\ BoundTypes
             /\ walk \in [Walks -> Walk]
BY DEF TypeOK, NetTypes, DiskTypes, ClaimTypes, LaneTypes, BoundTypes

-----------------------------------------------------------------------------
(* The constants.                                                          *)
LEMMA WrapFacts ==
  /\ Wraps = 1..Len(Stamp) /\ Len(Stamp) \in Nat
  /\ Wraps \subseteq Nat /\ IsFiniteSet(Wraps)
  /\ \A w \in Wraps : /\ Stamp[w] \in Nat \ {0}
                      /\ Rumor[w] \in Wraps
                      /\ Stamp[w] <= Stamp[Len(Stamp)]
<1>1. Stamp \in Seq(Nat \ {0}) /\ Rumor \in [Wraps -> Wraps]
  BY InboxAssumption
<1>2. Wraps = 1..Len(Stamp) /\ Len(Stamp) \in Nat
  BY <1>1 DEF Wraps
<1>3. IsFiniteSet(Wraps)
  BY <1>2, FS_Interval
<1>4. ASSUME NEW w \in Wraps
      PROVE  Stamp[w] \in Nat \ {0} /\ Rumor[w] \in Wraps /\ Stamp[w] <= Stamp[Len(Stamp)]
  <2>1. Len(Stamp) \in Wraps /\ w <= Len(Stamp)
    BY <1>2
  <2>2. QED
    BY <1>1, <1>2, <2>1, InboxAssumption
<1>5. QED
  BY <1>2, <1>3, <1>4

LEMMA LaneFacts ==
  /\ "live" \in Lanes /\ "held" \in Lanes /\ "poll" \in Walks
  /\ Walks \subseteq Lanes /\ Relays \subseteq Walks
  /\ {"live", "held", "stray", "lost", None} \cap Walks = {}
  /\ None \notin {"live", "held", "poll", "stray", "lost"}
  /\ "poll" \notin Relays
BY InboxAssumption DEF Lanes, Walks

LEMMA LimitFacts ==
  /\ Fuzz \in Nat /\ Recent \in Nat /\ PageLimit \in Nat /\ MaxPages \in Nat /\ RetryLimit \in Nat
  /\ PageLimit > 1 /\ MaxPages > 0 /\ RetryLimit > 0
  /\ MaxFailures \in Nat /\ MaxFaults \in Nat
  /\ Backlog \subseteq Wraps /\ Corrupt \subseteq Wraps
BY InboxAssumption

-----------------------------------------------------------------------------
(* The operators.                                                          *)
LEMMA NewestFirstType ==
  ASSUME NEW S \in SUBSET Wraps
  PROVE  NewestFirst(S) \in Message
<1> DEFINE n == Cardinality(S)
           Descends(s) == \A i, j \in DOMAIN s : i < j => s[i] > s[j]
<1>1. S \in SUBSET Nat /\ IsFiniteSet(S)
  BY WrapFacts, FS_Subset
<1>2. n \in Nat
  BY <1>1, FS_CardinalityType
<1>3. PICK u : Sorted(S, u)
  BY <1>1, SortedExists
<1>4. u \in [1..n -> S] /\ \A i, j \in 1..n : i < j => u[i] < u[j]
  BY <1>3 DEF Sorted
<1> DEFINE d == [i \in 1..n |-> u[n + 1 - i]]
<1>5. d \in [1..n -> S] /\ Descends(d)
  <2> HIDE DEF n
  <2>1. \A i \in 1..n : n + 1 - i \in 1..n /\ d[i] = u[n + 1 - i] /\ d[i] \in S
    BY <1>2, <1>4
  <2>2. ASSUME NEW i \in 1..n, NEW j \in 1..n, i < j PROVE d[i] > d[j]
    <3>1. n + 1 - j < n + 1 - i
      BY <1>2, <2>2
    <3>2. u[n + 1 - j] < u[n + 1 - i]
      BY <1>4, <2>1, <3>1
    <3>3. d[i] \in Nat /\ d[j] \in Nat
      BY <1>1, <2>1
    <3>4. QED
      BY <2>1, <3>2, <3>3
  <2>3. DOMAIN d = 1..n
    OBVIOUS
  <2>4. QED
    BY <2>1, <2>2, <2>3
<1>6. NewestFirst(S) \in [1..n -> S]
  <2> HIDE DEF d
  <2>1. NewestFirst(S) = CHOOSE s \in [1..n -> S] : Descends(s)
    BY DEF NewestFirst
  <2> HIDE DEF n, Descends
  <2>2. QED
    BY <1>5, <2>1
<1>7. QED
  BY <1>2, <1>6 DEF Message

LEMMA NewestFacts ==
  ASSUME NEW S, NEW n
  PROVE  Newest(S, n) \subseteq S
BY DEF Newest

LEMMA CatchUpSinceType ==
  ASSUME DiskTypes
  PROVE  CatchUpSince \in Nat
<1>1. disk.watermark \in Nat /\ Fuzz \in Nat
  BY LimitFacts DEF DiskTypes
<1>2. QED
  BY <1>1 DEF CatchUpSince

LEMMA WindowSinceType ==
  ASSUME NetTypes, DiskTypes
  PROVE  WindowSince \in Nat
<1> DEFINE T == {Stamp[w] : w \in published} \cup {0}
           now == Max(T)
           window == Max({0, now - Recent})
<1>1. T \subseteq Nat /\ T # {} /\ \A y \in T : y \in Nat
  BY WrapFacts DEF NetTypes
<1>2. \E n \in Nat : \A y \in T : y <= n
  <2>1. CASE published = {}
    BY <2>1
  <2>2. CASE published # {}
    <3>1. Stamp[Len(Stamp)] \in Nat
      <4>1. PICK w \in Wraps : TRUE
        BY <2>2 DEF NetTypes
      <4>2. Len(Stamp) \in Wraps
        BY <4>1, WrapFacts
      <4>3. QED
        BY <4>2, WrapFacts
    <3>2. \A y \in T : y <= Stamp[Len(Stamp)]
      BY <3>1, WrapFacts DEF NetTypes
    <3>3. QED
      BY <3>1, <3>2
  <2>3. QED
    BY <2>1, <2>2
<1>3. now \in Nat
  <2> HIDE DEF T
  <2>1. QED
    BY <1>1, <1>2, MaxIsGreatest
<1> HIDE DEF now
<1>4. window \in Nat
  <2>1. now - Recent \in Int /\ 0 \in Int
    BY <1>3, LimitFacts
  <2>2. window \in {0, now - Recent} /\ window >= 0
    BY <2>1, MaxOfTwo
  <2> HIDE DEF window
  <2>3. QED
    BY <2>1, <2>2
<1> HIDE DEF window
<1>5. Min({window, CatchUpSince}) \in Nat
  <2>1. {window, CatchUpSince} \subseteq Nat /\ {window, CatchUpSince} # {}
    BY <1>4, CatchUpSinceType
  <2>2. QED
    BY <2>1, MinIsLeast
<1>6. WindowSince = IF disk.watermark = 0 THEN (IF deepWalked THEN window ELSE 0)
                    ELSE Min({window, CatchUpSince})
  BY DEF WindowSince, window, now
<1>7. QED
  BY <1>4, <1>5, <1>6

-----------------------------------------------------------------------------
(* What a relay answers to a walk.                                         *)
Page == [got : SUBSET Wraps, until : Nat, outcome : {"open", "exhausted", "truncated"}]

LEMMA NextPageType ==
  ASSUME NetTypes, NEW r \in Relays, NEW since \in Nat, NEW last \in Page
  PROVE  NextPage(r, since, last) \in Page
<1> DEFINE page   == Newest(InRange(relayHas[r], since, last.until), PageLimit)
           oldest == Min({Stamp[w] : w \in page})
           Ended(outcome, until) ==
             [got |-> last.got \cup page, until |-> until, outcome |-> outcome]
<1>1. last.got \in SUBSET Wraps /\ last.until \in Nat
  BY DEF Page
<1>2. page \subseteq Wraps
  <2>1. InRange(relayHas[r], since, last.until) \subseteq Wraps
    BY DEF InRange, NetTypes
  <2>2. QED
    BY <2>1, NewestFacts
<1>3. ~ (Cardinality(page) < PageLimit) => oldest \in Nat
  <2> HIDE DEF page
  <2> SUFFICES ASSUME ~ (Cardinality(page) < PageLimit) PROVE oldest \in Nat
    OBVIOUS
  <2>1. page # {}
    <3>1. ASSUME page = {} PROVE FALSE
      <4>1. Cardinality(page) = 0
        BY <3>1, FS_EmptySet
      <4>2. QED
        BY <4>1, LimitFacts
    <3>2. QED
      BY <3>1
  <2> DEFINE T == {Stamp[w] : w \in page}
  <2>2. T \subseteq Nat /\ T # {}
    BY <1>2, <2>1, WrapFacts
  <2> HIDE DEF T
  <2>3. Min(T) \in Nat
    BY <2>2, MinIsLeast
  <2>4. QED
    BY <2>3 DEF T
<1> DEFINE full == ~ (Cardinality(page) < PageLimit)
           ended == {Ended("exhausted", 0), Ended("truncated", last.until)}
<1>4. ended \subseteq Page
  <2> HIDE DEF page
  <2>1. QED
    BY <1>1, <1>2 DEF Page
<1>5. full => Ended("exhausted", 0) \in Page /\ Ended("open", oldest) \in Page
  <2> HIDE DEF page, oldest
  <2>1. QED
    BY <1>1, <1>2, <1>3 DEF Page
<1>6. \/ NextPage(r, since, last) \in ended \cup {last}
      \/ full /\ NextPage(r, since, last) \in {Ended("exhausted", 0), Ended("open", oldest)}
  BY DEF NextPage
<1> HIDE DEF full, ended, oldest, page, Ended
<1>7. QED
  BY <1>4, <1>5, <1>6

LEMMA WalkedType ==
  ASSUME NetTypes, NEW r \in Relays, NEW since \in Nat, NEW until \in Nat
  PROVE  /\ Walked(r, since, until).got \in SUBSET Wraps
         /\ Walked(r, since, until).until \in Nat
         /\ Walked(r, since, until).outcome \in {"exhausted", "truncated"}
<1> DEFINE first == [got |-> {}, until |-> until, outcome |-> "open"]
           Paging(f) == f = [p \in 0..MaxPages |->
                               IF p = 0 THEN first ELSE NextPage(r, since, f[p - 1])]
           G == [last \in Page |-> NextPage(r, since, last)]
           pages == CHOOSE f : Paging(f)
<1>1. first \in Page
  BY DEF Page
<1>2. G \in [Page -> Page]
  BY NextPageType
<1>3. \E f : Paging(f)
  <2> HIDE DEF first, G
  <2>1. PICK f \in [0..MaxPages -> Page] : f[0] = first /\ \A n \in 1..MaxPages : f[n] = G[f[n - 1]]
    <3>1. MaxPages \in Nat
      BY LimitFacts
    <3>2. \E f \in [0..MaxPages -> Page] :
            f[0] = first /\ \A n \in 1..MaxPages : f[n] = G[f[n - 1]]
      <4> HIDE DEF Page
      <4>1. QED
        BY <1>1, <1>2, <3>1, IterationExists
    <3>3. QED
      BY <3>2
  <2>2. ASSUME NEW p \in 0..MaxPages
        PROVE  f[p] = IF p = 0 THEN first ELSE NextPage(r, since, f[p - 1])
    <3>1. CASE p = 0
      BY <2>1, <3>1
    <3>2. CASE p # 0
      <4>1. p \in 1..MaxPages /\ p - 1 \in 0..MaxPages
        BY <3>2, LimitFacts
      <4>2. f[p] = G[f[p - 1]] /\ f[p - 1] \in Page
        BY <2>1, <4>1
      <4>3. QED
        BY <3>2, <4>2 DEF G
    <3>3. QED
      BY <3>1, <3>2
  <2>3. f = [p \in 0..MaxPages |-> f[p]]
    BY <2>1
  <2>4. Paging(f)
    BY <2>2, <2>3
  <2> HIDE DEF Paging
  <2>5. QED
    BY <2>4
<1>4. Paging(pages)
  <2> HIDE DEF Paging
  <2>1. QED
    BY <1>3
<1> DEFINE final == pages[MaxPages]
<1>5. Walked(r, since, until) =
        IF final.outcome = "open" THEN [final EXCEPT !.outcome = "truncated"] ELSE final
  BY DEF Walked
<1> HIDE DEF pages
<1>6. final \in Page
  <2> DEFINE Bad == {p \in 0..MaxPages : pages[p] \notin Page}
  <2>1. Bad = {}
    <3> SUFFICES ASSUME Bad # {} PROVE FALSE
      OBVIOUS
    <3>1. PICK p \in Bad : \A q \in Bad : p <= q
      <4>1. Bad \subseteq Nat
        OBVIOUS
      <4> HIDE DEF Bad
      <4>2. QED
        BY <4>1, LeastNatural
    <3>2. p \in 0..MaxPages /\ pages[p] \notin Page /\ p \in Nat
      OBVIOUS
    <3>3. p # 0
      <4> HIDE DEF first, Bad
      <4>1. QED
        BY <1>1, <1>4, <3>2
    <3>4. p - 1 \in 0..MaxPages /\ ~ (p <= p - 1)
      BY <3>2, <3>3, LimitFacts
    <3>5. p - 1 \notin Bad
      <4> HIDE DEF Bad
      <4>1. QED
        BY <3>1, <3>4
    <3>6. pages[p - 1] \in Page
      BY <3>4, <3>5
    <3>7. pages[p] = NextPage(r, since, pages[p - 1])
      <4> HIDE DEF first, Bad
      <4>1. QED
        BY <1>4, <3>2, <3>3
    <3>8. QED
      BY <3>2, <3>6, <3>7, NextPageType
  <2>2. MaxPages \in 0..MaxPages
    BY LimitFacts
  <2>3. QED
    BY <2>1, <2>2
<1> HIDE DEF final
<1>7. QED
  BY <1>5, <1>6 DEF Page

-----------------------------------------------------------------------------
(* The walks.                                                              *)
LEMMA IdleWalkType == IdleWalk \in Walk
BY SMT DEF IdleWalk, Walk, Message

LEMMA PhaseFacts ==
  ASSUME NEW p \in {"dispatching", "refetching"}
  PROVE  /\ [IdleWalk EXCEPT !.phase = p] \in Walk
         /\ [IdleWalk EXCEPT !.phase = p].phase = p
         /\ [IdleWalk EXCEPT !.phase = p].got = <<>>
<1>1. IdleWalk \in Walk /\ IdleWalk.got = <<>>
  BY IdleWalkType DEF IdleWalk
<1>2. QED
  BY <1>1 DEF Walk

LEMMA NewWalkFacts ==
  ASSUME DiskTypes, NEW since \in Nat, NEW relays \in SUBSET Relays
  PROVE  /\ NewWalk(since, relays) \in Walk
         /\ NewWalk(since, relays).phase = "asking"
         /\ NewWalk(since, relays).got = <<>>
<1>1. disk.cursor \in Nat
  BY DEF DiskTypes
<1>2. WalkSince(since, disk.cursor) \in Nat
  BY <1>1 DEF WalkSince
<1> DEFINE from == WalkSince(since, disk.cursor)
           until == disk.cursor
<1> HIDE DEF from, until
<1>3. NewWalk(since, relays) =
        [IdleWalk EXCEPT !.phase = "asking", !.since = from, !.until = until, !.todo = relays]
  BY DEF NewWalk, from, until
<1>4. from \in Nat /\ until \in Nat
  BY <1>1, <1>2 DEF from, until
<1>5. NewWalk(since, relays) =
        [phase |-> "asking", since |-> from, until |-> until, todo |-> relays,
         relay |-> None, outcome |-> None, cursor |-> 0, got |-> <<>>,
         truncated |-> 0, exhausted |-> FALSE]
  BY <1>3 DEF IdleWalk
<1>6. <<>> \in Message
  BY DEF Message
<1>7. QED
  BY <1>4, <1>5, <1>6 DEF Walk

-----------------------------------------------------------------------------
(* Types.  A part that an action leaves alone keeps its type.              *)
LEMMA PrimedTypeParts ==
  TypeOK' <=> /\ NetTypes' /\ DiskTypes' /\ ClaimTypes' /\ LaneTypes' /\ BoundTypes'
              /\ walk' \in [Walks -> Walk]
BY DEF TypeOK, NetTypes, DiskTypes, ClaimTypes, LaneTypes, BoundTypes

LEMMA TypeFrames ==
  /\ NetTypes /\ UNCHANGED net => NetTypes'
  /\ DiskTypes /\ UNCHANGED <<disk, saved, deepWalked, dropped>> => DiskTypes'
  /\ ClaimTypes /\ UNCHANGED <<claims, unwrapping, asking>> => ClaimTypes'
  /\ LaneTypes /\ UNCHANGED lanes => LaneTypes'
  /\ BoundTypes /\ UNCHANGED bounds => BoundTypes'
<1>1. NetTypes /\ UNCHANGED net => NetTypes'
  BY DEF NetTypes, net
<1>2. DiskTypes /\ UNCHANGED <<disk, saved, deepWalked, dropped>> => DiskTypes'
  BY DEF DiskTypes
<1>3. ClaimTypes /\ UNCHANGED <<claims, unwrapping, asking>> => ClaimTypes'
  BY DEF ClaimTypes, claims
<1>4. LaneTypes /\ UNCHANGED lanes => LaneTypes'
  BY DEF LaneTypes, lanes
<1>5. BoundTypes /\ UNCHANGED bounds => BoundTypes'
  BY DEF BoundTypes, bounds
<1>6. QED
  BY <1>1, <1>2, <1>3, <1>4, <1>5

LEMMA FaultTypes == BoundTypes /\ Fault => BoundTypes'
BY LimitFacts DEF BoundTypes, Fault

LEMMA ClaimFacts ==
  ASSUME ClaimTypes, NEW wraps \in SUBSET Wraps, NEW route \in {"live"} \cup Walks,
         Claim(wraps, route), UNCHANGED <<failures, refetch>>
  PROVE  /\ claimed' \subseteq Wraps /\ refetch' \subseteq Wraps
         /\ failures' \in [Wraps -> 0..RetryLimit]
         /\ unwrapping' \in [Wraps -> {"live", "stray", "lost", None} \cup Walks]
         /\ claimed' = claimed \cup wraps
         /\ \A w \in Wraps : /\ w \in wraps => unwrapping'[w] = route
                             /\ w \notin wraps => unwrapping'[w] = unwrapping[w]
BY DEF ClaimTypes, Claim

LEMMA RefetchFacts ==
  ASSUME ClaimTypes, NEW ids \in SUBSET Wraps, NEW relays \in SUBSET Relays,
         RefetchPendingWraps(ids, relays)
  PROVE  /\ refetch' \subseteq Wraps
         /\ asking' \in [ids : SUBSET Wraps, todo : SUBSET Relays]
<1>1. CASE refetch' = ids /\ UNCHANGED asking
  BY <1>1 DEF ClaimTypes
<1>2. CASE refetch' = {} /\ asking' = [ids |-> ids, todo |-> relays]
  BY <1>2
<1>3. QED
  BY <1>1, <1>2 DEF RefetchPendingWraps

LEMMA ParkedFacts ==
  ClaimTypes => Parked \subseteq claimed /\ Parked \subseteq Wraps
BY DEF ClaimTypes, Parked

LEMMA ResetFacts ==
  ASSUME ClaimTypes, NEW relays \in SUBSET Relays, ResetWrapRetryBudget(relays),
         UNCHANGED unwrapping
  PROVE  /\ ClaimTypes'
         /\ \/ UNCHANGED <<claimed, failures>>
            \/ claimed' = claimed \ Parked /\ \A w \in Wraps : failures'[w] = 0
<1>1. CASE UNCHANGED <<claims, asking>>
  BY <1>1, TypeFrames DEF claims
<1>2. CASE /\ claimed' = claimed \ Parked
           /\ failures' = [w \in Wraps |-> 0]
           /\ RefetchPendingWraps(refetch \cup Parked, relays)
  <2>1. refetch \cup Parked \in SUBSET Wraps
    BY ParkedFacts DEF ClaimTypes
  <2>2. /\ refetch' \subseteq Wraps
        /\ asking' \in [ids : SUBSET Wraps, todo : SUBSET Relays]
    BY <1>2, <2>1, RefetchFacts
  <2>3. failures' \in [Wraps -> 0..RetryLimit]
    BY <1>2, LimitFacts
  <2>4. QED
    BY <1>2, <2>2, <2>3 DEF ClaimTypes
<1>3. QED
  BY <1>1, <1>2 DEF ResetWrapRetryBudget

(* An unwrap that succeeded, or failed.                                    *)
LEMMA CommitFacts ==
  ASSUME ClaimTypes, NEW w \in Wraps, CommitWrapId(w)
  PROVE  /\ claimed' \subseteq Wraps /\ refetch' \subseteq Wraps
         /\ failures' \in [Wraps -> 0..RetryLimit]
         /\ claimed' = claimed /\ failures'[w] = 0
         /\ \A v \in Wraps : v # w => failures'[v] = failures[v]
BY LimitFacts DEF ClaimTypes, CommitWrapId

LEMMA ReleaseFacts ==
  ASSUME ClaimTypes, NEW w \in Wraps, failures[w] < RetryLimit, ReleaseWrapId(w)
  PROVE  /\ claimed' \subseteq Wraps /\ refetch' \subseteq Wraps
         /\ failures' \in [Wraps -> 0..RetryLimit]
         /\ \A v \in Wraps : v # w => failures'[v] = failures[v]
         /\ \/ claimed' = claimed \ {w} /\ failures'[w] < RetryLimit
            \/ claimed' = claimed /\ failures'[w] >= RetryLimit
<1>1. /\ claimed \subseteq Wraps /\ refetch \subseteq Wraps
      /\ failures \in [Wraps -> 0..RetryLimit] /\ RetryLimit \in Nat /\ RetryLimit > 0
  BY LimitFacts DEF ClaimTypes
<1>2. CASE w \in Corrupt
  BY <1>1, <1>2 DEF ReleaseWrapId
<1>3. CASE w \notin Corrupt
  <2>1. failures' = [failures EXCEPT ![w] = @ + 1] /\ failures[w] + 1 \in 0..RetryLimit
    BY <1>1, <1>3 DEF ReleaseWrapId
  <2>2. CASE failures[w] + 1 >= RetryLimit
    BY <1>1, <1>3, <2>1, <2>2 DEF ReleaseWrapId
  <2>3. CASE ~ (failures[w] + 1 >= RetryLimit)
    BY <1>1, <1>3, <2>1, <2>3 DEF ReleaseWrapId
  <2>4. QED
    BY <2>2, <2>3
<1>4. QED
  BY <1>2, <1>3

-----------------------------------------------------------------------------
(* Each action keeps the types.                                            *)
LEMMA PublishTypes == TypeOK /\ Publish => TypeOK'
<1> SUFFICES ASSUME TypeOK, Publish PROVE TypeOK'
  OBVIOUS
<1>1. PICK w \in Wraps \ published, to \in SUBSET Relays :
        /\ published' = published \cup {w}
        /\ relayHas' = [r \in Relays |-> IF r \in to THEN relayHas[r] \cup {w} ELSE relayHas[r]]
        /\ stream' = [r \in Relays |-> IF r \in to \cap up THEN Append(stream[r], w) ELSE stream[r]]
  BY DEF Publish
<1>2. UNCHANGED <<up, everUp, disk, saved, claims, unwrapping, asking, walk, lanes,
                  deepWalked, dropped, bounds>>
  BY DEF Publish
<1>3. stream' \in [Relays -> Message]
  <2>1. ASSUME NEW r \in Relays
        PROVE  stream[r] \in Message /\ Append(stream[r], w) \in Message
    <3>1. stream[r] \in Seq(Wraps) /\ w \in Wraps
      BY TypeParts DEF NetTypes, Message
    <3>2. QED
      BY <3>1, AppendElements DEF Message
  <2>2. QED
    BY <1>1, <2>1
<1>4. NetTypes'
  BY <1>1, <1>2, <1>3, TypeParts DEF NetTypes
<1>5. QED
  BY <1>2, <1>4, TypeParts, PrimedTypeParts, TypeFrames

LEMMA ConnectTypes ==
  ASSUME TypeOK, NEW r \in Relays, Connect(r)
  PROVE  TypeOK'
<1> USE TypeParts
<1>1. /\ up' = up \cup {r} /\ everUp' = everUp \cup {r}
      /\ stream' = [stream EXCEPT ![r] =
           NewestFirst(Newest(InRange(relayHas[r], CatchUpSince, 0), PageLimit))]
      /\ UNCHANGED <<published, relayHas, disk, saved, unwrapping, lanes, deepWalked,
                     dropped, bounds>>
  BY DEF Connect
<1>2. NetTypes'
  <2>1. Newest(InRange(relayHas[r], CatchUpSince, 0), PageLimit) \in SUBSET Wraps
    <3>1. InRange(relayHas[r], CatchUpSince, 0) \subseteq Wraps
      BY DEF InRange, NetTypes
    <3>2. QED
      BY <3>1, NewestFacts
  <2>2. NewestFirst(Newest(InRange(relayHas[r], CatchUpSince, 0), PageLimit)) \in Message
    BY <2>1, NewestFirstType
  <2>3. QED
    BY <1>1, <2>2 DEF NetTypes
<1>3. ClaimTypes' /\ walk' \in [Walks -> Walk]
  <2>1. CASE r \in everUp /\ walk[r].phase = "idle"
    <3>1. ResetWrapRetryBudget(up') /\ walk' = [walk EXCEPT ![r] = NewWalk(CatchUpSince, {r})]
      BY <2>1 DEF Connect
    <3>2. ClaimTypes'
      <4>1. up' \in SUBSET Relays
        BY <1>2 DEF NetTypes
      <4>2. QED
        BY <1>1, <3>1, <4>1, ResetFacts
    <3>3. NewWalk(CatchUpSince, {r}) \in Walk
      BY CatchUpSinceType, NewWalkFacts
    <3>4. QED
      BY <3>1, <3>2, <3>3, LaneFacts
  <2>2. CASE ~ (r \in everUp /\ walk[r].phase = "idle")
    <3>1. UNCHANGED <<claims, asking, walk>>
      BY <2>2 DEF Connect
    <3>2. QED
      BY <1>1, <3>1, TypeFrames
  <2>3. QED
    BY <2>1, <2>2
<1>4. QED
  BY <1>1, <1>2, <1>3, PrimedTypeParts, TypeFrames

LEMMA DisconnectTypes ==
  ASSUME TypeOK, NEW r \in Relays, Disconnect(r)
  PROVE  TypeOK'
<1> USE TypeParts
<1>1. /\ up' = up \ {r} /\ stream' = [stream EXCEPT ![r] = <<>>] /\ Fault
      /\ UNCHANGED <<published, relayHas, everUp, disk, saved, claims, unwrapping, asking, walk,
                     lanes, deepWalked, dropped>>
  BY DEF Disconnect
<1>2. NetTypes'
  <2>1. <<>> \in Message
    BY DEF Message
  <2>2. QED
    BY <1>1, <2>1 DEF NetTypes
<1>3. QED
  BY <1>1, <1>2, PrimedTypeParts, TypeFrames, FaultTypes

LEMMA ResumeTypes == TypeOK /\ Resume => TypeOK'
<1> SUFFICES ASSUME TypeOK, Resume PROVE TypeOK'
  OBVIOUS
<1> USE TypeParts
<1>1. /\ ResetWrapRetryBudget(up)
      /\ UNCHANGED <<net, disk, saved, unwrapping, walk, lanes, deepWalked, dropped, bounds>>
  BY DEF Resume
<1>2. ClaimTypes'
  <2>1. up \in SUBSET Relays
    BY DEF NetTypes
  <2>2. QED
    BY <1>1, <2>1, ResetFacts
<1>3. QED
  BY <1>1, <1>2, PrimedTypeParts, TypeFrames

(* A non-empty sequence of wraps.                                          *)
LEMMA HeadFacts ==
  ASSUME NEW s \in Message, s # <<>>
  PROVE  /\ Head(s) \in Wraps /\ Tail(s) \in Message
         /\ Head(s) = s[1] /\ 1 \in DOMAIN s
         /\ Range(s) = {Head(s)} \cup Range(Tail(s))
         /\ \A i \in DOMAIN Tail(s) : i + 1 \in DOMAIN s /\ Tail(s)[i] = s[i + 1]
<1>1. /\ s \in Seq(Wraps) /\ DOMAIN s = 1..Len(s) /\ Len(s) \in Nat /\ Len(s) >= 1
  BY DEF Message
<1>2. /\ Head(s) = s[1] /\ Head(s) \in Wraps
      /\ Tail(s) \in Seq(Wraps) /\ DOMAIN Tail(s) = 1..Len(s) - 1
      /\ \A i \in 1..Len(s) - 1 : Tail(s)[i] = s[i + 1]
  BY <1>1
<1>3. \A i \in DOMAIN Tail(s) : i + 1 \in DOMAIN s /\ Tail(s)[i] = s[i + 1]
  BY <1>1, <1>2
<1>4. \A i \in DOMAIN s : i = 1 \/ (i - 1 \in DOMAIN Tail(s) /\ Tail(s)[i - 1] = s[i])
  <2>1. ASSUME NEW i \in DOMAIN s, i # 1
        PROVE  i - 1 \in DOMAIN Tail(s) /\ Tail(s)[i - 1] = s[i]
    <3>1. i - 1 \in 1..Len(s) - 1 /\ (i - 1) + 1 = i
      BY <1>1, <2>1
    <3>2. QED
      BY <1>2, <3>1
  <2>2. QED
    BY <2>1
<1>5. Range(s) = {Head(s)} \cup Range(Tail(s))
  <2>1. ASSUME NEW x \in Range(s) PROVE x \in {Head(s)} \cup Range(Tail(s))
    <3>1. PICK i \in DOMAIN s : x = s[i]
      BY DEF Range
    <3>2. CASE i = 1
      BY <1>2, <3>1, <3>2
    <3>3. CASE i # 1
      <4>1. i - 1 \in DOMAIN Tail(s) /\ Tail(s)[i - 1] = x
        BY <1>4, <3>1, <3>3
      <4>2. QED
        BY <4>1 DEF Range
    <3>4. QED
      BY <3>2, <3>3
  <2>2. ASSUME NEW x \in {Head(s)} \cup Range(Tail(s)) PROVE x \in Range(s)
    BY <1>1, <1>2, <1>3 DEF Range
  <2>3. QED
    BY <2>1, <2>2
<1>6. QED
  BY <1>1, <1>2, <1>3, <1>5 DEF Message

LEMMA PushTypes ==
  ASSUME TypeOK, NEW r \in Relays, Push(r)
  PROVE  TypeOK'
<1> USE TypeParts
<1>1. /\ stream[r] # <<>> /\ stream' = [stream EXCEPT ![r] = Tail(@)]
      /\ Claim({Head(stream[r])} \ claimed, "live")
      /\ UNCHANGED <<published, relayHas, up, everUp, disk, saved, failures, refetch, asking, walk,
                     lanes, deepWalked, dropped, bounds>>
  BY DEF Push
<1>2. stream[r] \in Message
  BY DEF NetTypes
<1>3. NetTypes'
  BY <1>1, <1>2, HeadFacts DEF NetTypes
<1>4. ClaimTypes'
  <2>1. {Head(stream[r])} \ claimed \in SUBSET Wraps
    BY <1>1, <1>2, HeadFacts
  <2>2. QED
    BY <1>1, <2>1, ClaimFacts DEF ClaimTypes
<1>5. QED
  BY <1>1, <1>3, <1>4, PrimedTypeParts, TypeFrames

(* The worker answers for w.  The route of the message is read before it   *)
(* is reset.                                                               *)
LEMMA UnwrapOkFacts ==
  ASSUME TypeOK, NEW w \in Wraps, UnwrapOk(w)
  PROVE  /\ unwrapping[w] \in {"live", "stray"} \cup Walks
         /\ unwrapping' = [unwrapping EXCEPT ![w] = IF @ = "stray" THEN "lost" ELSE None]
         /\ CommitWrapId(w)
         /\ \/ /\ unwrapping[w] = "live"
               /\ queue' = [queue EXCEPT !["live"] = Append(@, w)] /\ walk' = walk
            \/ /\ unwrapping[w] \in Walks /\ queue' = queue
               /\ walk' = [walk EXCEPT ![unwrapping[w]].got = Append(@, w)]
            \/ /\ unwrapping[w] = "stray" /\ queue' = queue /\ walk' = walk
         /\ UNCHANGED <<net, disk, saved, asking, known, busy, held, attached, deepWalked,
                        dropped, bounds>>
<1>1. unwrapping[w] \in {"live", "stray"} \cup Walks
  BY TypeParts DEF UnwrapOk, ClaimTypes
<1>2. "live" \notin Walks /\ "stray" \notin Walks
  BY LaneFacts
<1>3. /\ queue' = IF unwrapping[w] = "live" THEN [queue EXCEPT !["live"] = Append(@, w)] ELSE queue
      /\ walk' = IF unwrapping[w] \in Walks
                 THEN [walk EXCEPT ![unwrapping[w]].got = Append(@, w)] ELSE walk
      /\ unwrapping' = [unwrapping EXCEPT ![w] = IF @ = "stray" THEN "lost" ELSE None]
      /\ CommitWrapId(w)
      /\ UNCHANGED <<net, disk, saved, asking, known, busy, held, attached, deepWalked,
                     dropped, bounds>>
  BY DEF UnwrapOk
<1>4. QED
  BY <1>1, <1>2, <1>3

LEMMA GotType ==
  ASSUME NEW k \in Walks, walk \in [Walks -> Walk], NEW s \in Message
  PROVE  [walk EXCEPT ![k].got = s] \in [Walks -> Walk]
<1>1. walk[k] \in Walk
  OBVIOUS
<1>2. [walk[k] EXCEPT !.got = s] \in Walk
  BY <1>1 DEF Walk
<1>3. QED
  BY <1>2

LEMMA AppendMessage ==
  ASSUME NEW s \in Message, NEW w \in Wraps
  PROVE  /\ Append(s, w) \in Message /\ Append(s, w) # <<>>
         /\ Range(Append(s, w)) = Range(s) \cup {w}
         /\ DOMAIN Append(s, w) = DOMAIN s \cup {Len(s) + 1}
         /\ Append(s, w)[Len(s) + 1] = w
         /\ \A i \in DOMAIN s : Append(s, w)[i] = s[i] /\ i # Len(s) + 1
         /\ s # <<>> => Head(Append(s, w)) = Head(s)
<1>1. s \in Seq(Wraps) /\ Len(s) \in Nat /\ DOMAIN s = 1..Len(s)
  BY DEF Message
<1> DEFINE t == Append(s, w)
<1>2. /\ t \in Seq(Wraps) /\ Len(t) = Len(s) + 1 /\ DOMAIN t = 1..Len(s) + 1
      /\ t[Len(s) + 1] = w /\ \A i \in 1..Len(s) : t[i] = s[i]
  BY <1>1
<1>3. Range(t) = Range(s) \cup {w}
  <2>1. Range(t) = ToSet(t) /\ Range(s) = ToSet(s)
    BY DEF Range, ToSet
  <2>2. QED
    BY <1>1, <2>1, AppendElements
<1>4. s # <<>> => Head(t) = Head(s)
  BY <1>1, <1>2
<1>5. t # <<>>
  BY <1>1, <1>2
<1>6. DOMAIN t = DOMAIN s \cup {Len(s) + 1} /\ \A i \in DOMAIN s : i # Len(s) + 1
  BY <1>1, <1>2
<1>7. QED
  BY <1>1, <1>2, <1>3, <1>4, <1>5, <1>6 DEF Message

LEMMA UnwrapOkTypes ==
  ASSUME TypeOK, NEW w \in Wraps, UnwrapOk(w)
  PROVE  TypeOK'
<1> USE TypeParts
<1>1. ClaimTypes'
  <2>1. CommitWrapId(w) /\ UNCHANGED asking
    BY UnwrapOkFacts
  <2>2. /\ claimed' \subseteq Wraps /\ refetch' \subseteq Wraps
        /\ failures' \in [Wraps -> 0..RetryLimit]
    BY <2>1, CommitFacts
  <2>3. unwrapping' = [unwrapping EXCEPT ![w] = IF @ = "stray" THEN "lost" ELSE None]
    BY UnwrapOkFacts
  <2>4. unwrapping' \in [Wraps -> {"live", "stray", "lost", None} \cup Walks]
    BY <2>3 DEF ClaimTypes
  <2>5. QED
    BY <2>1, <2>2, <2>4 DEF ClaimTypes
<1>2. LaneTypes' /\ walk' \in [Walks -> Walk]
  <2>1. UNCHANGED <<known, busy, held, attached>>
    BY UnwrapOkFacts
  <2>2. CASE unwrapping[w] = "live" /\ queue' = [queue EXCEPT !["live"] = Append(@, w)] /\ walk' = walk
    <3>1. queue["live"] \in Message /\ Append(queue["live"], w) \in Message
      BY LaneFacts, AppendMessage DEF LaneTypes
    <3>2. QED
      BY <2>1, <2>2, <3>1 DEF LaneTypes
  <2>3. CASE /\ unwrapping[w] \in Walks /\ queue' = queue
             /\ walk' = [walk EXCEPT ![unwrapping[w]].got = Append(@, w)]
    <3> DEFINE k == unwrapping[w]
    <3>1. walk[k].got \in Message
      BY <2>3 DEF Walk
    <3>2. Append(walk[k].got, w) \in Message
      BY <3>1, AppendMessage
    <3>3. walk' \in [Walks -> Walk]
      BY <2>3, <3>2, GotType
    <3>4. QED
      BY <2>1, <2>3, <3>3 DEF LaneTypes
  <2>4. CASE unwrapping[w] = "stray" /\ queue' = queue /\ walk' = walk
    BY <2>1, <2>4 DEF LaneTypes
  <2>5. QED
    BY <2>2, <2>3, <2>4, UnwrapOkFacts
<1>3. UNCHANGED <<net, disk, saved, deepWalked, dropped, bounds>>
  BY UnwrapOkFacts
<1>4. QED
  BY <1>1, <1>2, <1>3, PrimedTypeParts, TypeFrames

LEMMA UnwrapFailsFacts ==
  ASSUME TypeOK, Claims, NEW w \in Wraps, UnwrapFails(w)
  PROVE  /\ w \in claimed /\ failures[w] < RetryLimit
         /\ unwrapping' = [unwrapping EXCEPT ![w] = None]
         /\ ReleaseWrapId(w)
         /\ UNCHANGED <<net, disk, saved, asking, walk, lanes, deepWalked, dropped>>
         /\ BoundTypes'
<1>1. unwrapping[w] # None
  BY DEF UnwrapFails
<1>2. w \in claimed /\ failures[w] < RetryLimit
  BY <1>1 DEF Claims, Unwrapping
<1>3. BoundTypes'
  BY TypeParts, LimitFacts DEF UnwrapFails, BoundTypes
<1>4. QED
  BY <1>2, <1>3 DEF UnwrapFails

LEMMA UnwrapFailsTypes ==
  ASSUME TypeOK, Claims, NEW w \in Wraps, UnwrapFails(w)
  PROVE  TypeOK'
<1> USE TypeParts
<1>1. ClaimTypes'
  <2>1. /\ ReleaseWrapId(w) /\ UNCHANGED asking /\ failures[w] < RetryLimit
        /\ unwrapping' = [unwrapping EXCEPT ![w] = None]
    BY UnwrapFailsFacts
  <2>2. /\ claimed' \subseteq Wraps /\ refetch' \subseteq Wraps
        /\ failures' \in [Wraps -> 0..RetryLimit]
    BY <2>1, ReleaseFacts
  <2>3. unwrapping' \in [Wraps -> {"live", "stray", "lost", None} \cup Walks]
    BY <2>1 DEF ClaimTypes
  <2>4. QED
    BY <2>1, <2>2, <2>3 DEF ClaimTypes
<1>2. UNCHANGED <<net, disk, saved, walk, lanes, deepWalked, dropped>> /\ BoundTypes'
  BY UnwrapFailsFacts
<1>3. QED
  BY <1>1, <1>2, PrimedTypeParts, TypeFrames

LEMMA StartPollTypes == TypeOK /\ StartPoll => TypeOK'
<1> SUFFICES ASSUME TypeOK, StartPoll PROVE TypeOK'
  OBVIOUS
<1> USE TypeParts
<1>1. /\ walk' = [walk EXCEPT !["poll"] = NewWalk(WindowSince, up)]
      /\ UNCHANGED <<net, disk, saved, claims, unwrapping, asking, lanes, deepWalked, dropped, bounds>>
  BY DEF StartPoll
<1>2. WindowSince \in Nat /\ up \in SUBSET Relays
  BY WindowSinceType DEF NetTypes
<1>3. NewWalk(WindowSince, up) \in Walk
  BY <1>2, NewWalkFacts
<1>4. QED
  BY <1>1, <1>3, LaneFacts, PrimedTypeParts, TypeFrames

(* A page that arrives: what nobody claimed is claimed for the walk.       *)
LEMMA PageArrivesTypes ==
  ASSUME TypeOK, NEW k \in Walks, NEW r \in Relays, NEW got \in SUBSET Wraps,
         NEW outcome \in {"exhausted", "truncated", "unknown"}, NEW cursor \in Nat,
         PageArrives(k, r, got, outcome, cursor)
  PROVE  /\ NetTypes' /\ DiskTypes' /\ ClaimTypes' /\ LaneTypes'
         /\ walk' \in [Walks -> Walk]
<1> USE TypeParts
<1>1. /\ Claim(got \ claimed, k)
      /\ walk' = [walk EXCEPT ![k].phase = "unwrapping", ![k].relay = r,
                              ![k].outcome = outcome, ![k].cursor = cursor]
      /\ UNCHANGED <<net, disk, saved, failures, refetch, asking, lanes, deepWalked, dropped>>
  BY DEF PageArrives
<1>2. ClaimTypes'
  <2>1. got \ claimed \in SUBSET Wraps
    OBVIOUS
  <2>2. QED
    BY <1>1, <2>1, ClaimFacts DEF ClaimTypes
<1>3. walk' \in [Walks -> Walk]
  <2>1. walk[k] \in Walk
    OBVIOUS
  <2>2. [walk[k] EXCEPT !.phase = "unwrapping", !.relay = r, !.outcome = outcome, !.cursor = cursor]
          \in Walk
    BY <2>1 DEF Walk
  <2>3. walk' = [walk EXCEPT ![k] = [walk[k] EXCEPT !.phase = "unwrapping", !.relay = r,
                                                    !.outcome = outcome, !.cursor = cursor]]
    BY <1>1
  <2>4. QED
    BY <2>2, <2>3
<1>4. QED
  BY <1>1, <1>2, <1>3, TypeFrames

(* Both outcomes of asking a relay are the arrival of a page.              *)
LEMMA WalkAskedFacts ==
  ASSUME TypeOK, NEW k \in Walks, NEW r \in Relays, WalkAnswered(k, r) \/ WalkUnanswered(k, r)
  PROVE  /\ \E got \in SUBSET Wraps, outcome \in {"exhausted", "truncated", "unknown"}, cursor \in Nat :
              PageArrives(k, r, got, outcome, cursor)
         /\ BoundTypes'
<1> USE TypeParts
<1> DEFINE answer == Walked(r, walk[k].since, walk[k].until)
<1>1. walk[k].since \in Nat /\ walk[k].until \in Nat
  BY DEF Walk
<1>2. /\ answer.got \in SUBSET Wraps /\ answer.until \in Nat
      /\ answer.outcome \in {"exhausted", "truncated"}
  BY <1>1, WalkedType
<1>3. CASE WalkAnswered(k, r)
  <2>1. PageArrives(k, r, answer.got, answer.outcome, answer.until) /\ UNCHANGED bounds
    BY <1>3 DEF WalkAnswered
  <2> HIDE DEF answer
  <2>2. BoundTypes'
    BY <2>1, TypeFrames
  <2>3. QED
    BY <1>2, <2>1, <2>2
<1>4. CASE WalkUnanswered(k, r)
  <2>1. CASE PageArrives(k, r, {}, "unknown", 0) /\ UNCHANGED bounds
    <3>1. BoundTypes'
      BY <2>1, TypeFrames
    <3>2. {} \in SUBSET Wraps
      OBVIOUS
    <3>3. QED
      BY <2>1, <3>1, <3>2
  <2>2. CASE Fault /\ \E n \in 0..Cardinality(answer.got) :
                        PageArrives(k, r, Newest(answer.got, n), "unknown", 0)
    <3>1. PICK n \in 0..Cardinality(answer.got) :
            PageArrives(k, r, Newest(answer.got, n), "unknown", 0)
      BY <2>2
    <3> HIDE DEF answer
    <3>2. Newest(answer.got, n) \in SUBSET Wraps
      BY <1>2, NewestFacts
    <3>3. BoundTypes'
      BY <2>2, FaultTypes
    <3>4. QED
      BY <3>1, <3>2, <3>3
  <2>3. QED
    BY <1>4, <2>1, <2>2 DEF WalkUnanswered
<1>5. QED
  BY <1>3, <1>4

LEMMA WalkAskedTypes ==
  ASSUME TypeOK, NEW k \in Walks, NEW r \in Relays, WalkAnswered(k, r) \/ WalkUnanswered(k, r)
  PROVE  TypeOK'
<1>1. PICK got \in SUBSET Wraps, outcome \in {"exhausted", "truncated", "unknown"}, cursor \in Nat :
        PageArrives(k, r, got, outcome, cursor)
  BY WalkAskedFacts
<1>2. /\ NetTypes' /\ DiskTypes' /\ ClaimTypes' /\ LaneTypes'
      /\ walk' \in [Walks -> Walk]
  BY <1>1, PageArrivesTypes
<1>3. BoundTypes'
  BY WalkAskedFacts
<1>4. QED
  BY <1>2, <1>3, PrimedTypeParts

(* The walk of a relay resolves: the next relay is asked, or the messages  *)
(* are dispatched.                                                         *)
Pending(k) == {v \in Wraps : unwrapping[v] = k}

Found(w)  == IF w.outcome = "truncated" THEN Max({w.truncated, w.cursor}) ELSE w.truncated
Bottom(w) == w.exhausted \/ w.outcome = "exhausted"

LEMMA WalkResolvesFacts ==
  ASSUME NEW k \in Walks, WalkResolves(k)
  PROVE  /\ walk[k].phase = "unwrapping"
         /\ unwrapping' = [v \in Wraps |-> IF v \in Pending(k) THEN "stray" ELSE unwrapping[v]]
         /\ \/ /\ walk' = [walk EXCEPT ![k] =
                             [walk[k] EXCEPT !.phase = "asking", !.todo = @ \ {walk[k].relay},
                                !.relay = None, !.outcome = None, !.cursor = 0,
                                !.truncated = Found(walk[k]), !.exhausted = Bottom(walk[k])]]
               /\ UNCHANGED <<queue, disk, deepWalked>>
            \/ /\ ApplyWalkEvidence(Found(walk[k]), Bottom(walk[k]), k = "poll")
               /\ walk' = [walk EXCEPT ![k] = [IdleWalk EXCEPT !.phase = "dispatching"]]
               /\ queue' = [queue EXCEPT ![k] = walk[k].got]
         /\ UNCHANGED <<net, saved, claims, asking, known, busy, held, attached, dropped, bounds>>
BY DEF WalkResolves, Pending, Found, Bottom

LEMMA ApplyWalkEvidenceTypes ==
  ASSUME DiskTypes, NEW cursor \in Nat, NEW exhausted \in BOOLEAN, NEW mayClear \in BOOLEAN,
         ApplyWalkEvidence(cursor, exhausted, mayClear)
  PROVE  /\ disk' \in [watermark : Nat, open : BOOLEAN, cursor : Nat]
         /\ deepWalked' \in BOOLEAN
         /\ disk'.watermark = disk.watermark
<1>1. CASE cursor # 0
  BY <1>1 DEF ApplyWalkEvidence, DiskTypes
<1>2. CASE cursor = 0 /\ mayClear /\ exhausted
  BY <1>2 DEF ApplyWalkEvidence, DiskTypes
<1>3. CASE ~ (cursor # 0) /\ ~ (cursor = 0 /\ mayClear /\ exhausted)
  BY <1>3 DEF ApplyWalkEvidence, DiskTypes
<1>4. QED
  BY <1>1, <1>2, <1>3

LEMMA WalkResolvesTypes ==
  ASSUME TypeOK, NEW k \in Walks, WalkResolves(k)
  PROVE  TypeOK'
<1> USE TypeParts
<1>1. /\ unwrapping' = [v \in Wraps |-> IF v \in Pending(k) THEN "stray" ELSE unwrapping[v]]
      /\ UNCHANGED <<net, saved, claims, asking, known, busy, held, attached, dropped, bounds>>
  BY WalkResolvesFacts
<1>2. walk[k] \in Walk
  OBVIOUS
<1>3. Found(walk[k]) \in Nat /\ Bottom(walk[k]) \in BOOLEAN
  <2>1. /\ walk[k].truncated \in Nat /\ walk[k].cursor \in Nat
        /\ walk[k].exhausted \in BOOLEAN
    BY <1>2 DEF Walk
  <2>2. Max({walk[k].truncated, walk[k].cursor}) \in {walk[k].truncated, walk[k].cursor}
    <3> DEFINE a == walk[k].truncated
               b == walk[k].cursor
    <3>1. a \in Int /\ b \in Int
      BY <2>1
    <3> HIDE DEF a, b
    <3>2. Max({a, b}) \in {a, b}
      BY <3>1, MaxOfTwo
    <3>3. QED
      BY <3>2 DEF a, b
  <2>3. Found(walk[k]) \in Nat
    BY <2>1, <2>2 DEF Found
  <2>4. QED
    BY <2>1, <2>3 DEF Bottom
<1>4. ClaimTypes'
  BY <1>1 DEF ClaimTypes, claims
<1> DEFINE Next1 == [walk[k] EXCEPT !.phase = "asking", !.todo = @ \ {walk[k].relay},
                       !.relay = None, !.outcome = None, !.cursor = 0,
                       !.truncated = Found(walk[k]), !.exhausted = Bottom(walk[k])]
           Next2 == [IdleWalk EXCEPT !.phase = "dispatching"]
<1>5. walk[k].got \in Message /\ Next1 \in Walk
  BY <1>2, <1>3 DEF Walk
<1>6. Next2 \in Walk
  BY PhaseFacts
<1>7. CASE walk' = [walk EXCEPT ![k] = Next1] /\ UNCHANGED <<queue, disk, deepWalked>>
  <2> HIDE DEF Next1
  <2>1. LaneTypes' /\ DiskTypes' /\ walk' \in [Walks -> Walk]
    BY <1>1, <1>5, <1>7 DEF LaneTypes, DiskTypes
  <2>2. QED
    BY <1>1, <1>4, <2>1, PrimedTypeParts, TypeFrames
<1>8. CASE /\ ApplyWalkEvidence(Found(walk[k]), Bottom(walk[k]), k = "poll")
           /\ walk' = [walk EXCEPT ![k] = Next2]
           /\ queue' = [queue EXCEPT ![k] = walk[k].got]
  <2> HIDE DEF Next2
  <2>1. (k = "poll") \in BOOLEAN
    OBVIOUS
  <2>2. /\ disk' \in [watermark : Nat, open : BOOLEAN, cursor : Nat]
        /\ deepWalked' \in BOOLEAN
    BY <1>3, <1>8, <2>1, ApplyWalkEvidenceTypes
  <2>3. DiskTypes'
    BY <1>1, <2>2 DEF DiskTypes
  <2>4. LaneTypes' /\ walk' \in [Walks -> Walk]
    BY <1>1, <1>5, <1>6, <1>8 DEF LaneTypes
  <2>5. QED
    BY <1>1, <1>4, <2>3, <2>4, PrimedTypeParts, TypeFrames
<1>9. QED
  BY <1>7, <1>8, WalkResolvesFacts

LEMMA WalkEndsTypes ==
  ASSUME TypeOK, NEW k \in Walks, WalkEnds(k)
  PROVE  TypeOK'
<1> USE TypeParts
<1>1. UNCHANGED <<net, disk, saved, claimed, failures, unwrapping, lanes, deepWalked, dropped, bounds>>
  BY DEF WalkEnds
<1>2. ClaimTypes'
  <2>1. CASE RefetchPendingWraps(refetch, up)
    <3>1. refetch \in SUBSET Wraps /\ up \in SUBSET Relays
      BY DEF ClaimTypes, NetTypes
    <3>2. /\ refetch' \subseteq Wraps
          /\ asking' \in [ids : SUBSET Wraps, todo : SUBSET Relays]
      BY <2>1, <3>1, RefetchFacts
    <3>3. QED
      BY <1>1, <3>2 DEF ClaimTypes
  <2>2. CASE UNCHANGED <<refetch, asking>>
    BY <1>1, <2>2 DEF ClaimTypes
  <2>3. QED
    BY <2>1, <2>2 DEF WalkEnds
<1>3. walk' \in [Walks -> Walk]
  <2> DEFINE ended == [IdleWalk EXCEPT !.phase = "refetching"]
  <2>1. ended \in Walk
    BY PhaseFacts
  <2>2. walk' = [walk EXCEPT ![k] = IF asking' # asking THEN ended ELSE IdleWalk]
    BY DEF WalkEnds
  <2> HIDE DEF ended
  <2>3. QED
    BY <2>1, <2>2, IdleWalkType
<1>4. QED
  BY <1>1, <1>2, <1>3, PrimedTypeParts, TypeFrames

LEMMA RefetchedTypes ==
  ASSUME TypeOK, NEW r \in Relays, NEW events \in SUBSET Wraps, Refetched(r, events)
  PROVE  /\ NetTypes' /\ DiskTypes' /\ ClaimTypes' /\ LaneTypes'
         /\ walk' \in [Walks -> Walk]
         /\ Claim(events \ claimed, "live") /\ UNCHANGED <<failures, refetch>>
         /\ \/ walk' = walk
            \/ walk["poll"].phase = "refetching" /\ walk' = [walk EXCEPT !["poll"] = IdleWalk]
         /\ UNCHANGED <<net, disk, saved, lanes, deepWalked, dropped>>
<1> USE TypeParts
<1>1. /\ Claim(events \ claimed, "live")
      /\ UNCHANGED <<net, disk, saved, failures, refetch, lanes, deepWalked, dropped>>
      /\ \/ walk' = walk
         \/ walk["poll"].phase = "refetching" /\ walk' = [walk EXCEPT !["poll"] = IdleWalk]
      /\ asking' = NoAsking \/ asking' = [asking EXCEPT !.todo = @ \ {r}]
  BY DEF Refetched
<1>2. asking' \in [ids : SUBSET Wraps, todo : SUBSET Relays]
  <2>1. asking \in [ids : SUBSET Wraps, todo : SUBSET Relays]
    BY DEF ClaimTypes
  <2>2. [asking EXCEPT !.todo = @ \ {r}] \in [ids : SUBSET Wraps, todo : SUBSET Relays]
    BY <2>1
  <2>3. NoAsking \in [ids : SUBSET Wraps, todo : SUBSET Relays]
    BY DEF NoAsking
  <2>4. QED
    BY <1>1, <2>2, <2>3
<1>3. ClaimTypes'
  <2>1. events \ claimed \in SUBSET Wraps
    OBVIOUS
  <2>2. QED
    BY <1>1, <1>2, <2>1, ClaimFacts DEF ClaimTypes
<1>4. walk' \in [Walks -> Walk]
  BY <1>1, IdleWalkType, LaneFacts
<1>5. QED
  BY <1>1, <1>3, <1>4, TypeFrames

LEMMA RefetchFactsOf ==
  ASSUME TypeOK, NEW r \in Relays, RefetchAnswered(r) \/ RefetchUnanswered(r)
  PROVE  (\E events \in SUBSET Wraps : Refetched(r, events)) /\ BoundTypes'
<1> USE TypeParts
<1>1. CASE RefetchAnswered(r)
  <2>1. relayHas[r] \cap asking.ids \in SUBSET Wraps
    BY DEF NetTypes
  <2>2. Refetched(r, relayHas[r] \cap asking.ids) /\ UNCHANGED bounds
    BY <1>1 DEF RefetchAnswered
  <2>3. QED
    BY <2>1, <2>2, TypeFrames
<1>2. CASE RefetchUnanswered(r)
  <2>1. {} \in SUBSET Wraps
    OBVIOUS
  <2>2. Refetched(r, {}) /\ (Fault \/ UNCHANGED bounds)
    BY <1>2 DEF RefetchUnanswered
  <2>3. QED
    BY <2>1, <2>2, TypeFrames, FaultTypes
<1>3. QED
  BY <1>1, <1>2

LEMMA RefetchTypes ==
  ASSUME TypeOK, NEW r \in Relays, RefetchAnswered(r) \/ RefetchUnanswered(r)
  PROVE  TypeOK'
<1>1. PICK events \in SUBSET Wraps : Refetched(r, events)
  BY RefetchFactsOf
<1>2. /\ NetTypes' /\ DiskTypes' /\ ClaimTypes' /\ LaneTypes'
      /\ walk' \in [Walks -> Walk]
  BY <1>1, RefetchedTypes
<1>3. QED
  BY <1>2, RefetchFactsOf, PrimedTypeParts

(* Dispatch: the seen check drops the message, holds it, or passes it to   *)
(* the handler.                                                            *)
LEMMA DispatchFacts ==
  ASSUME TypeOK, NEW l \in Lanes, Dispatch(l)
  PROVE  /\ queue[l] # <<>> /\ l \notin busy /\ queue[l] \in Message
         /\ known' = known \cup {Rumor[Head(queue[l])]}
         /\ \/ /\ l # "held" /\ Rumor[Head(queue[l])] \in known
               /\ queue' = [queue EXCEPT ![l] = Tail(@)]
               /\ UNCHANGED <<busy, held>>
            \/ /\ attached /\ (l # "held" => Rumor[Head(queue[l])] \notin known)
               /\ busy' = busy \cup {l}
               /\ UNCHANGED <<queue, held>>
            \/ /\ ~ attached /\ (l # "held" => Rumor[Head(queue[l])] \notin known)
               /\ queue' = [queue EXCEPT ![l] = Tail(@)]
               /\ held' = Append(held, Head(queue[l]))
               /\ UNCHANGED busy
         /\ UNCHANGED <<net, disk, saved, claims, unwrapping, asking, walk, attached, deepWalked,
                        dropped, bounds>>
<1>1. queue[l] \in Message
  BY TypeParts DEF LaneTypes
<1>2. QED
  BY <1>1 DEF Dispatch, SeenBefore

LEMMA DispatchTypes ==
  ASSUME TypeOK, NEW l \in Lanes, Dispatch(l)
  PROVE  TypeOK'
<1> USE TypeParts
<1>1. Head(queue[l]) \in Wraps /\ Tail(queue[l]) \in Message
  BY DispatchFacts, HeadFacts
<1>2. Rumor[Head(queue[l])] \in Wraps
  BY <1>1, WrapFacts
<1>3. Append(held, Head(queue[l])) \in Message
  BY <1>1, AppendMessage DEF LaneTypes
<1>4. /\ known' \subseteq Wraps /\ queue' \in [Lanes -> Message]
      /\ busy' \subseteq Lanes /\ held' \in Message
  <2>1. known' = known \cup {Rumor[Head(queue[l])]}
    BY DispatchFacts
  <2>2. queue' = queue \/ queue' = [queue EXCEPT ![l] = Tail(@)]
    BY DispatchFacts
  <2>3. busy' = busy \/ busy' = busy \cup {l}
    BY DispatchFacts
  <2>4. held' = held \/ held' = Append(held, Head(queue[l]))
    BY DispatchFacts
  <2>5. QED
    BY <1>1, <1>2, <1>3, <2>1, <2>2, <2>3, <2>4 DEF LaneTypes
<1>5. UNCHANGED <<net, disk, saved, claims, unwrapping, asking, walk, attached, deepWalked,
                  dropped, bounds>>
  BY DispatchFacts
<1>6. LaneTypes'
  BY <1>4, <1>5 DEF LaneTypes
<1>7. QED
  BY <1>5, <1>6, PrimedTypeParts, TypeFrames

(* The handler returns.                                                    *)
LEMMA HandlerDoneFacts ==
  ASSUME TypeOK, Handling, NEW l \in Lanes, Delivered(l) \/ DeliveryFails(l)
  PROVE  /\ l \in busy /\ queue[l] # <<>> /\ queue[l] \in Message
         /\ Head(queue[l]) \in Wraps /\ Tail(queue[l]) \in Message
         /\ Rumor[Head(queue[l])] \in known
         /\ busy' = busy \ {l} /\ queue' = [queue EXCEPT ![l] = Tail(@)]
         /\ \/ disk' = disk
            \/ disk' = [disk EXCEPT !.watermark = Stamp[Rumor[Head(queue[l])]]]
         /\ saved' \cup dropped' = saved \cup dropped \cup {Rumor[Head(queue[l])]}
         /\ UNCHANGED <<net, claims, unwrapping, asking, walk, known, held, attached, deepWalked>>
         /\ BoundTypes'
<1> USE TypeParts
<1>1. HandlerDone(l)
  BY DEF Delivered, DeliveryFails
<1>2. /\ l \in busy /\ busy' = busy \ {l} /\ queue' = [queue EXCEPT ![l] = Tail(@)]
      /\ \/ disk' = disk
         \/ disk' = [disk EXCEPT !.watermark = Stamp[Rumor[Head(queue[l])]]]
      /\ UNCHANGED <<net, claims, unwrapping, asking, walk, known, held, attached, deepWalked>>
  BY <1>1 DEF HandlerDone, MessageTime
<1>3. queue[l] # <<>> /\ queue[l] \in Message /\ Rumor[Head(queue[l])] \in known
  BY <1>2 DEF Handling, LaneTypes
<1>4. Head(queue[l]) \in Wraps /\ Tail(queue[l]) \in Message
  BY <1>3, HeadFacts
<1>5. saved' \cup dropped' = saved \cup dropped \cup {Rumor[Head(queue[l])]} /\ BoundTypes'
  <2>1. CASE Delivered(l)
    BY <2>1, TypeFrames DEF Delivered
  <2>2. CASE DeliveryFails(l)
    BY <2>2, FaultTypes DEF DeliveryFails
  <2>3. QED
    BY <2>1, <2>2
<1>6. QED
  BY <1>2, <1>3, <1>4, <1>5

LEMMA HandlerDoneTypes ==
  ASSUME TypeOK, Handling, NEW l \in Lanes, Delivered(l) \/ DeliveryFails(l)
  PROVE  TypeOK'
<1> USE TypeParts
<1>1. DiskTypes'
  <2>1. Rumor[Head(queue[l])] \in Wraps
    BY HandlerDoneFacts, WrapFacts
  <2>2. Stamp[Rumor[Head(queue[l])]] \in Nat
    BY <2>1, WrapFacts
  <2>3. disk' \in [watermark : Nat, open : BOOLEAN, cursor : Nat]
    BY <2>2, HandlerDoneFacts DEF DiskTypes
  <2>4. saved' \cup dropped' \subseteq Wraps
    BY <2>1, HandlerDoneFacts DEF DiskTypes
  <2>5. UNCHANGED deepWalked
    BY HandlerDoneFacts
  <2>6. QED
    BY <2>3, <2>4, <2>5 DEF DiskTypes
<1>2. LaneTypes'
  <2>1. /\ busy' = busy \ {l} /\ queue' = [queue EXCEPT ![l] = Tail(@)]
        /\ Tail(queue[l]) \in Message
        /\ UNCHANGED <<known, held, attached>>
    BY HandlerDoneFacts
  <2>2. QED
    BY <2>1 DEF LaneTypes
<1>3. UNCHANGED <<net, claims, unwrapping, asking, walk>> /\ BoundTypes'
  BY HandlerDoneFacts
<1>4. QED
  BY <1>1, <1>2, <1>3, PrimedTypeParts, TypeFrames

LEMMA AttachTypes == TypeOK /\ Attach => TypeOK'
<1> SUFFICES ASSUME TypeOK, Attach PROVE TypeOK'
  OBVIOUS
<1> USE TypeParts
<1>1. /\ attached' = TRUE /\ queue' = [queue EXCEPT !["held"] = held] /\ held' = <<>>
      /\ UNCHANGED <<net, disk, saved, claims, unwrapping, asking, walk, known, busy, deepWalked,
                     dropped, bounds>>
  BY DEF Attach
<1>2. LaneTypes'
  <2>1. <<>> \in Message
    BY DEF Message
  <2>2. QED
    BY <1>1, <2>1 DEF LaneTypes
<1>3. QED
  BY <1>1, <1>2, PrimedTypeParts, TypeFrames

(* What a session starts with.                                             *)
Fresh ==
  /\ up = {} /\ stream = [r \in Relays |-> <<>>] /\ everUp = {}
  /\ claimed = {} /\ failures = [w \in Wraps |-> 0] /\ refetch = {}
  /\ unwrapping = [w \in Wraps |-> None] /\ asking = NoAsking
  /\ walk = [k \in Walks |-> IdleWalk]
  /\ known = {} /\ queue = [l \in Lanes |-> <<>>] /\ busy = {} /\ held = <<>>
  /\ attached = FALSE /\ deepWalked = FALSE

LEMMA FreshTypes ==
  Fresh => /\ ClaimTypes /\ LaneTypes /\ deepWalked \in BOOLEAN
           /\ up \subseteq Relays /\ everUp \subseteq Relays /\ stream \in [Relays -> Message]
           /\ walk \in [Walks -> Walk]
<1> SUFFICES ASSUME Fresh
             PROVE  /\ ClaimTypes /\ LaneTypes /\ deepWalked \in BOOLEAN
                    /\ up \subseteq Relays /\ everUp \subseteq Relays
                    /\ stream \in [Relays -> Message] /\ walk \in [Walks -> Walk]
  OBVIOUS
<1>1. <<>> \in Message
  BY DEF Message
<1>2. ClaimTypes
  BY LimitFacts DEF Fresh, ClaimTypes, NoAsking
<1>3. LaneTypes
  BY <1>1 DEF Fresh, LaneTypes
<1>4. walk \in [Walks -> Walk]
  BY IdleWalkType DEF Fresh
<1>5. QED
  BY <1>1, <1>2, <1>3, <1>4 DEF Fresh

LEMMA CrashFacts ==
  Crash => Fresh' /\ Fault /\ UNCHANGED <<published, relayHas, disk, saved, dropped>>
BY DEF Crash, Fresh, NoAsking, IdleWalk

LEMMA InitFresh ==
  Init => /\ Fresh /\ published = Backlog /\ relayHas = [r \in Relays |-> Backlog]
          /\ disk = [watermark |-> 0, open |-> FALSE, cursor |-> 0]
          /\ saved = {} /\ dropped = {} /\ failed = 0 /\ faults = 0
BY DEF Init, Fresh

LEMMA InitTypes == Init => TypeOK
<1> SUFFICES ASSUME Init PROVE TypeOK
  OBVIOUS
<1>0. Fresh /\ published = Backlog /\ relayHas = [r \in Relays |-> Backlog]
  BY InitFresh
<1>1. NetTypes
  <2>1. Backlog \subseteq Wraps
    BY LimitFacts
  <2>2. up \subseteq Relays /\ everUp \subseteq Relays /\ stream \in [Relays -> Message]
    BY <1>0, FreshTypes
  <2>3. QED
    BY <1>0, <2>1, <2>2 DEF NetTypes
<1>2. DiskTypes
  <2>1. /\ disk = [watermark |-> 0, open |-> FALSE, cursor |-> 0]
        /\ saved = {} /\ dropped = {}
    BY InitFresh
  <2>2. deepWalked \in BOOLEAN
    BY <1>0, FreshTypes
  <2>3. QED
    BY <2>1, <2>2 DEF DiskTypes
<1>3. BoundTypes
  BY InitFresh, LimitFacts DEF BoundTypes
<1>4. QED
  BY <1>1, <1>2, <1>3, InitFresh, FreshTypes, TypeParts

LEMMA CrashTypes == TypeOK /\ Crash => TypeOK'
<1> SUFFICES ASSUME TypeOK, Crash PROVE TypeOK'
  OBVIOUS
<1> USE TypeParts
<1>1. Fresh' /\ Fault /\ UNCHANGED <<published, relayHas, disk, saved, dropped>>
  BY CrashFacts
<1>2. /\ ClaimTypes' /\ LaneTypes' /\ deepWalked' \in BOOLEAN
      /\ up' \subseteq Relays /\ everUp' \subseteq Relays /\ stream' \in [Relays -> Message]
      /\ walk' \in [Walks -> Walk]
  <2>1. /\ up' = {} /\ stream' = [r \in Relays |-> <<>>] /\ everUp' = {}
        /\ claimed' = {} /\ failures' = [w \in Wraps |-> 0] /\ refetch' = {}
        /\ unwrapping' = [w \in Wraps |-> None] /\ asking' = NoAsking
        /\ walk' = [k \in Walks |-> IdleWalk]
        /\ known' = {} /\ queue' = [l \in Lanes |-> <<>>] /\ busy' = {} /\ held' = <<>>
        /\ attached' = FALSE /\ deepWalked' = FALSE
    BY <1>1 DEF Fresh, NoAsking, IdleWalk
  <2>2. <<>> \in Message
    BY DEF Message
  <2>3. ClaimTypes'
    BY <2>1, LimitFacts DEF ClaimTypes, NoAsking
  <2>4. LaneTypes'
    BY <2>1, <2>2 DEF LaneTypes
  <2>5. QED
    BY <2>1, <2>2, <2>3, <2>4, IdleWalkType
<1>3. NetTypes'
  BY <1>1, <1>2 DEF NetTypes
<1>4. DiskTypes'
  BY <1>1, <1>2 DEF DiskTypes
<1>5. QED
  BY <1>1, <1>2, <1>3, <1>4, PrimedTypeParts, FaultTypes

(* What a step is.                                                         *)
LEMMA NextActions ==
  ASSUME [Next]_vars
  PROVE  \/ UNCHANGED vars
         \/ Publish \/ Resume \/ StartPoll \/ Attach \/ Crash
         \/ \E r \in Relays : \/ Connect(r) \/ Disconnect(r) \/ Push(r)
                              \/ RefetchAnswered(r) \/ RefetchUnanswered(r)
         \/ \E w \in Wraps : UnwrapOk(w) \/ UnwrapFails(w)
         \/ \E k \in Walks : \/ WalkResolves(k) \/ WalkEnds(k)
                             \/ \E r \in Relays : WalkAnswered(k, r) \/ WalkUnanswered(k, r)
         \/ \E l \in Lanes : Dispatch(l) \/ Delivered(l) \/ DeliveryFails(l)
BY DEF Next, WalkStep

LEMMA NextTypes ==
  ASSUME TypeOK, Claims, Handling, [Next]_vars
  PROVE  TypeOK'
<1>1. CASE UNCHANGED vars
  BY <1>1 DEF vars, net, claims, lanes, bounds, TypeOK
<1>2. CASE Publish \/ Resume \/ StartPoll \/ Attach \/ Crash
  BY <1>2, PublishTypes, ResumeTypes, StartPollTypes, AttachTypes, CrashTypes
<1>3. ASSUME NEW r \in Relays,
             \/ Connect(r) \/ Disconnect(r) \/ Push(r)
             \/ RefetchAnswered(r) \/ RefetchUnanswered(r)
      PROVE  TypeOK'
  BY <1>3, ConnectTypes, DisconnectTypes, PushTypes, RefetchTypes
<1>4. ASSUME NEW w \in Wraps, UnwrapOk(w) \/ UnwrapFails(w)
      PROVE  TypeOK'
  BY <1>4, UnwrapOkTypes, UnwrapFailsTypes
<1>5. ASSUME NEW k \in Walks,
             \/ WalkResolves(k) \/ WalkEnds(k)
             \/ \E r \in Relays : WalkAnswered(k, r) \/ WalkUnanswered(k, r)
      PROVE  TypeOK'
  BY <1>5, WalkResolvesTypes, WalkEndsTypes, WalkAskedTypes
<1>6. ASSUME NEW l \in Lanes, Dispatch(l) \/ Delivered(l) \/ DeliveryFails(l)
      PROVE  TypeOK'
  BY <1>6, DispatchTypes, HandlerDoneTypes
<1>7. QED
  BY <1>1, <1>2, <1>3, <1>4, <1>5, <1>6, NextActions

-----------------------------------------------------------------------------
(* Claims.                                                                 *)
LEMMA ClaimsFrame ==
  Claims /\ UNCHANGED <<claimed, failures, unwrapping>> => Claims'
BY DEF Claims, Unwrapping

LEMMA ClaimClaims ==
  ASSUME ClaimTypes, Claims, NEW wraps \in SUBSET Wraps, NEW route \in {"live"} \cup Walks,
         Claim(wraps \ claimed, route), UNCHANGED <<failures, refetch>>
  PROVE  Claims'
<1>1. wraps \ claimed \in SUBSET Wraps
  OBVIOUS
<1>2. /\ claimed' = claimed \cup (wraps \ claimed)
      /\ \A w \in Wraps : /\ w \in wraps \ claimed => unwrapping'[w] = route
                          /\ w \notin wraps \ claimed => unwrapping'[w] = unwrapping[w]
  BY <1>1, ClaimFacts
<1>3. ASSUME NEW w \in Wraps, unwrapping'[w] # None
      PROVE  w \in claimed' /\ failures'[w] < RetryLimit
  <2>1. CASE w \in wraps \ claimed
    <3>1. ~ (failures[w] >= RetryLimit)
      BY <2>1 DEF Claims
    <3>2. failures[w] < RetryLimit
      BY <3>1, LimitFacts DEF ClaimTypes
    <3>3. QED
      BY <1>2, <2>1, <3>2
  <2>2. CASE w \notin wraps \ claimed
    BY <1>2, <1>3, <2>2 DEF Claims, Unwrapping
  <2>3. QED
    BY <2>1, <2>2
<1>4. ASSUME NEW w \in Wraps, failures'[w] >= RetryLimit
      PROVE  w \in claimed'
  BY <1>2, <1>4 DEF Claims
<1>5. QED
  BY <1>3, <1>4 DEF Claims, Unwrapping

LEMMA ResetClaims ==
  ASSUME ClaimTypes, Claims, NEW relays \in SUBSET Relays, ResetWrapRetryBudget(relays),
         UNCHANGED unwrapping
  PROVE  Claims'
<1>1. CASE UNCHANGED <<claimed, failures>>
  BY <1>1, ClaimsFrame
<1>2. CASE claimed' = claimed \ Parked /\ \A w \in Wraps : failures'[w] = 0
  <2>1. ASSUME NEW w \in Wraps, unwrapping'[w] # None
        PROVE  w \in claimed'
    <3>1. w \in claimed /\ failures[w] < RetryLimit
      BY <2>1 DEF Claims, Unwrapping
    <3>2. w \notin Parked
      BY <3>1, LimitFacts DEF Parked, ClaimTypes
    <3>3. QED
      BY <1>2, <3>1, <3>2
  <2>2. QED
    BY <1>2, <2>1, LimitFacts DEF Claims, Unwrapping
<1>3. QED
  BY <1>1, <1>2, ResetFacts

LEMMA UnwrapClaims ==
  ASSUME TypeOK, Claims, NEW w \in Wraps, UnwrapOk(w) \/ UnwrapFails(w)
  PROVE  Claims'
<1> USE TypeParts
<1>1. w \in claimed /\ failures[w] < RetryLimit
  BY DEF UnwrapOk, UnwrapFails, Claims, Unwrapping
<1>2. unwrapping \in [Wraps -> {"live", "stray", "lost", None} \cup Walks]
  BY DEF ClaimTypes
<1>3. CASE UnwrapOk(w)
  <2>1. /\ claimed' = claimed /\ failures'[w] = 0
        /\ \A v \in Wraps : v # w => failures'[v] = failures[v]
    BY <1>3, UnwrapOkFacts, CommitFacts
  <2>2. \A v \in Wraps : v # w => unwrapping'[v] = unwrapping[v]
    BY <1>2, <1>3, UnwrapOkFacts
  <2>3. ASSUME NEW v \in Wraps
        PROVE  /\ unwrapping'[v] # None => v \in claimed' /\ failures'[v] < RetryLimit
               /\ failures'[v] >= RetryLimit => v \in claimed'
    <3>1. CASE v = w
      BY <1>1, <2>1, <3>1, LimitFacts
    <3>2. CASE v # w
      BY <2>1, <2>2, <3>2 DEF Claims, Unwrapping
    <3>3. QED
      BY <3>1, <3>2
  <2>4. QED
    BY <2>3 DEF Claims, Unwrapping
<1>4. CASE UnwrapFails(w)
  <2>1. ReleaseWrapId(w) /\ unwrapping' = [unwrapping EXCEPT ![w] = None]
    BY <1>4, UnwrapFailsFacts
  <2>2. /\ \A v \in Wraps : v # w => failures'[v] = failures[v]
        /\ \/ claimed' = claimed \ {w} /\ failures'[w] < RetryLimit
           \/ claimed' = claimed /\ failures'[w] >= RetryLimit
        /\ failures' \in [Wraps -> 0..RetryLimit]
    BY <1>1, <2>1, ReleaseFacts
  <2>3. ASSUME NEW v \in Wraps
        PROVE  /\ unwrapping'[v] # None => v \in claimed' /\ failures'[v] < RetryLimit
               /\ failures'[v] >= RetryLimit => v \in claimed'
    <3>1. CASE v = w
      <4>1. unwrapping'[v] = None
        BY <1>2, <2>1, <3>1
      <4>2. failures'[v] >= RetryLimit => v \in claimed'
        BY <1>1, <2>2, <3>1, LimitFacts
      <4>3. QED
        BY <4>1, <4>2
    <3>2. CASE v # w
      <4>1. unwrapping'[v] = unwrapping[v] /\ failures'[v] = failures[v]
        BY <1>2, <2>1, <2>2, <3>2
      <4>2. v \in claimed => v \in claimed'
        BY <2>2, <3>2
      <4>3. QED
        BY <4>1, <4>2 DEF Claims, Unwrapping
    <3>3. QED
      BY <3>1, <3>2
  <2>4. QED
    BY <2>3 DEF Claims, Unwrapping
<1>5. QED
  BY <1>3, <1>4

LEMMA FreshClaims == Fresh => Claims
BY LimitFacts DEF Fresh, Claims, Unwrapping

LEMMA CrashClaims == Crash => Claims'
<1> SUFFICES ASSUME Crash PROVE Claims'
  OBVIOUS
<1>1. failures' = [w \in Wraps |-> 0] /\ unwrapping' = [w \in Wraps |-> None]
  BY DEF Crash
<1>2. QED
  BY <1>1, LimitFacts DEF Claims, Unwrapping

LEMMA NextClaims ==
  ASSUME TypeOK, Claims, [Next]_vars
  PROVE  Claims'
<1> USE TypeParts
<1>1. CASE UNCHANGED vars \/ Publish \/ StartPoll \/ Attach
  BY <1>1, ClaimsFrame DEF vars, claims, Publish, StartPoll, Attach
<1>2. CASE Resume
  <2>1. up \in SUBSET Relays /\ ResetWrapRetryBudget(up) /\ UNCHANGED unwrapping
    BY <1>2 DEF Resume, NetTypes
  <2>2. QED
    BY <2>1, ResetClaims
<1>3. CASE Crash
  BY <1>3, CrashClaims
<1>4. ASSUME NEW r \in Relays, Connect(r) PROVE Claims'
  <2>1. up' \in SUBSET Relays /\ UNCHANGED unwrapping
    BY <1>4 DEF Connect, NetTypes
  <2>2. ResetWrapRetryBudget(up') \/ UNCHANGED claims
    BY <1>4 DEF Connect
  <2>3. QED
    BY <2>1, <2>2, ResetClaims, ClaimsFrame DEF claims
<1>5. ASSUME NEW r \in Relays, Disconnect(r) PROVE Claims'
  BY <1>5, ClaimsFrame DEF Disconnect, claims
<1>6. ASSUME NEW r \in Relays, Push(r) PROVE Claims'
  <2>1. stream[r] \in Message /\ stream[r] # <<>>
    BY <1>6 DEF Push, NetTypes
  <2>2. {Head(stream[r])} \in SUBSET Wraps
    BY <2>1, HeadFacts
  <2>3. Claim({Head(stream[r])} \ claimed, "live") /\ UNCHANGED <<failures, refetch>>
    BY <1>6 DEF Push
  <2>4. QED
    BY <2>2, <2>3, ClaimClaims
<1>7. ASSUME NEW r \in Relays, RefetchAnswered(r) \/ RefetchUnanswered(r) PROVE Claims'
  <2>1. PICK events \in SUBSET Wraps : Refetched(r, events)
    BY <1>7, RefetchFactsOf
  <2>2. Claim(events \ claimed, "live") /\ UNCHANGED <<failures, refetch>>
    BY <2>1 DEF Refetched
  <2>3. QED
    BY <2>2, ClaimClaims
<1>8. ASSUME NEW w \in Wraps, UnwrapOk(w) \/ UnwrapFails(w) PROVE Claims'
  BY <1>8, UnwrapClaims
<1>9. ASSUME NEW k \in Walks, WalkResolves(k) PROVE Claims'
  <2>1. /\ unwrapping' = [v \in Wraps |-> IF v \in Pending(k) THEN "stray" ELSE unwrapping[v]]
        /\ UNCHANGED claims
    BY <1>9, WalkResolvesFacts
  <2>2. ASSUME NEW v \in Wraps, unwrapping'[v] # None PROVE unwrapping[v] # None
    BY <2>1, <2>2, LaneFacts DEF Pending
  <2>3. QED
    BY <2>1, <2>2 DEF Claims, Unwrapping, claims
<1>10. ASSUME NEW k \in Walks, WalkEnds(k) PROVE Claims'
  BY <1>10, ClaimsFrame DEF WalkEnds
<1>11. ASSUME NEW k \in Walks, NEW r \in Relays, WalkAnswered(k, r) \/ WalkUnanswered(k, r)
       PROVE  Claims'
  <2>1. PICK got \in SUBSET Wraps, outcome \in {"exhausted", "truncated", "unknown"}, cursor \in Nat :
          PageArrives(k, r, got, outcome, cursor)
    BY <1>11, WalkAskedFacts
  <2>2. Claim(got \ claimed, k) /\ UNCHANGED <<failures, refetch>>
    BY <2>1 DEF PageArrives
  <2>3. QED
    BY <2>2, ClaimClaims
<1>12. ASSUME NEW l \in Lanes, Dispatch(l) \/ Delivered(l) \/ DeliveryFails(l) PROVE Claims'
  <2>1. UNCHANGED <<claims, unwrapping>>
    BY <1>12 DEF Dispatch, Delivered, DeliveryFails, HandlerDone
  <2>2. QED
    BY <2>1, ClaimsFrame DEF claims
<1>13. QED
  BY <1>1, <1>2, <1>3, <1>4, <1>5, <1>6, <1>7, <1>8, <1>9, <1>10, <1>11, <1>12, NextActions

-----------------------------------------------------------------------------
(* Walks.                                                                  *)
WalkFits(k) ==
  /\ walk[k].phase \notin Gathering => walk[k].got = <<>>
  /\ walk[k].phase # "unwrapping" => \A w \in Wraps : unwrapping[w] # k
  /\ walk[k].phase # "dispatching" => queue[k] = <<>>

(* A walk that stays in its phase.                                         *)
LEMMA SamePhase ==
  ASSUME NEW k \in Walks, WalkFits(k),
         walk'[k].phase = walk[k].phase,
         walk'[k].got = walk[k].got \/ walk[k].phase \in Gathering,
         \A w \in Wraps : unwrapping'[w] = k => unwrapping[w] = k,
         queue'[k] = queue[k] \/ walk[k].phase = "dispatching"
  PROVE  WalkFits(k)'
BY DEF WalkFits

LEMMA ClaimRoutes ==
  ASSUME ClaimTypes, NEW wraps \in SUBSET Wraps, NEW route \in {"live"} \cup Walks,
         Claim(wraps \ claimed, route), UNCHANGED <<failures, refetch>>,
         NEW k \in Walks, k # route, NEW w \in Wraps, unwrapping'[w] = k
  PROVE  unwrapping[w] = k
<1>1. wraps \ claimed \in SUBSET Wraps
  OBVIOUS
<1>2. /\ w \in wraps \ claimed => unwrapping'[w] = route
      /\ w \notin wraps \ claimed => unwrapping'[w] = unwrapping[w]
  BY <1>1, ClaimFacts
<1>3. QED
  BY <1>2

LEMMA WalkingFrame ==
  Walking /\ UNCHANGED <<walk, unwrapping, queue>> => Walking'
BY DEF Walking

LEMMA NextWalking ==
  ASSUME TypeOK, Walking, Handling, [Next]_vars
  PROVE  Walking'
<1> USE TypeParts
<1> SUFFICES ASSUME NEW k \in Walks PROVE WalkFits(k)'
  BY DEF Walking, WalkFits
<1>0. /\ WalkFits(k) /\ walk[k] \in Walk /\ k \in Lanes
      /\ k \notin {"live", "held", "stray", "lost", None}
      /\ walk \in [Walks -> Walk] /\ queue \in [Lanes -> Message]
      /\ unwrapping \in [Wraps -> {"live", "stray", "lost", None} \cup Walks]
  BY LaneFacts DEF Walking, WalkFits, ClaimTypes, LaneTypes
<1>1. CASE UNCHANGED vars \/ Publish \/ Resume
  BY <1>0, <1>1, SamePhase DEF vars, lanes, Publish, Resume
<1>2. CASE Attach
  <2>1. queue'[k] = queue[k] /\ UNCHANGED <<walk, unwrapping>>
    BY <1>0, <1>2 DEF Attach
  <2>2. QED
    BY <1>0, <2>1, SamePhase
<1>3. CASE Crash
  <2>1. /\ walk' = [j \in Walks |-> IdleWalk] /\ queue' = [l \in Lanes |-> <<>>]
        /\ unwrapping' = [w \in Wraps |-> None]
    BY <1>3 DEF Crash
  <2>2. /\ walk'[k] = IdleWalk /\ queue'[k] = <<>>
        /\ \A w \in Wraps : unwrapping'[w] # k
    BY <1>0, <2>1
  <2>3. IdleWalk.phase = "idle" /\ IdleWalk.got = <<>>
    BY DEF IdleWalk
  <2>4. QED
    BY <2>2, <2>3 DEF WalkFits
<1>4. ASSUME walk[k].phase = "idle", NEW since \in Nat, NEW relays \in SUBSET Relays,
             walk' = [walk EXCEPT ![k] = NewWalk(since, relays)],
             UNCHANGED <<unwrapping, queue>>
      PROVE  WalkFits(k)'
  <2>1. walk'[k].phase = "asking" /\ (\A w \in Wraps : unwrapping[w] # k) /\ queue[k] = <<>>
    BY <1>0, <1>4, NewWalkFacts DEF WalkFits
  <2>2. QED
    BY <1>4, <2>1 DEF WalkFits, Gathering
<1>5. CASE StartPoll
  <2>1. /\ walk["poll"].phase = "idle" /\ UNCHANGED <<unwrapping, queue>>
        /\ walk' = [walk EXCEPT !["poll"] = NewWalk(WindowSince, up)]
    BY <1>5 DEF StartPoll, lanes
  <2>2. WindowSince \in Nat /\ up \in SUBSET Relays
    BY WindowSinceType DEF NetTypes
  <2>3. CASE k = "poll"
    BY <1>4, <2>1, <2>2, <2>3
  <2>4. CASE k # "poll"
    <3>1. walk'[k] = walk[k]
      BY <1>0, <2>1, <2>4
    <3>2. QED
      BY <1>0, <2>1, <3>1, SamePhase
  <2>5. QED
    BY <2>3, <2>4
<1>6. ASSUME NEW r \in Relays, Connect(r) PROVE WalkFits(k)'
  <2>1. UNCHANGED <<unwrapping, queue>>
    BY <1>6 DEF Connect, lanes
  <2>2. CASE walk' = walk
    BY <1>0, <2>1, <2>2, SamePhase
  <2>3. CASE walk[r].phase = "idle" /\ walk' = [walk EXCEPT ![r] = NewWalk(CatchUpSince, {r})]
    <3>1. CASE k = r
      BY <1>4, <2>1, <2>3, <3>1, CatchUpSinceType
    <3>2. CASE k # r
      <4>1. walk'[k] = walk[k]
        BY <1>0, <2>3, <3>2
      <4>2. QED
        BY <1>0, <2>1, <4>1, SamePhase
    <3>3. QED
      BY <3>1, <3>2
  <2>4. QED
    BY <1>6, <2>2, <2>3 DEF Connect
<1>7. ASSUME NEW r \in Relays, Disconnect(r) PROVE WalkFits(k)'
  BY <1>0, <1>7, SamePhase DEF Disconnect, lanes
<1>8. ASSUME NEW r \in Relays, Push(r) PROVE WalkFits(k)'
  <2>1. stream[r] \in Message /\ stream[r] # <<>>
    BY <1>8 DEF Push, NetTypes
  <2>2. {Head(stream[r])} \in SUBSET Wraps
    BY <2>1, HeadFacts
  <2>3. /\ Claim({Head(stream[r])} \ claimed, "live")
        /\ UNCHANGED <<failures, refetch, walk, queue>>
    BY <1>8 DEF Push, lanes
  <2>4. \A w \in Wraps : unwrapping'[w] = k => unwrapping[w] = k
    BY <1>0, <2>2, <2>3, ClaimRoutes
  <2>5. QED
    BY <1>0, <2>3, <2>4, SamePhase
<1>9. ASSUME NEW r \in Relays, RefetchAnswered(r) \/ RefetchUnanswered(r) PROVE WalkFits(k)'
  <2>1. PICK events \in SUBSET Wraps : Refetched(r, events)
    BY <1>9, RefetchFactsOf
  <2>2. /\ Claim(events \ claimed, "live") /\ UNCHANGED <<failures, refetch, queue>>
        /\ \/ walk' = walk
           \/ walk["poll"].phase = "refetching" /\ walk' = [walk EXCEPT !["poll"] = IdleWalk]
    BY <2>1, RefetchedTypes DEF lanes
  <2>3. \A w \in Wraps : unwrapping'[w] = k => unwrapping[w] = k
    <3>1. Claim(events \ claimed, "live") /\ UNCHANGED <<failures, refetch>> /\ k # "live"
      BY <1>0, <2>2
    <3>2. QED
      BY <3>1, ClaimRoutes
  <2>4. CASE walk'[k] = walk[k]
    BY <1>0, <2>2, <2>3, <2>4, SamePhase
  <2>5. CASE walk[k].phase = "refetching" /\ walk'[k] = IdleWalk
    <3>1. (\A w \in Wraps : unwrapping[w] # k) /\ queue[k] = <<>>
      BY <1>0, <2>5 DEF WalkFits
    <3>2. IdleWalk.phase = "idle" /\ IdleWalk.got = <<>>
      BY DEF IdleWalk
    <3>3. QED
      BY <2>2, <2>3, <2>5, <3>1, <3>2 DEF WalkFits
  <2>6. QED
    BY <1>0, <2>2, <2>4, <2>5
<1>10. ASSUME NEW w \in Wraps, UnwrapOk(w) PROVE WalkFits(k)'
  <2>1. \A v \in Wraps : unwrapping'[v] = k => unwrapping[v] = k
    BY <1>0, <1>10, UnwrapOkFacts
  <2>2. queue'[k] = queue[k]
    BY <1>0, <1>10, UnwrapOkFacts
  <2>3. CASE unwrapping[w] = k
    <3>1. walk[k].phase = "unwrapping"
      BY <1>0, <2>3 DEF WalkFits
    <3>2. walk' = [walk EXCEPT ![k].got = Append(@, w)]
      BY <1>0, <1>10, <2>3, UnwrapOkFacts
    <3>3. walk'[k].phase = walk[k].phase
      BY <1>0, <3>2 DEF Walk
    <3>4. QED
      BY <1>0, <2>1, <2>2, <3>1, <3>3, SamePhase DEF Gathering
  <2>4. CASE unwrapping[w] # k
    <3>1. walk'[k] = walk[k]
      BY <1>0, <1>10, <2>4, UnwrapOkFacts
    <3>2. QED
      BY <1>0, <2>1, <2>2, <3>1, SamePhase
  <2>5. QED
    BY <2>3, <2>4
<1>11. ASSUME NEW w \in Wraps, UnwrapFails(w) PROVE WalkFits(k)'
  <2>1. unwrapping' = [unwrapping EXCEPT ![w] = None] /\ UNCHANGED <<walk, queue>>
    BY <1>11 DEF UnwrapFails, lanes
  <2>2. \A v \in Wraps : unwrapping'[v] = k => unwrapping[v] = k
    BY <1>0, <2>1
  <2>3. QED
    BY <1>0, <2>1, <2>2, SamePhase
<1>12. ASSUME NEW j \in Walks, WalkResolves(j) PROVE WalkFits(k)'
  <2>1. /\ walk[j].phase = "unwrapping"
        /\ unwrapping' = [v \in Wraps |-> IF v \in Pending(j) THEN "stray" ELSE unwrapping[v]]
    BY <1>12, WalkResolvesFacts
  <2>2. \A v \in Wraps : unwrapping'[v] = k => unwrapping[v] = k
    BY <1>0, <2>1
  <2>3. CASE k # j
    <3>1. walk'[k] = walk[k] /\ queue'[k] = queue[k]
      BY <1>0, <1>12, <2>3, WalkResolvesFacts
    <3>2. QED
      BY <1>0, <2>2, <3>1, SamePhase
  <2>4. CASE k = j
    <3>1. \A v \in Wraps : unwrapping'[v] # k
      BY <1>0, <2>1, <2>4 DEF Pending
    <3>2. CASE walk'[k].phase = "asking" /\ queue' = queue
      <4>1. queue[k] = <<>>
        BY <1>0, <2>1, <2>4 DEF WalkFits
      <4>2. QED
        BY <3>1, <3>2, <4>1 DEF WalkFits, Gathering
    <3>3. CASE walk' = [walk EXCEPT ![k] = [IdleWalk EXCEPT !.phase = "dispatching"]]
      <4>1. walk'[k].phase = "dispatching" /\ walk'[k].got = <<>>
        BY <1>0, <3>3, PhaseFacts
      <4>2. QED
        BY <3>1, <4>1 DEF WalkFits
    <3>4. \/ walk'[k].phase = "asking" /\ queue' = queue
          \/ walk' = [walk EXCEPT ![k] = [IdleWalk EXCEPT !.phase = "dispatching"]]
      <4> DEFINE next == [walk[k] EXCEPT !.phase = "asking", !.todo = @ \ {walk[k].relay},
                            !.relay = None, !.outcome = None, !.cursor = 0,
                            !.truncated = Found(walk[k]), !.exhausted = Bottom(walk[k])]
      <4>1. next.phase = "asking"
        BY <1>0 DEF Walk
      <4>2. \/ walk' = [walk EXCEPT ![k] = next] /\ queue' = queue
            \/ walk' = [walk EXCEPT ![k] = [IdleWalk EXCEPT !.phase = "dispatching"]]
        BY <1>12, <2>4, WalkResolvesFacts
      <4> HIDE DEF next
      <4>3. QED
        BY <1>0, <4>1, <4>2
    <3>5. QED
      BY <3>2, <3>3, <3>4
  <2>5. QED
    BY <2>3, <2>4
<1>13. ASSUME NEW j \in Walks, WalkEnds(j) PROVE WalkFits(k)'
  <2>1. /\ walk[j].phase = "dispatching" /\ queue[j] = <<>>
        /\ UNCHANGED <<unwrapping, queue>>
        /\ \/ walk' = [walk EXCEPT ![j] = [IdleWalk EXCEPT !.phase = "refetching"]]
           \/ walk' = [walk EXCEPT ![j] = IdleWalk]
    BY <1>13 DEF WalkEnds, lanes
  <2>2. CASE k # j
    <3>1. walk'[k] = walk[k]
      BY <1>0, <2>1, <2>2
    <3>2. QED
      BY <1>0, <2>1, <3>1, SamePhase
  <2>3. CASE k = j
    <3>1. \A w \in Wraps : unwrapping[w] # k
      BY <1>0, <2>1, <2>3 DEF WalkFits
    <3>2. walk'[k].phase \in {"refetching", "idle"} /\ walk'[k].got = <<>>
      <4>1. IdleWalk.phase = "idle" /\ IdleWalk.got = <<>>
        BY DEF IdleWalk
      <4>2. QED
        BY <1>0, <2>1, <2>3, <4>1, PhaseFacts
    <3>3. QED
      BY <2>1, <2>3, <3>1, <3>2 DEF WalkFits
  <2>4. QED
    BY <2>2, <2>3
<1>14. ASSUME NEW j \in Walks, NEW r \in Relays, WalkAnswered(j, r) \/ WalkUnanswered(j, r)
       PROVE  WalkFits(k)'
  <2>1. PICK got \in SUBSET Wraps, outcome \in {"exhausted", "truncated", "unknown"}, cursor \in Nat :
          PageArrives(j, r, got, outcome, cursor)
    BY <1>14, WalkAskedFacts
  <2>2. /\ walk[j].phase = "asking" /\ Claim(got \ claimed, j)
        /\ walk' = [walk EXCEPT ![j].phase = "unwrapping", ![j].relay = r,
                                ![j].outcome = outcome, ![j].cursor = cursor]
        /\ UNCHANGED <<failures, refetch, queue>>
    BY <2>1 DEF PageArrives, lanes
  <2>3. CASE k # j
    <3>1. walk'[k] = walk[k]
      BY <1>0, <2>2, <2>3
    <3>2. \A w \in Wraps : unwrapping'[w] = k => unwrapping[w] = k
      BY <2>2, <2>3, ClaimRoutes
    <3>3. QED
      BY <1>0, <2>2, <3>1, <3>2, SamePhase
  <2>4. CASE k = j
    <3>1. walk'[k].phase = "unwrapping"
      BY <1>0, <2>2, <2>4 DEF Walk
    <3>2. queue[k] = <<>>
      BY <1>0, <2>2, <2>4 DEF WalkFits
    <3>3. QED
      BY <2>2, <3>1, <3>2 DEF WalkFits, Gathering
  <2>5. QED
    BY <2>3, <2>4
<1>15. ASSUME NEW l \in Lanes, Dispatch(l) \/ Delivered(l) \/ DeliveryFails(l)
       PROVE  WalkFits(k)'
  <2>1. UNCHANGED <<walk, unwrapping>>
    BY <1>15 DEF Dispatch, Delivered, DeliveryFails, HandlerDone
  <2>2. queue' = queue \/ queue' = [queue EXCEPT ![l] = Tail(@)]
    BY <1>15 DEF Dispatch, Delivered, DeliveryFails, HandlerDone
  <2>3. queue[l] # <<>>
    BY <1>15, HandlerDoneFacts DEF Dispatch
  <2>4. queue'[k] = queue[k] \/ walk[k].phase = "dispatching"
    <3>1. CASE k # l
      BY <1>0, <2>2, <3>1
    <3>2. CASE k = l
      BY <1>0, <2>3, <3>2 DEF WalkFits
    <3>3. QED
      BY <3>1, <3>2
  <2>5. QED
    BY <1>0, <2>1, <2>4, SamePhase
<1>16. QED
  BY <1>1, <1>2, <1>3, <1>5, <1>6, <1>7, <1>8, <1>9, <1>10, <1>11, <1>12, <1>13, <1>14, <1>15,
     NextActions

-----------------------------------------------------------------------------
(* The receive handler.                                                    *)
LEMMA OneOfEachTail ==
  ASSUME NEW s \in Message, s # <<>>, OneOfEach(s)
  PROVE  OneOfEach(Tail(s)) /\ Range(Tail(s)) \subseteq Range(s)
<1>1. /\ \A i \in DOMAIN Tail(s) : i + 1 \in DOMAIN s /\ Tail(s)[i] = s[i + 1]
      /\ Range(s) = {Head(s)} \cup Range(Tail(s))
  BY HeadFacts
<1>2. DOMAIN Tail(s) \subseteq Nat
  <2>1. Tail(s) \in Seq(Wraps)
    BY HeadFacts DEF Message
  <2>2. QED
    BY <2>1
<1>3. ASSUME NEW i \in DOMAIN Tail(s), NEW j \in DOMAIN Tail(s),
             Rumor[Tail(s)[i]] = Rumor[Tail(s)[j]]
      PROVE  i = j
  <2>1. i + 1 = j + 1
    BY <1>1, <1>3 DEF OneOfEach
  <2>2. QED
    BY <1>2, <2>1
<1>4. QED
  BY <1>1, <1>3 DEF OneOfEach

LEMMA OneOfEachAppend ==
  ASSUME NEW s \in Message, NEW w \in Wraps, OneOfEach(s),
         \A v \in Range(s) : Rumor[v] # Rumor[w]
  PROVE  OneOfEach(Append(s, w))
<1> DEFINE t == Append(s, w)
<1>1. /\ DOMAIN t = DOMAIN s \cup {Len(s) + 1} /\ t[Len(s) + 1] = w
      /\ \A i \in DOMAIN s : t[i] = s[i] /\ i # Len(s) + 1
  BY AppendMessage
<1>2. \A i \in DOMAIN s : s[i] \in Range(s)
  BY DEF Range
<1> HIDE DEF t
<1>3. ASSUME NEW i \in DOMAIN t, NEW j \in DOMAIN t, Rumor[t[i]] = Rumor[t[j]]
      PROVE  i = j
  BY <1>1, <1>2, <1>3 DEF OneOfEach
<1>4. QED
  BY <1>3 DEF OneOfEach, t

LEMMA EmptyMessage ==
  <<>> \in Message /\ Range(<<>>) = {} /\ OneOfEach(<<>>)
BY DEF Message, Range, OneOfEach

Orderly == Handling /\ Apart

(* A step that leaves the messages being handled, and those that wait,     *)
(* where they are.                                                         *)
LEMMA OrderlyFrame ==
  ASSUME Orderly, known \subseteq known', UNCHANGED <<busy, held, attached>>,
         queue'["held"] = queue["held"],
         \A l \in busy : queue'[l] # <<>> /\ Head(queue'[l]) = Head(queue[l])
  PROVE  Orderly'
<1>1. Handling'
  BY DEF Orderly, Handling
<1>2. Apart'
  BY DEF Orderly, Apart, OneOfEach
<1>3. QED
  BY <1>1, <1>2 DEF Orderly

LEMMA UnwrapOkOrderly ==
  ASSUME TypeOK, Orderly, NEW w \in Wraps, UnwrapOk(w)
  PROVE  Orderly'
<1> USE TypeParts
<1>1. UNCHANGED <<known, busy, held, attached>>
  BY UnwrapOkFacts
<1>2. queue' = queue \/ queue' = [queue EXCEPT !["live"] = Append(@, w)]
  BY UnwrapOkFacts
<1>3. \A l \in busy : queue[l] # <<>> /\ l \in Lanes
  BY DEF Orderly, Handling, LaneTypes
<1>4. queue["live"] \in Message /\ queue \in [Lanes -> Message] /\ "held" \in Lanes
  BY LaneFacts DEF LaneTypes
<1>5. ASSUME NEW l \in busy
      PROVE  queue'[l] # <<>> /\ Head(queue'[l]) = Head(queue[l])
  <2>1. CASE queue'[l] = queue[l]
    BY <1>3, <2>1
  <2>2. CASE queue'[l] = Append(queue[l], w)
    <3>1. queue[l] \in Message /\ queue[l] # <<>>
      BY <1>3, <1>4
    <3>2. Append(queue[l], w) # <<>> /\ Head(Append(queue[l], w)) = Head(queue[l])
      BY <3>1, AppendMessage
    <3>3. QED
      BY <2>2, <3>2
  <2>3. QED
    BY <1>2, <1>3, <1>4, <2>1, <2>2
<1>6. queue'["held"] = queue["held"]
  BY <1>2, <1>4
<1>7. QED
  BY <1>1, <1>5, <1>6, OrderlyFrame

LEMMA WalkResolvesOrderly ==
  ASSUME TypeOK, Walking, Orderly, NEW k \in Walks, WalkResolves(k)
  PROVE  Orderly'
<1> USE TypeParts
<1>1. /\ walk[k].phase = "unwrapping" /\ UNCHANGED <<known, busy, held, attached>>
      /\ queue' = queue \/ queue' = [queue EXCEPT ![k] = walk[k].got]
  BY WalkResolvesFacts
<1>2. queue[k] = <<>>
  BY <1>1 DEF Walking
<1>3. \A l \in busy : queue[l] # <<>> /\ l \in Lanes
  BY DEF Orderly, Handling, LaneTypes
<1>4. queue \in [Lanes -> Message] /\ k # "held"
  BY LaneFacts DEF LaneTypes
<1>5. /\ queue'["held"] = queue["held"]
      /\ \A l \in busy : queue'[l] = queue[l]
  BY <1>1, <1>2, <1>3, <1>4, LaneFacts
<1>6. QED
  BY <1>1, <1>3, <1>5, OrderlyFrame

LEMMA DispatchOrderly ==
  ASSUME TypeOK, Orderly, NEW l \in Lanes, Dispatch(l)
  PROVE  Orderly'
<1> USE TypeParts
<1> DEFINE w == Head(queue[l])
<1>1. /\ queue[l] # <<>> /\ l \notin busy /\ queue[l] \in Message
      /\ known' = known \cup {Rumor[w]} /\ UNCHANGED attached
  BY DispatchFacts
<1>2. /\ queue \in [Lanes -> Message] /\ held \in Message /\ "held" \in Lanes
      /\ \A k \in busy : queue[k] # <<>> /\ k \in Lanes
  BY LaneFacts DEF Orderly, Handling, LaneTypes
<1>3. w \in Wraps /\ w \in Range(queue[l])
  BY <1>1, HeadFacts
<1> HIDE DEF w
<1>4. CASE /\ l # "held" /\ queue' = [queue EXCEPT ![l] = Tail(@)]
           /\ UNCHANGED <<busy, held>>
  <2>1. queue'["held"] = queue["held"] /\ \A k \in busy : queue'[k] = queue[k]
    BY <1>1, <1>2, <1>4
  <2>2. QED
    BY <1>1, <1>2, <1>4, <2>1, OrderlyFrame
<1>5. CASE /\ attached /\ (l # "held" => Rumor[w] \notin known)
           /\ busy' = busy \cup {l} /\ UNCHANGED <<queue, held>>
  <2>1. Handling'
    BY <1>1, <1>5 DEF Orderly, Handling, w
  <2>2. CASE l = "held"
    <3>1. busy' \ {"held"} = busy \ {"held"}
      BY <1>5, <2>2
    <3>2. \A k \in busy' : busy' \ {"held", k} = busy \ {"held", k}
      BY <1>5, <2>2
    <3>3. Apart'
      BY <1>5, <3>1, <3>2 DEF Orderly, Apart, OneOfEach
    <3>4. QED
      BY <2>1, <3>3 DEF Orderly
  <2>3. CASE l # "held"
    <3>1. Rumor[w] \notin known
      BY <1>5, <2>3
    <3>2. /\ \A k \in busy : Rumor[Head(queue[k])] # Rumor[w]
          /\ \A v \in Range(queue["held"]) : Rumor[v] # Rumor[w]
      BY <3>1 DEF Orderly, Handling
    <3>3. OneOfEach(held) /\ OneOfEach(queue["held"])
      BY DEF Orderly, Apart
    <3>4. ASSUME NEW j \in busy' \ {"held"}
          PROVE  /\ \A k \in busy' \ {"held", j} :
                      Rumor[Head(queue[j])] # Rumor[Head(queue[k])]
                 /\ \A v \in Range(queue["held"]) : Rumor[Head(queue[j])] # Rumor[v]
      <4>1. CASE j = l
        BY <1>5, <3>2, <4>1 DEF w
      <4>2. CASE j # l
        <5>1. j \in busy \ {"held"}
          BY <1>5, <3>4, <4>2
        <5>2. /\ \A k \in busy \ {"held", j} :
                   Rumor[Head(queue[j])] # Rumor[Head(queue[k])]
              /\ \A v \in Range(queue["held"]) : Rumor[Head(queue[j])] # Rumor[v]
          BY <5>1 DEF Orderly, Apart
        <5>3. Rumor[Head(queue[j])] # Rumor[Head(queue[l])]
          BY <3>2, <5>1 DEF w
        <5>4. QED
          BY <1>5, <5>2, <5>3
      <4>3. QED
        BY <4>1, <4>2
    <3>5. Apart'
      BY <1>5, <3>3, <3>4 DEF Apart, OneOfEach
    <3>6. QED
      BY <2>1, <3>5 DEF Orderly
  <2>4. QED
    BY <2>2, <2>3
<1>6. CASE /\ ~ attached /\ (l # "held" => Rumor[w] \notin known)
           /\ queue' = [queue EXCEPT ![l] = Tail(@)]
           /\ held' = Append(held, w) /\ UNCHANGED busy
  <2>1. busy = {} /\ queue["held"] = <<>>
    BY <1>6 DEF Orderly, Handling
  <2>2. l # "held"
    BY <1>1, <2>1
  <2>3. queue'["held"] = <<>>
    BY <1>2, <1>6, <2>1, <2>2
  <2>4. Range(held') = Range(held) \cup {w}
    BY <1>2, <1>3, <1>6, AppendMessage
  <2>5. Handling'
    BY <1>1, <1>6, <2>1, <2>3, <2>4, EmptyMessage DEF Orderly, Handling
  <2>6. OneOfEach(held')
    <3>1. \A v \in Range(held) : Rumor[v] # Rumor[w]
      BY <1>6, <2>2 DEF Orderly, Handling
    <3>2. OneOfEach(held)
      BY DEF Orderly, Apart
    <3>3. OneOfEach(Append(held, w))
      BY <1>2, <1>3, <3>1, <3>2, OneOfEachAppend
    <3>4. QED
      BY <1>6, <3>3
  <2>7. Apart'
    <3>1. OneOfEach(queue'["held"])
      BY <2>3, EmptyMessage
    <3>2. busy' = {}
      BY <1>6, <2>1
    <3>3. QED
      BY <2>6, <3>1, <3>2 DEF Apart, OneOfEach
  <2>8. QED
    BY <2>5, <2>7 DEF Orderly
<1>7. QED
  BY <1>4, <1>5, <1>6, DispatchFacts DEF w

LEMMA HandlerDoneOrderly ==
  ASSUME TypeOK, Orderly, NEW l \in Lanes, Delivered(l) \/ DeliveryFails(l)
  PROVE  Orderly'
<1> USE TypeParts
<1> DEFINE tail == Tail(queue[l])
<1>1. /\ l \in busy /\ queue[l] # <<>> /\ queue[l] \in Message
      /\ busy' = busy \ {l} /\ queue' = [queue EXCEPT ![l] = tail]
      /\ UNCHANGED <<known, held, attached>>
  BY HandlerDoneFacts DEF Orderly
<1>2. /\ queue \in [Lanes -> Message] /\ "held" \in Lanes
      /\ \A k \in busy : queue[k] # <<>> /\ k \in Lanes
  BY LaneFacts DEF Orderly, Handling, LaneTypes
<1>3. attached /\ held = <<>>
  BY <1>1 DEF Orderly, Handling
<1>4. /\ Range(queue'["held"]) \subseteq Range(queue["held"])
      /\ OneOfEach(queue'["held"])
  <2>1. OneOfEach(queue["held"])
    BY DEF Orderly, Apart
  <2>2. CASE l = "held"
    <3>1. queue'["held"] = tail
      BY <1>1, <1>2, <2>2
    <3>2. OneOfEach(tail) /\ Range(tail) \subseteq Range(queue["held"])
      BY <1>1, <2>1, <2>2, OneOfEachTail
    <3>3. QED
      BY <3>1, <3>2
  <2>3. CASE l # "held"
    <3>1. queue'["held"] = queue["held"]
      BY <1>1, <1>2, <2>3
    <3>2. QED
      BY <2>1, <3>1
  <2>4. QED
    BY <2>2, <2>3
<1>5. \A k \in busy' : k \in busy /\ k # l /\ queue'[k] = queue[k]
  BY <1>1, <1>2
<1>6. Handling'
  <2>1. \A k \in busy' : queue'[k] # <<>> /\ Rumor[Head(queue'[k])] \in known'
    BY <1>1, <1>5 DEF Orderly, Handling
  <2>2. \A w \in Range(held') \cup Range(queue'["held"]) : Rumor[w] \in known'
    BY <1>1, <1>4 DEF Orderly, Handling
  <2>3. attached' /\ held' = <<>>
    BY <1>1, <1>3
  <2>4. QED
    BY <2>1, <2>2, <2>3 DEF Handling
<1>7. Apart'
  <2>1. OneOfEach(held')
    BY <1>1, <1>3, EmptyMessage
  <2>2. ASSUME NEW j \in busy' \ {"held"}
        PROVE  /\ \A k \in busy' \ {"held", j} :
                    Rumor[Head(queue'[j])] # Rumor[Head(queue'[k])]
               /\ \A v \in Range(queue'["held"]) : Rumor[Head(queue'[j])] # Rumor[v]
    <3>1. j \in busy \ {"held"} /\ queue'[j] = queue[j]
      BY <1>5
    <3>2. /\ \A k \in busy \ {"held", j} :
               Rumor[Head(queue[j])] # Rumor[Head(queue[k])]
          /\ \A v \in Range(queue["held"]) : Rumor[Head(queue[j])] # Rumor[v]
      BY <3>1 DEF Orderly, Apart
    <3>3. QED
      BY <1>4, <1>5, <3>1, <3>2
  <2>3. OneOfEach(held)' /\ OneOfEach(queue["held"])'
    BY <1>4, <2>1 DEF OneOfEach
  <2>4. QED
    BY <2>2, <2>3 DEF Apart
<1>8. QED
  BY <1>6, <1>7 DEF Orderly

LEMMA AttachOrderly ==
  ASSUME TypeOK, Orderly, Attach
  PROVE  Orderly'
<1> USE TypeParts
<1>1. /\ ~ attached /\ attached' = TRUE /\ queue' = [queue EXCEPT !["held"] = held]
      /\ held' = <<>> /\ UNCHANGED <<known, busy>>
  BY DEF Attach
<1>2. busy = {} /\ queue'["held"] = held
  BY <1>1, LaneFacts DEF Orderly, Handling, LaneTypes
<1>3. Handling'
  BY <1>1, <1>2, EmptyMessage DEF Orderly, Handling
<1>4. OneOfEach(held) /\ OneOfEach(<<>>)
  BY EmptyMessage DEF Orderly, Apart
<1>5. OneOfEach(held)' /\ OneOfEach(queue["held"])'
  BY <1>1, <1>2, <1>4 DEF OneOfEach
<1>6. Apart'
  BY <1>1, <1>2, <1>5 DEF Apart
<1>7. QED
  BY <1>3, <1>6 DEF Orderly

LEMMA FreshOrderly == Fresh => Orderly
BY LaneFacts, EmptyMessage DEF Fresh, Orderly, Handling, Apart, OneOfEach

LEMMA CrashOrderly == Crash => Orderly'
<1> SUFFICES ASSUME Crash PROVE Orderly'
  OBVIOUS
<1>1. /\ busy' = {} /\ held' = <<>> /\ attached' = FALSE
      /\ queue' = [l \in Lanes |-> <<>>]
  BY DEF Crash
<1>2. queue'["held"] = <<>>
  BY <1>1, LaneFacts
<1>3. OneOfEach(held)' /\ OneOfEach(queue["held"])'
  BY <1>1, <1>2, EmptyMessage DEF OneOfEach
<1>4. QED
  BY <1>1, <1>2, <1>3, EmptyMessage DEF Orderly, Handling, Apart

(* The other actions leave the lanes alone.                                *)
QuietLanes == UNCHANGED <<known, queue, busy, held, attached>>

LEMMA NextLanes ==
  ASSUME [Next]_vars
  PROVE  \/ QuietLanes \/ Attach \/ Crash
         \/ \E w \in Wraps : UnwrapOk(w)
         \/ \E k \in Walks : WalkResolves(k)
         \/ \E l \in Lanes : Dispatch(l) \/ Delivered(l) \/ DeliveryFails(l)
<1> USE DEF QuietLanes, lanes
<1>1. UNCHANGED vars => QuietLanes
  BY DEF vars
<1>2. Publish \/ Resume \/ StartPoll => QuietLanes
  BY DEF Publish, Resume, StartPoll
<1>3. ASSUME NEW r \in Relays,
             Connect(r) \/ Disconnect(r) \/ Push(r) \/ RefetchAnswered(r) \/ RefetchUnanswered(r)
      PROVE  QuietLanes
  BY <1>3 DEF Connect, Disconnect, Push, RefetchAnswered, RefetchUnanswered, Refetched
<1>4. ASSUME NEW w \in Wraps, UnwrapFails(w) PROVE QuietLanes
  BY <1>4 DEF UnwrapFails
<1>5. ASSUME NEW k \in Walks, WalkEnds(k) PROVE QuietLanes
  BY <1>5 DEF WalkEnds
<1>6. ASSUME NEW k \in Walks, NEW r \in Relays, WalkAnswered(k, r) \/ WalkUnanswered(k, r)
      PROVE  QuietLanes
  <2>1. CASE WalkAnswered(k, r)
    BY <2>1 DEF WalkAnswered, PageArrives
  <2>2. CASE WalkUnanswered(k, r)
    BY <2>2 DEF WalkUnanswered, PageArrives
  <2>3. QED
    BY <1>6, <2>1, <2>2
<1>7. QED
  BY <1>1, <1>2, <1>3, <1>4, <1>5, <1>6, NextActions

LEMMA NextOrderly ==
  ASSUME TypeOK, Walking, Orderly, [Next]_vars
  PROVE  Orderly'
<1>1. CASE QuietLanes
  <2>1. \A l \in busy : queue[l] # <<>>
    BY DEF Orderly, Handling
  <2>2. QED
    BY <1>1, <2>1, OrderlyFrame DEF QuietLanes
<1>2. QED
  BY <1>1, NextLanes, AttachOrderly, CrashOrderly, UnwrapOkOrderly, WalkResolvesOrderly,
     DispatchOrderly, HandlerDoneOrderly

(* Hence two places never have the same rumor.                             *)
LEMMA OrderlyImplies == TypeOK /\ Orderly => OneHandlerPerRumor
<1> SUFFICES ASSUME TypeOK, Orderly PROVE OneHandlerPerRumor
  OBVIOUS
<1> USE TypeParts
<1> DEFINE InHandler == {<<l, 1>> : l \in busy}
           Waiting   == {<<"held", i>> : i \in DOMAIN queue["held"]}
                          \cup {<<"pending", i>> : i \in DOMAIN held}
           MessageAt(p) == Rumor[IF p[1] = "pending" THEN held[p[2]] ELSE queue[p[1]][p[2]]]
           Behind == {<<"held", i>> : i \in DOMAIN queue["held"]}
           Early  == {<<"pending", i>> : i \in DOMAIN held}
           Others == {<<l, 1>> : l \in busy \ {"held"}}
<1>1. "pending" \notin Lanes
  BY InboxAssumption DEF Lanes, Walks
<1>2. \A l \in busy : /\ l \in Lanes /\ queue[l] # <<>> /\ queue[l] \in Message
                      /\ Head(queue[l]) = queue[l][1] /\ 1 \in DOMAIN queue[l]
  BY HeadFacts DEF Orderly, Handling, LaneTypes
<1>3. InHandler \cup Waiting \subseteq Others \cup Behind \cup Early
  BY <1>2
<1>4. Early # {} => Others \cup Behind = {}
  <2>1. SUFFICES ASSUME held # <<>> PROVE busy = {} /\ queue["held"] = <<>>
    OBVIOUS
  <2>2. QED
    BY <2>1 DEF Orderly, Handling, LaneTypes
<1>5. ASSUME NEW p \in Others
      PROVE  \E l \in busy \ {"held"} : p = <<l, 1>> /\ MessageAt(p) = Rumor[Head(queue[l])]
  BY <1>1, <1>2
<1>6. ASSUME NEW p \in Behind
      PROVE  \E i \in DOMAIN queue["held"] : p = <<"held", i>> /\ MessageAt(p) = Rumor[queue["held"][i]]
  OBVIOUS
<1>7. ASSUME NEW p \in Early
      PROVE  \E i \in DOMAIN held : p = <<"pending", i>> /\ MessageAt(p) = Rumor[held[i]]
  OBVIOUS
<1> HIDE DEF MessageAt
<1>8. ASSUME NEW p \in Others, NEW q \in Others, p # q PROVE MessageAt(p) # MessageAt(q)
  BY <1>5, <1>8 DEF Orderly, Apart
<1>9. ASSUME NEW p \in Behind, NEW q \in Behind, p # q PROVE MessageAt(p) # MessageAt(q)
  BY <1>6, <1>9 DEF Orderly, Apart, OneOfEach
<1>10. ASSUME NEW p \in Early, NEW q \in Early, p # q PROVE MessageAt(p) # MessageAt(q)
  BY <1>7, <1>10 DEF Orderly, Apart, OneOfEach
<1>11. ASSUME NEW p \in Others, NEW q \in Behind PROVE MessageAt(p) # MessageAt(q)
  BY <1>5, <1>6 DEF Orderly, Apart, Range
<1> HIDE DEF Others, Behind, Early
<1>12. \A p, q \in InHandler \cup Waiting : p # q => MessageAt(p) # MessageAt(q)
  BY <1>3, <1>4, <1>8, <1>9, <1>10, <1>11
<1>13. QED
  BY <1>12 DEF OneHandlerPerRumor, MessageAt

-----------------------------------------------------------------------------
(* Claims are held.  A message that waits somewhere still does after a     *)
(* step, or was seen.                                                      *)
Waits(w) == InLane(w) \/ Rumor[w] \in known

LEMMA WaitsFrame ==
  ASSUME NEW w, Waits(w), known \subseteq known', UNCHANGED <<queue, held>>,
         \A k \in Walks : walk'[k].got = walk[k].got
  PROVE  Waits(w)'
BY DEF Waits, InLane

(* The walk of k starts over, and had gathered nothing.                    *)
LEMMA WaitsRestart ==
  ASSUME NEW w, Waits(w), UNCHANGED lanes, walk \in [Walks -> Walk], NEW k \in Walks,
         walk[k].got = <<>>, NEW new, new.got = <<>>,
         walk' = [walk EXCEPT ![k] = new]
  PROVE  Waits(w)'
<1>1. \A j \in Walks : walk'[j].got = walk[j].got
  OBVIOUS
<1>2. QED
  BY <1>1, WaitsFrame DEF lanes

(* The first message of a lane is taken by somebody who has seen it.       *)
LEMMA WaitsTail ==
  ASSUME TypeOK, NEW w, Waits(w), NEW l \in Lanes, queue[l] # <<>>,
         queue' = [queue EXCEPT ![l] = Tail(@)],
         known \subseteq known', Rumor[Head(queue[l])] \in known',
         Range(held) \subseteq Range(held'), UNCHANGED walk
  PROVE  Waits(w)'
<1>1. queue \in [Lanes -> Message]
  BY TypeParts DEF LaneTypes
<1>2. queue[l] \in Message
  BY <1>1
<1>3. Range(queue[l]) = {Head(queue[l])} \cup Range(Tail(queue[l]))
  BY <1>2, HeadFacts
<1>4. CASE \E m \in Lanes : w \in Range(queue[m])
  <2>1. PICK m \in Lanes : w \in Range(queue[m])
    BY <1>4
  <2>2. CASE m # l
    <3>1. queue'[m] = queue[m]
      BY <1>1, <2>2
    <3>2. QED
      BY <2>1, <3>1 DEF Waits, InLane
  <2>3. CASE m = l
    <3>1. queue'[l] = Tail(queue[l])
      BY <1>1
    <3>2. w = Head(queue[l]) \/ w \in Range(queue'[l])
      BY <1>3, <2>1, <2>3, <3>1
    <3>3. QED
      BY <3>2 DEF Waits, InLane
  <2>4. QED
    BY <2>2, <2>3
<1>5. CASE w \in Range(held) \/ Rumor[w] \in known \/ \E k \in Walks : w \in Range(walk[k].got)
  BY <1>5 DEF Waits, InLane
<1>6. QED
  BY <1>4, <1>5 DEF Waits, InLane

LEMMA UnwrapOkWaits ==
  ASSUME TypeOK, NEW v \in Wraps, UnwrapOk(v), NEW w, Waits(w)
  PROVE  Waits(w)'
<1> USE TypeParts
<1>1. UNCHANGED <<known, held>>
  BY UnwrapOkFacts
<1>2. queue \in [Lanes -> Message] /\ walk \in [Walks -> Walk] /\ "live" \in Lanes
  BY LaneFacts DEF LaneTypes
<1>3. \A l \in Lanes : Range(queue[l]) \subseteq Range(queue'[l])
  <2>1. CASE queue' = queue
    BY <2>1
  <2>2. CASE queue' = [queue EXCEPT !["live"] = Append(@, v)]
    <3>1. Range(queue["live"]) \subseteq Range(Append(queue["live"], v))
      BY <1>2, AppendMessage
    <3>2. QED
      BY <1>2, <2>2, <3>1
  <2>3. QED
    BY <2>1, <2>2, UnwrapOkFacts
<1>4. \A k \in Walks : Range(walk[k].got) \subseteq Range(walk'[k].got)
  <2>1. CASE walk' = walk
    BY <2>1
  <2>2. CASE /\ unwrapping[v] \in Walks
             /\ walk' = [walk EXCEPT ![unwrapping[v]].got = Append(@, v)]
    <3> DEFINE k == unwrapping[v]
    <3>1. walk[k].got \in Message /\ walk[k] \in Walk
      BY <1>2, <2>2 DEF Walk
    <3>2. Range(walk[k].got) \subseteq Range(Append(walk[k].got, v))
      BY <3>1, AppendMessage
    <3>3. walk'[k].got = Append(walk[k].got, v)
      BY <1>2, <2>2, <3>1 DEF Walk
    <3>4. \A j \in Walks : j # k => walk'[j] = walk[j]
      BY <1>2, <2>2
    <3>5. QED
      BY <3>2, <3>3, <3>4
  <2>3. QED
    BY <2>1, <2>2, UnwrapOkFacts
<1>5. QED
  BY <1>1, <1>3, <1>4 DEF Waits, InLane

LEMMA WalkResolvesWaits ==
  ASSUME TypeOK, Walking, NEW k \in Walks, WalkResolves(k), NEW w, Waits(w)
  PROVE  Waits(w)'
<1> USE TypeParts
<1>1. /\ walk \in [Walks -> Walk] /\ queue \in [Lanes -> Message] /\ k \in Lanes
      /\ UNCHANGED <<known, held>>
  BY LaneFacts, WalkResolvesFacts DEF LaneTypes
<1> DEFINE next == [walk[k] EXCEPT !.phase = "asking", !.todo = @ \ {walk[k].relay},
                      !.relay = None, !.outcome = None, !.cursor = 0,
                      !.truncated = Found(walk[k]), !.exhausted = Bottom(walk[k])]
           last == [IdleWalk EXCEPT !.phase = "dispatching"]
<1>2. next.got = walk[k].got
  BY <1>1 DEF Walk
<1>3. CASE walk' = [walk EXCEPT ![k] = next] /\ queue' = queue
  <2> HIDE DEF next
  <2>1. \A j \in Walks : walk'[j].got = walk[j].got
    BY <1>1, <1>2, <1>3
  <2>2. QED
    BY <1>1, <1>3, <2>1, WaitsFrame
<1>4. CASE walk' = [walk EXCEPT ![k] = last] /\ queue' = [queue EXCEPT ![k] = walk[k].got]
  <2> HIDE DEF last
  <2>1. queue[k] = <<>>
    BY WalkResolvesFacts DEF Walking
  <2>2. queue'[k] = walk[k].got /\ \A l \in Lanes : l # k => queue'[l] = queue[l]
    BY <1>1, <1>4
  <2>3. \A j \in Walks : j # k => walk'[j] = walk[j]
    BY <1>1, <1>4
  <2>4. \A l \in Lanes : Range(queue[l]) \subseteq Range(queue'[l])
    BY <2>1, <2>2, EmptyMessage
  <2>5. \A j \in Walks : Range(walk[j].got) \subseteq Range(walk'[j].got) \cup Range(queue'[k])
    BY <2>2, <2>3
  <2>6. QED
    BY <1>1, <2>4, <2>5 DEF Waits, InLane
<1>5. QED
  BY <1>3, <1>4, WalkResolvesFacts

LEMMA AttachWaits ==
  ASSUME TypeOK, Handling, Attach, NEW w, Waits(w)
  PROVE  Waits(w)'
<1>1. /\ queue' = [queue EXCEPT !["held"] = held] /\ queue["held"] = <<>>
      /\ UNCHANGED <<known, walk>>
  BY DEF Attach, Handling
<1>2. queue \in [Lanes -> Message] /\ "held" \in Lanes
  BY TypeParts, LaneFacts DEF LaneTypes
<1>3. /\ queue'["held"] = held
      /\ \A l \in Lanes : l # "held" => queue'[l] = queue[l]
  BY <1>1, <1>2
<1>4. QED
  BY <1>1, <1>2, <1>3, EmptyMessage DEF Waits, InLane

LEMMA DispatchWaits ==
  ASSUME TypeOK, NEW l \in Lanes, Dispatch(l), NEW w, Waits(w)
  PROVE  Waits(w)'
<1> USE TypeParts
<1>1. /\ queue[l] # <<>> /\ known' = known \cup {Rumor[Head(queue[l])]} /\ UNCHANGED walk
      /\ queue[l] \in Message
  BY DispatchFacts
<1>2. CASE queue' = queue /\ held' = held
  BY <1>1, <1>2, WaitsFrame
<1>3. CASE queue' = [queue EXCEPT ![l] = Tail(@)] /\ held' = held
  BY <1>1, <1>3, WaitsTail
<1>4. CASE queue' = [queue EXCEPT ![l] = Tail(@)] /\ held' = Append(held, Head(queue[l]))
  <2>1. held \in Message /\ Head(queue[l]) \in Wraps
    BY <1>1, HeadFacts DEF LaneTypes
  <2>2. Range(held) \subseteq Range(held')
    BY <1>4, <2>1, AppendMessage
  <2>3. QED
    BY <1>1, <1>4, <2>2, WaitsTail
<1>5. QED
  BY <1>2, <1>3, <1>4, DispatchFacts

LEMMA HandlerDoneWaits ==
  ASSUME TypeOK, Handling, NEW l \in Lanes, Delivered(l) \/ DeliveryFails(l), NEW w, Waits(w)
  PROVE  Waits(w)'
<1>1. /\ queue[l] # <<>> /\ queue' = [queue EXCEPT ![l] = Tail(@)]
      /\ Rumor[Head(queue[l])] \in known /\ UNCHANGED <<known, held, walk>>
  BY HandlerDoneFacts
<1>2. QED
  BY <1>1, WaitsTail

LEMMA NextWaits ==
  ASSUME TypeOK, Walking, Handling, [Next]_vars, ~ Crash, NEW w, Waits(w)
  PROVE  Waits(w)'
<1> USE TypeParts
<1>0. walk \in [Walks -> Walk] /\ "poll" \in Walks /\ Relays \subseteq Walks
  BY LaneFacts
<1>1. CASE UNCHANGED vars \/ Publish \/ Resume
  <2>1. UNCHANGED <<queue, held, known, walk>>
    BY <1>1 DEF vars, lanes, Publish, Resume
  <2>2. QED
    BY <2>1, WaitsFrame
<1>2. CASE StartPoll
  <2>1. /\ walk["poll"].phase = "idle" /\ UNCHANGED lanes
        /\ walk' = [walk EXCEPT !["poll"] = NewWalk(WindowSince, up)]
    BY <1>2 DEF StartPoll
  <2>2. WindowSince \in Nat /\ up \in SUBSET Relays
    BY WindowSinceType DEF NetTypes
  <2>3. walk["poll"].got = <<>> /\ NewWalk(WindowSince, up).got = <<>>
    BY <1>0, <2>1, <2>2, NewWalkFacts DEF Walking, Gathering
  <2>4. QED
    BY <1>0, <2>1, <2>3, WaitsRestart
<1>3. ASSUME NEW r \in Relays, Connect(r) PROVE Waits(w)'
  <2>1. UNCHANGED lanes
    BY <1>3 DEF Connect
  <2>2. CASE walk' = walk
    BY <2>1, <2>2, WaitsFrame DEF lanes
  <2>3. CASE walk[r].phase = "idle" /\ walk' = [walk EXCEPT ![r] = NewWalk(CatchUpSince, {r})]
    <3>1. NewWalk(CatchUpSince, {r}).got = <<>>
      BY CatchUpSinceType, NewWalkFacts
    <3>2. walk[r].got = <<>> /\ r \in Walks
      BY <1>0, <2>3 DEF Walking, Gathering
    <3>3. QED
      BY <1>0, <2>1, <2>3, <3>1, <3>2, WaitsRestart
  <2>4. QED
    BY <1>3, <2>2, <2>3 DEF Connect
<1>4. ASSUME NEW r \in Relays, Disconnect(r) \/ Push(r) PROVE Waits(w)'
  <2>1. UNCHANGED <<queue, held, known, walk>>
    BY <1>4 DEF Disconnect, Push, lanes
  <2>2. QED
    BY <2>1, WaitsFrame
<1>5. ASSUME NEW r \in Relays, RefetchAnswered(r) \/ RefetchUnanswered(r) PROVE Waits(w)'
  <2>1. PICK events \in SUBSET Wraps : Refetched(r, events)
    BY <1>5, RefetchFactsOf
  <2>2. /\ UNCHANGED lanes
        /\ \/ walk' = walk
           \/ walk["poll"].phase = "refetching" /\ walk' = [walk EXCEPT !["poll"] = IdleWalk]
    BY <2>1, RefetchedTypes
  <2>3. CASE walk' = walk
    BY <2>2, <2>3, WaitsFrame DEF lanes
  <2>4. CASE walk["poll"].phase = "refetching" /\ walk' = [walk EXCEPT !["poll"] = IdleWalk]
    <3>1. walk["poll"].got = <<>> /\ IdleWalk.got = <<>>
      BY <1>0, <2>4 DEF Walking, Gathering, IdleWalk
    <3>2. QED
      BY <1>0, <2>2, <2>4, <3>1, WaitsRestart
  <2>5. QED
    BY <2>2, <2>3, <2>4
<1>6. ASSUME NEW v \in Wraps, UnwrapOk(v) PROVE Waits(w)'
  BY <1>6, UnwrapOkWaits
<1>7. ASSUME NEW v \in Wraps, UnwrapFails(v) PROVE Waits(w)'
  <2>1. UNCHANGED <<queue, held, known, walk>>
    BY <1>7 DEF UnwrapFails, lanes
  <2>2. QED
    BY <2>1, WaitsFrame
<1>8. ASSUME NEW k \in Walks, WalkResolves(k) PROVE Waits(w)'
  BY <1>8, WalkResolvesWaits
<1>9. ASSUME NEW k \in Walks, WalkEnds(k) PROVE Waits(w)'
  <2>1. /\ walk[k].phase = "dispatching" /\ UNCHANGED lanes
        /\ \/ walk' = [walk EXCEPT ![k] = [IdleWalk EXCEPT !.phase = "refetching"]]
           \/ walk' = [walk EXCEPT ![k] = IdleWalk]
    BY <1>9 DEF WalkEnds
  <2>2. walk[k].got = <<>> /\ IdleWalk.got = <<>> /\ [IdleWalk EXCEPT !.phase = "refetching"].got = <<>>
    BY <2>1, PhaseFacts DEF Walking, Gathering, IdleWalk
  <2>3. QED
    BY <1>0, <2>1, <2>2, WaitsRestart
<1>10. ASSUME NEW k \in Walks, NEW r \in Relays, WalkAnswered(k, r) \/ WalkUnanswered(k, r)
       PROVE  Waits(w)'
  <2>1. PICK got \in SUBSET Wraps, outcome \in {"exhausted", "truncated", "unknown"}, cursor \in Nat :
          PageArrives(k, r, got, outcome, cursor)
    BY <1>10, WalkAskedFacts
  <2>2. /\ walk' = [walk EXCEPT ![k].phase = "unwrapping", ![k].relay = r,
                                ![k].outcome = outcome, ![k].cursor = cursor]
        /\ UNCHANGED <<queue, held, known>>
    BY <2>1 DEF PageArrives, lanes
  <2>3. \A j \in Walks : walk'[j].got = walk[j].got
    BY <1>0, <2>2 DEF Walk
  <2>4. QED
    BY <2>2, <2>3, WaitsFrame
<1>11. ASSUME NEW l \in Lanes, Dispatch(l) \/ Delivered(l) \/ DeliveryFails(l) PROVE Waits(w)'
  BY <1>11, DispatchWaits, HandlerDoneWaits
<1>12. CASE Attach
  BY <1>12, AttachWaits
<1>13. QED
  BY <1>1, <1>2, <1>3, <1>4, <1>5, <1>6, <1>7, <1>8, <1>9, <1>10, <1>11, <1>12, NextActions

(* What became of a claim.                                                 *)
Accounted(w) == Unwrapping(w) \/ Waits(w) \/ failures[w] >= RetryLimit

Accounts == \A w \in claimed : Accounted(w)

LEMMA AccountedFrame ==
  ASSUME NEW w, Accounted(w), Waits(w) => Waits(w)',
         unwrapping'[w] = unwrapping[w] \/ unwrapping'[w] # None,
         failures'[w] = failures[w]
  PROVE  Accounted(w)'
<1>1. CASE Unwrapping(w)
  BY <1>1 DEF Accounted, Unwrapping
<1>2. CASE Waits(w)
  BY <1>2 DEF Accounted
<1>3. CASE failures[w] >= RetryLimit /\ failures'[w] = failures[w]
  BY <1>3 DEF Accounted
<1>4. QED
  BY <1>1, <1>2, <1>3 DEF Accounted

LEMMA ClaimAccounts ==
  ASSUME ClaimTypes, Accounts, NEW wraps \in SUBSET Wraps, NEW route \in {"live"} \cup Walks,
         Claim(wraps \ claimed, route), UNCHANGED <<failures, refetch>>,
         \A w : Waits(w) => Waits(w)'
  PROVE  Accounts'
<1>1. wraps \ claimed \in SUBSET Wraps
  OBVIOUS
<1>2. /\ claimed' = claimed \cup (wraps \ claimed) /\ claimed \subseteq Wraps
      /\ \A w \in Wraps : /\ w \in wraps \ claimed => unwrapping'[w] = route
                          /\ w \notin wraps \ claimed => unwrapping'[w] = unwrapping[w]
  BY <1>1, ClaimFacts DEF ClaimTypes
<1>3. route # None
  BY LaneFacts
<1>4. ASSUME NEW w \in claimed' PROVE Accounted(w)'
  <2>1. CASE w \in wraps \ claimed
    BY <1>2, <1>3, <2>1 DEF Accounted, Unwrapping
  <2>2. CASE w \notin wraps \ claimed
    <3>1. w \in claimed /\ w \in Wraps /\ unwrapping'[w] = unwrapping[w] /\ Accounted(w)
      BY <1>2, <2>2 DEF Accounts
    <3>2. QED
      BY <3>1, AccountedFrame
  <2>3. QED
    BY <2>1, <2>2
<1>5. QED
  BY <1>4 DEF Accounts

LEMMA ResetAccounts ==
  ASSUME ClaimTypes, Accounts, NEW relays \in SUBSET Relays, ResetWrapRetryBudget(relays),
         UNCHANGED unwrapping, \A w : Waits(w) => Waits(w)'
  PROVE  Accounts'
<1>1. CASE UNCHANGED <<claimed, failures>>
  BY <1>1, AccountedFrame DEF Accounts
<1>2. CASE claimed' = claimed \ Parked /\ \A w \in Wraps : failures'[w] = 0
  <2>1. ASSUME NEW w \in claimed' PROVE Accounted(w)'
    <3>1. w \in claimed /\ w \notin Parked /\ Accounted(w)
      BY <1>2, <2>1 DEF Accounts
    <3>2. ~ (failures[w] >= RetryLimit)
      BY <3>1 DEF Parked
    <3>3. QED
      BY <3>1, <3>2 DEF Accounted, Unwrapping
  <2>2. QED
    BY <2>1 DEF Accounts
<1>3. QED
  BY <1>1, <1>2, ResetFacts

LEMMA UnwrapOkAccounts ==
  ASSUME TypeOK, Claims, Accounts, NEW v \in Wraps, UnwrapOk(v)
  PROVE  Accounts'
<1> USE TypeParts
<1>1. /\ claimed' = claimed /\ \A w \in Wraps : w # v => failures'[w] = failures[w]
  BY UnwrapOkFacts, CommitFacts
<1>2. /\ unwrapping \in [Wraps -> {"live", "stray", "lost", None} \cup Walks]
      /\ queue \in [Lanes -> Message] /\ walk \in [Walks -> Walk] /\ "live" \in Lanes
      /\ claimed \subseteq Wraps
  BY LaneFacts DEF ClaimTypes, LaneTypes
<1>3. Accounted(v)'
  <2>1. CASE unwrapping[v] = "live" /\ queue' = [queue EXCEPT !["live"] = Append(@, v)]
    <3>1. v \in Range(queue'["live"])
      BY <1>2, <2>1, AppendMessage
    <3>2. QED
      BY <1>2, <3>1 DEF Accounted, Waits, InLane
  <2>2. CASE /\ unwrapping[v] \in Walks
             /\ walk' = [walk EXCEPT ![unwrapping[v]].got = Append(@, v)]
    <3> DEFINE k == unwrapping[v]
    <3>1. walk[k].got \in Message /\ walk[k] \in Walk
      BY <1>2, <2>2 DEF Walk
    <3>2. walk'[k].got = Append(walk[k].got, v)
      BY <1>2, <2>2, <3>1 DEF Walk
    <3>3. v \in Range(walk'[k].got)
      BY <3>1, <3>2, AppendMessage
    <3>4. QED
      BY <2>2, <3>3 DEF Accounted, Waits, InLane
  <2>3. CASE unwrapping[v] = "stray"
    <3>1. unwrapping'[v] = "lost" /\ "lost" # None
      BY <1>2, <2>3, UnwrapOkFacts, LaneFacts
    <3>2. QED
      BY <3>1 DEF Accounted, Unwrapping
  <2>4. QED
    BY <2>1, <2>2, <2>3, UnwrapOkFacts
<1>4. ASSUME NEW w \in claimed', w # v PROVE Accounted(w)'
  <2>1. Accounted(w) /\ w \in Wraps
    BY <1>1, <1>2 DEF Accounts
  <2>2. unwrapping'[w] = unwrapping[w] /\ failures'[w] = failures[w]
    BY <1>1, <1>2, <1>4, <2>1, UnwrapOkFacts
  <2>3. Waits(w) => Waits(w)'
    BY UnwrapOkWaits
  <2>4. QED
    BY <2>1, <2>2, <2>3, AccountedFrame
<1>5. QED
  BY <1>3, <1>4 DEF Accounts

LEMMA UnwrapFailsAccounts ==
  ASSUME TypeOK, Claims, Accounts, NEW v \in Wraps, UnwrapFails(v),
         \A w : Waits(w) => Waits(w)'
  PROVE  Accounts'
<1> USE TypeParts
<1>1. ReleaseWrapId(v) /\ failures[v] < RetryLimit /\ unwrapping' = [unwrapping EXCEPT ![v] = None]
  BY UnwrapFailsFacts
<1>2. /\ \A w \in Wraps : w # v => failures'[w] = failures[w]
      /\ \/ claimed' = claimed \ {v} /\ failures'[v] < RetryLimit
         \/ claimed' = claimed /\ failures'[v] >= RetryLimit
  BY <1>1, ReleaseFacts
<1>3. ASSUME NEW w \in claimed' PROVE Accounted(w)'
  <2>1. CASE w = v
    BY <1>2, <1>3, <2>1 DEF Accounted
  <2>2. CASE w # v
    <3>1. Accounted(w) /\ w \in Wraps
      BY <1>2 DEF Accounts, ClaimTypes
    <3>2. unwrapping'[w] = unwrapping[w] /\ failures'[w] = failures[w]
      BY <1>1, <1>2, <2>2, <3>1 DEF ClaimTypes
    <3>3. QED
      BY <1>3, <3>1, <3>2, AccountedFrame
  <2>3. QED
    BY <2>1, <2>2
<1>4. QED
  BY <1>3 DEF Accounts

LEMMA NextAccounts ==
  ASSUME TypeOK, Claims, Walking, Handling, Accounts, [Next]_vars
  PROVE  Accounts'
<1> USE TypeParts
<1>1. CASE Crash
  BY <1>1 DEF Crash, Accounts
<1>2. ASSUME ~ Crash PROVE \A w : Waits(w) => Waits(w)'
  BY <1>2, NextWaits
<1>3. ASSUME ~ Crash, UNCHANGED <<claimed, failures>>,
             \A w \in Wraps : unwrapping'[w] = unwrapping[w] \/ unwrapping'[w] # None
      PROVE  Accounts'
  <2>1. ASSUME NEW w \in claimed' PROVE Accounted(w)'
    <3>1. Accounted(w) /\ w \in Wraps
      BY <1>3 DEF Accounts, ClaimTypes
    <3>2. QED
      BY <1>2, <1>3, <3>1, AccountedFrame
  <2>2. QED
    BY <2>1 DEF Accounts
<1> DEFINE Quiet == UNCHANGED <<claimed, failures, unwrapping>>
<1>4. UNCHANGED vars \/ Publish \/ StartPoll \/ Attach => Quiet
  BY DEF vars, claims, Publish, StartPoll, Attach
<1>5. ASSUME ~ Crash, Resume PROVE Accounts'
  <2>1. up \in SUBSET Relays /\ ResetWrapRetryBudget(up) /\ UNCHANGED unwrapping
    BY <1>5 DEF Resume, NetTypes
  <2>2. QED
    BY <1>2, <1>5, <2>1, ResetAccounts
<1>6. ASSUME ~ Crash, NEW r \in Relays, Connect(r) PROVE Accounts'
  <2>1. up' \in SUBSET Relays /\ UNCHANGED unwrapping
    BY <1>6 DEF Connect, NetTypes
  <2>2. CASE ResetWrapRetryBudget(up')
    BY <1>2, <1>6, <2>1, <2>2, ResetAccounts
  <2>3. CASE UNCHANGED claims
    BY <1>3, <1>6, <2>1, <2>3 DEF claims
  <2>4. QED
    BY <1>6, <2>2, <2>3 DEF Connect
<1>7. ASSUME NEW r \in Relays, Disconnect(r) PROVE Quiet
  BY <1>7 DEF Disconnect, claims
<1>8. ASSUME ~ Crash, NEW r \in Relays, Push(r) PROVE Accounts'
  <2>1. stream[r] \in Message /\ stream[r] # <<>>
    BY <1>8 DEF Push, NetTypes
  <2>2. {Head(stream[r])} \in SUBSET Wraps
    BY <2>1, HeadFacts
  <2>3. Claim({Head(stream[r])} \ claimed, "live") /\ UNCHANGED <<failures, refetch>>
    BY <1>8 DEF Push
  <2>4. QED
    BY <1>2, <1>8, <2>2, <2>3, ClaimAccounts
<1>9. ASSUME ~ Crash, NEW r \in Relays, RefetchAnswered(r) \/ RefetchUnanswered(r) PROVE Accounts'
  <2>1. PICK events \in SUBSET Wraps : Refetched(r, events)
    BY <1>9, RefetchFactsOf
  <2>2. Claim(events \ claimed, "live") /\ UNCHANGED <<failures, refetch>>
    BY <2>1 DEF Refetched
  <2>3. QED
    BY <1>2, <1>9, <2>2, ClaimAccounts
<1>10. ASSUME ~ Crash, NEW w \in Wraps, UnwrapOk(w) \/ UnwrapFails(w) PROVE Accounts'
  BY <1>2, <1>10, UnwrapOkAccounts, UnwrapFailsAccounts
<1>11. ASSUME ~ Crash, NEW k \in Walks, WalkResolves(k) PROVE Accounts'
  <2>1. /\ unwrapping' = [v \in Wraps |-> IF v \in Pending(k) THEN "stray" ELSE unwrapping[v]]
        /\ UNCHANGED claims
    BY <1>11, WalkResolvesFacts
  <2>2. \A w \in Wraps : unwrapping'[w] = unwrapping[w] \/ unwrapping'[w] # None
    BY <2>1, LaneFacts
  <2>3. QED
    BY <1>3, <1>11, <2>1, <2>2 DEF claims
<1>12. ASSUME NEW k \in Walks, WalkEnds(k) PROVE Quiet
  BY <1>12 DEF WalkEnds
<1>13. ASSUME ~ Crash, NEW k \in Walks, NEW r \in Relays, WalkAnswered(k, r) \/ WalkUnanswered(k, r)
       PROVE  Accounts'
  <2>1. PICK got \in SUBSET Wraps, outcome \in {"exhausted", "truncated", "unknown"}, cursor \in Nat :
          PageArrives(k, r, got, outcome, cursor)
    BY <1>13, WalkAskedFacts
  <2>2. Claim(got \ claimed, k) /\ UNCHANGED <<failures, refetch>>
    BY <2>1 DEF PageArrives
  <2>3. QED
    BY <1>2, <1>13, <2>2, ClaimAccounts
<1>14. ASSUME NEW l \in Lanes, Dispatch(l) \/ Delivered(l) \/ DeliveryFails(l) PROVE Quiet
  BY <1>14 DEF Dispatch, Delivered, DeliveryFails, HandlerDone, claims
<1>15. ASSUME ~ Crash, Quiet PROVE Accounts'
  BY <1>3, <1>15
<1> HIDE DEF Quiet
<1>16. QED
  BY <1>1, <1>4, <1>5, <1>6, <1>7, <1>8, <1>9, <1>10, <1>11, <1>12, <1>13, <1>14, <1>15,
     NextActions

LEMMA AccountsImplies == TypeOK /\ Accounts => ClaimsAreHeld
<1> SUFFICES ASSUME TypeOK, Accounts, NEW w \in claimed
             PROVE  InHand(w) \/ Rumor[w] \in known \/ unwrapping[w] \in {"stray", "lost"}
  BY DEF ClaimsAreHeld
<1>1. w \in Wraps /\ unwrapping[w] \in {"live", "stray", "lost", None} \cup Walks
  BY TypeParts DEF ClaimTypes
<1>2. Accounted(w)
  BY DEF Accounts
<1>3. QED
  BY <1>1, <1>2 DEF Accounted, Unwrapping, Waits, InHand, Parked

-----------------------------------------------------------------------------
(* The watermark.                                                          *)
LEMMA NextWatermark ==
  ASSUME TypeOK, Handling, WatermarkIsSaved, [Next]_vars
  PROVE  WatermarkIsSaved'
<1> USE TypeParts
<1>1. ASSUME disk'.watermark = disk.watermark, saved \cup dropped \subseteq saved' \cup dropped'
      PROVE  WatermarkIsSaved'
  BY <1>1 DEF WatermarkIsSaved
<1> DEFINE Quiet == UNCHANGED <<disk, saved, dropped>>
<1>2. UNCHANGED vars \/ Publish \/ Resume \/ StartPoll \/ Attach \/ Crash => Quiet
  BY DEF vars, Publish, Resume, StartPoll, Attach, Crash
<1>3. ASSUME NEW r \in Relays,
             Connect(r) \/ Disconnect(r) \/ Push(r) \/ RefetchAnswered(r) \/ RefetchUnanswered(r)
      PROVE  Quiet
  BY <1>3 DEF Connect, Disconnect, Push, RefetchAnswered, RefetchUnanswered, Refetched
<1>4. ASSUME NEW w \in Wraps, UnwrapOk(w) \/ UnwrapFails(w) PROVE Quiet
  BY <1>4 DEF UnwrapOk, UnwrapFails
<1>5. ASSUME NEW k \in Walks, WalkEnds(k) PROVE Quiet
  BY <1>5 DEF WalkEnds
<1>6. ASSUME NEW k \in Walks, NEW r \in Relays, WalkAnswered(k, r) \/ WalkUnanswered(k, r)
      PROVE  Quiet
  <2>1. CASE WalkAnswered(k, r)
    BY <2>1 DEF WalkAnswered, PageArrives
  <2>2. CASE WalkUnanswered(k, r)
    BY <2>2 DEF WalkUnanswered, PageArrives
  <2>3. QED
    BY <1>6, <2>1, <2>2
<1>7. ASSUME NEW l \in Lanes, Dispatch(l) PROVE Quiet
  BY <1>7 DEF Dispatch
<1>8. ASSUME NEW k \in Walks, WalkResolves(k) PROVE WatermarkIsSaved'
  <2>1. UNCHANGED <<saved, dropped>>
    BY <1>8, WalkResolvesFacts
  <2>2. disk'.watermark = disk.watermark
    BY <1>8, WalkResolvesFacts DEF ApplyWalkEvidence, DiskTypes
  <2>3. QED
    BY <1>1, <2>1, <2>2
<1>9. ASSUME NEW l \in Lanes, Delivered(l) \/ DeliveryFails(l) PROVE WatermarkIsSaved'
  <2> DEFINE m == Rumor[Head(queue[l])]
  <2>1. /\ \/ disk' = disk
           \/ disk' = [disk EXCEPT !.watermark = Stamp[m]]
        /\ saved' \cup dropped' = saved \cup dropped \cup {m}
    BY <1>9, HandlerDoneFacts
  <2> HIDE DEF m
  <2>2. CASE disk' = disk
    BY <1>1, <2>1, <2>2
  <2>3. CASE disk' = [disk EXCEPT !.watermark = Stamp[m]]
    <3>1. disk'.watermark = Stamp[m] /\ m \in saved' \cup dropped'
      BY <2>1, <2>3 DEF DiskTypes
    <3>2. QED
      BY <3>1 DEF WatermarkIsSaved
  <2>4. QED
    BY <2>1, <2>2, <2>3
<1>10. ASSUME Quiet PROVE WatermarkIsSaved'
  BY <1>1, <1>10
<1> HIDE DEF Quiet
<1>11. QED
  BY <1>2, <1>3, <1>4, <1>5, <1>6, <1>7, <1>8, <1>9, <1>10, NextActions

-----------------------------------------------------------------------------
(* The theorems.                                                           *)
Core == TypeOK /\ Claims /\ Walking /\ Orderly /\ Accounts /\ WatermarkIsSaved

LEMMA InitCore == Init => Core
<1> SUFFICES ASSUME Init PROVE Core
  OBVIOUS
<1>1. Fresh /\ disk = [watermark |-> 0, open |-> FALSE, cursor |-> 0]
  BY InitFresh
<1>2. Claims /\ Orderly /\ TypeOK
  BY <1>1, FreshClaims, FreshOrderly, InitTypes
<1>3. Walking
  BY <1>1, LaneFacts DEF Fresh, Walking, IdleWalk
<1>4. Accounts /\ WatermarkIsSaved
  BY <1>1 DEF Fresh, Accounts, WatermarkIsSaved
<1>5. QED
  BY <1>2, <1>3, <1>4 DEF Core

LEMMA NextCore == Core /\ [Next]_vars => Core'
BY NextTypes, NextClaims, NextWalking, NextOrderly, NextAccounts, NextWatermark DEF Core, Orderly

(* The claims, the walks and the handler stay in step: a wrap in the       *)
(* unwrap worker is claimed, what a walk gathered belongs to its phase,    *)
(* and what waits or is handled passed the seen check once.                *)
THEOREM Invariance == Spec => []Core
BY InitCore, NextCore, PTL DEF Spec

(* The state of the inbox keeps its types: among them that no wrap fails   *)
(* more often than releaseWrapId retries it.                               *)
THEOREM InboxTypeOK == Spec => []TypeOK
<1>1. Core => TypeOK
  BY DEF Core
<1>2. QED
  BY <1>1, Invariance, PTL

(* claimWrapId, releaseWrapId and the walks never leave a claim behind     *)
(* that nobody will turn into a message or release.                        *)
THEOREM NoClaimIsLeft == Spec => []ClaimsAreHeld
<1>1. Core => ClaimsAreHeld
  BY AccountsImplies DEF Core
<1>2. QED
  BY <1>1, Invariance, PTL

(* dispatchMessage moves the watermark only to the time of a message the   *)
(* handler is done with.                                                   *)
THEOREM WatermarkIsHandled == Spec => []WatermarkIsSaved
<1>1. Core => WatermarkIsSaved
  BY DEF Core
<1>2. QED
  BY <1>1, Invariance, PTL

(* However the live pump, the walks and the drain of held messages race,   *)
(* handleIncomingMessage hands a rumor to one of them.                     *)
THEOREM RumorsHaveOneHandler == Spec => []OneHandlerPerRumor
<1>1. Core => OneHandlerPerRumor
  BY OrderlyImplies DEF Core
<1>2. QED
  BY <1>1, Invariance, PTL
=============================================================================

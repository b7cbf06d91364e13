------------------------- MODULE OfflineQueueProofs -------------------------
(***************************************************************************)
(* The outbox keeps its promises for any chats, messages and bounds.       *)
(*                                                                         *)
(* Everything rests on where a message can be: Places says which arrays    *)
(* hold it, that they hold it once, and that what a restore is about to    *)
(* bring back is nowhere else.  Beside it stand, each with the operators   *)
(* it holds for,                                                           *)
(*                                                                         *)
(*   Recoverable  an unpublished message: the writes issued leave a row    *)
(*   SelfOwed     a direct message: whoever may publish it owes the self   *)
(*                copy, in memory, on disk and in the writes between       *)
(*   Kept         an unpublished message is queued (clearQueue not used)   *)
(*   Unacked      what is left of the arrays to flush is not acknowledged, *)
(*   LeavesDisk   the writes issued leave an acknowledged one no row, and  *)
(*   OneRumor     the rumor at hand is the one published in this life      *)
(*                (retryMessage not used)                                  *)
(***************************************************************************)
EXTENDS OfflineQueue, SequenceFacts, FiniteSetTheorems

Loads(m) == loading # NoLoad /\ loading[m] # NoRow       \* to be restored
Held(m) == \/ m \in ToSet(queue[addressee[m]])
           \/ flush # NoFlush /\ m \in ToSet(Captured)

(* An array holds a message once, and only those of its chat.              *)
Arrays ==
  \A p \in Peer :
    /\ IsInjective(queue[p])
    /\ \A m \in ToSet(queue[p]) : status[m] = "stored" /\ addressee[m] = p

(* What a flush of a cleared array still iterates is in no array.          *)
Detached ==
  flush # NoFlush /\ flush.detached =>
    /\ IsInjective(flush.list)
    /\ \A m \in ToSet(flush.list) :
         /\ status[m] = "stored" /\ addressee[m] = flush.peer
         /\ m \notin ToSet(queue[flush.peer])

Located ==
  \A m \in Msg :
    /\ Loads(m) => /\ status[m] = "stored" /\ m \notin acked
                   /\ ~ Held(m) /\ m \notin DOMAIN retrying
    /\ disk[m] # NoRow => status[m] = "stored"
    /\ m \in acked => status[m] = "stored" /\ Rumors(m) # {}
    /\ m \in DOMAIN retrying => status[m] = "stored"
    /\ status[m] \in {"new", "sending"} => object[m] = InitialRow(m)

SavesStored == \A w \in ToSet(io) : w.op = "save" => status[w.msg] = "stored"

Places == Arrays /\ Detached /\ Located /\ SavesStored

(* Some write of A is issued with none of B behind it; none of B is.       *)
Pending(s, A, B) ==
  \E i \in DOMAIN s : s[i] \in A /\ \A j \in DOMAIN s : j > i => s[j] \notin B
Clean(s, B) == \A j \in DOMAIN s : s[j] \notin B

Saves(m) == {w \in Write : w.op = "save" /\ w.msg = m}
Erasers(m) == {w \in Write : \/ w.op = "delete" /\ w.msg = m
                             \/ w.op = "deletePeer" /\ w.peer = addressee[m]}

(* What the row of a message comes to once the writes are done, the state  *)
(* it is in now (now) or that an issued write of A brings about.           *)
Outlasts(s, now, A, B) == Pending(s, A, B) \/ (now /\ Clean(s, B))

Survives(m) == Outlasts(io, disk[m] # NoRow, Saves(m), Erasers(m))

Recoverable == \A m \in Msg : Owed(m) => Survives(m)

Vanishes(m) == Outlasts(io, disk[m] = NoRow, {Delete(m)}, Saves(m))

LeavesDisk == \A m \in acked : Vanishes(m)

(* Whoever may publish a message owes its self copy.                       *)
OwesSelf(m) ==
  /\ Rumors(m) = {}
  /\ object[m].selfOwed
  /\ disk[m] # NoRow => disk[m].selfOwed
  /\ Loads(m) => loading[m].selfOwed
  /\ \A w \in ToSet(io) : w.op = "save" /\ w.msg = m => w.row.selfOwed
  /\ m \in DOMAIN retrying => retrying[m].self
  /\ flush # NoFlush /\ Captured[flush.at] = m => flush.attempt.self

SelfOwed == \A m \in Prebuilt \ selfCopied : OwesSelf(m)

Kept ==
  /\ flush # NoFlush => ~ flush.detached
  /\ \A m \in Msg : Owed(m) => m \in ToSet(queue[addressee[m]]) \/ Loads(m)

Unacked ==
  /\ DOMAIN retrying = {}
  /\ \A p \in Peer : flush = NoFlush \/ flush.peer # p \/ flush.detached =>
       ToSet(queue[p]) \cap acked = {}
  /\ flush # NoFlush =>
       /\ \A i \in flush.at..Len(Captured) : Captured[i] \notin acked
       /\ ~ flush.flushed => ToSet(Captured) \cap acked = {}

(* A rumor at hand is the published one; none at hand, or one a restart is *)
(* about to replace: this life has published none.                         *)
Known(m) == Rumors(m) \cup ({object[m].rumor} \ {NoRumor})

Counted(m) ==
  /\ IsFiniteSet(Rumors(m))
  /\ Cardinality(Known(m)) <= crashes + 1
  /\ object[m].rumor = NoRumor \/ Loads(m) => Cardinality(Rumors(m)) <= crashes

Republishes(m) ==
  flush # NoFlush /\ Captured[flush.at] = m =>
    /\ flush.attempt.rumor # NoRumor
    /\ flush.attempt.fresh => object[m].rumor = NoRumor
    /\ ~ flush.attempt.fresh => flush.attempt.rumor = object[m].rumor

OneRumor == \A m \in Msg : Counted(m) /\ Republishes(m)

-----------------------------------------------------------------------------
(* What the end of a flush keeps.                                          *)
Keep(f, list, acks, n) ==
  IF n = 0 THEN <<>>
  ELSE IF list[n] \in acks THEN f[n - 1]
  ELSE Append(f[n - 1], list[n])

LEMMA KeepIsDefined ==
  ASSUME NEW list, NEW acks, NEW N \in Nat
  PROVE  \E f : f = [n \in 0..N |-> Keep(f, list, acks, n)]
<1> DEFINE Bad == {n \in 0..N : ~ \E f : f = [k \in 0..n |-> Keep(f, list, acks, k)]}
<1>1. CASE Bad = {}
  BY <1>1
<1>2. CASE Bad # {}
  <2>1. PICK n \in Bad : \A k \in Bad : n <= k
    <3>1. Bad \subseteq Nat
      OBVIOUS
    <3> HIDE DEF Bad
    <3>2. QED
      BY <1>2, <3>1, LeastNatural
  <2>2. CASE n = 0
    <3> DEFINE f == [k \in 0..0 |-> <<>>]
    <3>1. f = [k \in 0..0 |-> Keep(f, list, acks, k)]
      BY DEF Keep
    <3>2. QED
      BY <2>1, <2>2, <3>1
  <2>3. CASE n # 0
    <3>1. n - 1 \in 0..N /\ n - 1 \notin Bad /\ n \in Nat
      BY <2>1, <2>3
    <3>2. PICK g : g = [k \in 0..n - 1 |-> Keep(g, list, acks, k)]
      BY <3>1
    <3> DEFINE f == [k \in 0..n |-> IF k = n THEN Keep(g, list, acks, n) ELSE g[k]]
    <3>3. ASSUME NEW k \in 0..n PROVE f[k] = Keep(f, list, acks, k)
      <4>1. CASE k = 0
        BY <2>3, <3>2, <4>1 DEF Keep
      <4>2. CASE k # 0
        <5>1. k - 1 \in 0..n - 1 /\ f[k - 1] = g[k - 1]
          BY <3>1, <4>2
        <5>2. Keep(f, list, acks, k) = Keep(g, list, acks, k)
          BY <4>2, <5>1 DEF Keep
        <5>3. f[k] = Keep(g, list, acks, k)
          <6>1. CASE k = n
            BY <6>1
          <6>2. CASE k # n
            <7>1. k \in 0..n - 1 /\ f[k] = g[k]
              BY <3>1, <6>2
            <7>2. g[k] = Keep(g, list, acks, k)
              BY <3>2, <7>1
            <7>3. QED
              BY <7>1, <7>2
          <6>3. QED
            BY <6>1, <6>2
        <5>4. QED
          BY <5>2, <5>3
      <4>3. QED
        BY <4>1, <4>2
    <3>4. f = [k \in 0..n |-> f[k]]
      OBVIOUS
    <3> HIDE DEF f
    <3>5. f = [k \in 0..n |-> Keep(f, list, acks, k)]
      BY <3>3, <3>4
    <3>6. QED
      BY <2>1, <3>5
  <2>4. QED
    BY <2>2, <2>3
<1>3. QED
  BY <1>1, <1>2

LEMMA RemainingElements ==
  ASSUME NEW S, NEW list \in Seq(S), NEW acks
  PROVE  /\ Remaining(list, acks) \in Seq(S)
         /\ ToSet(Remaining(list, acks)) = ToSet(list) \ acks
         /\ IsInjective(list) => IsInjective(Remaining(list, acks))
<1> DEFINE D == 0..Len(list)
           f == CHOOSE g : g = [n \in D |-> Keep(g, list, acks, n)]
<1>0. Len(list) \in Nat
  OBVIOUS
<1>1. f = [n \in D |-> Keep(f, list, acks, n)]
  BY <1>0, KeepIsDefined
<1>2. Remaining(list, acks) = f[Len(list)]
  BY DEF Remaining, Keep
<1> HIDE DEF f
<1> DEFINE Good(n) == /\ f[n] \in Seq(S)
                      /\ ToSet(f[n]) = {list[i] : i \in 1..n} \ acks
                      /\ IsInjective(list) => IsInjective(f[n])
           Bad == {n \in D : ~ Good(n)}
<1>3. Bad = {}
  <2> SUFFICES ASSUME Bad # {} PROVE FALSE
    OBVIOUS
  <2>1. PICK n \in Bad : \A k \in Bad : n <= k
    <3>1. Bad \subseteq Nat
      OBVIOUS
    <3> HIDE DEF Bad
    <3>2. QED
      BY <3>1, LeastNatural
  <2>2. CASE n = 0
    <3>1. f[0] = <<>> /\ 1..0 = {}
      BY <1>1, <2>1 DEF Keep
    <3>2. ToSet(<<>>) = {} /\ IsInjective(<<>>) /\ <<>> \in Seq(S)
      BY DEF ToSet, IsInjective
    <3>3. QED
      BY <2>1, <2>2, <3>1, <3>2
  <2>3. CASE n # 0
    <3>a. n \in D
      BY <2>1
    <3>b. n - 1 \in D /\ n \in 1..Len(list)
      BY <1>0, <2>3, <3>a
    <3>0. n - 1 \in D /\ n \in 1..Len(list) /\ n - 1 \notin Bad
      <4> HIDE DEF Bad
      <4>1. QED
        BY <2>1, <3>b
    <3>1. n - 1 \in D /\ n \in 1..Len(list) /\ Good(n - 1)
      <4> HIDE DEF Good
      <4>1. QED
        BY <3>0
    <3>2. f[n] = IF list[n] \in acks THEN f[n - 1] ELSE Append(f[n - 1], list[n])
      BY <1>1, <2>1, <2>3 DEF Keep
    <3> DEFINE P == {list[i] : i \in 1..n - 1}
    <3>3. {list[i] : i \in 1..n} = P \cup {list[n]}
      <4>1. 1..n = 1..n - 1 \cup {n}
        BY <3>1
      <4>2. QED
        BY <4>1
    <3>4. CASE list[n] \in acks
      BY <2>1, <3>1, <3>2, <3>3, <3>4
    <3>5. CASE list[n] \notin acks
      <4> DEFINE e == f[n - 1]
      <4>1. e \in Seq(S) /\ list[n] \in S /\ ToSet(e) = P \ acks
        BY <3>1
      <4>2. f[n] = Append(e, list[n])
        BY <3>2, <3>5
      <4>3. IsInjective(list) => IsInjective(e)
        BY <3>1
      <4> HIDE DEF e
      <4>4. /\ f[n] \in Seq(S) /\ Len(f[n]) = Len(e) + 1
            /\ ToSet(f[n]) = ToSet(e) \cup {list[n]}
        BY <4>1, <4>2, AppendElements
      <4>5. ASSUME IsInjective(list) PROVE IsInjective(f[n])
        <5>1. list[n] \notin P
          BY <3>1, <4>5 DEF IsInjective
        <5>2. \A i \in DOMAIN e : e[i] # list[n]
          BY <4>1, <5>1 DEF ToSet
        <5>3. /\ DOMAIN f[n] = 1..Len(e) + 1 /\ DOMAIN e = 1..Len(e)
              /\ Len(e) \in Nat
              /\ f[n][Len(e) + 1] = list[n]
              /\ \A i \in 1..Len(e) : f[n][i] = e[i]
          BY <4>1, <4>2, <4>4
        <5>4. QED
          BY <4>3, <4>5, <5>2, <5>3 DEF IsInjective
      <4>6. ToSet(f[n]) = {list[i] : i \in 1..n} \ acks
        BY <3>3, <3>5, <4>1, <4>4
      <4>7. QED
        BY <2>1, <4>4, <4>5, <4>6
    <3>6. QED
      BY <3>4, <3>5
  <2>4. QED
    BY <2>2, <2>3
<1>4. Good(Len(list))
  <2>1. Len(list) \in D /\ Len(list) \notin Bad
    <3> HIDE DEF Bad
    <3>1. QED
      BY <1>0, <1>3
  <2> HIDE DEF Good
  <2>2. QED
    BY <2>1
<1>5. ToSet(list) = {list[i] : i \in 1..Len(list)}
  BY DEF ToSet
<1>6. QED
  BY <1>2, <1>4, <1>5

(* What a restore reads.                                                   *)
LEMMA InOrderElements ==
  ASSUME NEW S \in SUBSET Nat, IsFiniteSet(S)
  PROVE  /\ InOrder(S) \in Seq(S)
         /\ ToSet(InOrder(S)) = S
         /\ IsInjective(InOrder(S))
<1> DEFINE s == InOrder(S)
<1>1. Sorted(S, s)
  BY SortedExists DEF Sorted, InOrder
<1>2. Cardinality(S) \in Nat
  BY FS_CardinalityType
<1> HIDE DEF s
<1>3. s \in Seq(S) /\ ToSet(s) = S
  BY <1>1, <1>2 DEF Sorted
<1>4. ASSUME NEW i \in DOMAIN s, NEW j \in DOMAIN s, s[i] = s[j]
      PROVE  i = j
  <2>1. s[i] \in Nat /\ i \in Nat /\ j \in Nat
    <3>1. i \in 1..Cardinality(S) /\ j \in 1..Cardinality(S)
      BY <1>1, <1>4 DEF Sorted
    <3>2. s[i] \in S
      BY <1>1, <3>1 DEF Sorted
    <3>3. S \subseteq Nat
      OBVIOUS
    <3>4. PICK n : n \in Nat /\ i \in 1..n /\ j \in 1..n
      BY <1>2, <3>1
    <3>5. i \in Nat /\ j \in Nat
      BY <3>4
    <3>6. QED
      BY <3>2, <3>3, <3>5
  <2>2. ~ (i < j) /\ ~ (j < i)
    BY <1>1, <1>4, <2>1 DEF Sorted
  <2>3. QED
    BY <2>1, <2>2
<1>5. QED
  BY <1>3, <1>4 DEF s, IsInjective

-----------------------------------------------------------------------------
(* A write queue that grows and shrinks.                                   *)
LEMMA AppendPending ==
  ASSUME NEW S, NEW s \in Seq(S), NEW e \in S, NEW A, NEW B
  PROVE  /\ e \in A => Pending(Append(s, e), A, B)
         /\ e \notin B /\ Pending(s, A, B) => Pending(Append(s, e), A, B)
         /\ e \notin B /\ Clean(s, B) => Clean(Append(s, e), B)
<1>1. /\ DOMAIN Append(s, e) = 1..Len(s) + 1 /\ DOMAIN s = 1..Len(s) /\ Len(s) \in Nat
      /\ Append(s, e)[Len(s) + 1] = e
      /\ \A i \in 1..Len(s) : Append(s, e)[i] = s[i]
  OBVIOUS
<1>2. e \in A => Pending(Append(s, e), A, B)
  <2>1. Len(s) + 1 \in DOMAIN Append(s, e)
        /\ \A j \in DOMAIN Append(s, e) : ~ (j > Len(s) + 1)
    BY <1>1
  <2>2. QED
    BY <1>1, <2>1 DEF Pending
<1>3. ASSUME e \notin B, Pending(s, A, B) PROVE Pending(Append(s, e), A, B)
  <2>1. PICK i \in DOMAIN s : s[i] \in A /\ \A j \in DOMAIN s : j > i => s[j] \notin B
    BY <1>3 DEF Pending
  <2>2. i \in DOMAIN Append(s, e) /\ Append(s, e)[i] \in A
    BY <1>1, <2>1
  <2>3. ASSUME NEW j \in DOMAIN Append(s, e), j > i PROVE Append(s, e)[j] \notin B
    BY <1>1, <1>3, <2>1, <2>3
  <2>4. QED
    BY <2>2, <2>3 DEF Pending
<1>4. e \notin B /\ Clean(s, B) => Clean(Append(s, e), B)
  BY <1>1 DEF Clean
<1>5. QED
  BY <1>2, <1>3, <1>4

LEMMA TailPending ==
  ASSUME NEW S, NEW s \in Seq(S), s # <<>>, NEW A, NEW B
  PROVE  /\ Head(s) \in S /\ Head(s) \in ToSet(s)
         /\ Tail(s) \in Seq(S) /\ ToSet(Tail(s)) \subseteq ToSet(s)
         /\ Pending(s, A, B) => \/ Head(s) \in A /\ Clean(Tail(s), B)
                                \/ Pending(Tail(s), A, B)
         /\ Clean(s, B) => Head(s) \notin B /\ Clean(Tail(s), B)
<1>1. /\ Head(s) \in S /\ Head(s) = s[1] /\ Tail(s) \in Seq(S)
      /\ DOMAIN s = 1..Len(s) /\ Len(s) \in Nat \ {0}
      /\ DOMAIN Tail(s) = 1..Len(s) - 1
      /\ \A i \in 1..Len(s) - 1 : Tail(s)[i] = s[i + 1]
  BY HeadTailProperties
<1> DEFINE t == Tail(s)
<1>2. /\ 1 \in DOMAIN s
      /\ \A i \in DOMAIN t : i + 1 \in DOMAIN s /\ t[i] = s[i + 1] /\ i + 1 > 1
      /\ \A i \in DOMAIN s : i # 1 => i - 1 \in DOMAIN t /\ t[i - 1] = s[i]
  BY <1>1
<1> HIDE DEF t
<1>3. Head(s) \in ToSet(s) /\ ToSet(t) \subseteq ToSet(s)
  BY <1>1, <1>2 DEF ToSet
<1>4. ASSUME Pending(s, A, B) PROVE (Head(s) \in A /\ Clean(t, B)) \/ Pending(t, A, B)
  <2>1. PICK i \in DOMAIN s : s[i] \in A /\ \A j \in DOMAIN s : j > i => s[j] \notin B
    BY <1>4 DEF Pending
  <2>2. CASE i = 1
    <3>1. Head(s) \in A
      BY <1>1, <2>1, <2>2
    <3>2. Clean(t, B)
      BY <1>2, <2>1, <2>2 DEF Clean
    <3>3. QED
      BY <3>1, <3>2
  <2>3. CASE i # 1
    <3>1. i - 1 \in DOMAIN t /\ t[i - 1] \in A
      BY <1>2, <2>1, <2>3
    <3>2. ASSUME NEW j \in DOMAIN t, j > i - 1 PROVE t[j] \notin B
      <4>1. j + 1 \in DOMAIN s /\ t[j] = s[j + 1] /\ j + 1 > i
        BY <1>1, <1>2, <2>1, <3>2 DEF t
      <4>2. QED
        BY <2>1, <4>1
    <3>3. QED
      BY <3>1, <3>2 DEF Pending
  <2>4. QED
    BY <2>2, <2>3
<1>5. Clean(s, B) => Head(s) \notin B /\ Clean(t, B)
  BY <1>1, <1>2 DEF Clean
<1>6. QED
  BY <1>1, <1>3, <1>4, <1>5 DEF t

-----------------------------------------------------------------------------
(* The operators the steps are built from.                                 *)
LEMMA PrebuiltAreMessages == Prebuilt \subseteq Msg /\ MaxRetry \in Nat \ {0}
BY QueueAssumption

LEMMA InitialRowFacts ==
  ASSUME NEW m \in Msg
  PROVE  /\ InitialRow(m) \in Row
         /\ InitialRow(m).selfOwed = (m \in Prebuilt)
BY PrebuiltAreMessages DEF InitialRow, Row, NoRumor

LEMMA NewAttemptFacts ==
  ASSUME TypeOK, NEW m \in Msg
  PROVE  LET a == NewAttempt(m)
         IN  /\ a \in Attempt
             /\ a.tries = object[m].retries
             /\ a.rumor # NoRumor
             /\ a.fresh => object[m].rumor = NoRumor /\ a.self
             /\ ~ a.fresh => a.rumor = object[m].rumor
             /\ object[m].selfOwed => a.self
<1>1. object[m] \in Row /\ minted[m] \in Nat
  BY DEF TypeOK
<1>2. /\ object[m].rumor \in Nat /\ object[m].retries \in 0..MaxRetry
      /\ object[m].selfOwed \in BOOLEAN
  BY <1>1 DEF Row
<1>3. CASE object[m].rumor = NoRumor
  <2>1. NewAttempt(m) = [rumor |-> minted[m] + 1, fresh |-> TRUE, self |-> TRUE,
                         tries |-> object[m].retries]
    BY <1>3 DEF NewAttempt
  <2>2. QED
    BY <1>1, <1>2, <1>3, <2>1 DEF Attempt, NoRumor
<1>4. CASE object[m].rumor # NoRumor
  <2>1. NewAttempt(m) = [rumor |-> object[m].rumor, fresh |-> FALSE,
                         self |-> object[m].selfOwed, tries |-> object[m].retries]
    BY <1>2, <1>4 DEF NewAttempt
  <2>2. QED
    BY <1>1, <1>2, <1>4, <2>1 DEF Attempt, NoRumor
<1>5. QED
  BY <1>3, <1>4

LEMMA MintedType ==
  ASSUME TypeOK, NEW m \in Msg, NEW a \in Attempt
  PROVE  Minted(m, a) \in [Msg -> Nat]
BY DEF TypeOK, Minted, Attempt

LEMMA HandedOverFacts ==
  ASSUME TypeOK, NEW m \in Msg, NEW a \in Attempt, NEW outcome,
         HandedOver(m, a, outcome)
  PROVE  /\ published' \in [Msg -> [Peer -> SUBSET Nat]]
         /\ selfCopied' \subseteq Msg /\ selfCopied \subseteq selfCopied'
         /\ \A n \in Msg : n # m => Rumors(n)' = Rumors(n)
         /\ outcome = "sent" => /\ Rumors(m)' = Rumors(m) \cup {a.rumor}
                                /\ a.self => m \in selfCopied'
         /\ outcome # "sent" => Rumors(m)' = Rumors(m) /\ selfCopied' = selfCopied
<1>1. CASE outcome # "sent"
  BY <1>1 DEF HandedOver, TypeOK, Rumors
<1>2. CASE outcome = "sent"
  <2> DEFINE p == addressee[m]
  <2>1. /\ published' = [published EXCEPT ![m][p] = @ \cup {a.rumor}]
        /\ selfCopied' = selfCopied \cup (IF a.self THEN {m} ELSE {})
    BY <1>2 DEF HandedOver
  <2>2. /\ p \in Peer /\ a.rumor \in Nat /\ selfCopied \subseteq Msg
        /\ published \in [Msg -> [Peer -> SUBSET Nat]]
    BY DEF TypeOK, Attempt
  <2> HIDE DEF p
  <2>3. /\ published' \in [Msg -> [Peer -> SUBSET Nat]]
        /\ \A n \in Msg : n # m => published'[n] = published[n]
        /\ published'[m][p] = published[m][p] \cup {a.rumor}
        /\ \A q \in Peer : q # p => published'[m][q] = published[m][q]
    BY <2>1, <2>2
  <2>4. \A n \in Msg : n # m => Rumors(n)' = Rumors(n)
    BY <2>3 DEF Rumors
  <2>5. Rumors(m)' = Rumors(m) \cup {a.rumor}
    <3>1. ASSUME NEW r PROVE r \in Rumors(m)' <=> r \in Rumors(m) \cup {a.rumor}
      <4>1. r \in Rumors(m)' <=> \E q \in Peer : r \in published'[m][q]
        BY DEF Rumors
      <4>2. r \in Rumors(m) <=> \E q \in Peer : r \in published[m][q]
        BY DEF Rumors
      <4>3. QED
        BY <2>2, <2>3, <4>1, <4>2
    <3>2. QED
      BY <3>1
  <2>6. QED
    BY <1>2, <2>1, <2>2, <2>3, <2>4, <2>5
<1>3. QED
  BY <1>1, <1>2

LEMMA NextIndexFacts ==
  ASSUME NEW list \in Seq(Msg), NEW from \in Nat \ {0}, NEW at, at = NextIndex(list, from),
         at > 0
  PROVE  at \in from..Len(list) /\ at \in 1..Len(list) /\ object[list[at]].retries < MaxRetry
<1> DEFINE I == {i \in from..Len(list) : object[list[i]].retries < MaxRetry}
<1>1. at = IF I # {} THEN Min(I) ELSE 0
  BY DEF NextIndex, SelectInSubSeq
<1>2. I \subseteq Nat
  OBVIOUS
<1> HIDE DEF I
<1>3. I # {}
  BY <1>1
<1>4. at \in I
  BY <1>1, <1>2, <1>3, MinIsLeast
<1>5. QED
  BY <1>4 DEF I

LEMMA WriteTypes ==
  ASSUME NEW m \in Msg, NEW row \in Row, NEW p \in Peer
  PROVE  Save(m, row) \in Write /\ Delete(m) \in Write /\ DeletePeer(p) \in Write
BY DEF Save, Delete, DeletePeer, Write

(* The writes behind an acknowledgement, one by one.                       *)
LEMMA AcknowledgeWritesFacts ==
  ASSUME NEW s \in Seq(Write), NEW m \in Msg, NEW row \in Row, NEW a
  PROVE  s \o AcknowledgeWrites(m, a, row) =
           Append(IF a.fresh THEN Append(s, Save(m, row)) ELSE s, Delete(m))
<1> DEFINE w == Save(m, row)
           d == Delete(m)
<1>1. w \in Write /\ d \in Write
  BY DEF Save, Delete, Write
<1> HIDE DEF w, d
<1>2. s \o <<w, d>> = Append(Append(s, w), d)
  BY <1>1
<1>3. s \o <<d>> = Append(s, d)
  BY <1>1
<1>4. QED
  BY <1>2, <1>3 DEF AcknowledgeWrites, w, d

-----------------------------------------------------------------------------
(* What a flush is at.                                                     *)
Core == TypeOK /\ Places

LEMMA CapturedType ==
  ASSUME TypeOK, flush # NoFlush
  PROVE  /\ flush \in FlushRun /\ flush.peer \in Peer /\ flush.detached \in BOOLEAN
         /\ flush.flushed \in BOOLEAN /\ flush.attempt \in Attempt
         /\ flush.attempt.tries \in 0..MaxRetry /\ flush.attempt.tries < MaxRetry
         /\ Captured \in Seq(Msg) /\ flush.at \in 1..Len(Captured) /\ flush.at \in Nat \ {0}
         /\ Captured[flush.at] \in Msg /\ Captured[flush.at] \in ToSet(Captured)
<1>1. flush \in FlushRun /\ queue \in [Peer -> Seq(Msg)]
  BY DEF TypeOK
<1>2. /\ flush.peer \in Peer /\ flush.detached \in BOOLEAN /\ flush.list \in Seq(Msg)
      /\ flush.flushed \in BOOLEAN /\ flush.attempt \in Attempt
  BY <1>1 DEF FlushRun
<1>3. Captured \in Seq(Msg)
  BY <1>1, <1>2 DEF Captured
<1>4. flush.at \in 1..Len(Captured) /\ flush.attempt.tries < MaxRetry
  BY DEF TypeOK
<1>5. flush.attempt.tries \in 0..MaxRetry
  BY <1>2 DEF Attempt
<1> DEFINE c == Captured
<1> HIDE DEF c
<1>6. c[flush.at] \in Msg /\ c[flush.at] \in ToSet(c) /\ flush.at \in Nat \ {0}
  BY <1>3, <1>4 DEF c, ToSet
<1>7. QED
  BY <1>1, <1>2, <1>3, <1>4, <1>5, <1>6 DEF c

LEMMA CapturedPlaces ==
  ASSUME Core, flush # NoFlush
  PROVE  /\ IsInjective(Captured)
         /\ \A m \in ToSet(Captured) :
              m \in Msg /\ status[m] = "stored" /\ addressee[m] = flush.peer
         /\ \A i \in 1..Len(Captured) : Captured[i] \in ToSet(Captured)
<1>1. flush.peer \in Peer /\ Captured \in Seq(Msg)
  BY CapturedType DEF Core
<1>2. Captured = IF flush.detached THEN flush.list ELSE queue[flush.peer]
  BY DEF Captured
<1>3. /\ IsInjective(Captured)
      /\ \A m \in ToSet(Captured) : status[m] = "stored" /\ addressee[m] = flush.peer
  BY <1>1, <1>2 DEF Core, Places, Arrays, Detached
<1> DEFINE c == Captured
<1> HIDE DEF c
<1>4. ToSet(c) \subseteq Msg /\ \A i \in 1..Len(c) : c[i] \in ToSet(c)
  BY <1>1 DEF c, ToSet
<1>5. QED
  BY <1>3, <1>4 DEF c

(* The three ways a publish of the flush can end.                          *)
FlushFrame == UNCHANGED <<status, addressee, retrying, disk, loading, pool, activePeer,
                          cleared, bounds>>
Sent(m) ==
  /\ flush # NoFlush /\ m = Captured[flush.at]
  /\ HandedOver(m, flush.attempt, "sent") /\ FlushSent(m) /\ FlushFrame
Refused(m, outcome) ==
  /\ flush # NoFlush /\ m = Captured[flush.at] /\ outcome # "sent"
  /\ HandedOver(m, flush.attempt, outcome) /\ FlushRefused(m, outcome) /\ FlushFrame

LEMMA FlushOutcomes ==
  ASSUME FlushPublished
  PROVE  \E m : Sent(m) \/ \E outcome : Refused(m, outcome)
BY DEF FlushPublished, Sent, Refused, FlushFrame

LEMMA SentFacts ==
  ASSUME Core, NEW m, Sent(m)
  PROVE  /\ m \in Msg /\ m \in ToSet(Captured) /\ status[m] = "stored"
         /\ addressee[m] = flush.peer
         /\ acked' = acked \cup {m}
         /\ object' \in [Msg -> Row]
         /\ \A n \in Msg : n # m => object'[n] = object[n]
         /\ object'[m].rumor = IF flush.attempt.fresh THEN flush.attempt.rumor
                               ELSE object[m].rumor
         /\ object'[m].selfOwed = object[m].selfOwed
         /\ io' = Append(IF flush.attempt.fresh THEN Append(io, Save(m, object'[m])) ELSE io,
                         Delete(m))
<1>1. /\ m \in Msg /\ m \in ToSet(Captured) /\ flush.attempt \in Attempt
      /\ status[m] = "stored" /\ addressee[m] = flush.peer /\ flush # NoFlush
  BY CapturedType, CapturedPlaces DEF Sent, Core
<1> DEFINE a == flush.attempt
<1>2. /\ acked' = acked \cup {m}
      /\ object' = IF a.fresh THEN [object EXCEPT ![m].rumor = a.rumor] ELSE object
      /\ io' = io \o AcknowledgeWrites(m, a, object'[m])
  BY DEF Sent, FlushSent
<1>3. object \in [Msg -> Row] /\ a.rumor \in Nat /\ io \in Seq(Write)
  BY <1>1 DEF Core, TypeOK, Attempt
<1> HIDE DEF a
<1>4. /\ object' \in [Msg -> Row]
      /\ \A n \in Msg : n # m => object'[n] = object[n]
      /\ object'[m].rumor = IF a.fresh THEN a.rumor ELSE object[m].rumor
      /\ object'[m].selfOwed = object[m].selfOwed
  <2>1. CASE ~ a.fresh
    BY <1>2, <1>3, <2>1
  <2>2. CASE a.fresh
    <3>1. object' = [object EXCEPT ![m] = [object[m] EXCEPT !.rumor = a.rumor]]
      BY <1>2, <2>2
    <3>2. object[m] \in Row
      BY <1>1, <1>3
    <3> DEFINE r == [object[m] EXCEPT !.rumor = a.rumor]
    <3>3. r \in Row /\ r.rumor = a.rumor /\ r.selfOwed = object[m].selfOwed
      BY <1>3, <3>2 DEF Row
    <3> HIDE DEF r
    <3>4. object' = [object EXCEPT ![m] = r]
      BY <3>1 DEF r
    <3>5. QED
      BY <1>1, <1>3, <2>2, <3>3, <3>4
  <2>3. QED
    BY <2>1, <2>2
<1>5. object'[m] \in Row
  BY <1>1, <1>4
<1>6. io' = Append(IF a.fresh THEN Append(io, Save(m, object'[m])) ELSE io, Delete(m))
  BY <1>1, <1>2, <1>3, <1>5, AcknowledgeWritesFacts
<1>7. QED
  BY <1>1, <1>2, <1>4, <1>6 DEF a

MovesOn(at) ==
  /\ at \in flush.at + 1..Len(Captured) /\ at \in 1..Len(Captured)
  /\ object[Captured[at]].retries < MaxRetry
  /\ Captured' = Captured
  /\ flush' \in FlushRun /\ flush' # NoFlush
  /\ flush'.peer = flush.peer /\ flush'.detached = flush.detached
  /\ flush'.list = flush.list
  /\ flush'.at = at /\ flush'.flushed /\ flush'.attempt = NewAttempt(Captured[at])
  /\ queue' = queue /\ minted' \in [Msg -> Nat]

Ends(acks) ==
  /\ flush' = NoFlush /\ minted' = minted
  /\ queue' = [queue EXCEPT ![flush.peer] = Remaining(Captured, acks)]

LEMMA SentOutcomes ==
  ASSUME Core, NEW m, Sent(m)
  PROVE  (\E at : MovesOn(at)) \/ Ends(acked')
<1> DEFINE at == NextIndex(Captured, flush.at + 1)
<1>1. /\ flush # NoFlush /\ flush \in FlushRun /\ Captured \in Seq(Msg)
      /\ flush.at \in Nat \ {0}
  BY CapturedType DEF Sent, Core
<1>2. CASE at > 0
  <2>1. /\ flush' = [flush EXCEPT !.at = at, !.flushed = TRUE,
                                  !.attempt = NewAttempt(Captured[at])]
        /\ minted' = Minted(Captured[at], NewAttempt(Captured[at]))
        /\ queue' = queue
    BY <1>2 DEF Sent, FlushSent
  <2>2. flush.at + 1 \in Nat \ {0}
    BY <1>1
  <2>3. /\ at \in flush.at + 1..Len(Captured) /\ at \in 1..Len(Captured)
        /\ object[Captured[at]].retries < MaxRetry
    BY <1>1, <1>2, <2>2, NextIndexFacts
  <2> DEFINE n == Captured[at]
             a == NewAttempt(n)
  <2> HIDE DEF at
  <2>4. n \in Msg
    BY <1>1, <2>3
  <2> HIDE DEF n
  <2>5. a \in Attempt /\ minted' \in [Msg -> Nat]
    BY <2>1, <2>4, NewAttemptFacts, MintedType DEF Core, n
  <2> HIDE DEF a
  <2>6. flush = [peer |-> flush.peer, detached |-> flush.detached, list |-> flush.list,
                 at |-> flush.at, flushed |-> flush.flushed, attempt |-> flush.attempt]
    BY <1>1 DEF FlushRun
  <2>7. flush' = [flush EXCEPT !.at = at, !.flushed = TRUE, !.attempt = a]
    BY <2>1 DEF a, n
  <2>8. flush' = [peer |-> flush.peer, detached |-> flush.detached, list |-> flush.list,
                  at |-> at, flushed |-> TRUE, attempt |-> a]
    BY <2>6, <2>7
  <2>9. /\ flush.peer \in Peer /\ flush.detached \in BOOLEAN /\ flush.list \in Seq(Msg)
        /\ at \in Nat
    BY <1>1, <2>3 DEF FlushRun
  <2>10. flush' \in FlushRun
    BY <2>5, <2>8, <2>9 DEF FlushRun
  <2>11. flush' # NoFlush
    BY <2>10, SentinelAssumption
  <2>12. Captured' = Captured
    BY <2>1, <2>8 DEF Captured
  <2>13. MovesOn(at)
    BY <2>1, <2>3, <2>5, <2>8, <2>10, <2>11, <2>12 DEF MovesOn, a, n
  <2>14. QED
    BY <2>13
<1>3. CASE ~ (at > 0)
  BY <1>3 DEF Sent, FlushSent, FlushEnd, Ends
<1>4. QED
  BY <1>2, <1>3

LEMMA RefusedFacts ==
  ASSUME Core, NEW m, NEW outcome, Refused(m, outcome)
  PROVE  /\ m \in Msg /\ m \in ToSet(Captured) /\ status[m] = "stored"
         /\ addressee[m] = flush.peer
         /\ object' \in [Msg -> Row]
         /\ \A n \in Msg : n # m => object'[n] = object[n]
         /\ \/ object'[m].rumor = object[m].rumor
            \/ flush.attempt.fresh /\ object'[m].rumor = flush.attempt.rumor
         /\ object'[m].selfOwed = object[m].selfOwed
         /\ \/ io' = Append(io, Save(m, object'[m]))
            \/ \E row \in Row : /\ row.selfOwed = object[m].selfOwed
                                /\ io' = Append(Append(io, Save(m, row)), Save(m, object'[m]))
         /\ flush' = NoFlush /\ acked' = acked /\ minted' = minted
         /\ queue' = IF flush.flushed
                     THEN [queue EXCEPT ![flush.peer] = Remaining(Captured, acked)] ELSE queue
<1>1. /\ m \in Msg /\ m \in ToSet(Captured) /\ flush.attempt \in Attempt
      /\ flush.attempt.tries \in 0..MaxRetry /\ flush.attempt.tries < MaxRetry
      /\ status[m] = "stored" /\ addressee[m] = flush.peer /\ flush # NoFlush
  BY CapturedType, CapturedPlaces DEF Refused, Core
<1> DEFINE a == flush.attempt
           known == outcome = "refused" /\ a.fresh
           learnt == IF known THEN [object[m] EXCEPT !.rumor = a.rumor] ELSE object[m]
           row == [learnt EXCEPT !.retries = a.tries + 1]
<1>2. /\ object' = [object EXCEPT ![m] = row]
      /\ io' = (IF known THEN Append(io, Save(m, learnt)) ELSE io) \o <<Save(m, row)>>
      /\ flush' = NoFlush /\ acked' = acked /\ minted' = minted
      /\ queue' = IF flush.flushed
                  THEN [queue EXCEPT ![flush.peer] = Remaining(Captured, acked)] ELSE queue
  BY DEF Refused, FlushRefused, FlushEnd
<1>3. /\ object \in [Msg -> Row] /\ object[m] \in Row /\ a.rumor \in Nat
      /\ io \in Seq(Write) /\ a.tries + 1 \in 0..MaxRetry
  BY <1>1, PrebuiltAreMessages DEF Core, TypeOK, Attempt
<1> HIDE DEF a
<1>4. /\ learnt \in Row
      /\ learnt.rumor = IF known THEN a.rumor ELSE object[m].rumor
      /\ learnt.selfOwed = object[m].selfOwed
  BY <1>3 DEF Row
<1> HIDE DEF learnt
<1>5. /\ row \in Row /\ row.rumor = learnt.rumor /\ row.selfOwed = learnt.selfOwed
  BY <1>3, <1>4 DEF Row
<1> HIDE DEF row
<1>6. /\ object' \in [Msg -> Row] /\ object'[m] = row
      /\ \A n \in Msg : n # m => object'[n] = object[n]
  BY <1>1, <1>2, <1>3, <1>5
<1>7. io' = Append(IF known THEN Append(io, Save(m, learnt)) ELSE io, Save(m, row))
  <2> DEFINE s == IF known THEN Append(io, Save(m, learnt)) ELSE io
  <2>1. Save(m, learnt) \in Write /\ Save(m, row) \in Write
    BY <1>1, <1>4, <1>5 DEF Save, Write
  <2>2. s \in Seq(Write)
    BY <1>3, <2>1
  <2> HIDE DEF s
  <2>3. s \o <<Save(m, row)>> = Append(s, Save(m, row))
    BY <2>1, <2>2, AppendIsConcat
  <2>4. QED
    BY <1>2, <2>3 DEF s
<1>8. known \in BOOLEAN /\ (known => a.fresh)
  OBVIOUS
<1> HIDE DEF known
<1>9. QED
  BY <1>1, <1>2, <1>4, <1>5, <1>6, <1>7, <1>8 DEF a

-----------------------------------------------------------------------------
(* Arrays that only grow leave a flush where it is.                        *)
Grows ==
  /\ queue' \in [Peer -> Seq(Msg)]
  /\ \A p \in Peer : /\ Len(queue[p]) <= Len(queue'[p])
                     /\ \A i \in 1..Len(queue[p]) : queue'[p][i] = queue[p][i]

LEMMA CapturedGrows ==
  ASSUME TypeOK, flush # NoFlush, flush' = flush, Grows
  PROVE  /\ flush.at \in 1..Len(Captured')
         /\ Captured'[flush.at] = Captured[flush.at]
         /\ \A i \in 1..Len(Captured) : Captured'[i] = Captured[i]
<1>1. flush.at \in 1..Len(Captured) /\ flush.peer \in Peer
  BY CapturedType
<1>2. CASE flush.detached
  BY <1>1, <1>2 DEF Captured
<1>3. CASE ~ flush.detached
  <2>1. Captured = queue[flush.peer] /\ Captured' = queue'[flush.peer]
    BY <1>3 DEF Captured
  <2>2. queue \in [Peer -> Seq(Msg)]
    BY DEF TypeOK
  <2>3. QED
    BY <1>1, <2>1, <2>2 DEF Grows
<1>4. QED
  BY <1>2, <1>3

LEMMA StoredFacts ==
  ASSUME TypeOK, NEW m \in Msg, NEW to \in Peer, NEW row \in Row, Stored(m, to, row)
  PROVE  /\ Grows
         /\ \A p \in Peer : queue'[p] = IF p = to THEN Append(queue[p], m) ELSE queue[p]
         /\ ToSet(queue'[to]) = ToSet(queue[to]) \cup {m}
         /\ object' \in [Msg -> Row] /\ object'[m] = row
         /\ \A n \in Msg : n # m => object'[n] = object[n] /\ status'[n] = status[n]
         /\ status' \in [Msg -> {"new", "sending", "publishing", "stored", "lost"}]
         /\ status'[m] = "stored"
         /\ io' = Append(io, Save(m, row)) /\ io' \in Seq(Write)
         /\ ToSet(io') = ToSet(io) \cup {Save(m, row)}
<1>1. /\ status' = [status EXCEPT ![m] = "stored"]
      /\ object' = [object EXCEPT ![m] = row]
      /\ queue' = [queue EXCEPT ![to] = Append(@, m)]
      /\ io' = Append(io, Save(m, row))
  BY DEF Stored
<1>2. /\ status \in [Msg -> {"new", "sending", "publishing", "stored", "lost"}]
      /\ object \in [Msg -> Row] /\ queue \in [Peer -> Seq(Msg)] /\ io \in Seq(Write)
  BY DEF TypeOK
<1>3. Save(m, row) \in Write
  BY DEF Save, Write
<1>4. io' \in Seq(Write) /\ ToSet(io') = ToSet(io) \cup {Save(m, row)}
  BY <1>1, <1>2, <1>3, AppendElements
<1>5. /\ Append(queue[to], m) \in Seq(Msg)
      /\ Len(Append(queue[to], m)) = Len(queue[to]) + 1
      /\ ToSet(Append(queue[to], m)) = ToSet(queue[to]) \cup {m}
  BY <1>2, AppendElements
<1>6. \A i \in 1..Len(queue[to]) : Append(queue[to], m)[i] = queue[to][i]
  BY <1>2
<1>7. \A p \in Peer : queue'[p] = IF p = to THEN Append(queue[p], m) ELSE queue[p]
  BY <1>1, <1>2
<1>8. queue' \in [Peer -> Seq(Msg)]
  BY <1>1, <1>2, <1>5
<1>9. \A p \in Peer : Len(queue[p]) \in Nat
  BY <1>2
<1>10. Grows
  BY <1>5, <1>6, <1>7, <1>8, <1>9 DEF Grows
<1>11. ToSet(queue'[to]) = ToSet(queue[to]) \cup {m}
  BY <1>5, <1>7
<1>12. QED
  BY <1>1, <1>2, <1>4, <1>7, <1>10, <1>11

LEMMA FlushEndQueue ==
  ASSUME Core, flush # NoFlush, NEW acks,
         queue' = [queue EXCEPT ![flush.peer] = Remaining(Captured, acks)]
  PROVE  /\ queue' \in [Peer -> Seq(Msg)]
         /\ \A p \in Peer : p # flush.peer => queue'[p] = queue[p]
         /\ IsInjective(queue'[flush.peer])
         /\ ToSet(queue'[flush.peer]) = ToSet(Captured) \ acks
<1>1. flush.peer \in Peer /\ Captured \in Seq(Msg) /\ IsInjective(Captured)
  BY CapturedType, CapturedPlaces DEF Core
<1> DEFINE r == Remaining(Captured, acks)
<1>2. r \in Seq(Msg) /\ ToSet(r) = ToSet(Captured) \ acks /\ IsInjective(r)
  BY <1>1, RemainingElements
<1>3. queue \in [Peer -> Seq(Msg)]
  BY DEF Core, TypeOK
<1> HIDE DEF r
<1>4. queue' = [queue EXCEPT ![flush.peer] = r]
  BY DEF r
<1>5. QED
  BY <1>1, <1>2, <1>3, <1>4

LEMMA RestoreFacts ==
  ASSUME TypeOK, Restore
  PROVE  /\ Grows
         /\ \A p \in Peer :
              /\ ToSet(queue'[p]) =
                   ToSet(queue[p]) \cup {m \in Msg : Loads(m) /\ addressee[m] = p}
              /\ \A i \in 1..Len(queue'[p]) : i > Len(queue[p]) =>
                   \E m \in Msg : m = queue'[p][i] /\ Loads(m) /\ addressee[m] = p
              /\ (IsInjective(queue[p]) /\ ToSet(queue[p]) \cap
                   {m \in Msg : Loads(m) /\ addressee[m] = p} = {}) => IsInjective(queue'[p])
         /\ object' \in [Msg -> Row]
         /\ \A m \in Msg : object'[m] = IF Loads(m) THEN loading[m] ELSE object[m]
<1> DEFINE R(p) == {m \in Msg : Loads(m) /\ addressee[m] = p}
<1>1. loading # NoLoad /\ loading \in Rows
  BY DEF Restore, TypeOK
<1>2. {m \in Msg : loading[m] # NoRow} = {m \in Msg : Loads(m)}
  BY <1>1 DEF Loads
<1>3. \A p \in Peer : {m \in {n \in Msg : Loads(n)} : addressee[m] = p} = R(p)
  OBVIOUS
<1>4. /\ object' = [m \in Msg |-> IF Loads(m) THEN loading[m] ELSE object[m]]
      /\ queue' = [p \in Peer |-> queue[p] \o InOrder(R(p))]
  BY <1>1, <1>2, <1>3 DEF Restore, Loads
<1>5. queue \in [Peer -> Seq(Msg)] /\ object \in [Msg -> Row]
  BY DEF TypeOK
<1>6. object' \in [Msg -> Row]
  <2>1. \A m \in Msg : Loads(m) => loading[m] \in Row
    BY <1>1 DEF Loads, Rows
  <2>2. QED
    BY <1>4, <1>5, <2>1
<1>7. ASSUME NEW p \in Peer
      PROVE  /\ InOrder(R(p)) \in Seq(Msg) /\ ToSet(InOrder(R(p))) = R(p)
             /\ IsInjective(InOrder(R(p)))
  <2>1. R(p) \subseteq Msg /\ Msg \subseteq Nat /\ IsFiniteSet(Msg)
    BY QueueAssumption
  <2> HIDE DEF R
  <2>2. IsFiniteSet(R(p)) /\ R(p) \in SUBSET Nat
    BY <2>1, FS_Subset
  <2>3. InOrder(R(p)) \in Seq(R(p)) /\ ToSet(InOrder(R(p))) = R(p) /\ IsInjective(InOrder(R(p)))
    BY <2>2, InOrderElements
  <2>4. QED
    BY <2>1, <2>3
<1> HIDE DEF R
<1>8. ASSUME NEW p \in Peer
      PROVE  /\ queue'[p] \in Seq(Msg) /\ Len(queue[p]) <= Len(queue'[p])
             /\ \A i \in 1..Len(queue[p]) : queue'[p][i] = queue[p][i]
             /\ \A i \in 1..Len(queue'[p]) : i > Len(queue[p]) => queue'[p][i] \in R(p)
             /\ ToSet(queue'[p]) = ToSet(queue[p]) \cup R(p)
             /\ (IsInjective(queue[p]) /\ ToSet(queue[p]) \cap R(p) = {})
                  => IsInjective(queue'[p])
  <2> DEFINE s == queue[p]
             t == InOrder(R(p))
  <2>1. s \in Seq(Msg) /\ t \in Seq(Msg) /\ ToSet(t) = R(p) /\ IsInjective(t)
    BY <1>5, <1>7
  <2>2. queue'[p] = s \o t
    BY <1>4
  <2> HIDE DEF t
  <2>3. QED
    BY <2>1, <2>2, ConcatElements
<1>9. Grows
  BY <1>4, <1>8 DEF Grows
<1>10. ASSUME NEW p \in Peer, NEW i \in 1..Len(queue'[p]), i > Len(queue[p])
       PROVE  \E m \in Msg : m = queue'[p][i] /\ Loads(m) /\ addressee[m] = p
  BY <1>8, <1>10 DEF R
<1>11. \A m \in Msg : object'[m] = IF Loads(m) THEN loading[m] ELSE object[m]
  BY <1>4
<1>12. \A p \in Peer : R(p) = {m \in Msg : Loads(m) /\ addressee[m] = p}
  BY DEF R
<1>13. QED
  BY <1>6, <1>8, <1>9, <1>10, <1>11, <1>12

-----------------------------------------------------------------------------
(* The types, action by action.                                            *)
QuietFrame == UNCHANGED <<memory, stored, history, manual, crashes>>

(* SendMessage, the relays and the user touch nothing the queue keeps.     *)
Quiet ==
  /\ QuietFrame
  /\ \/ status' = status
     \/ \E m \in Msg : \/ status[m] = "new" /\ status' = [status EXCEPT ![m] = "sending"]
                       \/ status[m] = "sending" /\ status' = [status EXCEPT ![m] = "lost"]

LEMMA QuietActions ==
  /\ \A m \in Msg : SendMessage(m) \/ QueueFails(m) => Quiet
  /\ Connect => Quiet
  /\ Disconnect => Quiet
  /\ RelayFlaps => Quiet
  /\ SwitchChat => Quiet
  /\ UNCHANGED vars => Quiet
BY DEF Quiet, QuietFrame, SendMessage, QueueFails, Connect, Disconnect, RelayFlaps,
       SwitchChat, vars, memory, stored, history, bounds, pool

LEMMA QuietTypes ==
  ASSUME TypeOK, Quiet,
         connected' \in BOOLEAN, notified' \in BOOLEAN, activePeer' \in Peer, switches' \in Nat
  PROVE  TypeOK'
<1>1. /\ addressee' = addressee /\ object' = object /\ queue' = queue /\ acked' = acked
      /\ flush' = flush /\ retrying' = retrying /\ disk' = disk /\ io' = io
      /\ loading' = loading /\ published' = published /\ selfCopied' = selfCopied
      /\ cleared' = cleared /\ minted' = minted /\ manual' = manual /\ crashes' = crashes
  BY DEF Quiet, QuietFrame, memory, stored, history
<1>2. status' \in [Msg -> {"new", "sending", "publishing", "stored", "lost"}]
  BY DEF Quiet, TypeOK
<1>3. Captured' = Captured
  BY <1>1 DEF Captured
<1>4. QED
  BY <1>1, <1>2, <1>3 DEF TypeOK

LEMMA QuietStepTypes ==
  ASSUME TypeOK,
         \/ \E m \in Msg : SendMessage(m) \/ QueueFails(m)
         \/ Connect \/ Disconnect \/ RelayFlaps \/ SwitchChat \/ UNCHANGED vars
  PROVE  TypeOK'
<1>1. Quiet
  BY QuietActions
<1>2. connected' \in BOOLEAN /\ notified' \in BOOLEAN /\ activePeer' \in Peer /\ switches' \in Nat
  <2>1. /\ connected \in BOOLEAN /\ notified \in BOOLEAN /\ activePeer \in Peer
        /\ switches \in Nat
    BY DEF TypeOK
  <2>2. CASE \E m \in Msg : SendMessage(m) \/ QueueFails(m)
    BY <2>1, <2>2 DEF SendMessage, QueueFails, pool, bounds
  <2>3. CASE Connect
    BY <2>1, <2>3 DEF Connect, bounds
  <2>4. CASE Disconnect
    BY <2>1, <2>4 DEF Disconnect, bounds
  <2>5. CASE RelayFlaps
    BY <2>1, <2>5 DEF RelayFlaps, bounds
  <2>6. CASE SwitchChat
    BY <2>1, <2>6 DEF SwitchChat, pool
  <2>7. CASE UNCHANGED vars
    BY <2>1, <2>7 DEF vars, pool, bounds
  <2>8. QED
    BY <2>2, <2>3, <2>4, <2>5, <2>6, <2>7
<1>3. QED
  BY <1>1, <1>2, QuietTypes

LEMMA QueueMessageTypes ==
  ASSUME TypeOK, NEW m \in Msg, NEW to \in Peer, QueueFor(m, to)
  PROVE  TypeOK'
<1>1. InitialRow(m) \in Row
  BY InitialRowFacts DEF TypeOK
<1>2. /\ acked' = acked /\ flush' = flush /\ retrying' = retrying /\ disk' = disk
      /\ loading' = loading /\ published' = published /\ selfCopied' = selfCopied
      /\ cleared' = cleared /\ minted' = minted /\ manual' = manual /\ crashes' = crashes
      /\ switches' = switches /\ connected' = connected /\ notified' = notified
      /\ activePeer' = activePeer
  BY DEF QueueFor, pool, history, bounds
<1>3. addressee' \in [Msg -> Peer]
  BY <1>1 DEF TypeOK, QueueFor
<1>4. CASE connected
  <2>1. /\ status' = [status EXCEPT ![m] = "publishing"]
        /\ object' = [object EXCEPT ![m] = InitialRow(m)]
        /\ queue' = queue /\ io' = io
    BY <1>4 DEF QueueFor
  <2>2. Captured' = Captured
    BY <1>2, <2>1 DEF Captured
  <2>3. QED
    BY <1>1, <1>2, <1>3, <2>1, <2>2 DEF TypeOK
<1>5. CASE ~ connected
  <2>1. Stored(m, to, InitialRow(m))
    BY <1>5 DEF QueueFor
  <2>2. /\ Grows /\ object' \in [Msg -> Row] /\ io' \in Seq(Write)
        /\ status' \in [Msg -> {"new", "sending", "publishing", "stored", "lost"}]
    BY <1>1, <2>1, StoredFacts
  <2>3. flush # NoFlush => flush.at \in 1..Len(Captured')
    BY <1>2, <2>2, CapturedGrows
  <2>4. queue' \in [Peer -> Seq(Msg)]
    BY <2>2 DEF Grows
  <2>5. QED
    BY <1>2, <1>3, <2>2, <2>3, <2>4 DEF TypeOK
<1>6. QED
  BY <1>4, <1>5

(* The row a message is queued with after queue() tried the relays.        *)
LEMMA QueuePublishedFacts ==
  ASSUME TypeOK, NEW m \in Msg, QueuePublished(m)
  PROVE  \E outcome \in Outcome, row \in Row :
           /\ HandedOver(m, NewAttempt(m), outcome)
           /\ Stored(m, addressee[m], row)
           /\ row.rumor = IF outcome = "failed" THEN object[m].rumor ELSE NewAttempt(m).rumor
           /\ row.selfOwed = (object[m].selfOwed /\ outcome # "sent")
<1>1. PICK outcome \in Outcome :
        /\ HandedOver(m, NewAttempt(m), outcome)
        /\ Stored(m, addressee[m], [object[m] EXCEPT
                  !.rumor = IF outcome = "failed" THEN @ ELSE NewAttempt(m).rumor,
                  !.selfOwed = @ /\ outcome # "sent"])
  BY DEF QueuePublished
<1> DEFINE a == NewAttempt(m)
           r == IF outcome = "failed" THEN object[m].rumor ELSE a.rumor
           o == object[m].selfOwed /\ outcome # "sent"
           row == [object[m] EXCEPT !.rumor = r, !.selfOwed = o]
<1>2. HandedOver(m, NewAttempt(m), outcome) /\ Stored(m, addressee[m], row)
  BY <1>1
<1>3. a.rumor \in Nat
  BY NewAttemptFacts DEF Attempt
<1>4. object[m] \in Row
  BY DEF TypeOK
<1>5. object[m].rumor \in Nat /\ object[m].retries \in 0..MaxRetry /\ object[m].selfOwed \in BOOLEAN
  BY <1>4 DEF Row
<1>6. r \in Nat /\ o \in BOOLEAN
  BY <1>3, <1>5
<1>7. r = (IF outcome = "failed" THEN object[m].rumor ELSE NewAttempt(m).rumor)
      /\ o = (object[m].selfOwed /\ outcome # "sent")
  OBVIOUS
<1> HIDE DEF r, o
<1>8. row \in Row /\ row.rumor = r /\ row.selfOwed = o
  BY <1>4, <1>6 DEF Row
<1> HIDE DEF row
<1>9. row.rumor = (IF outcome = "failed" THEN object[m].rumor ELSE NewAttempt(m).rumor)
  BY <1>7, <1>8
<1>10. row.selfOwed = (object[m].selfOwed /\ outcome # "sent")
  BY <1>7, <1>8, Zenon
<1>11. QED
  BY <1>2, <1>8, <1>9, <1>10, Zenon

LEMMA QueuePublishedTypes ==
  ASSUME TypeOK, NEW m \in Msg, QueuePublished(m)
  PROVE  TypeOK'
<1>1. PICK outcome \in Outcome, row \in Row :
        HandedOver(m, NewAttempt(m), outcome) /\ Stored(m, addressee[m], row)
  BY QueuePublishedFacts
<1>2. /\ acked' = acked /\ flush' = flush /\ retrying' = retrying /\ disk' = disk
      /\ loading' = loading /\ addressee' = addressee
      /\ cleared' = cleared /\ manual' = manual /\ crashes' = crashes
      /\ switches' = switches /\ connected' = connected /\ notified' = notified
      /\ activePeer' = activePeer
  BY DEF QueuePublished, pool, bounds
<1>3. addressee[m] \in Peer /\ NewAttempt(m) \in Attempt
  BY NewAttemptFacts DEF TypeOK
<1>4. /\ Grows /\ object' \in [Msg -> Row] /\ io' \in Seq(Write)
      /\ status' \in [Msg -> {"new", "sending", "publishing", "stored", "lost"}]
  BY <1>1, <1>3, StoredFacts
<1>5. flush # NoFlush => flush.at \in 1..Len(Captured')
  BY <1>2, <1>4, CapturedGrows
<1>6. queue' \in [Peer -> Seq(Msg)]
  BY <1>4 DEF Grows
<1>7. published' \in [Msg -> [Peer -> SUBSET Nat]] /\ selfCopied' \subseteq Msg
  BY <1>1, <1>3, HandedOverFacts
<1>8. minted' \in [Msg -> Nat]
  <2>1. minted' = Minted(m, NewAttempt(m))
    BY DEF QueuePublished
  <2>2. QED
    BY <1>3, <2>1, MintedType
<1>9. QED
  BY <1>2, <1>4, <1>5, <1>6, <1>7, <1>8 DEF TypeOK

LEMMA RetryMessageFacts ==
  ASSUME TypeOK, NEW m \in Msg, RetryMessage(m)
  PROVE  /\ status[m] = "stored" /\ m \in ToSet(queue[addressee[m]])
         /\ object' \in [Msg -> Row]
         /\ \A n \in Msg : n # m => object'[n] = object[n]
         /\ object'[m].rumor = object[m].rumor /\ object'[m].selfOwed = object[m].selfOwed
         /\ io' = Append(io, Save(m, object'[m])) /\ io' \in Seq(Write)
         /\ DOMAIN retrying' \subseteq DOMAIN retrying \cup {m}
         /\ \A n \in DOMAIN retrying' :
              \/ n \in DOMAIN retrying /\ retrying'[n] = retrying[n]
              \/ n = m /\ retrying'[n] = NewAttempt(m)
         /\ minted' \in [Msg -> Nat]
<1>1. object \in [Msg -> Row] /\ io \in Seq(Write) /\ queue \in [Peer -> Seq(Msg)]
      /\ addressee[m] \in Peer /\ minted \in [Msg -> Nat]
  BY DEF TypeOK
<1>2. /\ object' = [object EXCEPT ![m].retries = 0]
      /\ io' = Append(io, Save(m, object'[m]))
      /\ status[m] = "stored" /\ Contains(queue[addressee[m]], m)
  BY DEF RetryMessage
<1>3. m \in ToSet(queue[addressee[m]])
  <2> DEFINE q == queue[addressee[m]]
  <2>1. q \in Seq(Msg) /\ \E i \in 1..Len(q) : q[i] = m
    BY <1>1, <1>2 DEF Contains
  <2> HIDE DEF q
  <2>2. m \in ToSet(q)
    BY <2>1 DEF ToSet
  <2>3. QED
    BY <2>2 DEF q
<1> DEFINE r == [object[m] EXCEPT !.retries = 0]
<1>4. r \in Row /\ r.rumor = object[m].rumor /\ r.selfOwed = object[m].selfOwed
  <2>1. object[m] \in Row /\ 0 \in 0..MaxRetry
    BY <1>1, PrebuiltAreMessages
  <2>2. QED
    BY <2>1 DEF Row
<1>5. object' = [object EXCEPT ![m] = r]
  BY <1>2
<1> HIDE DEF r
<1>6. /\ object' \in [Msg -> Row] /\ object'[m] = r
      /\ \A n \in Msg : n # m => object'[n] = object[n]
  BY <1>1, <1>4, <1>5
<1>7. io' \in Seq(Write)
  <2>1. Save(m, object'[m]) \in Write
    BY <1>4, <1>6 DEF Save, Write
  <2>2. QED
    BY <1>1, <1>2, <2>1, AppendElements
<1>8. /\ DOMAIN retrying' \subseteq DOMAIN retrying \cup {m}
      /\ \A n \in DOMAIN retrying' :
           \/ n \in DOMAIN retrying /\ retrying'[n] = retrying[n]
           \/ n = m /\ retrying'[n] = NewAttempt(m)
      /\ minted' \in [Msg -> Nat]
  <2>1. CASE connected /\ m \notin DOMAIN retrying
    <3>1. /\ retrying' = [n \in DOMAIN retrying \cup {m} |->
                            IF n = m THEN NewAttempt(m) ELSE retrying[n]]
          /\ minted' = Minted(m, NewAttempt(m))
      BY <2>1 DEF RetryMessage
    <3>2. minted' \in [Msg -> Nat]
      BY <3>1, NewAttemptFacts, MintedType
    <3>3. QED
      BY <3>1, <3>2
  <2>2. CASE ~ (connected /\ m \notin DOMAIN retrying)
    BY <1>1, <2>2 DEF RetryMessage
  <2>3. QED
    BY <2>1, <2>2
<1>9. QED
  BY <1>2, <1>3, <1>4, <1>6, <1>7, <1>8

LEMMA RetryMessageTypes ==
  ASSUME TypeOK, NEW m \in Msg, RetryMessage(m)
  PROVE  TypeOK'
<1>1. /\ status' = status /\ addressee' = addressee /\ queue' = queue /\ acked' = acked
      /\ flush' = flush /\ disk' = disk /\ loading' = loading /\ published' = published
      /\ selfCopied' = selfCopied /\ cleared' = cleared /\ crashes' = crashes
      /\ switches' = switches /\ connected' = connected /\ notified' = notified
      /\ activePeer' = activePeer /\ manual' = manual + 1
  BY DEF RetryMessage, Manual, pool
<1>2. /\ DOMAIN retrying' \subseteq Msg
      /\ \A n \in DOMAIN retrying' : retrying'[n] \in Attempt
  <2>1. NewAttempt(m) \in Attempt
    BY NewAttemptFacts
  <2>2. DOMAIN retrying \subseteq Msg /\ \A n \in DOMAIN retrying : retrying[n] \in Attempt
    BY DEF TypeOK
  <2>3. QED
    BY <2>1, <2>2, RetryMessageFacts
<1>3. object' \in [Msg -> Row] /\ io' \in Seq(Write) /\ minted' \in [Msg -> Nat]
  BY RetryMessageFacts
<1>4. Captured' = Captured
  BY <1>1 DEF Captured
<1>5. manual' \in Nat
  BY <1>1 DEF TypeOK
<1>6. QED
  BY <1>1, <1>2, <1>3, <1>4, <1>5 DEF TypeOK

LEMMA RetryPublishedFacts ==
  ASSUME TypeOK, NEW m \in Msg, RetryPublished(m)
  PROVE  /\ m \in DOMAIN retrying /\ retrying[m] \in Attempt
         /\ DOMAIN retrying' = DOMAIN retrying \ {m}
         /\ \A n \in DOMAIN retrying' : retrying'[n] = retrying[n]
         /\ object' \in [Msg -> Row]
         /\ \A n \in Msg : n # m => object'[n] = object[n]
         /\ object'[m].selfOwed = object[m].selfOwed
         /\ \/ /\ HandedOver(m, retrying[m], "sent")
               /\ acked' = acked \cup {m}
               /\ io' = Append(IF retrying[m].fresh THEN Append(io, Save(m, object'[m])) ELSE io,
                               Delete(m))
            \/ /\ \E outcome : outcome # "sent" /\ HandedOver(m, retrying[m], outcome)
               /\ object' = object /\ acked' = acked /\ io' = io
<1> DEFINE a == retrying[m]
<1>1. /\ m \in DOMAIN retrying /\ a \in Attempt /\ a.rumor \in Nat
      /\ object \in [Msg -> Row] /\ io \in Seq(Write)
  BY DEF RetryPublished, TypeOK, Attempt
<1>2. DOMAIN retrying' = DOMAIN retrying \ {m}
      /\ \A n \in DOMAIN retrying' : retrying'[n] = retrying[n]
  BY DEF RetryPublished
<1>3. PICK outcome \in Outcome :
        /\ HandedOver(m, a, outcome)
        /\ IF outcome = "sent"
           THEN /\ object' = IF a.fresh THEN [object EXCEPT ![m].rumor = a.rumor] ELSE object
                /\ acked' = acked \cup {m}
                /\ io' = io \o AcknowledgeWrites(m, a, object'[m])
           ELSE UNCHANGED <<object, acked, io>>
  BY DEF RetryPublished
<1> HIDE DEF a
<1>4. CASE outcome # "sent"
  <2>1. object' = object /\ acked' = acked /\ io' = io
    BY <1>3, <1>4
  <2>2. QED
    BY <1>1, <1>2, <1>3, <1>4, <2>1 DEF a
<1>5. CASE outcome = "sent"
  <2>1. /\ object' = IF a.fresh THEN [object EXCEPT ![m].rumor = a.rumor] ELSE object
        /\ acked' = acked \cup {m}
        /\ io' = io \o AcknowledgeWrites(m, a, object'[m])
        /\ HandedOver(m, a, "sent")
    BY <1>3, <1>5
  <2>2. /\ object' \in [Msg -> Row]
        /\ \A n \in Msg : n # m => object'[n] = object[n]
        /\ object'[m].selfOwed = object[m].selfOwed
    <3>1. CASE ~ a.fresh
      BY <1>1, <2>1, <3>1
    <3>2. CASE a.fresh
      <4> DEFINE r == [object[m] EXCEPT !.rumor = a.rumor]
      <4>1. object' = [object EXCEPT ![m] = r]
        BY <2>1, <3>2
      <4>2. r \in Row /\ r.selfOwed = object[m].selfOwed
        BY <1>1 DEF Row
      <4> HIDE DEF r
      <4>3. QED
        BY <1>1, <4>1, <4>2
    <3>3. QED
      BY <3>1, <3>2
  <2>3. object'[m] \in Row
    BY <2>2
  <2>4. io' = Append(IF a.fresh THEN Append(io, Save(m, object'[m])) ELSE io, Delete(m))
    BY <1>1, <2>1, <2>3, AcknowledgeWritesFacts
  <2>5. QED
    BY <1>1, <1>2, <2>1, <2>2, <2>4 DEF a
<1>6. QED
  BY <1>4, <1>5

(* A queue of writes that got an acknowledgement's.                        *)
LEMMA AcknowledgedIo ==
  ASSUME TypeOK, NEW m \in Msg, NEW row \in Row, NEW fresh, NEW new,
         new = Append(IF fresh THEN Append(io, Save(m, row)) ELSE io, Delete(m))
  PROVE  /\ new \in Seq(Write)
         /\ ToSet(new) \subseteq ToSet(io) \cup {Save(m, row), Delete(m)}
<1> DEFINE w == Save(m, row)
           d == Delete(m)
<1>1. w \in Write /\ d \in Write /\ io \in Seq(Write)
  BY DEF Save, Delete, Write, TypeOK
<1> HIDE DEF w, d
<1> DEFINE s == IF fresh THEN Append(io, w) ELSE io
<1>2. s \in Seq(Write) /\ ToSet(s) \subseteq ToSet(io) \cup {w}
  BY <1>1, AppendElements
<1>3. new = Append(s, d)
  BY DEF w, d
<1> HIDE DEF s
<1>4. s \in Seq(Write) /\ d \in Write
  BY <1>1, <1>2
<1>5. Append(s, d) \in Seq(Write) /\ ToSet(Append(s, d)) = ToSet(s) \cup {d}
  BY <1>4, AppendElements
<1>6. new \in Seq(Write) /\ ToSet(new) \subseteq ToSet(io) \cup {w, d}
  BY <1>2, <1>3, <1>5
<1>7. QED
  BY <1>6 DEF w, d

LEMMA RetryPublishedTypes ==
  ASSUME TypeOK, NEW m \in Msg, RetryPublished(m)
  PROVE  TypeOK'
<1>1. /\ status' = status /\ addressee' = addressee /\ queue' = queue
      /\ flush' = flush /\ disk' = disk /\ loading' = loading
      /\ cleared' = cleared /\ crashes' = crashes /\ minted' = minted
      /\ switches' = switches /\ connected' = connected /\ notified' = notified
      /\ activePeer' = activePeer /\ manual' = manual
  BY DEF RetryPublished, pool, bounds
<1>2. /\ DOMAIN retrying' \subseteq Msg
      /\ \A n \in DOMAIN retrying' : retrying'[n] \in Attempt
  BY RetryPublishedFacts DEF TypeOK
<1>3. published' \in [Msg -> [Peer -> SUBSET Nat]] /\ selfCopied' \subseteq Msg
  BY RetryPublishedFacts, HandedOverFacts
<1>4. object' \in [Msg -> Row] /\ object'[m] \in Row
  BY RetryPublishedFacts
<1>5. acked' \subseteq Msg /\ io' \in Seq(Write)
  <2>1. acked \subseteq Msg /\ io \in Seq(Write)
    BY DEF TypeOK
  <2>2. QED
    BY <1>4, <2>1, RetryPublishedFacts, AcknowledgedIo
<1>6. Captured' = Captured
  BY <1>1 DEF Captured
<1>7. QED
  BY <1>1, <1>2, <1>3, <1>4, <1>5, <1>6 DEF TypeOK

LEMMA ClearQueueFacts ==
  ASSUME TypeOK, NEW p \in Peer, ClearQueue(p)
  PROVE  /\ queue' \in [Peer -> Seq(Msg)] /\ queue'[p] = <<>>
         /\ \A q \in Peer : q # p => queue'[q] = queue[q]
         /\ flush = NoFlush => flush' = NoFlush
         /\ flush # NoFlush =>
              /\ flush' # NoFlush /\ flush' \in FlushRun
              /\ Captured' = Captured /\ flush'.peer = flush.peer /\ flush'.at = flush.at
              /\ flush'.flushed = flush.flushed /\ flush'.attempt = flush.attempt
              /\ \/ /\ flush'.detached = flush.detached /\ flush'.list = flush.list
                    /\ flush.detached \/ flush.peer # p
                 \/ flush.peer = p /\ ~ flush.detached /\ flush'.list = queue[p]
         /\ io' = Append(io, DeletePeer(p)) /\ io' \in Seq(Write)
<1>1. queue \in [Peer -> Seq(Msg)] /\ io \in Seq(Write) /\ DeletePeer(p) \in Write
  BY DEF TypeOK, DeletePeer, Write
<1>2. /\ queue' = [queue EXCEPT ![p] = <<>>] /\ io' = Append(io, DeletePeer(p))
      /\ flush' = IF flush # NoFlush /\ flush.peer = p /\ ~flush.detached
                  THEN [flush EXCEPT !.detached = TRUE, !.list = queue[p]] ELSE flush
  BY DEF ClearQueue
<1>3. io' \in Seq(Write)
  BY <1>1, <1>2, AppendElements
<1>4. <<>> \in Seq(Msg)
  OBVIOUS
<1>5. /\ queue' \in [Peer -> Seq(Msg)] /\ queue'[p] = <<>>
      /\ \A q \in Peer : q # p => queue'[q] = queue[q]
  BY <1>1, <1>2, <1>4
<1>6. CASE flush = NoFlush
  BY <1>2, <1>3, <1>5, <1>6
<1>7. CASE flush # NoFlush /\ (flush.peer # p \/ flush.detached)
  <2>1. flush' = flush
    BY <1>2, <1>7
  <2>2. flush \in FlushRun /\ flush.peer \in Peer
    BY <1>7, CapturedType
  <2>3. Captured' = Captured
    BY <1>5, <1>7, <2>1, <2>2 DEF Captured
  <2>4. QED
    BY <1>2, <1>3, <1>5, <1>7, <2>1, <2>2, <2>3
<1>8. CASE flush # NoFlush /\ flush.peer = p /\ ~ flush.detached
  <2>1. flush' = [flush EXCEPT !.detached = TRUE, !.list = queue[p]]
    BY <1>2, <1>8
  <2>2. flush \in FlushRun
    BY <1>8, CapturedType
  <2>3. queue[p] \in Seq(Msg)
    BY <1>1
  <2>4. /\ flush' \in FlushRun /\ flush'.peer = flush.peer /\ flush'.at = flush.at
        /\ flush'.flushed = flush.flushed /\ flush'.attempt = flush.attempt
        /\ flush'.detached /\ flush'.list = queue[p]
    BY <2>1, <2>2, <2>3 DEF FlushRun
  <2>5. Captured' = Captured
    BY <1>8, <2>4 DEF Captured
  <2>6. flush' # NoFlush
    BY <2>4, SentinelAssumption
  <2>7. QED
    BY <1>2, <1>3, <1>5, <1>8, <2>4, <2>5, <2>6
<1>9. QED
  BY <1>6, <1>7, <1>8

LEMMA ClearQueueTypes ==
  ASSUME TypeOK, NEW p \in Peer, ClearQueue(p)
  PROVE  TypeOK'
<1>1. /\ status' = status /\ addressee' = addressee /\ object' = object /\ acked' = acked
      /\ retrying' = retrying /\ disk' = disk /\ loading' = loading /\ published' = published
      /\ selfCopied' = selfCopied /\ minted' = minted /\ crashes' = crashes
      /\ switches' = switches /\ connected' = connected /\ notified' = notified
      /\ activePeer' = activePeer /\ manual' = manual + 1
  BY DEF ClearQueue, Manual, pool
<1>2. cleared' \subseteq Msg
  BY DEF ClearQueue, TypeOK
<1>3. manual' \in Nat
  BY <1>1 DEF TypeOK
<1>4. queue' \in [Peer -> Seq(Msg)] /\ io' \in Seq(Write)
  BY ClearQueueFacts
<1>5. /\ flush' \in FlushRun \cup {NoFlush}
      /\ flush' # NoFlush => flush'.at \in 1..Len(Captured') /\ flush'.attempt.tries < MaxRetry
  BY ClearQueueFacts, CapturedType
<1>6. QED
  BY <1>1, <1>2, <1>3, <1>4, <1>5 DEF TypeOK

Begins ==
  /\ flush = NoFlush /\ flush' # NoFlush /\ flush' \in FlushRun
  /\ flush'.peer = activePeer /\ ~ flush'.detached /\ ~ flush'.flushed
  /\ Captured' = queue[activePeer]
  /\ flush'.at \in 1..Len(queue[activePeer])
  /\ flush'.attempt = NewAttempt(queue[activePeer][flush'.at])
  /\ object[queue[activePeer][flush'.at]].retries < MaxRetry
  /\ minted' \in [Msg -> Nat]

LEMMA PoolStateChangeFacts ==
  ASSUME TypeOK, PoolStateChange
  PROVE  /\ (flush' = flush /\ minted' = minted) \/ Begins
         /\ notified' = FALSE
         /\ UNCHANGED <<status, addressee, object, queue, acked, retrying, stored, connected,
                        activePeer, published, selfCopied, cleared, bounds>>
<1> DEFINE list == queue[activePeer]
           at   == NextIndex(list, 1)
           n    == list[at]
           a    == NewAttempt(n)
           new  == [peer |-> activePeer, detached |-> FALSE, list |-> <<>>,
                    at |-> at, flushed |-> FALSE, attempt |-> a]
<1>1. /\ notified' = FALSE
      /\ UNCHANGED <<status, addressee, object, queue, acked, retrying, stored, connected,
                     activePeer, published, selfCopied, cleared, bounds>>
  BY DEF PoolStateChange
<1>2. CASE connected /\ flush = NoFlush /\ at > 0
  <2>1. flush' = new /\ minted' = Minted(n, a)
    BY <1>2 DEF PoolStateChange
  <2>2. list \in Seq(Msg) /\ activePeer \in Peer /\ queue' = queue
    BY <1>1 DEF TypeOK
  <2>3. at \in 1..Len(list) /\ object[list[at]].retries < MaxRetry
    BY <1>2, <2>2, NextIndexFacts
  <2> HIDE DEF list, at
  <2>4. n \in Msg /\ at \in Nat
    BY <2>2, <2>3
  <2> HIDE DEF n
  <2>5. a \in Attempt /\ minted' \in [Msg -> Nat]
    BY <2>1, <2>4, NewAttemptFacts, MintedType
  <2> HIDE DEF a
  <2>6. new \in FlushRun /\ <<>> \in Seq(Msg)
    BY <2>2, <2>4, <2>5 DEF FlushRun
  <2>7. new # NoFlush
    BY <2>6, SentinelAssumption
  <2>8. /\ flush' # NoFlush /\ flush' \in FlushRun /\ flush'.peer = activePeer
        /\ ~ flush'.detached /\ ~ flush'.flushed /\ flush'.at = at /\ flush'.attempt = a
    BY <2>1, <2>6, <2>7
  <2>9. Captured' = list
    BY <2>2, <2>8 DEF Captured, list
  <2>10. Begins
    BY <1>2, <2>3, <2>5, <2>8, <2>9 DEF Begins, a, n, list
  <2>11. QED
    BY <1>1, <2>10
<1>3. CASE ~ (connected /\ flush = NoFlush /\ at > 0)
  <2>1. flush' = flush /\ minted' = minted
    BY <1>3 DEF PoolStateChange
  <2>2. QED
    BY <1>1, <2>1
<1>4. QED
  BY <1>2, <1>3

LEMMA PoolStateChangeTypes ==
  ASSUME TypeOK, PoolStateChange
  PROVE  TypeOK'
<1>1. /\ status' = status /\ addressee' = addressee /\ object' = object /\ queue' = queue
      /\ acked' = acked /\ retrying' = retrying /\ disk' = disk /\ io' = io
      /\ loading' = loading /\ published' = published /\ notified' = FALSE
      /\ selfCopied' = selfCopied /\ cleared' = cleared /\ crashes' = crashes
      /\ switches' = switches /\ connected' = connected /\ activePeer' = activePeer
      /\ manual' = manual
  BY PoolStateChangeFacts DEF stored, bounds
<1>2. CASE flush' = flush /\ minted' = minted
  <2>1. Captured' = Captured
    BY <1>1, <1>2 DEF Captured
  <2>2. QED
    BY <1>1, <1>2, <2>1 DEF TypeOK
<1>3. CASE Begins
  <2> DEFINE n == queue[activePeer][flush'.at]
  <2>1. n \in Msg
    BY <1>3 DEF Begins, TypeOK
  <2> HIDE DEF n
  <2>2. /\ flush' \in FlushRun /\ flush'.at \in 1..Len(Captured')
        /\ flush'.attempt = NewAttempt(n) /\ object[n].retries < MaxRetry
        /\ minted' \in [Msg -> Nat]
    BY <1>3 DEF Begins, n
  <2>3. flush'.attempt.tries < MaxRetry
    BY <2>1, <2>2, NewAttemptFacts
  <2>4. QED
    BY <1>1, <2>2, <2>3 DEF TypeOK
<1>4. QED
  BY <1>2, <1>3, PoolStateChangeFacts

LEMMA SentTypes ==
  ASSUME Core, NEW m, Sent(m)
  PROVE  TypeOK'
<1>1. /\ status' = status /\ addressee' = addressee /\ retrying' = retrying
      /\ disk' = disk /\ loading' = loading /\ notified' = notified
      /\ cleared' = cleared /\ crashes' = crashes
      /\ switches' = switches /\ connected' = connected /\ activePeer' = activePeer
      /\ manual' = manual
  BY DEF Sent, FlushFrame, pool, bounds
<1>2. TypeOK /\ flush # NoFlush /\ m \in Msg /\ flush.attempt \in Attempt
  BY CapturedType, SentFacts DEF Core, Sent
<1>3. object' \in [Msg -> Row] /\ acked' = acked \cup {m}
  BY SentFacts
<1>4. io' \in Seq(Write)
  <2>1. object'[m] \in Row
    BY <1>2, <1>3
  <2>2. io' = Append(IF flush.attempt.fresh THEN Append(io, Save(m, object'[m])) ELSE io,
                     Delete(m))
    BY SentFacts
  <2>3. QED
    BY <1>2, <2>1, <2>2, AcknowledgedIo
<1>5. published' \in [Msg -> [Peer -> SUBSET Nat]] /\ selfCopied' \subseteq Msg
  BY <1>2, HandedOverFacts DEF Sent
<1>6. CASE \E at : MovesOn(at)
  <2>1. PICK at : MovesOn(at)
    BY <1>6
  <2> DEFINE n == Captured[at]
  <2>2. /\ at \in 1..Len(Captured) /\ Captured \in Seq(Msg)
    BY <1>2, <2>1, CapturedType DEF MovesOn
  <2>3. n \in Msg
    BY <2>2
  <2> HIDE DEF n
  <2>4. /\ Captured' = Captured /\ flush' \in FlushRun /\ flush'.at = at
        /\ flush'.attempt = NewAttempt(n) /\ object[n].retries < MaxRetry
        /\ queue' = queue /\ minted' \in [Msg -> Nat]
    BY <2>1 DEF MovesOn, n
  <2>5. flush'.attempt.tries < MaxRetry
    BY <1>2, <2>3, <2>4, NewAttemptFacts
  <2>6. flush'.at \in 1..Len(Captured')
    BY <2>2, <2>4
  <2>7. QED
    BY <1>1, <1>2, <1>3, <1>4, <1>5, <2>4, <2>5, <2>6 DEF TypeOK
<1>7. CASE Ends(acked')
  <2>1. flush' = NoFlush /\ minted' = minted /\ queue' \in [Peer -> Seq(Msg)]
    BY <1>2, <1>7, FlushEndQueue DEF Ends
  <2>2. QED
    BY <1>1, <1>2, <1>3, <1>4, <1>5, <2>1 DEF TypeOK
<1>8. QED
  BY <1>6, <1>7, SentOutcomes

LEMMA RefusedTypes ==
  ASSUME Core, NEW m, NEW outcome, Refused(m, outcome)
  PROVE  TypeOK'
<1>1. /\ status' = status /\ addressee' = addressee /\ retrying' = retrying
      /\ disk' = disk /\ loading' = loading /\ notified' = notified
      /\ cleared' = cleared /\ crashes' = crashes
      /\ switches' = switches /\ connected' = connected /\ activePeer' = activePeer
      /\ manual' = manual
  BY DEF Refused, FlushFrame, pool, bounds
<1>2. TypeOK /\ flush # NoFlush /\ m \in Msg /\ flush.attempt \in Attempt
  BY CapturedType, RefusedFacts DEF Core, Refused
<1>3. /\ object' \in [Msg -> Row] /\ flush' = NoFlush /\ acked' = acked /\ minted' = minted
  BY RefusedFacts
<1>4. io' \in Seq(Write)
  <2>1. object'[m] \in Row /\ io \in Seq(Write)
    BY <1>2, <1>3 DEF TypeOK
  <2>2. CASE io' = Append(io, Save(m, object'[m]))
    BY <1>2, <2>1, <2>2, AppendElements DEF Save, Write
  <2>3. ASSUME NEW row \in Row, io' = Append(Append(io, Save(m, row)), Save(m, object'[m]))
        PROVE  io' \in Seq(Write)
    <3>1. Save(m, row) \in Write /\ Save(m, object'[m]) \in Write
      BY <1>2, <2>1 DEF Save, Write
    <3>2. Append(io, Save(m, row)) \in Seq(Write)
      BY <2>1, <3>1, AppendElements
    <3>3. QED
      BY <2>3, <3>1, <3>2, AppendElements
  <2>4. QED
    BY <2>2, <2>3, RefusedFacts
<1>5. published' \in [Msg -> [Peer -> SUBSET Nat]] /\ selfCopied' \subseteq Msg
  BY <1>2, HandedOverFacts DEF Refused
<1>6. queue' \in [Peer -> Seq(Msg)]
  <2>1. CASE flush.flushed
    <3>1. queue' = [queue EXCEPT ![flush.peer] = Remaining(Captured, acked)]
      BY <2>1, RefusedFacts
    <3>2. QED
      BY <1>2, <3>1, FlushEndQueue
  <2>2. CASE ~ flush.flushed
    BY <1>2, <2>2, RefusedFacts DEF TypeOK
  <2>3. QED
    BY <2>1, <2>2
<1>7. QED
  BY <1>1, <1>2, <1>3, <1>4, <1>5, <1>6 DEF TypeOK

LEMMA WriteDoneFacts ==
  ASSUME TypeOK, WriteDone
  PROVE  /\ io # <<>> /\ io' = Tail(io) /\ io' \in Seq(Write) /\ Head(io) \in Write
         /\ Head(io) \in ToSet(io) /\ ToSet(io') \subseteq ToSet(io)
         /\ disk' \in Rows
         /\ \A m \in Msg :
              disk'[m] = IF Head(io) \in Saves(m) THEN Head(io).row
                         ELSE IF Head(io) \in Erasers(m) THEN NoRow ELSE disk[m]
<1> DEFINE w == Head(io)
<1>1. io # <<>> /\ io' = Tail(io) /\ io \in Seq(Write) /\ disk \in Rows
  BY DEF WriteDone, TypeOK
<1>2. /\ w \in Write /\ w \in ToSet(io) /\ io' \in Seq(Write) /\ ToSet(io') \subseteq ToSet(io)
  BY <1>1, TailPending
<1>3. disk' = CASE w.op = "save"   -> [disk EXCEPT ![w.msg] = w.row]
                [] w.op = "delete" -> [disk EXCEPT ![w.msg] = NoRow]
                [] OTHER -> [m \in Msg |-> IF addressee[m] = w.peer THEN NoRow ELSE disk[m]]
  BY DEF WriteDone
<1> HIDE DEF w
<1>4. /\ w.op = "save" => w.msg \in Msg /\ w.row \in Row
      /\ w.op = "delete" => w.msg \in Msg
      /\ w.op \in {"save", "delete", "deletePeer"}
  BY <1>2 DEF Write
<1>5. /\ \A m \in Msg : w \in Saves(m) <=> w.op = "save" /\ w.msg = m
      /\ \A m \in Msg : w \in Erasers(m) <=> \/ w.op = "delete" /\ w.msg = m
                                             \/ w.op = "deletePeer" /\ w.peer = addressee[m]
  BY <1>2 DEF Saves, Erasers
<1>6. CASE w.op = "save"
  <2>1. disk' = [disk EXCEPT ![w.msg] = w.row]
    BY <1>3, <1>6
  <2>2. QED
    BY <1>1, <1>2, <1>4, <1>5, <1>6, <2>1 DEF Rows, w
<1>7. CASE w.op = "delete"
  <2>1. disk' = [disk EXCEPT ![w.msg] = NoRow]
    BY <1>3, <1>7
  <2>2. QED
    BY <1>1, <1>2, <1>4, <1>5, <1>7, <2>1 DEF Rows, w
<1>8. CASE w.op = "deletePeer"
  <2>1. disk' = [m \in Msg |-> IF addressee[m] = w.peer THEN NoRow ELSE disk[m]]
    BY <1>3, <1>8
  <2>2. QED
    BY <1>1, <1>2, <1>4, <1>5, <1>8, <2>1 DEF Rows, w
<1>9. QED
  BY <1>4, <1>6, <1>7, <1>8

LEMMA DiskTypes ==
  ASSUME TypeOK, WriteDone \/ Crash \/ Restore
  PROVE  TypeOK'
<1>1. CASE WriteDone
  <2>1. disk' \in Rows /\ io' \in Seq(Write)
    BY <1>1, WriteDoneFacts
  <2>2. /\ status' = status /\ addressee' = addressee /\ retrying' = retrying
        /\ loading' = loading /\ notified' = notified /\ object' = object /\ queue' = queue
        /\ acked' = acked /\ flush' = flush /\ published' = published
        /\ selfCopied' = selfCopied /\ minted' = minted
        /\ cleared' = cleared /\ crashes' = crashes
        /\ switches' = switches /\ connected' = connected /\ activePeer' = activePeer
        /\ manual' = manual
    BY <1>1 DEF WriteDone, memory, pool, history, bounds
  <2>3. Captured' = Captured
    BY <2>2 DEF Captured
  <2>4. QED
    BY <2>1, <2>2, <2>3 DEF TypeOK
<1>2. CASE Crash
  <2>1. /\ addressee' = addressee /\ disk' = disk /\ activePeer' = activePeer
        /\ published' = published /\ selfCopied' = selfCopied /\ cleared' = cleared
        /\ minted' = minted /\ manual' = manual /\ switches' = switches
        /\ crashes' = crashes + 1 /\ acked' = {} /\ flush' = NoFlush /\ retrying' = <<>>
        /\ io' = <<>> /\ loading' = disk /\ connected' = FALSE /\ notified' = FALSE
        /\ object' = [m \in Msg |-> InitialRow(m)] /\ queue' = [p \in Peer |-> <<>>]
    BY <1>2 DEF Crash, history
  <2>2. status' \in [Msg -> {"new", "sending", "publishing", "stored", "lost"}]
    BY <1>2 DEF Crash, TypeOK
  <2>3. object' \in [Msg -> Row]
    BY <2>1, InitialRowFacts
  <2>4. DOMAIN retrying' = {} /\ io' \in Seq(Write) /\ queue' \in [Peer -> Seq(Msg)]
    BY <2>1
  <2>5. /\ addressee' \in [Msg -> Peer] /\ disk' \in Rows /\ activePeer' \in Peer
        /\ published' \in [Msg -> [Peer -> SUBSET Nat]] /\ selfCopied' \subseteq Msg
        /\ cleared' \subseteq Msg /\ minted' \in [Msg -> Nat] /\ manual' \in Nat
        /\ switches' \in Nat /\ crashes' \in Nat /\ loading' \in Rows /\ acked' \subseteq Msg
    BY <2>1 DEF TypeOK
  <2>6. \A m \in DOMAIN retrying' : retrying'[m] \in Attempt
    BY <2>4
  <2>7. DOMAIN retrying' \subseteq Msg /\ connected' \in BOOLEAN /\ notified' \in BOOLEAN
    BY <2>1, <2>4
  <2>8. flush' = NoFlush
    BY <2>1
  <2>9. QED
    BY <2>2, <2>3, <2>4, <2>5, <2>6, <2>7, <2>8 DEF TypeOK
<1>3. CASE Restore
  <2>1. /\ status' = status /\ addressee' = addressee /\ retrying' = retrying
        /\ loading' = NoLoad /\ notified' = notified /\ io' = io /\ disk' = disk
        /\ acked' = acked /\ flush' = flush /\ published' = published
        /\ selfCopied' = selfCopied /\ minted' = minted
        /\ cleared' = cleared /\ crashes' = crashes
        /\ switches' = switches /\ connected' = connected /\ activePeer' = activePeer
        /\ manual' = manual
    BY <1>3 DEF Restore, pool, history, bounds
  <2>2. object' \in [Msg -> Row] /\ Grows
    BY <1>3, RestoreFacts
  <2>3. flush # NoFlush => flush.at \in 1..Len(Captured')
    BY <2>1, <2>2, CapturedGrows
  <2>4. queue' \in [Peer -> Seq(Msg)]
    BY <2>2 DEF Grows
  <2>5. QED
    BY <2>1, <2>2, <2>3, <2>4 DEF TypeOK
<1>4. QED
  BY <1>1, <1>2, <1>3

LEMMA InitTypes ==
  ASSUME Init
  PROVE  TypeOK
<1>1. \A m \in Msg : InitialRow(m) \in Row
  BY InitialRowFacts
<1>2. Recipient \in [Msg -> Peer]
  BY QueueAssumption
<1>3. /\ DOMAIN <<>> = {} /\ <<>> \in Seq(Write) /\ <<>> \in Seq(Msg)
  OBVIOUS
<1>4. [m \in Msg |-> NoRow] \in Rows
  BY DEF Rows
<1>5. DOMAIN retrying = {} /\ io \in Seq(Write) /\ queue \in [Peer -> Seq(Msg)] /\ disk \in Rows
  BY <1>3, <1>4 DEF Init
<1>6. QED
  BY <1>1, <1>2, <1>5 DEF Init, TypeOK

LEMMA NextActions ==
  ASSUME Core, [Next]_vars
  PROVE  \/ \E m \in Msg, to \in Peer : QueueFor(m, to)
         \/ \E m \in Msg : QueuePublished(m)
         \/ \E m \in Msg : RetryMessage(m)
         \/ \E m \in Msg : RetryPublished(m)
         \/ \E p \in Peer : ClearQueue(p)
         \/ PoolStateChange
         \/ \E m : Sent(m)
         \/ \E m, outcome : Refused(m, outcome)
         \/ WriteDone
         \/ Crash
         \/ Restore
         \/ \/ \E m \in Msg : SendMessage(m) \/ QueueFails(m)
            \/ Connect \/ Disconnect \/ RelayFlaps \/ SwitchChat \/ UNCHANGED vars
<1>1. \A m \in Msg : QueueMessage(m) => \E to \in Peer : QueueFor(m, to)
  BY QueueAssumption DEF QueueMessage, Addressees, Core, TypeOK
<1>2. QED
  BY <1>1, FlushOutcomes DEF Next

LEMMA NextTypes ==
  ASSUME Core, [Next]_vars
  PROVE  TypeOK'
BY NextActions, QueueMessageTypes, QueuePublishedTypes, RetryMessageTypes, RetryPublishedTypes,
   ClearQueueTypes, PoolStateChangeTypes, SentTypes, RefusedTypes, DiskTypes, QuietStepTypes
   DEF Core

-----------------------------------------------------------------------------
(* Where the messages are, action by action.                               *)
LEMMA HeldFacts ==
  ASSUME TypeOK, Arrays
  PROVE  /\ \A p \in Peer, m \in Msg : m \in ToSet(queue[p]) => Held(m)
         /\ \A m \in Msg : flush # NoFlush /\ m \in ToSet(Captured) => Held(m)
BY DEF Arrays, Held

LEMMA IssuedSaves ==
  ASSUME TypeOK
  PROVE  \A w \in ToSet(io) : w \in Write /\ (w.op = "save" => w.msg \in Msg)
<1>1. io \in Seq(Write)
  BY DEF TypeOK
<1>2. ToSet(io) \subseteq Write
  BY <1>1 DEF ToSet
<1>3. \A w \in Write : w.op = "save" => w.msg \in Msg
  BY DEF Write
<1>4. QED
  BY <1>2, <1>3

LEMMA QuietPlaces ==
  ASSUME Core, Quiet
  PROVE  Places'
<1>1. /\ addressee' = addressee /\ object' = object /\ queue' = queue /\ acked' = acked
      /\ flush' = flush /\ retrying' = retrying /\ disk' = disk /\ io' = io
      /\ loading' = loading /\ published' = published
  BY DEF Quiet, QuietFrame, memory, stored, history
<1>2. Captured' = Captured
  BY <1>1 DEF Captured
<1>3. \A m \in Msg : /\ Loads(m)' <=> Loads(m)
                     /\ Held(m)' <=> Held(m)
                     /\ Rumors(m)' = Rumors(m)
  BY <1>1, <1>2 DEF Loads, Held, Rumors
<1>4. \A m \in Msg : \/ status'[m] = status[m]
                     \/ status[m] = "new" /\ status'[m] = "sending"
                     \/ status[m] = "sending" /\ status'[m] = "lost"
  BY DEF Quiet, Core, TypeOK
<1>5. \A m \in Msg : status[m] = "stored" => status'[m] = "stored"
  BY <1>4
<1>6. Arrays'
  <2>1. \A p \in Peer : ToSet(queue[p]) \subseteq Msg
    BY DEF Core, TypeOK, ToSet
  <2>2. QED
    BY <1>1, <1>5, <2>1 DEF Arrays, Core, Places
<1>7. Detached'
  <2>1. flush # NoFlush => ToSet(flush.list) \subseteq Msg
    BY DEF Core, TypeOK, FlushRun, ToSet
  <2>2. QED
    BY <1>1, <1>5, <2>1 DEF Detached, Core, Places
<1>8. Located'
  <2> SUFFICES ASSUME NEW m \in Msg
               PROVE  /\ Loads(m)' => /\ status'[m] = "stored" /\ m \notin acked'
                                      /\ ~ Held(m)' /\ m \notin DOMAIN retrying'
                      /\ disk'[m] # NoRow => status'[m] = "stored"
                      /\ m \in acked' => status'[m] = "stored" /\ Rumors(m)' # {}
                      /\ m \in DOMAIN retrying' => status'[m] = "stored"
                      /\ status'[m] \in {"new", "sending"} => object'[m] = InitialRow(m)'
    BY DEF Located
  <2>1. InitialRow(m)' = InitialRow(m)
    BY DEF InitialRow
  <2>2. QED
    BY <1>1, <1>3, <1>4, <1>5, <2>1 DEF Located, Core, Places
<1>9. SavesStored'
  <2>1. \A w \in ToSet(io) : w.op = "save" => w.msg \in Msg
    BY IssuedSaves DEF Core
  <2>2. QED
    BY <1>1, <1>5, <2>1 DEF SavesStored, Core, Places
<1>10. QED
  BY <1>6, <1>7, <1>8, <1>9 DEF Places

LEMMA StoredPlaces ==
  ASSUME Core, NEW m \in Msg, NEW to \in Peer, NEW row \in Row, Stored(m, to, row),
         status[m] \in {"sending", "publishing"},
         addressee' \in [Msg -> Peer], addressee'[m] = to,
         \A n \in Msg : n # m => addressee'[n] = addressee[n],
         UNCHANGED <<acked, flush, retrying, disk, loading>>,
         \A n \in Msg : Rumors(n) # {} => Rumors(n)' # {}
  PROVE  Places'
<1>1. /\ \A p \in Peer : queue'[p] = IF p = to THEN Append(queue[p], m) ELSE queue[p]
      /\ ToSet(queue'[to]) = ToSet(queue[to]) \cup {m}
      /\ \A n \in Msg : n # m => object'[n] = object[n] /\ status'[n] = status[n]
      /\ status'[m] = "stored"
      /\ ToSet(io') = ToSet(io) \cup {Save(m, row)}
  BY StoredFacts DEF Core
<1>2. /\ queue \in [Peer -> Seq(Msg)] /\ addressee \in [Msg -> Peer]
      /\ \A p \in Peer : queue[p] \in Seq(Msg) /\ ToSet(queue[p]) \subseteq Msg
  BY DEF Core, TypeOK, ToSet
<1>n. ASSUME NEW p \in Peer, NEW n \in ToSet(queue'[p]), n # m
      PROVE  n \in ToSet(queue[p])
  <2>1. CASE p = to
    BY <1>1, <1>n, <2>1
  <2>2. CASE p # to
    <3>1. queue'[p] = queue[p]
      BY <1>1, <2>2
    <3>2. QED
      BY <1>n, <3>1
  <2>3. QED
    BY <2>1, <2>2
<1>3. status[m] # "stored" /\ status[m] # "new"
  OBVIOUS
<1>4. \A p \in Peer : m \notin ToSet(queue[p])
  BY <1>3 DEF Core, Places, Arrays
<1>5. /\ ~ Loads(m) /\ disk[m] = NoRow /\ m \notin acked /\ m \notin DOMAIN retrying
  BY <1>3 DEF Core, Places, Located
<1>6. flush # NoFlush =>
        /\ flush.peer \in Peer /\ ToSet(flush.list) \subseteq Msg
        /\ flush.detached => m \notin ToSet(flush.list)
  <2>1. flush # NoFlush => flush.peer \in Peer /\ flush.list \in Seq(Msg)
    BY DEF Core, TypeOK, FlushRun
  <2>2. flush # NoFlush /\ flush.detached => m \notin ToSet(flush.list)
    BY <1>3 DEF Core, Places, Detached
  <2>3. QED
    BY <2>1, <2>2 DEF ToSet
<1>7. Arrays'
  <2> SUFFICES ASSUME NEW p \in Peer
               PROVE  /\ IsInjective(queue'[p])
                      /\ \A n \in ToSet(queue'[p]) : status'[n] = "stored" /\ addressee'[n] = p
    BY DEF Arrays
  <2>1. IsInjective(queue[p])
        /\ \A n \in ToSet(queue[p]) : status[n] = "stored" /\ addressee[n] = p
    BY DEF Core, Places, Arrays
  <2>2. IsInjective(queue'[p])
    BY <1>1, <1>2, <1>4, <2>1, AppendDistinct
  <2>3. \A n \in ToSet(queue'[p]) : status'[n] = "stored" /\ addressee'[n] = p
    <3> TAKE n \in ToSet(queue'[p])
    <3>1. CASE n = m
      BY <1>1, <1>4, <3>1
    <3>2. CASE n # m
      <4>1. n \in ToSet(queue[p]) /\ n \in Msg
        BY <1>2, <1>n, <3>2
      <4>2. QED
        BY <1>1, <2>1, <3>2, <4>1
    <3>3. QED
      BY <3>1, <3>2
  <2>4. QED
    BY <2>2, <2>3
<1>8. Detached'
  <2> SUFFICES ASSUME flush # NoFlush, flush.detached
               PROVE  /\ IsInjective(flush.list)
                      /\ \A n \in ToSet(flush.list) :
                           /\ status'[n] = "stored" /\ addressee'[n] = flush.peer
                           /\ n \notin ToSet(queue'[flush.peer])
    BY DEF Detached
  <2>1. /\ IsInjective(flush.list)
        /\ \A n \in ToSet(flush.list) :
             /\ status[n] = "stored" /\ addressee[n] = flush.peer
             /\ n \notin ToSet(queue[flush.peer])
    BY DEF Core, Places, Detached
  <2>2. \A n \in ToSet(flush.list) : n \in Msg /\ n # m
    BY <1>6
  <2>3. QED
    BY <1>1, <1>6, <2>1, <2>2
<1>9. \A n \in Msg : n # m /\ Held(n)' => Held(n)
  <2> TAKE n \in Msg
  <2> HAVE n # m /\ Held(n)'
  <2>1. CASE n \in ToSet(queue'[addressee'[n]])
    BY <1>2, <1>n, <2>1 DEF Held
  <2>2. CASE flush # NoFlush /\ n \in ToSet(Captured')
    <3>1. n \in ToSet(Captured)
      BY <1>1, <1>6, <2>2 DEF Captured
    <3>2. QED
      BY <2>2, <3>1 DEF Held
  <2>3. QED
    BY <2>1, <2>2 DEF Held
<1>10. Located'
  <2> SUFFICES ASSUME NEW n \in Msg
               PROVE  /\ Loads(n)' => /\ status'[n] = "stored" /\ n \notin acked'
                                      /\ ~ Held(n)' /\ n \notin DOMAIN retrying'
                      /\ disk'[n] # NoRow => status'[n] = "stored"
                      /\ n \in acked' => status'[n] = "stored" /\ Rumors(n)' # {}
                      /\ n \in DOMAIN retrying' => status'[n] = "stored"
                      /\ status'[n] \in {"new", "sending"} => object'[n] = InitialRow(n)'
    BY DEF Located
  <2>1. InitialRow(n)' = InitialRow(n) /\ (Loads(n)' <=> Loads(n))
    BY DEF InitialRow, Loads
  <2>2. CASE n = m
    BY <1>1, <1>5, <2>1, <2>2
  <2>3. CASE n # m
    BY <1>1, <1>9, <2>1, <2>3 DEF Core, Places, Located
  <2>4. QED
    BY <2>2, <2>3
<1>11. SavesStored'
  <2>1. \A w \in ToSet(io') : w.op = "save" =>
          \/ w.msg = m
          \/ w \in ToSet(io) /\ w.msg \in Msg
    BY <1>1, IssuedSaves DEF Core, Save
  <2>2. QED
    BY <1>1, <2>1 DEF SavesStored, Core, Places
<1>12. QED
  BY <1>7, <1>8, <1>10, <1>11 DEF Places

LEMMA QueueMessagePlaces ==
  ASSUME Core, NEW m \in Msg, NEW to \in Peer, QueueFor(m, to)
  PROVE  Places'
<1>1. /\ status[m] = "sending" /\ acked' = acked /\ flush' = flush /\ retrying' = retrying
      /\ disk' = disk /\ loading' = loading /\ published' = published
      /\ addressee' = [addressee EXCEPT ![m] = to]
  BY DEF QueueFor, history
<1>2. /\ addressee \in [Msg -> Peer]
      /\ InitialRow(m) \in Row
  BY InitialRowFacts DEF Core, TypeOK
<1>3. /\ addressee' \in [Msg -> Peer] /\ addressee'[m] = to
      /\ \A n \in Msg : n # m => addressee'[n] = addressee[n]
  BY <1>1, <1>2
<1>4. \A n \in Msg : Rumors(n)' = Rumors(n)
  BY <1>1 DEF Rumors
<1>5. CASE ~ connected
  <2>1. Stored(m, to, InitialRow(m))
    BY <1>5 DEF QueueFor
  <2>2. QED
    BY <1>1, <1>2, <1>3, <1>4, <2>1, StoredPlaces
<1>6. CASE connected
  <2>1. /\ status' = [status EXCEPT ![m] = "publishing"]
        /\ object' = [object EXCEPT ![m] = InitialRow(m)]
        /\ queue' = queue /\ io' = io
    BY <1>6 DEF QueueFor
  <2>2. /\ status'[m] = "publishing"
        /\ \A n \in Msg : n # m => status'[n] = status[n] /\ object'[n] = object[n]
        /\ \A n \in Msg : status[n] = "stored" =>
             n # m /\ status'[n] = "stored" /\ addressee'[n] = addressee[n]
    BY <1>1, <1>3, <2>1 DEF Core, TypeOK
  <2>3. Captured' = Captured
    BY <1>1, <2>1 DEF Captured
  <2>4. /\ \A p \in Peer : ToSet(queue[p]) \subseteq Msg
        /\ flush # NoFlush => ToSet(flush.list) \subseteq Msg
    BY DEF Core, TypeOK, FlushRun, ToSet
  <2>5. Arrays' /\ Detached'
    BY <1>1, <2>1, <2>2, <2>4 DEF Arrays, Detached, Core, Places
  <2>6. \A n \in Msg : n # m /\ Held(n)' => Held(n)
    BY <1>1, <1>3, <2>1, <2>3 DEF Held
  <2>7. Located'
    <3> SUFFICES ASSUME NEW n \in Msg
                 PROVE  /\ Loads(n)' => /\ status'[n] = "stored" /\ n \notin acked'
                                        /\ ~ Held(n)' /\ n \notin DOMAIN retrying'
                        /\ disk'[n] # NoRow => status'[n] = "stored"
                        /\ n \in acked' => status'[n] = "stored" /\ Rumors(n)' # {}
                        /\ n \in DOMAIN retrying' => status'[n] = "stored"
                        /\ status'[n] \in {"new", "sending"} => object'[n] = InitialRow(n)'
      BY DEF Located
    <3>1. InitialRow(n)' = InitialRow(n) /\ (Loads(n)' <=> Loads(n))
      BY <1>1 DEF InitialRow, Loads
    <3>2. QED
      BY <1>1, <1>4, <2>2, <2>6, <3>1 DEF Core, Places, Located
  <2>8. SavesStored'
    BY <2>1, <2>2, IssuedSaves DEF SavesStored, Core, Places
  <2>9. QED
    BY <2>5, <2>7, <2>8 DEF Places
<1>7. QED
  BY <1>5, <1>6

LEMMA QueuePublishedPlaces ==
  ASSUME Core, NEW m \in Msg, QueuePublished(m)
  PROVE  Places'
<1>1. /\ status[m] = "publishing" /\ acked' = acked /\ flush' = flush /\ retrying' = retrying
      /\ disk' = disk /\ loading' = loading /\ addressee' = addressee
  BY DEF QueuePublished
<1>2. PICK outcome \in Outcome, row \in Row :
        HandedOver(m, NewAttempt(m), outcome) /\ Stored(m, addressee[m], row)
  BY QueuePublishedFacts DEF Core
<1>3. NewAttempt(m) \in Attempt /\ addressee \in [Msg -> Peer]
  BY NewAttemptFacts DEF Core, TypeOK
<1>4. \A n \in Msg : Rumors(n) # {} => Rumors(n)' # {}
  BY <1>2, <1>3, HandedOverFacts DEF Core
<1>5. QED
  BY <1>1, <1>2, <1>3, <1>4, StoredPlaces

(* Steps that bring no message into an array.                              *)
LEMMA LeavingPlaces ==
  ASSUME Core, UNCHANGED <<status, addressee, disk, loading>>,
         Arrays', Detached',
         \A n \in Msg : Held(n)' => Held(n),
         \A n \in DOMAIN retrying' : n \in DOMAIN retrying \/ (Held(n) /\ status[n] = "stored"),
         \A n \in Msg : n \in acked' =>
           \/ n \in acked /\ Rumors(n)' # {}
           \/ status[n] = "stored" /\ ~ Loads(n) /\ Rumors(n)' # {},
         \A n \in Msg : object'[n] = object[n] \/ status[n] \notin {"new", "sending"},
         \A w \in ToSet(io') : w \in ToSet(io) \/ w.op # "save" \/ status[w.msg] = "stored"
  PROVE  Places'
<1>1. Located'
  <2> SUFFICES ASSUME NEW n \in Msg
               PROVE  /\ Loads(n)' => /\ status'[n] = "stored" /\ n \notin acked'
                                      /\ ~ Held(n)' /\ n \notin DOMAIN retrying'
                      /\ disk'[n] # NoRow => status'[n] = "stored"
                      /\ n \in acked' => status'[n] = "stored" /\ Rumors(n)' # {}
                      /\ n \in DOMAIN retrying' => status'[n] = "stored"
                      /\ status'[n] \in {"new", "sending"} => object'[n] = InitialRow(n)'
    BY DEF Located
  <2>1. InitialRow(n)' = InitialRow(n) /\ (Loads(n)' <=> Loads(n))
    BY DEF InitialRow, Loads
  <2>2. /\ Loads(n) => /\ status[n] = "stored" /\ n \notin acked
                       /\ ~ Held(n) /\ n \notin DOMAIN retrying
        /\ disk[n] # NoRow => status[n] = "stored"
        /\ n \in acked => status[n] = "stored" /\ Rumors(n) # {}
        /\ n \in DOMAIN retrying => status[n] = "stored"
        /\ status[n] \in {"new", "sending"} => object[n] = InitialRow(n)
    BY DEF Core, Places, Located
  <2>3. QED
    BY <2>1, <2>2
<1>2. SavesStored'
  BY DEF SavesStored, Core, Places
<1>3. QED
  BY <1>1, <1>2 DEF Places

LEMMA StayingPlaces ==
  ASSUME Core, UNCHANGED <<status, addressee, queue, flush, disk, loading>>,
         \A n \in DOMAIN retrying' : n \in DOMAIN retrying \/ (Held(n) /\ status[n] = "stored"),
         \A n \in Msg : n \in acked' =>
           \/ n \in acked /\ Rumors(n)' # {}
           \/ status[n] = "stored" /\ ~ Loads(n) /\ Rumors(n)' # {},
         \A n \in Msg : object'[n] = object[n] \/ status[n] \notin {"new", "sending"},
         \A w \in ToSet(io') : w \in ToSet(io) \/ w.op # "save" \/ status[w.msg] = "stored"
  PROVE  Places'
<1>1. Captured' = Captured
  BY DEF Captured
<1>2. \A n \in Msg : Held(n)' => Held(n)
  BY <1>1 DEF Held
<1>3. Arrays' /\ Detached'
  BY DEF Arrays, Detached, Core, Places
<1>4. UNCHANGED <<status, addressee, disk, loading>>
  OBVIOUS
<1>5. QED
  BY <1>2, <1>3, <1>4, LeavingPlaces

LEMMA RetryMessagePlaces ==
  ASSUME Core, NEW m \in Msg, RetryMessage(m)
  PROVE  Places'
<1>1. /\ status' = status /\ addressee' = addressee /\ queue' = queue /\ flush' = flush
      /\ disk' = disk /\ loading' = loading /\ acked' = acked /\ published' = published
  BY DEF RetryMessage
<1>2. /\ status[m] = "stored" /\ m \in ToSet(queue[addressee[m]])
      /\ DOMAIN retrying' \subseteq DOMAIN retrying \cup {m}
      /\ \A n \in Msg : n # m => object'[n] = object[n]
      /\ object' \in [Msg -> Row]
      /\ io' = Append(io, Save(m, object'[m]))
  BY RetryMessageFacts DEF Core
<1>3. Held(m)
  BY <1>2 DEF Held
<1>4. \A n \in Msg : n \in acked => Rumors(n)' # {}
  BY <1>1 DEF Rumors, Core, Places, Located
<1>5. \A w \in ToSet(io') : w \in ToSet(io) \/ w.op # "save" \/ status[w.msg] = "stored"
  <2>1. Save(m, object'[m]) \in Write /\ io \in Seq(Write)
    BY <1>2 DEF Save, Write, Core, TypeOK
  <2>2. ToSet(io') = ToSet(io) \cup {Save(m, object'[m])}
    BY <1>2, <2>1, AppendElements
  <2>3. QED
    BY <1>2, <2>2 DEF Save
<1>6. /\ UNCHANGED <<status, addressee, queue, flush, disk, loading>>
      /\ \A n \in DOMAIN retrying' : n \in DOMAIN retrying \/ (Held(n) /\ status[n] = "stored")
      /\ \A n \in Msg : object'[n] = object[n] \/ status[n] \notin {"new", "sending"}
      /\ \A n \in Msg : n \in acked' =>
           \/ n \in acked /\ Rumors(n)' # {}
           \/ status[n] = "stored" /\ ~ Loads(n) /\ Rumors(n)' # {}
  <2>1. UNCHANGED <<status, addressee, queue, flush, disk, loading>>
    BY <1>1
  <2>2. \A n \in DOMAIN retrying' : n \in DOMAIN retrying \/ (Held(n) /\ status[n] = "stored")
    BY <1>2, <1>3
  <2>3. \A n \in Msg : object'[n] = object[n] \/ status[n] \notin {"new", "sending"}
    BY <1>2
  <2>4. QED
    BY <1>1, <1>4, <2>1, <2>2, <2>3
<1>7. QED
  BY <1>5, <1>6, StayingPlaces

LEMMA RetryPublishedPlaces ==
  ASSUME Core, NEW m \in Msg, RetryPublished(m)
  PROVE  Places'
<1>1. /\ status' = status /\ addressee' = addressee /\ queue' = queue /\ flush' = flush
      /\ disk' = disk /\ loading' = loading
  BY DEF RetryPublished
<1>2. /\ m \in DOMAIN retrying /\ retrying[m] \in Attempt
      /\ DOMAIN retrying' = DOMAIN retrying \ {m}
      /\ object' \in [Msg -> Row]
      /\ \A n \in Msg : n # m => object'[n] = object[n]
  BY RetryPublishedFacts DEF Core
<1>3. status[m] = "stored" /\ ~ Loads(m)
  BY <1>2 DEF Core, Places, Located
<1>4. \A n \in Msg : n \in acked => Rumors(n) # {}
  BY DEF Core, Places, Located
<1>a. /\ UNCHANGED <<status, addressee, queue, flush, disk, loading>>
      /\ \A n \in DOMAIN retrying' : n \in DOMAIN retrying \/ (Held(n) /\ status[n] = "stored")
      /\ \A n \in Msg : object'[n] = object[n] \/ status[n] \notin {"new", "sending"}
  <2>1. UNCHANGED <<status, addressee, queue, flush, disk, loading>>
    BY <1>1
  <2>2. \A n \in DOMAIN retrying' : n \in DOMAIN retrying \/ (Held(n) /\ status[n] = "stored")
    BY <1>2
  <2>3. \A n \in Msg : object'[n] = object[n] \/ status[n] \notin {"new", "sending"}
    BY <1>2, <1>3
  <2>4. QED
    BY <2>1, <2>2, <2>3
<1>5. CASE /\ HandedOver(m, retrying[m], "sent")
           /\ acked' = acked \cup {m}
           /\ io' = Append(IF retrying[m].fresh THEN Append(io, Save(m, object'[m])) ELSE io,
                           Delete(m))
  <2>1. /\ \A n \in Msg : n # m => Rumors(n)' = Rumors(n)
        /\ Rumors(m)' = Rumors(m) \cup {retrying[m].rumor}
    BY <1>2, <1>5, HandedOverFacts DEF Core
  <2>2. object'[m] \in Row
    BY <1>2
  <2>3. ToSet(io') \subseteq ToSet(io) \cup {Save(m, object'[m]), Delete(m)}
    BY <1>5, <2>2, AcknowledgedIo DEF Core
  <2>4. \A w \in ToSet(io') : w \in ToSet(io) \/ w.op # "save" \/ status[w.msg] = "stored"
    BY <1>3, <2>3 DEF Save, Delete
  <2>5. \A n \in Msg : n \in acked' =>
           \/ n \in acked /\ Rumors(n)' # {}
           \/ status[n] = "stored" /\ ~ Loads(n) /\ Rumors(n)' # {}
    BY <1>3, <1>4, <1>5, <2>1
  <2>6. QED
    BY <1>a, <2>4, <2>5, StayingPlaces
<1>6. CASE /\ \E outcome : outcome # "sent" /\ HandedOver(m, retrying[m], outcome)
           /\ object' = object /\ acked' = acked /\ io' = io
  <2>1. \A n \in Msg : Rumors(n)' = Rumors(n)
    BY <1>2, <1>6, HandedOverFacts DEF Core
  <2>2. /\ \A n \in Msg : n \in acked' =>
             \/ n \in acked /\ Rumors(n)' # {}
             \/ status[n] = "stored" /\ ~ Loads(n) /\ Rumors(n)' # {}
        /\ \A w \in ToSet(io') : w \in ToSet(io) \/ w.op # "save" \/ status[w.msg] = "stored"
    BY <1>4, <1>6, <2>1
  <2>3. QED
    BY <1>a, <2>2, StayingPlaces
<1>7. QED
  BY <1>5, <1>6, RetryPublishedFacts DEF Core

LEMMA WriteDonePlaces ==
  ASSUME Core, WriteDone
  PROVE  Places'
<1>1. /\ status' = status /\ addressee' = addressee /\ queue' = queue /\ flush' = flush
      /\ loading' = loading /\ object' = object /\ acked' = acked /\ retrying' = retrying
      /\ published' = published
  BY DEF WriteDone, memory, history
<1>2. /\ ToSet(io') \subseteq ToSet(io) /\ Head(io) \in ToSet(io)
      /\ \A m \in Msg :
           disk'[m] = IF Head(io) \in Saves(m) THEN Head(io).row
                      ELSE IF Head(io) \in Erasers(m) THEN NoRow ELSE disk[m]
  BY WriteDoneFacts DEF Core
<1>3. \A m \in Msg : disk'[m] # NoRow => status[m] = "stored"
  <2> TAKE m \in Msg
  <2>1. CASE Head(io) \in Saves(m)
    BY <1>2, <2>1 DEF Saves, SavesStored, Core, Places
  <2>2. CASE Head(io) \notin Saves(m)
    BY <1>2, <2>2 DEF Located, Core, Places
  <2>3. QED
    BY <2>1, <2>2
<1>4. Captured' = Captured
  BY <1>1 DEF Captured
<1>5. \A m \in Msg : /\ Held(m)' <=> Held(m)
                     /\ Loads(m)' <=> Loads(m)
                     /\ Rumors(m)' = Rumors(m) /\ InitialRow(m)' = InitialRow(m)
  BY <1>1, <1>4 DEF Held, Loads, Rumors, InitialRow
<1>6. Arrays' /\ Detached'
  BY <1>1 DEF Arrays, Detached, Core, Places
<1>7. Located'
  BY <1>1, <1>3, <1>5 DEF Located, Core, Places
<1>8. SavesStored'
  BY <1>1, <1>2 DEF SavesStored, Core, Places
<1>9. QED
  BY <1>6, <1>7, <1>8 DEF Places

LEMMA ClearQueuePlaces ==
  ASSUME Core, NEW p \in Peer, ClearQueue(p)
  PROVE  Places'
<1>1. /\ status' = status /\ addressee' = addressee /\ object' = object /\ acked' = acked
      /\ retrying' = retrying /\ disk' = disk /\ loading' = loading /\ published' = published
  BY DEF ClearQueue
<1>2. /\ queue' \in [Peer -> Seq(Msg)] /\ queue'[p] = <<>>
      /\ \A q \in Peer : q # p => queue'[q] = queue[q]
      /\ flush = NoFlush => flush' = NoFlush
      /\ flush # NoFlush =>
           /\ flush' # NoFlush
           /\ Captured' = Captured /\ flush'.peer = flush.peer
           /\ \/ /\ flush'.detached = flush.detached /\ flush'.list = flush.list
                 /\ flush.detached \/ flush.peer # p
              \/ flush.peer = p /\ ~ flush.detached /\ flush'.list = queue[p]
      /\ io' = Append(io, DeletePeer(p))
  BY ClearQueueFacts DEF Core
<1>3. IsInjective(<<>>) /\ ToSet(<<>>) = {}
  BY DEF IsInjective, ToSet
<1>4. \A q \in Peer : ToSet(queue'[q]) \subseteq ToSet(queue[q])
  <2> TAKE q \in Peer
  <2>1. CASE q = p
    BY <1>2, <1>3, <2>1
  <2>2. CASE q # p
    BY <1>2, <2>2
  <2>3. QED
    BY <2>1, <2>2
<1>5. Arrays'
  <2>1. \A q \in Peer : IsInjective(queue'[q])
    <3> TAKE q \in Peer
    <3>1. CASE q = p
      BY <1>2, <1>3, <3>1
    <3>2. CASE q # p
      BY <1>2, <3>2 DEF Core, Places, Arrays
    <3>3. QED
      BY <3>1, <3>2
  <2>2. \A q \in Peer : \A m \in ToSet(queue'[q]) : status'[m] = "stored" /\ addressee'[m] = q
    BY <1>1, <1>4 DEF Core, Places, Arrays
  <2>3. QED
    BY <2>1, <2>2 DEF Arrays
<1>6. Detached'
  <2> SUFFICES ASSUME flush' # NoFlush, flush'.detached
               PROVE  /\ IsInjective(flush'.list)
                      /\ \A m \in ToSet(flush'.list) :
                           /\ status'[m] = "stored" /\ addressee'[m] = flush'.peer
                           /\ m \notin ToSet(queue'[flush'.peer])
    BY DEF Detached
  <2>1. flush # NoFlush /\ flush.peer \in Peer
    BY <1>2, CapturedType DEF Core
  <2>2. CASE /\ flush'.detached = flush.detached /\ flush'.list = flush.list
    BY <1>1, <1>2, <1>4, <2>1, <2>2 DEF Core, Places, Detached
  <2>3. CASE flush.peer = p /\ ~ flush.detached /\ flush'.list = queue[p]
    BY <1>1, <1>2, <1>3, <2>1, <2>3 DEF Core, Places, Arrays
  <2>4. QED
    BY <1>2, <2>1, <2>2, <2>3
<1>7. \A n \in Msg : Held(n)' => Held(n)
  <2>1. addressee \in [Msg -> Peer]
    BY DEF Core, TypeOK
  <2>2. \A n \in Msg : n \in ToSet(queue'[addressee'[n]]) => n \in ToSet(queue[addressee[n]])
    BY <1>1, <1>4, <2>1
  <2>3. \A n \in Msg : flush' # NoFlush /\ n \in ToSet(Captured') =>
                         flush # NoFlush /\ n \in ToSet(Captured)
    BY <1>2
  <2>4. QED
    BY <2>2, <2>3 DEF Held
<1>8. \A w \in ToSet(io') : w \in ToSet(io) \/ w.op # "save" \/ status[w.msg] = "stored"
  <2>1. DeletePeer(p) \in Write /\ io \in Seq(Write)
    BY DEF DeletePeer, Write, Core, TypeOK
  <2>2. ToSet(io') = ToSet(io) \cup {DeletePeer(p)}
    BY <1>2, <2>1, AppendElements
  <2>3. QED
    BY <2>2 DEF DeletePeer
<1>9. \A n \in Msg : n \in acked' => n \in acked /\ Rumors(n)' # {}
  BY <1>1 DEF Rumors, Core, Places, Located
<1>10. QED
  BY <1>1, <1>5, <1>6, <1>7, <1>8, <1>9, LeavingPlaces

LEMMA PoolStateChangePlaces ==
  ASSUME Core, PoolStateChange
  PROVE  Places'
<1>1. /\ status' = status /\ addressee' = addressee /\ object' = object /\ acked' = acked
      /\ retrying' = retrying /\ disk' = disk /\ loading' = loading /\ published' = published
      /\ queue' = queue /\ io' = io
  BY PoolStateChangeFacts DEF Core, stored
<1>2. \A n \in Msg : n \in acked' => n \in acked /\ Rumors(n)' # {}
  BY <1>1 DEF Rumors, Core, Places, Located
<1>3. /\ UNCHANGED <<status, addressee, disk, loading>>
      /\ \A n \in DOMAIN retrying' : n \in DOMAIN retrying \/ (Held(n) /\ status[n] = "stored")
      /\ \A n \in Msg : n \in acked' =>
           \/ n \in acked /\ Rumors(n)' # {}
           \/ status[n] = "stored" /\ ~ Loads(n) /\ Rumors(n)' # {}
      /\ \A n \in Msg : object'[n] = object[n] \/ status[n] \notin {"new", "sending"}
      /\ \A w \in ToSet(io') : w \in ToSet(io) \/ w.op # "save" \/ status[w.msg] = "stored"
  BY <1>1, <1>2
<1>4. CASE flush' = flush
  <2>1. UNCHANGED <<status, addressee, queue, flush, disk, loading>>
    BY <1>1, <1>4
  <2>2. QED
    BY <1>3, <2>1, StayingPlaces
<1>5. CASE Begins
  <2>1. activePeer \in Peer /\ ~ flush'.detached /\ Captured' = queue[activePeer]
    BY <1>5 DEF Core, TypeOK, Begins
  <2>2. Arrays' /\ Detached'
    BY <1>1, <2>1 DEF Core, Places, Arrays, Detached
  <2>3. \A n \in Msg : Held(n)' => Held(n)
    BY <1>1, <2>1 DEF Held, Core, Places, Arrays
  <2>4. QED
    BY <1>3, <2>2, <2>3, LeavingPlaces
<1>6. QED
  BY <1>4, <1>5, PoolStateChangeFacts DEF Core

(* The array as the flush leaves it holds only what it held.               *)
LEMMA FlushEndPlaces ==
  ASSUME Core, flush # NoFlush, flush' = NoFlush, UNCHANGED <<status, addressee>>, NEW acks,
         queue' = [queue EXCEPT ![flush.peer] = Remaining(Captured, acks)]
  PROVE  Arrays' /\ Detached' /\ \A n \in Msg : Held(n)' => Held(n)
<1>1. /\ \A p \in Peer : p # flush.peer => queue'[p] = queue[p]
      /\ IsInjective(queue'[flush.peer])
      /\ ToSet(queue'[flush.peer]) = ToSet(Captured) \ acks
      /\ flush.peer \in Peer
  BY FlushEndQueue, CapturedType DEF Core
<1>2. \A m \in ToSet(Captured) : status[m] = "stored" /\ addressee[m] = flush.peer
  BY CapturedPlaces
<1>3. ASSUME NEW p \in Peer
      PROVE  /\ IsInjective(queue'[p])
             /\ \A m \in ToSet(queue'[p]) : status'[m] = "stored" /\ addressee'[m] = p
  <2>1. CASE p = flush.peer
    BY <1>1, <1>2, <2>1
  <2>2. CASE p # flush.peer
    BY <1>1, <2>2 DEF Core, Places, Arrays
  <2>3. QED
    BY <2>1, <2>2
<1>4. ASSUME NEW n \in Msg, Held(n)' PROVE Held(n)
  <2>1. n \in ToSet(queue'[addressee[n]]) /\ addressee[n] \in Peer
    BY <1>4 DEF Held, Core, TypeOK
  <2>2. CASE addressee[n] = flush.peer
    BY <1>1, <2>1, <2>2 DEF Held
  <2>3. CASE addressee[n] # flush.peer
    BY <1>1, <2>1, <2>3 DEF Held
  <2>4. QED
    BY <2>2, <2>3
<1>5. QED
  BY <1>3, <1>4 DEF Arrays, Detached

LEMMA SentPlaces ==
  ASSUME Core, NEW m, Sent(m)
  PROVE  Places'
<1>1. /\ status' = status /\ addressee' = addressee /\ retrying' = retrying
      /\ disk' = disk /\ loading' = loading /\ flush # NoFlush
      /\ HandedOver(m, flush.attempt, "sent")
  BY DEF Sent, FlushFrame
<1>2. /\ m \in Msg /\ m \in ToSet(Captured) /\ status[m] = "stored"
      /\ acked' = acked \cup {m}
      /\ object' \in [Msg -> Row]
      /\ \A n \in Msg : n # m => object'[n] = object[n]
      /\ io' = Append(IF flush.attempt.fresh THEN Append(io, Save(m, object'[m])) ELSE io,
                      Delete(m))
  BY SentFacts
<1>3. ~ Loads(m)
  <2>1. Held(m)
    BY <1>1, <1>2 DEF Held
  <2>2. QED
    BY <1>2, <2>1 DEF Core, Places, Located
<1>4. \A n \in Msg : n \in acked => Rumors(n) # {}
  BY DEF Core, Places, Located
<1>5. /\ \A n \in Msg : n # m => Rumors(n)' = Rumors(n)
      /\ Rumors(m)' = Rumors(m) \cup {flush.attempt.rumor}
  BY <1>1, <1>2, HandedOverFacts, CapturedType DEF Core
<1>6. \A w \in ToSet(io') : w \in ToSet(io) \/ w.op # "save" \/ status[w.msg] = "stored"
  <2>1. object'[m] \in Row
    BY <1>2
  <2>2. ToSet(io') \subseteq ToSet(io) \cup {Save(m, object'[m]), Delete(m)}
    BY <1>2, <2>1, AcknowledgedIo DEF Core
  <2>3. QED
    BY <1>2, <2>2 DEF Save, Delete
<1>7. \A n \in Msg : n \in acked' =>
         \/ n \in acked /\ Rumors(n)' # {}
         \/ status[n] = "stored" /\ ~ Loads(n) /\ Rumors(n)' # {}
  BY <1>2, <1>3, <1>4, <1>5
<1>8. /\ UNCHANGED <<status, addressee, disk, loading>>
      /\ \A n \in DOMAIN retrying' : n \in DOMAIN retrying \/ (Held(n) /\ status[n] = "stored")
  BY <1>1
<1>9. \A n \in Msg : object'[n] = object[n] \/ status[n] \notin {"new", "sending"}
  BY <1>2
<1>10. Arrays' /\ Detached' /\ \A n \in Msg : Held(n)' => Held(n)
  <2>1. CASE \E at : MovesOn(at)
    <3>1. /\ Captured' = Captured /\ queue' = queue /\ flush'.peer = flush.peer
          /\ flush'.detached = flush.detached /\ flush'.list = flush.list
      BY <2>1 DEF MovesOn
    <3>2. QED
      BY <1>1, <3>1 DEF Arrays, Detached, Held, Core, Places
  <2>2. CASE Ends(acked')
    <3>1. UNCHANGED <<status, addressee>>
      BY <1>1
    <3>2. QED
      BY <1>1, <2>2, <3>1, FlushEndPlaces DEF Ends
  <2>3. QED
    BY <2>1, <2>2, SentOutcomes
<1>11. QED
  BY <1>6, <1>7, <1>8, <1>9, <1>10, LeavingPlaces

LEMMA RefusedPlaces ==
  ASSUME Core, NEW m, NEW outcome, Refused(m, outcome)
  PROVE  Places'
<1>1. /\ status' = status /\ addressee' = addressee /\ retrying' = retrying
      /\ disk' = disk /\ loading' = loading /\ flush # NoFlush
      /\ HandedOver(m, flush.attempt, outcome) /\ outcome # "sent"
  BY DEF Refused, FlushFrame
<1>2. /\ m \in Msg /\ m \in ToSet(Captured) /\ status[m] = "stored"
      /\ object' \in [Msg -> Row]
      /\ \A n \in Msg : n # m => object'[n] = object[n]
      /\ \/ io' = Append(io, Save(m, object'[m]))
         \/ \E row \in Row : /\ row.selfOwed = object[m].selfOwed
                             /\ io' = Append(Append(io, Save(m, row)), Save(m, object'[m]))
      /\ flush' = NoFlush /\ acked' = acked
      /\ queue' = IF flush.flushed
                  THEN [queue EXCEPT ![flush.peer] = Remaining(Captured, acked)] ELSE queue
  BY RefusedFacts
<1>3. \A n \in Msg : Rumors(n)' = Rumors(n)
  BY <1>1, <1>2, HandedOverFacts, CapturedType DEF Core
<1>4. \A w \in ToSet(io') : w \in ToSet(io) \/ w.op # "save" \/ status[w.msg] = "stored"
  <2> DEFINE last == Save(m, object'[m])
  <2>1. object'[m] \in Row /\ io \in Seq(Write)
    BY <1>2 DEF Core, TypeOK
  <2>2. last \in Write /\ last.msg = m
    BY <1>2, <2>1 DEF Save, Write
  <2>3. CASE io' = Append(io, last)
    <3>1. ToSet(io') = ToSet(io) \cup {last}
      BY <2>1, <2>2, <2>3, AppendElements
    <3>2. QED
      BY <1>2, <2>2, <3>1
  <2>4. ASSUME NEW row \in Row, io' = Append(Append(io, Save(m, row)), last)
        PROVE  \A w \in ToSet(io') :
                 w \in ToSet(io) \/ w.op # "save" \/ status[w.msg] = "stored"
    <3> DEFINE first == Save(m, row)
    <3>1. first \in Write /\ first.msg = m
      BY <1>2 DEF Save, Write
    <3>2. /\ Append(io, first) \in Seq(Write)
          /\ ToSet(Append(io, first)) = ToSet(io) \cup {first}
      BY <2>1, <3>1, AppendElements
    <3> DEFINE s == Append(io, first)
    <3>a. io' = Append(s, last) /\ s \in Seq(Write)
      BY <2>4, <3>2
    <3> HIDE DEF first, last, s
    <3>b. ToSet(io') = ToSet(s) \cup {last}
      BY <2>2, <3>a, AppendElements
    <3>3. ToSet(io') = ToSet(Append(io, first)) \cup {last}
      BY <3>b DEF s
    <3>4. QED
      BY <1>2, <2>2, <3>1, <3>2, <3>3
  <2>5. QED
    BY <1>2, <2>3, <2>4
<1>5. \A n \in Msg : n \in acked' => n \in acked /\ Rumors(n)' # {}
  BY <1>2, <1>3 DEF Core, Places, Located
<1>6. /\ UNCHANGED <<status, addressee, disk, loading>>
      /\ \A n \in DOMAIN retrying' : n \in DOMAIN retrying \/ (Held(n) /\ status[n] = "stored")
  BY <1>1
<1>7. \A n \in Msg : object'[n] = object[n] \/ status[n] \notin {"new", "sending"}
  BY <1>2
<1>8. Arrays' /\ Detached' /\ \A n \in Msg : Held(n)' => Held(n)
  <2>1. CASE flush.flushed
    <3>1. queue' = [queue EXCEPT ![flush.peer] = Remaining(Captured, acked)]
      BY <1>2, <2>1
    <3>2. UNCHANGED <<status, addressee>>
      BY <1>1
    <3>3. QED
      BY <1>1, <1>2, <3>1, <3>2, FlushEndPlaces
  <2>2. CASE ~ flush.flushed
    <3>1. queue' = queue
      BY <1>2, <2>2
    <3>2. QED
      BY <1>1, <1>2, <3>1 DEF Arrays, Detached, Held, Core, Places
  <2>3. QED
    BY <2>1, <2>2
<1>9. QED
  BY <1>4, <1>5, <1>6, <1>7, <1>8, LeavingPlaces

LEMMA CrashPlaces ==
  ASSUME Core, Crash
  PROVE  Places'
<1>1. /\ addressee' = addressee /\ disk' = disk /\ published' = published
      /\ acked' = {} /\ flush' = NoFlush /\ retrying' = <<>> /\ io' = <<>> /\ loading' = disk
      /\ object' = [m \in Msg |-> InitialRow(m)] /\ queue' = [p \in Peer |-> <<>>]
      /\ status' = [m \in Msg |->
           IF status[m] \in {"sending", "publishing"} \/ (status[m] = "stored" /\ disk[m] = NoRow)
           THEN "lost" ELSE status[m]]
  BY DEF Crash, history
<1>2. IsInjective(<<>>) /\ ToSet(<<>>) = {} /\ DOMAIN <<>> = {}
  BY DEF IsInjective, ToSet
<1>3. Arrays'
  BY <1>1, <1>2 DEF Arrays
<1>4. Detached'
  BY <1>1 DEF Detached
<1>5. \A m \in Msg : ~ Held(m)'
  BY <1>1, <1>2 DEF Held, Core, TypeOK
<1>6. \A m \in Msg : disk[m] # NoRow => status'[m] = "stored"
  BY <1>1 DEF Core, Places, Located
<1>7. Located'
  <2> SUFFICES ASSUME NEW n \in Msg
               PROVE  /\ Loads(n)' => /\ status'[n] = "stored" /\ n \notin acked'
                                      /\ ~ Held(n)' /\ n \notin DOMAIN retrying'
                      /\ disk'[n] # NoRow => status'[n] = "stored"
                      /\ n \in acked' => status'[n] = "stored" /\ Rumors(n)' # {}
                      /\ n \in DOMAIN retrying' => status'[n] = "stored"
                      /\ status'[n] \in {"new", "sending"} => object'[n] = InitialRow(n)'
    BY DEF Located
  <2>1. InitialRow(n)' = InitialRow(n)
    BY DEF InitialRow
  <2>2. Loads(n)' => disk[n] # NoRow
    BY <1>1 DEF Loads
  <2>3. QED
    BY <1>1, <1>2, <1>5, <1>6, <2>1, <2>2
<1>8. SavesStored'
  BY <1>1, <1>2 DEF SavesStored
<1>9. QED
  BY <1>3, <1>4, <1>7, <1>8 DEF Places

LEMMA RestorePlaces ==
  ASSUME Core, Restore
  PROVE  Places'
<1>1. /\ status' = status /\ addressee' = addressee /\ acked' = acked /\ flush' = flush
      /\ retrying' = retrying /\ disk' = disk /\ io' = io /\ published' = published
      /\ loading' = NoLoad
  BY DEF Restore, history
<1>2. /\ \A p \in Peer :
           /\ ToSet(queue'[p]) = ToSet(queue[p]) \cup {m \in Msg : Loads(m) /\ addressee[m] = p}
           /\ (IsInjective(queue[p]) /\ ToSet(queue[p]) \cap
                {m \in Msg : Loads(m) /\ addressee[m] = p} = {}) => IsInjective(queue'[p])
      /\ \A m \in Msg : object'[m] = IF Loads(m) THEN loading[m] ELSE object[m]
  BY RestoreFacts DEF Core
<1>3. \A m \in Msg : ~ Loads(m)'
  BY <1>1 DEF Loads
<1>4. \A m \in Msg : Loads(m) => status[m] = "stored" /\ ~ Held(m)
  BY DEF Core, Places, Located
<1>5. Arrays'
  <2> SUFFICES ASSUME NEW p \in Peer
               PROVE  /\ IsInjective(queue'[p])
                      /\ \A n \in ToSet(queue'[p]) : status'[n] = "stored" /\ addressee'[n] = p
    BY DEF Arrays
  <2>1. IsInjective(queue[p])
        /\ \A n \in ToSet(queue[p]) : status[n] = "stored" /\ addressee[n] = p
    BY DEF Core, Places, Arrays
  <2> DEFINE R == {m \in Msg : Loads(m) /\ addressee[m] = p}
  <2>2. ToSet(queue[p]) \cap R = {}
    BY <1>4 DEF Held
  <2>3. \A n \in R : status[n] = "stored" /\ addressee[n] = p
    BY <1>4
  <2>4. /\ ToSet(queue'[p]) = ToSet(queue[p]) \cup R
        /\ (IsInjective(queue[p]) /\ ToSet(queue[p]) \cap R = {}) => IsInjective(queue'[p])
    BY <1>2
  <2> HIDE DEF R
  <2>5. QED
    BY <1>1, <2>1, <2>2, <2>3, <2>4
<1>6. Detached'
  <2> SUFFICES ASSUME flush # NoFlush, flush.detached
               PROVE  /\ IsInjective(flush.list)
                      /\ \A n \in ToSet(flush.list) :
                           /\ status[n] = "stored" /\ addressee[n] = flush.peer
                           /\ n \notin ToSet(queue'[flush.peer])
    BY <1>1 DEF Detached
  <2>1. /\ IsInjective(flush.list)
        /\ \A n \in ToSet(flush.list) :
             /\ status[n] = "stored" /\ addressee[n] = flush.peer
             /\ n \notin ToSet(queue[flush.peer])
    BY DEF Core, Places, Detached
  <2>2. \A n \in ToSet(flush.list) : Held(n) /\ flush.peer \in Peer
    BY CapturedType DEF Held, Captured, Core
  <2>3. \A n \in ToSet(flush.list) : n \notin ToSet(queue'[flush.peer])
    BY <1>2, <1>4, <2>1, <2>2
  <2>4. QED
    BY <2>1, <2>3
<1>7. Located'
  <2> SUFFICES ASSUME NEW n \in Msg
               PROVE  /\ Loads(n)' => /\ status'[n] = "stored" /\ n \notin acked'
                                      /\ ~ Held(n)' /\ n \notin DOMAIN retrying'
                      /\ disk'[n] # NoRow => status'[n] = "stored"
                      /\ n \in acked' => status'[n] = "stored" /\ Rumors(n)' # {}
                      /\ n \in DOMAIN retrying' => status'[n] = "stored"
                      /\ status'[n] \in {"new", "sending"} => object'[n] = InitialRow(n)'
    BY DEF Located
  <2>1. InitialRow(n)' = InitialRow(n) /\ Rumors(n)' = Rumors(n)
    BY <1>1 DEF InitialRow, Rumors
  <2>2. /\ disk[n] # NoRow => status[n] = "stored"
        /\ n \in acked => status[n] = "stored" /\ Rumors(n) # {}
        /\ n \in DOMAIN retrying => status[n] = "stored"
        /\ status[n] \in {"new", "sending"} => object[n] = InitialRow(n)
    BY DEF Core, Places, Located
  <2>3. status[n] \in {"new", "sending"} => object'[n] = object[n]
    BY <1>2, <1>4
  <2>4. QED
    BY <1>1, <1>3, <2>1, <2>2, <2>3
<1>8. SavesStored'
  BY <1>1 DEF SavesStored, Core, Places
<1>9. QED
  BY <1>5, <1>6, <1>7, <1>8 DEF Places

LEMMA InitPlaces ==
  ASSUME Init
  PROVE  Places
<1>1. IsInjective(<<>>) /\ ToSet(<<>>) = {} /\ DOMAIN <<>> = {}
  BY DEF IsInjective, ToSet
<1>2. Arrays /\ Detached /\ SavesStored
  BY <1>1 DEF Init, Arrays, Detached, SavesStored
<1>3. Located
  BY <1>1 DEF Init, Located, Loads
<1>4. QED
  BY <1>2, <1>3 DEF Places

LEMMA NextPlaces ==
  ASSUME Core, [Next]_vars
  PROVE  Places'
<1>1. (\/ \E m \in Msg : SendMessage(m) \/ QueueFails(m)
       \/ Connect \/ Disconnect \/ RelayFlaps \/ SwitchChat \/ UNCHANGED vars) => Quiet
  BY QuietActions
<1>2. QED
  BY <1>1, NextActions, QueueMessagePlaces, QueuePublishedPlaces, RetryMessagePlaces,
     RetryPublishedPlaces, ClearQueuePlaces, PoolStateChangePlaces, SentPlaces, RefusedPlaces,
     WriteDonePlaces, CrashPlaces, RestorePlaces, QuietPlaces

LEMMA InitCore == Init => Core
BY InitTypes, InitPlaces DEF Core

LEMMA NextCore == Core /\ [Next]_vars => Core'
BY NextTypes, NextPlaces DEF Core

-----------------------------------------------------------------------------
(* What the writes come to.                                                *)
LEMMA OutlastsAppend ==
  ASSUME NEW S, NEW s \in Seq(S), NEW e \in S, NEW A, NEW B, NEW now \in BOOLEAN
  PROVE  /\ e \in A => Outlasts(Append(s, e), now, A, B)
         /\ e \notin B /\ Outlasts(s, now, A, B) => Outlasts(Append(s, e), now, A, B)
BY AppendPending DEF Outlasts

LEMMA OutlastsTail ==
  ASSUME NEW S, NEW s \in Seq(S), s # <<>>, NEW A, NEW B, NEW now \in BOOLEAN,
         NEW next \in BOOLEAN, Outlasts(s, now, A, B),
         Head(s) \in A => next, now /\ Head(s) \notin B => next
  PROVE  Outlasts(Tail(s), next, A, B)
BY TailPending DEF Outlasts

LEMMA WriteKinds ==
  ASSUME NEW m \in Msg, NEW row \in Row, NEW n \in Msg, NEW p \in Peer
  PROVE  /\ Save(m, row) \in Saves(m) /\ Save(m, row) \notin Erasers(n)
         /\ n # m => Save(m, row) \notin Saves(n) /\ Delete(m) \notin Erasers(n)
         /\ Delete(m) \notin Saves(n) /\ DeletePeer(p) \notin Saves(n)
         /\ addressee[n] # p => DeletePeer(p) \notin Erasers(n)
BY WriteTypes DEF Saves, Erasers, Save, Delete, DeletePeer

LEMMA OutlastsAcknowledge ==
  ASSUME NEW s \in Seq(Write), NEW m \in Msg, NEW row \in Row, NEW t,
         t = s \/ t = Append(s, Save(m, row)),
         NEW A, NEW B, NEW now \in BOOLEAN
  PROVE  /\ Delete(m) \in A => Outlasts(Append(t, Delete(m)), now, A, B)
         /\ (Save(m, row) \notin B /\ Delete(m) \notin B /\ Outlasts(s, now, A, B))
               => Outlasts(Append(t, Delete(m)), now, A, B)
<1> DEFINE w == Save(m, row)
           d == Delete(m)
<1>1. w \in Write /\ d \in Write
  BY DEF Save, Delete, Write
<1> HIDE DEF w, d
<1>2. t = s \/ t = Append(s, w)
  BY DEF w
<1>3. t \in Seq(Write)
  BY <1>1, <1>2, AppendElements
<1>4. w \notin B /\ Outlasts(s, now, A, B) => Outlasts(t, now, A, B)
  BY <1>1, <1>2, OutlastsAppend
<1>5. /\ d \in A => Outlasts(Append(t, d), now, A, B)
      /\ d \notin B /\ Outlasts(t, now, A, B) => Outlasts(Append(t, d), now, A, B)
  BY <1>1, <1>3, OutlastsAppend
<1>6. QED
  BY <1>4, <1>5 DEF w, d

LEMMA OutlastsSaves ==
  ASSUME NEW s \in Seq(Write), NEW m \in Msg, NEW row \in Row, NEW t,
         t = s \/ \E first \in Row : t = Append(s, Save(m, first)),
         NEW A, NEW B, NEW now \in BOOLEAN,
         \A r \in Row : Save(m, r) \notin B, Outlasts(s, now, A, B)
  PROVE  Outlasts(Append(t, Save(m, row)), now, A, B)
<1> DEFINE w(r) == Save(m, r)
<1>1. \A r \in Row : w(r) \in Write /\ w(r) \notin B
  BY DEF Save, Write
<1>2. t = s \/ \E first \in Row : t = Append(s, w(first))
  OBVIOUS
<1> HIDE DEF w
<1>a. \A e \in Write \ B : /\ Append(s, e) \in Seq(Write)
                           /\ Outlasts(Append(s, e), now, A, B)
  BY OutlastsAppend, AppendElements
<1>3. t \in Seq(Write) /\ Outlasts(t, now, A, B)
  BY <1>1, <1>2, <1>a
<1>4. Outlasts(Append(t, w(row)), now, A, B)
  BY <1>1, <1>3, OutlastsAppend
<1>5. QED
  BY <1>4 DEF w

-----------------------------------------------------------------------------
(* An unpublished message has a row, or will have.                         *)
LEMMA RecoverableFrame ==
  ASSUME Recoverable, UNCHANGED <<addressee, disk>>,
         \A n \in Msg : Owed(n)' =>
           /\ Owed(n)
           /\ Outlasts(io, disk[n] # NoRow, Saves(n), Erasers(n))
                => Outlasts(io', disk[n] # NoRow, Saves(n), Erasers(n))
  PROVE  Recoverable'
<1>1. \A n \in Msg : Erasers(n)' = Erasers(n) /\ Saves(n)' = Saves(n)
  BY DEF Erasers, Saves
<1>2. QED
  BY <1>1 DEF Recoverable, Survives

LEMMA QuietRecoverable ==
  ASSUME Core, Recoverable, Quiet
  PROVE  Recoverable'
<1>1. /\ io' = io /\ published' = published /\ cleared' = cleared
      /\ UNCHANGED <<addressee, disk>>
  BY DEF Quiet, QuietFrame, memory, stored, history
<1>2. \A n \in Msg : status'[n] = "stored" => status[n] = "stored"
  BY DEF Quiet, Core, TypeOK
<1>3. \A n \in Msg : Owed(n)' => Owed(n)
  BY <1>1, <1>2 DEF Owed, Rumors
<1>4. QED
  BY <1>1, <1>3, RecoverableFrame

LEMMA PoolStateChangeRecoverable ==
  ASSUME Core, Recoverable, PoolStateChange
  PROVE  Recoverable'
<1>1. /\ io' = io /\ published' = published /\ cleared' = cleared /\ status' = status
      /\ UNCHANGED <<addressee, disk>>
  BY DEF PoolStateChange, stored
<1>2. \A n \in Msg : Owed(n)' => Owed(n)
  BY <1>1 DEF Owed, Rumors
<1>3. QED
  BY <1>1, <1>2, RecoverableFrame

(* A message just queued has its row saved.                                *)
LEMMA StoredRecoverable ==
  ASSUME Core, Recoverable, NEW m \in Msg, NEW to \in Peer, NEW row \in Row,
         Stored(m, to, row), disk' = disk, addressee' \in [Msg -> Peer], addressee'[m] = to,
         \A n \in Msg : n # m => addressee'[n] = addressee[n] /\ (Owed(n)' => Owed(n))
  PROVE  Recoverable'
<1>1. io' = Append(io, Save(m, row)) /\ io \in Seq(Write) /\ Save(m, row) \in Write
  BY StoredFacts DEF Core, TypeOK, Save, Write
<1> SUFFICES ASSUME NEW n \in Msg, Owed(n)'
             PROVE  Survives(n)'
  BY DEF Recoverable
<1>2. CASE n = m
  <2>1. Save(m, row) \in Saves(m) /\ Saves(m)' = Saves(m)
    BY WriteKinds DEF Saves
  <2>2. Outlasts(io', disk'[m] # NoRow, Saves(m), Erasers(m)')
    BY <1>1, <2>1, OutlastsAppend
  <2>3. QED
    BY <1>2, <2>1, <2>2 DEF Survives
<1>3. CASE n # m
  <2>1. Save(m, row) \notin Erasers(n) /\ Saves(n)' = Saves(n) /\ Erasers(n)' = Erasers(n)
    BY <1>3, WriteKinds DEF Saves, Erasers
  <2>2. Outlasts(io, disk[n] # NoRow, Saves(n), Erasers(n))
    BY <1>3 DEF Recoverable, Survives
  <2>3. Outlasts(io', disk[n] # NoRow, Saves(n), Erasers(n))
    BY <1>1, <2>1, <2>2, OutlastsAppend
  <2>4. QED
    BY <2>1, <2>3 DEF Survives
<1>4. QED
  BY <1>2, <1>3

LEMMA QueueMessageRecoverable ==
  ASSUME Core, Recoverable, NEW m \in Msg, NEW to \in Peer, QueueFor(m, to)
  PROVE  Recoverable'
<1>1. /\ status[m] = "sending" /\ disk' = disk /\ published' = published /\ cleared' = cleared
      /\ addressee' = [addressee EXCEPT ![m] = to]
  BY DEF QueueFor, history
<1>2. /\ addressee \in [Msg -> Peer] /\ InitialRow(m) \in Row
  BY InitialRowFacts DEF Core, TypeOK
<1>3. /\ addressee' \in [Msg -> Peer] /\ addressee'[m] = to
      /\ \A n \in Msg : n # m => addressee'[n] = addressee[n]
  BY <1>1, <1>2
<1>4. CASE ~ connected
  <2>1. Stored(m, to, InitialRow(m))
    BY <1>4 DEF QueueFor
  <2>2. \A n \in Msg : n # m => status'[n] = status[n]
    BY <1>2, <2>1, StoredFacts DEF Core
  <2>3. \A n \in Msg : n # m => (Owed(n)' => Owed(n))
    BY <1>1, <2>2 DEF Owed, Rumors
  <2>4. QED
    BY <1>1, <1>2, <1>3, <2>1, <2>3, StoredRecoverable
<1>5. CASE connected
  <2>1. status' = [status EXCEPT ![m] = "publishing"] /\ io' = io
    BY <1>5 DEF QueueFor
  <2>2. \A n \in Msg : Owed(n)' => Owed(n) /\ n # m
    BY <1>1, <2>1 DEF Owed, Rumors, Core, TypeOK
  <2> SUFFICES ASSUME NEW n \in Msg, Owed(n)'
               PROVE  Survives(n)'
    BY DEF Recoverable
  <2>3. Saves(n)' = Saves(n) /\ Erasers(n)' = Erasers(n) /\ Survives(n)
    BY <1>3, <2>2 DEF Saves, Erasers, Recoverable
  <2>4. QED
    BY <1>1, <2>1, <2>3 DEF Survives
<1>6. QED
  BY <1>4, <1>5

LEMMA QueuePublishedRecoverable ==
  ASSUME Core, Recoverable, NEW m \in Msg, QueuePublished(m)
  PROVE  Recoverable'
<1>1. /\ disk' = disk /\ addressee' = addressee /\ cleared' = cleared
  BY DEF QueuePublished
<1>2. PICK outcome \in Outcome, row \in Row :
        HandedOver(m, NewAttempt(m), outcome) /\ Stored(m, addressee[m], row)
  BY QueuePublishedFacts DEF Core
<1>3. NewAttempt(m) \in Attempt /\ addressee \in [Msg -> Peer]
  BY NewAttemptFacts DEF Core, TypeOK
<1>4. \A n \in Msg : n # m => Rumors(n)' = Rumors(n)
  BY <1>2, <1>3, HandedOverFacts DEF Core
<1>5. \A n \in Msg : n # m => status'[n] = status[n]
  BY <1>2, <1>3, StoredFacts DEF Core
<1>6. \A n \in Msg : n # m => addressee'[n] = addressee[n] /\ (Owed(n)' => Owed(n))
  BY <1>1, <1>4, <1>5 DEF Owed
<1>7. QED
  BY <1>1, <1>2, <1>3, <1>6, StoredRecoverable

LEMMA RetryMessageRecoverable ==
  ASSUME Core, Recoverable, NEW m \in Msg, RetryMessage(m)
  PROVE  Recoverable'
<1>1. /\ published' = published /\ cleared' = cleared /\ status' = status
      /\ UNCHANGED <<addressee, disk>>
  BY DEF RetryMessage
<1>2. /\ io' = Append(io, Save(m, object'[m])) /\ object' \in [Msg -> Row]
      /\ io \in Seq(Write)
  BY RetryMessageFacts DEF Core, TypeOK
<1>3. object'[m] \in Row
  BY <1>2
<1>4. \A n \in Msg : Owed(n)' => Owed(n)
  BY <1>1 DEF Owed, Rumors
<1>5. ASSUME NEW n \in Msg, Outlasts(io, disk[n] # NoRow, Saves(n), Erasers(n))
      PROVE  Outlasts(io', disk[n] # NoRow, Saves(n), Erasers(n))
  <2> DEFINE now == disk[n] # NoRow
             A == Saves(n)
             B == Erasers(n)
  <2>1. (\A r \in Row : Save(m, r) \notin B) /\ now \in BOOLEAN
    BY DEF Save, Erasers
  <2>2. Outlasts(io, now, A, B)
    BY <1>5
  <2> HIDE DEF now, A, B
  <2>3. Outlasts(Append(io, Save(m, object'[m])), now, A, B)
    BY <1>2, <1>3, <2>1, <2>2, OutlastsSaves
  <2>b. Outlasts(io', now, A, B)
    BY <1>2, <2>3
  <2>4. QED
    BY <2>b DEF now, A, B
<1>6. QED
  BY <1>1, <1>4, <1>5, RecoverableFrame

(* A message acknowledged is no longer owed; the writes behind the         *)
(* acknowledgement erase no other.                                         *)
LEMMA AcknowledgedRecoverable ==
  ASSUME Core, Recoverable, UNCHANGED <<status, addressee, disk, cleared>>,
         NEW m \in Msg, NEW a \in Attempt, NEW row \in Row, HandedOver(m, a, "sent"),
         io' = Append(IF a.fresh THEN Append(io, Save(m, row)) ELSE io, Delete(m))
  PROVE  Recoverable'
<1>1. /\ \A n \in Msg : n # m => Rumors(n)' = Rumors(n)
      /\ Rumors(m)' = Rumors(m) \cup {a.rumor}
  BY HandedOverFacts DEF Core
<1>2. \A n \in Msg : Owed(n)' => Owed(n) /\ n # m
  BY <1>1 DEF Owed
<1>3. ASSUME NEW n \in Msg, n # m, Outlasts(io, disk[n] # NoRow, Saves(n), Erasers(n))
      PROVE  Outlasts(io', disk[n] # NoRow, Saves(n), Erasers(n))
  <2> DEFINE now == disk[n] # NoRow
             A == Saves(n)
             B == Erasers(n)
  <2>1. Save(m, row) \notin B /\ Delete(m) \notin B /\ now \in BOOLEAN
    BY <1>3 DEF Save, Delete, Erasers
  <2>2. io \in Seq(Write) /\ Outlasts(io, now, A, B)
    BY <1>3 DEF Core, TypeOK
  <2> DEFINE t == IF a.fresh THEN Append(io, Save(m, row)) ELSE io
  <2>a. (t = io \/ t = Append(io, Save(m, row))) /\ io' = Append(t, Delete(m))
    OBVIOUS
  <2> HIDE DEF now, A, B, t
  <2>b. Outlasts(Append(t, Delete(m)), now, A, B)
    BY <2>1, <2>2, <2>a, OutlastsAcknowledge
  <2>3. Outlasts(io', now, A, B)
    BY <2>a, <2>b
  <2>4. QED
    BY <2>3 DEF now, A, B
<1>4. UNCHANGED <<addressee, disk>>
  OBVIOUS
<1>5. QED
  BY <1>2, <1>3, <1>4, RecoverableFrame

LEMMA RetryPublishedRecoverable ==
  ASSUME Core, Recoverable, NEW m \in Msg, RetryPublished(m)
  PROVE  Recoverable'
<1>1. /\ UNCHANGED <<status, addressee, disk, cleared>>
  BY DEF RetryPublished
<1>2. retrying[m] \in Attempt /\ object'[m] \in Row
  BY RetryPublishedFacts DEF Core
<1>3. CASE /\ HandedOver(m, retrying[m], "sent")
           /\ io' = Append(IF retrying[m].fresh THEN Append(io, Save(m, object'[m])) ELSE io,
                           Delete(m))
  BY <1>1, <1>2, <1>3, AcknowledgedRecoverable
<1>4. CASE io' = io /\ \E outcome : outcome # "sent" /\ HandedOver(m, retrying[m], outcome)
  <2>1. \A n \in Msg : Rumors(n)' = Rumors(n)
    BY <1>2, <1>4, HandedOverFacts DEF Core
  <2>2. (\A n \in Msg : Owed(n)' => Owed(n)) /\ UNCHANGED <<addressee, disk>>
    BY <1>1, <2>1 DEF Owed
  <2>3. QED
    BY <1>4, <2>2, RecoverableFrame
<1>5. QED
  BY <1>3, <1>4, RetryPublishedFacts DEF Core

LEMMA SentRecoverable ==
  ASSUME Core, Recoverable, NEW m, Sent(m)
  PROVE  Recoverable'
<1>1. /\ UNCHANGED <<status, addressee, disk, cleared>>
      /\ HandedOver(m, flush.attempt, "sent") /\ flush.attempt \in Attempt
  BY CapturedType DEF Sent, FlushFrame, Core
<1>2. /\ m \in Msg /\ object' \in [Msg -> Row]
      /\ io' = Append(IF flush.attempt.fresh THEN Append(io, Save(m, object'[m])) ELSE io,
                      Delete(m))
  BY SentFacts
<1>3. object'[m] \in Row
  BY <1>2
<1>4. QED
  BY <1>1, <1>2, <1>3, AcknowledgedRecoverable

(* The writes of a refused publish, told as OutlastsSaves wants them.      *)
LEMMA RefusedIo ==
  ASSUME Core, NEW m, NEW outcome, Refused(m, outcome)
  PROVE  \E t : /\ t = io \/ \E first \in Row : t = Append(io, Save(m, first))
                /\ io' = Append(t, Save(m, object'[m]))
<1> DEFINE s == Save(m, object'[m])
<1>1. \/ io' = Append(io, s)
      \/ \E row \in Row : /\ row.selfOwed = object[m].selfOwed
                          /\ io' = Append(Append(io, Save(m, row)), s)
  BY RefusedFacts
<1> HIDE DEF s
<1>2. QED
  BY <1>1 DEF s

LEMMA RefusedRecoverable ==
  ASSUME Core, Recoverable, NEW m, NEW outcome, Refused(m, outcome)
  PROVE  Recoverable'
<1>1. /\ UNCHANGED <<addressee, disk>> /\ status' = status /\ cleared' = cleared
      /\ HandedOver(m, flush.attempt, outcome) /\ flush.attempt \in Attempt
      /\ outcome # "sent"
  BY CapturedType DEF Refused, FlushFrame, Core
<1>2. m \in Msg /\ object'[m] \in Row /\ io \in Seq(Write)
  BY RefusedFacts DEF Core, TypeOK
<1>3. \A n \in Msg : Owed(n)' => Owed(n)
  BY <1>1, <1>2, HandedOverFacts DEF Core, Owed
<1>4. PICK t : /\ t = io \/ \E first \in Row : t = Append(io, Save(m, first))
               /\ io' = Append(t, Save(m, object'[m]))
  BY RefusedIo
<1>5. ASSUME NEW n \in Msg, Outlasts(io, disk[n] # NoRow, Saves(n), Erasers(n))
      PROVE  Outlasts(io', disk[n] # NoRow, Saves(n), Erasers(n))
  <2> DEFINE now == disk[n] # NoRow
             A == Saves(n)
             B == Erasers(n)
  <2>1. (\A r \in Row : Save(m, r) \notin B) /\ now \in BOOLEAN
    BY DEF Save, Erasers
  <2>2. Outlasts(io, now, A, B)
    BY <1>5
  <2> HIDE DEF now, A, B
  <2>3. Outlasts(Append(t, Save(m, object'[m])), now, A, B)
    BY <1>2, <1>4, <2>1, <2>2, OutlastsSaves
  <2>4. Outlasts(io', now, A, B)
    BY <1>4, <2>3
  <2>5. QED
    BY <2>4 DEF now, A, B
<1>6. QED
  BY <1>1, <1>3, <1>5, RecoverableFrame

(* clearQueue owes its messages nothing more, and deletes no others.       *)
LEMMA ClearQueueRecoverable ==
  ASSUME Core, Recoverable, NEW p \in Peer, ClearQueue(p)
  PROVE  Recoverable'
<1>1. /\ UNCHANGED <<addressee, disk>> /\ status' = status /\ published' = published
      /\ cleared' = cleared \cup {m \in Msg : status[m] = "stored" /\ addressee[m] = p}
      /\ io' = Append(io, DeletePeer(p)) /\ io \in Seq(Write) /\ DeletePeer(p) \in Write
  BY WriteTypes DEF ClearQueue, Core, TypeOK, DeletePeer, Write
<1>2. \A n \in Msg : Owed(n)' => Owed(n) /\ addressee[n] # p
  BY <1>1 DEF Owed, Rumors
<1>3. ASSUME NEW n \in Msg, addressee[n] # p,
             Outlasts(io, disk[n] # NoRow, Saves(n), Erasers(n))
      PROVE  Outlasts(io', disk[n] # NoRow, Saves(n), Erasers(n))
  <2>1. DeletePeer(p) \notin Erasers(n)
    BY <1>3 DEF DeletePeer, Erasers
  <2>2. QED
    BY <1>1, <1>3, <2>1, OutlastsAppend
<1>4. QED
  BY <1>1, <1>2, <1>3, RecoverableFrame

LEMMA WriteDoneRecoverable ==
  ASSUME Core, Recoverable, WriteDone
  PROVE  Recoverable'
<1>1. /\ addressee' = addressee /\ published' = published /\ cleared' = cleared
      /\ status' = status /\ io' = Tail(io) /\ io # <<>> /\ io \in Seq(Write)
  BY DEF WriteDone, memory, history, Core, TypeOK
<1>2. \A n \in Msg : disk'[n] = IF Head(io) \in Saves(n) THEN Head(io).row
                                ELSE IF Head(io) \in Erasers(n) THEN NoRow ELSE disk[n]
  BY WriteDoneFacts DEF Core
<1>3. \A n \in Msg : Owed(n)' => Owed(n)
  BY <1>1 DEF Owed, Rumors
<1> SUFFICES ASSUME NEW n \in Msg, Owed(n)'
             PROVE  Survives(n)'
  BY DEF Recoverable
<1>4. Saves(n)' = Saves(n) /\ Erasers(n)' = Erasers(n)
  BY <1>1 DEF Saves, Erasers
<1>5. Head(io) \in Saves(n) => Head(io).row \in Row
  BY DEF Saves, Write
<1>6. /\ Head(io) \in Saves(n) => disk'[n] # NoRow
      /\ disk[n] # NoRow /\ Head(io) \notin Erasers(n) => disk'[n] # NoRow
  BY <1>2, <1>5, SentinelAssumption
<1>7. Outlasts(io, disk[n] # NoRow, Saves(n), Erasers(n))
  BY <1>3 DEF Recoverable, Survives
<1>8. Outlasts(Tail(io), disk'[n] # NoRow, Saves(n), Erasers(n))
  BY <1>1, <1>6, <1>7, OutlastsTail
<1>9. QED
  BY <1>1, <1>4, <1>8 DEF Survives

(* A crash loses the writes, and the messages that had no row yet.         *)
LEMMA CrashRecoverable ==
  ASSUME Crash
  PROVE  Recoverable'
<1>1. /\ disk' = disk /\ io' = <<>>
      /\ status' = [m \in Msg |->
           IF status[m] \in {"sending", "publishing"} \/ (status[m] = "stored" /\ disk[m] = NoRow)
           THEN "lost" ELSE status[m]]
  BY DEF Crash
<1>2. \A n \in Msg : Owed(n)' => disk'[n] # NoRow
  BY <1>1 DEF Owed
<1>3. \A n \in Msg : Clean(io', Erasers(n)')
  BY <1>1 DEF Clean
<1>4. QED
  BY <1>2, <1>3 DEF Recoverable, Survives, Outlasts

LEMMA RestoreRecoverable ==
  ASSUME Core, Recoverable, Restore
  PROVE  Recoverable'
<1>1. /\ io' = io /\ published' = published /\ cleared' = cleared /\ status' = status
      /\ UNCHANGED <<addressee, disk>>
  BY DEF Restore, history
<1>2. \A n \in Msg : Owed(n)' => Owed(n)
  BY <1>1 DEF Owed, Rumors
<1>3. QED
  BY <1>1, <1>2, RecoverableFrame

LEMMA NextRecoverable ==
  ASSUME Core, Recoverable, [Next]_vars
  PROVE  Recoverable'
<1>1. (\/ \E m \in Msg : SendMessage(m) \/ QueueFails(m)
       \/ Connect \/ Disconnect \/ RelayFlaps \/ SwitchChat \/ UNCHANGED vars) => Quiet
  BY QuietActions
<1>2. QED
  BY <1>1, NextActions, QueueMessageRecoverable, QueuePublishedRecoverable,
     RetryMessageRecoverable, RetryPublishedRecoverable, ClearQueueRecoverable,
     PoolStateChangeRecoverable, SentRecoverable, RefusedRecoverable, WriteDoneRecoverable,
     CrashRecoverable, RestoreRecoverable, QuietRecoverable

(* A row that outlasts the writes is on disk or among them.                *)
LEMMA RecoverableImplies ==
  Core /\ Recoverable => RecoverableUntilPublished
<1> SUFFICES ASSUME Core, Recoverable, NEW m \in Msg, Owed(m)
             PROVE  disk[m] # NoRow \/ \E i \in 1..Len(io) : io[i].op = "save" /\ io[i].msg = m
  BY DEF RecoverableUntilPublished
<1>1. io \in Seq(Write)
  BY DEF Core, TypeOK
<1>2. DOMAIN io = 1..Len(io)
  BY <1>1
<1>3. disk[m] # NoRow \/ \E i \in DOMAIN io : io[i] \in Saves(m)
  BY DEF Recoverable, Survives, Outlasts, Pending
<1>4. QED
  BY <1>2, <1>3 DEF Saves

LEMMA InitRecoverable == Init => Recoverable
BY DEF Init, Recoverable, Owed

-----------------------------------------------------------------------------
(* What holds whatever manual operations are used.                         *)

(* Where a message is, and where it is not, at every moment of the queue's *)
(* life: queue, doFlush, retryMessage, clearQueue and the constructor's    *)
(* restore keep Places, and with it the types (offline-queue.ts).          *)
THEOREM PlacesHold == Spec => [](TypeOK /\ Places)
<1>1. Init => TypeOK /\ Places
  BY InitCore DEF Core
<1>2. (TypeOK /\ Places) /\ [Next]_vars => (TypeOK /\ Places)'
  BY NextCore DEF Core
<1>3. QED
  BY <1>1, <1>2, PTL DEF Spec

(* The state of the outbox is always one the code can build: a flush is at *)
(* an index of the array it iterates and publishes a message with retries  *)
(* left (doFlush's loop, offline-queue.ts).                                *)
THEOREM OutboxTypeOK == Spec => []TypeOK
BY PlacesHold, PTL

(* A queued message no relay has taken has a row on disk, or a save of it  *)
(* is issued: saveToIndexedDB runs after every change of the message, and  *)
(* deletes follow an acknowledgement or clearQueue only.                   *)
THEOREM MessagesAreRecoverable == Spec => []RecoverableUntilPublished
<1>1. Init => Core /\ Recoverable
  BY InitCore, InitRecoverable
<1>2. (Core /\ Recoverable) /\ [Next]_vars => (Core /\ Recoverable)'
  BY NextCore, NextRecoverable
<1>3. Core /\ Recoverable => RecoverableUntilPublished
  BY RecoverableImplies
<1>4. QED
  BY <1>1, <1>2, <1>3, PTL DEF Spec

-----------------------------------------------------------------------------
(* The self copy.                                                          *)
LEMMA OwesSelfFrame ==
  ASSUME Core, SelfOwed, UNCHANGED <<disk, loading>>, selfCopied \subseteq selfCopied',
         NEW n \in Prebuilt \ selfCopied',
         Rumors(n)' = Rumors(n),
         object[n].selfOwed => object'[n].selfOwed,
         \A w \in ToSet(io') : \/ w \in ToSet(io) \/ w.op # "save" \/ w.msg # n
                               \/ object[n].selfOwed => w.row.selfOwed,
         n \in DOMAIN retrying' =>
           \/ n \in DOMAIN retrying /\ retrying'[n] = retrying[n]
           \/ object[n].selfOwed => retrying'[n].self,
         flush' # NoFlush /\ Captured'[flush'.at] = n =>
           \/ /\ flush # NoFlush /\ Captured[flush.at] = n
              /\ flush'.attempt = flush.attempt
           \/ object[n].selfOwed => flush'.attempt.self
  PROVE  OwesSelf(n)'
<1>1. OwesSelf(n)
  BY DEF SelfOwed
<1>2. Loads(n)' = Loads(n)
  BY DEF Loads
<1>3. QED
  BY <1>1, <1>2 DEF OwesSelf

LEMMA QuietSelfOwed ==
  ASSUME Core, SelfOwed, Quiet
  PROVE  SelfOwed'
<1>1. UNCHANGED <<object, queue, flush, retrying, disk, io, loading, published, selfCopied>>
  BY DEF Quiet, QuietFrame, memory, stored, history
<1>2. \A n \in Msg : OwesSelf(n)' <=> OwesSelf(n)
  BY <1>1 DEF OwesSelf, Rumors, Loads, Captured
<1>3. QED
  BY <1>1, <1>2, PrebuiltAreMessages DEF SelfOwed

LEMMA PoolStateChangeSelfOwed ==
  ASSUME Core, SelfOwed, PoolStateChange
  PROVE  SelfOwed'
<1>1. /\ UNCHANGED <<object, queue, retrying, disk, io, loading, published, selfCopied>>
      /\ flush' = flush \/ Begins
  BY PoolStateChangeFacts DEF Core, stored
<1> SUFFICES ASSUME NEW n \in Prebuilt \ selfCopied
             PROVE  OwesSelf(n)'
  BY <1>1 DEF SelfOwed
<1>2. n \in Msg /\ Rumors(n)' = Rumors(n)
  BY <1>1, PrebuiltAreMessages DEF Rumors
<1>3. flush' # NoFlush /\ Captured'[flush'.at] = n =>
        \/ /\ flush # NoFlush /\ Captured[flush.at] = n
           /\ flush'.attempt = flush.attempt
        \/ object[n].selfOwed => flush'.attempt.self
  <2>1. CASE flush' = flush
    <3>1. Captured' = Captured
      BY <1>1, <2>1 DEF Captured
    <3>2. QED
      BY <2>1, <3>1
  <2>2. CASE Begins
    <3>1. object[n].selfOwed => NewAttempt(n).self
      BY <1>2, NewAttemptFacts DEF Core
    <3>2. QED
      BY <2>2, <3>1 DEF Begins
  <2>3. QED
    BY <1>1, <2>1, <2>2
<1>4. selfCopied \subseteq selfCopied' /\ n \in Prebuilt \ selfCopied'
  BY <1>1
<1>5. QED
  BY <1>1, <1>2, <1>3, <1>4, OwesSelfFrame

(* The flush in flight looks at the same message of an array that grew.    *)
LEMMA GrownAttempt ==
  ASSUME TypeOK, flush' = flush, Grows, flush' # NoFlush, NEW n, Captured'[flush'.at] = n
  PROVE  flush # NoFlush /\ Captured[flush.at] = n /\ flush'.attempt = flush.attempt
BY CapturedGrows

LEMMA StoredSelfOwed ==
  ASSUME Core, SelfOwed, NEW m \in Msg, NEW to \in Peer, NEW row \in Row, Stored(m, to, row),
         UNCHANGED <<flush, retrying, disk, loading>>, selfCopied \subseteq selfCopied',
         \A n \in Prebuilt \ selfCopied' : Rumors(n)' = Rumors(n),
         m \in Prebuilt \ selfCopied' => row.selfOwed
  PROVE  SelfOwed'
<1>1. /\ Grows /\ object'[m] = row
      /\ \A n \in Msg : n # m => object'[n] = object[n]
      /\ ToSet(io') = ToSet(io) \cup {Save(m, row)}
  BY StoredFacts DEF Core
<1> SUFFICES ASSUME NEW n \in Prebuilt \ selfCopied'
             PROVE  OwesSelf(n)'
  BY DEF SelfOwed
<1>2. n \in Msg /\ (object[n].selfOwed => object'[n].selfOwed)
  BY <1>1, PrebuiltAreMessages
<1>3. \A w \in ToSet(io') : w \in ToSet(io) \/ w.op # "save" \/ w.msg # n
                              \/ (object[n].selfOwed => w.row.selfOwed)
  <2>1. Save(m, row).msg # n \/ (object[n].selfOwed => Save(m, row).row.selfOwed)
    BY DEF Save
  <2>2. QED
    BY <1>1, <2>1
<1>4. flush' # NoFlush /\ Captured'[flush'.at] = n =>
        flush # NoFlush /\ Captured[flush.at] = n /\ flush'.attempt = flush.attempt
  BY <1>1, GrownAttempt DEF Core
<1>5. QED
  BY <1>2, <1>3, <1>4, OwesSelfFrame

LEMMA QueueMessageSelfOwed ==
  ASSUME Core, SelfOwed, NEW m \in Msg, NEW to \in Peer, QueueFor(m, to)
  PROVE  SelfOwed'
<1>1. /\ UNCHANGED <<flush, retrying, disk, loading, published, selfCopied>>
  BY DEF QueueFor, history, Core, TypeOK
<1>2. InitialRow(m) \in Row /\ (m \in Prebuilt => InitialRow(m).selfOwed)
  BY InitialRowFacts
<1>3. \A n \in Msg : Rumors(n)' = Rumors(n)
  BY <1>1 DEF Rumors
<1>4. CASE ~ connected
  <2>1. Stored(m, to, InitialRow(m))
    BY <1>4 DEF QueueFor
  <2>2. selfCopied \subseteq selfCopied'
    BY <1>1
  <2>3. \A n \in Prebuilt \ selfCopied' : Rumors(n)' = Rumors(n)
    BY <1>3, PrebuiltAreMessages
  <2>4. QED
    BY <1>1, <1>2, <2>1, <2>2, <2>3, StoredSelfOwed
<1>5. CASE connected
  <2>1. object' = [object EXCEPT ![m] = InitialRow(m)] /\ UNCHANGED <<queue, io>>
    BY <1>5 DEF QueueFor
  <2>2. object \in [Msg -> Row]
    BY DEF Core, TypeOK
  <2>3. \A n \in Prebuilt : object[n].selfOwed => object'[n].selfOwed
    BY <1>2, <2>1, <2>2, PrebuiltAreMessages
  <2>4. \A n \in Prebuilt : OwesSelf(n) => OwesSelf(n)'
    BY <1>1, <1>3, <2>1, <2>3, PrebuiltAreMessages DEF OwesSelf, Captured, Loads
  <2>5. QED
    BY <1>1, <2>4 DEF SelfOwed
<1>6. QED
  BY <1>4, <1>5

(* The copy goes out with the first publish a relay takes: until then it   *)
(* is owed.                                                                *)
LEMMA QueuePublishedSelfOwed ==
  ASSUME Core, SelfOwed, NEW m \in Msg, QueuePublished(m)
  PROVE  SelfOwed'
<1>1. UNCHANGED <<flush, retrying, disk, loading>>
  BY DEF QueuePublished
<1>2. PICK outcome \in Outcome, row \in Row :
        /\ HandedOver(m, NewAttempt(m), outcome) /\ Stored(m, addressee[m], row)
        /\ row.selfOwed = (object[m].selfOwed /\ outcome # "sent")
  BY QueuePublishedFacts DEF Core
<1>3. /\ NewAttempt(m) \in Attempt /\ addressee[m] \in Peer
      /\ object[m].selfOwed => NewAttempt(m).self
  BY NewAttemptFacts DEF Core, TypeOK
<1>4. /\ selfCopied \subseteq selfCopied'
      /\ \A n \in Msg : n # m => Rumors(n)' = Rumors(n)
      /\ outcome = "sent" => (NewAttempt(m).self => m \in selfCopied')
      /\ outcome # "sent" => Rumors(m)' = Rumors(m)
  BY <1>2, <1>3, HandedOverFacts DEF Core
<1>5. ASSUME m \in Prebuilt \ selfCopied' PROVE outcome # "sent" /\ row.selfOwed
  <2>1. object[m].selfOwed
    BY <1>4, <1>5 DEF SelfOwed, OwesSelf
  <2>2. outcome # "sent"
    BY <1>3, <1>4, <1>5, <2>1
  <2>3. QED
    BY <1>2, <2>1, <2>2
<1>6. \A n \in Prebuilt \ selfCopied' : Rumors(n)' = Rumors(n)
  BY <1>4, <1>5, PrebuiltAreMessages
<1>7. QED
  BY <1>1, <1>2, <1>3, <1>4, <1>5, <1>6, StoredSelfOwed

LEMMA RetryMessageSelfOwed ==
  ASSUME Core, SelfOwed, NEW m \in Msg, RetryMessage(m)
  PROVE  SelfOwed'
<1>1. UNCHANGED <<queue, flush, disk, loading, published, selfCopied>>
  BY DEF RetryMessage
<1>2. /\ object' \in [Msg -> Row]
      /\ \A n \in Msg : n # m => object'[n] = object[n]
      /\ object'[m].selfOwed = object[m].selfOwed
      /\ io' = Append(io, Save(m, object'[m])) /\ io \in Seq(Write)
      /\ \A n \in DOMAIN retrying' :
           \/ n \in DOMAIN retrying /\ retrying'[n] = retrying[n]
           \/ n = m /\ retrying'[n] = NewAttempt(m)
  BY RetryMessageFacts DEF Core, TypeOK
<1>3. object'[m] \in Row
  BY <1>2
<1>4. ToSet(io') = ToSet(io) \cup {Save(m, object'[m])}
  <2> DEFINE w == Save(m, object'[m])
  <2>1. w \in Write
    BY <1>3 DEF Save, Write
  <2> HIDE DEF w
  <2>2. ToSet(Append(io, w)) = ToSet(io) \cup {w}
    BY <1>2, <2>1, AppendElements
  <2>3. QED
    BY <1>2, <2>2 DEF w
<1> SUFFICES ASSUME NEW n \in Prebuilt \ selfCopied
             PROVE  OwesSelf(n)'
  BY <1>1 DEF SelfOwed
<1>5. n \in Msg /\ Rumors(n)' = Rumors(n) /\ (object[n].selfOwed => object'[n].selfOwed)
  BY <1>1, <1>2, PrebuiltAreMessages DEF Rumors
<1>6. \A w \in ToSet(io') : w \in ToSet(io) \/ w.op # "save" \/ w.msg # n
                              \/ (object[n].selfOwed => w.row.selfOwed)
  <2>1. Save(m, object'[m]).msg = m /\ Save(m, object'[m]).row = object'[m]
    BY DEF Save
  <2>2. QED
    BY <1>4, <1>5, <2>1
<1>7. n \in DOMAIN retrying' =>
        \/ n \in DOMAIN retrying /\ retrying'[n] = retrying[n]
        \/ object[n].selfOwed => retrying'[n].self
  <2>1. object[n].selfOwed => NewAttempt(n).self
    BY <1>5, NewAttemptFacts DEF Core
  <2>2. QED
    BY <1>2, <2>1
<1>8. Captured' = Captured
  BY <1>1 DEF Captured
<1>9. selfCopied \subseteq selfCopied' /\ n \in Prebuilt \ selfCopied'
  BY <1>1
<1>10. QED
  BY <1>1, <1>5, <1>6, <1>7, <1>8, <1>9, OwesSelfFrame

(* Whoever acknowledges a message that owes the copy has handed it over.   *)
LEMMA RetryPublishedSelfOwed ==
  ASSUME Core, SelfOwed, NEW m \in Msg, RetryPublished(m)
  PROVE  SelfOwed'
<1>1. UNCHANGED <<queue, flush, disk, loading>>
  BY DEF RetryPublished
<1>2. /\ m \in DOMAIN retrying /\ retrying[m] \in Attempt
      /\ \A n \in DOMAIN retrying' : n \in DOMAIN retrying /\ retrying'[n] = retrying[n]
      /\ object' \in [Msg -> Row]
      /\ \A n \in Msg : n # m => object'[n] = object[n]
      /\ object'[m].selfOwed = object[m].selfOwed
  BY RetryPublishedFacts DEF Core
<1>3. PICK outcome :
        /\ HandedOver(m, retrying[m], outcome)
        /\ ToSet(io') \subseteq ToSet(io) \cup {Save(m, object'[m]), Delete(m)}
        /\ outcome # "sent" => io' = io
  <2>1. object'[m] \in Row
    BY <1>2
  <2>2. CASE /\ HandedOver(m, retrying[m], "sent")
             /\ io' = Append(IF retrying[m].fresh THEN Append(io, Save(m, object'[m])) ELSE io,
                             Delete(m))
    BY <2>1, <2>2, AcknowledgedIo DEF Core
  <2>3. QED
    BY <2>2, RetryPublishedFacts DEF Core
<1>4. /\ selfCopied \subseteq selfCopied'
      /\ \A n \in Msg : n # m => Rumors(n)' = Rumors(n)
      /\ outcome = "sent" => (retrying[m].self => m \in selfCopied')
      /\ outcome # "sent" => Rumors(m)' = Rumors(m)
  BY <1>2, <1>3, HandedOverFacts DEF Core
<1> SUFFICES ASSUME NEW n \in Prebuilt \ selfCopied'
             PROVE  OwesSelf(n)'
  BY DEF SelfOwed
<1>5. n \in Msg /\ (object[n].selfOwed => object'[n].selfOwed)
  BY <1>2, PrebuiltAreMessages
<1>6. Rumors(n)' = Rumors(n)
  <2>1. n = m => retrying[m].self
    BY <1>2, <1>4 DEF SelfOwed, OwesSelf
  <2>2. QED
    BY <1>4, <1>5, <2>1
<1>7. \A w \in ToSet(io') : w \in ToSet(io) \/ w.op # "save" \/ w.msg # n
                              \/ (object[n].selfOwed => w.row.selfOwed)
  <2>1. Save(m, object'[m]).msg = m /\ Save(m, object'[m]).row = object'[m]
        /\ Delete(m).op # "save"
    BY DEF Save, Delete
  <2>2. QED
    BY <1>3, <1>5, <2>1
<1>8. Captured' = Captured
  BY <1>1 DEF Captured
<1>9. QED
  BY <1>1, <1>2, <1>4, <1>5, <1>6, <1>7, <1>8, OwesSelfFrame

LEMMA SentSelfOwed ==
  ASSUME Core, SelfOwed, NEW m, Sent(m)
  PROVE  SelfOwed'
<1>1. /\ UNCHANGED <<retrying, disk, loading>> /\ flush # NoFlush /\ m = Captured[flush.at]
      /\ HandedOver(m, flush.attempt, "sent") /\ flush.attempt \in Attempt
  BY CapturedType DEF Sent, FlushFrame, Core
<1>2. /\ m \in Msg /\ object' \in [Msg -> Row]
      /\ \A n \in Msg : n # m => object'[n] = object[n]
      /\ object'[m].selfOwed = object[m].selfOwed
      /\ io' = Append(IF flush.attempt.fresh THEN Append(io, Save(m, object'[m])) ELSE io,
                      Delete(m))
  BY SentFacts
<1>3. ToSet(io') \subseteq ToSet(io) \cup {Save(m, object'[m]), Delete(m)}
  <2>1. object'[m] \in Row
    BY <1>2
  <2>2. QED
    BY <1>2, <2>1, AcknowledgedIo DEF Core
<1>4. /\ selfCopied \subseteq selfCopied'
      /\ \A n \in Msg : n # m => Rumors(n)' = Rumors(n)
      /\ flush.attempt.self => m \in selfCopied'
  BY <1>1, <1>2, HandedOverFacts DEF Core
<1> SUFFICES ASSUME NEW n \in Prebuilt \ selfCopied'
             PROVE  OwesSelf(n)'
  BY DEF SelfOwed
<1>5. n \in Msg /\ n # m
  BY <1>1, <1>4, PrebuiltAreMessages DEF SelfOwed, OwesSelf
<1>6. Rumors(n)' = Rumors(n) /\ object'[n] = object[n]
  BY <1>2, <1>4, <1>5
<1>7. \A w \in ToSet(io') : w \in ToSet(io) \/ w.op # "save" \/ w.msg # n
  <2>1. Save(m, object'[m]).msg = m /\ Delete(m).op # "save"
    BY DEF Save, Delete
  <2>2. QED
    BY <1>3, <1>5, <2>1
<1>8. flush' # NoFlush /\ Captured'[flush'.at] = n => (object[n].selfOwed => flush'.attempt.self)
  <2>1. CASE Ends(acked')
    BY <2>1 DEF Ends
  <2>2. ASSUME NEW at, MovesOn(at)
        PROVE  Captured'[flush'.at] = n => (object[n].selfOwed => flush'.attempt.self)
    <3>1. object[n].selfOwed => NewAttempt(n).self
      BY <1>5, NewAttemptFacts DEF Core
    <3>2. QED
      BY <2>2, <3>1 DEF MovesOn
  <2>3. QED
    BY <2>1, <2>2, SentOutcomes
<1>9. n \in DOMAIN retrying' => n \in DOMAIN retrying /\ retrying'[n] = retrying[n]
  BY <1>1
<1>10. QED
  BY <1>1, <1>4, <1>6, <1>7, <1>8, <1>9, OwesSelfFrame

LEMMA RefusedSelfOwed ==
  ASSUME Core, SelfOwed, NEW m, NEW outcome, Refused(m, outcome)
  PROVE  SelfOwed'
<1>1. /\ UNCHANGED <<retrying, disk, loading>> /\ outcome # "sent"
      /\ HandedOver(m, flush.attempt, outcome) /\ flush.attempt \in Attempt
  BY CapturedType DEF Refused, FlushFrame, Core
<1>2. /\ m \in Msg /\ object' \in [Msg -> Row]
      /\ \A n \in Msg : n # m => object'[n] = object[n]
      /\ object'[m].selfOwed = object[m].selfOwed
      /\ \/ io' = Append(io, Save(m, object'[m]))
         \/ \E row \in Row : /\ row.selfOwed = object[m].selfOwed
                             /\ io' = Append(Append(io, Save(m, row)), Save(m, object'[m]))
      /\ flush' = NoFlush
  BY RefusedFacts
<1>3. /\ selfCopied' = selfCopied
      /\ \A n \in Msg : Rumors(n)' = Rumors(n)
  BY <1>1, <1>2, HandedOverFacts DEF Core
<1>4. \A w \in ToSet(io') : \/ w \in ToSet(io)
                            \/ w.msg = m /\ w.row.selfOwed = object[m].selfOwed
  <2> DEFINE last == Save(m, object'[m])
             W(r) == Save(m, r)
  <2>1. io \in Seq(Write) /\ last \in Write /\ \A r \in Row : W(r) \in Write
    BY <1>2 DEF Core, TypeOK, Save, Write
  <2>2. /\ last.msg = m /\ last.row.selfOwed = object[m].selfOwed
        /\ \A r \in Row : W(r).msg = m /\ W(r).row = r
    BY <1>2 DEF Save
  <2>3. \/ io' = Append(io, last)
        \/ \E row \in Row : /\ row.selfOwed = object[m].selfOwed
                            /\ io' = Append(Append(io, W(row)), last)
    BY <1>2
  <2> HIDE DEF last, W
  <2>4. CASE io' = Append(io, last)
    <3>1. ToSet(io') = ToSet(io) \cup {last}
      BY <2>1, <2>4, AppendElements
    <3>2. QED
      BY <2>2, <3>1
  <2>5. ASSUME NEW row \in Row, row.selfOwed = object[m].selfOwed,
               io' = Append(Append(io, W(row)), last)
        PROVE  \A w \in ToSet(io') : \/ w \in ToSet(io)
                                     \/ w.msg = m /\ w.row.selfOwed = object[m].selfOwed
    <3>1. Append(io, W(row)) \in Seq(Write)
          /\ ToSet(Append(io, W(row))) = ToSet(io) \cup {W(row)}
      BY <2>1, AppendElements
    <3> DEFINE s == Append(io, W(row))
    <3>2. s \in Seq(Write) /\ ToSet(s) = ToSet(io) \cup {W(row)} /\ io' = Append(s, last)
      BY <2>5, <3>1
    <3> HIDE DEF s
    <3>3. ToSet(io') = ToSet(s) \cup {last}
      BY <2>1, <3>2, AppendElements
    <3>4. QED
      BY <2>2, <2>5, <3>2, <3>3
  <2>6. QED
    BY <2>3, <2>4, <2>5
<1> SUFFICES ASSUME NEW n \in Prebuilt \ selfCopied'
             PROVE  OwesSelf(n)'
  BY DEF SelfOwed
<1>5. n \in Msg /\ (object[n].selfOwed => object'[n].selfOwed) /\ Rumors(n)' = Rumors(n)
  BY <1>2, <1>3, PrebuiltAreMessages
<1>6. \A w \in ToSet(io') : w \in ToSet(io) \/ w.op # "save" \/ w.msg # n
                              \/ (object[n].selfOwed => w.row.selfOwed)
  BY <1>4
<1>7. n \in DOMAIN retrying' => n \in DOMAIN retrying /\ retrying'[n] = retrying[n]
  BY <1>1
<1>8. flush' = NoFlush /\ selfCopied \subseteq selfCopied'
  BY <1>2, <1>3
<1>9. QED
  BY <1>1, <1>5, <1>6, <1>7, <1>8, OwesSelfFrame

LEMMA ClearQueueSelfOwed ==
  ASSUME Core, SelfOwed, NEW p \in Peer, ClearQueue(p)
  PROVE  SelfOwed'
<1>1. UNCHANGED <<object, retrying, disk, loading, published, selfCopied>>
  BY DEF ClearQueue
<1>2. /\ ToSet(io') = ToSet(io) \cup {DeletePeer(p)}
  <2>1. io \in Seq(Write) /\ io' = Append(io, DeletePeer(p))
    BY ClearQueueFacts DEF Core, TypeOK
  <2>2. DeletePeer(p) \in Write
    BY DEF DeletePeer, Write
  <2>3. QED
    BY <2>1, <2>2, AppendElements
<1>3. flush' # NoFlush => /\ flush # NoFlush /\ Captured' = Captured /\ flush'.at = flush.at
                          /\ flush'.attempt = flush.attempt
  BY ClearQueueFacts DEF Core
<1> SUFFICES ASSUME NEW n \in Prebuilt \ selfCopied
             PROVE  OwesSelf(n)'
  BY <1>1 DEF SelfOwed
<1>4. /\ Rumors(n)' = Rumors(n) /\ object'[n] = object[n]
      /\ selfCopied \subseteq selfCopied' /\ n \in Prebuilt \ selfCopied'
  BY <1>1 DEF Rumors
<1>5. \A w \in ToSet(io') : w \in ToSet(io) \/ w.op # "save" \/ w.msg # n
  BY <1>2 DEF DeletePeer
<1>6. QED
  BY <1>1, <1>3, <1>4, <1>5, OwesSelfFrame

LEMMA WriteDoneSelfOwed ==
  ASSUME Core, SelfOwed, WriteDone
  PROVE  SelfOwed'
<1>1. UNCHANGED <<object, queue, flush, retrying, loading, published, selfCopied>>
  BY DEF WriteDone, memory, history
<1>2. /\ Head(io) \in ToSet(io) /\ ToSet(io') \subseteq ToSet(io)
      /\ \A m \in Msg : disk'[m] = IF Head(io) \in Saves(m) THEN Head(io).row
                                   ELSE IF Head(io) \in Erasers(m) THEN NoRow ELSE disk[m]
  BY WriteDoneFacts DEF Core
<1> SUFFICES ASSUME NEW n \in Prebuilt \ selfCopied
             PROVE  OwesSelf(n)'
  BY <1>1 DEF SelfOwed
<1>3. n \in Msg /\ OwesSelf(n)
  BY PrebuiltAreMessages DEF SelfOwed
<1>4. disk'[n] # NoRow => disk'[n].selfOwed
  <2>1. Head(io) \in Saves(n) => Head(io).row.selfOwed
    BY <1>2, <1>3 DEF OwesSelf, Saves
  <2>2. QED
    BY <1>2, <1>3, <2>1 DEF OwesSelf
<1>5. Captured' = Captured /\ Rumors(n)' = Rumors(n) /\ Loads(n)' = Loads(n)
  BY <1>1 DEF Captured, Rumors, Loads
<1>6. QED
  BY <1>1, <1>2, <1>3, <1>4, <1>5 DEF OwesSelf

LEMMA CrashSelfOwed ==
  ASSUME Core, SelfOwed, Crash
  PROVE  SelfOwed'
<1>1. /\ UNCHANGED <<disk, published, selfCopied>>
      /\ flush' = NoFlush /\ retrying' = <<>> /\ io' = <<>> /\ loading' = disk
      /\ object' = [m \in Msg |-> InitialRow(m)]
  BY DEF Crash, history
<1>2. ToSet(io') = {} /\ DOMAIN retrying' = {}
  BY <1>1 DEF ToSet
<1> SUFFICES ASSUME NEW n \in Prebuilt \ selfCopied
             PROVE  OwesSelf(n)'
  BY <1>1 DEF SelfOwed
<1>3. n \in Msg /\ OwesSelf(n) /\ InitialRow(n).selfOwed
  BY PrebuiltAreMessages, InitialRowFacts DEF SelfOwed
<1>4. Rumors(n)' = Rumors(n) /\ (Loads(n)' => disk[n] # NoRow)
  BY <1>1 DEF Rumors, Loads
<1>5. object'[n].selfOwed
  BY <1>1, <1>3
<1>6. QED
  BY <1>1, <1>2, <1>3, <1>4, <1>5 DEF OwesSelf

LEMMA RestoreSelfOwed ==
  ASSUME Core, SelfOwed, Restore
  PROVE  SelfOwed'
<1>1. /\ UNCHANGED <<flush, retrying, disk, io, published, selfCopied>>
      /\ loading' = NoLoad
  BY DEF Restore, history
<1>2. /\ Grows
      /\ \A m \in Msg : object'[m] = IF Loads(m) THEN loading[m] ELSE object[m]
  BY RestoreFacts DEF Core
<1> SUFFICES ASSUME NEW n \in Prebuilt \ selfCopied
             PROVE  OwesSelf(n)'
  BY <1>1 DEF SelfOwed
<1>3. n \in Msg /\ OwesSelf(n)
  BY PrebuiltAreMessages DEF SelfOwed
<1>4. Rumors(n)' = Rumors(n) /\ ~ Loads(n)'
  BY <1>1 DEF Rumors, Loads
<1>5. object'[n].selfOwed
  BY <1>2, <1>3 DEF OwesSelf
<1>6. flush' # NoFlush /\ Captured'[flush'.at] = n =>
        flush # NoFlush /\ Captured[flush.at] = n /\ flush'.attempt = flush.attempt
  BY <1>1, <1>2, GrownAttempt DEF Core
<1>7. QED
  BY <1>1, <1>3, <1>4, <1>5, <1>6 DEF OwesSelf

LEMMA InitSelfOwed == Init => SelfOwed
<1> SUFFICES ASSUME Init, NEW n \in Prebuilt
             PROVE  OwesSelf(n)
  BY DEF SelfOwed
<1>1. n \in Msg /\ InitialRow(n).selfOwed
  BY PrebuiltAreMessages, InitialRowFacts
<1>2. Rumors(n) = {} /\ object[n].selfOwed /\ disk[n] = NoRow /\ flush = NoFlush
  BY <1>1 DEF Init, Rumors
<1>3. ToSet(io) = {} /\ DOMAIN retrying = {} /\ ~ Loads(n)
  BY DEF Init, ToSet, Loads
<1>4. QED
  BY <1>2, <1>3 DEF OwesSelf

LEMMA NextSelfOwed ==
  ASSUME Core, SelfOwed, [Next]_vars
  PROVE  SelfOwed'
<1>1. (\/ \E m \in Msg : SendMessage(m) \/ QueueFails(m)
       \/ Connect \/ Disconnect \/ RelayFlaps \/ SwitchChat \/ UNCHANGED vars) => Quiet
  BY QuietActions
<1>2. QED
  BY <1>1, NextActions, QueueMessageSelfOwed, QueuePublishedSelfOwed, RetryMessageSelfOwed,
     RetryPublishedSelfOwed, ClearQueueSelfOwed, PoolStateChangeSelfOwed, SentSelfOwed,
     RefusedSelfOwed, WriteDoneSelfOwed, CrashSelfOwed, RestoreSelfOwed, QuietSelfOwed

(* A message that first went out over a direct channel reaches a relay     *)
(* only with a publish that wraps the copy for the sender's own devices:   *)
(* whoever publishes next - queue, doFlush, retryMessage, or a restart     *)
(* that reads the row back - owes it (selfCopyPending, offline-queue.ts).  *)
THEOREM SelfCopiesArePublished == Spec => []SelfCopyPublished
<1>1. Init => Core /\ SelfOwed
  BY InitCore, InitSelfOwed
<1>2. (Core /\ SelfOwed) /\ [Next]_vars => (Core /\ SelfOwed)'
  BY NextCore, NextSelfOwed
<1>3. Core /\ SelfOwed => SelfCopyPublished
  BY DEF SelfOwed, OwesSelf, SelfCopyPublished
<1>4. QED
  BY <1>1, <1>2, <1>3, PTL DEF Spec

-----------------------------------------------------------------------------
(* Without clearQueue an unpublished message stays queued.                 *)
LEMMA KeptFrame ==
  ASSUME Core, Kept, UNCHANGED <<addressee, loading>>,
         flush' # NoFlush => flush'.detached = FALSE,
         \A n \in Msg : Owed(n)' =>
           /\ Owed(n)
           /\ n \in ToSet(queue[addressee[n]]) => n \in ToSet(queue'[addressee[n]])
  PROVE  Kept'
<1>1. \A n \in Msg : Loads(n)' = Loads(n)
  BY DEF Loads
<1>2. QED
  BY <1>1 DEF Kept

LEMMA QuietKept ==
  ASSUME Core, Kept, Quiet
  PROVE  Kept'
<1>1. /\ UNCHANGED <<addressee, loading>> /\ flush' = flush /\ queue' = queue
      /\ published' = published /\ cleared' = cleared
  BY DEF Quiet, QuietFrame, memory, stored, history
<1>2. \A n \in Msg : status'[n] = "stored" => status[n] = "stored"
  BY DEF Quiet, Core, TypeOK
<1>3. \A n \in Msg : Owed(n)' => Owed(n)
  BY <1>1, <1>2 DEF Owed, Rumors
<1>4. flush' # NoFlush => flush'.detached = FALSE
  BY <1>1, CapturedType DEF Kept, Core
<1>5. QED
  BY <1>1, <1>3, <1>4, KeptFrame

(* Actions that leave the queue and the publishes alone.                   *)
LEMMA StillKept ==
  ASSUME Core, Kept, UNCHANGED <<status, addressee, loading, queue, cleared>>,
         \A n \in Msg : Rumors(n)' = {} => Rumors(n) = {},
         flush' = flush \/ (flush' # NoFlush => flush'.detached = FALSE)
  PROVE  Kept'
<1>1. flush' # NoFlush => flush'.detached = FALSE
  BY CapturedType DEF Kept, Core
<1>2. \A n \in Msg : Owed(n)' => Owed(n)
  BY DEF Owed
<1>3. UNCHANGED <<addressee, loading>> /\ queue' = queue
  OBVIOUS
<1>4. QED
  BY <1>1, <1>2, <1>3, KeptFrame

LEMMA PoolStateChangeKept ==
  ASSUME Core, Kept, PoolStateChange
  PROVE  Kept'
<1>1. /\ UNCHANGED <<status, addressee, loading, queue, cleared>> /\ published' = published
      /\ flush' = flush \/ (flush'.detached = FALSE /\ flush' # NoFlush)
  <2>1. Begins => flush'.detached = FALSE /\ flush' # NoFlush
    BY DEF Begins, FlushRun
  <2>2. QED
    BY <2>1, PoolStateChangeFacts DEF Core, stored
<1>2. \A n \in Msg : Rumors(n)' = Rumors(n)
  BY <1>1 DEF Rumors
<1>3. QED
  BY <1>1, <1>2, StillKept

LEMMA StoredKept ==
  ASSUME Core, Kept, NEW m \in Msg, NEW to \in Peer, NEW row \in Row, Stored(m, to, row),
         UNCHANGED <<flush, loading>>, addressee' \in [Msg -> Peer], addressee'[m] = to,
         \A n \in Msg : n # m => addressee'[n] = addressee[n] /\ (Owed(n)' => Owed(n))
  PROVE  Kept'
<1>1. /\ ToSet(queue'[to]) = ToSet(queue[to]) \cup {m}
      /\ \A p \in Peer : p # to => queue'[p] = queue[p]
  BY StoredFacts DEF Core
<1>2. ASSUME NEW n \in Msg, Owed(n)'
      PROVE  n \in ToSet(queue'[addressee'[n]]) \/ Loads(n)'
  <2>1. CASE n = m
    BY <1>1, <2>1
  <2>2. CASE n # m
    <3>1. Loads(n)' = Loads(n) /\ addressee'[n] = addressee[n] /\ addressee'[n] \in Peer
      BY <2>2 DEF Loads
    <3>2. n \in ToSet(queue[addressee[n]]) \/ Loads(n)
      BY <1>2, <2>2 DEF Kept
    <3>3. QED
      BY <1>1, <3>1, <3>2
  <2>3. QED
    BY <2>1, <2>2
<1>3. QED
  BY <1>2 DEF Kept

LEMMA QueueMessageKept ==
  ASSUME Core, Kept, NEW m \in Msg, NEW to \in Peer, QueueFor(m, to)
  PROVE  Kept'
<1>1. /\ status[m] = "sending" /\ UNCHANGED <<flush, loading, published, cleared>>
      /\ addressee' = [addressee EXCEPT ![m] = to]
  BY DEF QueueFor, history
<1>2. /\ addressee \in [Msg -> Peer] /\ InitialRow(m) \in Row
  BY InitialRowFacts DEF Core, TypeOK
<1>3. /\ addressee' \in [Msg -> Peer] /\ addressee'[m] = to
      /\ \A n \in Msg : n # m => addressee'[n] = addressee[n]
  BY <1>1, <1>2
<1>4. CASE ~ connected
  <2>1. Stored(m, to, InitialRow(m))
    BY <1>4 DEF QueueFor
  <2>2. \A n \in Msg : n # m => status'[n] = status[n]
    BY <1>2, <2>1, StoredFacts DEF Core
  <2>3. \A n \in Msg : n # m => (Owed(n)' => Owed(n))
    BY <1>1, <2>2 DEF Owed, Rumors
  <2>4. UNCHANGED <<flush, loading>>
    BY <1>1
  <2>5. QED
    BY <1>2, <1>3, <2>1, <2>3, <2>4, StoredKept
<1>5. CASE connected
  <2>1. status' = [status EXCEPT ![m] = "publishing"] /\ queue' = queue
    BY <1>5 DEF QueueFor
  <2>2. \A n \in Msg : Owed(n)' => Owed(n) /\ n # m
    BY <1>1, <2>1 DEF Owed, Rumors, Core, TypeOK
  <2>3. \A n \in Msg : Loads(n)' = Loads(n)
    BY <1>1 DEF Loads
  <2>4. QED
    BY <1>1, <1>3, <2>1, <2>2, <2>3 DEF Kept
<1>6. QED
  BY <1>4, <1>5

LEMMA QueuePublishedKept ==
  ASSUME Core, Kept, NEW m \in Msg, QueuePublished(m)
  PROVE  Kept'
<1>1. UNCHANGED <<flush, loading>> /\ addressee' = addressee /\ cleared' = cleared
  BY DEF QueuePublished
<1>2. PICK outcome \in Outcome, row \in Row :
        HandedOver(m, NewAttempt(m), outcome) /\ Stored(m, addressee[m], row)
  BY QueuePublishedFacts DEF Core
<1>3. NewAttempt(m) \in Attempt /\ addressee \in [Msg -> Peer]
  BY NewAttemptFacts DEF Core, TypeOK
<1>4. \A n \in Msg : n # m => Rumors(n)' = Rumors(n)
  BY <1>2, <1>3, HandedOverFacts DEF Core
<1>5. \A n \in Msg : n # m => status'[n] = status[n]
  BY <1>2, <1>3, StoredFacts DEF Core
<1>6. \A n \in Msg : n # m => addressee'[n] = addressee[n] /\ (Owed(n)' => Owed(n))
  BY <1>1, <1>4, <1>5 DEF Owed
<1>7. QED
  BY <1>1, <1>2, <1>3, <1>6, StoredKept

LEMMA RetryMessageKept ==
  ASSUME Core, Kept, NEW m \in Msg, RetryMessage(m)
  PROVE  Kept'
<1>1. /\ UNCHANGED <<status, addressee, loading, queue, cleared>>
      /\ published' = published /\ flush' = flush
  BY DEF RetryMessage
<1>2. \A n \in Msg : Rumors(n)' = Rumors(n)
  BY <1>1 DEF Rumors
<1>3. QED
  BY <1>1, <1>2, StillKept

LEMMA RetryPublishedKept ==
  ASSUME Core, Kept, NEW m \in Msg, RetryPublished(m)
  PROVE  Kept'
<1>1. UNCHANGED <<status, addressee, loading, queue, cleared>> /\ flush' = flush
  BY DEF RetryPublished
<1>2. PICK outcome : HandedOver(m, retrying[m], outcome) /\ retrying[m] \in Attempt
  BY RetryPublishedFacts DEF Core
<1>3. \A n \in Msg : Rumors(n)' = {} => Rumors(n) = {}
  BY <1>2, HandedOverFacts DEF Core
<1>4. QED
  BY <1>1, <1>3, StillKept

(* The end of a flush drops only what was published.                       *)
LEMMA FlushEndKept ==
  ASSUME Core, Kept, Places', flush # NoFlush, flush' = NoFlush,
         UNCHANGED <<addressee, loading>>,
         queue' = [queue EXCEPT ![flush.peer] = Remaining(Captured, acked')],
         \A n \in Msg : Owed(n)' => Owed(n)
  PROVE  Kept'
<1>1. /\ \A p \in Peer : p # flush.peer => queue'[p] = queue[p]
      /\ ToSet(queue'[flush.peer]) = ToSet(queue[flush.peer]) \ acked'
  BY FlushEndQueue DEF Core, Kept, Captured
<1>2. ASSUME NEW n \in Msg, Owed(n)', n \in ToSet(queue[addressee[n]])
      PROVE  n \in ToSet(queue'[addressee[n]])
  <2>1. n \notin acked' /\ addressee[n] \in Peer
    BY <1>2 DEF Places, Located, Owed, Core, TypeOK
  <2>2. QED
    BY <1>1, <1>2, <2>1
<1>3. UNCHANGED <<addressee, loading>>
  OBVIOUS
<1>4. QED
  BY <1>2, <1>3, KeptFrame

LEMMA SentKept ==
  ASSUME Core, Kept, NEW m, Sent(m)
  PROVE  Kept'
<1>1. /\ UNCHANGED <<status, addressee, loading, cleared>> /\ flush # NoFlush
      /\ HandedOver(m, flush.attempt, "sent") /\ flush.attempt \in Attempt /\ m \in Msg
  BY CapturedType, SentFacts DEF Sent, FlushFrame, Core
<1>2. \A n \in Msg : Rumors(n)' = {} => Rumors(n) = {}
  BY <1>1, HandedOverFacts DEF Core
<1>3. CASE Ends(acked')
  <2>1. (\A n \in Msg : Owed(n)' => Owed(n)) /\ UNCHANGED <<addressee, loading>>
    BY <1>1, <1>2 DEF Owed
  <2>2. QED
    BY <1>1, <1>3, <2>1, SentPlaces, FlushEndKept DEF Ends
<1>4. ASSUME NEW at, MovesOn(at) PROVE Kept'
  <2>1. UNCHANGED <<status, addressee, loading, queue, cleared>> /\ flush'.detached = FALSE
    BY <1>1, <1>4 DEF MovesOn, Kept, FlushRun
  <2>2. QED
    BY <1>2, <2>1, StillKept
<1>5. QED
  BY <1>3, <1>4, SentOutcomes

LEMMA RefusedKept ==
  ASSUME Core, Kept, NEW m, NEW outcome, Refused(m, outcome)
  PROVE  Kept'
<1>1. /\ UNCHANGED <<status, addressee, loading, cleared>> /\ flush # NoFlush
      /\ HandedOver(m, flush.attempt, outcome) /\ flush.attempt \in Attempt /\ m \in Msg
  BY CapturedType, RefusedFacts DEF Refused, FlushFrame, Core
<1>2. \A n \in Msg : Rumors(n)' = {} => Rumors(n) = {}
  BY <1>1, HandedOverFacts DEF Core
<1>3. /\ flush' = NoFlush /\ acked' = acked
      /\ queue' = IF flush.flushed
                  THEN [queue EXCEPT ![flush.peer] = Remaining(Captured, acked)] ELSE queue
  BY RefusedFacts
<1>4. CASE flush.flushed
  <2>1. (\A n \in Msg : Owed(n)' => Owed(n)) /\ UNCHANGED <<addressee, loading>>
    BY <1>1, <1>2 DEF Owed
  <2>2. queue' = [queue EXCEPT ![flush.peer] = Remaining(Captured, acked')]
    BY <1>3, <1>4
  <2>3. QED
    BY <1>1, <1>3, <2>1, <2>2, RefusedPlaces, FlushEndKept
<1>5. CASE ~ flush.flushed
  <2>1. UNCHANGED <<status, addressee, loading, queue, cleared>>
    BY <1>1, <1>3, <1>5
  <2>2. QED
    BY <1>2, <1>3, <2>1, StillKept
<1>6. QED
  BY <1>4, <1>5

LEMMA WriteDoneKept ==
  ASSUME Core, Kept, WriteDone
  PROVE  Kept'
<1>1. /\ UNCHANGED <<status, addressee, loading, queue, cleared>>
      /\ published' = published /\ flush' = flush
  BY DEF WriteDone, memory, history
<1>2. \A n \in Msg : Rumors(n)' = Rumors(n)
  BY <1>1 DEF Rumors
<1>3. QED
  BY <1>1, <1>2, StillKept

(* What has a row is restored, what has none is lost.                      *)
LEMMA CrashKept ==
  ASSUME Core, Crash
  PROVE  Kept'
<1>1. /\ flush' = NoFlush /\ loading' = disk /\ disk \in Rows
      /\ status' = [m \in Msg |->
           IF status[m] \in {"sending", "publishing"} \/ (status[m] = "stored" /\ disk[m] = NoRow)
           THEN "lost" ELSE status[m]]
  BY DEF Crash, Core, TypeOK
<1>2. \A n \in Msg : Owed(n)' => Loads(n)'
  BY <1>1, SentinelAssumption DEF Owed, Loads
<1>3. QED
  BY <1>1, <1>2 DEF Kept

LEMMA RestoreKept ==
  ASSUME Core, Kept, Restore
  PROVE  Kept'
<1>1. /\ UNCHANGED <<status, addressee, flush, published, cleared>>
  BY DEF Restore, history
<1>2. \A p \in Peer : ToSet(queue'[p]) =
        ToSet(queue[p]) \cup {m \in Msg : Loads(m) /\ addressee[m] = p}
  BY RestoreFacts DEF Core
<1>3. \A n \in Msg : Owed(n)' => Owed(n) /\ addressee[n] \in Peer
  BY <1>1 DEF Owed, Rumors, Core, TypeOK
<1>4. QED
  BY <1>1, <1>2, <1>3 DEF Kept

LEMMA NextKept ==
  ASSUME "clear" \notin Operator, Core, Kept, [Next]_vars
  PROVE  Kept'
<1>1. (\/ \E m \in Msg : SendMessage(m) \/ QueueFails(m)
       \/ Connect \/ Disconnect \/ RelayFlaps \/ SwitchChat \/ UNCHANGED vars) => Quiet
  BY QuietActions
<1>2. \A p \in Peer : ~ ClearQueue(p)
  BY DEF ClearQueue, Manual
<1>3. QED
  BY <1>1, <1>2, NextActions, QueueMessageKept, QueuePublishedKept, RetryMessageKept,
     RetryPublishedKept, PoolStateChangeKept, SentKept, RefusedKept, WriteDoneKept, CrashKept,
     RestoreKept, QuietKept

(* A message the queue took stays in _queue, or among the rows the         *)
(* constructor is restoring, until a relay took it: the filter that ends a *)
(* flush drops only acknowledged messages.  clearQueue, which no code of   *)
(* the repository calls, is left out: a flush of a cleared array puts it   *)
(* back over what was queued since (doFlush, offline-queue.ts).            *)
THEOREM MessagesAreKept ==
  ASSUME "clear" \notin Operator
  PROVE  Spec => []KeptUntilPublished
<1>1. Init => Core /\ Kept
  BY InitCore DEF Init, Kept, Owed
<1>2. (Core /\ Kept) /\ [Next]_vars => (Core /\ Kept)'
  BY NextCore, NextKept
<1>3. Core /\ Kept => KeptUntilPublished
  <2> SUFFICES ASSUME Core, Kept, NEW m \in Msg, Owed(m), ~ Loads(m)
               PROVE  Contains(queue[addressee[m]], m)
    BY DEF KeptUntilPublished, Loads
  <2>1. m \in ToSet(queue[addressee[m]]) /\ queue[addressee[m]] \in Seq(Msg)
    BY DEF Kept, Core, TypeOK
  <2>2. QED
    BY <2>1 DEF Contains, ToSet
<1>4. QED
  BY <1>1, <1>2, <1>3, PTL DEF Spec

-----------------------------------------------------------------------------
(* Without retryMessage a flush never meets an acknowledged message.       *)
LEMMA UnackedFrame ==
  ASSUME Unacked, UNCHANGED <<queue, acked, flush, retrying>>
  PROVE  Unacked'
BY DEF Unacked, Captured

LEMMA PoolStateChangeUnacked ==
  ASSUME Core, Unacked, PoolStateChange
  PROVE  Unacked'
<1>1. UNCHANGED <<queue, acked, retrying>> /\ (flush' = flush \/ Begins)
  BY PoolStateChangeFacts DEF Core
<1>2. CASE flush' = flush
  BY <1>1, <1>2, UnackedFrame
<1>3. CASE Begins
  <2>1. \A p \in Peer : ToSet(queue[p]) \cap acked = {}
    BY <1>3 DEF Unacked, Begins
  <2>2. /\ activePeer \in Peer /\ Captured' = queue[activePeer] /\ queue[activePeer] \in Seq(Msg)
        /\ flush'.at \in 1..Len(queue[activePeer])
    BY <1>3 DEF Begins, Core, TypeOK
  <2>3. \A i \in flush'.at..Len(Captured') : Captured'[i] \in ToSet(Captured')
    BY <2>2 DEF ToSet
  <2>4. QED
    BY <1>1, <2>1, <2>2, <2>3 DEF Unacked
<1>4. QED
  BY <1>1, <1>2, <1>3

(* Nothing acknowledged is put behind the messages queued.                 *)
LEMMA UnackedGrows ==
  ASSUME Core, Unacked, Grows, UNCHANGED <<acked, flush, retrying>>,
         \A p \in Peer : ToSet(queue'[p]) \cap acked \subseteq ToSet(queue[p]),
         \A p \in Peer : \A i \in 1..Len(queue'[p]) :
           i > Len(queue[p]) => queue'[p][i] \notin acked
  PROVE  Unacked'
<1>1. \A p \in Peer : ToSet(queue[p]) \cap acked = {} => ToSet(queue'[p]) \cap acked = {}
  OBVIOUS
<1>2. ASSUME flush # NoFlush
      PROVE  /\ \A i \in flush.at..Len(Captured') : Captured'[i] \notin acked
             /\ ~ flush.flushed => ToSet(Captured') \cap acked = {}
  <2>1. CASE flush.detached
    <3>1. Captured' = Captured
      BY <2>1 DEF Captured
    <3>2. QED
      BY <1>2, <3>1 DEF Unacked
  <2>2. CASE ~ flush.detached
    <3> DEFINE p == flush.peer
    <3>1. /\ Captured = queue[p] /\ Captured' = queue'[p] /\ p \in Peer
          /\ queue[p] \in Seq(Msg) /\ queue'[p] \in Seq(Msg) /\ flush.at \in Nat \ {0}
      BY <1>2, <2>2, CapturedType DEF Captured, Grows, Core, TypeOK
    <3>2. \A i \in 1..Len(queue[p]) : queue'[p][i] = queue[p][i]
      BY <3>1 DEF Grows
    <3>3. \A i \in flush.at..Len(queue[p]) : queue[p][i] \notin acked
      BY <1>2, <3>1 DEF Unacked
    <3>4. \A i \in 1..Len(queue'[p]) : i > Len(queue[p]) => queue'[p][i] \notin acked
      BY <3>1
    <3>5. ~ flush.flushed => ToSet(queue[p]) \cap acked = {}
      BY <1>2, <3>1 DEF Unacked
    <3>6. ToSet(queue[p]) \cap acked = {} => ToSet(queue'[p]) \cap acked = {}
      BY <1>1, <3>1
    <3> HIDE DEF p
    <3>7. ASSUME NEW i \in flush.at..Len(queue'[p]) PROVE queue'[p][i] \notin acked
      <4>1. i \in Nat /\ i \in 1..Len(queue'[p]) /\ i >= flush.at /\ Len(queue[p]) \in Nat
        BY <3>1
      <4>2. CASE i <= Len(queue[p])
        BY <3>1, <3>2, <3>3, <4>1, <4>2
      <4>3. CASE i > Len(queue[p])
        BY <3>4, <4>1, <4>3
      <4>4. QED
        BY <4>1, <4>2, <4>3
    <3>8. QED
      BY <3>1, <3>5, <3>6, <3>7
  <2>3. QED
    BY <2>1, <2>2
<1>3. QED
  BY <1>1, <1>2 DEF Unacked

LEMMA StoredUnacked ==
  ASSUME Core, Unacked, NEW m \in Msg, NEW to \in Peer, NEW row \in Row, Stored(m, to, row),
         UNCHANGED <<acked, flush, retrying>>, status[m] # "stored"
  PROVE  Unacked'
<1>1. /\ Grows
      /\ \A p \in Peer : queue'[p] = IF p = to THEN Append(queue[p], m) ELSE queue[p]
      /\ ToSet(queue'[to]) = ToSet(queue[to]) \cup {m}
  BY StoredFacts DEF Core
<1>2. m \notin acked
  BY DEF Core, Places, Located
<1>3. \A p \in Peer : ToSet(queue'[p]) \cap acked \subseteq ToSet(queue[p])
  BY <1>1, <1>2
<1>4. ASSUME NEW p \in Peer, NEW i \in 1..Len(queue'[p]), i > Len(queue[p])
      PROVE  queue'[p][i] \notin acked
  <2>1. queue[p] \in Seq(Msg)
    BY DEF Core, TypeOK
  <2>a. p # to => queue'[p] = queue[p]
    BY <1>1
  <2>b. p = to
    BY <1>4, <2>1, <2>a
  <2>2. queue'[p] = Append(queue[p], m)
    BY <1>1, <2>b
  <2>3. i = Len(queue[p]) + 1
    BY <1>4, <2>1, <2>2
  <2>4. queue'[p][i] = m
    BY <2>1, <2>2, <2>3
  <2>5. QED
    BY <1>2, <2>4
<1>5. QED
  BY <1>1, <1>3, <1>4, UnackedGrows

LEMMA QueueMessageUnacked ==
  ASSUME Core, Unacked, NEW m \in Msg, NEW to \in Peer, QueueFor(m, to)
  PROVE  Unacked'
<1>1. /\ status[m] = "sending" /\ UNCHANGED <<acked, flush, retrying>>
      /\ InitialRow(m) \in Row
  BY InitialRowFacts DEF QueueFor, Core, TypeOK
<1>2. CASE connected
  <2>1. queue' = queue
    BY <1>2 DEF QueueFor
  <2>2. QED
    BY <1>1, <2>1, UnackedFrame
<1>3. CASE ~ connected
  <2>1. Stored(m, to, InitialRow(m))
    BY <1>3 DEF QueueFor
  <2>2. QED
    BY <1>1, <2>1, StoredUnacked
<1>4. QED
  BY <1>2, <1>3

LEMMA QueuePublishedUnacked ==
  ASSUME Core, Unacked, NEW m \in Msg, QueuePublished(m)
  PROVE  Unacked'
<1>1. /\ status[m] = "publishing" /\ UNCHANGED <<acked, flush, retrying>>
      /\ addressee[m] \in Peer
  BY DEF QueuePublished, Core, TypeOK
<1>2. \E row \in Row : Stored(m, addressee[m], row)
  BY QueuePublishedFacts DEF Core
<1>3. QED
  BY <1>1, <1>2, StoredUnacked

(* What the arrays no flush iterates hold is not what it acknowledges.     *)
LEMMA ElsewhereUnacked ==
  ASSUME Core, Unacked, NEW m, Sent(m), NEW p \in Peer, flush.peer # p \/ flush.detached
  PROVE  ToSet(queue[p]) \cap acked' = {}
<1>1. /\ flush # NoFlush /\ m \in ToSet(Captured) /\ addressee[m] = flush.peer
      /\ acked' = acked \cup {m}
  BY SentFacts DEF Sent
<1>2. ToSet(queue[p]) \cap acked = {}
  BY DEF Unacked
<1>3. m \notin ToSet(queue[p])
  <2>1. CASE flush.peer # p
    BY <1>1, <2>1 DEF Core, Places, Arrays
  <2>2. CASE flush.peer = p
    BY <1>1, <2>2 DEF Core, Places, Detached, Captured
  <2>3. QED
    BY <2>1, <2>2
<1>4. QED
  BY <1>1, <1>2, <1>3

LEMMA SentUnacked ==
  ASSUME Core, Unacked, NEW m, Sent(m)
  PROVE  Unacked'
<1>1. /\ retrying' = retrying /\ flush # NoFlush /\ m = Captured[flush.at]
      /\ acked' = acked \cup {m}
      /\ Captured \in Seq(Msg) /\ flush.at \in 1..Len(Captured) /\ flush.peer \in Peer
      /\ IsInjective(Captured)
  BY SentFacts, CapturedType, CapturedPlaces DEF Sent, FlushFrame, Core
<1>2. ASSUME NEW at, MovesOn(at) PROVE Unacked'
  <2>1. /\ Captured' = Captured /\ queue' = queue /\ flush'.peer = flush.peer
        /\ flush'.detached = flush.detached /\ flush'.at = at /\ flush'.flushed
        /\ flush' # NoFlush /\ at \in flush.at + 1..Len(Captured)
    BY <1>2 DEF MovesOn
  <2>2. ASSUME NEW i \in at..Len(Captured) PROVE Captured[i] \notin acked'
    <3>1. i \in flush.at..Len(Captured) /\ i # flush.at /\ i \in DOMAIN Captured
          /\ flush.at \in DOMAIN Captured
      BY <1>1, <2>1
    <3>2. Captured[i] # m
      BY <1>1, <3>1 DEF IsInjective
    <3>3. Captured[i] \notin acked
      BY <1>1, <3>1 DEF Unacked
    <3>4. QED
      BY <1>1, <3>2, <3>3
  <2>3. \A p \in Peer : flush'.peer # p \/ flush'.detached => ToSet(queue'[p]) \cap acked' = {}
    BY <2>1, ElsewhereUnacked
  <2>4. QED
    BY <1>1, <2>1, <2>2, <2>3 DEF Unacked
<1>3. CASE Ends(acked')
  <2>1. /\ flush' = NoFlush /\ \A p \in Peer : p # flush.peer => queue'[p] = queue[p]
        /\ ToSet(queue'[flush.peer]) = ToSet(Captured) \ acked'
    BY <1>1, <1>3, FlushEndQueue DEF Ends
  <2>2. ASSUME NEW p \in Peer PROVE ToSet(queue'[p]) \cap acked' = {}
    BY <2>1, ElsewhereUnacked
  <2>3. QED
    BY <1>1, <2>1, <2>2 DEF Unacked
<1>4. QED
  BY <1>2, <1>3, SentOutcomes

LEMMA RefusedUnacked ==
  ASSUME Core, Unacked, NEW m, NEW outcome, Refused(m, outcome)
  PROVE  Unacked'
<1>1. /\ retrying' = retrying /\ flush # NoFlush /\ flush' = NoFlush /\ acked' = acked
      /\ queue' = IF flush.flushed
                  THEN [queue EXCEPT ![flush.peer] = Remaining(Captured, acked)] ELSE queue
  BY RefusedFacts DEF Refused, FlushFrame
<1>2. ASSUME NEW p \in Peer PROVE ToSet(queue'[p]) \cap acked = {}
  <2>1. CASE flush.flushed
    <3>1. queue' = [queue EXCEPT ![flush.peer] = Remaining(Captured, acked)]
      BY <1>1, <2>1
    <3>2. /\ p # flush.peer => queue'[p] = queue[p]
          /\ ToSet(queue'[flush.peer]) = ToSet(Captured) \ acked
      BY <1>1, <3>1, FlushEndQueue
    <3>3. QED
      BY <1>1, <3>2 DEF Unacked
  <2>2. CASE ~ flush.flushed
    BY <1>1, <2>2 DEF Unacked, Captured
  <2>3. QED
    BY <2>1, <2>2
<1>3. QED
  BY <1>1, <1>2 DEF Unacked

LEMMA ClearQueueUnacked ==
  ASSUME Core, Unacked, NEW p \in Peer, ClearQueue(p)
  PROVE  Unacked'
<1>1. UNCHANGED <<acked, retrying>>
  BY DEF ClearQueue
<1>2. /\ queue'[p] = <<>> /\ \A q \in Peer : q # p => queue'[q] = queue[q]
      /\ flush = NoFlush => flush' = NoFlush
      /\ flush # NoFlush =>
           /\ flush' # NoFlush
           /\ Captured' = Captured /\ flush'.peer = flush.peer /\ flush'.at = flush.at
           /\ flush'.flushed = flush.flushed
           /\ flush'.detached = flush.detached \/ flush.peer = p
  BY ClearQueueFacts DEF Core
<1>3. ASSUME NEW q \in Peer, flush' = NoFlush \/ flush'.peer # q \/ flush'.detached
      PROVE  ToSet(queue'[q]) \cap acked = {}
  <2>1. CASE q = p
    BY <1>2, <2>1 DEF ToSet
  <2>2. CASE q # p
    BY <1>2, <1>3, <2>2 DEF Unacked
  <2>3. QED
    BY <2>1, <2>2
<1>4. QED
  BY <1>1, <1>2, <1>3 DEF Unacked

LEMMA CrashUnacked ==
  ASSUME Crash
  PROVE  Unacked'
<1>1. acked' = {} /\ flush' = NoFlush /\ retrying' = <<>>
  BY DEF Crash
<1>2. QED
  BY <1>1 DEF Unacked

LEMMA RestoreUnacked ==
  ASSUME Core, Unacked, Restore
  PROVE  Unacked'
<1>1. UNCHANGED <<acked, flush, retrying>>
  BY DEF Restore
<1>2. /\ Grows
      /\ \A p \in Peer :
           /\ ToSet(queue'[p]) = ToSet(queue[p]) \cup {m \in Msg : Loads(m) /\ addressee[m] = p}
           /\ \A i \in 1..Len(queue'[p]) : i > Len(queue[p]) =>
                \E m \in Msg : m = queue'[p][i] /\ Loads(m) /\ addressee[m] = p
  BY RestoreFacts DEF Core
<1>3. \A m \in Msg : Loads(m) => m \notin acked
  BY DEF Core, Places, Located
<1>4. \A p \in Peer : ToSet(queue'[p]) \cap acked \subseteq ToSet(queue[p])
  BY <1>2, <1>3
<1>5. \A p \in Peer : \A i \in 1..Len(queue'[p]) :
        i > Len(queue[p]) => queue'[p][i] \notin acked
  BY <1>2, <1>3
<1>6. QED
  BY <1>1, <1>2, <1>4, <1>5, UnackedGrows

LEMMA NextUnacked ==
  ASSUME "retry" \notin Operator, Core, Unacked, [Next]_vars
  PROVE  Unacked'
<1>1. (\/ \E m \in Msg : SendMessage(m) \/ QueueFails(m)
       \/ Connect \/ Disconnect \/ RelayFlaps \/ SwitchChat \/ UNCHANGED vars)
         => UNCHANGED <<queue, acked, flush, retrying>>
  BY QuietActions DEF Quiet, QuietFrame, memory
<1>2. WriteDone => UNCHANGED <<queue, acked, flush, retrying>>
  BY DEF WriteDone, memory
<1>3. \A m \in Msg : ~ RetryMessage(m) /\ ~ RetryPublished(m)
  BY DEF RetryMessage, Manual, RetryPublished, Unacked
<1>4. QED
  BY <1>1, <1>2, <1>3, NextActions, QueueMessageUnacked, QueuePublishedUnacked,
     ClearQueueUnacked, PoolStateChangeUnacked, SentUnacked, RefusedUnacked, CrashUnacked,
     RestoreUnacked, UnackedFrame

-----------------------------------------------------------------------------
(* Without retryMessage nothing saves an acknowledged message again.       *)
LEMMA LeavesDiskFrame ==
  ASSUME Core, LeavesDisk, disk' = disk, acked' \subseteq acked,
         \A n \in acked' : Outlasts(io, disk[n] = NoRow, {Delete(n)}, Saves(n))
                             => Outlasts(io', disk[n] = NoRow, {Delete(n)}, Saves(n))
  PROVE  LeavesDisk'
<1>1. \A n \in Msg : Saves(n)' = Saves(n) /\ Delete(n)' = Delete(n)
  BY DEF Saves, Delete
<1>2. acked \subseteq Msg
  BY DEF Core, TypeOK
<1>3. QED
  BY <1>1, <1>2 DEF LeavesDisk, Vanishes

LEMMA StoredLeavesDisk ==
  ASSUME Core, LeavesDisk, NEW m \in Msg, NEW to \in Peer, NEW row \in Row,
         Stored(m, to, row), disk' = disk, acked' = acked, status[m] # "stored"
  PROVE  LeavesDisk'
<1>1. io' = Append(io, Save(m, row)) /\ io \in Seq(Write) /\ Save(m, row) \in Write
  BY StoredFacts DEF Core, TypeOK, Save, Write
<1>2. m \notin acked /\ acked \subseteq Msg
  BY DEF Core, TypeOK, Places, Located
<1>3. ASSUME NEW n \in acked, Outlasts(io, disk[n] = NoRow, {Delete(n)}, Saves(n))
      PROVE  Outlasts(io', disk[n] = NoRow, {Delete(n)}, Saves(n))
  <2>1. Save(m, row) \notin Saves(n)
    BY <1>2 DEF Save, Saves
  <2>2. QED
    BY <1>1, <1>3, <2>1, OutlastsAppend
<1>4. QED
  BY <1>3, LeavesDiskFrame

LEMMA QueueMessageLeavesDisk ==
  ASSUME Core, LeavesDisk, NEW m \in Msg, NEW to \in Peer, QueueFor(m, to)
  PROVE  LeavesDisk'
<1>1. /\ status[m] = "sending" /\ disk' = disk /\ acked' = acked
      /\ InitialRow(m) \in Row
  BY InitialRowFacts DEF QueueFor, Core, TypeOK
<1>2. CASE connected
  <2>1. io' = io
    BY <1>2 DEF QueueFor
  <2>2. QED
    BY <1>1, <2>1, LeavesDiskFrame
<1>3. CASE ~ connected
  <2>1. Stored(m, to, InitialRow(m))
    BY <1>3 DEF QueueFor
  <2>2. QED
    BY <1>1, <2>1, StoredLeavesDisk
<1>4. QED
  BY <1>2, <1>3

LEMMA QueuePublishedLeavesDisk ==
  ASSUME Core, LeavesDisk, NEW m \in Msg, QueuePublished(m)
  PROVE  LeavesDisk'
<1>1. /\ status[m] = "publishing" /\ disk' = disk /\ acked' = acked /\ addressee[m] \in Peer
  BY DEF QueuePublished, Core, TypeOK
<1>2. \E row \in Row : Stored(m, addressee[m], row)
  BY QueuePublishedFacts DEF Core
<1>3. QED
  BY <1>1, <1>2, StoredLeavesDisk

(* The delete is issued behind the save of the same acknowledgement.       *)
LEMMA SentLeavesDisk ==
  ASSUME Core, LeavesDisk, NEW m, Sent(m)
  PROVE  LeavesDisk'
<1>1. disk' = disk /\ acked' = acked \cup {m} /\ m \in Msg /\ object'[m] \in Row
  BY SentFacts DEF Sent, FlushFrame
<1> DEFINE t == IF flush.attempt.fresh THEN Append(io, Save(m, object'[m])) ELSE io
<1>2. io' = Append(t, Delete(m)) /\ (t = io \/ t = Append(io, Save(m, object'[m])))
  BY SentFacts
<1> HIDE DEF t
<1>3. io \in Seq(Write) /\ acked \subseteq Msg
  BY DEF Core, TypeOK
<1> SUFFICES ASSUME NEW n \in acked \cup {m}
             PROVE  Outlasts(io', disk[n] = NoRow, {Delete(n)}, Saves(n))
  <2>1. \A n \in acked \cup {m} : Saves(n)' = Saves(n) /\ Delete(n)' = Delete(n)
    BY DEF Saves, Delete
  <2>2. QED
    BY <1>1, <2>1 DEF LeavesDisk, Vanishes
<1> DEFINE now == disk[n] = NoRow
           A == {Delete(n)}
           B == Saves(n)
<1>4. now \in BOOLEAN
  OBVIOUS
<1>5. CASE n = m
  <2>1. Delete(m) \in A
    BY <1>5
  <2> HIDE DEF now, A, B
  <2>2. Outlasts(io', now, A, B)
    BY <1>1, <1>2, <1>3, <1>4, <2>1, OutlastsAcknowledge
  <2>3. QED
    BY <2>2 DEF now, A, B
<1>6. CASE n # m
  <2>1. Save(m, object'[m]) \notin B /\ Delete(m) \notin B
    BY <1>6 DEF Save, Delete, Saves
  <2>2. Outlasts(io, now, A, B)
    BY <1>6 DEF LeavesDisk, Vanishes
  <2> HIDE DEF now, A, B
  <2>3. Outlasts(io', now, A, B)
    BY <1>1, <1>2, <1>3, <1>4, <2>1, <2>2, OutlastsAcknowledge
  <2>4. QED
    BY <2>3 DEF now, A, B
<1>7. QED
  BY <1>5, <1>6

LEMMA RefusedLeavesDisk ==
  ASSUME Core, Unacked, LeavesDisk, NEW m, NEW outcome, Refused(m, outcome)
  PROVE  LeavesDisk'
<1>1. /\ disk' = disk /\ acked' = acked /\ m \in Msg /\ object'[m] \in Row
      /\ io \in Seq(Write) /\ acked \subseteq Msg
  BY RefusedFacts DEF Refused, FlushFrame, Core, TypeOK
<1>2. m \notin acked
  <2>1. flush # NoFlush /\ m = Captured[flush.at] /\ flush.at \in 1..Len(Captured)
    BY CapturedType DEF Refused, Core
  <2>2. Captured \in Seq(Msg) /\ flush.at \in flush.at..Len(Captured)
    BY <2>1, CapturedType DEF Core
  <2>3. QED
    BY <2>1, <2>2 DEF Unacked
<1>3. PICK t : /\ t = io \/ \E first \in Row : t = Append(io, Save(m, first))
               /\ io' = Append(t, Save(m, object'[m]))
  BY RefusedIo
<1>4. ASSUME NEW n \in acked, Outlasts(io, disk[n] = NoRow, {Delete(n)}, Saves(n))
      PROVE  Outlasts(io', disk[n] = NoRow, {Delete(n)}, Saves(n))
  <2> DEFINE now == disk[n] = NoRow
             A == {Delete(n)}
             B == Saves(n)
  <2>1. (\A r \in Row : Save(m, r) \notin B) /\ now \in BOOLEAN
    BY <1>2 DEF Save, Saves
  <2>2. Outlasts(io, now, A, B)
    BY <1>4
  <2> HIDE DEF now, A, B
  <2>3. Outlasts(Append(t, Save(m, object'[m])), now, A, B)
    BY <1>1, <1>3, <2>1, <2>2, OutlastsSaves
  <2>4. Outlasts(io', now, A, B)
    BY <1>3, <2>3
  <2>5. QED
    BY <2>4 DEF now, A, B
<1>5. QED
  BY <1>1, <1>4, LeavesDiskFrame

LEMMA ClearQueueLeavesDisk ==
  ASSUME Core, LeavesDisk, NEW p \in Peer, ClearQueue(p)
  PROVE  LeavesDisk'
<1>1. /\ disk' = disk /\ acked' = acked
      /\ io' = Append(io, DeletePeer(p)) /\ io \in Seq(Write) /\ DeletePeer(p) \in Write
  BY DEF ClearQueue, Core, TypeOK, DeletePeer, Write
<1>2. ASSUME NEW n \in acked, Outlasts(io, disk[n] = NoRow, {Delete(n)}, Saves(n))
      PROVE  Outlasts(io', disk[n] = NoRow, {Delete(n)}, Saves(n))
  <2>1. DeletePeer(p) \notin Saves(n)
    BY DEF DeletePeer, Saves
  <2>2. QED
    BY <1>1, <1>2, <2>1, OutlastsAppend
<1>3. QED
  BY <1>1, <1>2, LeavesDiskFrame

LEMMA WriteDoneLeavesDisk ==
  ASSUME Core, LeavesDisk, WriteDone
  PROVE  LeavesDisk'
<1>1. /\ acked' = acked /\ acked \subseteq Msg /\ io' = Tail(io) /\ io # <<>>
      /\ io \in Seq(Write)
  BY DEF WriteDone, memory, Core, TypeOK
<1>2. \A n \in Msg : disk'[n] = IF Head(io) \in Saves(n) THEN Head(io).row
                                ELSE IF Head(io) \in Erasers(n) THEN NoRow ELSE disk[n]
  BY WriteDoneFacts DEF Core
<1> SUFFICES ASSUME NEW n \in acked
             PROVE  Vanishes(n)'
  BY <1>1 DEF LeavesDisk
<1>3. n \in Msg /\ Saves(n)' = Saves(n) /\ Delete(n)' = Delete(n)
  BY <1>1 DEF Saves, Delete
<1>4. Delete(n) \in Erasers(n) /\ Delete(n) \notin Saves(n)
  BY <1>3 DEF Delete, Erasers, Saves, Write
<1>5. /\ Head(io) \in {Delete(n)} => disk'[n] = NoRow
      /\ disk[n] = NoRow /\ Head(io) \notin Saves(n) => disk'[n] = NoRow
  BY <1>2, <1>3, <1>4
<1>6. Outlasts(io, disk[n] = NoRow, {Delete(n)}, Saves(n))
  BY DEF LeavesDisk, Vanishes
<1>7. Outlasts(Tail(io), disk'[n] = NoRow, {Delete(n)}, Saves(n))
  BY <1>1, <1>5, <1>6, OutlastsTail
<1>8. QED
  BY <1>1, <1>3, <1>7 DEF Vanishes

LEMMA NextLeavesDisk ==
  ASSUME "retry" \notin Operator, Core, Unacked, LeavesDisk, [Next]_vars
  PROVE  LeavesDisk'
<1>1. (\/ \E m \in Msg : SendMessage(m) \/ QueueFails(m)
       \/ Connect \/ Disconnect \/ RelayFlaps \/ SwitchChat \/ UNCHANGED vars)
         => UNCHANGED <<io, disk, acked>>
  BY QuietActions DEF Quiet, QuietFrame, memory, stored
<1>2. PoolStateChange \/ Restore => UNCHANGED <<io, disk, acked>>
  BY DEF PoolStateChange, Restore, stored
<1>3. UNCHANGED <<io, disk, acked>> => LeavesDisk'
  BY LeavesDiskFrame
<1>4. Crash => LeavesDisk'
  BY DEF Crash, LeavesDisk
<1>5. \A m \in Msg : ~ RetryMessage(m) /\ ~ RetryPublished(m)
  BY DEF RetryMessage, Manual, RetryPublished, Unacked
<1>6. QED
  BY <1>1, <1>2, <1>3, <1>4, <1>5, NextActions, QueueMessageLeavesDisk,
     QueuePublishedLeavesDisk, ClearQueueLeavesDisk, SentLeavesDisk, RefusedLeavesDisk,
     WriteDoneLeavesDisk

(* A flush never publishes a message that was acknowledged: doFlush does   *)
(* not look at _acknowledged, the filter at its end does it for the next   *)
(* flush (offline-queue.ts).  retryMessage, which no code of the           *)
(* repository calls, is left out: it publishes beside a flush.             *)
THEOREM AcknowledgedAreNotFlushed ==
  ASSUME "retry" \notin Operator
  PROVE  Spec => []NoFlushAfterAcknowledge
<1>1. Init => Core /\ Unacked
  BY InitCore DEF Init, Unacked
<1>2. (Core /\ Unacked) /\ [Next]_vars => (Core /\ Unacked)'
  BY NextCore, NextUnacked
<1>3. Core /\ Unacked => NoFlushAfterAcknowledge
  <2> SUFFICES ASSUME Core, Unacked, flush # NoFlush
               PROVE  Captured[flush.at] \notin acked
    BY DEF NoFlushAfterAcknowledge
  <2>1. flush.at \in flush.at..Len(Captured)
    BY CapturedType DEF Core
  <2>2. QED
    BY <2>1 DEF Unacked
<1>4. QED
  BY <1>1, <1>2, <1>3, PTL DEF Spec

(* Once the writes are done an acknowledged message has no row: no save of *)
(* it is issued behind deleteFromIndexedDB (doFlush, offline-queue.ts).    *)
THEOREM AcknowledgedVanish ==
  ASSUME "retry" \notin Operator
  PROVE  Spec => []AcknowledgedLeavesDisk
<1>1. Init => Core /\ Unacked /\ LeavesDisk
  BY InitCore DEF Init, Unacked, LeavesDisk
<1>2. (Core /\ Unacked /\ LeavesDisk) /\ [Next]_vars => (Core /\ Unacked /\ LeavesDisk)'
  BY NextCore, NextUnacked, NextLeavesDisk
<1>3. Core /\ LeavesDisk => AcknowledgedLeavesDisk
  BY DEF LeavesDisk, Vanishes, Outlasts, Pending, AcknowledgedLeavesDisk
<1>4. QED
  BY <1>1, <1>2, <1>3, PTL DEF Spec

-----------------------------------------------------------------------------
(* Without retryMessage one life of the tab publishes one rumor a message. *)
LEMMA AddRumor ==
  ASSUME NEW R, IsFiniteSet(R), NEW r
  PROVE  /\ IsFiniteSet(R \cup {r})
         /\ Cardinality(R) \in Nat /\ Cardinality(R \cup {r}) \in Nat
         /\ Cardinality(R \cup {r}) <= Cardinality(R) + 1
         /\ Cardinality(R) <= Cardinality(R \cup {r})
<1>1. /\ IsFiniteSet(R \cup {r})
      /\ Cardinality(R \cup {r}) = IF r \in R THEN Cardinality(R) ELSE Cardinality(R) + 1
  BY FS_AddElement
<1>2. Cardinality(R) \in Nat
  BY FS_CardinalityType
<1>3. QED
  BY <1>1, <1>2

LEMMA OneMore ==
  ASSUME NEW R, IsFiniteSet(R), NEW r, NEW K, K = R \/ K = R \cup {r}
  PROVE  /\ Cardinality(R) \in Nat /\ Cardinality(K) \in Nat
         /\ Cardinality(R) <= Cardinality(K)
         /\ Cardinality(K) <= Cardinality(R) + 1
<1>1. CASE K = R
  BY <1>1, FS_CardinalityType
<1>2. CASE K = R \cup {r}
  BY <1>2, AddRumor
<1>3. QED
  BY <1>1, <1>2

(* A publish hands over the rumor at hand, or one just made when the       *)
(* message had none.                                                       *)
LEMMA PublishCounts ==
  ASSUME NEW m \in Msg, Core, Counted(m), crashes' = crashes, loading' = loading,
         NEW a \in Attempt, a.rumor # NoRumor,
         a.fresh => object[m].rumor = NoRumor,
         ~ a.fresh => a.rumor = object[m].rumor,
         \/ Rumors(m)' = Rumors(m) \cup {a.rumor} /\ object'[m].rumor = a.rumor
         \/ Rumors(m)' = Rumors(m) /\ object'[m].rumor \in {object[m].rumor, a.rumor},
         ~ Loads(m)
  PROVE  Counted(m)'
<1> DEFINE R == Rumors(m)
           c == crashes
<1>0. c \in Nat /\ a.fresh \in BOOLEAN
  BY DEF Core, TypeOK, Attempt
<1>1. IsFiniteSet(R) /\ Cardinality(Known(m)) <= c + 1
  BY DEF Counted
<1>2. /\ IsFiniteSet(R \cup {a.rumor}) /\ Cardinality(R) \in Nat
      /\ Cardinality(R \cup {a.rumor}) <= Cardinality(R) + 1
      /\ Cardinality(R) <= Cardinality(R \cup {a.rumor})
      /\ Cardinality(R \cup {a.rumor}) \in Nat
  BY <1>1, AddRumor
<1>3. Cardinality(R \cup {a.rumor}) <= c + 1
  <2>1. CASE a.fresh
    <3>1. Cardinality(R) <= c
      BY <2>1 DEF Counted
    <3> HIDE DEF R, c
    <3>2. QED
      BY <1>0, <1>2, <3>1
  <2>2. CASE ~ a.fresh
    <3>1. Known(m) = R \cup {a.rumor}
      BY <2>2 DEF Known
    <3>2. QED
      BY <1>1, <3>1
  <2>3. QED
    BY <2>1, <2>2
<1>4. object'[m].rumor = NoRumor => Rumors(m)' = R /\ Cardinality(R) <= c
  BY DEF Counted
<1>5. ~ Loads(m)'
  BY DEF Loads
<1>6. Cardinality(Known(m)') <= c + 1 /\ IsFiniteSet(Rumors(m)')
  <2>1. CASE object'[m].rumor = NoRumor
    <3>1. Known(m)' = R /\ Rumors(m)' = R /\ Cardinality(R) <= c
      BY <1>4, <2>1 DEF Known
    <3> HIDE DEF R, c
    <3>2. QED
      BY <1>0, <1>1, <1>2, <3>1
  <2>2. CASE object'[m].rumor # NoRumor
    <3>1. object'[m].rumor = a.rumor
      BY <1>0, <2>2
    <3>2. Known(m)' = R \cup {a.rumor} /\ Rumors(m)' \in {R, R \cup {a.rumor}}
      BY <2>2, <3>1 DEF Known
    <3> HIDE DEF R, c
    <3>3. QED
      BY <1>1, <1>2, <1>3, <3>2
  <2>3. QED
    BY <2>1, <2>2
<1>7. QED
  BY <1>4, <1>5, <1>6 DEF Counted

LEMMA StillCounted ==
  ASSUME NEW m \in Msg, Counted(m), crashes' = crashes, loading' = loading,
         Rumors(m)' = Rumors(m), object'[m] = object[m]
  PROVE  Counted(m)'
<1>1. Known(m)' = Known(m) /\ Loads(m)' = Loads(m)
  BY DEF Known, Loads
<1>2. QED
  BY <1>1 DEF Counted

(* A flush publishes the next message with the rumor at hand.              *)
LEMMA AttemptRepublishes ==
  ASSUME Core, NEW n \in Msg, object'[n] = object[n], flush'.attempt = NewAttempt(n)
  PROVE  Republishes(n)'
BY NewAttemptFacts DEF Republishes, Core

LEMMA QuietOneRumor ==
  ASSUME OneRumor, UNCHANGED <<object, queue, flush, loading, published, crashes>>
  PROVE  OneRumor'
<1> SUFFICES ASSUME NEW n \in Msg
             PROVE  Counted(n)' /\ Republishes(n)'
  BY DEF OneRumor
<1>1. Rumors(n)' = Rumors(n) /\ Captured' = Captured /\ Counted(n) /\ Republishes(n)
  BY DEF Rumors, Captured, OneRumor
<1>2. QED
  BY <1>1, StillCounted DEF Republishes

LEMMA PoolStateChangeOneRumor ==
  ASSUME Core, OneRumor, PoolStateChange
  PROVE  OneRumor'
<1>1. /\ UNCHANGED <<object, queue, loading, published, crashes>>
      /\ flush' = flush \/ Begins
  BY PoolStateChangeFacts DEF Core, stored, bounds
<1>2. CASE flush' = flush
  BY <1>1, <1>2, QuietOneRumor
<1>3. CASE Begins
  <2> SUFFICES ASSUME NEW n \in Msg
               PROVE  Counted(n)' /\ Republishes(n)'
    BY DEF OneRumor
  <2>1. Rumors(n)' = Rumors(n) /\ object'[n] = object[n]
    BY <1>1 DEF Rumors
  <2>2. Counted(n)'
    BY <1>1, <2>1, StillCounted DEF OneRumor
  <2>3. CASE Captured'[flush'.at] = n
    <3>1. flush'.attempt = NewAttempt(n)
      BY <1>3, <2>3 DEF Begins
    <3>2. QED
      BY <2>1, <2>2, <3>1, AttemptRepublishes
  <2>4. QED
    BY <2>2, <2>3 DEF Republishes
<1>4. QED
  BY <1>1, <1>2, <1>3

LEMMA GrownRepublishes ==
  ASSUME Core, flush' = flush, Grows, NEW n \in Msg, Republishes(n),
         object'[n] = object[n] \/ status[n] # "stored" \/ Loads(n)
  PROVE  Republishes(n)'
<1> SUFFICES ASSUME flush' # NoFlush, Captured'[flush'.at] = n
             PROVE  /\ flush'.attempt.rumor # NoRumor
                    /\ flush'.attempt.fresh => object'[n].rumor = NoRumor
                    /\ ~ flush'.attempt.fresh => flush'.attempt.rumor = object'[n].rumor
  BY DEF Republishes
<1>1. flush # NoFlush /\ Captured[flush.at] = n
  BY GrownAttempt DEF Core
<1>2. n \in ToSet(Captured) /\ status[n] = "stored" /\ ~ Loads(n)
  BY <1>1, CapturedType, CapturedPlaces DEF Core, Held, Places, Located
<1>3. QED
  BY <1>1, <1>2 DEF Republishes

LEMMA QueueMessageOneRumor ==
  ASSUME Core, OneRumor, NEW m \in Msg, NEW to \in Peer, QueueFor(m, to)
  PROVE  OneRumor'
<1>1. /\ status[m] = "sending" /\ UNCHANGED <<flush, loading, published, crashes>>
      /\ InitialRow(m) \in Row /\ object[m] = InitialRow(m)
      /\ object \in [Msg -> Row]
  BY InitialRowFacts DEF QueueFor, Core, TypeOK, Places, Located, history, bounds
<1>2. CASE connected
  <2>1. object' = object /\ queue' = queue
    BY <1>1, <1>2 DEF QueueFor
  <2>2. QED
    BY <1>1, <2>1, QuietOneRumor
<1>3. CASE ~ connected
  <2>1. Stored(m, to, InitialRow(m))
    BY <1>3 DEF QueueFor
  <2>2. Grows /\ object'[m] = InitialRow(m) /\ \A n \in Msg : n # m => object'[n] = object[n]
    BY <1>1, <2>1, StoredFacts DEF Core
  <2> SUFFICES ASSUME NEW n \in Msg
               PROVE  Counted(n)' /\ Republishes(n)'
    BY DEF OneRumor
  <2>3. object'[n] = object[n] /\ Rumors(n)' = Rumors(n)
    BY <1>1, <2>2 DEF Rumors
  <2>4. Counted(n) /\ Republishes(n)
    BY DEF OneRumor
  <2>5. QED
    BY <1>1, <2>2, <2>3, <2>4, GrownRepublishes, StillCounted
<1>4. QED
  BY <1>2, <1>3

LEMMA QueuePublishedOneRumor ==
  ASSUME Core, OneRumor, NEW m \in Msg, QueuePublished(m)
  PROVE  OneRumor'
<1>1. /\ status[m] = "publishing" /\ UNCHANGED <<flush, loading, crashes>>
      /\ addressee[m] \in Peer
  BY DEF QueuePublished, bounds, Core, TypeOK
<1>2. PICK outcome \in Outcome, row \in Row :
        /\ HandedOver(m, NewAttempt(m), outcome) /\ Stored(m, addressee[m], row)
        /\ row.rumor = IF outcome = "failed" THEN object[m].rumor ELSE NewAttempt(m).rumor
  BY QueuePublishedFacts DEF Core
<1> DEFINE a == NewAttempt(m)
<1>3. /\ a \in Attempt /\ a.rumor # NoRumor
      /\ a.fresh => object[m].rumor = NoRumor
      /\ ~ a.fresh => a.rumor = object[m].rumor
  BY NewAttemptFacts DEF Core
<1>4. /\ \A n \in Msg : n # m => Rumors(n)' = Rumors(n)
      /\ outcome = "sent" => Rumors(m)' = Rumors(m) \cup {a.rumor}
      /\ outcome # "sent" => Rumors(m)' = Rumors(m)
  BY <1>2, <1>3, HandedOverFacts DEF Core
<1>5. /\ Grows /\ object'[m] = row
      /\ \A n \in Msg : n # m => object'[n] = object[n]
  BY <1>1, <1>2, StoredFacts DEF Core
<1>6. ~ Loads(m)
  BY <1>1 DEF Core, Places, Located
<1>7. Counted(m)'
  <2>1. \/ Rumors(m)' = Rumors(m) \cup {a.rumor} /\ object'[m].rumor = a.rumor
        \/ Rumors(m)' = Rumors(m) /\ object'[m].rumor \in {object[m].rumor, a.rumor}
    BY <1>2, <1>4, <1>5
  <2>2. Counted(m)
    BY DEF OneRumor
  <2> HIDE DEF a
  <2>3. QED
    BY <1>1, <1>3, <1>6, <2>1, <2>2, PublishCounts
<1> SUFFICES ASSUME NEW n \in Msg
             PROVE  Counted(n)' /\ Republishes(n)'
  BY DEF OneRumor
<1>8. Republishes(n)'
  BY <1>1, <1>5, GrownRepublishes DEF OneRumor
<1>9. n # m => Counted(n)'
  BY <1>1, <1>4, <1>5, StillCounted DEF OneRumor
<1>10. QED
  BY <1>7, <1>8, <1>9

LEMMA SentOneRumor ==
  ASSUME Core, OneRumor, NEW m, Sent(m)
  PROVE  OneRumor'
<1> DEFINE a == flush.attempt
<1>1. /\ UNCHANGED <<loading, crashes>> /\ flush # NoFlush /\ m = Captured[flush.at]
      /\ HandedOver(m, a, "sent") /\ a \in Attempt /\ IsInjective(Captured)
      /\ Captured \in Seq(Msg) /\ flush.at \in 1..Len(Captured)
  BY CapturedType, CapturedPlaces DEF Sent, FlushFrame, bounds, Core
<1>2. /\ m \in Msg /\ m \in ToSet(Captured)
      /\ \A n \in Msg : n # m => object'[n] = object[n]
      /\ object'[m].rumor = IF a.fresh THEN a.rumor ELSE object[m].rumor
  BY SentFacts
<1>3. /\ a.rumor # NoRumor
      /\ a.fresh => object[m].rumor = NoRumor
      /\ ~ a.fresh => a.rumor = object[m].rumor
  BY <1>1, <1>2 DEF OneRumor, Republishes
<1>4. /\ \A n \in Msg : n # m => Rumors(n)' = Rumors(n)
      /\ Rumors(m)' = Rumors(m) \cup {a.rumor}
  BY <1>1, <1>2, HandedOverFacts DEF Core
<1>5. ~ Loads(m)
  BY <1>1, <1>2 DEF Held, Core, Places, Located
<1>6. Counted(m)'
  <2>1. Counted(m) /\ object'[m].rumor = a.rumor
    BY <1>2, <1>3 DEF OneRumor
  <2> HIDE DEF a
  <2>2. QED
    BY <1>1, <1>2, <1>3, <1>4, <1>5, <2>1, PublishCounts
<1>7. \A n \in Msg : n # m => Counted(n)'
  BY <1>1, <1>2, <1>4, StillCounted DEF OneRumor
<1>8. \A n \in Msg : Republishes(n)'
  <2>1. CASE Ends(acked')
    BY <2>1 DEF Ends, Republishes
  <2>2. ASSUME NEW at, MovesOn(at), NEW n \in Msg PROVE Republishes(n)'
    <3>1. /\ Captured' = Captured /\ flush'.at = at /\ at \in 1..Len(Captured)
          /\ flush'.attempt = NewAttempt(Captured[at]) /\ at # flush.at
      <4>1. at \in flush.at + 1..Len(Captured)
        BY <2>2 DEF MovesOn
      <4>2. at # flush.at
        BY <1>1, <4>1
      <4>3. QED
        BY <2>2, <4>2 DEF MovesOn
    <3>2. CASE Captured[at] = n
      <4>1. n # m
        BY <1>1, <3>1, <3>2 DEF IsInjective
      <4>2. object'[n] = object[n] /\ flush'.attempt = NewAttempt(n)
        BY <1>2, <3>1, <3>2, <4>1
      <4>3. QED
        BY <4>2, AttemptRepublishes
    <3>3. CASE Captured[at] # n
      BY <3>1, <3>3 DEF Republishes
    <3>4. QED
      BY <3>2, <3>3
  <2>3. QED
    BY <2>1, <2>2, SentOutcomes
<1>9. QED
  BY <1>6, <1>7, <1>8 DEF OneRumor

LEMMA RefusedOneRumor ==
  ASSUME Core, OneRumor, NEW m, NEW outcome, Refused(m, outcome)
  PROVE  OneRumor'
<1> DEFINE a == flush.attempt
<1>1. /\ UNCHANGED <<loading, crashes>> /\ flush # NoFlush /\ m = Captured[flush.at]
      /\ HandedOver(m, a, outcome) /\ a \in Attempt /\ outcome # "sent"
  BY CapturedType DEF Refused, FlushFrame, bounds, Core
<1>2. /\ m \in Msg /\ m \in ToSet(Captured) /\ flush' = NoFlush
      /\ \A n \in Msg : n # m => object'[n] = object[n]
      /\ \/ object'[m].rumor = object[m].rumor
         \/ a.fresh /\ object'[m].rumor = a.rumor
  BY RefusedFacts
<1>3. /\ a.rumor # NoRumor
      /\ a.fresh => object[m].rumor = NoRumor
      /\ ~ a.fresh => a.rumor = object[m].rumor
  BY <1>1, <1>2 DEF OneRumor, Republishes
<1>4. \A n \in Msg : Rumors(n)' = Rumors(n)
  BY <1>1, <1>2, HandedOverFacts DEF Core
<1>5. ~ Loads(m)
  BY <1>1, <1>2 DEF Held, Core, Places, Located
<1>6. Counted(m)'
  <2>1. Counted(m) /\ object'[m].rumor \in {object[m].rumor, a.rumor} /\ Rumors(m)' = Rumors(m)
    BY <1>2, <1>4 DEF OneRumor
  <2> HIDE DEF a
  <2>2. QED
    BY <1>1, <1>2, <1>3, <1>5, <2>1, PublishCounts
<1>7. \A n \in Msg : n # m => Counted(n)'
  BY <1>1, <1>2, <1>4, StillCounted DEF OneRumor
<1>8. \A n \in Msg : Republishes(n)'
  BY <1>2 DEF Republishes
<1>9. QED
  BY <1>6, <1>7, <1>8 DEF OneRumor

LEMMA ClearQueueOneRumor ==
  ASSUME Core, OneRumor, NEW p \in Peer, ClearQueue(p)
  PROVE  OneRumor'
<1>1. UNCHANGED <<object, loading, published, crashes>>
  BY DEF ClearQueue
<1>2. flush' # NoFlush => /\ flush # NoFlush /\ Captured' = Captured /\ flush'.at = flush.at
                          /\ flush'.attempt = flush.attempt
  BY ClearQueueFacts DEF Core
<1> SUFFICES ASSUME NEW n \in Msg
             PROVE  Counted(n)' /\ Republishes(n)'
  BY DEF OneRumor
<1>3. Rumors(n)' = Rumors(n) /\ Counted(n) /\ Republishes(n)
  BY <1>1 DEF Rumors, OneRumor
<1>4. QED
  BY <1>1, <1>2, <1>3, StillCounted DEF Republishes

(* A new life may publish one rumor more: what the old one published with  *)
(* may not have reached the disk.                                          *)
LEMMA CrashOneRumor ==
  ASSUME Core, OneRumor, Crash
  PROVE  OneRumor'
<1>1. /\ published' = published /\ crashes' = crashes + 1 /\ flush' = NoFlush
  BY DEF Crash, history
<1> SUFFICES ASSUME NEW n \in Msg
             PROVE  Counted(n)' /\ Republishes(n)'
  BY DEF OneRumor
<1> DEFINE R == Rumors(n)
           r == object'[n].rumor
           c == crashes
<1>2. Rumors(n)' = R /\ IsFiniteSet(R) /\ Cardinality(Known(n)) <= c + 1 /\ c \in Nat
  BY <1>1 DEF Rumors, OneRumor, Counted, Core, TypeOK
<1>3. /\ Cardinality(R) \in Nat /\ Cardinality(R \cup {r}) <= Cardinality(R) + 1
      /\ Cardinality(R \cup {r}) \in Nat
  BY <1>2, AddRumor
<1>4. Cardinality(R) <= c + 1
  <2>1. Known(n) = R \/ Known(n) = R \cup {object[n].rumor}
    BY DEF Known
  <2>2. /\ Cardinality(R) <= Cardinality(R \cup {object[n].rumor})
        /\ Cardinality(R \cup {object[n].rumor}) \in Nat
    BY <1>2, AddRumor
  <2> HIDE DEF R, c
  <2>3. QED
    BY <1>2, <1>3, <2>1, <2>2
<1> DEFINE K == Known(n)'
<1>5. K = R \/ K = R \cup {r}
  BY <1>2 DEF Known
<1> HIDE DEF R, r, c, K
<1>6. Cardinality(K) <= c + 1 + 1 /\ Cardinality(R) <= c + 1
  BY <1>2, <1>3, <1>4, <1>5
<1>7. Counted(n)'
  BY <1>1, <1>2, <1>6 DEF Counted, c, K
<1>8. QED
  BY <1>1, <1>7 DEF Republishes

LEMMA RestoreOneRumor ==
  ASSUME Core, OneRumor, Restore
  PROVE  OneRumor'
<1>1. UNCHANGED <<flush, published, crashes>> /\ loading' = NoLoad
  BY DEF Restore, history, bounds
<1>2. /\ Grows
      /\ \A m \in Msg : object'[m] = IF Loads(m) THEN loading[m] ELSE object[m]
  BY RestoreFacts DEF Core
<1> SUFFICES ASSUME NEW n \in Msg
             PROVE  Counted(n)' /\ Republishes(n)'
  BY DEF OneRumor
<1>3. Rumors(n)' = Rumors(n) /\ ~ Loads(n)' /\ Counted(n) /\ Republishes(n)
  BY <1>1 DEF Rumors, Loads, OneRumor
<1>4. Republishes(n)'
  BY <1>1, <1>2, <1>3, GrownRepublishes
<1>5. CASE ~ Loads(n)
  <2>1. object'[n] = object[n] /\ Known(n)' = Known(n)
    BY <1>2, <1>3, <1>5 DEF Known
  <2>2. QED
    BY <1>1, <1>3, <1>4, <2>1 DEF Counted
<1>6. CASE Loads(n)
  <2> DEFINE R == Rumors(n)
             r == object'[n].rumor
             c == crashes
  <2>1. Cardinality(R) <= c /\ IsFiniteSet(R) /\ c \in Nat
    BY <1>3, <1>6 DEF Counted, Core, TypeOK
  <2> DEFINE K == Known(n)'
  <2>3. K = R \/ K = R \cup {r}
    BY <1>3 DEF Known
  <2> HIDE DEF R, r, c, K
  <2>a. /\ Cardinality(K) <= Cardinality(R) + 1
        /\ Cardinality(K) \in Nat /\ Cardinality(R) \in Nat
    BY <2>1, <2>3, OneMore
  <2>4. Cardinality(K) <= c + 1
    BY <2>1, <2>a
  <2>5. Counted(n)'
    BY <1>1, <1>3, <2>1, <2>4 DEF Counted, R, c, K
  <2>6. QED
    BY <1>4, <2>5
<1>7. QED
  BY <1>5, <1>6

LEMMA InitOneRumor == Init => OneRumor
<1> SUFFICES ASSUME Init, NEW n \in Msg
             PROVE  Counted(n) /\ Republishes(n)
  BY DEF OneRumor
<1>1. Rumors(n) = {} /\ crashes = 0 /\ flush = NoFlush
  BY DEF Init, Rumors
<1> DEFINE R == Rumors(n)
           r == object[n].rumor
           K == Known(n)
<1>2. IsFiniteSet(R) /\ Cardinality(R) = 0
  BY <1>1, FS_EmptySet
<1>3. K = R \/ K = R \cup {r}
  BY DEF Known
<1> HIDE DEF R, r, K
<1>a. Cardinality(K) <= Cardinality(R) + 1 /\ Cardinality(K) \in Nat
  BY <1>2, <1>3, OneMore
<1>4. Cardinality(K) <= 1
  BY <1>2, <1>a
<1>5. QED
  BY <1>1, <1>2, <1>4 DEF Counted, Republishes, R, K

LEMMA NextOneRumor ==
  ASSUME "retry" \notin Operator, Core, Unacked, OneRumor, [Next]_vars
  PROVE  OneRumor'
<1>1. (\/ \E m \in Msg : SendMessage(m) \/ QueueFails(m)
       \/ Connect \/ Disconnect \/ RelayFlaps \/ SwitchChat \/ UNCHANGED vars)
         => UNCHANGED <<object, queue, flush, loading, published, crashes>>
  BY QuietActions DEF Quiet, QuietFrame, memory, stored, history
<1>2. WriteDone => UNCHANGED <<object, queue, flush, loading, published, crashes>>
  BY DEF WriteDone, memory, history, bounds
<1>3. \A m \in Msg : ~ RetryMessage(m) /\ ~ RetryPublished(m)
  BY DEF RetryMessage, Manual, RetryPublished, Unacked
<1>4. QED
  BY <1>1, <1>2, <1>3, NextActions, QueueMessageOneRumor, QueuePublishedOneRumor,
     ClearQueueOneRumor, PoolStateChangeOneRumor, SentOneRumor, RefusedOneRumor,
     CrashOneRumor, RestoreOneRumor, QuietOneRumor

(* Every publish of a message in one life of the tab carries the rumor its *)
(* receiver knows: publish keeps the rumor it made and rewrapAndPublish    *)
(* wraps that one again (doFlush, offline-queue.ts), so the relays get no  *)
(* more rumors of a message than the tab had lives.  retryMessage, which   *)
(* no code of the repository calls, is left out: it publishes beside a     *)
(* flush.                                                                  *)
THEOREM OneRumorInEachLife ==
  ASSUME "retry" \notin Operator
  PROVE  Spec => []OneRumorPerLife
<1>1. Init => Core /\ Unacked /\ OneRumor
  BY InitCore, InitOneRumor DEF Init, Unacked
<1>2. (Core /\ Unacked /\ OneRumor) /\ [Next]_vars => (Core /\ Unacked /\ OneRumor)'
  BY NextCore, NextUnacked, NextOneRumor
<1>3. Core /\ OneRumor => OneRumorPerLife
  <2> SUFFICES ASSUME Core, OneRumor, NEW m \in Msg
               PROVE  Cardinality(Rumors(m)) <= 1 + crashes
    BY DEF OneRumorPerLife
  <2>1. /\ IsFiniteSet(Rumors(m)) /\ Cardinality(Known(m)) <= crashes + 1 /\ crashes \in Nat
        /\ Known(m) = Rumors(m) \/ Known(m) = Rumors(m) \cup {object[m].rumor}
    BY DEF OneRumor, Counted, Known, Core, TypeOK
  <2>2. /\ Cardinality(Rumors(m)) <= Cardinality(Rumors(m) \cup {object[m].rumor})
        /\ Cardinality(Rumors(m)) \in Nat
        /\ Cardinality(Rumors(m) \cup {object[m].rumor}) \in Nat
    BY <2>1, AddRumor
  <2> DEFINE x == Cardinality(Known(m))
  <2>3. x \in Nat /\ Cardinality(Rumors(m)) <= x
    BY <2>1, <2>2
  <2> HIDE DEF x
  <2>4. QED
    BY <2>1, <2>2, <2>3 DEF x
<1>4. QED
  BY <1>1, <1>2, <1>3, PTL DEF Spec
=============================================================================

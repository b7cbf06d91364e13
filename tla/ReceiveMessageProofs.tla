------------------------ MODULE ReceiveMessageProofs ------------------------
(***************************************************************************)
(* The receiving device keeps the promise of Conversation, for any         *)
(* messages, lanes, times and deletions.                                   *)
(*                                                                         *)
(* What the promise needs to know and the variables alone do not say is    *)
(* where a handler, or a second save, may still be with a message that is  *)
(* announced, settled or gone.  IInv says it part by part:                 *)
(*                                                                         *)
(*   OneAtATime   a message has one writer: a handler on one lane, or its  *)
(*                second save                                              *)
(*   ToldIsKnown  an announced message is known to the store, or below the *)
(*                watermark, so that a later handler of it is dropped      *)
(*   GateIsRead   nothing of a peer was announced before the watermark was *)
(*                read: the gate of an announced message does not fall open*)
(*   FreshLane    a handler past the checks is of a message that was not   *)
(*                announced and was not there when the session started, or *)
(*                whose row could not be looked up                         *)
(*   FreshSync    so is a second save, and its message is settled          *)
(*   GoneIsSealed the invariant of the runs                                *)
(*   PutIsAlive   no write of a message that is gone is about to happen,   *)
(*                and no edit of one gets as far                           *)
(***************************************************************************)
EXTENDS ReceiveMessage, TLAPS

Peers == Message \ Own

Handles(l, m) ==
  lane[l] # Idle /\ lane[l].rumor.kind = "message" /\ lane[l].rumor.of = m

LaneShape ==
  \A l \in Lane : lane[l] # Idle =>
    /\ lane[l].rumor.kind = "delete" => lane[l].pc = "start"
    /\ lane[l].rumor.kind = "edit" => lane[l].pc \in {"start", "check", "put"}
    /\ lane[l].pc = "dedup" => lane[l].rumor.of \notin Own

OneAtATime ==
  \A m \in Message, l \in Lane : Handles(l, m) =>
    /\ sync[m] = "none"
    /\ \A k \in Lane : Handles(k, m) => k = l

OwnSync == \A m \in Own : sync[m] \in {"none", "tell"}

ToldIsKnown ==
  \A m \in Peers : m \in told \/ sync[m] = "tell" => m \in seen \/ Buried(m)

GateIsRead ==
  ~cached => \A m \in Peers : m \notin told /\ sync[m] \in {"none", "check"}

FreshLane ==
  \A m \in Peers, l \in Lane : Handles(l, m) =>
    /\ lane[l].pc = "dedup" => (m \in told => m \in seen)
    /\ lane[l].pc \in {"lookup", "check", "put", "finish"} => m \notin told
    /\ lane[l].pc \in {"check", "put", "finish"} => m \notin old \ unread
    /\ lane[l].pc = "finish" => m \in settled

FreshSync ==
  \A m \in Peers : sync[m] # "none" =>
    m \notin told /\ m \notin old \ unread /\ m \in settled

PutIsAlive ==
  /\ \A l \in Lane :
       /\ lane[l] # Idle
       /\ \/ lane[l].pc = "put"
          \/ lane[l].rumor.kind = "edit" /\ lane[l].pc # "start"
       => Target(l) \notin gone
  /\ \A m \in Message : sync[m] = "put" => m \notin gone

IInv ==
  /\ TypeOK
  /\ LaneShape
  /\ OneAtATime
  /\ OwnSync
  /\ old \subseteq Kept
  /\ ToldIsKnown
  /\ GateIsRead
  /\ FreshLane
  /\ FreshSync
  /\ GoneIsSealed
  /\ PutIsAlive

-----------------------------------------------------------------------------
(* What a busy lane holds.                                                 *)
LEMMA LaneFacts ==
  ASSUME TypeOK, NEW l \in Lane, lane[l] # Idle
  PROVE  /\ lane[l] \in Work
         /\ lane[l].rumor.of \in Message
         /\ lane[l].rumor.kind \in {"message", "edit", "delete"}
         /\ lane[l].rumor.kind = "edit" => lane[l].rumor.at \in Edit
         /\ lane[l].found \in Row
<1>1. lane[l] \in Work
  BY DEF TypeOK
<1>2. lane[l].rumor \in Rumor /\ lane[l].found \in Row
  BY <1>1 DEF Work
<1> QED
  BY <1>1, <1>2 DEF Rumor

(* What a step of one lane does to the lanes.                              *)
LEMMA GoFacts ==
  ASSUME TypeOK, NEW l \in Lane, lane[l] # Idle, NEW pc \in Step, Go(l, pc)
  PROVE  /\ lane' \in [Lane -> Work \cup {Idle}]
         /\ lane'[l] # Idle
         /\ lane'[l].rumor = lane[l].rumor
         /\ lane'[l].pc = pc
         /\ lane'[l].found = lane[l].found
         /\ \A k \in Lane \ {l} : lane'[k] = lane[k]
<1>1. lane[l] \in Work
  BY DEF TypeOK
<1>2. [lane[l] EXCEPT !.pc = pc] \in Work
  BY <1>1 DEF Work
<1>3. lane' = [lane EXCEPT ![l] = [lane[l] EXCEPT !.pc = pc]]
  BY DEF Go
<1> QED
  BY <1>1, <1>2, <1>3, ConstantsAssumption DEF TypeOK, Work

LEMMA DoneFacts ==
  ASSUME TypeOK, NEW l \in Lane, Done(l)
  PROVE  /\ lane' \in [Lane -> Work \cup {Idle}]
         /\ lane'[l] = Idle
         /\ \A k \in Lane \ {l} : lane'[k] = lane[k]
BY DEF Done, TypeOK

(* The times compare, and the watermark only moves up.                     *)
LEMMA TimesCompare ==
  ASSUME TypeOK
  PROVE  /\ tomb \in Nat
         /\ \A m \in Message : SentAt[m] \in Nat
BY ConstantsAssumption DEF TypeOK

LEMMA RefuseStep ==
  ASSUME IInv, NEW l \in Lane, Refuse(l)
  PROVE  IInv'
<1>1. /\ TypeOK /\ lane[l] # Idle /\ Target(l) \in Message
      /\ lane[l].rumor.kind = "message" /\ lane[l].pc = "start"
      /\ UNCHANGED <<row, tomb, sync, history, seen, clearing, settled, told,
                     acked, gone, old, faults, restarts, deletes,
                     cached, ungated, unread>>
  BY LaneFacts DEF IInv, At, Target, promised, doubts, counters, Refuse
<1>2. CASE Done(l)
  <2>1. /\ lane' \in [Lane -> Work \cup {Idle}]
        /\ lane'[l] = Idle
        /\ \A k \in Lane \ {l} : lane'[k] = lane[k]
    BY <1>1, <1>2, DoneFacts
  <2> QED
    BY <1>1, <1>2, <2>1, TimesCompare DEF IInv, TypeOK, LaneShape, OneAtATime,
      OwnSync, ToldIsKnown, GateIsRead, FreshLane, FreshSync, GoneIsSealed, PutIsAlive,
      Handles, Peers, Target, Kept, Buried, Remembered, Writing
<1> QED
  BY <1>2 DEF Refuse

LEMMA GateStep ==
  ASSUME IInv, NEW l \in Lane, Gate(l)
  PROVE  IInv'
<1>1. /\ TypeOK /\ lane[l] # Idle /\ Target(l) \in Message
      /\ lane[l].rumor.kind = "message" /\ lane[l].pc = "start"
      /\ UNCHANGED <<row, tomb, sync, history, seen, clearing, settled, told,
                     acked, gone, old, faults, restarts, deletes,
                     ungated, unread>>
  BY LaneFacts DEF IInv, At, Target, promised, doubts, counters, Gate
<1>2. CASE Done(l) /\ cached' = TRUE
  <2>1. /\ lane' \in [Lane -> Work \cup {Idle}]
        /\ lane'[l] = Idle
        /\ \A k \in Lane \ {l} : lane'[k] = lane[k]
    BY <1>1, <1>2, DoneFacts
  <2> QED
    BY <1>1, <1>2, <2>1, TimesCompare DEF IInv, TypeOK, LaneShape, OneAtATime,
      OwnSync, ToldIsKnown, GateIsRead, FreshLane, FreshSync, GoneIsSealed, PutIsAlive,
      Handles, Peers, Target, Kept, Buried, Remembered, Writing
<1>3. CASE Go(l, "lookup") /\ Target(l) \in Own /\ UNCHANGED cached
  <2>1. /\ lane' \in [Lane -> Work \cup {Idle}]
        /\ lane'[l] # Idle /\ lane'[l].rumor = lane[l].rumor
        /\ lane'[l].pc = "lookup" /\ lane'[l].found = lane[l].found
        /\ \A k \in Lane \ {l} : lane'[k] = lane[k]
    BY <1>1, <1>3, GoFacts DEF Step
  <2> QED
    BY <1>1, <1>3, <2>1, TimesCompare DEF IInv, TypeOK, LaneShape, OneAtATime,
      OwnSync, ToldIsKnown, GateIsRead, FreshLane, FreshSync, GoneIsSealed, PutIsAlive,
      Handles, Peers, Target, Kept, Buried, Remembered, Writing
<1>4. CASE /\ Go(l, "dedup") /\ Target(l) \notin Own /\ ~Buried(Target(l))
           /\ cached' = TRUE
  <2>1. /\ lane' \in [Lane -> Work \cup {Idle}]
        /\ lane'[l] # Idle /\ lane'[l].rumor = lane[l].rumor
        /\ lane'[l].pc = "dedup" /\ lane'[l].found = lane[l].found
        /\ \A k \in Lane \ {l} : lane'[k] = lane[k]
    BY <1>1, <1>4, GoFacts DEF Step
  <2> QED
    BY <1>1, <1>4, <2>1, TimesCompare DEF IInv, TypeOK, LaneShape, OneAtATime,
      OwnSync, ToldIsKnown, GateIsRead, FreshLane, FreshSync, GoneIsSealed, PutIsAlive,
      Handles, Peers, Target, Kept, Buried, Remembered, Writing
<1> QED
  BY <1>2, <1>3, <1>4 DEF Gate

LEMMA GateFailsStep ==
  ASSUME IInv, NEW l \in Lane, GateFails(l)
  PROVE  IInv'
<1>1. /\ TypeOK /\ lane[l] # Idle /\ Target(l) \in Message \ Own
      /\ lane[l].rumor.kind = "message" /\ lane[l].pc = "start"
      /\ faults' \in Nat /\ ~cached
      /\ ungated' = ungated \cup {Target(l)}
      /\ UNCHANGED <<row, tomb, sync, history, seen, clearing, settled, told,
                     acked, gone, old, restarts, deletes, cached, unread>>
  BY LaneFacts DEF IInv, TypeOK, At, Target, GateFails, Fault
<1>2. /\ lane' \in [Lane -> Work \cup {Idle}]
      /\ lane'[l] # Idle /\ lane'[l].rumor = lane[l].rumor
      /\ lane'[l].pc = "dedup" /\ lane'[l].found = lane[l].found
      /\ \A k \in Lane \ {l} : lane'[k] = lane[k]
  BY <1>1, GoFacts DEF Step, GateFails
<1>3. \A m \in Peers : m \notin told /\ sync[m] \in {"none", "check"}
  BY <1>1 DEF IInv, GateIsRead
<1> QED
  BY <1>1, <1>2, <1>3, TimesCompare DEF IInv, TypeOK, LaneShape, OneAtATime,
    OwnSync, ToldIsKnown, GateIsRead, FreshLane, FreshSync, GoneIsSealed,
    PutIsAlive, Handles, Peers, Target, Kept, Buried, Remembered, Writing

LEMMA ReadOriginalStep ==
  ASSUME IInv, NEW l \in Lane, ReadOriginal(l)
  PROVE  IInv'
<1> DEFINE original == FindOriginal(Target(l))
           next == [lane[l] EXCEPT !.pc = "check", !.found = original]
<1>1. /\ TypeOK /\ lane[l] # Idle /\ Target(l) \in Message
      /\ lane[l].rumor.kind = "edit" /\ lane[l].pc = "start"
      /\ UNCHANGED <<row, tomb, sync, history, seen, clearing, settled, told,
                     acked, gone, old, faults, restarts, deletes,
                     cached, ungated, unread>>
  BY LaneFacts DEF IInv, At, Target, promised, doubts, counters, ReadOriginal
<1>2. CASE Done(l)
  <2>1. /\ lane' \in [Lane -> Work \cup {Idle}]
        /\ lane'[l] = Idle
        /\ \A k \in Lane \ {l} : lane'[k] = lane[k]
    BY <1>1, <1>2, DoneFacts
  <2> QED
    BY <1>1, <1>2, <2>1, TimesCompare DEF IInv, TypeOK, LaneShape, OneAtATime,
      OwnSync, ToldIsKnown, GateIsRead, FreshLane, FreshSync, GoneIsSealed, PutIsAlive,
      Handles, Peers, Target, Kept, Buried, Remembered, Writing
<1>3. CASE original # NoRow /\ lane' = [lane EXCEPT ![l] = next]
  <2>1. original = row[Target(l)] /\ original \in Row
    BY <1>1, <1>3 DEF TypeOK, FindOriginal
  <2>2. next \in Work /\ next.rumor = lane[l].rumor /\ next.pc = "check"
    BY <1>1, <2>1, LaneFacts DEF Work, Step
  <2> HIDE DEF original, next
  <2>3. /\ lane' \in [Lane -> Work \cup {Idle}]
        /\ lane'[l] # Idle /\ lane'[l].rumor = lane[l].rumor
        /\ lane'[l].pc = "check"
        /\ \A k \in Lane \ {l} : lane'[k] = lane[k]
    BY <1>1, <1>3, <2>2, ConstantsAssumption DEF TypeOK
  <2> QED
    BY <1>1, <1>3, <2>1, <2>3, TimesCompare DEF IInv, TypeOK, LaneShape,
      OneAtATime, OwnSync, ToldIsKnown, GateIsRead, FreshLane, FreshSync, GoneIsSealed,
      PutIsAlive, Handles, Peers, Target, Kept, Buried, Remembered, Writing
<1> QED
  BY <1>2, <1>3 DEF ReadOriginal, Target

LEMMA DedupStep ==
  ASSUME IInv, NEW l \in Lane, Dedup(l)
  PROVE  IInv'
<1>1. /\ TypeOK /\ lane[l] # Idle /\ Target(l) \in Message
      /\ lane[l].rumor.kind = "message" /\ lane[l].pc = "dedup"
      /\ UNCHANGED <<row, tomb, sync, seen, clearing, settled, told, acked,
                     gone, old, faults, restarts, deletes,
                     cached, ungated, unread>>
  BY LaneFacts DEF IInv, At, Target, promised, doubts, counters, Dedup
<1>2. CASE Done(l) /\ history' = history \cup {Target(l)}
  <2>1. /\ lane' \in [Lane -> Work \cup {Idle}]
        /\ lane'[l] = Idle
        /\ \A k \in Lane \ {l} : lane'[k] = lane[k]
    BY <1>1, <1>2, DoneFacts
  <2> QED
    BY <1>1, <1>2, <2>1, TimesCompare DEF IInv, TypeOK, LaneShape, OneAtATime,
      OwnSync, ToldIsKnown, GateIsRead, FreshLane, FreshSync, GoneIsSealed, PutIsAlive,
      Handles, Peers, Target, Kept, Buried, Remembered, Writing
<1>3. CASE /\ Go(l, "lookup") /\ UNCHANGED history
           /\ Target(l) \notin seen
  <2>1. /\ lane' \in [Lane -> Work \cup {Idle}]
        /\ lane'[l] # Idle /\ lane'[l].rumor = lane[l].rumor
        /\ lane'[l].pc = "lookup" /\ lane'[l].found = lane[l].found
        /\ \A k \in Lane \ {l} : lane'[k] = lane[k]
    BY <1>1, <1>3, GoFacts DEF Step
  <2> QED
    BY <1>1, <1>3, <2>1, TimesCompare DEF IInv, TypeOK, LaneShape, OneAtATime,
      OwnSync, ToldIsKnown, GateIsRead, FreshLane, FreshSync, GoneIsSealed, PutIsAlive,
      Handles, Peers, Target, Kept, Buried, Remembered, Writing
<1> QED
  BY <1>2, <1>3 DEF Dedup, InMemory

LEMMA LookupStep ==
  ASSUME IInv, NEW l \in Lane, Lookup(l)
  PROVE  IInv'
<1>1. /\ TypeOK /\ lane[l] # Idle /\ Target(l) \in Message
      /\ lane[l].rumor.kind = "message" /\ lane[l].pc = "lookup"
      /\ history' \subseteq history \cup {Target(l)}
      /\ UNCHANGED <<row, tomb, sync, clearing, settled, told, acked, gone,
                     old, faults, restarts, deletes,
                     cached, ungated, unread>>
  BY LaneFacts DEF IInv, At, Target, promised, doubts, counters, Lookup
<1>2. CASE Done(l) /\ seen' = seen \cup {Target(l)}
  <2>1. /\ lane' \in [Lane -> Work \cup {Idle}]
        /\ lane'[l] = Idle
        /\ \A k \in Lane \ {l} : lane'[k] = lane[k]
    BY <1>1, <1>2, DoneFacts
  <2> QED
    BY <1>1, <1>2, <2>1, TimesCompare DEF IInv, TypeOK, LaneShape, OneAtATime,
      OwnSync, ToldIsKnown, GateIsRead, FreshLane, FreshSync, GoneIsSealed, PutIsAlive,
      Handles, Peers, Target, Kept, Buried, Remembered, Writing
<1>3. CASE /\ Go(l, "check") /\ UNCHANGED seen
           /\ Target(l) \notin Kept
  <2>1. /\ lane' \in [Lane -> Work \cup {Idle}]
        /\ lane'[l] # Idle /\ lane'[l].rumor = lane[l].rumor
        /\ lane'[l].pc = "check" /\ lane'[l].found = lane[l].found
        /\ \A k \in Lane \ {l} : lane'[k] = lane[k]
    BY <1>1, <1>3, GoFacts DEF Step
  <2> QED
    BY <1>1, <1>3, <2>1, TimesCompare DEF IInv, TypeOK, LaneShape, OneAtATime,
      OwnSync, ToldIsKnown, GateIsRead, FreshLane, FreshSync, GoneIsSealed, PutIsAlive,
      Handles, Peers, Target, Kept, Buried, Remembered, Writing
<1> QED
  BY <1>2, <1>3 DEF Lookup

LEMMA LookupFailsStep ==
  ASSUME IInv, NEW l \in Lane, LookupFails(l)
  PROVE  IInv'
<1>1. /\ TypeOK /\ lane[l] # Idle /\ Target(l) \in Message \ Own
      /\ lane[l].rumor.kind = "message" /\ lane[l].pc = "lookup"
      /\ faults' \in Nat /\ history' \subseteq Message
      /\ unread' = unread \cup {Target(l)}
      /\ UNCHANGED <<row, tomb, sync, seen, clearing, settled, told, acked,
                     gone, old, restarts, deletes, cached, ungated>>
  BY LaneFacts DEF IInv, TypeOK, At, Target, LookupFails, Fault
<1>2. /\ lane' \in [Lane -> Work \cup {Idle}]
      /\ lane'[l] # Idle /\ lane'[l].rumor = lane[l].rumor
      /\ lane'[l].pc = "check" /\ lane'[l].found = lane[l].found
      /\ \A k \in Lane \ {l} : lane'[k] = lane[k]
  BY <1>1, GoFacts DEF Step, LookupFails
<1> QED
  BY <1>1, <1>2, TimesCompare DEF IInv, TypeOK, LaneShape, OneAtATime,
    OwnSync, ToldIsKnown, GateIsRead, FreshLane, FreshSync, GoneIsSealed,
    PutIsAlive, Handles, Peers, Target, Kept, Buried, Remembered, Writing

LEMMA HandlerFailsStep ==
  ASSUME IInv, NEW l \in Lane, HandlerFails(l)
  PROVE  IInv'
<1>1. /\ TypeOK /\ lane[l] # Idle /\ Target(l) \in Message /\ faults' \in Nat
      /\ Done(l)
      /\ UNCHANGED <<row, tomb, sync, history, seen, clearing, settled, told,
                     acked, gone, old, restarts, deletes,
                     cached, ungated, unread>>
  BY LaneFacts DEF IInv, TypeOK, At, Target, promised, doubts, HandlerFails,
    Fault
<1>2. /\ lane' \in [Lane -> Work \cup {Idle}]
      /\ lane'[l] = Idle
      /\ \A k \in Lane \ {l} : lane'[k] = lane[k]
  BY <1>1, DoneFacts
<1> QED
  BY <1>1, <1>2, TimesCompare DEF IInv, TypeOK, LaneShape, OneAtATime,
    OwnSync, ToldIsKnown, GateIsRead, FreshLane, FreshSync, GoneIsSealed,
    PutIsAlive, Handles, Peers, Target, Kept, Buried, Remembered, Writing

LEMMA CheckTombstoneStep ==
  ASSUME IInv, NEW l \in Lane, CheckTombstone(l)
  PROVE  IInv'
<1>1. /\ TypeOK /\ lane[l] # Idle /\ Target(l) \in Message
      /\ lane[l].pc = "check"
      /\ cached' = TRUE
      /\ UNCHANGED <<row, tomb, sync, history, seen, clearing, told, acked,
                     gone, old, faults, restarts, deletes,
                     ungated, unread>>
  BY LaneFacts DEF IInv, At, Target, promised, doubts, counters, CheckTombstone
<1>2. CASE Done(l) /\ UNCHANGED settled
  <2>1. /\ lane' \in [Lane -> Work \cup {Idle}]
        /\ lane'[l] = Idle
        /\ \A k \in Lane \ {l} : lane'[k] = lane[k]
    BY <1>1, <1>2, DoneFacts
  <2> QED
    BY <1>1, <1>2, <2>1, TimesCompare DEF IInv, TypeOK, LaneShape, OneAtATime,
      OwnSync, ToldIsKnown, GateIsRead, FreshLane, FreshSync, GoneIsSealed, PutIsAlive,
      Handles, Peers, Target, Kept, Buried, Remembered, Writing
<1>3. CASE /\ Go(l, "put") /\ UNCHANGED settled
           /\ ~Buried(Target(l))
  <2>1. /\ lane' \in [Lane -> Work \cup {Idle}]
        /\ lane'[l] # Idle /\ lane'[l].rumor = lane[l].rumor
        /\ lane'[l].pc = "put" /\ lane'[l].found = lane[l].found
        /\ \A k \in Lane \ {l} : lane'[k] = lane[k]
    BY <1>1, <1>3, GoFacts DEF Step
  <2> QED
    BY <1>1, <1>3, <2>1, TimesCompare DEF IInv, TypeOK, LaneShape, OneAtATime,
      OwnSync, ToldIsKnown, GateIsRead, FreshLane, FreshSync, GoneIsSealed, PutIsAlive,
      Handles, Peers, Target, Kept, Buried, Remembered, Writing
<1>4. CASE /\ Go(l, "finish") /\ lane[l].rumor.kind = "message"
           /\ settled' = settled \cup {Target(l)}
  <2>1. /\ lane' \in [Lane -> Work \cup {Idle}]
        /\ lane'[l] # Idle /\ lane'[l].rumor = lane[l].rumor
        /\ lane'[l].pc = "finish" /\ lane'[l].found = lane[l].found
        /\ \A k \in Lane \ {l} : lane'[k] = lane[k]
    BY <1>1, <1>4, GoFacts DEF Step
  <2> QED
    BY <1>1, <1>4, <2>1, TimesCompare DEF IInv, TypeOK, LaneShape, OneAtATime,
      OwnSync, ToldIsKnown, GateIsRead, FreshLane, FreshSync, GoneIsSealed, PutIsAlive,
      Handles, Peers, Target, Kept, Buried, Remembered, Writing
<1> QED
  BY <1>1, <1>2, <1>3, <1>4, LaneFacts DEF CheckTombstone, IInv, LaneShape

LEMMA SaveFailsStep ==
  ASSUME IInv, NEW l \in Lane, SaveFails(l)
  PROVE  IInv'
<1>1. /\ TypeOK /\ lane[l] # Idle /\ Target(l) \in Message
      /\ lane[l].pc \in {"check", "put"} /\ faults' \in Nat
      /\ UNCHANGED <<row, tomb, sync, history, seen, clearing, told, acked,
                     gone, old, restarts, deletes,
                     cached, ungated, unread>>
  BY LaneFacts DEF IInv, TypeOK, At, Target, promised, doubts, counters, SaveFails,
    Fault
<1>2. CASE Done(l) /\ UNCHANGED settled
  <2>1. /\ lane' \in [Lane -> Work \cup {Idle}]
        /\ lane'[l] = Idle
        /\ \A k \in Lane \ {l} : lane'[k] = lane[k]
    BY <1>1, <1>2, DoneFacts
  <2> QED
    BY <1>1, <1>2, <2>1, TimesCompare DEF IInv, TypeOK, LaneShape, OneAtATime,
      OwnSync, ToldIsKnown, GateIsRead, FreshLane, FreshSync, GoneIsSealed, PutIsAlive,
      Handles, Peers, Target, Kept, Buried, Remembered, Writing
<1>3. CASE /\ Go(l, "finish") /\ lane[l].rumor.kind = "message"
           /\ settled' = settled \cup {Target(l)}
  <2>1. /\ lane' \in [Lane -> Work \cup {Idle}]
        /\ lane'[l] # Idle /\ lane'[l].rumor = lane[l].rumor
        /\ lane'[l].pc = "finish" /\ lane'[l].found = lane[l].found
        /\ \A k \in Lane \ {l} : lane'[k] = lane[k]
    BY <1>1, <1>3, GoFacts DEF Step
  <2> QED
    BY <1>1, <1>3, <2>1, TimesCompare DEF IInv, TypeOK, LaneShape, OneAtATime,
      OwnSync, ToldIsKnown, GateIsRead, FreshLane, FreshSync, GoneIsSealed, PutIsAlive,
      Handles, Peers, Target, Kept, Buried, Remembered, Writing
<1> QED
  BY <1>1, <1>2, <1>3, LaneFacts DEF SaveFails, IInv, LaneShape

(* What is written is a row.                                               *)
LEMMA WrittenIsRow ==
  ASSUME TypeOK, NEW m \in Message, NEW incoming \in Row, Write(m, incoming)
  PROVE  /\ row' \in [Message -> Row \cup {NoRow}]
         /\ row'[m] # NoRow
         /\ \A n \in Message \ {m} : row'[n] = row[n]
         /\ incoming.text # 0 => row'[m].text # 0
         /\ seen' = seen \cup {m}
         /\ settled' = settled \cup {m}
<1>1. Merge(row[m], incoming) \in Row
  BY DEF Merge, TypeOK, Row
<1>2. Merge(row[m], incoming).text = incoming.text
  BY DEF Merge, Row
<1> QED
  BY <1>1, <1>2, ConstantsAssumption DEF Write, TypeOK

LEMMA IncomingIsRow ==
  ASSUME TypeOK, NEW l \in Lane, lane[l] # Idle
  PROVE  Incoming(l) \in Row
BY LaneFacts DEF Incoming, Row, Original

LEMMA PutStep ==
  ASSUME IInv, NEW l \in Lane, Put(l)
  PROVE  IInv'
<1>1. /\ TypeOK /\ lane[l] # Idle /\ Target(l) \in Message
      /\ lane[l].pc = "put"
      /\ row' \in [Message -> Row \cup {NoRow}] /\ row'[Target(l)] # NoRow
      /\ \A n \in Message \ {Target(l)} : row'[n] = row[n]
      /\ seen' = seen \cup {Target(l)} /\ settled' = settled \cup {Target(l)}
      /\ UNCHANGED <<tomb, sync, history, clearing, told, acked, gone, old,
                     faults, restarts, deletes,
                     cached, ungated, unread>>
  BY LaneFacts, WrittenIsRow, IncomingIsRow
    DEF IInv, At, Target, promised, doubts, counters, Put
<1>2. CASE Done(l)
  <2>1. /\ lane' \in [Lane -> Work \cup {Idle}]
        /\ lane'[l] = Idle
        /\ \A k \in Lane \ {l} : lane'[k] = lane[k]
    BY <1>1, <1>2, DoneFacts
  <2> QED
    BY <1>1, <1>2, <2>1, TimesCompare DEF IInv, TypeOK, LaneShape, OneAtATime,
      OwnSync, ToldIsKnown, GateIsRead, FreshLane, FreshSync, GoneIsSealed, PutIsAlive,
      Handles, Peers, Target, Kept, Buried, Remembered, Writing
<1>3. CASE Go(l, "finish") /\ lane[l].rumor.kind = "message"
  <2>1. /\ lane' \in [Lane -> Work \cup {Idle}]
        /\ lane'[l] # Idle /\ lane'[l].rumor = lane[l].rumor
        /\ lane'[l].pc = "finish" /\ lane'[l].found = lane[l].found
        /\ \A k \in Lane \ {l} : lane'[k] = lane[k]
    BY <1>1, <1>3, GoFacts DEF Step
  <2> QED
    BY <1>1, <1>3, <2>1, TimesCompare DEF IInv, TypeOK, LaneShape, OneAtATime,
      OwnSync, ToldIsKnown, GateIsRead, FreshLane, FreshSync, GoneIsSealed, PutIsAlive,
      Handles, Peers, Target, Kept, Buried, Remembered, Writing
<1> QED
  BY <1>1, <1>2, <1>3, LaneFacts DEF Put, IInv, LaneShape

LEMMA FinishStep ==
  ASSUME IInv, NEW l \in Lane, Finish(l)
  PROVE  IInv'
<1>1. /\ TypeOK /\ lane[l] # Idle /\ Target(l) \in Message
      /\ lane[l].rumor.kind = "message" /\ lane[l].pc = "finish"
      /\ UNCHANGED <<row, tomb, history, seen, clearing, settled, told, gone,
                     old, faults, restarts, deletes,
                     cached, ungated, unread>>
  BY LaneFacts DEF IInv, At, Target, promised, doubts, counters, Finish
<1>2. CASE /\ Done(l) /\ Target(l) \in Own /\ UNCHANGED acked
           /\ sync' = [sync EXCEPT ![Target(l)] = "tell"]
  <2>1. /\ lane' \in [Lane -> Work \cup {Idle}]
        /\ lane'[l] = Idle
        /\ \A k \in Lane \ {l} : lane'[k] = lane[k]
    BY <1>1, <1>2, DoneFacts
  <2> QED
    BY <1>1, <1>2, <2>1, TimesCompare DEF IInv, TypeOK, LaneShape, OneAtATime,
      OwnSync, ToldIsKnown, GateIsRead, FreshLane, FreshSync, GoneIsSealed, PutIsAlive,
      Handles, Peers, Target, Kept, Buried, Remembered, Writing
<1>3. CASE /\ Done(l) /\ Target(l) \notin Own
           /\ acked' = acked \cup {Target(l)}
           /\ sync' = [sync EXCEPT ![Target(l)] = "check"]
  <2>1. /\ lane' \in [Lane -> Work \cup {Idle}]
        /\ lane'[l] = Idle
        /\ \A k \in Lane \ {l} : lane'[k] = lane[k]
    BY <1>1, <1>3, DoneFacts
  <2> QED
    BY <1>1, <1>3, <2>1, TimesCompare DEF IInv, TypeOK, LaneShape, OneAtATime,
      OwnSync, ToldIsKnown, GateIsRead, FreshLane, FreshSync, GoneIsSealed, PutIsAlive,
      Handles, Peers, Target, Kept, Buried, Remembered, Writing
<1> QED
  BY <1>2, <1>3 DEF Finish

LEMMA HandleDeleteStep ==
  ASSUME IInv, NEW l \in Lane, HandleDelete(l)
  PROVE  IInv'
<1>1. /\ TypeOK /\ lane[l] # Idle /\ Target(l) \in Message
      /\ lane[l].rumor.kind = "delete" /\ lane[l].pc = "start"
      /\ row' = [row EXCEPT ![Target(l)] = NoRow]
      /\ old' = old \ {Target(l)}
      /\ gone' \in {gone, gone \cup {Target(l)}}
      /\ Target(l) \in gone' \ gone => /\ Remembered(Target(l))
                                       /\ ~Writing(Target(l))
      /\ Done(l)
      /\ UNCHANGED <<tomb, sync, history, seen, clearing, settled, told, acked,
                     faults, restarts, deletes,
                     cached, ungated, unread>>
  BY LaneFacts DEF IInv, At, Target, promised, doubts, counters, HandleDelete
<1>2. CASE Done(l)
  <2>1. /\ lane' \in [Lane -> Work \cup {Idle}]
        /\ lane'[l] = Idle
        /\ \A k \in Lane \ {l} : lane'[k] = lane[k]
    BY <1>1, <1>2, DoneFacts
  <2> QED
    BY <1>1, <1>2, <2>1, TimesCompare DEF IInv, TypeOK, LaneShape, OneAtATime,
      OwnSync, ToldIsKnown, GateIsRead, FreshLane, FreshSync, GoneIsSealed, PutIsAlive,
      Handles, Peers, Target, Kept, Buried, Remembered, Writing
<1> QED
  BY <1>1, <1>2

LEMMA DeliverStep ==
  ASSUME IInv, NEW l \in Lane, NEW r \in Rumor, Deliver(l, r)
  PROVE  IInv'
<1> DEFINE next == [rumor |-> r, pc |-> "start", found |-> Original]
<1>1. /\ TypeOK /\ lane[l] = Idle
      /\ \A k \in Lane : lane[k] # Idle => lane[k].rumor # r
      /\ r.kind = "message" => sync[r.of] = "none"
      /\ lane' = [lane EXCEPT ![l] = next]
      /\ UNCHANGED <<row, tomb, sync, history, seen, clearing, settled, told,
                     acked, gone, old, faults, restarts, deletes,
                     cached, ungated, unread>>
  BY DEF IInv, Deliver, promised, doubts, counters
<1>2. next \in Work
  BY DEF Work, Step, Row, Original
<1>3. /\ lane' \in [Lane -> Work \cup {Idle}]
      /\ lane'[l] # Idle /\ lane'[l].rumor = r /\ lane'[l].pc = "start"
      /\ \A k \in Lane \ {l} : lane'[k] = lane[k]
  BY <1>1, <1>2, ConstantsAssumption DEF TypeOK
<1> HIDE DEF next
<1>4. \A k \in Lane, m \in Message :
        Handles(k, m) /\ r.kind = "message" /\ r.of = m => FALSE
  <2>1. \A x \in Rumor : x.kind = "message" =>
          x = [kind |-> "message", of |-> x.of]
    BY DEF Rumor
  <2>2. \A k \in Lane : lane[k] # Idle => lane[k].rumor \in Rumor
    BY <1>1, LaneFacts DEF Work
  <2> QED
    BY <1>1, <2>1, <2>2 DEF Handles
<1> QED
  BY <1>1, <1>3, <1>4, TimesCompare DEF IInv, TypeOK, LaneShape, OneAtATime,
    OwnSync, ToldIsKnown, GateIsRead, FreshLane, FreshSync, GoneIsSealed, PutIsAlive,
    Handles, Peers, Target, Kept, Buried, Remembered, Writing, Rumor

LEMMA SyncCheckStep ==
  ASSUME IInv, NEW m \in Message, SyncCheck(m)
  PROVE  IInv'
<1>1. /\ TypeOK
      /\ sync[m] = "check" /\ UNCHANGED lane
      /\ sync' = [sync EXCEPT ![m] = IF Buried(m) THEN "tell" ELSE "put"]
      /\ cached' = TRUE
      /\ UNCHANGED <<row, tomb, history, seen, clearing, settled, told, acked,
                     gone, old, faults, restarts, deletes,
                     ungated, unread>>
  BY TimesCompare, ConstantsAssumption DEF IInv, TypeOK, promised, doubts, counters,
    memory, SyncCheck
<1> QED
  BY <1>1, TimesCompare DEF IInv, TypeOK, LaneShape, OneAtATime, OwnSync,
    ToldIsKnown, GateIsRead, FreshLane, FreshSync, GoneIsSealed, PutIsAlive, Handles,
    Peers, Target, Kept, Buried, Remembered, Writing

LEMMA OriginalIsRow == Original \in Row
BY DEF Original, Row

LEMMA SyncPutStep ==
  ASSUME IInv, NEW m \in Message, SyncPut(m)
  PROVE  IInv'
<1>1. /\ TypeOK
      /\ sync[m] = "put" /\ sync' = [sync EXCEPT ![m] = "tell"]
      /\ row' \in [Message -> Row \cup {NoRow}] /\ row'[m] # NoRow
      /\ \A n \in Message \ {m} : row'[n] = row[n]
      /\ seen' = seen \cup {m} /\ settled' = settled \cup {m}
      /\ UNCHANGED lane
      /\ UNCHANGED <<tomb, history, clearing, told, acked, gone, old, faults,
                     restarts, deletes,
                     cached, ungated, unread>>
  BY WrittenIsRow, OriginalIsRow, ConstantsAssumption
    DEF IInv, TypeOK, promised, doubts, counters,
    memory, SyncPut
<1> QED
  BY <1>1, TimesCompare DEF IInv, TypeOK, LaneShape, OneAtATime, OwnSync,
    ToldIsKnown, GateIsRead, FreshLane, FreshSync, GoneIsSealed, PutIsAlive, Handles,
    Peers, Target, Kept, Buried, Remembered, Writing

LEMMA SyncFailsStep ==
  ASSUME IInv, NEW m \in Message, SyncFails(m)
  PROVE  IInv'
<1>1. /\ TypeOK
      /\ sync[m] # "none"
      /\ sync' = [sync EXCEPT ![m] = "none"] /\ UNCHANGED lane
      /\ faults' \in Nat
      /\ unread' = unread \ {m}
      /\ UNCHANGED <<row, tomb, history, seen, clearing, settled, told, acked,
                     gone, old, restarts, deletes,
                     cached, ungated>>
  BY TimesCompare, ConstantsAssumption DEF IInv, TypeOK, promised, doubts, counters,
    memory, SyncFails, Fault
<1>2. TypeOK' /\ LaneShape' /\ OwnSync' /\ ToldIsKnown' /\ GateIsRead'
  BY <1>1, TimesCompare DEF IInv, TypeOK, LaneShape, OwnSync, ToldIsKnown,
    GateIsRead, Peers, Buried
<1>3. OneAtATime' /\ PutIsAlive' /\ (old \subseteq Kept)'
  BY <1>1 DEF IInv, TypeOK, OneAtATime, PutIsAlive, Handles, Target, Kept
<1>4. \A l \in Lane : ~Handles(l, m)
  BY <1>1 DEF IInv, OneAtATime
<1>5. FreshLane' /\ FreshSync'
  BY <1>1, <1>4 DEF IInv, TypeOK, FreshLane, FreshSync, Handles, Peers
<1>6. GoneIsSealed'
  BY <1>1 DEF IInv, TypeOK, GoneIsSealed, Buried, Remembered, Writing, Target
<1> QED
  BY <1>2, <1>3, <1>5, <1>6 DEF IInv

LEMMA SyncTellStep ==
  ASSUME IInv, NEW m \in Message, SyncTell(m)
  PROVE  IInv'
<1>1. /\ TypeOK
      /\ sync[m] = "tell" /\ sync' = [sync EXCEPT ![m] = "none"]
      /\ told' = told \cup {m} /\ UNCHANGED lane
      /\ unread' = unread \ {m} /\ ungated' = ungated \ {m}
      /\ UNCHANGED <<row, tomb, history, seen, clearing, settled, acked, gone,
                     old, faults, restarts, deletes,
                     cached>>
  BY TimesCompare, ConstantsAssumption DEF IInv, TypeOK, promised, doubts, counters,
    memory, SyncTell
<1>2. TypeOK' /\ LaneShape' /\ OwnSync' /\ ToldIsKnown' /\ GateIsRead'
  BY <1>1, TimesCompare DEF IInv, TypeOK, LaneShape, OwnSync, ToldIsKnown,
    GateIsRead, Peers, Buried
<1>3. OneAtATime' /\ PutIsAlive' /\ (old \subseteq Kept)'
  BY <1>1 DEF IInv, TypeOK, OneAtATime, PutIsAlive, Handles, Target, Kept
<1>4. \A l \in Lane : ~Handles(l, m)
  BY <1>1 DEF IInv, OneAtATime
<1>5. FreshLane' /\ FreshSync'
  BY <1>1, <1>4 DEF IInv, TypeOK, FreshLane, FreshSync, Handles, Peers
<1>6. ASSUME m \in gone
      PROVE  ~Writing(m)'
  <2>1. sync'[m] = "none"
    BY <1>1 DEF TypeOK
  <2>2. \A l \in Lane : lane[l] # Idle /\ Target(l) = m => lane[l].pc = "start"
    <3>1. ASSUME NEW l \in Lane, lane[l] # Idle, Target(l) = m
          PROVE  lane[l].rumor.kind \in {"edit", "delete"}
      BY <1>1, <1>4, <3>1, LaneFacts DEF Handles, Target
    <3> QED
      BY <1>6, <3>1 DEF IInv, LaneShape, PutIsAlive
  <2> QED
    BY <1>1, <2>1, <2>2 DEF Writing, Target
<1>7. GoneIsSealed'
  BY <1>1, <1>6 DEF IInv, TypeOK, GoneIsSealed, Buried, Remembered, Writing,
    Target
<1> QED
  BY <1>2, <1>3, <1>5, <1>7 DEF IInv

LEMMA DeleteRowsStep ==
  ASSUME IInv, DeleteRows
  PROVE  IInv'
<1>1. /\ TypeOK
      /\ row' = [m \in Message |-> NoRow] /\ old' = {} /\ UNCHANGED lane
      /\ gone' = gone \cup {m \in Kept : Remembered(m) /\ ~Writing(m)}
      /\ clearing' = "tomb" /\ deletes' \in Nat
      /\ UNCHANGED <<tomb, sync, history, seen, settled, told, acked, faults,
                     restarts,
                     cached, ungated, unread>>
  BY TimesCompare, ConstantsAssumption DEF IInv, TypeOK, promised, doubts, counters,
    memory, DeleteRows
<1> QED
  BY <1>1, TimesCompare DEF IInv, TypeOK, LaneShape, OneAtATime, OwnSync,
    ToldIsKnown, GateIsRead, FreshLane, FreshSync, GoneIsSealed, PutIsAlive, Handles,
    Peers, Target, Kept, Buried, Remembered, Writing

LEMMA SetTombstoneStep ==
  ASSUME IInv, SetTombstone
  PROVE  IInv'
<1>1. /\ TypeOK
      /\ tomb' \in Nat /\ tomb <= tomb' /\ clearing' = "forget"
      /\ gone' = gone \cup {m \in Message \ Kept :
                              SentAt[m] <= tomb' /\ ~Writing(m)}
      /\ UNCHANGED lane
      /\ cached' = TRUE
      /\ UNCHANGED <<row, sync, history, seen, settled, told, acked, old,
                     faults, restarts, deletes,
                     ungated, unread>>
  BY TimesCompare, ConstantsAssumption DEF IInv, TypeOK, promised, doubts, counters,
    memory, SetTombstone
<1> QED
  BY <1>1, TimesCompare DEF IInv, TypeOK, LaneShape, OneAtATime, OwnSync,
    ToldIsKnown, GateIsRead, FreshLane, FreshSync, GoneIsSealed, PutIsAlive, Handles,
    Peers, Target, Kept, Buried, Remembered, Writing

(* A deletion whose step fails changes nothing of what is promised.        *)
LEMMA ClearingFailsStep ==
  ASSUME IInv, DeleteRowsFail \/ SetTombstoneFails
  PROVE  IInv'
<1>1. /\ clearing' \in {"tomb", "forget"} /\ faults' \in Nat
      /\ deletes' \in Nat
      /\ UNCHANGED <<row, tomb, lane, sync, history, seen, cached, settled, told,
                     acked, gone, old, ungated, unread, restarts>>
  BY DEF IInv, TypeOK, DeleteRowsFail, SetTombstoneFails, Fault, promised,
    doubts
<1>2. TypeOK'
  BY <1>1 DEF IInv, TypeOK
<1> QED
  BY <1>1, <1>2 DEF IInv, LaneShape, OneAtATime, OwnSync, ToldIsKnown,
    GateIsRead, FreshLane, FreshSync, GoneIsSealed, PutIsAlive, Handles, Target,
    Kept, Buried, Remembered, Writing

LEMMA ForgetHistoryStep ==
  ASSUME IInv, ForgetHistory
  PROVE  IInv'
<1>1. /\ TypeOK
      /\ clearing' = "no" /\ history' = {} /\ told' = {} /\ UNCHANGED lane
      /\ UNCHANGED <<row, tomb, sync, seen, settled, acked, gone, old, faults,
                     restarts, deletes,
                     cached, ungated, unread>>
  BY TimesCompare, ConstantsAssumption DEF IInv, TypeOK, promised, doubts, counters,
    memory, ForgetHistory
<1> QED
  BY <1>1, TimesCompare DEF IInv, TypeOK, LaneShape, OneAtATime, OwnSync,
    ToldIsKnown, GateIsRead, FreshLane, FreshSync, GoneIsSealed, PutIsAlive, Handles,
    Peers, Target, Kept, Buried, Remembered, Writing

LEMMA RestartStep ==
  ASSUME IInv, Restart
  PROVE  IInv'
<1>1. /\ TypeOK
      /\ lane' = [l \in Lane |-> Idle] /\ sync' = [m \in Message |-> "none"]
      /\ history' = {} /\ seen' = {} /\ clearing' = "no" /\ told' = {}
      /\ old' = Kept /\ gone' = {m \in gone : Buried(m)}
      /\ restarts' \in Nat
      /\ cached' = FALSE /\ ungated' = {} /\ unread' = {}
      /\ UNCHANGED <<row, tomb, settled, acked, faults, deletes>>
  BY DEF IInv, TypeOK, promised, doubts, counters,
    memory, Restart
<1>2. TypeOK'
  BY <1>1 DEF TypeOK, Kept
<1>3. OneAtATime' /\ LaneShape' /\ FreshLane' /\ PutIsAlive'
  BY <1>1 DEF OneAtATime, LaneShape, FreshLane, PutIsAlive, Handles
<1>4. (old \subseteq Kept)'
  BY <1>1 DEF Kept
<1>5. OwnSync' /\ ToldIsKnown' /\ GateIsRead' /\ FreshSync'
  BY <1>1, ConstantsAssumption DEF OwnSync, ToldIsKnown, GateIsRead, FreshSync,
    Peers
<1>6. GoneIsSealed'
  <2>1. \A m \in gone' : m \in gone /\ m \in Message /\ Buried(m)'
    BY <1>1 DEF TypeOK, Buried
  <2>2. \A m \in Message : ~Writing(m)'
    BY <1>1 DEF Writing
  <2> QED
    BY <1>1, <2>1, <2>2 DEF IInv, GoneIsSealed
<1> QED
  BY <1>2, <1>3, <1>4, <1>5, <1>6 DEF IInv

-----------------------------------------------------------------------------
(* IInv holds at the start, and every step keeps it.                       *)
LEMMA InitIInv == Init => IInv
<1> SUFFICES ASSUME Init
             PROVE  IInv
  OBVIOUS
<1>1. TypeOK
  BY ConstantsAssumption DEF Init, TypeOK
<1>2. LaneShape /\ OneAtATime /\ FreshLane /\ PutIsAlive
  BY DEF Init, LaneShape, OneAtATime, FreshLane, PutIsAlive, Handles
<1>3. OwnSync /\ ToldIsKnown /\ GateIsRead /\ FreshSync
  BY ConstantsAssumption DEF Init, OwnSync, ToldIsKnown, GateIsRead, FreshSync,
    Peers
<1> QED
  BY <1>1, <1>2, <1>3 DEF Init, IInv, GoneIsSealed, Kept

LEMMA NextIInv ==
  ASSUME IInv, [Next]_vars
  PROVE  IInv'
<1>1. CASE UNCHANGED vars
  BY <1>1 DEF vars, memory, promised, doubts, counters, IInv, TypeOK, LaneShape,
    OneAtATime, OwnSync, ToldIsKnown, GateIsRead, FreshLane, FreshSync, GoneIsSealed,
    PutIsAlive, Handles, Target, Kept, Buried, Remembered, Writing
<1>2. ASSUME NEW l \in Lane, NEW r \in Rumor, Deliver(l, r)
      PROVE  IInv'
  BY <1>2, DeliverStep
<1>3. ASSUME NEW l \in Lane, Handle(l)
      PROVE  IInv'
  BY <1>3, HandleDeleteStep, ReadOriginalStep, RefuseStep, GateStep,
    GateFailsStep, DedupStep, LookupStep, LookupFailsStep, HandlerFailsStep,
    CheckTombstoneStep, PutStep, SaveFailsStep, FinishStep
    DEF Handle
<1>4. ASSUME NEW m \in Message, SecondSave(m)
      PROVE  IInv'
  BY <1>4, SyncCheckStep, SyncPutStep, SyncFailsStep, SyncTellStep
    DEF SecondSave
<1> QED
  BY <1>1, <1>2, <1>3, <1>4, DeleteRowsStep, SetTombstoneStep,
    ClearingFailsStep, ForgetHistoryStep, RestartStep DEF Next

LEMMA IInvHolds == Spec => []IInv
BY InitIInv, NextIInv, PTL DEF Spec

-----------------------------------------------------------------------------
(* Every variable of the receiving device has its type.                    *)
THEOREM ReceiveTypeOK == Spec => []TypeOK
<1>1. IInv => TypeOK
  BY DEF IInv
<1> QED
  BY <1>1, IInvHolds, PTL

(* A message deleted for good stays off the disk: the store or the         *)
(* watermark knows it and nothing that passed the checks is still at it.   *)
THEOREM GoneStaysGone == Spec => []GoneIsSealed
<1>1. IInv => GoneIsSealed
  BY DEF IInv
<1> QED
  BY <1>1, IInvHolds, PTL

(* phantomchat_new_message is dispatched once for a message, however often *)
(* and on however many lanes the relays replay it.                         *)
THEOREM AnnouncedOnce == Spec => ToldOnce
<1>1. ASSUME IInv, NEW m \in Message \ Own, SyncTell(m)
      PROVE  m \notin told \cup (old \ unread)
  BY <1>1 DEF IInv, FreshSync, Peers, SyncTell
<1>2. IInv /\ [Next]_vars =>
        [\A m \in Message \ Own :
           SyncTell(m) => m \notin told \cup (old \ unread)]_vars
  BY <1>1
<1> QED
  BY <1>2, IInvHolds, PTL DEF Spec, ToldOnce

(* The text of an edit outlives replays of the message and second saves.   *)
THEOREM EditIsKept == Spec => EditSticks
<1>1. ASSUME IInv, [Next]_vars, NEW m \in Message \ Own,
             m \in told \cup (old \ unread), Edited(m), row'[m] # NoRow
      PROVE  Edited(m)'
  <2>1. ASSUME NEW l \in Lane, Put(l)
        PROVE  Edited(m)'
    <3>1. /\ TypeOK /\ lane[l] # Idle /\ lane[l].pc = "put"
          /\ Write(Target(l), Incoming(l)) /\ Target(l) \in Message
      BY <2>1, <1>1, LaneFacts DEF IInv, Put, Target
    <3>2. CASE Target(l) # m
      BY <1>1, <3>1, <3>2, WrittenIsRow, IncomingIsRow DEF Edited
    <3>3. CASE Target(l) = m
      <4>1. lane[l].rumor.kind = "edit"
        BY <1>1, <3>1, <3>3, LaneFacts
          DEF IInv, FreshLane, LaneShape, Handles, Peers, Target
      <4>2. Incoming(l).text # 0
        BY <3>1, <4>1, LaneFacts, ConstantsAssumption DEF Incoming, Row
      <4> QED
        BY <1>1, <3>1, <3>3, <4>2, WrittenIsRow, IncomingIsRow DEF Edited
    <3> QED
      BY <3>2, <3>3
  <2>2. ASSUME NEW n \in Message, SyncPut(n)
        PROVE  Edited(m)'
    <3>1. n # m /\ TypeOK /\ Write(n, Original)
      BY <1>1, <2>2 DEF SyncPut, IInv, FreshSync, Peers
    <3> QED
      BY <1>1, <3>1, WrittenIsRow, OriginalIsRow DEF Edited
  <2>3. CASE UNCHANGED row
    BY <1>1, <2>3 DEF Edited
  <2>4. ASSUME NEW l \in Lane, HandleDelete(l)
        PROVE  Edited(m)'
    BY <1>1, <2>4, LaneFacts
      DEF HandleDelete, At, Target, Edited, IInv, TypeOK
  <2>5. ASSUME DeleteRows
        PROVE  Edited(m)'
    BY <1>1, <2>5 DEF DeleteRows
  <2>6. CASE Next
    BY <2>1, <2>2, <2>3, <2>4, <2>5, <2>6 DEF Next, Handle, SecondSave, Deliver,
      ReadOriginal, Refuse, Gate, GateFails, Dedup, Lookup, LookupFails,
      HandlerFails, CheckTombstone, SaveFails, Finish, SyncCheck, SyncFails,
      SyncTell, DeleteRowsFail, SetTombstone, SetTombstoneFails, ForgetHistory,
      Restart
  <2> QED
    BY <1>1, <2>3, <2>6 DEF vars
<1>2. IInv /\ [Next]_vars =>
        [\A m \in (told \cup (old \ unread)) \ Own :
           Edited(m) /\ row'[m] # NoRow => Edited(m)']_vars
  <2>1. IInv => told \subseteq Message /\ old \subseteq Message
    BY DEF IInv, TypeOK
  <2> QED
    BY <1>1, <2>1
<1> QED
  BY <1>2, IInvHolds, PTL DEF Spec, EditSticks

-----------------------------------------------------------------------------
(* Every step of the device is a step of Conversation, or none.            *)
LEMMA PromiseInit == Init => Promise!Init
BY DEF Init, Promise!Init, Kept

(* A write keeps a message that is not gone; of an own message, nothing is *)
(* promised.                                                               *)
LEMMA PromiseWrite ==
  ASSUME TypeOK, NEW m \in Message, NEW incoming \in Row, Write(m, incoming),
         m \notin gone, UNCHANGED <<told, acked, gone, ungated>>
  PROVE  [Promise!Next]_(Promise!vars)
<1>1. /\ Kept' = Kept \cup {m}
      /\ settled' = settled \cup {m}
  BY WrittenIsRow DEF Kept
<1>2. CASE m \in Own
  BY <1>1, <1>2 DEF Promise!vars
<1>3. CASE m \notin Own
  <2>1. Promise!Keep(m)
    BY <1>1, <1>3 DEF Promise!Keep
  <2> QED
    BY <1>3, <2>1 DEF Promise!Next
<1> QED
  BY <1>2, <1>3

(* A message that is settled without being written is given up.            *)
LEMMA PromiseGiveUp ==
  ASSUME NEW m \in Message, settled' = settled \cup {m},
         UNCHANGED <<row, told, acked, gone, ungated>>
  PROVE  [Promise!Next]_(Promise!vars)
<1>1. Kept' = Kept
  BY DEF Kept
<1>2. CASE m \in Own
  BY <1>1, <1>2 DEF Promise!vars
<1>3. CASE m \notin Own
  <2>1. Promise!GiveUp(m)
    BY <1>1, <1>3 DEF Promise!GiveUp
  <2> QED
    BY <1>3, <2>1 DEF Promise!Next
<1> QED
  BY <1>2, <1>3

LEMMA PromiseStutter ==
  ASSUME UNCHANGED <<row, settled, told, acked, gone, ungated>>
  PROVE  UNCHANGED Promise!vars
BY DEF Promise!vars, Kept

(* Rows are removed, and some messages are gone for good.                  *)
LEMMA PromiseDelete ==
  ASSUME TypeOK, NEW S \in SUBSET Message, NEW F \in SUBSET Message,
         Kept' = Kept \ S, gone' = gone \cup F, F \cap Kept' = {},
         UNCHANGED <<settled, told, acked, ungated>>
  PROVE  [Promise!Next]_(Promise!vars)
<1>1. Promise!Delete(S \ Own, F \ Own)
  BY DEF Promise!Delete
<1> QED
  BY <1>1 DEF Promise!Next

LEMMA PromiseNext ==
  ASSUME IInv, [Next]_vars
  PROVE  [Promise!Next]_(Promise!vars)
<1>1. TypeOK
  BY DEF IInv
<1>2. CASE UNCHANGED vars
  BY <1>2, PromiseStutter DEF vars, promised, doubts
<1>3. ASSUME NEW l \in Lane, NEW r \in Rumor, Deliver(l, r)
      PROVE  [Promise!Next]_(Promise!vars)
  BY <1>3, PromiseStutter DEF Deliver, promised, doubts
<1>4. ASSUME NEW l \in Lane,
             \/ ReadOriginal(l) \/ Refuse(l) \/ Gate(l) \/ Dedup(l)
             \/ Lookup(l) \/ LookupFails(l) \/ HandlerFails(l)
      PROVE  [Promise!Next]_(Promise!vars)
  BY <1>4, PromiseStutter
    DEF ReadOriginal, Refuse, Gate, Dedup, Lookup, LookupFails, HandlerFails,
      promised, doubts
<1>5. ASSUME NEW l \in Lane, CheckTombstone(l) \/ SaveFails(l)
      PROVE  [Promise!Next]_(Promise!vars)
  <2>1. Target(l) \in Message
    BY <1>1, <1>5, LaneFacts DEF CheckTombstone, SaveFails, Target
  <2>2. UNCHANGED settled \/ settled' = settled \cup {Target(l)}
    BY <1>5 DEF CheckTombstone, SaveFails
  <2>3. UNCHANGED <<row, told, acked, gone, ungated>>
    BY <1>5 DEF CheckTombstone, SaveFails, doubts
  <2> QED
    BY <2>1, <2>2, <2>3, PromiseGiveUp, PromiseStutter
<1>6. ASSUME NEW l \in Lane, Put(l)
      PROVE  [Promise!Next]_(Promise!vars)
  <2>1. /\ Target(l) \in Message /\ Target(l) \notin gone
        /\ Incoming(l) \in Row /\ Write(Target(l), Incoming(l))
        /\ UNCHANGED <<told, acked, gone, ungated>>
    BY <1>1, <1>6, LaneFacts, IncomingIsRow
      DEF Put, IInv, PutIsAlive, Target, doubts
  <2> QED
    BY <1>1, <2>1, PromiseWrite
<1>7. ASSUME NEW l \in Lane, Finish(l)
      PROVE  [Promise!Next]_(Promise!vars)
  <2>1. /\ Handles(l, Target(l)) /\ lane[l].pc = "finish"
        /\ Target(l) \in Message
        /\ UNCHANGED <<row, settled, told, gone, ungated>>
    BY <1>1, <1>7, LaneFacts DEF Finish, At, Target, Handles, doubts
  <2>2. CASE Target(l) \in Own
    BY <1>7, <2>1, <2>2, PromiseStutter DEF Finish
  <2>3. CASE Target(l) \notin Own
    <3>1. Target(l) \in settled
      BY <2>1, <2>3 DEF IInv, FreshLane, Peers
    <3>2. Promise!Acknowledge(Target(l))
      BY <1>7, <2>1, <2>3, <3>1 DEF Finish, Promise!Acknowledge, Kept
    <3> QED
      BY <2>1, <2>3, <3>2 DEF Promise!Next
  <2> QED
    BY <2>2, <2>3
<1>8. ASSUME NEW l \in Lane, HandleDelete(l)
      PROVE  [Promise!Next]_(Promise!vars)
  <2>1. /\ Target(l) \in Message /\ UNCHANGED <<settled, told, acked, ungated>>
        /\ row' = [row EXCEPT ![Target(l)] = NoRow]
        /\ gone' \in {gone, gone \cup {Target(l)}}
    BY <1>1, <1>8, LaneFacts DEF HandleDelete, At, Target, doubts
  <2>2. Kept' = Kept \ {Target(l)}
    BY <1>1, <2>1 DEF Kept, TypeOK
  <2>3. CASE gone' = gone
    <3>1. /\ gone' = gone \cup {} /\ {} \cap Kept' = {}
          /\ {Target(l)} \in SUBSET Message /\ {} \in SUBSET Message
      BY <2>1, <2>3
    <3> QED
      BY <1>1, <2>1, <2>2, <3>1, PromiseDelete
  <2>4. CASE gone' = gone \cup {Target(l)}
    BY <1>1, <2>1, <2>2, <2>4, PromiseDelete
  <2> QED
    BY <2>1, <2>3, <2>4
<1>9. ASSUME NEW m \in Message, SecondSave(m)
      PROVE  [Promise!Next]_(Promise!vars)
  <2>1. CASE SyncCheck(m) \/ SyncFails(m)
    BY <2>1, PromiseStutter DEF SyncCheck, SyncFails, promised, doubts
  <2>2. CASE SyncPut(m)
    <3>1. /\ m \notin gone /\ Write(m, Original)
          /\ UNCHANGED <<told, acked, gone, ungated>>
      BY <2>2 DEF SyncPut, IInv, PutIsAlive, doubts
    <3> QED
      BY <1>1, <3>1, PromiseWrite, OriginalIsRow
  <2>3. CASE SyncTell(m)
    <3>1. /\ sync[m] = "tell" /\ told' = told \cup {m}
          /\ ungated' = ungated \ {m}
          /\ UNCHANGED <<row, settled, acked, gone>>
      BY <2>3 DEF SyncTell
    <3>2. CASE m \in Own
      BY <1>1, <3>1, <3>2 DEF TypeOK, Promise!vars, Kept
    <3>3. CASE m \notin Own
      <4>1. m \in settled /\ (m \in gone => m \in ungated)
        BY <3>1, <3>3 DEF IInv, FreshSync, GoneIsSealed, Writing, Peers
      <4>2. Promise!Tell(m)
        BY <3>1, <3>3, <4>1 DEF Promise!Tell, Kept
      <4> QED
        BY <3>3, <4>2 DEF Promise!Next
    <3> QED
      BY <3>2, <3>3
  <2> QED
    BY <1>9, <2>1, <2>2, <2>3 DEF SecondSave
<1>10. CASE DeleteRows
  <2> DEFINE F == {m \in Kept : Remembered(m) /\ ~Writing(m)}
  <2>1. /\ Kept' = Kept \ Message /\ gone' = gone \cup F
        /\ F \in SUBSET Message /\ UNCHANGED <<settled, told, acked, ungated>>
    BY <1>10, ConstantsAssumption DEF DeleteRows, Kept, doubts
  <2> QED
    BY <1>1, <2>1, PromiseDelete
<1>11. CASE SetTombstone
  <2> DEFINE F == {m \in Message \ Kept : SentAt[m] <= tomb' /\ ~Writing(m)}
  <2>1. /\ Kept' = Kept \ {} /\ gone' = gone \cup F
        /\ F \in SUBSET Message /\ F \cap Kept' = {}
        /\ UNCHANGED <<settled, told, acked, ungated>>
    BY <1>11 DEF SetTombstone, Kept, doubts
  <2> QED
    BY <1>1, <2>1, PromiseDelete
<1>12. CASE ForgetHistory
  <2>1. Promise!Forget
    BY <1>12 DEF ForgetHistory, Promise!Forget, Kept, doubts
  <2> QED
    BY <2>1 DEF Promise!Next
<1>13. CASE Restart
  <2>1. Promise!Restart
    BY <1>13 DEF Restart, Promise!Restart, Kept
  <2> QED
    BY <2>1 DEF Promise!Next
<1>14. ASSUME NEW l \in Lane, GateFails(l)
       PROVE  [Promise!Next]_(Promise!vars)
  <2>1. /\ Target(l) \in Peers /\ ungated' = ungated \cup {Target(l)}
        /\ UNCHANGED <<row, settled, told, acked, gone>>
    BY <1>1, <1>14, LaneFacts DEF GateFails, At, Target, Peers
  <2>2. told \ Own = {}
    BY <1>1, <1>14 DEF IInv, GateIsRead, GateFails, TypeOK, Peers
  <2>3. Promise!Doubt(Target(l))
    BY <2>1, <2>2 DEF Promise!Doubt, Kept
  <2> QED
    BY <2>1, <2>3 DEF Promise!Next, Peers
<1>15. CASE DeleteRowsFail \/ SetTombstoneFails
  BY <1>15, PromiseStutter
    DEF DeleteRowsFail, SetTombstoneFails, promised, doubts
<1> QED
  BY <1>2, <1>3, <1>4, <1>5, <1>6, <1>7, <1>8, <1>9, <1>10, <1>11, <1>12,
    <1>13, <1>14, <1>15 DEF Next, Handle

(* The receiving device keeps the promise of Conversation to the peer: no  *)
(* receipt and no announcement of what is not settled, and what is gone    *)
(* stays gone.                                                             *)
THEOREM DeviceKeepsPromise == Spec => KeepsPromise
<1>1. Init => Promise!Init
  BY PromiseInit
<1>2. IInv /\ [Next]_vars => [Promise!Next]_(Promise!vars)
  BY PromiseNext
<1> QED
  BY <1>1, <1>2, IInvHolds, PTL DEF Spec, KeepsPromise, Promise!Spec
=============================================================================

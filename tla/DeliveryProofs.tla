--------------------------- MODULE DeliveryProofs ---------------------------
(***************************************************************************)
(* The ticks are true, for any messages, retries, losses and restarts.     *)
(*                                                                         *)
(* The properties speak of ticks and of what the peer settled.  What       *)
(* connects them is which rumor of a message is out at all, and where the  *)
(* send is while it is not.  IInv says it part by part:                    *)
(*                                                                         *)
(*   Tracking      the tracker: an armed timer is of its own id, which is  *)
(*                 sent and has a resend; the app id never has one         *)
(*   Stages        before a send ends, what it left behind                 *)
(*   Entries       a queued message: its rumor, and that no retry runs     *)
(*   OneRumor      of the two rumors of a message at most one is with the  *)
(*                 relays, in the queue or on the way of a direct attempt  *)
(*   Origins       copies, pending and settled rumors come from somewhere, *)
(*                 timers and receipts are of rumors that went out         *)
(*   Vouched       the word of the direct channel stands for a copy that   *)
(*                 the relays took or the queue has, or is about to get    *)
(*   Shows         the invariant about the second tick                     *)
(*   Ticks         which of the ids of a message may hold a tick that the  *)
(*                 next re-keying would overwrite                          *)
(***************************************************************************)
EXTENDS Delivery, SequenceFacts

TrackerOK(t) ==
  /\ t \in [tick : [Id -> Tick], resend : Seq(Id),
            timer : [Id -> Timer \cup {None}]]
  /\ Len(t.resend) <= MaxTracked
  /\ \A i \in Id : t.timer[i] # None =>
       /\ t.timer[i].of = i
       /\ t.tick[i] = "sent"
       /\ i \in ToSet(t.resend)
  /\ \A i \in Id : i \in ToSet(t.resend) => i[2] # "app"

Types ==
  /\ file \subseteq Message
  /\ stage \in [Message -> Stage]
  /\ channel \in [Message -> Channel]
  /\ entry \in [Message -> Entry \cup {None}]
  /\ copies \in [Rumor -> Nat]
  /\ receipts \subseteq Receipt
  /\ kept \subseteq settled /\ acked \subseteq settled /\ acking \subseteq settled
  /\ settled \subseteq Rumor /\ pending \subseteq Rumor /\ marked \subseteq Rumor
  /\ handed \subseteq Rumor /\ vouched \subseteq Message
  /\ restarts \in Nat

Stages ==
  \A m \in Message :
    /\ stage[m] \in {"new", "saved"} => channel[m] = "none"
    /\ stage[m] \in {"new", "saved", "direct", "backstop", "queue"} =>
         Live(m) \notin handed /\ Queued(m) \notin handed
    /\ stage[m] # "done" => entry[m] = None
    /\ stage[m] = "direct" => channel[m] \in {"frame", "ok"}
    /\ stage[m] = "backstop" => channel[m] = "over"
    /\ stage[m] = "queue" => channel[m] \in {"none", "over"}
    /\ stage[m] = "row" => Live(m) \in handed
    /\ channel[m] \in {"frame", "ok"} =>
         stage[m] = "direct" \/ Live(m) \in handed

EntryOK(m) ==
  entry[m] # None =>
    /\ entry[m].rumor \in {None, Live(m), Queued(m)}
    /\ entry[m].rumor = Live(m) => channel[m] # "none"
    /\ entry[m].app => /\ tracker.timer[Live(m)] = None
                       /\ tracker.timer[Queued(m)] = None
    /\ entry[m].app /\ m \notin early =>
         Live(m) \notin handed /\ Queued(m) \notin handed

Entries == \A m \in Message : EntryOK(m)

LiveOut(m) == channel[m] # "none" \/ Live(m) \in handed
QueuedOut(m) ==
  \/ Queued(m) \in handed
  \/ entry[m] # None /\ entry[m].rumor # Live(m)

OneRumor == \A m \in Message : ~ (LiveOut(m) /\ QueuedOut(m))

Begun(m) == stage[m] \notin {"new", "saved"}

Origins ==
  /\ \A r \in Rumor : copies[r] > 0 => r \in handed
  /\ \A m \in Message :
       /\ Live(m) \in pending \cup settled => Begun(m)
       /\ Queued(m) \in pending \cup settled => Queued(m) \in handed
  /\ \A i \in Id : tracker.timer[i] # None => i \in handed
  /\ \A x \in receipts : \E r \in settled : x.id = ReceiptId(r)

Vouched ==
  \A m \in vouched :
    \/ Live(m) \in handed
    \/ entry[m] # None /\ entry[m].rumor = Live(m)
    \/ stage[m] = "backstop"
    \/ m \in unbacked

High == {"sent", "delivered", "read"}
Answered == {"delivered", "read"}

Shows ==
  \A m \in Message : Shown(m, "delivered") => Settled(m) \/ m \in vouched

Waits(m) ==      \* for its first publish
  \/ stage[m] \in {"direct", "queue"}
  \/ entry[m] # None /\ entry[m].app /\ m \notin early

TicksOf(m) ==
  /\ stage[m] \in {"new", "saved"} =>
       \A i \in Id : i[1] = m => tracker.tick[i] \notin High
  /\ tracker.tick[Queued(m)] # "none" => Queued(m) \in handed
  /\ channel[m] # "none" /\ m \notin file => tracker.tick[App(m)] = "none"
  /\ m \in file /\ Waits(m) => tracker.tick[Live(m)] \notin High

Ticks == \A m \in Message : TicksOf(m)

Tracking == TrackerOK(tracker)

IInv ==
  /\ Tracking
  /\ Types
  /\ Stages
  /\ Entries
  /\ OneRumor
  /\ Origins
  /\ Vouched
  /\ Shows
  /\ Ticks

-----------------------------------------------------------------------------
(* The ids of a message.                                                   *)
LEMMA Ids ==
  ASSUME NEW m \in Message
  PROVE  /\ App(m) \in Id /\ Live(m) \in Id /\ Queued(m) \in Id
         /\ Live(m) \in Rumor /\ Queued(m) \in Rumor
         /\ Live(m) # Queued(m) /\ App(m) # Live(m) /\ App(m) # Queued(m)
         /\ App(m)[1] = m /\ Live(m)[1] = m /\ Queued(m)[1] = m
         /\ App(m)[2] = "app" /\ Live(m)[2] # "app" /\ Queued(m)[2] # "app"
         /\ \A i \in Id : i[1] = m => i \in {App(m), Live(m), Queued(m)}
BY DEF Id, Rumor, App, Live, Queued

LEMMA RumorIds ==
  ASSUME NEW r \in Rumor
  PROVE  r \in Id /\ r[1] \in Message /\ r \in {Live(r[1]), Queued(r[1])}
BY DEF Id, Rumor, Live, Queued

(* What reaching a tick means.                                             *)
LEMMA Ranks ==
  ASSUME NEW t, TrackerOK(t), NEW i \in Id
  PROVE  /\ Reached(t, i, "sent") <=> t.tick[i] \in High
         /\ Reached(t, i, "delivered") <=> t.tick[i] \in Answered
         /\ Reached(t, i, "read") <=> t.tick[i] = "read"
         /\ t.tick[i] \in Tick
<1>1. t.tick[i] \in Tick
  BY DEF TrackerOK
<1>2. QED
  BY <1>1 DEF Reached, STATE_ORDER, Tick, High, Answered

-----------------------------------------------------------------------------
(* What the calls of the tracker do: to its ticks, and to its timers, of   *)
(* which only markSent and scheduleRetry arm one.                          *)
TimersKept(t, u) == \A i \in Id : u.timer[i] \in {None, t.timer[i]}

LEMMA ClearRetry ==
  ASSUME NEW t, TrackerOK(t), NEW i \in Id
  PROVE  /\ TrackerOK(clearRetry(t, i))
         /\ clearRetry(t, i).tick = t.tick
         /\ clearRetry(t, i).timer = [t.timer EXCEPT ![i] = None]
         /\ TimersKept(t, clearRetry(t, i))
<1> DEFINE u == clearRetry(t, i)
<1>1. /\ u.tick = t.tick
      /\ u.timer = [t.timer EXCEPT ![i] = None]
      /\ u.resend = RemoveFirst(t.resend, i)
      /\ u = [tick |-> t.tick, resend |-> RemoveFirst(t.resend, i),
              timer |-> [t.timer EXCEPT ![i] = None]]
  <2>1. t = [tick |-> t.tick, resend |-> t.resend, timer |-> t.timer]
    BY DEF TrackerOK
  <2>2. u = [[t EXCEPT !.timer = [t.timer EXCEPT ![i] = None]]
               EXCEPT !.resend = RemoveFirst(t.resend, i)]
    BY <2>1 DEF clearRetry
  <2>3. QED
    BY <2>1, <2>2
<1>2. /\ u.resend \in Seq(Id)
      /\ Len(u.resend) <= Len(t.resend)
      /\ ToSet(t.resend) \ {i} \subseteq ToSet(u.resend)
      /\ ToSet(u.resend) \subseteq ToSet(t.resend)
  <2>1. t.resend \in Seq(Id)
    BY DEF TrackerOK
  <2>2. QED
    BY <1>1, <2>1, RemoveFirstElements
<1> HIDE DEF u
<1>3. TrackerOK(u)
  <2>1. Len(u.resend) <= MaxTracked
    BY <1>2, ConstantsAssumption DEF TrackerOK
  <2>2. ASSUME NEW j \in Id, u.timer[j] # None
        PROVE  j # i /\ u.timer[j] = t.timer[j]
    BY <1>1, <2>2 DEF TrackerOK
  <2>3. u \in [tick : [Id -> Tick], resend : Seq(Id),
               timer : [Id -> Timer \cup {None}]]
    BY <1>1, <1>2 DEF TrackerOK
  <2>4. QED
    BY <1>1, <1>2, <2>1, <2>2, <2>3 DEF TrackerOK
<1>4. TimersKept(t, u)
  BY <1>1 DEF TimersKept, TrackerOK
<1>5. QED
  BY <1>1, <1>3, <1>4 DEF u

LEMMA RegisterOutgoing ==
  ASSUME NEW t, TrackerOK(t), NEW i \in Id, i[2] # "app"
  PROVE  /\ TrackerOK(registerOutgoing(t, i))
         /\ registerOutgoing(t, i).tick = t.tick
         /\ TimersKept(t, registerOutgoing(t, i))
<1> DEFINE added == IF Tracked(t, i) THEN t
                    ELSE [t EXCEPT !.resend = Append(@, i)]
           u == registerOutgoing(t, i)
<1>1. u = IF Len(added.resend) > MaxTracked
          THEN clearRetry(added, Head(added.resend)) ELSE added
  BY DEF registerOutgoing
<1>2. /\ added \in [tick : [Id -> Tick], resend : Seq(Id),
                    timer : [Id -> Timer \cup {None}]]
      /\ added.tick = t.tick /\ added.timer = t.timer
      /\ Len(added.resend) <= MaxTracked + 1
      /\ ToSet(t.resend) \subseteq ToSet(added.resend)
      /\ ToSet(added.resend) \subseteq ToSet(t.resend) \cup {i}
  <2>1. t.resend \in Seq(Id)
    BY DEF TrackerOK
  <2>2. CASE Tracked(t, i)
    BY <2>1, <2>2, ConstantsAssumption DEF TrackerOK
  <2>3. CASE ~ Tracked(t, i)
    <3>1. /\ added = [tick |-> t.tick, resend |-> Append(t.resend, i),
                      timer |-> t.timer]
      BY <2>3 DEF TrackerOK
    <3>2. /\ Append(t.resend, i) \in Seq(Id)
          /\ Len(Append(t.resend, i)) = Len(t.resend) + 1
          /\ ToSet(Append(t.resend, i)) = ToSet(t.resend) \cup {i}
      BY <2>1, AppendElements
    <3>3. Len(t.resend) + 1 <= MaxTracked + 1
      BY <2>1, ConstantsAssumption DEF TrackerOK
    <3> HIDE DEF added
    <3>4. /\ added.tick = t.tick /\ added.timer = t.timer
          /\ added.resend = Append(t.resend, i)
          /\ t.tick \in [Id -> Tick] /\ t.timer \in [Id -> Timer \cup {None}]
      BY <3>1 DEF TrackerOK
    <3>5. QED
      BY <3>1, <3>2, <3>3, <3>4
  <2>4. QED
    BY <2>2, <2>3
<1> HIDE DEF added, u
<1>3. \A j \in Id :
        /\ j \in ToSet(added.resend) => j[2] # "app"
        /\ added.timer[j] # None =>
             /\ added.timer[j].of = j
             /\ added.tick[j] = "sent"
             /\ j \in ToSet(added.resend)
  BY <1>2 DEF TrackerOK
<1>4. CASE Len(added.resend) <= MaxTracked
  <2>1. u = added
    BY <1>1, <1>2, <1>4, ConstantsAssumption
  <2>2. QED
    BY <1>2, <1>3, <1>4, <2>1 DEF u, TrackerOK, TimersKept
<1>5. CASE Len(added.resend) > MaxTracked
  <2> DEFINE h == Head(added.resend)
  <2>1. h \in Id /\ h \in ToSet(added.resend)
    <3>1. added.resend \in Seq(Id) /\ Len(added.resend) > 0
      BY <1>2, <1>5, ConstantsAssumption
    <3>2. h = added.resend[1] /\ 1 \in DOMAIN added.resend
      BY <3>1
    <3>3. QED
      BY <3>1, <3>2 DEF ToSet
  <2>2. /\ u.tick = added.tick
        /\ u.timer = [added.timer EXCEPT ![h] = None]
        /\ u.resend = RemoveFirst(added.resend, h)
        /\ u = [tick |-> added.tick, resend |-> RemoveFirst(added.resend, h),
                timer |-> [added.timer EXCEPT ![h] = None]]
    BY <1>1, <1>2, <1>5 DEF clearRetry
  <2>3. /\ u.resend \in Seq(Id)
        /\ Len(u.resend) = Len(added.resend) - 1
        /\ ToSet(added.resend) \ {h} \subseteq ToSet(u.resend)
        /\ ToSet(u.resend) \subseteq ToSet(added.resend)
    <3> HIDE DEF h
    <3>1. added.resend \in Seq(Id)
      BY <1>2
    <3>2. QED
      BY <2>1, <2>2, <3>1, RemoveFirstElements
  <2> HIDE DEF h
  <2>4. Len(u.resend) <= MaxTracked
    BY <1>2, <2>3, ConstantsAssumption
  <2>5. ASSUME NEW j \in Id, u.timer[j] # None
        PROVE  j # h /\ u.timer[j] = added.timer[j]
    BY <1>2, <2>2, <2>5
  <2>6. u \in [tick : [Id -> Tick], resend : Seq(Id),
               timer : [Id -> Timer \cup {None}]]
    BY <1>2, <2>2, <2>3
  <2>7. TrackerOK(u)
    BY <1>3, <2>2, <2>3, <2>4, <2>5, <2>6 DEF TrackerOK
  <2>8. QED
    BY <1>2, <2>2, <2>5, <2>7 DEF u, TimersKept
<1>6. QED
  BY <1>2, <1>4, <1>5, ConstantsAssumption

(* A receipt, or the OK, for any id: its retries end.                      *)
LEMMA AcknowledgeCall ==
  ASSUME NEW t, TrackerOK(t), NEW i \in Id, NEW state \in Answered
  PROVE  /\ TrackerOK(acknowledge(t, i, state))
         /\ TimersKept(t, acknowledge(t, i, state))
         /\ acknowledge(t, i, state).tick =
              IF Reached(t, i, state) THEN t.tick
              ELSE [t.tick EXCEPT ![i] = state]
<1> DEFINE c == clearRetry(t, i)
           u == acknowledge(t, i, state)
<1>1. /\ TrackerOK(c) /\ c.tick = t.tick /\ TimersKept(t, c)
      /\ c.timer = [t.timer EXCEPT ![i] = None]
  BY ClearRetry
<1>2. u = IF Reached(t, i, state) THEN c ELSE SetTick(c, i, state)
  BY DEF acknowledge
<1> HIDE DEF c, u
<1>3. CASE Reached(t, i, state)
  BY <1>1, <1>2, <1>3 DEF u
<1>4. CASE ~ Reached(t, i, state)
  <2>1. c = [tick |-> c.tick, resend |-> c.resend, timer |-> c.timer]
    BY <1>1 DEF TrackerOK
  <2>2. u = [tick |-> [t.tick EXCEPT ![i] = state], resend |-> c.resend,
             timer |-> c.timer]
    BY <1>1, <1>2, <1>4, <2>1 DEF SetTick
  <2>3. TimersKept(t, u)
    BY <1>1, <2>2 DEF TimersKept
  <2>4. TrackerOK(u)
    <3>1. [t.tick EXCEPT ![i] = state] \in [Id -> Tick]
      BY DEF TrackerOK, Tick, Answered
    <3>2. \A j \in Id : c.timer[j] # None => j # i
      BY <1>1 DEF TrackerOK
    <3>3. QED
      BY <1>1, <2>2, <3>1, <3>2 DEF TrackerOK
  <2>5. QED
    BY <1>4, <2>2, <2>3, <2>4 DEF u
<1>5. QED
  BY <1>3, <1>4

(* A retry is scheduled for a sent id that has a resend, or given up.      *)
LEMMA ScheduleRetry ==
  ASSUME NEW t, TrackerOK(t), NEW i \in Id, NEW a \in Nat,
         t.tick[i] = "sent", Tracked(t, i)
  PROVE  /\ TrackerOK(scheduleRetry(t, i, a))
         /\ scheduleRetry(t, i, a).tick = t.tick
         /\ \A j \in Id \ {i} : scheduleRetry(t, i, a).timer[j] = t.timer[j]
<1> DEFINE u == scheduleRetry(t, i, a)
<1>1. CASE a >= RetryLimit
  <2>1. u = clearRetry(t, i)
    BY <1>1 DEF scheduleRetry
  <2>2. /\ TrackerOK(clearRetry(t, i))
        /\ clearRetry(t, i).tick = t.tick
        /\ clearRetry(t, i).timer = [t.timer EXCEPT ![i] = None]
    BY ClearRetry
  <2>3. QED
    BY <2>1, <2>2 DEF TrackerOK
<1>2. CASE ~ (a >= RetryLimit)
  <2>1. t = [tick |-> t.tick, resend |-> t.resend, timer |-> t.timer]
    BY DEF TrackerOK
  <2>2. u = [tick |-> t.tick, resend |-> t.resend,
             timer |-> [t.timer EXCEPT ![i] = [of |-> i, attempt |-> a]]]
    BY <1>2, <2>1 DEF scheduleRetry
  <2>3. [of |-> i, attempt |-> a] \in Timer
    BY <1>2, ConstantsAssumption DEF Timer
  <2> HIDE DEF u
  <2>4. TrackerOK(u)
    BY <2>2, <2>3 DEF TrackerOK, Tracked
  <2>5. QED
    BY <2>2, <2>4 DEF u, TrackerOK
<1>3. QED
  BY <1>1, <1>2

LEMMA MarkSentCall ==
  ASSUME NEW t, TrackerOK(t), NEW i \in Id
  PROVE  /\ TrackerOK(markSent(t, i))
         /\ \A j \in Id \ {i} : markSent(t, i).timer[j] \in {None, t.timer[j]}
         /\ markSent(t, i).tick =
              IF Reached(t, i, "sent") THEN t.tick
              ELSE [t.tick EXCEPT ![i] = "sent"]
<1> DEFINE u == markSent(t, i)
           s == SetTick(t, i, "sent")
<1>1. CASE Reached(t, i, "sent")
  <2>1. u = t
    BY <1>1 DEF markSent
  <2>2. QED
    BY <1>1, <2>1
<1>2. CASE ~ Reached(t, i, "sent")
  <2>1. t = [tick |-> t.tick, resend |-> t.resend, timer |-> t.timer]
    BY DEF TrackerOK
  <2>2. s = [tick |-> [t.tick EXCEPT ![i] = "sent"], resend |-> t.resend,
             timer |-> t.timer]
    BY <2>1 DEF SetTick
  <2>3. u = IF Tracked(t, i) THEN scheduleRetry(s, i, 0) ELSE s
    BY <1>2 DEF markSent
  <2> HIDE DEF s, u
  <2>4. TrackerOK(s) /\ s.tick[i] = "sent"
    <3>1. [t.tick EXCEPT ![i] = "sent"] \in [Id -> Tick]
      BY DEF TrackerOK, Tick
    <3>2. QED
      BY <2>2, <3>1 DEF TrackerOK
  <2>5. CASE Tracked(t, i)
    <3>1. Tracked(s, i) /\ 0 \in Nat
      BY <2>2, <2>5 DEF Tracked
    <3>2. /\ TrackerOK(scheduleRetry(s, i, 0))
          /\ scheduleRetry(s, i, 0).tick = s.tick
          /\ \A j \in Id \ {i} : scheduleRetry(s, i, 0).timer[j] = s.timer[j]
      BY <2>4, <3>1, ScheduleRetry
    <3>3. QED
      BY <1>2, <2>2, <2>3, <2>5, <3>2 DEF u
  <2>6. CASE ~ Tracked(t, i)
    BY <1>2, <2>2, <2>3, <2>4, <2>6 DEF u
  <2>7. QED
    BY <2>5, <2>6
<1>3. QED
  BY <1>1, <1>2

(* A publish re-keys from the app id, which is in no resend: only its tick *)
(* can move.                                                               *)
Moved(tick, m, r) ==
  IF tick[App(m)] = "none" THEN tick
  ELSE [tick EXCEPT ![r] = tick[App(m)], ![App(m)] = "none"]

LEMMA TrackCall ==
  ASSUME NEW t, TrackerOK(t), NEW m \in Message,
         NEW r \in {Live(m), Queued(m)}, t.timer[r] = None
  PROVE  /\ TrackerOK(Track(t, m, r))
         /\ TimersKept(t, Track(t, m, r))
         /\ Track(t, m, r).tick = Moved(t.tick, m, r)
         /\ Track(t, m, r).timer[r] = None
<1> DEFINE k == rekey(t, App(m), r)
           res == [n \in DOMAIN t.resend |->
                     IF t.resend[n] = App(m) THEN r ELSE t.resend[n]]
<1>1. /\ App(m) \in Id /\ r \in Id /\ r[2] # "app" /\ App(m)[2] = "app"
      /\ App(m) # r
  BY Ids
<1>2. App(m) \notin ToSet(t.resend) /\ t.timer[App(m)] = None
  BY <1>1 DEF TrackerOK
<1>3. res = t.resend
  <2>1. t.resend \in Seq(Id)
    BY DEF TrackerOK
  <2>2. \A n \in DOMAIN t.resend : t.resend[n] # App(m)
    BY <1>2, <2>1 DEF ToSet
  <2>3. t.resend = [n \in DOMAIN t.resend |-> t.resend[n]]
    BY <2>1
  <2>4. QED
    BY <2>2, <2>3
<1>4. t = [tick |-> t.tick, resend |-> t.resend, timer |-> t.timer]
  BY DEF TrackerOK
<1>5. k = [tick |-> Moved(t.tick, m, r), resend |-> t.resend,
           timer |-> t.timer]
  <2>1. CASE t.tick[App(m)] = "none"
    <3>1. k = [t EXCEPT !.resend = res]
      BY <1>2, <2>1 DEF rekey
    <3>2. Moved(t.tick, m, r) = t.tick
      BY <2>1 DEF Moved
    <3>3. QED
      BY <1>3, <1>4, <3>1, <3>2
  <2>2. CASE t.tick[App(m)] # "none"
    <3> DEFINE v == [t EXCEPT !.tick[r] = t.tick[App(m)],
                              !.tick[App(m)] = "none"]
    <3>1. v = [tick |-> Moved(t.tick, m, r), resend |-> t.resend,
               timer |-> t.timer]
      <4> DEFINE w == [t EXCEPT !.tick[r] = t.tick[App(m)]]
      <4>1. w = [tick |-> [t.tick EXCEPT ![r] = t.tick[App(m)]],
                 resend |-> t.resend, timer |-> t.timer]
        BY <1>4
      <4>2. v = [w EXCEPT !.tick[App(m)] = "none"]
        BY Zenon
      <4> HIDE DEF w, v
      <4>3. v = [tick |-> [[t.tick EXCEPT ![r] = t.tick[App(m)]]
                             EXCEPT ![App(m)] = "none"],
                 resend |-> t.resend, timer |-> t.timer]
        BY <4>1, <4>2
      <4>4. Moved(t.tick, m, r) = [[t.tick EXCEPT ![r] = t.tick[App(m)]]
                                     EXCEPT ![App(m)] = "none"]
        BY <2>2, Zenon DEF Moved
      <4>5. QED
        BY <4>3, <4>4
    <3>2. k = [v EXCEPT !.resend = [n \in DOMAIN v.resend |->
                     IF v.resend[n] = App(m) THEN r ELSE v.resend[n]]]
      BY <1>2, <2>2 DEF rekey
    <3> HIDE DEF v
    <3>3. k = [v EXCEPT !.resend = res]
      BY <3>1, <3>2
    <3>4. QED
      BY <1>3, <3>1, <3>3
  <2>3. QED
    BY <2>1, <2>2
<1> HIDE DEF k, res
<1>6. TrackerOK(k)
  <2>1. Moved(t.tick, m, r) \in [Id -> Tick]
    BY <1>1 DEF TrackerOK, Moved, Tick
  <2>2. \A j \in Id : t.timer[j] # None =>
          j # r /\ j # App(m) /\ Moved(t.tick, m, r)[j] = t.tick[j]
    BY <1>1, <1>2 DEF Moved, TrackerOK
  <2>3. QED
    BY <1>5, <2>1, <2>2 DEF TrackerOK
<1>7. Track(t, m, r) = registerOutgoing(k, r)
  BY DEF Track, k
<1>8. /\ TrackerOK(registerOutgoing(k, r))
      /\ registerOutgoing(k, r).tick = k.tick
      /\ TimersKept(k, registerOutgoing(k, r))
  BY <1>1, <1>6, RegisterOutgoing
<1>9. QED
  BY <1>1, <1>5, <1>7, <1>8 DEF TimersKept

-----------------------------------------------------------------------------
(* What each step does to the tracker.  Armed(t, u, S): outside S no timer *)
(* is armed that was not.                                                  *)
Armed(t, u, S) ==
  \A i \in Id \ S : u.timer[i] # None => t.timer[i] # None

LEMMA SendEffect ==
  ASSUME IInv, NEW m \in Message, Send(m)
  PROVE  /\ TrackerOK(tracker')
         /\ tracker'.tick = [tracker.tick EXCEPT ![App(m)] = "sending"]
         /\ Armed(tracker, tracker', {})
<1>1. App(m) \in Id /\ App(m)[2] = "app"
  BY Ids
<1>2. tracker = [tick |-> tracker.tick, resend |-> tracker.resend,
                 timer |-> tracker.timer]
  BY DEF IInv, Tracking, TrackerOK
<1>3. tracker' = [tick |-> [tracker.tick EXCEPT ![App(m)] = "sending"],
                  resend |-> tracker.resend, timer |-> tracker.timer]
  BY <1>2 DEF Send, SetTick
<1>4. tracker.timer[App(m)] = None
  BY <1>1 DEF IInv, Tracking, TrackerOK
<1>5. [tracker.tick EXCEPT ![App(m)] = "sending"] \in [Id -> Tick]
  BY DEF IInv, Tracking, TrackerOK, Tick
<1>6. QED
  BY <1>3, <1>4, <1>5 DEF IInv, Tracking, TrackerOK, Armed

LEMMA PublishEffect ==
  ASSUME IInv, NEW m \in Message, stage[m] = "saved",
         tracker' = Track(tracker, m, Live(m))
  PROVE  /\ TrackerOK(tracker')
         /\ tracker'.tick = Moved(tracker.tick, m, Live(m))
         /\ Armed(tracker, tracker', {})
<1>1. TrackerOK(tracker) /\ Live(m) \in Id
  BY Ids DEF IInv, Tracking
<1>2. tracker.timer[Live(m)] = None
  BY <1>1 DEF IInv, Origins, Stages
<1>3. QED
  BY <1>1, <1>2, TrackCall DEF TimersKept, Armed

LEMMA MarkSentEffect ==
  ASSUME IInv, NEW m \in Message, MarkSent(m)
  PROVE  /\ TrackerOK(tracker')
         /\ tracker'.tick = IF tracker.tick[Live(m)] \in High THEN tracker.tick
                            ELSE [tracker.tick EXCEPT ![Live(m)] = "sent"]
         /\ Armed(tracker, tracker', {Live(m)})
<1>1. TrackerOK(tracker) /\ Live(m) \in Id
  BY Ids DEF IInv, Tracking
<1>2. Reached(tracker, Live(m), "sent") <=> tracker.tick[Live(m)] \in High
  BY <1>1, Ranks
<1>3. QED
  BY <1>1, <1>2, MarkSentCall DEF MarkSent, Armed

LEMMA FlushedRumorOf ==
  ASSUME IInv, NEW m \in Message, entry[m] # None
  PROVE  FlushedRumor(m) \in {Live(m), Queued(m)}
BY DEF FlushedRumor, IInv, Entries, EntryOK

LEMMA FlushEffect ==
  ASSUME IInv, NEW m \in Message, Flush(m), entry[m].app,
         NEW r, r = FlushedRumor(m)
  PROVE  /\ TrackerOK(tracker')
         /\ tracker'.tick =
              LET moved == Moved(tracker.tick, m, r) IN
              IF moved[r] \in High THEN moved ELSE [moved EXCEPT ![r] = "sent"]
         /\ Armed(tracker, tracker', {r})
<1>1. TrackerOK(tracker)
  BY DEF IInv, Tracking
<1>2. r \in {Live(m), Queued(m)} /\ r \in Id
  BY FlushedRumorOf, Ids DEF Flush
<1>3. tracker.timer[r] = None
  BY <1>2 DEF IInv, Entries, EntryOK, Flush
<1> DEFINE t == Track(tracker, m, r)
<1>4. /\ TrackerOK(t) /\ TimersKept(tracker, t)
      /\ t.tick = Moved(tracker.tick, m, r)
  BY <1>1, <1>2, <1>3, TrackCall
<1>5. tracker' = markSent(t, r)
  BY DEF Flush
<1> HIDE DEF t
<1>6. /\ TrackerOK(tracker')
      /\ \A j \in Id \ {r} : tracker'.timer[j] \in {None, t.timer[j]}
      /\ tracker'.tick = IF Reached(t, r, "sent") THEN t.tick
                         ELSE [t.tick EXCEPT ![r] = "sent"]
  BY <1>2, <1>4, <1>5, MarkSentCall
<1>7. Reached(t, r, "sent") <=> t.tick[r] \in High
  BY <1>2, <1>4, Ranks
<1>8. Armed(tracker, tracker', {r})
  BY <1>4, <1>6 DEF Armed, TimersKept
<1>9. QED
  BY <1>4, <1>6, <1>7, <1>8

LEMMA AcknowledgeEffect ==
  ASSUME IInv, NEW i \in Id, NEW state \in Answered,
         tracker' = acknowledge(tracker, i, state)
  PROVE  /\ TrackerOK(tracker')
         /\ \/ tracker'.tick = tracker.tick
            \/ tracker'.tick = [tracker.tick EXCEPT ![i] = state]
         /\ \A j \in Id : tracker.tick[j] = "read" => tracker'.tick[j] = "read"
         /\ Armed(tracker, tracker', {})
<1>1. TrackerOK(tracker)
  BY DEF IInv, Tracking
<1>2. /\ TrackerOK(tracker')
      /\ TimersKept(tracker, tracker')
      /\ tracker'.tick = IF Reached(tracker, i, state) THEN tracker.tick
                         ELSE [tracker.tick EXCEPT ![i] = state]
  <2> DEFINE u == acknowledge(tracker, i, state)
  <2>1. /\ TrackerOK(u)
        /\ TimersKept(tracker, u)
        /\ u.tick = IF Reached(tracker, i, state) THEN tracker.tick
                    ELSE [tracker.tick EXCEPT ![i] = state]
    BY <1>1, AcknowledgeCall
  <2>2. tracker' = u
    OBVIOUS
  <2> HIDE DEF u
  <2>3. QED
    BY <2>1, <2>2
<1>3. tracker.tick[i] = "read" => Reached(tracker, i, state)
  BY <1>1, Ranks DEF Answered
<1>4. QED
  BY <1>1, <1>2, <1>3 DEF TimersKept, Armed

(* A receipt may do less: with read receipts off only the retries end.     *)
LEMMA ReceiptCall ==
  ASSUME IInv, NEW x \in Receipt, HandleReceipt(x)
  PROVE  /\ TrackerOK(tracker')
         /\ \E state \in Answered :
              \/ tracker'.tick = tracker.tick
              \/ tracker'.tick = [tracker.tick EXCEPT ![x.id] = state]
         /\ \A j \in Id : tracker.tick[j] = "read" => tracker'.tick[j] = "read"
         /\ Armed(tracker, tracker', {})
<1>0. x.id \in Id /\ TrackerOK(tracker) /\ "read" \in Answered
  BY DEF Receipt, IInv, Tracking, Answered
<1>1. CASE tracker' = clearRetry(tracker, x.id)
  <2>1. /\ TrackerOK(tracker') /\ tracker'.tick = tracker.tick
        /\ TimersKept(tracker, tracker')
    BY <1>0, <1>1, ClearRetry
  <2>2. QED
    BY <1>0, <2>1 DEF TimersKept, Armed
<1>2. CASE \E state \in Answered : tracker' = acknowledge(tracker, x.id, state)
  BY <1>0, <1>2, AcknowledgeEffect
<1>3. QED
  BY <1>1, <1>2 DEF HandleReceipt, Answered

LEMMA OtherEffect ==
  ASSUME IInv, NEW o \in Background, SendOther(o)
  PROVE  /\ TrackerOK(tracker')
         /\ tracker'.tick = tracker.tick
         /\ Armed(tracker, tracker', {})
<1>1. Live(o) \in Id /\ Live(o)[2] # "app" /\ TrackerOK(tracker)
  BY DEF Id, Live, IInv, Tracking
<1>2. QED
  BY <1>1, RegisterOutgoing DEF SendOther, TimersKept, Armed

(* A timer fires for a rumor that went out.                                *)
LEMMA RetryEffect ==
  ASSUME IInv, NEW i \in Id, RetryTimer(i)
  PROVE  /\ TrackerOK(tracker')
         /\ tracker'.tick = tracker.tick
         /\ Armed(tracker, tracker', {})
         /\ i \in handed
         /\ HandOver(i) \/ UNCHANGED <<copies, handed>>
<1> DEFINE t == [tracker EXCEPT !.timer[i] = None]
           a == tracker.timer[i].attempt + 1
<1>1. /\ TrackerOK(tracker) /\ tracker.timer[i] # None
      /\ tracker.timer[i].of = i /\ tracker.tick[i] = "sent"
      /\ Tracked(tracker, i)
      /\ i \in handed
  BY DEF RetryTimer, IInv, Tracking, TrackerOK, Tracked, Origins
<1>2. a \in Nat
  <2>1. tracker.timer[i] \in Timer
    BY <1>1 DEF TrackerOK
  <2>2. QED
    BY <2>1, ConstantsAssumption DEF Timer
<1>3. /\ Reached(t, i, "delivered") => tracker' = clearRetry(t, i)
      /\ ~ Reached(t, i, "delivered") => tracker' = scheduleRetry(t, i, a)
      /\ HandOver(i) \/ UNCHANGED <<copies, handed>>
  BY <1>1 DEF RetryTimer
<1>4. tracker = [tick |-> tracker.tick, resend |-> tracker.resend,
                 timer |-> tracker.timer]
  BY <1>1 DEF TrackerOK
<1>5. t = [tick |-> tracker.tick, resend |-> tracker.resend,
           timer |-> [tracker.timer EXCEPT ![i] = None]]
  BY <1>4
<1> HIDE DEF t, a
<1>6. TrackerOK(t)
  BY <1>1, <1>5 DEF TrackerOK
<1>7. t.tick[i] = "sent" /\ Tracked(t, i)
  BY <1>1, <1>5 DEF Tracked
<1>8. ~ Reached(t, i, "delivered")
  BY <1>6, <1>7, Ranks DEF Answered
<1>9. /\ TrackerOK(tracker') /\ tracker'.tick = t.tick
      /\ \A j \in Id \ {i} : tracker'.timer[j] = t.timer[j]
  BY <1>2, <1>3, <1>6, <1>7, <1>8, ScheduleRetry
<1>10. Armed(tracker, tracker', {})
  BY <1>1, <1>5, <1>9 DEF Armed, TrackerOK
<1>11. QED
  BY <1>1, <1>3, <1>5, <1>9, <1>10

-----------------------------------------------------------------------------
(* IInv holds at the start...                                              *)
LEMMA EmptyTracker ==
  ASSUME NEW t, t = [tick |-> [i \in Id |-> "none"], resend |-> <<>>,
                     timer |-> [i \in Id |-> None]]
  PROVE  TrackerOK(t)
<1>1. <<>> \in Seq(Id) /\ Len(<<>>) = 0 /\ ToSet(<<>>) = {}
  BY DEF ToSet
<1>2. QED
  BY <1>1, ConstantsAssumption DEF TrackerOK, Tick

LEMMA InitInv == Init => IInv
<1> SUFFICES ASSUME Init PROVE IInv
  OBVIOUS
<1>1. Tracking
  BY EmptyTracker DEF Init, Tracking
<1>2. Types
  BY DEF Init, Types, Stage, Channel
<1>3. /\ \A i \in Id : tracker.tick[i] = "none" /\ tracker.timer[i] = None
      /\ \A m \in Message : App(m) \in Id /\ Live(m) \in Id /\ Queued(m) \in Id
      /\ \A m \in Message : Live(m) \in Rumor /\ Queued(m) \in Rumor
  BY Ids DEF Init
<1>4. Stages /\ Entries /\ OneRumor /\ Vouched
  BY DEF Init, Stages, Entries, EntryOK, OneRumor, LiveOut, QueuedOut, Vouched
<1>5. Origins
  BY <1>3 DEF Init, Origins
<1>6. Shows
  <2>1. \A i \in Id : ~ Reached(tracker, i, "delivered")
    BY <1>1, <1>3, Ranks DEF Tracking, Answered
  <2>2. QED
    BY <2>1 DEF Shows, Shown
<1>7. Ticks
  BY <1>3 DEF Init, Ticks, TicksOf, High
<1>8. QED
  BY <1>1, <1>2, <1>4, <1>5, <1>6, <1>7 DEF IInv

(* ...and every step keeps each of its parts.                              *)
LEMMA TrackingStep ==
  ASSUME IInv, [Next]_vars
  PROVE  Tracking'
<1> USE DEF Tracking
<1>1. ASSUME NEW m \in Message, Send(m) PROVE Tracking'
  BY <1>1, SendEffect
<1>2. ASSUME NEW m \in Message, DirectFirst(m) \/ Publish(m) PROVE Tracking'
  BY <1>2, PublishEffect DEF DirectFirst, Publish
<1>3. ASSUME NEW m \in Message, MarkSent(m) PROVE Tracking'
  BY <1>3, MarkSentEffect
<1>4. ASSUME NEW m \in Message, DirectAcked(m) PROVE Tracking'
  BY <1>4, AcknowledgeEffect, Ids DEF DirectAcked, Answered
<1>5. ASSUME NEW m \in Message, Flush(m) PROVE Tracking'
  <2>1. CASE entry[m].app
    BY <1>5, <2>1, FlushEffect
  <2>2. CASE ~ entry[m].app
    BY <1>5, <2>2 DEF Flush, IInv
  <2>3. QED
    BY <2>1, <2>2
<1>6. ASSUME NEW i \in Id, RetryTimer(i) PROVE Tracking'
  BY <1>6, RetryEffect
<1>7. ASSUME NEW o \in Background, SendOther(o) PROVE Tracking'
  BY <1>7, OtherEffect
<1>8. ASSUME NEW x \in Receipt, HandleReceipt(x) PROVE Tracking'
  BY <1>8, ReceiptCall
<1>9. ASSUME Restart PROVE Tracking'
  BY <1>9, EmptyTracker DEF Restart
<1>10. ASSUME UNCHANGED tracker PROVE Tracking'
  BY <1>10 DEF IInv
<1>11. QED
  BY <1>1, <1>2, <1>3, <1>4, <1>5, <1>6, <1>7, <1>8, <1>9, <1>10
     DEF Next, Sending, NotPublished, Backstop, DirectTimeout, QueueMessage,
         IngestDirect, Receive, SendReceipt, SendReadReceipt, LoseCopy, LoseReceipt,
         PeerRestart, vars, sender

LEMMA HandOverTypes ==
  ASSUME Types, NEW r \in Rumor, HandOver(r)
  PROVE  copies' \in [Rumor -> Nat] /\ handed' \subseteq Rumor
BY DEF Types, HandOver

LEMMA ReceiptIds ==
  ASSUME NEW r \in Rumor
  PROVE  ReceiptId(r) \in Id
BY RumorIds, Ids DEF ReceiptId

LEMMA TypesStep ==
  ASSUME IInv, [Next]_vars
  PROVE  Types'
<1> USE DEF Types
<1>0. Types /\ \A m \in Message : Live(m) \in Rumor /\ Queued(m) \in Rumor
  BY Ids DEF IInv
<1>1. ASSUME NEW m \in Message, Send(m) \/ NotPublished(m) \/ MarkSent(m)
      PROVE  Types'
  BY <1>0, <1>1 DEF Send, NotPublished, MarkSent, peer, counters, noted, Stage
<1>2. ASSUME NEW m \in Message, DirectFirst(m) \/ Publish(m) PROVE Types'
  <2>1. copies' \in [Rumor -> Nat] /\ handed' \subseteq Rumor
    BY <1>0, <1>2, HandOverTypes DEF DirectFirst, Publish
  <2>2. QED
    BY <1>0, <1>2, <2>1
       DEF DirectFirst, Publish, peer, counters, noted, Stage, Channel
<1>3. ASSUME NEW m \in Message, DirectAcked(m) \/ Backstop(m) PROVE Types'
  <2>1. [rumor |-> Live(m), app |-> FALSE] \in Entry
    BY <1>0 DEF Entry
  <2>2. CASE DirectAcked(m)
    BY <1>0, <2>2 DEF DirectAcked, peer, counters, Stage, Channel
  <2>3. CASE Backstop(m)
    <3>1. copies' \in [Rumor -> Nat] /\ handed' \subseteq Rumor
      BY <1>0, <2>3, HandOverTypes DEF Backstop
    <3>2. QED
      BY <1>0, <2>1, <2>3, <3>1 DEF Backstop, peer, counters, Stage
  <2>4. QED
    BY <1>3, <2>2, <2>3
<1>4. ASSUME NEW m \in Message, DirectTimeout(m) \/ IngestDirect(m)
      PROVE  Types'
  BY <1>0, <1>4 DEF DirectTimeout, IngestDirect, counters, noted, Stage, Channel
<1>5. ASSUME NEW m \in Message, QueueMessage(m) PROVE Types'
  <2>1. PICK sent \in {Live(m), Queued(m)} :
          \/ /\ HandOver(sent)
             /\ entry' = [entry EXCEPT ![m] = [rumor |-> sent, app |-> TRUE]]
          \/ /\ \E r \in {sent, None} :
                  entry' = [entry EXCEPT ![m] = [rumor |-> r, app |-> TRUE]]
             /\ UNCHANGED <<copies, handed>>
          \/ UNCHANGED <<entry, copies, handed>>
    BY <1>5 DEF QueueMessage
  <2>2. copies' \in [Rumor -> Nat] /\ handed' \subseteq Rumor
    BY <1>0, <2>1, HandOverTypes
  <2>3. \A r \in {sent, None} : [rumor |-> r, app |-> TRUE] \in Entry
    BY <1>0 DEF Entry
  <2>4. entry' \in [Message -> Entry \cup {None}]
    BY <1>0, <2>1, <2>3
  <2>5. QED
    BY <1>0, <1>5, <2>2, <2>4 DEF QueueMessage, peer, counters, Stage
<1>6. ASSUME NEW m \in Message, Flush(m) PROVE Types'
  <2>1. FlushedRumor(m) \in Rumor
    BY <1>0, <1>6, FlushedRumorOf DEF Flush
  <2>2. copies' \in [Rumor -> Nat] /\ handed' \subseteq Rumor
    BY <1>0, <1>6, <2>1, HandOverTypes DEF Flush
  <2>3. QED
    BY <1>0, <1>6, <2>2 DEF Flush, peer, counters
<1>7. ASSUME NEW i \in Id, RetryTimer(i) PROVE Types'
  <2>1. i \in Rumor /\ (HandOver(i) \/ UNCHANGED <<copies, handed>>)
    BY <1>0, <1>7, RetryEffect
  <2>2. copies' \in [Rumor -> Nat] /\ handed' \subseteq Rumor
    BY <1>0, <2>1, HandOverTypes
  <2>3. QED
    BY <1>0, <1>7, <2>2 DEF RetryTimer, peer, counters
<1>8. ASSUME NEW o \in Background, SendOther(o) PROVE Types'
  BY <1>0, <1>8 DEF SendOther, peer, counters
<1>9. ASSUME NEW x \in Receipt, HandleReceipt(x) \/ LoseReceipt(x) PROVE Types'
  BY <1>0, <1>9 DEF HandleReceipt, LoseReceipt, sender, peer, counters, noted
<1>10. ASSUME NEW r \in Rumor, Receive(r) PROVE Types'
  BY <1>0, <1>10
     DEF Receive, Peer!Keep, Peer!GiveUp, sender, counters, noted
<1>11. ASSUME NEW r \in Rumor, SendReceipt(r) PROVE Types'
  <2>1. [id |-> ReceiptId(r), type |-> "delivery"] \in Receipt
    BY ReceiptIds DEF Receipt
  <2>2. QED
    BY <1>0, <1>11, <2>1
       DEF SendReceipt, Peer!Acknowledge, sender, counters, noted
<1>12. ASSUME NEW r \in Rumor, SendReadReceipt(r) PROVE Types'
  <2>1. [id |-> ReceiptId(r), type |-> "read"] \in Receipt
    BY ReceiptIds DEF Receipt
  <2>2. QED
    BY <1>0, <1>12, <2>1 DEF SendReadReceipt, sender, counters, noted
<1>13. ASSUME NEW r \in Rumor, LoseCopy(r) PROVE Types'
  BY <1>0, <1>13 DEF LoseCopy, sender, peer, noted
<1>14. ASSUME Restart \/ PeerRestart PROVE Types'
  BY <1>0, <1>14
     DEF Restart, PeerRestart, sender, peer, counters, noted, Stage, Channel
<1>15. ASSUME UNCHANGED vars PROVE Types'
  BY <1>0, <1>15 DEF vars, sender, peer, counters, noted
<1>16. QED
  BY <1>1, <1>2, <1>3, <1>4, <1>5, <1>6, <1>7, <1>8, <1>9, <1>10, <1>11,
     <1>12, <1>13, <1>14, <1>15 DEF Next, Sending

(* What the rest of the proof needs to know of a retry, and of the steps   *)
(* that are neither of the send nor of the queue.                          *)
LEMMA RetryHandsNothingNew ==
  ASSUME IInv, NEW i \in Id, RetryTimer(i)
  PROVE  UNCHANGED <<handed, stage, channel, entry, file, early, vouched,
                     unbacked, settled, pending, receipts, restarts>>
<1>1. i \in handed /\ (HandOver(i) \/ UNCHANGED <<copies, handed>>)
  BY RetryEffect
<1>2. QED
  BY <1>1 DEF RetryTimer, HandOver, peer, counters

Aside ==
  \/ \E o \in Background : SendOther(o)
  \/ \E x \in Receipt : HandleReceipt(x) \/ LoseReceipt(x)
  \/ \E r \in Rumor : \/ Receive(r) \/ SendReceipt(r) \/ SendReadReceipt(r)
                      \/ LoseCopy(r)
  \/ PeerRestart
  \/ UNCHANGED vars

LEMMA AsideKeeps ==
  ASSUME Aside
  PROVE  UNCHANGED <<handed, stage, channel, entry, file, early, vouched,
                     unbacked, restarts>>
BY DEF Aside, SendOther, HandleReceipt, LoseReceipt, Receive, SendReceipt,
       SendReadReceipt, LoseCopy, PeerRestart, vars, sender, noted, counters

LEMMA StagesStep ==
  ASSUME IInv, [Next]_vars
  PROVE  Stages'
<1> USE DEF Stages
<1>0. /\ Stages /\ Types
      /\ \A m, n \in Message : m # n =>
           {Live(m), Queued(m)} \cap {Live(n), Queued(n)} = {}
      /\ \A m \in Message : Live(m) # Queued(m)
  BY DEF Live, Queued, IInv
<1>1. ASSUME NEW m \in Message, Send(m) \/ NotPublished(m) \/ MarkSent(m)
      PROVE  Stages'
  BY <1>0, <1>1 DEF Send, NotPublished, MarkSent, noted, Types
<1>2. ASSUME NEW m \in Message, DirectFirst(m) PROVE Stages'
  <2>1. /\ stage[m] = "saved" /\ entry' = entry
        /\ channel' = [channel EXCEPT ![m] = "frame"]
        /\ \/ /\ handed' = handed \cup {Live(m)}
              /\ stage' = [stage EXCEPT ![m] = "row"]
           \/ /\ handed' = handed
              /\ stage' = [stage EXCEPT ![m] = "direct"]
    BY <1>2 DEF DirectFirst, HandOver
  <2>2. /\ entry[m] = None /\ channel'[m] = "frame"
        /\ Live(m) \notin handed /\ Queued(m) \notin handed
        /\ stage'[m] = "direct" => handed' = handed
        /\ stage'[m] = "row" => handed' = handed \cup {Live(m)}
        /\ stage'[m] \in {"direct", "row"}
    BY <1>0, <2>1 DEF Types
  <2>3. ASSUME NEW n \in Message, n # m
        PROVE  /\ stage'[n] = stage[n] /\ channel'[n] = channel[n]
               /\ Live(n) \in handed' <=> Live(n) \in handed
               /\ Queued(n) \in handed' <=> Queued(n) \in handed
    BY <1>0, <2>1, <2>3 DEF Types
  <2>4. QED
    BY <1>0, <2>1, <2>2, <2>3
<1>3. ASSUME NEW m \in Message, Publish(m) PROVE Stages'
  <2>1. /\ stage[m] = "saved" /\ channel' = channel /\ entry' = entry
        /\ \/ /\ handed' = handed \cup {Live(m)}
              /\ stage' = [stage EXCEPT ![m] = "row"]
           \/ /\ handed' = handed
              /\ stage' = [stage EXCEPT ![m] = "queue"]
    BY <1>3 DEF Publish, HandOver
  <2>2. /\ channel[m] = "none" /\ entry[m] = None
        /\ Live(m) \notin handed /\ Queued(m) \notin handed
        /\ stage'[m] = "queue" => handed' = handed
        /\ stage'[m] = "row" => handed' = handed \cup {Live(m)}
        /\ stage'[m] \in {"queue", "row"}
    BY <1>0, <2>1 DEF Types
  <2>3. ASSUME NEW n \in Message, n # m
        PROVE  /\ stage'[n] = stage[n]
               /\ Live(n) \in handed' <=> Live(n) \in handed
               /\ Queued(n) \in handed' <=> Queued(n) \in handed
    BY <1>0, <2>1, <2>3 DEF Types
  <2>4. QED
    BY <1>0, <2>1, <2>2, <2>3
<1>4. ASSUME NEW m \in Message, DirectAcked(m) \/ Backstop(m) PROVE Stages'
  <2>1. CASE DirectAcked(m)
    BY <1>0, <2>1 DEF DirectAcked, Types
  <2>2. CASE Backstop(m)
    <3>1. /\ stage[m] = "backstop" /\ stage' = [stage EXCEPT ![m] = "done"]
          /\ channel' = channel /\ channel[m] = "over"
          /\ \A n \in Message \ {m} : entry'[n] = entry[n]
          /\ handed' \in {handed, handed \cup {Live(m)}}
      BY <1>0, <2>2 DEF Backstop, HandOver, Types
    <3>2. QED
      BY <1>0, <3>1 DEF Types
  <2>3. QED
    BY <1>4, <2>1, <2>2
<1>5. ASSUME NEW m \in Message, DirectTimeout(m) \/ IngestDirect(m)
      PROVE  Stages'
  BY <1>0, <1>5 DEF DirectTimeout, IngestDirect, noted, Types
<1>6. ASSUME NEW m \in Message, QueueMessage(m) PROVE Stages'
  <2>1. /\ stage' = [stage EXCEPT ![m] = "done"]
        /\ channel' = channel
        /\ \A n \in Message \ {m} : entry'[n] = entry[n]
        /\ handed' \ {Live(m), Queued(m)} = handed \ {Live(m), Queued(m)}
        /\ channel[m] \in {"frame", "ok"} => stage[m] = "direct" \/ Live(m) \in handed
        /\ stage[m] = "queue" /\ handed \subseteq handed'
    BY <1>0, <1>6 DEF QueueMessage, HandOver, Types
  <2>2. QED
    BY <1>0, <2>1 DEF Types
<1>7. ASSUME NEW m \in Message, Flush(m) PROVE Stages'
  <2>1. FlushedRumor(m) \in {Live(m), Queued(m)} /\ stage[m] = "done"
    BY <1>0, <1>7, FlushedRumorOf DEF Flush
  <2>2. QED
    BY <1>0, <1>7, <2>1 DEF Flush, HandOver, Types
<1>8. ASSUME NEW i \in Id, RetryTimer(i) PROVE Stages'
  BY <1>0, <1>8, RetryHandsNothingNew
<1>9. ASSUME Aside PROVE Stages'
  BY <1>0, <1>9, AsideKeeps
<1>10. ASSUME Restart PROVE Stages'
  BY <1>0, <1>10 DEF Restart, Types
<1>11. QED
  BY <1>1, <1>2, <1>3, <1>4, <1>5, <1>6, <1>7, <1>8, <1>9, <1>10
     DEF Next, Sending, Aside

(* A step of one message changes nothing of another one's.                 *)
Apart(n) ==
  /\ Live(n) \in handed' <=> Live(n) \in handed
  /\ Queued(n) \in handed' <=> Queued(n) \in handed
  /\ entry'[n] = entry[n] /\ stage'[n] = stage[n]
  /\ channel[n] # "none" <=> channel'[n] # "none"
  /\ n \in early => n \in early'

LEMMA HandOverApart ==
  ASSUME NEW m \in Message, NEW n \in Message, n # m,
         NEW r \in {Live(m), Queued(m)}, HandOver(r) \/ UNCHANGED handed
  PROVE  /\ Live(n) \in handed' <=> Live(n) \in handed
         /\ Queued(n) \in handed' <=> Queued(n) \in handed
BY DEF HandOver, Live, Queued

LEMMA SendingApart ==
  ASSUME IInv, NEW m \in Message, NEW n \in Message, n # m,
         Send(m) \/ Sending(m) \/ IngestDirect(m)
  PROVE  Apart(n)
<1> USE DEF Apart
<1>1. CASE Send(m) \/ NotPublished(m) \/ MarkSent(m)
  BY <1>1 DEF Send, NotPublished, MarkSent, noted, IInv, Types
<1>2. CASE DirectFirst(m) \/ Publish(m)
  <2>1. HandOver(Live(m)) \/ UNCHANGED handed
    BY <1>2 DEF DirectFirst, Publish
  <2>2. QED
    BY <1>2, <2>1, HandOverApart DEF DirectFirst, Publish, IInv, Types
<1>3. CASE DirectAcked(m) \/ DirectTimeout(m) \/ IngestDirect(m)
  BY <1>3 DEF DirectAcked, DirectTimeout, IngestDirect, noted, IInv, Types
<1>4. CASE QueueMessage(m) \/ Backstop(m)
  <2>1. PICK r \in {Live(m), Queued(m)} : HandOver(r) \/ UNCHANGED handed
    BY <1>4 DEF QueueMessage, Backstop
  <2>2. /\ entry'[n] = entry[n] /\ stage'[n] = stage[n]
        /\ channel' = channel /\ early \subseteq early'
    BY <1>4 DEF QueueMessage, Backstop, IInv, Types
  <2>3. QED
    BY <2>1, <2>2, HandOverApart
<1>5. CASE Flush(m)
  <2>1. FlushedRumor(m) \in {Live(m), Queued(m)} /\ HandOver(FlushedRumor(m))
    BY <1>5, FlushedRumorOf DEF Flush
  <2>2. /\ entry'[n] = entry[n] /\ stage'[n] = stage[n]
        /\ channel' = channel /\ early = early'
    BY <1>5 DEF Flush, IInv, Types
  <2>3. QED
    BY <2>1, <2>2, HandOverApart
<1>6. QED
  BY <1>1, <1>2, <1>3, <1>4, <1>5 DEF Sending

(* Timers are only armed for a rumor that just left, or that leaves.       *)
LEMMA TimersArmed ==
  ASSUME IInv, [Next]_vars
  PROVE  \A i \in Id : tracker'.timer[i] # None =>
           \/ tracker.timer[i] # None
           \/ \E m \in Message :
                \/ MarkSent(m) /\ i = Live(m)
                \/ Flush(m) /\ i = FlushedRumor(m)
<1> USE DEF Armed
<1>1. ASSUME NEW m \in Message, Send(m)
      PROVE  \A i \in Id : tracker'.timer[i] # None => tracker.timer[i] # None
  BY <1>1, SendEffect
<1>2. ASSUME NEW m \in Message, DirectFirst(m) \/ Publish(m)
      PROVE  \A i \in Id : tracker'.timer[i] # None => tracker.timer[i] # None
  BY <1>2, PublishEffect DEF DirectFirst, Publish
<1>3. ASSUME NEW m \in Message, MarkSent(m)
      PROVE  \A i \in Id : tracker'.timer[i] # None =>
               tracker.timer[i] # None \/ i = Live(m)
  BY <1>3, MarkSentEffect
<1>4. ASSUME NEW m \in Message, DirectAcked(m)
      PROVE  \A i \in Id : tracker'.timer[i] # None => tracker.timer[i] # None
  BY <1>4, AcknowledgeEffect, Ids DEF DirectAcked, Answered
<1>5. ASSUME NEW m \in Message, Flush(m)
      PROVE  \A i \in Id : tracker'.timer[i] # None =>
               tracker.timer[i] # None \/ i = FlushedRumor(m)
  <2>1. CASE entry[m].app
    <3>1. PICK r : r = FlushedRumor(m)
      OBVIOUS
    <3>2. Armed(tracker, tracker', {r})
      BY <1>5, <2>1, <3>1, FlushEffect
    <3>3. QED
      BY <3>1, <3>2
  <2>2. CASE ~ entry[m].app
    BY <1>5, <2>2 DEF Flush
  <2>3. QED
    BY <2>1, <2>2
<1>6. ASSUME NEW i \in Id, RetryTimer(i)
      PROVE  \A j \in Id : tracker'.timer[j] # None => tracker.timer[j] # None
  BY <1>6, RetryEffect
<1>7. ASSUME NEW o \in Background, SendOther(o)
      PROVE  \A i \in Id : tracker'.timer[i] # None => tracker.timer[i] # None
  BY <1>7, OtherEffect
<1>8. ASSUME NEW x \in Receipt, HandleReceipt(x)
      PROVE  \A i \in Id : tracker'.timer[i] # None => tracker.timer[i] # None
  BY <1>8, ReceiptCall
<1>9. ASSUME Restart PROVE \A i \in Id : tracker'.timer[i] = None
  BY <1>9 DEF Restart
<1>10. ASSUME NEW m \in Message,
              NotPublished(m) \/ Backstop(m) \/ DirectTimeout(m)
                \/ QueueMessage(m) \/ IngestDirect(m)
       PROVE  UNCHANGED tracker
  BY <1>10
     DEF NotPublished, Backstop, DirectTimeout, QueueMessage, IngestDirect
<1>11. ASSUME \/ \E r \in Rumor : \/ Receive(r) \/ SendReceipt(r)
                                  \/ SendReadReceipt(r) \/ LoseCopy(r)
              \/ \E x \in Receipt : LoseReceipt(x)
              \/ PeerRestart
              \/ UNCHANGED vars
       PROVE  UNCHANGED tracker
  BY <1>11 DEF Receive, SendReceipt, SendReadReceipt, LoseCopy, LoseReceipt,
               PeerRestart, vars, sender
<1>12. QED
  BY <1>1, <1>2, <1>3, <1>4, <1>5, <1>6, <1>7, <1>8, <1>9, <1>10, <1>11
     DEF Next, Sending

LEMMA EntryKept ==
  ASSUME IInv, [Next]_vars, NEW n \in Message, entry'[n] # None,
         entry'[n] = entry[n], channel[n] # "none" => channel'[n] # "none",
         n \in early => n \in early',
         Live(n) \in handed' <=> Live(n) \in handed,
         Queued(n) \in handed' <=> Queued(n) \in handed
  PROVE  EntryOK(n)'
<1>1. Live(n) \in Id /\ Queued(n) \in Id
  BY Ids
<1>2. EntryOK(n)
  BY DEF IInv, Entries
<1>3. ASSUME NEW i \in {Live(n), Queued(n)}, tracker.timer[i] = None
      PROVE  tracker'.timer[i] = None
  <2>1. ASSUME NEW m \in Message, MarkSent(m), i = Live(m) PROVE FALSE
    <3>1. m = n
      BY <2>1 DEF Live, Queued
    <3>2. entry[m] = None
      BY <2>1 DEF MarkSent, IInv, Stages
    <3>3. QED
      BY <3>1, <3>2
  <2>2. ASSUME NEW m \in Message, Flush(m), i = FlushedRumor(m) PROVE FALSE
    <3>1. FlushedRumor(m) \in {Live(m), Queued(m)}
      BY <2>2, FlushedRumorOf DEF Flush
    <3>2. m = n
      BY <2>2, <3>1 DEF Live, Queued
    <3>3. entry'[m] = None
      BY <2>2 DEF Flush, IInv, Types
    <3>4. QED
      BY <3>2, <3>3
  <2>3. QED
    BY <1>1, <1>3, <2>1, <2>2, TimersArmed
<1>4. QED
  BY <1>2, <1>3 DEF EntryOK

LEMMA EntriesStep ==
  ASSUME IInv, [Next]_vars
  PROVE  Entries'
<1> SUFFICES ASSUME NEW n \in Message, entry'[n] # None
             PROVE  EntryOK(n)'
  BY DEF Entries, EntryOK
<1>0. Types /\ Stages /\ EntryOK(n) /\ Origins /\ Live(n) # Queued(n)
      /\ Live(n) \in Id /\ Queued(n) \in Id
  BY Ids DEF IInv, Entries
<1>1. ASSUME NEW m \in Message, n # m, Send(m) \/ Sending(m) \/ IngestDirect(m)
      PROVE  EntryOK(n)'
  <2>1. Apart(n)
    BY <1>1, SendingApart
  <2>2. QED
    BY <2>1, EntryKept DEF Apart
<1>2. CASE Send(n) \/ NotPublished(n) \/ MarkSent(n) \/ DirectTimeout(n)
             \/ IngestDirect(n)
  BY <1>0, <1>2, EntryKept
     DEF Send, NotPublished, MarkSent, DirectTimeout, IngestDirect, noted, Types
<1>3. CASE DirectFirst(n) \/ Publish(n)
  BY <1>0, <1>3 DEF DirectFirst, Publish, Stages
<1>4. CASE DirectAcked(n) \/ Backstop(n)
  <2>1. CASE DirectAcked(n)
    BY <1>0, <2>1, EntryKept DEF DirectAcked, Types
  <2>2. CASE Backstop(n)
    <3>1. entry'[n] = [rumor |-> Live(n), app |-> FALSE] /\ channel'[n] # "none"
      BY <1>0, <2>2 DEF Backstop, Types, Stages
    <3>2. QED
      BY <3>1 DEF EntryOK
  <2>3. QED
    BY <1>4, <2>1, <2>2
<1>5. CASE QueueMessage(n)
  <2>1. /\ Live(n) \notin handed /\ Queued(n) \notin handed
        /\ tracker' = tracker /\ channel' = channel /\ entry[n] = None
    BY <1>0, <1>5 DEF QueueMessage, Stages
  <2>2. tracker.timer[Live(n)] = None /\ tracker.timer[Queued(n)] = None
    BY <1>0, <2>1 DEF Origins
  <2>3. /\ entry'[n].rumor \in {Queued(n), Live(n), None}
        /\ entry'[n].rumor = Live(n) => channel[n] # "none"
    <3>1. \E r \in {Queued(n), Live(n), None} :
            /\ entry'[n] = [rumor |-> r, app |-> TRUE]
            /\ r = Live(n) => channel[n] # "none"
      <4>1. None # Live(n) /\ None # Queued(n)
        BY Ids, ConstantsAssumption
      <4>2. QED
        BY <1>0, <1>5, <2>1, <4>1 DEF QueueMessage, Types
    <3>2. QED
      BY <3>1
  <2>4. n \notin early' => handed' = handed
    BY <1>5 DEF QueueMessage
  <2>5. QED
    BY <2>1, <2>2, <2>3, <2>4 DEF EntryOK
<1>6. CASE Flush(n)
  BY <1>0, <1>6 DEF Flush, Types
<1>7. ASSUME NEW i \in Id, RetryTimer(i) PROVE EntryOK(n)'
  BY <1>7, RetryHandsNothingNew, EntryKept
<1>8. ASSUME Aside PROVE EntryOK(n)'
  BY <1>8, AsideKeeps, EntryKept
<1>9. ASSUME Restart PROVE EntryOK(n)'
  BY <1>0, <1>9, EntryKept DEF Restart, Types
<1>10. QED
  BY <1>1, <1>2, <1>3, <1>4, <1>5, <1>6, <1>7, <1>8, <1>9
     DEF Next, Sending, Aside

(* What only grows.                                                        *)
Grows ==
  /\ handed \subseteq handed' /\ settled \subseteq settled'
  /\ vouched \subseteq vouched' /\ early \subseteq early'
  /\ unbacked \subseteq unbacked'
  /\ \A m \in Message : channel[m] # "none" => channel'[m] # "none"
  /\ \A m \in Message : Begun(m) => Begun(m)'
  /\ file' = file

LEMMA GrowsStep ==
  ASSUME IInv, [Next]_vars
  PROVE  Grows
<1> USE DEF Grows, Begun
<1>0. Types
  BY DEF IInv
<1>1. ASSUME NEW m \in Message, Send(m) \/ NotPublished(m) \/ MarkSent(m)
      PROVE  Grows
  BY <1>0, <1>1 DEF Send, NotPublished, MarkSent, peer, noted, Types
<1>2. ASSUME NEW m \in Message, DirectFirst(m) \/ Publish(m) PROVE Grows
  BY <1>0, <1>2 DEF DirectFirst, Publish, HandOver, peer, Types
<1>3. ASSUME NEW m \in Message,
             DirectAcked(m) \/ DirectTimeout(m) \/ IngestDirect(m)
      PROVE  Grows
  BY <1>0, <1>3 DEF DirectAcked, DirectTimeout, IngestDirect, peer, noted, Types
<1>4. ASSUME NEW m \in Message, QueueMessage(m) \/ Backstop(m) \/ Flush(m)
      PROVE  Grows
  BY <1>0, <1>4 DEF QueueMessage, Backstop, Flush, HandOver, peer, Types
<1>5. ASSUME NEW i \in Id, RetryTimer(i) PROVE Grows
  BY <1>5, RetryHandsNothingNew
<1>6. ASSUME Aside PROVE Grows
  <2>1. settled \subseteq settled'
    BY <1>6 DEF Aside, SendOther, HandleReceipt, LoseReceipt, Receive,
         SendReceipt, SendReadReceipt, LoseCopy, PeerRestart, vars, peer,
         Peer!Keep, Peer!GiveUp, Peer!Acknowledge
  <2>2. QED
    BY <1>6, <2>1, AsideKeeps
<1>7. ASSUME Restart PROVE Grows
  BY <1>0, <1>7 DEF Restart, peer, Types
<1>8. QED
  BY <1>1, <1>2, <1>3, <1>4, <1>5, <1>6, <1>7 DEF Next, Sending, Aside

LEMMA OneRumorStep ==
  ASSUME IInv, [Next]_vars
  PROVE  OneRumor'
<1> SUFFICES ASSUME NEW n \in Message
             PROVE  ~ (LiveOut(n) /\ QueuedOut(n))'
  BY DEF OneRumor
<1> USE DEF LiveOut, QueuedOut
<1>0. Types /\ Stages /\ EntryOK(n) /\ ~ (LiveOut(n) /\ QueuedOut(n))
      /\ Live(n) # Queued(n)
  BY Ids DEF IInv, Entries, OneRumor
<1>1. ASSUME NEW m \in Message, n # m, Send(m) \/ Sending(m) \/ IngestDirect(m)
      PROVE  ~ (LiveOut(n) /\ QueuedOut(n))'
  BY <1>0, <1>1, SendingApart DEF Apart
<1>2. CASE Send(n) \/ NotPublished(n) \/ MarkSent(n) \/ DirectTimeout(n)
             \/ IngestDirect(n)
  BY <1>0, <1>2
     DEF Send, NotPublished, MarkSent, DirectTimeout, IngestDirect, noted, Types
<1>3. CASE DirectFirst(n) \/ Publish(n)
  <2>1. entry'[n] = None /\ Queued(n) \notin handed'
    BY <1>0, <1>3 DEF DirectFirst, Publish, HandOver, Stages
  <2>2. QED
    BY <2>1
<1>4. CASE DirectAcked(n) \/ Backstop(n)
  <2>1. CASE DirectAcked(n)
    BY <1>0, <2>1 DEF DirectAcked, Types
  <2>2. CASE Backstop(n)
    <3>1. Queued(n) \notin handed' /\ entry'[n].rumor = Live(n)
      BY <1>0, <2>2 DEF Backstop, HandOver, Types, Stages
    <3>2. QED
      BY <3>1
  <2>3. QED
    BY <1>4, <2>1, <2>2
<1>5. CASE QueueMessage(n)
  <2>1. /\ Live(n) \notin handed /\ Queued(n) \notin handed
        /\ channel' = channel
    BY <1>0, <1>5 DEF QueueMessage, Stages
  <2>2. CASE channel[n] # "none"
    <3>1. /\ entry'[n] \in {entry[n], [rumor |-> Live(n), app |-> TRUE]}
          /\ HandOver(Live(n)) \/ UNCHANGED handed
      BY <1>0, <1>5, <2>2 DEF QueueMessage, Types
    <3>2. /\ entry'[n] = None \/ entry'[n].rumor = Live(n)
          /\ Queued(n) \notin handed'
      BY <1>0, <1>5, <2>1, <3>1 DEF HandOver, QueueMessage, Stages
    <3>3. QED
      BY <3>2
  <2>3. CASE channel[n] = "none"
    <3>1. HandOver(Queued(n)) \/ UNCHANGED handed
      BY <1>5, <2>3 DEF QueueMessage
    <3>2. QED
      BY <1>0, <2>1, <2>3, <3>1 DEF HandOver
  <2>4. QED
    BY <2>2, <2>3
<1>6. CASE Flush(n)
  <2>1. /\ entry'[n] = None /\ channel' = channel /\ entry[n] # None
        /\ handed' = handed \cup {FlushedRumor(n)}
    BY <1>0, <1>6 DEF Flush, HandOver, Types
  <2>2. CASE entry[n].rumor = Live(n)
    <3>1. FlushedRumor(n) = Live(n) /\ channel[n] # "none"
      <4>1. None # Live(n)
        BY Ids, ConstantsAssumption
      <4>2. QED
        BY <1>0, <2>1, <2>2, <4>1 DEF FlushedRumor, EntryOK
    <3>2. QED
      BY <1>0, <2>1, <3>1
  <2>3. CASE entry[n].rumor # Live(n)
    <3>1. FlushedRumor(n) = Queued(n)
      BY <1>0, <2>1, <2>3 DEF FlushedRumor, EntryOK
    <3>2. QED
      BY <1>0, <2>1, <2>3, <3>1
  <2>4. QED
    BY <2>2, <2>3
<1>7. ASSUME NEW i \in Id, RetryTimer(i)
      PROVE  ~ (LiveOut(n) /\ QueuedOut(n))'
  BY <1>0, <1>7, RetryHandsNothingNew
<1>8. ASSUME Aside PROVE ~ (LiveOut(n) /\ QueuedOut(n))'
  BY <1>0, <1>8, AsideKeeps
<1>9. ASSUME Restart PROVE ~ (LiveOut(n) /\ QueuedOut(n))'
  BY <1>0, <1>9 DEF Restart, Types
<1>10. QED
  BY <1>1, <1>2, <1>3, <1>4, <1>5, <1>6, <1>7, <1>8, <1>9
     DEF Next, Sending, Aside

LEMMA VouchedStep ==
  ASSUME IInv, [Next]_vars
  PROVE  Vouched'
<1> DEFINE V(n) == \/ Live(n) \in handed
                   \/ entry[n] # None /\ entry[n].rumor = Live(n)
                   \/ stage[n] = "backstop"
                   \/ n \in unbacked
<1> SUFFICES ASSUME NEW n \in vouched'
             PROVE  V(n)'
  BY DEF Vouched
<1>0. /\ Types /\ Stages
      /\ handed \subseteq handed' /\ unbacked \subseteq unbacked'
      /\ n \in vouched => n \in Message /\ EntryOK(n) /\ V(n)
  <2>1. n \in vouched => n \in Message
    BY DEF IInv, Types
  <2>2. n \in vouched => V(n)
    BY DEF IInv, Vouched
  <2>3. n \in vouched => EntryOK(n)
    BY <2>1 DEF IInv, Entries
  <2>4. QED
    BY <2>1, <2>2, <2>3, GrowsStep DEF IInv, Grows
<1>1. ASSUME n \in vouched, entry'[n] = entry[n],
             stage[n] = "backstop" => stage'[n] = "backstop" \/ n \in unbacked'
      PROVE  V(n)'
  BY <1>0, <1>1
<1>2. ASSUME NEW m \in Message, n # m, Send(m) \/ Sending(m) \/ IngestDirect(m)
      PROVE  V(n)'
  <2>1. n \in vouched
    BY <1>0, <1>2 DEF Send, Sending, DirectFirst, Publish, NotPublished, MarkSent,
       DirectAcked, Backstop, DirectTimeout, QueueMessage, Flush, IngestDirect,
       noted
  <2>2. QED
    BY <1>0, <1>1, <1>2, <2>1, SendingApart DEF Apart
<1>3. CASE n \in Message /\ (Send(n) \/ NotPublished(n) \/ MarkSent(n)
             \/ DirectTimeout(n) \/ IngestDirect(n) \/ DirectFirst(n)
             \/ Publish(n))
  <2>1. /\ n \in vouched /\ entry' = entry
        /\ stage[n] = "backstop" => stage'[n] = "backstop"
    BY <1>0, <1>3 DEF Send, NotPublished, MarkSent, DirectTimeout, IngestDirect,
                DirectFirst, Publish, noted, Types
  <2>2. QED
    BY <1>1, <2>1
<1>4. CASE n \in Message /\ DirectAcked(n)
  <2>1. channel[n] = "ok" /\ (stage[n] = "direct" \/ Live(n) \in handed)
    BY <1>0, <1>4 DEF DirectAcked, Stages
  <2>2. CASE stage[n] = "direct"
    BY <1>0, <1>4, <2>2 DEF DirectAcked, Types
  <2>3. CASE Live(n) \in handed
    BY <1>0, <2>3
  <2>4. QED
    BY <2>1, <2>2, <2>3
<1>11. CASE n \in Message /\ Backstop(n)
  <2>1. /\ entry'[n] = [rumor |-> Live(n), app |-> FALSE]
        /\ Live(n) \in Rumor
    BY <1>0, <1>11, Ids DEF Backstop, Types
  <2>2. entry'[n] \in Entry /\ entry'[n].rumor = Live(n)
    BY <2>1 DEF Entry
  <2>3. entry'[n] # None
    BY <2>2, ConstantsAssumption
  <2>4. QED
    BY <2>2, <2>3
<1>5. CASE n \in Message /\ QueueMessage(n)
  <2>1. /\ n \in vouched /\ Live(n) \notin handed /\ entry[n] = None
        /\ stage[n] = "queue"
    BY <1>0, <1>5 DEF QueueMessage, Stages
  <2>2. QED
    BY <1>0, <2>1
<1>6. CASE n \in Message /\ Flush(n)
  <2>1. /\ n \in vouched /\ entry[n] # None /\ stage' = stage
        /\ handed' = handed \cup {FlushedRumor(n)}
    BY <1>6 DEF Flush, HandOver
  <2>2. CASE entry[n].rumor = Live(n)
    <3>1. FlushedRumor(n) = Live(n)
      BY <1>6, <2>2, Ids, ConstantsAssumption DEF FlushedRumor
    <3>2. QED
      BY <2>1, <3>1
  <2>3. CASE entry[n].rumor # Live(n)
    BY <1>0, <2>1, <2>3
  <2>4. QED
    BY <2>2, <2>3
<1>7. ASSUME NEW i \in Id, RetryTimer(i) PROVE V(n)'
  BY <1>1, <1>7, RetryHandsNothingNew
<1>8. ASSUME Aside PROVE V(n)'
  BY <1>1, <1>8, AsideKeeps
<1>9. ASSUME Restart PROVE V(n)'
  BY <1>0, <1>1, <1>9 DEF Restart
<1>10. QED
  BY <1>2, <1>3, <1>4, <1>5, <1>6, <1>7, <1>8, <1>9, <1>11
     DEF Next, Sending, Aside

LEMMA OriginsStep ==
  ASSUME IInv, [Next]_vars
  PROVE  Origins'
<1>0. Types /\ Stages /\ Origins /\ Grows
  BY GrowsStep DEF IInv
<1>1. \A r \in Rumor : copies'[r] > 0 => r \in handed'
  <2> SUFFICES ASSUME NEW r \in Rumor, copies'[r] > 0, r \notin handed'
               PROVE  FALSE
    OBVIOUS
  <2>1. r \notin handed /\ ~ (copies[r] > 0) /\ copies[r] \in Nat
    BY <1>0 DEF Grows, Origins, Types
  <2>2. ASSUME NEW q, HandOver(q) PROVE FALSE
    BY <1>0, <2>1, <2>2 DEF HandOver, Types
  <2>3. ASSUME NEW q \in Rumor, LoseCopy(q) PROVE FALSE
    <3>1. copies[q] \in Nat /\ copies'[r] \in Int /\ copies'[r] <= copies[r]
      BY <1>0, <2>1, <2>3 DEF LoseCopy, Types
    <3>2. QED
      BY <2>1, <3>1
  <2>4. ASSUME UNCHANGED copies PROVE FALSE
    BY <2>1, <2>4
  <2>5. ASSUME NEW i \in Id, RetryTimer(i) PROVE FALSE
    BY <2>2, <2>4, <2>5, RetryEffect
  <2>6. QED
    BY <2>2, <2>3, <2>4, <2>5
       DEF Next, Sending, Send, DirectFirst, Publish, NotPublished, MarkSent,
           DirectAcked, Backstop, DirectTimeout, QueueMessage, Flush, SendOther,
           HandleReceipt, Restart, IngestDirect, Receive, SendReceipt,
           SendReadReceipt, PeerRestart, LoseReceipt, vars
<1>2. ASSUME NEW m \in Message
      PROVE  /\ Live(m) \in (pending \cup settled)' => Begun(m)'
             /\ Queued(m) \in (pending \cup settled)' => Queued(m) \in handed'
  <2>0. /\ Begun(m) => Begun(m)'
        /\ Queued(m) \in handed => Queued(m) \in handed'
        /\ Live(m) \in Rumor /\ Queued(m) \in Rumor
    BY <1>0, Ids DEF Grows
  <2>1. ASSUME UNCHANGED <<pending, settled>>
        PROVE  /\ Live(m) \in (pending \cup settled)' => Begun(m)'
               /\ Queued(m) \in (pending \cup settled)' => Queued(m) \in handed'
    BY <1>0, <2>0, <2>1 DEF Origins
  <2>2. ASSUME NEW n \in Message, DirectTimeout(n) \/ IngestDirect(n) \/ Publish(n)
        PROVE  /\ Live(m) \in (pending \cup settled)' => Begun(m)'
               /\ Queued(m) \in (pending \cup settled)' => Queued(m) \in handed'
    <3>1. /\ pending' \subseteq pending \cup {Live(n)} /\ settled' = settled
          /\ Begun(n)'
      BY <1>0, <2>2
         DEF DirectTimeout, IngestDirect, Publish, Begun, Stages, Types, noted
    <3>2. Live(n) = Live(m) => n = m
      BY DEF Live
    <3>3. Live(n) # Queued(m)
      BY DEF Live, Queued
    <3>4. QED
      BY <1>0, <2>0, <3>1, <3>2, <3>3 DEF Origins
  <2>3. ASSUME NEW r \in Rumor, Receive(r)
        PROVE  /\ Live(m) \in (pending \cup settled)' => Begun(m)'
               /\ Queued(m) \in (pending \cup settled)' => Queued(m) \in handed'
    <3>1. /\ pending' \subseteq pending /\ settled' = settled \cup {r}
          /\ r \in pending \/ r \in handed
      BY <1>0, <2>3 DEF Receive, Peer!Keep, Peer!GiveUp, Origins
    <3>2. Live(m) \in handed => Begun(m)
      BY <1>0 DEF Begun, Stages
    <3>3. QED
      BY <1>0, <2>0, <3>1, <3>2 DEF Origins
  <2>4. ASSUME PeerRestart
        PROVE  /\ Live(m) \in (pending \cup settled)' => Begun(m)'
               /\ Queued(m) \in (pending \cup settled)' => Queued(m) \in handed'
    BY <1>0, <2>0, <2>4 DEF PeerRestart, Origins
  <2>5. ASSUME NEW i \in Id, RetryTimer(i) PROVE UNCHANGED <<pending, settled>>
    BY <2>5, RetryHandsNothingNew
  <2>6. QED
    BY <2>1, <2>2, <2>3, <2>4, <2>5
       DEF Next, Sending, Send, DirectFirst, NotPublished, MarkSent,
           DirectAcked, Backstop, QueueMessage, Flush, SendOther, HandleReceipt, Restart,
           SendReceipt, SendReadReceipt, LoseCopy, LoseReceipt,
           Peer!Acknowledge, peer, vars
<1>3. ASSUME NEW i \in Id, tracker'.timer[i] # None PROVE i \in handed'
  <2>1. CASE tracker.timer[i] # None
    BY <1>0, <2>1 DEF Origins, Grows
  <2>2. ASSUME NEW m \in Message, MarkSent(m), i = Live(m) PROVE i \in handed'
    BY <1>0, <2>2 DEF MarkSent, Stages, Grows
  <2>3. ASSUME NEW m \in Message, Flush(m), i = FlushedRumor(m)
        PROVE  i \in handed'
    BY <2>3 DEF Flush, HandOver
  <2>4. QED
    BY <1>3, <2>1, <2>2, <2>3, TimersArmed
<1>4. ASSUME NEW x \in receipts' PROVE \E r \in settled' : x.id = ReceiptId(r)'
  <2>0. \A r : ReceiptId(r)' = ReceiptId(r)
    BY <1>0 DEF Grows, ReceiptId
  <2>1. CASE x \in receipts
    BY <1>0, <2>0, <2>1 DEF Origins, Grows
  <2>2. ASSUME NEW r \in Rumor, SendReceipt(r) \/ SendReadReceipt(r),
               x \notin receipts
        PROVE  \E q \in settled' : x.id = ReceiptId(q)'
    <3>1. r \in settled /\ x.id = ReceiptId(r)
      BY <1>0, <2>2 DEF SendReceipt, SendReadReceipt, Types
    <3>2. QED
      BY <1>0, <2>0, <3>1 DEF Grows
  <2>3. ASSUME x \notin receipts, receipts' \subseteq receipts PROVE FALSE
    BY <1>4, <2>3
  <2>4. ASSUME NEW i \in Id, RetryTimer(i) PROVE UNCHANGED receipts
    BY <2>4, RetryHandsNothingNew
  <2>5. QED
    BY <2>1, <2>2, <2>3, <2>4
       DEF Next, Sending, Send, DirectFirst, Publish, NotPublished, MarkSent,
           DirectAcked, Backstop, DirectTimeout, QueueMessage, Flush, SendOther,
           HandleReceipt, Restart, IngestDirect, Receive, LoseCopy, LoseReceipt,
           PeerRestart, vars
<1>5. QED
  BY <1>1, <1>2, <1>3, <1>4 DEF Origins

(* Who may touch the ticks of a message.                                   *)
LEMMA SendingTicks ==
  ASSUME IInv, NEW m \in Message, Send(m) \/ Sending(m) \/ IngestDirect(m),
         NEW i \in Id, i[1] # m
  PROVE  tracker'.tick[i] = tracker.tick[i]
<1>0. /\ i # App(m) /\ i # Live(m) /\ i # Queued(m)
      /\ tracker.tick \in [Id -> Tick] /\ Live(m) \in Id
  BY Ids DEF IInv, Tracking, TrackerOK
<1>1. CASE Send(m)
  BY <1>0, <1>1, SendEffect
<1>2. CASE DirectFirst(m) \/ Publish(m)
  <2>1. tracker'.tick = Moved(tracker.tick, m, Live(m))
    BY <1>2, PublishEffect DEF DirectFirst, Publish
  <2>2. QED
    BY <1>0, <2>1 DEF Moved
<1>3. CASE MarkSent(m)
  BY <1>0, <1>3, MarkSentEffect
<1>4. CASE DirectAcked(m)
  <2>1. \/ tracker'.tick = tracker.tick
        \/ tracker'.tick = [tracker.tick EXCEPT ![Live(m)] = "delivered"]
    BY <1>0, <1>4, AcknowledgeEffect DEF DirectAcked, Answered
  <2>2. QED
    BY <1>0, <2>1
<1>5. CASE Flush(m)
  <2>1. CASE entry[m].app
    <3>1. PICK r : r = FlushedRumor(m) /\ r \in {Live(m), Queued(m)}
      BY <1>5, FlushedRumorOf DEF Flush
    <3>2. PICK moved : /\ moved = Moved(tracker.tick, m, r)
                       /\ tracker'.tick = IF moved[r] \in High THEN moved
                                          ELSE [moved EXCEPT ![r] = "sent"]
      BY <1>5, <2>1, <3>1, FlushEffect
    <3>3. moved[i] = tracker.tick[i] /\ DOMAIN moved = Id
      BY <1>0, <3>1, <3>2 DEF Moved
    <3>4. QED
      BY <1>0, <3>1, <3>2, <3>3
  <2>2. CASE ~ entry[m].app
    BY <1>5, <2>2 DEF Flush
  <2>3. QED
    BY <2>1, <2>2
<1>6. CASE NotPublished(m) \/ Backstop(m) \/ DirectTimeout(m)
             \/ QueueMessage(m) \/ IngestDirect(m)
  BY <1>6 DEF NotPublished, Backstop, DirectTimeout, QueueMessage, IngestDirect
<1>7. QED
  BY <1>1, <1>2, <1>3, <1>4, <1>5, <1>6 DEF Sending

LEMMA AsideTicks ==
  ASSUME IInv, Aside
  PROVE  \/ tracker'.tick = tracker.tick
         \/ \E x \in Receipt : HandleReceipt(x)
<1>1. ASSUME NEW o \in Background, SendOther(o)
      PROVE  tracker'.tick = tracker.tick
  BY <1>1, OtherEffect
<1>2. QED
  BY <1>1 DEF Aside, Receive, SendReceipt, SendReadReceipt, LoseCopy,
              LoseReceipt, PeerRestart, vars, sender

(* A receipt is of a settled rumor, and names the app id of a file.        *)
LEMMA ReceiptEffect ==
  ASSUME IInv, NEW x \in Receipt, HandleReceipt(x)
  PROVE  \E r \in settled, state \in Answered :
           /\ r \in Rumor /\ x.id = ReceiptId(r) /\ x.id \in Id
           /\ x.id[1] = r[1]
           /\ \/ tracker'.tick = tracker.tick
              \/ tracker'.tick = [tracker.tick EXCEPT ![x.id] = state]
           /\ \A j \in Id : tracker.tick[j] = "read" => tracker'.tick[j] = "read"
<1>1. PICK r \in settled : x.id = ReceiptId(r)
  BY DEF HandleReceipt, IInv, Origins
<1>2. r \in Rumor /\ x.id \in Id /\ x.id[1] = r[1]
  <2>1. r \in Rumor
    BY DEF IInv, Types
  <2>2. r[1] \in Message /\ r \in Id
    BY <2>1, RumorIds
  <2>3. App(r[1]) \in Id /\ App(r[1])[1] = r[1]
    BY <2>2, Ids
  <2>4. QED
    BY <1>1, <2>1, <2>2, <2>3 DEF ReceiptId
<1>3. QED
  BY <1>1, <1>2, ReceiptCall

LEMMA ShowsWhat ==
  ASSUME Tracking, NEW m
  PROVE  /\ Shown(m, "sent") <=>
              \E i \in Id : i[1] = m /\ tracker.tick[i] \in High
         /\ Shown(m, "delivered") <=>
              \E i \in Id : i[1] = m /\ tracker.tick[i] \in Answered
         /\ Shown(m, "read") <=>
              \E i \in Id : i[1] = m /\ tracker.tick[i] = "read"
BY Ranks DEF Tracking, Shown

LEMMA ShowsWhatNext ==
  ASSUME Tracking', NEW m
  PROVE  /\ Shown(m, "sent")' <=>
              \E i \in Id : i[1] = m /\ tracker'.tick[i] \in High
         /\ Shown(m, "delivered")' <=>
              \E i \in Id : i[1] = m /\ tracker'.tick[i] \in Answered
         /\ Shown(m, "read")' <=>
              \E i \in Id : i[1] = m /\ tracker'.tick[i] = "read"
BY Ranks DEF Tracking, Shown

(* Where the second tick of an id comes from.                              *)
LEMMA AnswerComesFrom ==
  ASSUME IInv, [Next]_vars, NEW i \in Id, tracker'.tick[i] \in Answered,
         i[1] \in Message
  PROVE  \/ \E j \in Id : j[1] = i[1] /\ tracker.tick[j] \in Answered
         \/ i[1] \in vouched'
         \/ \E r \in settled : r[1] = i[1]
<1> DEFINE m == i[1]
           Goal == \/ \E j \in Id : j[1] = m /\ tracker.tick[j] \in Answered
                   \/ m \in vouched'
                   \/ \E r \in settled : r[1] = m
<1>0. /\ tracker.tick \in [Id -> Tick] /\ Types
      /\ App(m) \in Id /\ Live(m) \in Id /\ Queued(m) \in Id
      /\ App(m)[1] = m /\ Live(m)[1] = m /\ Queued(m)[1] = m
      /\ "sending" \notin Answered /\ "sent" \notin Answered
      /\ "none" \notin Answered
  BY Ids DEF IInv, Tracking, TrackerOK, Answered
<1> HIDE DEF m
<1>m. i[1] = m /\ m \in Message
  BY DEF m
<1>1. ASSUME tracker'.tick[i] = tracker.tick[i] PROVE Goal
  BY <1>1, <1>m
<1>2. ASSUME NEW n \in Message, n # m, Send(n) \/ Sending(n) \/ IngestDirect(n)
      PROVE  Goal
  BY <1>1, <1>2, <1>m, SendingTicks
<1>3. CASE Send(m)
  <2>1. tracker'.tick = [tracker.tick EXCEPT ![App(m)] = "sending"]
    BY <1>3, <1>m, SendEffect
  <2>2. QED
    BY <1>0, <1>m, <2>1
<1>4. CASE DirectFirst(m) \/ Publish(m)
  <2>1. tracker'.tick = Moved(tracker.tick, m, Live(m))
    BY <1>4, <1>m, PublishEffect DEF DirectFirst, Publish
  <2>2. QED
    BY <1>0, <1>m, <2>1 DEF Moved
<1>5. CASE MarkSent(m)
  BY <1>0, <1>5, <1>m, MarkSentEffect
<1>6. CASE DirectAcked(m)
  BY <1>6, <1>m DEF DirectAcked
<1>7. CASE Flush(m)
  <2>1. CASE entry[m].app
    <3>1. PICK r : r = FlushedRumor(m) /\ r \in {Live(m), Queued(m)}
      BY <1>7, <1>m, FlushedRumorOf DEF Flush
    <3>2. PICK moved : /\ moved = Moved(tracker.tick, m, r)
                       /\ tracker'.tick = IF moved[r] \in High THEN moved
                                          ELSE [moved EXCEPT ![r] = "sent"]
      BY <1>7, <1>m, <2>1, <3>1, FlushEffect
    <3>3. /\ moved[i] \in Answered =>
               \E j \in Id : j[1] = m /\ tracker.tick[j] \in Answered
          /\ DOMAIN moved = Id
      BY <1>0, <1>m, <3>1, <3>2 DEF Moved
    <3>4. moved[i] \in Answered
      BY <1>0, <3>1, <3>2, <3>3
    <3>5. QED
      BY <1>m, <3>3, <3>4
  <2>2. CASE ~ entry[m].app
    BY <1>1, <1>7, <2>2 DEF Flush
  <2>3. QED
    BY <2>1, <2>2
<1>8. CASE NotPublished(m) \/ Backstop(m) \/ DirectTimeout(m)
             \/ QueueMessage(m) \/ IngestDirect(m)
  BY <1>1, <1>8 DEF NotPublished, Backstop, DirectTimeout, QueueMessage, IngestDirect
<1>9. ASSUME NEW k \in Id, RetryTimer(k) PROVE Goal
  BY <1>1, <1>9, RetryEffect
<1>10. ASSUME NEW x \in Receipt, HandleReceipt(x) PROVE Goal
  <2>1. PICK r \in settled :
          /\ x.id[1] = r[1] /\ x.id \in Id
          /\ \A j \in Id \ {x.id} : tracker'.tick[j] = tracker.tick[j]
    BY <1>0, <1>10, ReceiptEffect
  <2>2. CASE i = x.id
    BY <2>1, <2>2, <1>m
  <2>3. CASE i # x.id
    BY <1>1, <2>1, <2>3
  <2>4. QED
    BY <2>2, <2>3
<1>11. ASSUME Aside PROVE Goal
  BY <1>1, <1>10, <1>11, AsideTicks
<1>12. CASE Restart
  <2>1. tracker'.tick[i] = "none"
    BY <1>12 DEF Restart
  <2>2. QED
    BY <1>0, <2>1
<1>13. Goal
  BY <1>2, <1>3, <1>4, <1>5, <1>6, <1>7, <1>8, <1>9, <1>11, <1>12, <1>m
     DEF Next, Sending, Aside
<1>14. QED
  BY <1>13 DEF m

LEMMA ShowsStep ==
  ASSUME IInv, [Next]_vars
  PROVE  Shows'
<1> SUFFICES ASSUME NEW m \in Message, Shown(m, "delivered")'
             PROVE  Settled(m)' \/ m \in vouched'
  BY DEF Shows
<1>1. PICK i \in Id : i[1] = m /\ tracker'.tick[i] \in Answered
  BY TrackingStep, ShowsWhatNext
<1>2. CASE \E j \in Id : j[1] = m /\ tracker.tick[j] \in Answered
  <2>1. Shown(m, "delivered")
    BY <1>2, ShowsWhat DEF IInv
  <2>2. Settled(m) \/ m \in vouched
    BY <2>1 DEF IInv, Shows
  <2>3. QED
    BY <2>2, GrowsStep DEF Grows, Settled
<1>3. CASE \E r \in settled : r[1] = m
  BY <1>3, GrowsStep DEF Grows, Settled
<1>4. QED
  BY <1>1, <1>2, <1>3, AnswerComesFrom

(* A message that a settled rumor or a receipt can name is out.            *)
LEMMA SettledIsOut ==
  ASSUME IInv, NEW m \in Message, NEW r \in settled, r[1] = m
  PROVE  /\ stage[m] \notin {"new", "saved"}
         /\ r = Queued(m) => Queued(m) \in handed
         /\ r \in {Live(m), Queued(m)}
<1>1. r \in {Live(m), Queued(m)}
  BY RumorIds DEF IInv, Types
<1>2. /\ r = Live(m) => Begun(m)
      /\ r = Queued(m) => Queued(m) \in handed
  BY DEF IInv, Origins
<1>3. QED
  BY <1>1, <1>2 DEF IInv, Stages, Begun

LEMMA TicksStep ==
  ASSUME IInv, [Next]_vars
  PROVE  Ticks'
<1> SUFFICES ASSUME NEW n \in Message
             PROVE  TicksOf(n)'
  BY DEF Ticks
<1>0. /\ TicksOf(n) /\ Types /\ Stages /\ EntryOK(n) /\ Grows
      /\ App(n) \in Id /\ Live(n) \in Id /\ Queued(n) \in Id
      /\ App(n)[1] = n /\ Live(n)[1] = n /\ Queued(n)[1] = n
      /\ App(n) # Live(n) /\ App(n) # Queued(n) /\ Live(n) # Queued(n)
      /\ \A i \in Id : i[1] = n => i \in {App(n), Live(n), Queued(n)}
      /\ tracker.tick \in [Id -> Tick]
      /\ "sending" \notin High /\ "none" \notin High
  BY Ids, GrowsStep DEF IInv, Entries, Ticks, Tracking, TrackerOK, High
<1>1. ASSUME \A i \in Id : i[1] = n => tracker'.tick[i] = tracker.tick[i],
             stage'[n] \in {"new", "saved"} => stage[n] \in {"new", "saved"},
             channel'[n] # "none" => channel[n] # "none",
             Waits(n)' => Waits(n)
      PROVE  TicksOf(n)'
  BY <1>0, <1>1 DEF TicksOf, Grows
<1>2. ASSUME NEW m \in Message, n # m, Send(m) \/ Sending(m) \/ IngestDirect(m)
      PROVE  TicksOf(n)'
  <2>1. Apart(n) /\ (Waits(n)' => Waits(n))
    BY <1>2, SendingApart DEF Apart, Waits
  <2>2. \A i \in Id : i[1] = n => tracker'.tick[i] = tracker.tick[i]
    BY <1>2, SendingTicks
  <2>3. QED
    BY <1>1, <2>1, <2>2 DEF Apart
<1>3. CASE Send(n)
  <2>1. tracker'.tick = [tracker.tick EXCEPT ![App(n)] = "sending"]
    BY <1>3, SendEffect
  <2>2. /\ stage[n] = "new" /\ stage'[n] = "saved" /\ channel'[n] = "none"
        /\ entry'[n] = None
    BY <1>0, <1>3 DEF Send, Types, Stages
  <2>3. QED
    BY <1>0, <2>1, <2>2 DEF TicksOf, Waits, Grows
<1>4. CASE DirectFirst(n) \/ Publish(n)
  <2>1. tracker'.tick = Moved(tracker.tick, n, Live(n))
    BY <1>4, PublishEffect DEF DirectFirst, Publish
  <2>2. stage[n] = "saved" /\ stage'[n] \in {"row", "direct", "queue"}
    BY <1>0, <1>4 DEF DirectFirst, Publish, Types
  <2>3. /\ tracker'.tick[App(n)] = "none"
        /\ tracker'.tick[Live(n)] \notin High
        /\ tracker'.tick[Queued(n)] = tracker.tick[Queued(n)]
    BY <1>0, <2>1, <2>2 DEF Moved, TicksOf
  <2>4. QED
    BY <1>0, <2>2, <2>3 DEF TicksOf, Grows
<1>5. CASE NotPublished(n)
  <2>1. /\ stage[n] = "saved" /\ stage'[n] = "queue" /\ entry'[n] = None
        /\ channel'[n] = "none" /\ tracker' = tracker
    BY <1>0, <1>5 DEF NotPublished, Types, Stages
  <2>2. QED
    BY <1>0, <2>1 DEF TicksOf, Grows
<1>6. CASE MarkSent(n)
  <2>1. /\ stage'[n] = "done" /\ entry'[n] = None /\ channel' = channel
    BY <1>0, <1>6 DEF MarkSent, Types, Stages
  <2>2. \A i \in Id : i # Live(n) => tracker'.tick[i] = tracker.tick[i]
    BY <1>0, <1>6, MarkSentEffect
  <2>3. QED
    BY <1>0, <2>1, <2>2 DEF TicksOf, Waits, Grows
<1>7. CASE DirectAcked(n)
  <2>1. \A i \in Id : i # Live(n) => tracker'.tick[i] = tracker.tick[i]
    <3>1. \/ tracker'.tick = tracker.tick
          \/ tracker'.tick = [tracker.tick EXCEPT ![Live(n)] = "delivered"]
      BY <1>0, <1>7, AcknowledgeEffect DEF DirectAcked, Answered
    <3>2. QED
      BY <1>0, <3>1
  <2>2. ~ Waits(n)'
    <3>1. CASE stage[n] = "direct"
      <4>1. stage'[n] = "backstop" /\ entry'[n] = None
        BY <1>0, <1>7, <3>1 DEF DirectAcked, Types, Stages
      <4>2. QED
        BY <4>1 DEF Waits
    <3>2. CASE stage[n] # "direct"
      <4>1. /\ Live(n) \in handed /\ stage'[n] = stage[n]
            /\ entry'[n] = entry[n] /\ early' = early
        BY <1>0, <1>7, <3>2 DEF DirectAcked, Stages
      <4>2. stage[n] \notin {"direct", "queue"}
        BY <1>0, <4>1 DEF Stages
      <4>3. QED
        BY <1>0, <4>1, <4>2 DEF Waits, EntryOK
    <3>3. QED
      BY <3>1, <3>2
  <2>3. channel[n] # "none" /\ stage'[n] \notin {"new", "saved"}
    BY <1>0, <1>7 DEF DirectAcked, Types, Stages
  <2>4. QED
    BY <1>0, <2>1, <2>2, <2>3 DEF TicksOf, Grows
<1>8. CASE DirectTimeout(n) \/ IngestDirect(n)
  <2>1. /\ tracker' = tracker /\ channel[n] # "none"
        /\ Waits(n)' => Waits(n)
        /\ stage'[n] \in {"new", "saved"} => stage[n] \in {"new", "saved"}
    BY <1>0, <1>8 DEF DirectTimeout, IngestDirect, Types, Waits, noted
  <2>2. QED
    BY <1>1, <2>1
<1>16. CASE Backstop(n)
  <2>1. /\ stage'[n] = "done" /\ tracker' = tracker /\ channel' = channel
        /\ entry'[n] = [rumor |-> Live(n), app |-> FALSE]
    BY <1>0, <1>16 DEF Backstop, Types
  <2>2. ~ Waits(n)'
    BY <2>1 DEF Waits
  <2>3. QED
    BY <1>1, <2>1, <2>2
<1>9. CASE QueueMessage(n)
  <2>1. /\ tracker' = tracker /\ channel' = channel /\ stage[n] = "queue"
        /\ stage'[n] = "done"
    BY <1>0, <1>9 DEF QueueMessage, Types
  <2>2. Waits(n)
    BY <2>1 DEF Waits
  <2>3. QED
    BY <1>1, <2>1, <2>2
<1>10. CASE Flush(n)
  <2>1. /\ entry'[n] = None /\ stage[n] = "done" /\ stage' = stage
        /\ channel' = channel /\ ~ Waits(n)'
        /\ handed' = handed \cup {FlushedRumor(n)}
    BY <1>0, <1>10 DEF Flush, HandOver, Types, Stages, Waits
  <2>2. CASE ~ entry[n].app
    <3>1. tracker' = tracker
      BY <1>10, <2>2 DEF Flush
    <3>2. QED
      BY <1>1, <2>1, <3>1
  <2>3. CASE entry[n].app
    <3>1. PICK r : r = FlushedRumor(n) /\ r \in {Live(n), Queued(n)}
      BY <1>10, FlushedRumorOf DEF Flush
    <3>2. PICK moved : /\ moved = Moved(tracker.tick, n, r)
                       /\ tracker'.tick = IF moved[r] \in High THEN moved
                                          ELSE [moved EXCEPT ![r] = "sent"]
      BY <1>10, <2>3, <3>1, FlushEffect
    <3>3. /\ moved[App(n)] = "none" /\ DOMAIN moved = Id
          /\ Queued(n) # r => moved[Queued(n)] = tracker.tick[Queued(n)]
      BY <1>0, <3>1, <3>2 DEF Moved
    <3>4. /\ tracker'.tick[App(n)] = "none"
          /\ Queued(n) # r => tracker'.tick[Queued(n)] = tracker.tick[Queued(n)]
      BY <1>0, <3>1, <3>2, <3>3
    <3>5. QED
      BY <1>0, <2>1, <3>1, <3>4 DEF TicksOf, Grows
  <2>4. QED
    BY <2>2, <2>3
<1>11. ASSUME NEW i \in Id, RetryTimer(i) PROVE TicksOf(n)'
  BY <1>1, <1>11, RetryEffect, RetryHandsNothingNew DEF Waits
<1>12. ASSUME NEW x \in Receipt, HandleReceipt(x) PROVE TicksOf(n)'
  <2>1. PICK r \in settled, state \in Answered :
           /\ r \in Rumor /\ x.id = ReceiptId(r) /\ x.id \in Id
           /\ x.id[1] = r[1]
           /\ \/ tracker'.tick = tracker.tick
              \/ tracker'.tick = [tracker.tick EXCEPT ![x.id] = state]
           /\ \A j \in Id : tracker.tick[j] = "read" => tracker'.tick[j] = "read"
    BY <1>12, ReceiptEffect
  <2>2. UNCHANGED <<stage, channel, entry, early, handed>>
    BY <1>12 DEF HandleReceipt, noted
  <2>3. \A i \in Id : i # x.id => tracker'.tick[i] = tracker.tick[i]
    BY <1>0, <2>1
  <2>4. CASE r[1] # n
    BY <1>1, <2>1, <2>2, <2>3, <2>4 DEF Waits
  <2>5. CASE r[1] = n
    <3>1. /\ stage[n] \notin {"new", "saved"}
          /\ r = Queued(n) => Queued(n) \in handed
          /\ r \in {Live(n), Queued(n)}
      BY <2>5, SettledIsOut
    <3>2. /\ n \in file => x.id = App(n)
          /\ n \notin file => x.id = r
      BY <2>1, <2>5 DEF ReceiptId
    <3>3. QED
      BY <1>0, <2>2, <2>3, <3>1, <3>2 DEF TicksOf, Grows, Waits
  <2>6. QED
    BY <2>4, <2>5
<1>13. ASSUME Aside PROVE TicksOf(n)'
  BY <1>1, <1>12, <1>13, AsideKeeps, AsideTicks DEF Waits
<1>14. CASE Restart
  <2>1. \A i \in Id : tracker'.tick[i] = "none"
    BY <1>14 DEF Restart
  <2>2. QED
    BY <1>0, <2>1 DEF TicksOf
<1>15. QED
  BY <1>2, <1>3, <1>4, <1>5, <1>6, <1>7, <1>8, <1>9, <1>10, <1>11, <1>13, <1>14,
     <1>16
     DEF Next, Sending, Aside

-----------------------------------------------------------------------------
LEMMA Inductive ==
  ASSUME IInv, [Next]_vars
  PROVE  IInv'
<1>1. Tracking' /\ Types'
  BY TrackingStep, TypesStep
<1>2. Stages' /\ Entries' /\ OneRumor'
  BY StagesStep, EntriesStep, OneRumorStep
<1>3. Origins' /\ Vouched'
  BY OriginsStep, VouchedStep
<1>4. Shows' /\ Ticks'
  BY ShowsStep, TicksStep
<1>5. QED
  BY <1>1, <1>2, <1>3, <1>4 DEF IInv

(* What the tracker, the retries, the queue and the peer know of each      *)
(* other at every moment of a send (sendMessage in chat-api.ts, with       *)
(* delivery-tracker.ts): the inductive invariant behind what follows.      *)
THEOREM Invariance == Spec => []IInv
<1>1. Init => IInv
  BY InitInv
<1>2. IInv /\ [Next]_vars => IInv'
  BY Inductive
<1>3. QED
  BY <1>1, <1>2, PTL DEF Spec

(* The variables of the send path, the tracker, the queue and the peer     *)
(* keep their types; in particular the tracker never holds more resends    *)
(* than MAX_TRACKED_OUTGOING (delivery-tracker.ts, registerOutgoing).      *)
THEOREM DeliveryTypeOK == Spec => []TypeOK
<1>1. IInv => TypeOK
  BY DEF IInv, Tracking, TrackerOK, Types, TypeOK
<1>2. QED
  BY <1>1, Invariance, PTL

(* The peer has a message under two rumor ids in one case only: no relay   *)
(* took the live rumor, the queue then made another, and the copy that the *)
(* publish adds over a direct channel (chat-api.ts, sendMessage) brought   *)
(* the first. Of the rumor a direct attempt made there is never a second   *)
(* one, nor of one the relays took, through retries, flushes and restarts. *)
THEOREM OneRumorSettled == Spec => []NeverDouble
<1>1. IInv => NeverDouble
  <2> SUFFICES ASSUME IInv, NEW m \in Message,
                      Live(m) \in settled, Queued(m) \in settled
               PROVE  Live(m) \notin handed /\ channel[m] = "none"
    BY DEF NeverDouble
  <2>1. Queued(m) \in handed
    BY DEF IInv, Origins
  <2>2. QED
    BY <2>1 DEF IInv, OneRumor, QueuedOut, LiveOut
<1>2. QED
  BY <1>1, Invariance, PTL

(* An armed retry timer is of its own id, which is sent, not acknowledged, *)
(* and has something to send again, through every re-keying, eviction and  *)
(* receipt (delivery-tracker.ts, scheduleRetry, clearRetry, rekey).        *)
THEOREM TimersAreOfSent == Spec => []TimersAwaitReceipts
<1>1. IInv => TimersAwaitReceipts
  BY DEF IInv, Tracking, TrackerOK, TimersAwaitReceipts, Tracked
<1>2. QED
  BY <1>1, Invariance, PTL

(* A second tick means that the peer's device settled the message, or that *)
(* the direct channel vouched for it; and then the relays took a copy, or  *)
(* the queue has it or is about to get it, or the app was closed after the *)
(* tick (markDeliveredDirect) and before queue() had made the entry.       *)
THEOREM TicksAreTrue == Spec => []TickIsTrue
<1>1. IInv => TickIsTrue
  BY DEF IInv, Shows, Vouched, TickIsTrue
<1>2. QED
  BY <1>1, Invariance, PTL

(* A tick shown for a message outlives the step, on this id or another.    *)
LEMMA TickKept ==
  ASSUME IInv, [Next]_vars, restarts' = restarts,
         NEW m \in Message, m \notin early, NEW i \in Id, i[1] = m,
         NEW S \in {High, Answered, {"read"}}, tracker.tick[i] \in S
  PROVE  \E j \in Id : j[1] = m /\ tracker'.tick[j] \in S
<1> DEFINE Goal == \E j \in Id : j[1] = m /\ tracker'.tick[j] \in S
<1>0. /\ TicksOf(m) /\ Types /\ Stages /\ EntryOK(m)
      /\ App(m) \in Id /\ Live(m) \in Id /\ Queued(m) \in Id
      /\ App(m)[1] = m /\ Live(m)[1] = m /\ Queued(m)[1] = m
      /\ App(m) # Live(m) /\ App(m) # Queued(m) /\ Live(m) # Queued(m)
      /\ tracker.tick \in [Id -> Tick]
  BY Ids DEF IInv, Entries, Ticks, Tracking, TrackerOK
<1>h. tracker.tick[i] \in High /\ "none" \notin High
  BY DEF High, Answered
<1>1. ASSUME tracker'.tick[i] = tracker.tick[i] PROVE Goal
  BY <1>1
<1>2. ASSUME NEW n \in Message, n # m, Send(n) \/ Sending(n) \/ IngestDirect(n)
      PROVE  Goal
  BY <1>1, <1>2, SendingTicks
<1>3. ASSUME Send(m) \/ DirectFirst(m) \/ Publish(m) PROVE FALSE
  <2>1. stage[m] \in {"new", "saved"}
    BY <1>3 DEF Send, DirectFirst, Publish
  <2>2. QED
    BY <1>0, <1>h, <2>1 DEF TicksOf
<1>4. CASE MarkSent(m)
  BY <1>0, <1>1, <1>4, <1>h, MarkSentEffect
<1>5. ASSUME NEW k \in Id, NEW state \in Answered,
             \/ tracker'.tick = tracker.tick
             \/ tracker'.tick = [tracker.tick EXCEPT ![k] = state],
             \A j \in Id : tracker.tick[j] = "read" => tracker'.tick[j] = "read"
      PROVE  Goal
  <2>1. CASE S = {"read"}
    BY <1>5, <2>1
  <2>2. CASE S # {"read"}
    <3>1. Answered \subseteq S
      BY <2>2 DEF High, Answered
    <3>2. QED
      BY <1>0, <1>5, <3>1
  <2>3. QED
    BY <2>1, <2>2
<1>6. CASE DirectAcked(m)
  <2>1. /\ \/ tracker'.tick = tracker.tick
           \/ tracker'.tick = [tracker.tick EXCEPT ![Live(m)] = "delivered"]
        /\ \A j \in Id : tracker.tick[j] = "read" => tracker'.tick[j] = "read"
    BY <1>0, <1>6, AcknowledgeEffect DEF DirectAcked, Answered
  <2>2. "delivered" \in Answered
    BY DEF Answered
  <2>3. QED
    BY <1>0, <1>5, <2>1, <2>2
<1>7. CASE Flush(m)
  <2>1. CASE ~ entry[m].app
    BY <1>1, <1>7, <2>1 DEF Flush
  <2>2. CASE entry[m].app
    <3>0. Waits(m) /\ entry[m] # None
      BY <1>7, <2>2 DEF Flush, Waits
    <3>1. PICK r : r = FlushedRumor(m) /\ r \in {Live(m), Queued(m)}
      BY <3>0, FlushedRumorOf
    <3>2. PICK moved : /\ moved = Moved(tracker.tick, m, r)
                       /\ tracker'.tick = IF moved[r] \in High THEN moved
                                          ELSE [moved EXCEPT ![r] = "sent"]
      <4>1. tracker'.tick = LET mv == Moved(tracker.tick, m, r) IN
                            IF mv[r] \in High THEN mv
                            ELSE [mv EXCEPT ![r] = "sent"]
        BY <1>7, <2>2, <3>1, FlushEffect
      <4>2. QED
        BY <4>1
    <3>3. CASE tracker.tick[App(m)] = "none"
      <4>1. moved = tracker.tick
        BY <3>2, <3>3 DEF Moved
      <4>2. tracker'.tick[i] = tracker.tick[i]
        BY <1>0, <1>h, <3>1, <3>2, <4>1
      <4>3. QED
        BY <1>1, <4>2
    <3>4. CASE tracker.tick[App(m)] # "none"
      <4>1. tracker.tick[r] \notin High
        <5>1. CASE r = Queued(m)
          BY <1>0, <1>h, <2>2, <3>0, <5>1 DEF TicksOf, EntryOK
        <5>2. CASE r = Live(m)
          <6>1. channel[m] # "none"
            BY <1>0, <3>0, <3>1, <5>2 DEF FlushedRumor, EntryOK
          <6>2. QED
            BY <1>0, <3>0, <3>4, <5>2, <6>1 DEF TicksOf
        <5>3. QED
          BY <3>1, <5>1, <5>2
      <4>2. moved = [tracker.tick EXCEPT ![r] = tracker.tick[App(m)],
                                         ![App(m)] = "none"]
        BY <3>2, <3>4 DEF Moved
      <4>3. i # r
        BY <1>h, <4>1
      <4>4. CASE i = App(m)
        <5>1. moved[r] = tracker.tick[i]
          BY <1>0, <3>1, <4>2, <4>4
        <5>2. tracker'.tick[r] \in S /\ r \in Id /\ r[1] = m
          BY <1>0, <1>h, <3>1, <3>2, <5>1
        <5>3. QED
          BY <5>2
      <4>5. CASE i # App(m)
        <5>1. moved[i] = tracker.tick[i] /\ DOMAIN moved = Id
          BY <1>0, <4>2, <4>3, <4>5
        <5>2. tracker'.tick[i] = tracker.tick[i]
          BY <3>2, <4>3, <5>1
        <5>3. QED
          BY <1>1, <5>2
      <4>6. QED
        BY <4>4, <4>5
    <3>5. QED
      BY <3>3, <3>4
  <2>3. QED
    BY <2>1, <2>2
<1>8. CASE NotPublished(m) \/ Backstop(m) \/ DirectTimeout(m)
             \/ QueueMessage(m) \/ IngestDirect(m)
  BY <1>1, <1>8 DEF NotPublished, Backstop, DirectTimeout, QueueMessage, IngestDirect
<1>9. ASSUME NEW k \in Id, RetryTimer(k) PROVE Goal
  BY <1>1, <1>9, RetryEffect
<1>10. ASSUME NEW x \in Receipt, HandleReceipt(x) PROVE Goal
  BY <1>5, <1>10, ReceiptEffect
<1>11. ASSUME Aside PROVE Goal
  BY <1>1, <1>10, <1>11, AsideTicks
<1>12. ASSUME Restart PROVE FALSE
  BY <1>0, <1>12 DEF Restart, Types
<1>13. QED
  BY <1>2, <1>3, <1>4, <1>6, <1>7, <1>8, <1>9, <1>11, <1>12
     DEF Next, Sending, Aside

(* The ticks of a message never go back, on any of its ids, whatever the   *)
(* order of receipts, the OK, the end of the send and the flush            *)
(* (delivery-tracker.ts, rekey, markSent, handleReceipt), but for a        *)
(* restart and for a message published by the queue before its flush.      *)
THEOREM TicksNeverFall == Spec => TickNeverFalls
<1> DEFINE Kept == \A m \in Message \ early,
                     state \in {"sent", "delivered", "read"} :
                     Shown(m, state) /\ restarts' = restarts => Shown(m, state)'
<1>1. ASSUME IInv, [Next]_vars PROVE Kept
  <2> SUFFICES ASSUME NEW m \in Message, m \notin early, restarts' = restarts,
                      NEW state \in {"sent", "delivered", "read"},
                      Shown(m, state)
               PROVE  Shown(m, state)'
    OBVIOUS
  <2>1. Tracking /\ Tracking'
    BY <1>1, TrackingStep DEF IInv
  <2>2. CASE state = "sent"
    <3>1. PICK i \in Id : i[1] = m /\ tracker.tick[i] \in High
      BY <2>1, <2>2, ShowsWhat
    <3>2. \E j \in Id : j[1] = m /\ tracker'.tick[j] \in High
      BY <1>1, <3>1, TickKept
    <3>3. QED
      BY <2>1, <2>2, <3>2, ShowsWhatNext
  <2>3. CASE state = "delivered"
    <3>1. PICK i \in Id : i[1] = m /\ tracker.tick[i] \in Answered
      BY <2>1, <2>3, ShowsWhat
    <3>2. \E j \in Id : j[1] = m /\ tracker'.tick[j] \in Answered
      BY <1>1, <3>1, TickKept
    <3>3. QED
      BY <2>1, <2>3, <3>2, ShowsWhatNext
  <2>4. CASE state = "read"
    <3>1. PICK i \in Id : i[1] = m /\ tracker.tick[i] \in {"read"}
      BY <2>1, <2>4, ShowsWhat
    <3>2. \E j \in Id : j[1] = m /\ tracker'.tick[j] \in {"read"}
      BY <1>1, <3>1, TickKept
    <3>3. QED
      BY <2>1, <2>4, <3>2, ShowsWhatNext
  <2>5. QED
    BY <2>2, <2>3, <2>4
<1>2. IInv /\ [Next]_vars => [Kept]_vars
  BY <1>1
<1>3. QED
  BY <1>2, Invariance, PTL DEF Spec, TickNeverFalls
=============================================================================

------------------------------- MODULE Inbox -------------------------------
(***************************************************************************)
(* The inbound half of the relay pool (nostr-relay-pool.ts) with the part  *)
(* of nostr-relay.ts it drives: gift wraps arrive over the live             *)
(* subscription, over paged walks of a relay's history and over re-fetches *)
(* by id; each is claimed, unwrapped and handed to the receive handler,    *)
(* and a watermark in localStorage says from where the next session has to *)
(* look.                                                                   *)
(*                                                                         *)
(* One tab.  The steps are the code between two awaits.  Everything here   *)
(* is memory except disk (localStorage) and saved (the message store).     *)
(*                                                                         *)
(* Time is the stamp of a wrap; 0 is "undefined" for a since, an until and *)
(* a watermark, as in the code's truthiness tests.  Receipts, presence and *)
(* device-sync envelopes are consumed without touching any of this and are *)
(* left out, as are the caps of the seen-set, of the re-fetch set and of   *)
(* the deferred buffer (10000, and 2000 entries).                          *)
(***************************************************************************)
EXTENDS Integers, FiniteSets, FiniteSetsExt, SequencesExt

CONSTANTS
  Relays,         \* the read relays
  Stamp,          \* Seq(Nat): created_at of each wrap, in the order they are published
  Rumor,          \* [Wraps -> Wraps]: the first wrap that carries the same rumor
  Backlog,        \* wraps published before this device starts
  Corrupt,        \* wraps whose unwrap fails with a deterministic error
  Fuzz,           \* GIFTWRAP_FUZZ_WINDOW_SEC
  Recent,         \* RECENT_BACKFILL_WINDOW_SEC
  PageLimit,      \* SUBSCRIBE_REPLAY_LIMIT
  MaxPages,       \* BACKFILL_MAX_PAGES
  RetryLimit,     \* WRAP_RETRY_LIMIT
  None,           \* no route
  MaxFailures,    \* bound on unwraps that fail
  MaxFaults       \* bound on lost sockets, unanswered queries and crashes together

Wraps == DOMAIN Stamp

ASSUME InboxAssumption ==
  /\ Stamp \in Seq(Nat \ {0})
  /\ \A v, w \in Wraps : v <= w => Stamp[v] <= Stamp[w]
  /\ Rumor \in [Wraps -> Wraps]
  /\ \A w \in Wraps : Rumor[w] <= w /\ Rumor[Rumor[w]] = Rumor[w]
  /\ Backlog \subseteq Wraps /\ Corrupt \subseteq Wraps
  /\ {Fuzz, Recent, PageLimit, MaxPages, RetryLimit} \subseteq Nat
  /\ PageLimit > 1 /\ MaxPages > 0 /\ RetryLimit > 0
  /\ MaxFailures \in Nat /\ MaxFaults \in Nat
  /\ Relays \cap {"live", "held", "pending", "poll", "stray", "lost", None} = {}
  /\ None \notin {"live", "held", "poll", "stray", "lost"}

(* What hands messages to the receive handler, one after the other: the    *)
(* live pump, the drain of held messages, the poll's walk (the start-up    *)
(* walk is its first) and one walk per reconnecting relay.                 *)
Walks == {"poll"} \cup Relays
Lanes == {"live", "held"} \cup Walks

VARIABLES
  published,      \* SUBSET Wraps
  relayHas,       \* [Relays -> SUBSET Wraps]
  up,             \* connected relays
  stream,         \* [Relays -> Seq(Wraps)]: events in the live subscription's socket
  disk,           \* [watermark, open, cursor]: the watermark and the gap record
  saved,          \* rumors in the message store
  claimed,        \* seenWrapIds
  failures,       \* wrapFailures
  unwrapping,     \* [Wraps -> Lanes \cup {"stray", "lost", None}]: unwraps in flight, by who waits
  refetch,        \* pendingWrapRefetch
  asking,         \* [ids, todo]: the re-fetch in flight
  walk,           \* [Walks -> the walk in flight]
  known,          \* seenIds: rumors that reached the dispatcher
  queue,          \* [Lanes -> Seq(Wraps)]: messages a lane has still to hand over
  busy,           \* lanes whose first message is in the receive handler
  held,           \* pendingDelivery
  attached,       \* a message consumer is registered
  deepWalked,     \* deepWalkCompleted
  everUp,         \* relayHasConnected
  dropped,        \* history: rumors whose handler failed
  failed, faults  \* failed unwraps and other faults so far

net     == <<published, relayHas, up, stream, everUp>>
claims  == <<claimed, failures, refetch>>
lanes   == <<known, queue, busy, held, attached>>
bounds  == <<failed, faults>>
vars    == <<net, disk, saved, claims, unwrapping, asking, walk, lanes, deepWalked, dropped,
             bounds>>

-----------------------------------------------------------------------------
IdleWalk  == [phase |-> "idle", since |-> 0, until |-> 0, todo |-> {},
              relay |-> None, outcome |-> None, cursor |-> 0, got |-> <<>>,
              truncated |-> 0, exhausted |-> FALSE]
NoAsking  == [ids |-> {}, todo |-> {}]

Init ==
  /\ published = Backlog
  /\ relayHas = [r \in Relays |-> Backlog]
  /\ up = {} /\ stream = [r \in Relays |-> <<>>] /\ everUp = {}
  /\ disk = [watermark |-> 0, open |-> FALSE, cursor |-> 0]
  /\ saved = {}
  /\ claimed = {} /\ failures = [w \in Wraps |-> 0] /\ refetch = {}
  /\ unwrapping = [w \in Wraps |-> None] /\ asking = NoAsking
  /\ walk = [k \in Walks |-> IdleWalk]
  /\ known = {} /\ queue = [l \in Lanes |-> <<>>] /\ busy = {} /\ held = <<>>
  /\ attached = FALSE /\ deepWalked = FALSE
  /\ dropped = {} /\ failed = 0 /\ faults = 0

Fault == faults < MaxFaults /\ faults' = faults + 1 /\ UNCHANGED failed

(* Newest first, as a relay answers.                                       *)
Newest(S, n) == {w \in S : Cardinality({v \in S : v > w}) < n}
NewestFirst(S) ==
  CHOOSE s \in [1..Cardinality(S) -> S] : \A i, j \in DOMAIN s : i < j => s[i] > s[j]

InRange(S, since, until) ==
  {w \in S : Stamp[w] >= since /\ (until # 0 => Stamp[w] <= until)}

(* catchUpSince.                                                           *)
CatchUpSince == IF disk.watermark <= Fuzz THEN 0 ELSE disk.watermark - Fuzz

-----------------------------------------------------------------------------
(* The claim on a wrap id.                                                 *)

(* releaseWrapId, commitWrapId: an unwrap failed, or succeeded.            *)
ReleaseWrapId_NeverParks(w) ==
  /\ failures' = [failures EXCEPT ![w] = @ + 1]
  /\ claimed' = claimed \ {w}
  /\ refetch' = refetch \cup {w}

ReleaseWrapId_KeepsClaim(w) ==
  /\ failures' = [failures EXCEPT ![w] = @ + 1]
  /\ UNCHANGED <<claimed, refetch>>

ReleaseWrapId(w) ==
  IF w \in Corrupt
  THEN /\ claimed' = claimed \ {w}
       /\ refetch' = refetch \ {w}
       /\ failures' = [failures EXCEPT ![w] = 0]
  ELSE /\ failures' = [failures EXCEPT ![w] = @ + 1]
       /\ IF failures[w] + 1 >= RetryLimit
          THEN UNCHANGED <<claimed, refetch>>
          ELSE /\ claimed' = claimed \ {w}
               /\ refetch' = refetch \cup {w}

CommitWrapId(w) ==
  /\ failures' = [failures EXCEPT ![w] = 0]
  /\ refetch' = refetch \ {w}
  /\ UNCHANGED claimed

(* refetchPendingWraps, called with these ids pending.                     *)
RefetchPendingWraps(ids, relays) ==
  IF asking.todo # {} \/ ids = {} \/ relays = {}
  THEN refetch' = ids /\ UNCHANGED asking
  ELSE refetch' = {} /\ asking' = [ids |-> ids, todo |-> relays]

Parked == {w \in claimed : failures[w] >= RetryLimit}

(* resetWrapRetryBudget: what was parked becomes claimable and is fetched. *)
ResetWrapRetryBudget(relays) ==
  IF \A w \in Wraps : failures[w] = 0
  THEN UNCHANGED <<claims, asking>>
  ELSE /\ claimed' = claimed \ Parked
       /\ failures' = [w \in Wraps |-> 0]
       /\ RefetchPendingWraps(refetch \cup Parked, relays)

-----------------------------------------------------------------------------
(* Relays and sockets.                                                     *)

(* Somebody publishes the next wrap to some relays; a live subscription    *)
(* pushes it.                                                              *)
Publish ==
  \E w \in Wraps \ published, to \in SUBSET Relays :
    /\ to # {}
    /\ \A v \in Wraps : v < w => v \in published
    /\ published' = published \cup {w}
    /\ relayHas' = [r \in Relays |-> IF r \in to THEN relayHas[r] \cup {w} ELSE relayHas[r]]
    /\ stream' = [r \in Relays |-> IF r \in to \cap up THEN Append(stream[r], w) ELSE stream[r]]
    /\ UNCHANGED <<up, everUp, disk, saved, claims, unwrapping, asking, walk, lanes,
                   deepWalked, dropped, bounds>>

(* walkSince.                                                              *)
WalkSince_IgnoresCursor(since, resumeFrom) == since

WalkSince(since, resumeFrom) ==
  IF resumeFrom # 0 /\ since >= resumeFrom THEN 0 ELSE since

NewWalk_FromTheTop(since, relays) ==
  [IdleWalk EXCEPT !.phase = "asking", !.since = WalkSince(since, disk.cursor),
                   !.todo = relays]

NewWalk(since, relays) ==
  [IdleWalk EXCEPT !.phase = "asking", !.since = WalkSince(since, disk.cursor),
                   !.until = disk.cursor, !.todo = relays]

(* A relay connects: the live subscription is armed from the watermark and *)
(* replays one page.  On a reconnect the retry budget is reset and the     *)
(* relay's own history walk starts, unless the last is still running       *)
(* (the code spaces them by a minimum interval).                           *)
Connect(r) ==
  /\ r \notin up
  /\ up' = up \cup {r}
  /\ everUp' = everUp \cup {r}
  /\ stream' = [stream EXCEPT ![r] =
       NewestFirst(Newest(InRange(relayHas[r], CatchUpSince, 0), PageLimit))]
  /\ IF r \in everUp /\ walk[r].phase = "idle"
     THEN /\ ResetWrapRetryBudget(up')
          /\ walk' = [walk EXCEPT ![r] = NewWalk(CatchUpSince, {r})]
     ELSE UNCHANGED <<claims, asking, walk>>
  /\ UNCHANGED <<published, relayHas, disk, saved, unwrapping, lanes, deepWalked, dropped, bounds>>

Disconnect(r) ==
  /\ r \in up
  /\ up' = up \ {r}
  /\ stream' = [stream EXCEPT ![r] = <<>>]
  /\ Fault
  /\ UNCHANGED <<published, relayHas, everUp, disk, saved, claims, unwrapping, asking, walk,
                 lanes, deepWalked, dropped>>

(* The tab becomes visible, or the browser comes online.                   *)
Resume ==
  /\ \E w \in Wraps : failures[w] > 0
  /\ ResetWrapRetryBudget(up)
  /\ UNCHANGED <<net, disk, saved, unwrapping, walk, lanes, deepWalked, dropped, bounds>>

(* handleEvent, up to the unwrap: a pushed wrap nobody claimed is claimed. *)
Claim(wraps, route) ==
  /\ claimed' = claimed \cup wraps
  /\ unwrapping' = [w \in Wraps |-> IF w \in wraps THEN route ELSE unwrapping[w]]

Push(r) ==
  /\ stream[r] # <<>>
  /\ stream' = [stream EXCEPT ![r] = Tail(@)]
  /\ Claim({Head(stream[r])} \ claimed, "live")
  /\ UNCHANGED <<published, relayHas, up, everUp, disk, saved, failures, refetch, asking, walk,
                 lanes, deepWalked, dropped, bounds>>

(* The unwrap worker answers: the message goes to whoever waits for it -   *)
(* the live pump, a walk's page - or to nobody when the page timed out.    *)
UnwrapOk(w) ==
  /\ unwrapping[w] \notin {None, "lost"} /\ w \notin Corrupt
  /\ unwrapping' = [unwrapping EXCEPT ![w] = IF @ = "stray" THEN "lost" ELSE None]
  /\ CommitWrapId(w)
  /\ LET to == unwrapping[w] IN
     /\ queue' = IF to = "live" THEN [queue EXCEPT !.live = Append(@, w)] ELSE queue
     /\ walk' = IF to \in Walks THEN [walk EXCEPT ![to].got = Append(@, w)] ELSE walk
  /\ UNCHANGED <<net, disk, saved, asking, known, busy, held, attached, deepWalked, dropped, bounds>>

UnwrapFails(w) ==
  /\ unwrapping[w] \notin {None, "lost"}
  /\ IF w \in Corrupt THEN UNCHANGED failed ELSE failed < MaxFailures /\ failed' = failed + 1
  /\ UNCHANGED faults
  /\ unwrapping' = [unwrapping EXCEPT ![w] = None]
  /\ ReleaseWrapId(w)
  /\ UNCHANGED <<net, disk, saved, asking, walk, lanes, deepWalked, dropped>>

-----------------------------------------------------------------------------
(* Walks of a relay's history.                                             *)

(* getMessagesPaged: the state of the walk after p pages.                  *)
NextPage(r, since, last) ==
  LET page   == Newest(InRange(relayHas[r], since, last.until), PageLimit)
      oldest == Min({Stamp[w] : w \in page})
      Ended(outcome, until) ==
        [got |-> last.got \cup page, until |-> until, outcome |-> outcome]
  IN CASE last.outcome # "open"                   -> last
       [] Cardinality(page) < PageLimit           -> Ended("exhausted", 0)
       [] last.until # 0 /\ oldest >= last.until  -> Ended("truncated", last.until)
       [] since # 0 /\ oldest <= since            -> Ended("exhausted", 0)
       [] OTHER                                   -> Ended("open", oldest)

Walked(r, since, startUntil) ==
  LET Pages[p \in 0..MaxPages] ==
        IF p = 0 THEN [got |-> {}, until |-> startUntil, outcome |-> "open"]
        ELSE NextPage(r, since, Pages[p - 1])
      final == Pages[MaxPages]
  IN IF final.outcome = "open" THEN [final EXCEPT !.outcome = "truncated"] ELSE final

(* backfillRecent: its window reaches back to the watermark, and to the    *)
(* bottom before a walk ever got there.  backfill() asks for the same      *)
(* range when no walk has.                                                 *)
WindowSince ==
  LET now    == Max({Stamp[w] : w \in published} \cup {0})
      window == Max({0, now - Recent})
  IN  IF disk.watermark = 0 THEN (IF deepWalked THEN window ELSE 0)
                            ELSE Min({window, CatchUpSince})

StartPoll ==
  /\ walk["poll"].phase = "idle" /\ up # {}
  /\ walk' = [walk EXCEPT !["poll"] = NewWalk(WindowSince, up)]
  /\ UNCHANGED <<net, disk, saved, claims, unwrapping, asking, lanes, deepWalked, dropped, bounds>>

(* queryPage, collectQueryEvent: what nobody claimed is claimed and        *)
(* unwrapped.  The pages of one relay are one step.                        *)
PageArrives(k, r, got, outcome, cursor) ==
  /\ walk[k].phase = "asking" /\ r \in walk[k].todo
  /\ Claim(got \ claimed, k)
  /\ walk' = [walk EXCEPT ![k].phase = "unwrapping", ![k].relay = r,
                          ![k].outcome = outcome, ![k].cursor = cursor]
  /\ UNCHANGED <<net, disk, saved, failures, refetch, asking, lanes, deepWalked, dropped>>

WalkAnswered(k, r) ==
  /\ r \in up
  /\ LET answer == Walked(r, walk[k].since, walk[k].until)
     IN  PageArrives(k, r, answer.got, answer.outcome, answer.until)
  /\ UNCHANGED bounds

(* The relay is gone, or a page times out after some of its events.        *)
WalkUnanswered(k, r) ==
  \/ /\ r \notin up
     /\ PageArrives(k, r, {}, "unknown", 0)
     /\ UNCHANGED bounds
  \/ /\ r \in up /\ Fault
     /\ LET full == Walked(r, walk[k].since, walk[k].until).got
        IN  \E n \in 0..Cardinality(full) : PageArrives(k, r, Newest(full, n), "unknown", 0)

(* applyWalkEvidence.  Only the pool's own walk may close a gap.           *)
ApplyWalkEvidence(cursor, exhausted, mayClear) ==
  CASE cursor # 0 ->
         /\ disk' = [disk EXCEPT !.cursor = cursor, !.open = TRUE]
         /\ UNCHANGED deepWalked
    [] cursor = 0 /\ mayClear /\ exhausted ->
         /\ disk' = [disk EXCEPT !.cursor = 0, !.open = FALSE]
         /\ deepWalked' = TRUE
    [] OTHER -> UNCHANGED <<disk, deepWalked>>

(* The walk of one relay resolves: when its unwraps are done, or at once   *)
(* when it timed out, and then their results reach nobody.  After the last *)
(* relay the evidence is applied, then the messages are dispatched.        *)
WalkResolves(k) ==
  LET w == walk[k]
      pending == {v \in Wraps : unwrapping[v] = k}
      found == IF w.outcome = "truncated" THEN Max({w.truncated, w.cursor}) ELSE w.truncated
      bottom == w.exhausted \/ w.outcome = "exhausted"
      todo == w.todo \ {w.relay}
  IN
  /\ w.phase = "unwrapping"
  /\ pending # {} => w.outcome = "unknown"
  /\ unwrapping' = [v \in Wraps |-> IF v \in pending THEN "stray" ELSE unwrapping[v]]
  /\ IF todo # {}
     THEN /\ walk' = [walk EXCEPT ![k] = [w EXCEPT !.phase = "asking", !.todo = todo,
                         !.relay = None, !.outcome = None, !.cursor = 0,
                         !.truncated = found, !.exhausted = bottom]]
          /\ UNCHANGED <<queue, disk, deepWalked>>
     ELSE /\ ApplyWalkEvidence(found, bottom, k = "poll")
          /\ walk' = [walk EXCEPT ![k] = [IdleWalk EXCEPT !.phase = "dispatching"]]
          /\ queue' = [queue EXCEPT ![k] = w.got]
  /\ UNCHANGED <<net, saved, claims, asking, known, busy, held, attached, dropped, bounds>>

(* The loop is done.  The poll goes on to the released wraps.              *)
WalkEnds(k) ==
  /\ walk[k].phase = "dispatching" /\ queue[k] = <<>>
  /\ IF k = "poll" THEN RefetchPendingWraps(refetch, up)
                   ELSE UNCHANGED <<refetch, asking>>
  /\ walk' = [walk EXCEPT ![k] =
       IF asking' # asking THEN [IdleWalk EXCEPT !.phase = "refetching"] ELSE IdleWalk]
  /\ UNCHANGED <<net, disk, saved, claimed, failures, unwrapping, lanes, deepWalked, dropped, bounds>>

(* queryRawEvents by id on one relay: what it still has goes the way of a  *)
(* pushed wrap.  A relay that is gone or times out answers with nothing.   *)
Refetched(r, events) ==
  /\ r \in asking.todo
  /\ Claim(events \ claimed, "live")
  /\ LET done == asking.todo = {r} IN
     /\ asking' = IF done THEN NoAsking ELSE [asking EXCEPT !.todo = @ \ {r}]
     /\ walk' = IF done /\ walk["poll"].phase = "refetching"
                THEN [walk EXCEPT !["poll"] = IdleWalk] ELSE walk
  /\ UNCHANGED <<net, disk, saved, failures, refetch, lanes, deepWalked, dropped>>

RefetchAnswered(r) ==
  /\ r \in up
  /\ Refetched(r, relayHas[r] \cap asking.ids)
  /\ UNCHANGED bounds

RefetchUnanswered(r) ==
  /\ Refetched(r, {})
  /\ IF r \in up THEN Fault ELSE UNCHANGED bounds

-----------------------------------------------------------------------------
(* Dispatch.                                                               *)

(* handleIncomingMessage and dispatchMessage up to the receive handler's   *)
(* first await: a rumor seen before is dropped, a message without a        *)
(* consumer is held.  A held message does not pass the seen check again.   *)
SeenBefore_Never(l, w) == FALSE

SeenBefore(l, w) == l # "held" /\ Rumor[w] \in known

Dispatch(l) ==
  /\ queue[l] # <<>> /\ l \notin busy
  /\ LET w == Head(queue[l])
         again == SeenBefore(l, w)
     IN
     /\ known' = known \cup {Rumor[w]}
     /\ busy' = IF attached /\ ~again THEN busy \cup {l} ELSE busy
     /\ queue' = IF attached /\ ~again THEN queue ELSE [queue EXCEPT ![l] = Tail(@)]
     /\ held' = IF ~attached /\ ~again THEN Append(held, w) ELSE held
  /\ UNCHANGED <<net, disk, saved, claims, unwrapping, asking, walk, attached, deepWalked, dropped, bounds>>

(* The handler is done - it stored the row, or it failed, which is logged  *)
(* - and the watermark moves unless a gap is open.                         *)
MessageTime_OfWrap(w) == Stamp[w]

MessageTime(w) == Stamp[Rumor[w]]

HandlerDone(l) ==
  /\ l \in busy
  /\ LET at == MessageTime(Head(queue[l]))
     IN  disk' = IF at > disk.watermark /\ ~disk.open
                 THEN [disk EXCEPT !.watermark = at] ELSE disk
  /\ busy' = busy \ {l}
  /\ queue' = [queue EXCEPT ![l] = Tail(@)]
  /\ UNCHANGED <<net, claims, unwrapping, asking, walk, known, held, attached, deepWalked>>

Delivered(l) ==
  /\ HandlerDone(l)
  /\ saved' = saved \cup {Rumor[Head(queue[l])]}
  /\ UNCHANGED <<dropped, bounds>>

DeliveryFails(l) ==
  /\ HandlerDone(l)
  /\ dropped' = dropped \cup {Rumor[Head(queue[l])]}
  /\ Fault
  /\ UNCHANGED saved

(* A consumer registers: drainUndelivered.                                 *)
Attach ==
  /\ ~attached
  /\ attached' = TRUE
  /\ queue' = [queue EXCEPT !.held = held]
  /\ held' = <<>>
  /\ UNCHANGED <<net, disk, saved, claims, unwrapping, asking, walk, known, busy, deepWalked, dropped, bounds>>

(* The tab is closed or killed, and opened again.                          *)
Crash ==
  /\ Fault
  /\ up' = {} /\ stream' = [r \in Relays |-> <<>>] /\ everUp' = {}
  /\ claimed' = {} /\ failures' = [w \in Wraps |-> 0] /\ refetch' = {}
  /\ unwrapping' = [w \in Wraps |-> None] /\ asking' = NoAsking
  /\ walk' = [k \in Walks |-> IdleWalk]
  /\ known' = {} /\ queue' = [l \in Lanes |-> <<>>] /\ busy' = {} /\ held' = <<>>
  /\ attached' = FALSE /\ deepWalked' = FALSE
  /\ UNCHANGED <<published, relayHas, disk, saved, dropped>>

WalkStep(k) ==
  \/ WalkResolves(k) \/ WalkEnds(k)
  \/ \E r \in Relays : WalkAnswered(k, r) \/ WalkUnanswered(k, r)

Next ==
  \/ Publish \/ Resume \/ StartPoll \/ Attach \/ Crash
  \/ \E r \in Relays : Connect(r) \/ Disconnect(r) \/ Push(r)
                       \/ RefetchAnswered(r) \/ RefetchUnanswered(r)
  \/ \E w \in Wraps : UnwrapOk(w) \/ UnwrapFails(w)
  \/ \E k \in Walks : WalkStep(k)
  \/ \E l \in Lanes : Dispatch(l) \/ Delivered(l) \/ DeliveryFails(l)

(* Sockets come up, what was asked is answered, the unwrap worker answers, *)
(* the handler returns, ChatAPI registers, and the poll's timer fires.     *)
Fairness ==
  /\ WF_vars(Attach) /\ WF_vars(StartPoll)
  /\ \A r \in Relays : /\ WF_vars(Connect(r)) /\ WF_vars(Push(r))
                        /\ WF_vars(RefetchAnswered(r) \/ RefetchUnanswered(r))
  /\ \A w \in Wraps : WF_vars(UnwrapOk(w) \/ UnwrapFails(w))
  /\ \A k \in Walks : WF_vars(WalkStep(k))
  /\ \A l \in Lanes : WF_vars(Dispatch(l) \/ Delivered(l) \/ DeliveryFails(l))

Spec == Init /\ [][Next]_vars /\ Fairness

-----------------------------------------------------------------------------
(* Properties.                                                             *)

Message == Seq(Wraps)
Walk ==
  [phase : {"idle", "asking", "unwrapping", "dispatching", "refetching"},
   since : Nat, until : Nat, todo : SUBSET Relays, relay : Relays \cup {None},
   outcome : {"exhausted", "truncated", "unknown", None}, cursor : Nat, got : Message,
   truncated : Nat, exhausted : BOOLEAN]

TypeOK ==
  /\ published \subseteq Wraps /\ relayHas \in [Relays -> SUBSET Wraps]
  /\ up \subseteq Relays /\ everUp \subseteq Relays /\ stream \in [Relays -> Message]
  /\ disk \in [watermark : Nat, open : BOOLEAN, cursor : Nat]
  /\ saved \cup dropped \subseteq Wraps /\ known \subseteq Wraps
  /\ claimed \subseteq Wraps /\ refetch \subseteq Wraps
  /\ failures \in [Wraps -> 0..RetryLimit]
  /\ unwrapping \in [Wraps -> {"live", "stray", "lost", None} \cup Walks]
  /\ asking \in [ids : SUBSET Wraps, todo : SUBSET Relays]
  /\ walk \in [Walks -> Walk]
  /\ queue \in [Lanes -> Message] /\ busy \subseteq Lanes /\ held \in Message
  /\ attached \in BOOLEAN /\ deepWalked \in BOOLEAN
  /\ failed \in 0..MaxFailures /\ faults \in 0..MaxFaults

(* Somebody has the decrypted message and will hand it over.               *)
InLane(w) ==
  \/ \E l \in Lanes : w \in Range(queue[l])
  \/ w \in Range(held)
  \/ \E k \in Walks : w \in Range(walk[k].got)

InHand(w) == unwrapping[w] \in {"live"} \cup Walks \/ InLane(w) \/ w \in Parked

(* A claim is never left behind by an unwrap that failed, a page that timed *)
(* out or a re-fetch: whatever claims a wrap is still unwrapping it, holds  *)
(* its message, has handed the rumor over, or gave up after the retries     *)
(* ("a relay re-push OR a backfill can re-deliver", nostr-relay-pool.ts     *)
(* releaseWrapId).  Unwraps that outlive the page they came in on are the   *)
(* exception the code makes.                                                *)
ClaimsAreHeld ==
  \A w \in claimed : InHand(w) \/ Rumor[w] \in known \/ unwrapping[w] \in {"stray", "lost"}

(* The watermark is the time of a message the handler is done with: never  *)
(* of a wrap that was only seen, or of a message held for a consumer       *)
(* ("DELIVER FIRST, then advance the watermark").                          *)
WatermarkIsSaved ==
  disk.watermark # 0 => \E m \in saved \cup dropped : Stamp[m] = disk.watermark

(* Two lanes never have the same rumor, however many wraps, relays and     *)
(* walks bring it, in the receive handler at once or waiting for it.       *)
OneHandlerPerRumor ==
  LET InHandler == {<<l, 1>> : l \in busy}
      Waiting   == {<<"held", i>> : i \in DOMAIN queue["held"]} \cup {<<"pending", i>> : i \in DOMAIN held}
      MessageAt(p) == Rumor[IF p[1] = "pending" THEN held[p[2]] ELSE queue[p[1]][p[2]]]
  IN  \A p, q \in InHandler \cup Waiting : p # q => MessageAt(p) # MessageAt(q)

(* A query in flight, or one of those still to come, will mention it.      *)
Asked(w) ==
  \/ \E r \in Relays : w \in Range(stream[r])
  \/ \E r \in asking.todo : w \in relayHas[r] \cap asking.ids
  \/ \E k \in Walks : \E r \in walk[k].todo \ {walk[k].relay} :
        w \in InRange(relayHas[r], walk[k].since, walk[k].until)
  \/ \E k \in Walks : Stamp[w] \in walk[k].since .. Max({walk[k].truncated, walk[k].cursor})

(* A walk that started at the gap has read the relay down to here, or to   *)
(* the bottom, and is about to say so.                                     *)
ReadDownTo(k) == Max({walk[k].truncated, walk[k].cursor})
AlreadyRead(w, k) ==
  /\ walk[k].until = disk.cursor
  /\ IF ReadDownTo(k) # 0 THEN Stamp[w] > ReadDownTo(k)
     ELSE k = "poll" /\ (walk[k].exhausted \/ walk[k].outcome = "exhausted")

Covered(w) ==
  \/ Stamp[w] >= CatchUpSince
  \/ /\ disk.open /\ Stamp[w] <= disk.cursor /\ CatchUpSince >= disk.cursor
     /\ \A k \in Walks : ~AlreadyRead(w, k)

(* One of the wraps of this rumor is in hand, or will be asked for again:  *)
(* what the watermark claims, "everything at or below this has been        *)
(* delivered".                                                             *)
InReach(m) ==
  \/ m \in saved \cup dropped
  \/ \E w \in published :
       /\ Rumor[w] = m
       /\ \/ w \in Corrupt \/ InHand(w)
          \/ w \notin claimed /\ (w \in refetch \/ Asked(w) \/ Covered(w))

Sent == {Rumor[w] : w \in published}

(* More than one wrap on the relay has the second a walk starts from.  A    *)
(* full page that ends in that second counts as the bottom of the range.    *)
SinceIsShared(k, r) ==
  \E v, w \in relayHas[r] : v # w /\ Stamp[v] = walk[k].since /\ Stamp[w] = walk[k].since

(* The steps that are known to put wraps out of reach: a crash, a lost     *)
(* socket, an unanswered query, a walk that timed out part way, a          *)
(* watermark that moves over wraps another lane has not fetched, a poll    *)
(* that clears a gap it did not walk, and a walk that may end in the       *)
(* middle of its first second.                                             *)
LossStep ==
  \/ Crash
  \/ \E r \in Relays : Disconnect(r) \/ RefetchUnanswered(r) \/ \E k \in Walks : WalkUnanswered(k, r)
  \/ \E k \in Walks : walk[k].outcome = "unknown" /\ WalkResolves(k)
  \/ disk.open /\ ~disk'.open /\ walk["poll"].until # disk.cursor /\ WalkResolves("poll")
  \/ disk'.watermark # disk.watermark
  \/ \E k \in Walks, r \in Relays : SinceIsShared(k, r) /\ WalkAnswered(k, r)

GivenUp(m) == \E w \in Corrupt \cup Parked : Rumor[w] = m

(* A message that stays in reach is delivered, through released claims,    *)
(* truncated walks and undecryptable wraps, unless the retries of its wrap *)
(* are spent.                                                              *)
EventuallySaved ==
  \A m \in Wraps : []<>(m \in Sent /\ InReach(m) => m \in saved \cup dropped \/ GivenUp(m))

(* No other step loses a message: not a failed or late unwrap, a budget    *)
(* reset, a truncated walk, a reconnect walk beside the poll, a second     *)
(* wrap of the rumor, a consumer that registers late.  This is about one   *)
(* relay: a re-fetch and a walk ask the connected relays only, so with     *)
(* more of them a wrap that just one holds is lost when that one is away.  *)
InReachKept == [][LossStep \/ \A m \in Sent : InReach(m) => InReach(m)']_vars
=============================================================================

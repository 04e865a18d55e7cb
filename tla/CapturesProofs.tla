--------------------------- MODULE CapturesProofs ---------------------------
(***************************************************************************)
(* What Captures guarantees for every value of its constants: the values   *)
(* of its variables; for the temporary tab, that what is reported is so    *)
(* and that a request goes out only from where it was armed; for the       *)
(* preview, that the source tab has one owner, no stage is without one,    *)
(* and what was revoked is withdrawn.                                      *)
(*                                                                         *)
(* The two ways share no variable, so each has an inductive invariant of   *)
(* its own: PageInv and PreviewInv.                                        *)
(***************************************************************************)
EXTENDS Captures, FiniteSetTheorems, TLAPS

-----------------------------------------------------------------------------
(* The temporary tab: the inductive invariant.                             *)

\* A tab that never opened has no document; a procedure reports when it ends.
TabFits ==
    /\ worker = "idle" => tab = "none"
    /\ tab \in {"none", "asked"} => doc = 0 /\ pinned = 0 /\ ~hooked
    /\ tab \notin {"none", "asked"} => doc > 0
    /\ pinned <= doc
    /\ report # "none" => worker = "over"

\* The outcomes of a queue that has no result yet, at their places.
Underway(h) ==
    /\ h.dispatched <= h.requested /\ Len(h.outcomes) <= h.dispatched
    /\ h.dispatched <= Len(h.outcomes) + 1
    /\ \A k \in DOMAIN h.outcomes : h.outcomes[k] \in {TimedOut, Rejected, Observed(k)}

HookFits(h) ==
    /\ h \in Hook
    /\ h.result = "ready" =>
          /\ Underway(h)
          /\ IF h.owner = 0 THEN h.dispatched = 0
             ELSE h.owner = h.dispatched /\ h.owner = Len(h.outcomes) + 1
    /\ \A k \in DOMAIN h.outcomes :
          h.outcomes[k] \in {TimedOut, Rejected, NotDispatched, Observed(k)}
    /\ h.dispatched > 0 => h.requested > 0
    /\ h.result = "complete" =>
          /\ Len(h.outcomes) = h.requested /\ h.requested = Items
          /\ \A k \in DOMAIN h.outcomes : h.outcomes[k] = NotDispatched <=> h.dispatched < k

FlightFits == \A i \in ItemIds : flight[i] = "none" <=> hook.dispatched < i

\* The command reaches the pinned document only, and none before it is sent.
QueueFits ==
    /\ HookFits(hook) /\ FlightFits
    /\ hook.requested > 0 => doc = pinned /\ pinned > 0
    /\ command = "none" => hook.requested = 0
    /\ worker \in {"idle", "creating", "waiting", "reading", "rechecking"} => command = "none"
    /\ Commanded /\ report = "success" =>
          /\ Len(answer) = Items /\ pinned > 0
          /\ doc = pinned => hook.result = "complete" /\ answer = hook.outcomes
    /\ ~Commanded => QueueInit

\* What a stage is at each place of the worker.
Whole == stage.exists /\ stage.sealed /\ stage.chunks = [k \in 1 .. size |-> wire]
Early == {"idle", "creating", "waiting", "reading"}
Moving ==
    {"beginning", "checking", "fetching", "appending", "sealing", "revisiting", "rereading", "aborting"}

CallFits ==
    /\ call.op = "none" <=> call.at = "none"
    /\ call.op = "none" => call.of = 0
    /\ call.op # "none" => size > 0
    /\ call.op = "begin" => call.at # "writing"
    /\ worker \notin {"beginning", "appending", "sealing", "aborting"} \cup Ended => call = NoCall
    /\ worker = "beginning" => call.op = "begin"
    /\ worker = "appending" => call.op = "append"
    /\ worker = "sealing" => call.op = "seal"

StageFits ==
    /\ worker \notin {"rechecking", "commanding", "polling"}
    /\ worker \in Early => stage = NoStage /\ wire = 0
    /\ worker = "beginning" => 
          stage = IF call.at = "granted" THEN [NoStage EXCEPT !.exists = TRUE] ELSE NoStage
    /\ worker \in {"checking", "fetching", "appending", "sealing"} => stage.exists
    /\ worker = "sealing" =>
          Len(stage.chunks) = size /\ (call.at = "granted" => Whole)
    /\ worker \in {"revisiting", "rereading"} => Whole /\ mode = "replay"
    /\ worker = "confirming" => (IF size = 0 THEN stage = NoStage ELSE Whole)
    /\ worker \in Moving => size > 0
    /\ worker \in Moving \cup {"confirming"} => wire > 0
    /\ mode = "replay" /\ wire > 0 => wire = pinned

\* What is left when the procedure is over.
EndFits ==
    /\ worker \in {"aborting", "over"} /\ call.op # "none" => left
    /\ report = "success" => call = NoCall /\ (size > 0 => Whole /\ wire > 0)
    /\ report = "failure" /\ stage.exists => left /\ (call.op = "none" => mode = "capture")

\* A hook with a result does not watch, what a capture has read is no error, and only
\* a replay sends a request of its own.
PageFits ==
    /\ mode = "capture" /\ page.source = "held" => page.result # "error"
    /\ page.result # "ready" => page.window # "open"
    /\ page.replay # "none" => mode = "replay"

CaptureFits ==
    /\ size > 0 => mode \in {"capture", "replay"}
    /\ IF Commanded THEN CaptureInit ELSE CallFits /\ StageFits /\ EndFits /\ PageFits

PageInv == PageTypeOK /\ TabFits /\ QueueFits /\ CaptureFits

-----------------------------------------------------------------------------
(* The tab, whichever procedure has it.                                    *)

LEMMA SpentIsTyped ==
    ASSUME TabTypeOK, NEW d \in Disturbances, Spend(d)
    PROVE  spent' \in [Disturbances -> Nat]
  BY DEF TabTypeOK, Spend

\* A step of the worker that goes on, or ends the procedure.
WorkerMoves ==
    \/ worker' \in Places \ {"idle"} /\ UNCHANGED <<tab, report>>
    \/ Ends("success") \/ Ends("failure")

LEMMA WorkerKeepsTab ==
    ASSUME TabTypeOK, TabFits, worker \notin {"idle"} \cup Ended, WorkerMoves,
           UNCHANGED <<mode, expired, route, doc, hooked, spent>>,
           pinned' = pinned \/ (pinned' = doc /\ tab = "open")
    PROVE  TabTypeOK' /\ TabFits' /\ worker' # "idle"
<1>1. report = "none"
  BY DEF TabFits, Ended
<1>2. CASE worker' \in Places \ {"idle"} /\ UNCHANGED <<tab, report>>
  BY <1>1, <1>2 DEF TabTypeOK, TabFits
<1>3. CASE Ends("success") \/ Ends("failure")
  BY <1>3 DEF TabTypeOK, TabFits, Ends, Places, Ended, Tabs
<1> QED
  BY <1>2, <1>3 DEF WorkerMoves

\* A step of the document.
LEMMA DocumentKeepsTab ==
    ASSUME TabTypeOK, TabFits, spent' \in [Disturbances -> Nat],
           UNCHANGED <<mode, pinned, worker, report, expired, browser>>
    PROVE  TabTypeOK' /\ TabFits'
  BY DEF TabTypeOK, TabFits, browser

LEMMA TabStarts == ASSUME TabInit PROVE TabTypeOK /\ TabFits
<1>1. spent \in [Disturbances -> Nat]
  BY DEF TabInit
<1>2. TabFits
  BY DEF TabInit, TabFits
<1> QED
  BY <1>1, <1>2 DEF TabInit, TabTypeOK, Modes, Places, Ended, Tabs, Routes

LEMMA TabKeeps ==
    ASSUME TabTypeOK, TabFits, TabSteps \/ Reloads
    PROVE  TabTypeOK' /\ TabFits' /\ mode' = mode /\ pinned' = pinned
<1>1. CASE Asks
  BY <1>1 DEF Asks, TabTypeOK, TabFits, Places, Tabs, Ended
<1>2. CASE TabOpens
  BY <1>2 DEF TabOpens, LateTab, TabTypeOK, TabFits, Places, Tabs, Ended
<1>3. CASE TabRefused
  <2>1. spent' \in [Disturbances -> Nat]
    BY <1>3, SpentIsTyped DEF TabRefused, Disturbances
  <2> QED
    BY <1>3, <2>1 DEF TabRefused, TabTypeOK, TabFits, Places, Tabs, Ended
<1>4. CASE TabIsLate
  BY <1>4, WorkerKeepsTab DEF TabIsLate, Fails, WorkerMoves, Ended
<1>5. CASE TabRemoved
  BY <1>5 DEF TabRemoved, TabTypeOK, TabFits, Tabs
<1>6. CASE Expires
  BY <1>6 DEF Expires, browser, TabTypeOK, TabFits
<1>7. CASE WorkerLost
  <2>1. spent' \in [Disturbances -> Nat]
    BY <1>7, SpentIsTyped DEF WorkerLost, Disturbances
  <2> QED
    BY <1>7, <2>1 DEF WorkerLost, browser, TabTypeOK, TabFits, Places, Ended
<1>8. CASE Loads
  <2>1. spent' \in [Disturbances -> Nat]
    BY <1>8, SpentIsTyped DEF Loads, Disturbances, TabTypeOK
  <2> QED
    BY <1>8, <2>1 DEF Loads, TabTypeOK, TabFits, Routes
<1>9. CASE Moves
  <2>1. spent' \in [Disturbances -> Nat]
    BY <1>9, SpentIsTyped DEF Moves, Disturbances
  <2> QED
    BY <1>9, <2>1 DEF Moves, TabTypeOK, TabFits, Routes
<1>10. CASE UserCloses
  <2>1. spent' \in [Disturbances -> Nat]
    BY <1>10, SpentIsTyped DEF UserCloses, Disturbances
  <2> QED
    BY <1>10, <2>1 DEF UserCloses, TabTypeOK, TabFits, Tabs
<1>11. CASE Reloads
  <2>1. spent' \in [Disturbances -> Nat]
    BY <1>11, SpentIsTyped DEF Reloads, Disturbances
  <2>2. doc' = doc + 1 /\ doc \in Nat /\ pinned \in Nat /\ doc > 0 /\ tab = "open"
    BY <1>11 DEF Reloads, TabTypeOK, TabFits
  <2>3. TabTypeOK'
    <3>1. doc' \in Nat /\ route' \in Routes /\ hooked' = FALSE
      BY <1>11, <2>2 DEF Reloads, Routes
    <3>2. UNCHANGED <<mode, pinned, worker, report, expired, tab>>
      BY <1>11 DEF Reloads
    <3> QED
      BY <2>1, <3>1, <3>2 DEF TabTypeOK
  <2>4. TabFits'
    BY <1>11, <2>2 DEF Reloads, TabFits
  <2> QED
    BY <1>11, <2>3, <2>4 DEF Reloads
<1> QED
  BY <1>1, <1>2, <1>3, <1>4, <1>5, <1>6, <1>7, <1>8, <1>9, <1>10, <1>11 DEF TabSteps

-----------------------------------------------------------------------------
(* The queue of requests: the operators of the hook.                       *)

LEMMA OutcomesDiffer ==
    /\ \A i, k \in ItemIds : Observed(i) = Observed(k) => i = k
    /\ \A i : Observed(i) \notin {TimedOut, Rejected, NotDispatched}
    /\ TimedOut # NotDispatched /\ Rejected # NotDispatched
  BY DEF Observed, TimedOut, Rejected, NotDispatched

LEMMA ItemsAreNatural ==
    Items \in Nat /\ Items > 0 /\ ItemIds = 1 .. Items /\ (\A i \in ItemIds : i \in Nat /\ i > 0)
  BY ResolverQueueParameters DEF ItemIds

LEMMA HooksAreTyped ==
    ASSUME NEW h \in Hook
    PROVE  /\ h.outcomes \in Seq(Outcomes) /\ Len(h.outcomes) \in Nat
           /\ h.requested \in {0, Items} /\ h.requested \in Nat
           /\ h.dispatched \in Nat /\ h.owner \in Nat /\ h.owner \in {0} \cup ItemIds
           /\ DOMAIN h.outcomes = 1 .. Len(h.outcomes)
           /\ h.result \in {"ready", "error", "complete"}
  BY ItemsAreNatural DEF Hook

LEMMA PaddedFits ==
    ASSUME NEW h \in Hook, Underway(h)
    PROVE  /\ Padded(h) \in Seq(Outcomes) /\ Len(Padded(h)) = h.requested
           /\ \A k \in 1 .. h.requested :
                 /\ Padded(h)[k] \in {TimedOut, Rejected, NotDispatched, Observed(k)}
                 /\ Padded(h)[k] = NotDispatched <=> h.dispatched < k
<1> DEFINE n == Len(h.outcomes)
           rest == [i \in 1 .. (h.requested - n) |->
                       IF i = 1 /\ n < h.dispatched THEN TimedOut ELSE NotDispatched]
<1>1. n \in Nat /\ h.requested \in Nat /\ n <= h.requested /\ h.requested - n \in Nat
      /\ h.dispatched \in Nat /\ n <= h.dispatched /\ h.dispatched <= n + 1
      /\ h.outcomes \in Seq(Outcomes) /\ DOMAIN h.outcomes = 1 .. n
  BY HooksAreTyped DEF Underway
<1>2. rest \in Seq(Outcomes) /\ Len(rest) = h.requested - n
  BY <1>1 DEF Outcomes
<1>3. Padded(h) = h.outcomes \o rest
  BY DEF Padded
<1> HIDE DEF rest
<1>4. /\ Padded(h) \in Seq(Outcomes) /\ Len(Padded(h)) = n + (h.requested - n)
      /\ \A k \in 1 .. (n + (h.requested - n)) :
            Padded(h)[k] = IF k <= n THEN h.outcomes[k] ELSE rest[k - n]
  BY <1>1, <1>2, <1>3
<1>5. n + (h.requested - n) = h.requested
  BY <1>1
<1>6. ASSUME NEW k \in 1 .. h.requested
      PROVE  /\ Padded(h)[k] \in {TimedOut, Rejected, NotDispatched, Observed(k)}
             /\ Padded(h)[k] = NotDispatched <=> h.dispatched < k
  <2>1. CASE k <= n
    <3>1. Padded(h)[k] = h.outcomes[k] /\ k \in DOMAIN h.outcomes
      BY <1>1, <1>4, <1>5, <2>1
    <3>2. h.outcomes[k] \in {TimedOut, Rejected, Observed(k)}
      BY <3>1 DEF Underway
    <3> QED
      BY <1>1, <2>1, <3>1, <3>2, OutcomesDiffer
  <2>2. CASE ~(k <= n)
    <3>1. Padded(h)[k] = rest[k - n] /\ k - n \in 1 .. (h.requested - n)
      BY <1>1, <1>4, <1>5, <2>2
    <3>2. rest[k - n] = IF k - n = 1 /\ n < h.dispatched THEN TimedOut ELSE NotDispatched
      BY <3>1 DEF rest
    <3> QED
      BY <1>1, <2>2, <3>1, <3>2, OutcomesDiffer
  <2> QED
    BY <2>1, <2>2
<1> QED
  BY <1>4, <1>5, <1>6

\* What a step of the page makes of its hook: it sends at most one request.
Proceeds(g, h) ==
    /\ HookFits(h) /\ h.requested = g.requested
    /\ \/ h.dispatched = g.dispatched
       \/ /\ h.dispatched = g.dispatched + 1 /\ h.owner = h.dispatched
          /\ Len(h.outcomes) = g.dispatched /\ route = "exact" /\ h.requested > 0

LEMMA CompletedFits ==
    ASSUME NEW h \in Hook, Underway(h), h.requested > 0
    PROVE  Proceeds(h, Completed(h)) /\ Completed(h).result = "complete"
<1> DEFINE p == Padded(h)
           c == Completed(h)
<1>1. /\ p \in Seq(Outcomes) /\ Len(p) = h.requested
      /\ \A k \in 1 .. h.requested :
            /\ p[k] \in {TimedOut, Rejected, NotDispatched, Observed(k)}
            /\ p[k] = NotDispatched <=> h.dispatched < k
  BY PaddedFits
<1> HIDE DEF p
<1>2. c = [h EXCEPT !.outcomes = p, !.owner = 0, !.result = "complete"]
  BY DEF Completed, p
<1>3. c \in Hook
  BY <1>1, <1>2 DEF Hook
<1>4. /\ c.outcomes = p /\ c.owner = 0 /\ c.result = "complete"
      /\ c.requested = h.requested /\ c.dispatched = h.dispatched
  BY <1>2 DEF Hook
<1> HIDE DEF c
<1>5. h.requested = Items /\ DOMAIN p = 1 .. h.requested
  BY <1>1, HooksAreTyped
<1> QED
  BY <1>1, <1>3, <1>4, <1>5 DEF Proceeds, HookFits, c

LEMMA FailedFits ==
    ASSUME NEW h \in Hook, Underway(h)
    PROVE  Proceeds(h, Failed(h)) /\ Failed(h).result = "error"
<1>1. /\ Failed(h) \in Hook /\ Failed(h).outcomes = h.outcomes /\ Failed(h).result = "error"
      /\ Failed(h).requested = h.requested /\ Failed(h).dispatched = h.dispatched
  BY DEF Failed, Hook
<1>2. h.dispatched > 0 => h.requested > 0
  BY HooksAreTyped DEF Underway
<1> QED
  BY <1>1, <1>2 DEF Proceeds, HookFits, Underway

LEMMA SourceFailureFits ==
    ASSUME NEW h \in Hook, Underway(h)
    PROVE  Proceeds(h, SourceFailure(h))
<1>1. h.dispatched > 0 => h.requested > 0
  BY HooksAreTyped DEF Underway
<1> QED
  BY <1>1, CompletedFits, FailedFits DEF SourceFailure

LEMMA QueueProceeds ==
    ASSUME NEW h \in Hook, Underway(h), h.result = "ready", h.requested > 0,
           Len(h.outcomes) = h.dispatched
    PROVE  Proceeds(h, Queue(h))
<1>1. CASE Len(h.outcomes) = h.requested
  BY <1>1, CompletedFits DEF Queue
<1>2. CASE Len(h.outcomes) # h.requested /\ ~HrefStillExact(h)
  BY <1>2, CompletedFits, SourceFailureFits DEF Queue, Drifted
<1>3. CASE Len(h.outcomes) # h.requested /\ HrefStillExact(h)
  <2> DEFINE q == [h EXCEPT !.owner = NextItem(h), !.dispatched = @ + 1]
  <2>1. Queue(h) = q /\ route = "exact"
    BY <1>3 DEF Queue, HrefStillExact
  <2>2. NextItem(h) = h.dispatched + 1 /\ h.dispatched < h.requested /\ h.requested = Items
    BY <1>3, HooksAreTyped DEF NextItem, Underway
  <2>3. NextItem(h) \in ItemIds
    BY <2>2, HooksAreTyped, ItemsAreNatural
  <2>4. /\ q \in Hook /\ q.owner = h.dispatched + 1 /\ q.dispatched = h.dispatched + 1
        /\ q.requested = h.requested /\ q.outcomes = h.outcomes /\ q.result = "ready"
    <3>1. h.dispatched + 1 \in Nat /\ NextItem(h) = h.dispatched + 1
      BY <2>2, HooksAreTyped
    <3>2. q = [h EXCEPT !.owner = NextItem(h), !.dispatched = h.dispatched + 1]
      BY DEF Hook
    <3>3. NextItem(h) \in {0} \cup ItemIds
      BY <2>3
    <3> HIDE DEF NextItem
    <3> QED
      BY <3>1, <3>2, <3>3, HooksAreTyped DEF Hook
  <2> HIDE DEF q
  <2>5. Underway(q)
    BY <2>2, <2>4, HooksAreTyped DEF Underway
  <2>6. HookFits(q)
    BY <2>2, <2>4, <2>5, HooksAreTyped DEF HookFits, Underway
  <2> QED
    BY <2>1, <2>4, <2>6 DEF Proceeds
<1> QED
  BY <1>1, <1>2, <1>3

LEMMA MaybeProceeds ==
    ASSUME NEW h \in Hook, HookFits(h)
    PROVE  Proceeds(h, Maybe(h))
<1>1. CASE h.result = "ready" /\ h.requested > 0 /\ h.source = "ready" /\ h.dispatched = 0
  <2>1. Underway(h) /\ Len(h.outcomes) = h.dispatched
    BY <1>1, HooksAreTyped DEF HookFits, Underway
  <2> QED
    BY <1>1, <2>1, QueueProceeds DEF Maybe
<1>2. CASE ~(h.result = "ready" /\ h.requested > 0 /\ h.source = "ready" /\ h.dispatched = 0)
  BY <1>2 DEF Maybe, Proceeds
<1> QED
  BY <1>1, <1>2

LEMMA CompletesProceeds ==
    ASSUME HookFits(hook), NEW i \in ItemIds, MayComplete(i),
           NEW outcome \in {TimedOut, Rejected, Observed(i)}
    PROVE  Proceeds(hook, Completes(outcome))
<1> DEFINE g == [hook EXCEPT !.outcomes = Append(@, outcome), !.owner = 0]
           n == Len(hook.outcomes)
<1>1. /\ hook \in Hook /\ hook.result = "ready" /\ hook.owner = i /\ i > 0 /\ i \in Nat
      /\ Underway(hook) /\ i = hook.dispatched /\ i = n + 1 /\ n \in Nat
      /\ hook.outcomes \in Seq(Outcomes) /\ hook.requested \in Nat
  BY HooksAreTyped, ItemsAreNatural DEF HookFits, MayComplete, Settled
<1>2. outcome \in Outcomes
  BY DEF Outcomes
<1>3. /\ Append(hook.outcomes, outcome) \in Seq(Outcomes)
      /\ Len(Append(hook.outcomes, outcome)) = i
      /\ \A k \in 1 .. i : Append(hook.outcomes, outcome)[k] = IF k = i THEN outcome ELSE hook.outcomes[k]
  BY <1>1, <1>2
<1>4. /\ g \in Hook /\ g.outcomes = Append(hook.outcomes, outcome) /\ g.owner = 0
      /\ g.dispatched = hook.dispatched /\ g.requested = hook.requested /\ g.result = "ready"
  BY <1>1, <1>3 DEF Hook
<1>5. Completes(outcome) = Queue(g)
  BY DEF Completes
<1> HIDE DEF g
<1>6. \A k \in DOMAIN g.outcomes : g.outcomes[k] \in {TimedOut, Rejected, Observed(k)}
  <2> SUFFICES ASSUME NEW k \in DOMAIN g.outcomes
               PROVE  g.outcomes[k] \in {TimedOut, Rejected, Observed(k)}
    OBVIOUS
  <2>1. k \in 1 .. i
    BY <1>3, <1>4
  <2>2. CASE k = i
    BY <1>3, <1>4, <2>1, <2>2
  <2>3. CASE k # i
    <3>1. k \in DOMAIN hook.outcomes /\ g.outcomes[k] = hook.outcomes[k]
      BY <1>1, <1>3, <1>4, <2>1, <2>3
    <3> QED
      BY <1>1, <3>1 DEF Underway
  <2> QED
    BY <2>2, <2>3
<1>7. Underway(g) /\ Len(g.outcomes) = g.dispatched /\ g.requested > 0
  <2>1. hook.dispatched <= hook.requested
    BY <1>1 DEF Underway
  <2>2. Len(g.outcomes) = i /\ g.dispatched = i /\ i <= g.requested /\ g.requested \in Nat
    BY <1>1, <1>3, <1>4, <2>1
  <2> QED
    BY <1>1, <1>6, <2>2 DEF Underway
<1>8. Proceeds(g, Queue(g))
  BY <1>4, <1>7, QueueProceeds
<1> QED
  BY <1>4, <1>5, <1>8 DEF Proceeds

Flights == [ItemIds -> {"none", "fetching", "reading", "over"}]

\* The step as the properties see it.
LEMMA HookBecomes ==
    ASSUME hook \in Hook, flight \in Flights, FlightFits, NEW g, g.dispatched = hook.dispatched,
           NEW h, Proceeds(g, h), h.requested > 0 => doc = pinned,
           NEW over, \A i \in over \cap ItemIds : flight[i] # "none", Becomes(h, over)
    PROVE  /\ HookFits(hook') /\ FlightFits' /\ flight' \in Flights
           /\ hook'.requested = g.requested /\ QueueDispatchIsGuarded
<1>1. hook' = h /\ HookFits(h) /\ h \in Hook /\ h.requested = g.requested
  BY DEF Becomes, Proceeds, HookFits
<1>2. \A i \in ItemIds :
         flight'[i] = IF i \in over THEN "over"
                      ELSE IF h.owner = i /\ hook.dispatched < h.dispatched THEN "fetching"
                      ELSE flight[i]
  BY DEF Becomes
<1>3. flight' \in Flights
  BY DEF Becomes, Flights
<1>4. /\ hook.dispatched \in Nat /\ h.dispatched \in Nat
      /\ \A i \in ItemIds : i \in Nat /\ (flight[i] = "none" <=> hook.dispatched < i)
  BY <1>1, HooksAreTyped, ItemsAreNatural DEF FlightFits
<1>5. CASE h.dispatched = hook.dispatched
  <2>1. \A i \in ItemIds : flight'[i] = IF i \in over THEN "over" ELSE flight[i]
    BY <1>2, <1>4, <1>5
  <2>2. FlightFits'
    BY <1>1, <1>4, <1>5, <2>1 DEF FlightFits
  <2>3. QueueDispatchIsGuarded
    BY <2>1 DEF QueueDispatchIsGuarded
  <2> QED
    BY <1>1, <1>3, <2>2, <2>3
<1>6. CASE h.dispatched # hook.dispatched
  <2>1. /\ h.dispatched = hook.dispatched + 1 /\ h.owner = h.dispatched
        /\ Len(h.outcomes) = hook.dispatched /\ route = "exact" /\ doc = pinned
    BY <1>6 DEF Proceeds
  <2>2. \A i \in ItemIds :
           flight'[i] = IF i \in over THEN "over" ELSE IF i = h.dispatched THEN "fetching" ELSE flight[i]
    BY <1>2, <1>4, <2>1
  <2>3. FlightFits'
    BY <1>1, <1>4, <2>1, <2>2 DEF FlightFits
  <2>4. ASSUME NEW i \in ItemIds, flight[i] = "none", flight'[i] = "fetching"
        PROVE  /\ route = "exact" /\ doc = pinned
               /\ Len(hook'.outcomes) = i - 1
               /\ \A j \in 1 .. (i - 1) : flight[j] # "none"
    <3>1. i = h.dispatched /\ i \in Nat
      BY <1>4, <2>2, <2>4
    <3>2. ASSUME NEW j \in 1 .. (i - 1) PROVE flight[j] # "none"
      <4>1. j \in ItemIds /\ ~(hook.dispatched < j)
        BY <1>4, <2>1, <3>1, ItemsAreNatural
      <4> QED
        BY <1>4, <4>1
    <3> QED
      BY <1>1, <1>4, <2>1, <3>1, <3>2
  <2>5. QueueDispatchIsGuarded
    BY <2>4 DEF QueueDispatchIsGuarded
  <2> QED
    BY <1>1, <1>3, <2>3, <2>5
<1> QED
  BY <1>5, <1>6

-----------------------------------------------------------------------------
(* The queue of requests: the steps of the page.                           *)

LEMMA SourceIsApart ==
    ASSUME HookFits(hook), NEW where \in {"none", "asked", "ready"}
    PROVE  /\ Proceeds(hook, [hook EXCEPT !.source = where])
           /\ [hook EXCEPT !.source = where].dispatched = hook.dispatched
           /\ [hook EXCEPT !.source = where].requested = hook.requested
           /\ [hook EXCEPT !.source = where].result = hook.result
<1> DEFINE h == [hook EXCEPT !.source = where]
<1>1. /\ h \in Hook /\ h.outcomes = hook.outcomes /\ h.owner = hook.owner /\ h.result = hook.result
      /\ h.requested = hook.requested /\ h.dispatched = hook.dispatched
  BY DEF HookFits, Hook
<1> HIDE DEF h
<1>2. HookFits(h)
  BY <1>1 DEF HookFits, Underway
<1> QED
  BY <1>1, <1>2 DEF Proceeds, h

\* Proceeding composes, as long as what comes first sends nothing.
LEMMA ThenProceeds ==
    ASSUME NEW g, NEW h, NEW k, h.dispatched = g.dispatched, h.requested = g.requested, Proceeds(h, k)
    PROVE  Proceeds(g, k)
  BY DEF Proceeds

HookStep ==
    /\ HookFits(hook') /\ FlightFits' /\ flight' \in Flights
    /\ hook'.requested = hook.requested /\ (Settled => hook' = hook) /\ QueueDispatchIsGuarded

LEMMA HookSteps ==
    ASSUME QueueTypeOK, QueueFits, NEW h, Proceeds(hook, h), Settled => h = hook,
           NEW over, \A i \in over \cap ItemIds : flight[i] # "none", Becomes(h, over)
    PROVE  HookStep
<1>1. hook \in Hook /\ flight \in Flights /\ FlightFits
  BY DEF QueueTypeOK, QueueFits, Flights
<1>2. h.requested = hook.requested /\ (h.requested > 0 => doc = pinned)
  BY DEF Proceeds, QueueFits
<1> QED
  BY <1>1, <1>2, HookBecomes DEF HookStep, Becomes

LEMMA CompletedByProceeds ==
    ASSUME QueueTypeOK, QueueFits, NEW i \in ItemIds,
           NEW outcome \in {TimedOut, Rejected, Observed(i)}
    PROVE  Proceeds(hook, CompletedBy(i, outcome)) /\ (Settled => CompletedBy(i, outcome) = hook)
<1>1. HookFits(hook)
  BY DEF QueueFits
<1>2. CASE MayComplete(i)
  BY <1>1, <1>2, CompletesProceeds DEF CompletedBy, MayComplete
<1>3. CASE ~MayComplete(i)
  BY <1>1, <1>3 DEF CompletedBy, Proceeds
<1> QED
  BY <1>2, <1>3

LEMMA FailuresProceed ==
    ASSUME QueueFits, ~Settled
    PROVE  /\ Proceeds(hook, SourceFailure(hook))
           /\ Proceeds(hook, SourceFailure([hook EXCEPT !.source = "asked"]))
<1>1. HookFits(hook) /\ hook \in Hook /\ hook.result = "ready"
  BY DEF QueueFits, Settled, HookFits
<1>2. Underway(hook)
  BY <1>1 DEF HookFits
<1> DEFINE h == [hook EXCEPT !.source = "asked"]
<1>3. HookFits(h) /\ h.dispatched = hook.dispatched /\ h.requested = hook.requested /\ h.result = "ready"
  BY <1>1, SourceIsApart DEF Proceeds
<1> HIDE DEF h
<1>4. h \in Hook /\ Underway(h)
  BY <1>3 DEF HookFits
<1>5. Proceeds(hook, SourceFailure(h))
  BY <1>3, <1>4, SourceFailureFits, ThenProceeds
<1> QED
  BY <1>1, <1>2, <1>5, SourceFailureFits DEF h

\* The steps of the document on its own.
QueuePage ==
    \/ SourceClaimed \/ SourceAnswers \/ HookTimesOut
    \/ \E i \in ItemIds : ItemAnswers(i) \/ ItemRead(i) \/ ItemTimesOut(i)

LEMMA QueuePageSteps ==
    ASSUME TabTypeOK, QueueTypeOK, QueueFits, QueuePage
    PROVE  /\ HookStep /\ spent' \in [Disturbances -> Nat]
           /\ UNCHANGED <<mode, pinned, worker, report, expired, browser, command, answer>>
<1>0. HookFits(hook) /\ FlightFits /\ hook \in Hook /\ flight \in Flights
  BY DEF QueueFits, QueueTypeOK, Flights
<1>1. UNCHANGED <<mode, pinned, worker, report, expired, browser, command, answer>>
  BY DEF QueuePage, SourceClaimed, SourceAnswers, HookTimesOut, ItemAnswers, ItemRead,
         ItemTimesOut, InDocument, InPage
<1>2. spent' \in [Disturbances -> Nat]
  <2>1. spent' = spent \/ Spend("bad-page")
    BY DEF QueuePage, SourceClaimed, SourceAnswers, HookTimesOut, ItemAnswers, ItemRead,
           ItemTimesOut, InDocument, InPage
  <2> QED
    BY <2>1, SpentIsTyped DEF TabTypeOK, Disturbances
<1>3. ASSUME SourceClaimed PROVE HookStep
  <2>1. /\ ~Settled
        /\ \/ Becomes([hook EXCEPT !.source = "asked"], {})
           \/ Becomes(SourceFailure([hook EXCEPT !.source = "asked"]), {})
    BY <1>3 DEF SourceClaimed, InDocument, InPage
  <2>2. Proceeds(hook, [hook EXCEPT !.source = "asked"])
    BY <1>0, SourceIsApart
  <2>3. Proceeds(hook, SourceFailure([hook EXCEPT !.source = "asked"]))
    BY <2>1, FailuresProceed DEF QueueFits
  <2>4. ASSUME NEW h, Proceeds(hook, h), Becomes(h, {}) PROVE HookStep
    BY <2>1, <2>4, HookSteps
  <2> QED
    BY <2>1, <2>2, <2>3, <2>4
<1>4. ASSUME SourceAnswers PROVE HookStep
  <2> DEFINE h == [hook EXCEPT !.source = "ready"]
  <2>1. ~Settled /\ (Becomes(Maybe(h), {}) \/ Becomes(SourceFailure(hook), {}))
    BY <1>4 DEF SourceAnswers, InDocument, InPage
  <2>2. HookFits(h) /\ h.dispatched = hook.dispatched /\ h.requested = hook.requested
    BY <1>0, SourceIsApart DEF Proceeds
  <2>3. h \in Hook
    BY <2>2 DEF HookFits
  <2> HIDE DEF h
  <2>4. Proceeds(hook, Maybe(h))
    BY <2>2, <2>3, MaybeProceeds, ThenProceeds
  <2>5. Proceeds(hook, SourceFailure(hook))
    BY <2>1, FailuresProceed
  <2>6. ASSUME NEW k, Proceeds(hook, k), Becomes(k, {}) PROVE HookStep
    BY <2>1, <2>6, HookSteps
  <2> QED
    BY <2>1, <2>4, <2>5, <2>6
<1>5. ASSUME HookTimesOut PROVE HookStep
  <2>1. ~Settled /\ Becomes(SourceFailure(hook), {})
    BY <1>5 DEF HookTimesOut, InDocument, InPage
  <2>2. Proceeds(hook, SourceFailure(hook))
    BY <2>1, FailuresProceed
  <2> QED
    BY <2>1, <2>2, HookSteps
<1>6. ASSUME NEW i \in ItemIds, ItemAnswers(i) PROVE HookStep
  <2>1. flight[i] = "fetching"
    BY <1>6 DEF ItemAnswers, InDocument, InPage
  <2>2. CASE Becomes(CompletedBy(i, Rejected), {i})
    BY <2>1, <2>2, CompletedByProceeds, HookSteps
  <2>3. CASE flight' = [flight EXCEPT ![i] = IF MayComplete(i) THEN "reading" ELSE "over"] /\ hook' = hook
    <3>1. flight' \in Flights
      BY <1>0, <2>3 DEF Flights
    <3>2. \A j \in ItemIds : (flight'[j] = "none" <=> flight[j] = "none")
                             /\ (flight'[j] = "fetching" => flight[j] = "fetching")
      BY <1>0, <2>1, <2>3 DEF Flights
    <3> QED
      BY <1>0, <2>3, <3>1, <3>2 DEF HookStep, FlightFits, QueueDispatchIsGuarded
  <2> QED
    BY <1>6, <2>2, <2>3 DEF ItemAnswers, InDocument, InPage
<1>7. ASSUME NEW i \in ItemIds, ItemRead(i) PROVE HookStep
  <2>1. /\ flight[i] = "reading"
        /\ Becomes(CompletedBy(i, Observed(i)), {i}) \/ Becomes(CompletedBy(i, Rejected), {i})
    BY <1>7 DEF ItemRead, InDocument, InPage
  <2> QED
    BY <2>1, CompletedByProceeds, HookSteps
<1>8. ASSUME NEW i \in ItemIds, ItemTimesOut(i) PROVE HookStep
  <2>1. MayComplete(i) /\ Becomes(Completes(TimedOut), {})
    BY <1>8 DEF ItemTimesOut, InDocument, InPage, MayComplete
  <2> QED
    BY <1>0, <2>1, CompletesProceeds, HookSteps DEF MayComplete
<1> QED
  BY <1>1, <1>2, <1>3, <1>4, <1>5, <1>6, <1>7, <1>8 DEF QueuePage

-----------------------------------------------------------------------------
(* The queue of requests: the invariant.                                   *)

QueueInv == TabTypeOK /\ TabFits /\ QueueTypeOK /\ QueueFits

LEMMA FreshHookFits ==
    /\ FreshHook \in Hook /\ HookFits(FreshHook) /\ FreshHook.requested = 0 /\ FreshHook.dispatched = 0
    /\ FreshHook.outcomes = <<>> /\ FreshHook.result = "ready"
    /\ NoFlight \in Flights /\ \A i \in ItemIds : NoFlight[i] = "none" /\ 0 < i
<1>1. /\ FreshHook.source = "none" /\ FreshHook.requested = 0 /\ FreshHook.outcomes = <<>>
      /\ FreshHook.dispatched = 0 /\ FreshHook.owner = 0 /\ FreshHook.result = "ready"
  BY DEF FreshHook
<1>2. FreshHook \in Hook
  BY DEF FreshHook, Hook
<1>3. HookFits(FreshHook)
  BY <1>1, <1>2 DEF HookFits, Underway
<1> QED
  BY <1>1, <1>2, <1>3, ItemsAreNatural DEF NoFlight, Flights

LEMMA QueueStarts ==
    ASSUME TabInit, QueueInit
    PROVE  QueueInv
<1>1. QueueTypeOK
  BY FreshHookFits DEF QueueInit, QueueTypeOK, Flights
<1>2. QueueFits
  BY FreshHookFits DEF QueueInit, QueueFits, FlightFits, TabInit
<1> QED
  BY <1>1, <1>2, TabStarts DEF QueueInv

\* What the tab does on its own.
LEMMA TabLeaves ==
    ASSUME TabFits, TabSteps
    PROVE  /\ doc' = doc \/ pinned = 0
           /\ worker' = worker \/ worker' \in Ended \/ worker \in {"idle", "creating"}
           /\ report' = "success" => report = "success"
           /\ mode' = mode /\ pinned' = pinned
<1>1. mode' = mode /\ pinned' = pinned
  BY DEF TabSteps, Asks, TabOpens, TabRefused, TabIsLate, Fails, Ends, TabRemoved, Expires, browser,
         WorkerLost, Loads, Moves, UserCloses
<1>2. doc' = doc \/ pinned = 0
  BY DEF TabFits, TabSteps, Asks, TabOpens, TabRefused, TabIsLate, Fails, Ends, TabRemoved, Expires,
         browser, WorkerLost, Loads, Moves, UserCloses
<1>3. report' = "success" => report = "success"
  BY DEF TabSteps, Asks, TabOpens, TabRefused, TabIsLate, Fails, Ends, TabRemoved, Expires,
         browser, WorkerLost, Loads, Moves, UserCloses
<1>4. worker' = worker \/ worker' \in Ended \/ worker \in {"idle", "creating"}
  BY DEF TabSteps, Asks, TabOpens, TabRefused, TabIsLate, Fails, Ends, TabRemoved, Expires,
         browser, WorkerLost, Loads, Moves, UserCloses, Ended
<1> QED
  BY <1>1, <1>2, <1>3, <1>4

LEMMA QueueWatchesTab ==
    ASSUME QueueInv, Commanded, TabSteps, UNCHANGED queueVars
    PROVE  QueueInv' /\ QueueDispatchIsGuarded
<1>1. TabTypeOK' /\ TabFits'
  BY TabKeeps DEF QueueInv
<1>2. UNCHANGED <<hook, flight, command, answer>> /\ Commanded'
  BY TabLeaves DEF queueVars, Commanded, QueueInv
<1>3. QueueTypeOK'
  BY <1>2 DEF QueueInv, QueueTypeOK
<1>4. QueueFits /\ TabFits
  BY DEF QueueInv
<1>5. QueueFits'
  <2>1. HookFits(hook') /\ FlightFits'
    BY <1>2, <1>4 DEF QueueFits, FlightFits
  <2>2. hook'.requested > 0 => doc' = pinned' /\ pinned' > 0
    BY <1>2, <1>4, TabLeaves DEF QueueFits
  <2>3. command' = "none" => hook'.requested = 0
    BY <1>2, <1>4 DEF QueueFits
  <2>4. worker' \in {"idle", "creating", "waiting", "reading", "rechecking"} => command' = "none"
    BY <1>2, <1>4, TabLeaves DEF QueueFits, Ended
  <2>5. report' = "success" =>
          /\ Len(answer') = Items /\ pinned' > 0
          /\ doc' = pinned' => hook'.result = "complete" /\ answer' = hook'.outcomes
    BY <1>2, <1>4, TabLeaves DEF QueueFits
  <2> QED
    BY <1>2, <2>1, <2>2, <2>3, <2>4, <2>5 DEF QueueFits
<1> QED
  BY <1>1, <1>2, <1>3, <1>5 DEF QueueInv, QueueDispatchIsGuarded

LEMMA QueueReloads ==
    ASSUME QueueInv, Commanded, Reloads, hook' = FreshHook, flight' = NoFlight,
           UNCHANGED <<command, answer>>
    PROVE  QueueInv' /\ QueueDispatchIsGuarded
<1>1. TabTypeOK' /\ TabFits' /\ Commanded'
  BY TabKeeps DEF QueueInv, Commanded
<1>2. UNCHANGED <<worker, report, pinned>> /\ doc' = doc + 1 /\ doc \in Nat /\ pinned \in Nat /\ pinned <= doc
  BY DEF Reloads, QueueInv, TabTypeOK, TabFits
<1>3. doc' # pinned'
  BY <1>2
<1>4. QueueTypeOK'
  BY FreshHookFits DEF QueueInv, QueueTypeOK, Flights
<1>5. FlightFits'
  BY FreshHookFits DEF FlightFits
<1>6. QueueFits'
  BY <1>1, <1>2, <1>3, <1>5, FreshHookFits DEF QueueInv, QueueFits
<1>7. QueueDispatchIsGuarded
  BY FreshHookFits DEF QueueDispatchIsGuarded
<1> QED
  BY <1>1, <1>4, <1>6, <1>7 DEF QueueInv

LEMMA QueueSeesPage ==
    ASSUME QueueInv, Commanded, QueuePage
    PROVE  QueueInv' /\ QueueDispatchIsGuarded
<1>1. /\ HookStep /\ spent' \in [Disturbances -> Nat]
      /\ UNCHANGED <<mode, pinned, worker, report, expired, browser, command, answer>>
  BY QueuePageSteps DEF QueueInv
<1>2. TabTypeOK' /\ TabFits' /\ Commanded' /\ doc' = doc
  BY <1>1, DocumentKeepsTab DEF QueueInv, Commanded, browser
<1>3. QueueTypeOK'
  BY <1>1 DEF HookStep, HookFits, QueueInv, QueueTypeOK, Flights
<1>4. QueueFits'
  BY <1>1, <1>2 DEF HookStep, QueueInv, QueueFits, Settled
<1> QED
  BY <1>1, <1>2, <1>3, <1>4 DEF HookStep, QueueInv

LEMMA CommandKeeps ==
    ASSUME QueueInv, Commanded, CommandRuns
    PROVE  QueueInv' /\ QueueDispatchIsGuarded
<1>0. /\ HookFits(hook) /\ FlightFits /\ hook \in Hook /\ flight \in Flights /\ command = "sent"
      /\ UNCHANGED <<mode, pinned, worker, report, expired, browser, spent, answer>>
  BY DEF QueueInv, QueueFits, QueueTypeOK, Flights, CommandRuns, tabVars
<1>1. TabTypeOK' /\ TabFits' /\ Commanded' /\ doc' = doc
  BY <1>0, DocumentKeepsTab DEF QueueInv, Commanded, browser, TabTypeOK
<1>2. CASE Alive /\ doc = pinned /\ Accepts
  <2> DEFINE h == [hook EXCEPT !.requested = Items]
  <2>1. Becomes(Maybe(h), {}) /\ command' = "accepted"
    BY <1>2 DEF CommandRuns
  <2>2. hook.result = "ready" /\ hook.requested = 0 /\ ~Settled
    BY <1>2 DEF Accepts, Settled
  <2>3. hook.dispatched = 0 /\ Len(hook.outcomes) = 0
    BY <1>0, <2>2, HooksAreTyped DEF HookFits, Underway
  <2>4. /\ h \in Hook /\ h.dispatched = 0 /\ h.requested = Items /\ h.outcomes = hook.outcomes
        /\ h.result = "ready" /\ h.owner = hook.owner
    BY <1>0, <2>2, <2>3 DEF Hook
  <2> HIDE DEF h
  <2>5. HookFits(h)
    BY <1>0, <2>2, <2>3, <2>4, ItemsAreNatural DEF HookFits, Underway
  <2>6. Proceeds(h, Maybe(h)) /\ Maybe(h).requested = Items
    BY <2>4, <2>5, MaybeProceeds DEF Proceeds
  <2>7. /\ HookFits(hook') /\ FlightFits' /\ flight' \in Flights
        /\ hook'.requested = Items /\ QueueDispatchIsGuarded
    BY <1>0, <1>2, <2>1, <2>3, <2>4, <2>6, HookBecomes
  <2>8. QueueTypeOK'
    BY <1>0, <2>1, <2>7 DEF HookFits, QueueInv, QueueTypeOK, Flights
  <2>9. pinned > 0
    BY <1>2 DEF Alive, QueueInv, TabFits
  <2>10. ~(report = "success")
    BY <1>2, <2>2 DEF QueueInv, QueueFits
  <2>11. QueueFits'
    BY <1>0, <1>1, <1>2, <2>1, <2>7, <2>9, <2>10 DEF QueueInv, QueueFits
  <2> QED
    BY <1>1, <2>7, <2>8, <2>11 DEF QueueInv
<1>3. CASE ~(Alive /\ doc = pinned /\ Accepts)
  <2>1. command' = "refused" /\ UNCHANGED <<hook, flight>>
    BY <1>3 DEF CommandRuns
  <2>2. QueueTypeOK' /\ FlightFits'
    BY <1>0, <2>1 DEF QueueInv, QueueTypeOK, FlightFits
  <2>3. QueueFits'
    BY <1>0, <1>1, <2>1, <2>2 DEF QueueInv, QueueFits
  <2> QED
    BY <1>1, <2>1, <2>2, <2>3 DEF QueueInv, QueueDispatchIsGuarded
<1> QED
  BY <1>2, <1>3

-----------------------------------------------------------------------------
(* The queue of requests: the steps of the worker.                         *)

LEMMA LookedProceeds ==
    ASSUME QueueFits
    PROVE  Proceeds(hook, Looked) /\ (Settled => Looked = hook)
<1>1. CASE mode = "active" /\ ~Settled /\ route # "exact"
  BY <1>1, FailuresProceed DEF Looked
<1>2. CASE ~(mode = "active" /\ ~Settled /\ route # "exact")
  BY <1>2 DEF Looked, QueueFits, Proceeds
<1> QED
  BY <1>1, <1>2

\* The worker goes on, and may have looked at the hook; it does not yet succeed.
LEMMA QueueWorkerKeeps ==
    ASSUME QueueInv, Commanded, worker \notin {"idle"} \cup Ended,
           (worker' \in Places \ {"idle"} /\ UNCHANGED <<tab, report>>) \/ Fails,
           UNCHANGED <<mode, expired, route, doc, hooked, spent, answer>>,
           HookStep,
           pinned' = pinned \/ (pinned' = doc /\ tab = "open" /\ command = "none"),
           command' = command \/ (command' = "sent" /\ worker' \notin {"idle", "creating", "waiting", "reading", "rechecking"}),
           worker' \in {"idle", "creating", "waiting", "reading", "rechecking"} => command = "none"
    PROVE  QueueInv' /\ QueueDispatchIsGuarded
<1>1. TabTypeOK' /\ TabFits' /\ Commanded'
  BY WorkerKeepsTab DEF QueueInv, WorkerMoves, Fails, Commanded
<1>2. QueueTypeOK'
  BY DEF HookStep, HookFits, QueueInv, QueueTypeOK, Flights
<1>3. report' # "success"
  BY DEF QueueInv, TabFits, Fails, Ends, Ended
<1>4. QueueFits'
  <2>1. HookFits(hook') /\ FlightFits' /\ hook'.requested = hook.requested
    BY DEF HookStep
  <2>2. hook'.requested > 0 => doc' = pinned' /\ pinned' > 0
    <3>1. hook \in Hook /\ (hook.requested > 0 => doc = pinned /\ pinned > 0)
          /\ (command = "none" => hook.requested = 0)
      BY DEF QueueInv, QueueFits, QueueTypeOK
    <3> QED
      BY <2>1, <3>1
  <2>3. command' = "none" => hook'.requested = 0
    BY <2>1 DEF QueueInv, QueueFits
  <2>4. worker' \in {"idle", "creating", "waiting", "reading", "rechecking"} => command' = "none"
    OBVIOUS
  <2> QED
    BY <1>1, <1>3, <2>1, <2>2, <2>3, <2>4 DEF QueueFits
<1> QED
  BY <1>1, <1>2, <1>4 DEF HookStep, QueueInv

LEMMA HookStays ==
    ASSUME QueueInv, UNCHANGED <<hook, flight>>
    PROVE  HookStep
  BY DEF QueueInv, QueueFits, QueueTypeOK, FlightFits, HookStep, Flights, QueueDispatchIsGuarded

LEMMA HookLooked ==
    ASSUME QueueInv, Becomes(Looked, {})
    PROVE  HookStep
<1>1. QueueTypeOK /\ QueueFits
  BY DEF QueueInv
<1>2. Proceeds(hook, Looked) /\ (Settled => Looked = hook)
  BY <1>1, LookedProceeds
<1> QED
  BY <1>1, <1>2, HookSteps

LEMMA QueueWorks ==
    ASSUME QueueInv, Commanded, QueueWorker
    PROVE  QueueInv' /\ QueueDispatchIsGuarded
<1> DEFINE early == {"idle", "creating", "waiting", "reading", "rechecking"}
<1>0. worker \in early => command = "none"
  BY DEF QueueInv, QueueFits
<1>1. CASE TargetIsReady
  <2>1. /\ worker = "waiting" /\ UNCHANGED <<mode, expired, route, doc, hooked, spent, pinned, queueVars>>
        /\ (worker' = "reading" /\ UNCHANGED <<tab, report>>) \/ Fails
    BY <1>1 DEF TargetIsReady, AtWork
  <2>2. UNCHANGED <<hook, flight, command, answer>> /\ HookStep
    BY <2>1, HookStays DEF queueVars
  <2> QED
    BY <1>0, <2>1, <2>2, QueueWorkerKeeps DEF Ended, Places, Fails, Ends
<1>2. CASE FirstRead
  <2>1. /\ worker = "reading" /\ UNCHANGED <<mode, expired, route, doc, hooked, spent, command, answer>>
        /\ \/ worker' = "rechecking" /\ UNCHANGED <<tab, report>>
           \/ Fails
        /\ pinned' = pinned \/ (pinned' = doc /\ tab = "open")
        /\ Becomes(Looked, {}) \/ UNCHANGED <<hook, flight>>
    BY <1>2 DEF FirstRead, AtWork, queueVars, HookIsThere
  <2>2. HookStep
    BY <2>1, HookStays, HookLooked
  <2> QED
    BY <1>0, <2>1, <2>2, QueueWorkerKeeps DEF Ended, Places, Fails, Ends
<1>3. CASE Rechecks
  <2>1. /\ worker = "rechecking"
        /\ UNCHANGED <<mode, expired, route, doc, hooked, spent, pinned, hook, flight, answer>>
        /\ \/ worker' = "commanding" /\ command' = "sent" /\ UNCHANGED <<tab, report>>
           \/ Fails /\ UNCHANGED command
    BY <1>3 DEF Rechecks, AtWork
  <2>2. HookStep
    BY <2>1, HookStays
  <2> QED
    BY <1>0, <2>1, <2>2, QueueWorkerKeeps DEF Ended, Places, Fails, Ends
<1>4. CASE CommandAnswered
  <2>1. /\ worker = "commanding"
        /\ UNCHANGED <<mode, expired, route, doc, hooked, spent, pinned, queueVars>>
        /\ \/ worker' = "polling" /\ UNCHANGED <<tab, report>>
           \/ Fails
    BY <1>4 DEF CommandAnswered, AtWork
  <2>2. UNCHANGED <<hook, flight, command, answer>> /\ HookStep
    BY <2>1, HookStays DEF queueVars
  <2> QED
    BY <1>0, <2>1, <2>2, QueueWorkerKeeps DEF Ended, Places, Fails, Ends
<1>5. CASE RunsOut
  <2>1. /\ worker \in {"waiting", "reading", "rechecking", "commanding", "polling"} /\ Fails
        /\ UNCHANGED <<mode, expired, route, doc, hooked, spent, pinned, queueVars>>
    BY <1>5 DEF RunsOut
  <2>2. UNCHANGED <<hook, flight, command, answer>> /\ HookStep
    BY <2>1, HookStays DEF queueVars
  <2> QED
    BY <1>0, <2>1, <2>2, QueueWorkerKeeps DEF Ended, Places, Fails, Ends
<1>6. CASE Polls /\ Fails /\ UNCHANGED answer
  <2>1. /\ worker = "polling" /\ UNCHANGED <<mode, expired, route, doc, hooked, spent, pinned, command>>
        /\ Becomes(Looked, {}) \/ UNCHANGED <<hook, flight>>
    BY <1>6 DEF Polls, AtWork, queueVars
  <2>2. HookStep
    BY <2>1, HookStays, HookLooked
  <2> QED
    BY <1>0, <1>6, <2>1, <2>2, QueueWorkerKeeps DEF Ended, Places, Fails, Ends
<1>7. CASE Polls /\ ~(Fails /\ UNCHANGED answer)
  <2>1. /\ worker = "polling" /\ UNCHANGED <<mode, expired, route, doc, hooked, spent, pinned, command>>
        /\ HookIsThere /\ doc = pinned /\ Becomes(Looked, {})
        /\ Looked.result = "complete" /\ Ends("success") /\ answer' = Looked.outcomes
    BY <1>7 DEF Polls, AtWork, queueVars
  <2>2. HookStep /\ hook' = Looked
    BY <2>1, HookLooked DEF Becomes
  <2>3. TabTypeOK' /\ TabFits' /\ Commanded'
    BY <2>1, WorkerKeepsTab DEF QueueInv, WorkerMoves, Ended, Commanded
  <2>4. HookFits(hook') /\ FlightFits' /\ hook'.requested = hook.requested /\ flight' \in Flights
    BY <2>2 DEF HookStep
  <2>5. /\ hook' \in Hook /\ Len(hook'.outcomes) = Items /\ answer' = hook'.outcomes
        /\ hook'.result = "complete"
    BY <2>1, <2>2, <2>4 DEF HookFits
  <2>6. QueueTypeOK'
    BY <2>1, <2>4, <2>5, HooksAreTyped DEF QueueInv, QueueTypeOK, Flights
  <2>7. pinned > 0
    BY <2>1 DEF HookIsThere, QueueInv, TabFits
  <2>8. worker' = "over"
    BY <2>1 DEF Ends
  <2>9. QueueFits'
    BY <2>1, <2>3, <2>4, <2>5, <2>7, <2>8 DEF QueueInv, QueueFits
  <2> QED
    BY <2>2, <2>3, <2>6, <2>9 DEF QueueInv, HookStep
<1> QED
  BY <1>1, <1>2, <1>3, <1>4, <1>5, <1>6, <1>7 DEF QueueWorker

LEMMA QueueKeeps ==
    ASSUME QueueInv, Commanded, QueueNext
    PROVE  QueueInv' /\ QueueDispatchIsGuarded
<1>1. \/ TabSteps /\ UNCHANGED queueVars
      \/ Reloads /\ hook' = FreshHook /\ flight' = NoFlight /\ UNCHANGED <<command, answer>>
      \/ QueuePage \/ CommandRuns \/ QueueWorker
  BY DEF QueueNext, QueuePage
<1> QED
  BY <1>1, QueueWatchesTab, QueueReloads, QueueSeesPage, CommandKeeps, QueueWorks

\* What the queue reports.
LEMMA OutcomesFollow ==
    ASSUME QueueInv
    PROVE  OutcomesAreFaithful
<1>1. HookFits(hook) /\ FlightFits /\ hook \in Hook
  BY DEF QueueInv, QueueFits, QueueTypeOK
<1>2. ASSUME NEW k \in DOMAIN hook.outcomes, NEW i \in ItemIds, hook.outcomes[k] = Observed(i)
      PROVE  i = k
  <2>1. hook.outcomes[k] = Observed(k)
    BY <1>1, <1>2, OutcomesDiffer DEF HookFits
  <2>2. <<"observed", i>> = <<"observed", k>>
    BY <1>2, <2>1 DEF Observed
  <2> QED
    BY <2>2
<1>3. ASSUME hook.result = "complete"
      PROVE  /\ Len(hook.outcomes) = hook.requested
             /\ \A k \in DOMAIN hook.outcomes : hook.outcomes[k] = NotDispatched <=> flight[k] = "none"
  <2>1. Len(hook.outcomes) = hook.requested /\ hook.requested = Items
        /\ \A k \in DOMAIN hook.outcomes : hook.outcomes[k] = NotDispatched <=> hook.dispatched < k
    BY <1>1, <1>3 DEF HookFits
  <2>2. DOMAIN hook.outcomes = ItemIds
    BY <1>1, <2>1, HooksAreTyped, ItemsAreNatural
  <2> QED
    BY <1>1, <2>1, <2>2 DEF FlightFits
<1>4. Commanded /\ report = "success" =>
         Len(answer) = Items /\ (doc = pinned => answer = hook.outcomes)
  BY DEF QueueInv, QueueFits
<1> QED
  BY <1>2, <1>3, <1>4 DEF OutcomesAreFaithful

-----------------------------------------------------------------------------
(* Reading a conversation: the steps of the page.                          *)

Pages ==
    [source: {"none", "asked", "reading", "held"}, window: {"none", "open", "closed"},
     lookups: [Resolvers -> {"none", "fetching", "reading", "over"}], seen: SUBSET Resolvers,
     replay: {"none", "fetching", "reading"}, result: {"ready", "error", "captured"},
     reader: BOOLEAN]

\* What a step may make of the page.
PageTurns ==
    /\ page' \in Pages /\ PageFits'
    /\ ResultIsFinal /\ ReplayIsGuarded

LEMMA FinishedFits ==
    ASSUME NEW p \in Pages, NEW result \in {"error", "captured"}
    PROVE  /\ Finished(p, result) \in Pages /\ Finished(p, result).result = result
           /\ Finished(p, result).window # "open" /\ Finished(p, result).source = p.source
           /\ Finished(p, result).replay = p.replay
<1> DEFINE w == IF p.window = "open" THEN "closed" ELSE p.window
           seen == IF mode = "observe" /\ result = "error" THEN {} ELSE p.seen
           reader == result = "captured" /\ size > 0
           f == [p EXCEPT !.result = result, !.window = w, !.seen = seen, !.reader = reader]
<1>1. Finished(p, result) = f
  BY DEF Finished, Pages
<1>2. w \in {"none", "open", "closed"} /\ w # "open" /\ seen \in SUBSET Resolvers /\ reader \in BOOLEAN
  BY DEF Pages
<1> HIDE DEF w, seen, reader
<1>3. f \in Pages /\ f.result = result /\ f.window = w /\ f.source = p.source /\ f.replay = p.replay
  BY <1>2 DEF Pages
<1> QED
  BY <1>1, <1>2, <1>3

\* A hook that waits, and its page afterwards.
LEMMA WaitingTurns ==
    ASSUME page \in Pages, PageFits, Waiting, mode' = mode, page' \in Pages,
           mode = "capture" /\ page'.source = "held" => page'.result # "error",
           page'.result # "ready" => page'.window # "open",
           mode = "capture" /\ page.source = "held" => page'.result # "error",
           page'.replay # page.replay => mode = "replay",
           page.replay = "none" /\ page'.replay = "fetching" =>
               route = "exact" /\ page.source = "asked" /\ mode = "replay"
    PROVE  PageTurns
  BY DEF PageTurns, PageFits, Waiting, ResultIsFinal, ReplayIsGuarded

\* The common end of a hook that waits.
LEMMA FinishedTurns ==
    ASSUME page \in Pages, PageFits, Waiting, mode' = mode, NEW p \in Pages,
           NEW result \in {"error", "captured"}, page' = Finished(p, result),
           p.replay = page.replay,
           mode = "capture" /\ (p.source = "held" \/ page.source = "held") => result # "error"
    PROVE  PageTurns
<1>1. /\ page' \in Pages /\ page'.result = result /\ page'.window # "open"
      /\ page'.source = p.source /\ page'.replay = p.replay
  BY FinishedFits
<1> QED
  BY <1>1, WaitingTurns

LEMMA UnfitTurns ==
    ASSUME page \in Pages, PageFits, Waiting, mode' = mode, page' = Finished(page, "error"),
           mode = "capture" => page.source # "held"
    PROVE  PageTurns
  BY FinishedTurns

LEMMA RouteTurns ==
    ASSUME page \in Pages, PageFits, Waiting, mode' = mode, mode = "replay", NEW p \in Pages,
           page' = RouteStillExact(p), p.result # "ready" => p.window # "open",
           page.replay = "none" /\ p.replay = "fetching" => page.source = "asked"
    PROVE  PageTurns
<1>1. CASE route = "exact"
  BY <1>1, WaitingTurns DEF RouteStillExact
<1>2. CASE route # "exact"
  BY <1>2, UnfitTurns DEF RouteStillExact
<1> QED
  BY <1>1, <1>2

LEMMA ClaimedTurns ==
    ASSUME page \in Pages, PageFits, ConversationClaimed, mode' = mode
    PROVE  PageTurns
<1> DEFINE w == IF mode = "observe" THEN "open" ELSE page.window
           p == [page EXCEPT !.source = "asked", !.window = w]
<1>1. Waiting /\ page.source = "none" /\ (page' = p \/ page' = Finished(page, "error"))
  <2>1. p = [page EXCEPT !.source = "asked", !.window = IF mode = "observe" THEN "open" ELSE @]
    BY DEF Pages
  <2> HIDE DEF p
  <2> QED
    BY <2>1 DEF ConversationClaimed, OnPage, InPage, Unfit
<1>2. CASE page' = p
  <2>1. w \in {"none", "open", "closed"}
    BY DEF Pages
  <2> HIDE DEF w
  <2>2. p \in Pages /\ p.source = "asked" /\ p.replay = page.replay /\ p.result = page.result
    BY <2>1 DEF Pages
  <2> HIDE DEF p
  <2> QED
    BY <1>1, <1>2, <2>2, WaitingTurns DEF Waiting
<1>3. CASE page' = Finished(page, "error")
  BY <1>1, <1>3, UnfitTurns
<1> QED
  BY <1>1, <1>2, <1>3

LEMMA AnsweredTurns ==
    ASSUME page \in Pages, PageFits, ConversationAnswers, mode' = mode
    PROVE  PageTurns
<1>1. Waiting /\ page.source = "asked"
  BY DEF ConversationAnswers, OnPage, InPage
<1>2. ASSUME NEW window \in {"open", "closed"},
             page' = [page EXCEPT !.source = "reading", !.window = window]
      PROVE  PageTurns
  <2>1. page' \in Pages /\ page'.source = "reading" /\ page'.replay = page.replay /\ page'.result = page.result
    BY <1>2 DEF Pages
  <2> QED
    BY <1>1, <2>1, WaitingTurns DEF Waiting
<1>3. ASSUME mode = "observe", NEW held, held = [page EXCEPT !.source = "held"],
             page' = IF page.window = "closed" THEN Finished(held, "captured") ELSE held
      PROVE  PageTurns
  <2>1. held \in Pages /\ held.replay = page.replay /\ held.result = page.result
    BY <1>3 DEF Pages
  <2>2. CASE page.window = "closed"
    BY <1>1, <1>3, <2>1, <2>2, FinishedTurns
  <2>3. CASE page.window # "closed"
    BY <1>1, <1>3, <2>1, <2>3, WaitingTurns DEF Waiting
  <2> QED
    BY <2>2, <2>3
<1>4. ASSUME mode = "replay", NEW p, p = [page EXCEPT !.source = "held", !.replay = "fetching"],
             page' = RouteStillExact(p)
      PROVE  PageTurns
  <2>1. p \in Pages /\ p.result = page.result
    BY <1>4 DEF Pages
  <2> QED
    BY <1>1, <1>4, <2>1, RouteTurns DEF Waiting
<1>5. CASE page' = Finished(page, "error")
  BY <1>1, <1>5, UnfitTurns
<1>6. \/ \E window \in {"open", "closed"} : page' = [page EXCEPT !.source = "reading", !.window = window]
      \/ /\ mode = "observe"
         /\ page' = IF page.window = "closed" THEN Finished([page EXCEPT !.source = "held"], "captured")
                    ELSE [page EXCEPT !.source = "held"]
      \/ /\ mode = "replay"
         /\ page' = RouteStillExact([page EXCEPT !.source = "held", !.replay = "fetching"])
      \/ page' = Finished(page, "error")
  BY DEF ConversationAnswers, OnPage, InPage, Unfit
<1> QED
  BY <1>2, <1>3, <1>4, <1>5, <1>6

LEMMA ReadTurns ==
    ASSUME page \in Pages, PageFits, ConversationRead, mode' = mode
    PROVE  PageTurns
<1> DEFINE p == [page EXCEPT !.source = "held"]
<1>1. /\ Waiting /\ mode = "capture" /\ page.source = "reading"
      /\ page' = Held(p) \/ page' = Finished(page, "error")
  BY DEF ConversationRead, OnPage, InPage, Unfit
<1>2. p \in Pages /\ p.replay = page.replay /\ p.result = page.result /\ p.source = "held"
  BY DEF Pages
<1> HIDE DEF p
<1>3. CASE page' = Held(p)
  <2>1. CASE p.window = "open"
    BY <1>1, <1>2, <1>3, <2>1, WaitingTurns DEF Held, Waiting
  <2>2. CASE p.window # "open"
    BY <1>1, <1>2, <1>3, <2>2, FinishedTurns DEF Held
  <2> QED
    BY <2>1, <2>2
<1>4. CASE page' = Finished(page, "error")
  BY <1>1, <1>4, UnfitTurns
<1> QED
  BY <1>1, <1>3, <1>4

LEMMA ReplayTurns ==
    ASSUME page \in Pages, PageFits, ReplayAnswers \/ ReplayRead, mode' = mode
    PROVE  PageTurns
<1>1. Waiting /\ page.replay \in {"fetching", "reading"} /\ mode = "replay"
  BY DEF ReplayAnswers, ReplayRead, OnPage, InPage, PageFits
<1>2. CASE page' = Finished(page, "error")
  BY <1>1, <1>2, UnfitTurns
<1>3. CASE ReplayAnswers /\ page' # Finished(page, "error")
  <2> DEFINE p == [page EXCEPT !.replay = "reading"]
  <2>1. page' = RouteStillExact(p)
    BY <1>3 DEF ReplayAnswers, OnPage, InPage, Unfit
  <2>2. p \in Pages /\ p.replay = "reading" /\ p.result = page.result
    BY DEF Pages
  <2> HIDE DEF p
  <2> QED
    BY <1>1, <2>1, <2>2, RouteTurns DEF Waiting
<1>4. CASE ReplayRead /\ page' # Finished(page, "error")
  <2> DEFINE p == Finished(page, "captured")
  <2>1. page' = RouteStillExact(p)
    BY <1>4 DEF ReplayRead, OnPage, InPage, Unfit
  <2>2. p \in Pages /\ p.replay = page.replay /\ p.window # "open"
    BY FinishedFits
  <2> HIDE DEF p
  <2> QED
    BY <1>1, <2>1, <2>2, RouteTurns
<1> QED
  BY <1>2, <1>3, <1>4

\* A request for a file changes what was seen only while the watch goes on.
LEMMA LookupTurns ==
    ASSUME page \in Pages, PageFits, mode' = mode, NEW r \in Resolvers,
           LookupSent(r) \/ LookupAnswers(r) \/ LookupRead(r)
    PROVE  PageTurns
<1> DEFINE Looks(p, look, seen) ==
        p = [page EXCEPT !.lookups = [page.lookups EXCEPT ![r] = look], !.seen = seen]
<1>1. ASSUME NEW look \in {"fetching", "reading", "over"}, NEW seen \in SUBSET Resolvers,
             Looks(page', look, seen), page.window # "open" => seen = page.seen
      PROVE  PageTurns
  <2> DEFINE l == [page.lookups EXCEPT ![r] = look]
  <2>1. l \in [Resolvers -> {"none", "fetching", "reading", "over"}]
    BY DEF Pages
  <2>2. page' = [page EXCEPT !.lookups = l, !.seen = seen]
    BY <1>1
  <2> HIDE DEF l
  <2>3. /\ page' \in Pages /\ page'.seen = seen
        /\ page'.source = page.source /\ page'.window = page.window
        /\ page'.replay = page.replay /\ page'.result = page.result
    BY <2>1, <2>2 DEF Pages
  <2> QED
    BY <1>1, <2>3 DEF PageTurns, PageFits, ResultIsFinal, ReplayIsGuarded
<1>2. page.seen \in SUBSET Resolvers
  BY DEF Pages
<1>3. CASE LookupSent(r)
  <2>1. page' = [page EXCEPT !.lookups[r] = "fetching"]
    BY <1>3 DEF LookupSent, OnPage, InPage
  <2>2. Looks(page', "fetching", page.seen)
    BY <2>1 DEF Pages
  <2> HIDE DEF Looks
  <2> QED
    BY <1>1, <1>2, <2>2
<1>4. CASE LookupAnswers(r)
  <2>1. PICK next \in {"reading", "over"} : page' = [page EXCEPT !.lookups[r] = next]
    BY <1>4 DEF LookupAnswers, OnPage, InPage
  <2>2. Looks(page', next, page.seen)
    BY <2>1 DEF Pages
  <2> HIDE DEF Looks
  <2> QED
    BY <1>1, <1>2, <2>2
<1>5. CASE LookupRead(r)
  <2> DEFINE s == IF StillCounts THEN page.seen \cup {r} ELSE page.seen
  <2>1. page' = [page EXCEPT !.lookups[r] = "over",
                             !.seen = IF StillCounts THEN @ \cup {r} ELSE @]
    BY <1>5 DEF LookupRead, OnPage, InPage
  <2>2. Looks(page', "over", s)
    BY <2>1 DEF Pages
  <2>3. s \in SUBSET Resolvers /\ (page.window # "open" => s = page.seen)
    BY <1>2 DEF StillCounts
  <2> HIDE DEF Looks, s
  <2> QED
    BY <1>1, <2>2, <2>3
<1> QED
  BY <1>3, <1>4, <1>5

LEMMA TimeTurns ==
    ASSUME page \in Pages, PageFits, mode' = mode, WindowExpires \/ HookGivesUp \/ ReaderExpires
    PROVE  PageTurns
<1>1. CASE WindowExpires
  <2> DEFINE p == [page EXCEPT !.window = "closed"]
  <2>1. Waiting /\ page' = WindowOver(p)
    BY <1>1 DEF WindowExpires, OnPage, InPage
  <2>2. /\ p \in Pages /\ p.window = "closed" /\ p.source = page.source
        /\ p.replay = page.replay /\ p.result = page.result
    BY DEF Pages
  <2> HIDE DEF p
  <2>3. CASE p.source = "held"
    BY <2>1, <2>2, <2>3, FinishedTurns DEF WindowOver
  <2>4. CASE p.source # "held"
    BY <2>1, <2>2, <2>4, WaitingTurns DEF WindowOver, Waiting
  <2> QED
    BY <2>3, <2>4
<1>2. CASE HookGivesUp
  BY <1>2, UnfitTurns DEF HookGivesUp, OnPage, InPage, TimerRuns
<1>3. CASE ReaderExpires
  <2>1. page' = [page EXCEPT !.reader = FALSE]
    BY <1>3 DEF ReaderExpires, OnPage, InPage
  <2>2. /\ page' \in Pages /\ page'.seen = page.seen
        /\ page'.source = page.source /\ page'.window = page.window
        /\ page'.replay = page.replay /\ page'.result = page.result
    BY <2>1 DEF Pages
  <2> QED
    BY <2>2 DEF PageTurns, PageFits, ResultIsFinal, ReplayIsGuarded
<1> QED
  BY <1>1, <1>2, <1>3

LEMMA HookTurns ==
    ASSUME page \in Pages, PageFits, Hooking
    PROVE  PageTurns
<1>1. mode' = mode
  BY DEF Hooking, ConversationClaimed, ConversationAnswers, ConversationRead, ReplayAnswers,
     ReplayRead, HookGivesUp, WindowExpires, ReaderExpires, LookupSent, LookupAnswers, LookupRead,
     OnPage, InPage
<1>2. CASE \E r \in Resolvers : LookupSent(r) \/ LookupAnswers(r) \/ LookupRead(r)
  BY <1>1, <1>2, LookupTurns
<1> QED
  BY <1>1, <1>2, ClaimedTurns, AnsweredTurns, ReadTurns, ReplayTurns, TimeTurns DEF Hooking

-----------------------------------------------------------------------------
(* Reading a conversation: the places of the worker.                       *)

Stages == [exists: BOOLEAN, chunks: Seq(Nat), sealed: BOOLEAN]
Calls ==
    [op: {"none", "begin", "append", "seal"},
     at: {"none", "asked", "writing", "granted", "refused"}, of: Nat]

CaptureInv ==
    /\ ~Commanded /\ TabTypeOK /\ TabFits
    /\ CaptureTypeOK /\ (size > 0 => mode \in {"capture", "replay"})
    /\ CallFits /\ StageFits /\ EndFits /\ PageFits

\* The page is left alone, or only loses its reader.
LEMMA PageStays ==
    ASSUME CaptureInv, mode' = mode, page' = page \/ page' = Released
    PROVE  PageTurns
<1>1. /\ page' \in Pages /\ page'.seen = page.seen
      /\ page'.source = page.source /\ page'.window = page.window
      /\ page'.replay = page.replay /\ page'.result = page.result
  BY DEF CaptureInv, CaptureTypeOK, Pages, Released
<1> QED
  BY <1>1 DEF PageTurns, PageFits, ResultIsFinal, ReplayIsGuarded, CaptureInv

\* What is left to show of a step of the worker.
Moved == CallFits' /\ StageFits' /\ EndFits' /\ wire' \in Nat /\ stage' \in Stages /\ call' \in Calls /\ left' \in BOOLEAN

LEMMA WorkerKeeps ==
    ASSUME CaptureInv, worker \notin {"idle"} \cup Ended, WorkerMoves,
           UNCHANGED <<mode, expired, route, doc, hooked, spent, size>>,
           pinned' = pinned \/ (pinned' = doc /\ tab = "open"),
           page' = page \/ page' = Released, Moved
    PROVE  CaptureInv' /\ PageTurns
<1>1. TabTypeOK' /\ TabFits' /\ ~Commanded'
  BY WorkerKeepsTab DEF CaptureInv, Commanded
<1>2. PageTurns
  BY PageStays
<1>3. CaptureTypeOK'
  BY <1>2 DEF CaptureInv, CaptureTypeOK, PageTurns, Pages, Moved, Stages, Calls
<1> QED
  BY <1>1, <1>2, <1>3 DEF CaptureInv, PageTurns, Moved

LEMMA StagesAreTyped ==
    /\ NoStage \in Stages /\ NoCall \in Calls
    /\ \A op \in {"begin", "append", "seal"}, n \in Nat :
          /\ Call(op, n) \in Calls /\ Call(op, n).op = op /\ Call(op, n).at = "asked"
    /\ NoCall.op = "none" /\ NoCall.at = "none" /\ NoCall.of = 0
    /\ ~NoStage.exists /\ NoStage.chunks = <<>>
<1>1. <<>> \in Seq(Nat)
  OBVIOUS
<1> QED
  BY <1>1 DEF NoStage, NoCall, Call, Stages, Calls

\* Where there is nothing at a stage yet, and it stays so.
LEMMA EarlyMoves ==
    ASSUME CaptureInv, worker \in {"waiting", "reading"}, UNCHANGED <<mode, size, wire, stage, call>>,
           left' \in BOOLEAN,
           \/ worker' \in {"waiting", "reading"} /\ UNCHANGED report
           \/ worker' = "over" /\ report' = "failure"
           \/ worker' = "over" /\ report' = "success" /\ size = 0
    PROVE  Moved
<1>1. report = "none" /\ call = NoCall /\ stage = NoStage /\ wire = 0
  BY DEF CaptureInv, TabFits, CallFits, StageFits, Early, Ended
<1>2. CallFits' /\ StageFits' /\ EndFits'
  BY <1>1, StagesAreTyped DEF CallFits, StageFits, EndFits, Early, Moving, Ended
<1> QED
  BY <1>1, <1>2, StagesAreTyped DEF Moved

LEMMA ReadyMoves ==
    ASSUME CaptureInv, PageIsReady \/ RouteIsReady
    PROVE  CaptureInv' /\ PageTurns
<1>1. ASSUME NEW at \in {"waiting", "checking", "revisiting"}, NEW next, ReadyFor(at, next),
             <<at, next>> \in {<<"waiting", "reading">>, <<"checking", "fetching">>, <<"revisiting", "rereading">>}
      PROVE  CaptureInv' /\ PageTurns
  <2>1. /\ worker = at
        /\ UNCHANGED <<mode, expired, route, doc, hooked, spent, pinned, size, page, wire, stage, call, left>>
        /\ \/ (worker' = next /\ UNCHANGED <<tab, report>>)
           \/ GivesUp
    BY <1>1 DEF ReadyFor, AtWork, captureVars
  <2>2. worker \notin {"idle"} \cup Ended /\ left' \in BOOLEAN
    BY <2>1 DEF Ended, CaptureInv, CaptureTypeOK
  <2>3. WorkerMoves
    BY <1>1, <2>1 DEF WorkerMoves, GivesUp, Fails, Places
  <2>4. Moved
    <3>1. CASE at = "waiting"
      <4>1. wire = 0 /\ next = "reading"
        BY <1>1, <2>1, <3>1 DEF CaptureInv, StageFits, Early
      <4>2. \/ worker' = "reading" /\ UNCHANGED report
            \/ worker' = "over" /\ report' = "failure"
        BY <2>1, <4>1 DEF GivesUp, Fails, Ends
      <4> QED
        BY <2>1, <2>2, <3>1, <4>2, EarlyMoves
    <3>2. CASE at # "waiting"
      <4>1. /\ size > 0 /\ wire > 0 /\ call = NoCall /\ stage.exists /\ report = "none"
            /\ at = "revisiting" => Whole /\ mode = "replay"
        BY <1>1, <2>1, <3>2 DEF CaptureInv, TabFits, StageFits, CallFits, Moving, Whole, Ended
      <4>2. wire \in Nat
        BY DEF CaptureInv, CaptureTypeOK
      <4>3. report' = "none" /\ (worker' = next \/ worker' = "aborting")
        BY <2>1, <4>1, <4>2 DEF GivesUp
      <4>4. next \in {"fetching", "rereading"} /\ (next = "rereading" => at = "revisiting")
        BY <1>1, <3>2
      <4>5. CallFits'
        BY <2>1, <4>1, <4>3, <4>4, StagesAreTyped DEF CallFits, Ended
      <4>6. StageFits'
        BY <2>1, <4>1, <4>3, <4>4 DEF StageFits, Early, Moving, Whole, CaptureInv
      <4>7. EndFits'
        BY <2>1, <4>1, <4>3, StagesAreTyped DEF EndFits
      <4> QED
        BY <2>1, <2>2, <4>5, <4>6, <4>7 DEF Moved, CaptureInv, CaptureTypeOK, Stages, Calls
    <3> QED
      BY <3>1, <3>2
  <2> QED
    BY <2>1, <2>2, <2>3, <2>4, WorkerKeeps
<1> QED
  BY <1>1 DEF PageIsReady, RouteIsReady

LEMMA HookReadMoves ==
    ASSUME CaptureInv, HookRead
    PROVE  CaptureInv' /\ PageTurns
<1>1. /\ worker = "reading" /\ UNCHANGED <<mode, expired, route, doc, hooked, spent, size, page, stage, left>>
      /\ \/ Fails /\ UNCHANGED <<pinned, wire, call>>
         \/ /\ pinned' = IF mode = "replay" /\ tab = "open" THEN doc ELSE pinned
            /\ \/ LooksAgain /\ UNCHANGED <<wire, call>>
               \/ Fails /\ UNCHANGED <<wire, call>>
               \/ Taken /\ HookIsThere
  BY DEF HookRead, AtWork
<1>2. /\ report = "none" /\ call = NoCall /\ stage = NoStage /\ wire = 0 /\ left \in BOOLEAN
      /\ worker \notin {"idle"} \cup Ended
  BY <1>1 DEF CaptureInv, TabFits, CallFits, StageFits, Early, Ended, CaptureTypeOK
<1>3. pinned' = pinned \/ (pinned' = doc /\ tab = "open")
  BY <1>1
<1>4. CASE Fails /\ UNCHANGED <<wire, call>>
  <2>1. WorkerMoves /\ worker' = "over" /\ report' = "failure"
    BY <1>4 DEF WorkerMoves, Fails, Ends
  <2>2. Moved
    BY <1>1, <1>2, <1>4, <2>1, EarlyMoves
  <2> QED
    BY <1>1, <1>2, <1>3, <2>1, <2>2, WorkerKeeps
<1>5. CASE LooksAgain /\ UNCHANGED <<wire, call>>
  <2>1. WorkerMoves /\ worker' \in {"waiting", "reading"} /\ UNCHANGED report
    BY <1>1, <1>5 DEF WorkerMoves, LooksAgain, Places
  <2>2. Moved
    BY <1>1, <1>2, <1>5, <2>1, EarlyMoves
  <2> QED
    BY <1>1, <1>2, <1>3, <2>1, <2>2, WorkerKeeps
<1>6. CASE /\ Taken /\ HookIsThere
           /\ pinned' = IF mode = "replay" /\ tab = "open" THEN doc ELSE pinned
  <2>1. CASE mode = "observe"
    <3>1. /\ WorkerMoves /\ worker' = "over" /\ report' = "success" /\ UNCHANGED <<wire, call>>
          /\ size = 0
      <4>1. Ends("success") /\ UNCHANGED <<wire, call>>
        BY <1>6, <2>1 DEF Taken
      <4>2. size = 0
        BY <2>1, CaptureStagingParameters DEF CaptureInv, CaptureTypeOK
      <4> QED
        BY <4>1, <4>2 DEF WorkerMoves, Ends
    <3>2. Moved
      BY <1>1, <1>2, <3>1, EarlyMoves
    <3> QED
      BY <1>1, <1>2, <1>3, <3>1, <3>2, WorkerKeeps
  <2>2. CASE mode # "observe"
    <3>1. /\ UNCHANGED <<tab, report>> /\ wire' = doc /\ doc \in Nat /\ doc > 0
          /\ IF size = 0 THEN worker' = "confirming" /\ UNCHANGED call
             ELSE worker' = "beginning" /\ call' = Call("begin", 0)
          /\ mode = "replay" => pinned' = doc
      BY <1>6, <2>2 DEF Taken, HookIsThere, CaptureInv, TabTypeOK, TabFits
    <3>2. WorkerMoves
      BY <3>1 DEF WorkerMoves, Places
    <3>3. size \in Nat
      BY CaptureStagingParameters DEF CaptureInv, CaptureTypeOK
    <3>4. CallFits'
      BY <1>1, <1>2, <3>1, <3>3, StagesAreTyped DEF CallFits, Ended
    <3>5. StageFits'
      BY <1>1, <1>2, <3>1, <3>3, StagesAreTyped DEF StageFits, Early, Moving
    <3>6. EndFits'
      BY <1>1, <1>2, <3>1, StagesAreTyped DEF EndFits
    <3>7. call' \in Calls
      BY <1>2, <3>1, StagesAreTyped
    <3>8. Moved
      BY <1>1, <1>2, <3>1, <3>4, <3>5, <3>6, <3>7, StagesAreTyped DEF Moved
    <3> QED
      BY <1>1, <1>2, <1>3, <3>2, <3>8, WorkerKeeps
  <2> QED
    BY <2>1, <2>2
<1> QED
  BY <1>1, <1>4, <1>5, <1>6

\* What the worker has to its name while it moves a body to a stage.
LEMMA MovingHas ==
    ASSUME CaptureInv, worker \in Moving
    PROVE  /\ size \in Nat /\ size > 0 /\ wire \in Nat /\ wire > 0 /\ report = "none"
           /\ stage \in Stages /\ call \in Calls /\ left \in BOOLEAN
           /\ worker \notin {"idle"} \cup Ended /\ (mode = "replay" => wire = pinned)
           /\ mode \in {"capture", "replay"}
<1>1. size \in Nat /\ wire \in Nat /\ stage \in Stages /\ call \in Calls /\ left \in BOOLEAN
  BY CaptureStagingParameters DEF CaptureInv, CaptureTypeOK, Stages, Calls
<1>2. size > 0 /\ wire > 0 /\ (mode = "replay" => wire = pinned)
  BY <1>1 DEF CaptureInv, StageFits
<1>3. report = "none" /\ worker \notin {"idle"} \cup Ended
  BY DEF CaptureInv, TabFits, Moving, Ended
<1> QED
  BY <1>1, <1>2, <1>3 DEF CaptureInv

\* A place, a call and a stage that belong together.
Together(at, c, s) ==
    /\ at \in Moving \cup {"confirming"}
    /\ c = NoCall \/ at \in {"beginning", "appending", "sealing"}
    /\ c.op = "none" <=> c.at = "none"
    /\ c.op = "none" => c.of = 0
    /\ c.op = "begin" => c.at # "writing"
    /\ at = "beginning" =>
          c.op = "begin" /\ s = IF c.at = "granted" THEN [NoStage EXCEPT !.exists = TRUE] ELSE NoStage
    /\ at = "appending" => c.op = "append"
    /\ at = "sealing" =>
          /\ c.op = "seal" /\ Len(s.chunks) = size
          /\ c.at = "granted" => s.exists /\ s.sealed /\ s.chunks = [k \in 1 .. size |-> wire]
    /\ at \in {"checking", "fetching", "appending", "sealing"} => s.exists
    /\ at \in {"revisiting", "rereading"} => mode = "replay"
    /\ at \in {"revisiting", "rereading", "confirming"} =>
          s.exists /\ s.sealed /\ s.chunks = [k \in 1 .. size |-> wire]

LEMMA MovesTogether ==
    ASSUME CaptureInv, worker \in Moving, UNCHANGED <<mode, size, wire, left, pinned, report>>,
           call' \in Calls, stage' \in Stages, Together(worker', call', stage')
    PROVE  Moved
<1>1. /\ size \in Nat /\ size > 0 /\ wire \in Nat /\ wire > 0 /\ report = "none"
      /\ left \in BOOLEAN /\ (mode = "replay" => wire = pinned)
  BY MovingHas
<1> DEFINE at == worker'
<1>2. at \in Moving \cup {"confirming"}
  BY DEF Together
<1>3. CallFits'
  <2>1. /\ call'.op = "none" <=> call'.at = "none"
        /\ call'.op = "none" => call'.of = 0
        /\ call'.op = "begin" => call'.at # "writing"
        /\ worker' \notin {"beginning", "appending", "sealing", "aborting"} \cup Ended => call' = NoCall
    BY DEF Together
  <2>2. /\ worker' = "beginning" => call'.op = "begin"
        /\ worker' = "appending" => call'.op = "append"
        /\ worker' = "sealing" => call'.op = "seal"
    BY DEF Together
  <2>3. size' > 0
    BY <1>1
  <2> QED
    BY <2>1, <2>2, <2>3 DEF CallFits
<1>4. StageFits'
  <2>1. /\ worker' \notin Early
        /\ worker' = "beginning" =>
              stage' = IF call'.at = "granted" THEN [NoStage EXCEPT !.exists = TRUE] ELSE NoStage
        /\ worker' \in {"checking", "fetching", "appending", "sealing"} => stage'.exists
        /\ worker' \notin {"rechecking", "commanding", "polling"}
    BY DEF Together, Early, Moving
  <2>2. /\ worker' = "sealing" => Len(stage'.chunks) = size' /\ (call'.at = "granted" => Whole')
        /\ worker' \in {"revisiting", "rereading"} => Whole' /\ mode' = "replay"
        /\ worker' = "confirming" => Whole'
    BY DEF Together, Whole
  <2>3. size' > 0 /\ size' # 0 /\ wire' > 0 /\ (mode' = "replay" /\ wire' > 0 => wire' = pinned')
    BY <1>1
  <2> QED
    BY <2>1, <2>2, <2>3 DEF StageFits
<1>5. EndFits'
  <2>1. worker' = "aborting" => call' = NoCall
    BY DEF Together
  <2>2. worker' # "over" /\ report' = "none"
    BY <1>1, <1>2 DEF Moving
  <2> QED
    BY <2>1, <2>2, StagesAreTyped DEF EndFits
<1> QED
  BY <1>1, <1>3, <1>4, <1>5 DEF Moved

\* The tab is left alone while a body is moved.
LEMMA MovingKeeps ==
    ASSUME CaptureInv, worker \in Moving,
           UNCHANGED <<tab, report, mode, pinned, expired, route, doc, hooked, spent, size, wire, left>>,
           page' = page \/ page' = Released,
           call' \in Calls, stage' \in Stages, Together(worker', call', stage')
    PROVE  CaptureInv' /\ PageTurns
<1>1. worker \notin {"idle"} \cup Ended
  BY MovingHas
<1>2. worker' \in Places \ {"idle"}
  BY DEF Together, Moving, Places
<1>3. WorkerMoves
  BY <1>2 DEF WorkerMoves
<1>4. Moved
  BY MovesTogether
<1> QED
  BY <1>1, <1>3, <1>4, WorkerKeeps

LEMMA AbortingIsTogether == \A s \in Stages : Together("aborting", NoCall, s)
  BY StagesAreTyped DEF Together, Moving

\* The answers of the store.
LEMMA AnswersMove ==
    ASSUME CaptureInv, NEW at \in {"beginning", "appending", "sealing"}, NEW next, NEW after \in Calls,
           StageAnswers(at, next, after), call.at = "granted" => Together(next, after, stage)
    PROVE  CaptureInv' /\ PageTurns
<1>1. /\ worker = at
      /\ \/ call.at = "granted" /\ worker' = next /\ call' = after
         \/ worker' = "aborting" /\ call' = NoCall
      /\ UNCHANGED <<mode, expired, route, doc, hooked, spent, tab, report, pinned, size, page, wire, stage, left>>
  BY DEF StageAnswers, AtWork
<1>2. worker \in Moving
  BY <1>1 DEF Moving
<1>3. stage' \in Stages /\ call' \in Calls
  BY <1>1, <1>2, MovingHas, StagesAreTyped
<1>4. Together(worker', call', stage')
  BY <1>1, <1>3, AbortingIsTogether
<1> QED
  BY <1>1, <1>2, <1>3, <1>4, MovingKeeps

LEMMA StageMoves ==
    ASSUME CaptureInv, StageBegun \/ ChunkAppended \/ StageSealed
    PROVE  CaptureInv' /\ PageTurns
<1>1. CASE StageBegun
  <2>1. worker = "beginning"
    BY <1>1 DEF StageBegun, StageAnswers, AtWork
  <2>2. size \in Nat /\ size > 0 /\ mode \in {"capture", "replay"}
    BY <2>1, MovingHas DEF Moving
  <2>3. ASSUME call.at = "granted"
        PROVE  Together(NextChunk, NoCall, stage)
    <3>1. stage = [NoStage EXCEPT !.exists = TRUE]
      BY <2>1, <2>3 DEF CaptureInv, StageFits
    <3>2. stage.exists /\ stage.chunks = <<>> /\ Len(stage.chunks) = 0
      BY <3>1 DEF NoStage
    <3>3. NextChunk \in {"checking", "fetching"}
      BY <2>2, <3>2 DEF NextChunk
    <3> QED
      BY <3>2, <3>3, StagesAreTyped DEF Together, Moving
  <2> QED
    BY <1>1, <2>3, AnswersMove, StagesAreTyped DEF StageBegun
<1>2. CASE ChunkAppended
  <2> DEFINE after == IF Len(stage.chunks) = size THEN Call("seal", 0) ELSE NoCall
  <2>1. worker = "appending"
    BY <1>2 DEF ChunkAppended, StageAnswers, AtWork
  <2>2. stage.exists
    BY <2>1 DEF CaptureInv, StageFits
  <2>3. Together(NextChunk, after, stage)
    <3>1. CASE Len(stage.chunks) = size
      <4>1. /\ NextChunk = "sealing" /\ after \in Calls
            /\ after.op = "seal" /\ after.at = "asked"
        BY <3>1, StagesAreTyped DEF NextChunk
      <4> HIDE DEF after
      <4> QED
        BY <2>2, <3>1, <4>1 DEF Together, Moving
    <3>2. CASE Len(stage.chunks) # size
      <4>1. NextChunk \in {"checking", "fetching"} /\ after = NoCall
        BY <3>2 DEF NextChunk
      <4> HIDE DEF after
      <4> QED
        BY <2>2, <4>1, StagesAreTyped DEF Together, Moving
    <3> QED
      BY <3>1, <3>2
  <2>4. after \in Calls
    BY StagesAreTyped
  <2>5. StageAnswers("appending", NextChunk, after)
    BY <1>2 DEF ChunkAppended
  <2> HIDE DEF after
  <2> QED
    BY <2>3, <2>4, <2>5, AnswersMove
<1>3. CASE StageSealed
  <2> DEFINE next == IF mode = "replay" THEN "revisiting" ELSE "confirming"
  <2>1. StageAnswers("sealing", next, NoCall) /\ worker = "sealing"
    BY <1>3 DEF StageSealed, StageAnswers, AtWork
  <2>2. ASSUME call.at = "granted"
        PROVE  Together(next, NoCall, stage)
    BY <2>1, <2>2, StagesAreTyped DEF Together, Moving, CaptureInv, StageFits, Whole
  <2> HIDE DEF next
  <2> QED
    BY <2>1, <2>2, AnswersMove, StagesAreTyped
<1> QED
  BY <1>1, <1>2, <1>3

LEMMA ChunkMoves ==
    ASSUME CaptureInv, ChunkRead \/ ResultReread
    PROVE  CaptureInv' /\ PageTurns
<1>1. CASE ChunkRead
  <2>1. /\ worker = "fetching"
        /\ UNCHANGED <<mode, expired, route, doc, hooked, spent, tab, report, pinned, size, page, wire, stage, left>>
        /\ \/ worker' = "appending" /\ call' = Call("append", doc)
           \/ worker' = "aborting" /\ UNCHANGED call
    BY <1>1 DEF ChunkRead, AtWork
  <2>2. worker \in Moving /\ stage.exists /\ call = NoCall /\ doc \in Nat
    BY <2>1 DEF CaptureInv, StageFits, CallFits, Moving, Ended, TabTypeOK
  <2>3. stage' \in Stages /\ call' \in Calls
    BY <2>1, <2>2, MovingHas, StagesAreTyped
  <2>4. Together(worker', call', stage')
    <3>1. CASE worker' = "aborting" /\ UNCHANGED call
      BY <2>2, <2>3, <3>1, AbortingIsTogether
    <3>2. CASE worker' = "appending" /\ call' = Call("append", doc)
      <4>1. call'.op = "append" /\ call'.at = "asked"
        BY <2>2, <3>2, StagesAreTyped
      <4>2. stage'.exists
        BY <2>1, <2>2
      <4> QED
        BY <3>2, <4>1, <4>2 DEF Together, Moving
    <3> QED
      BY <2>1, <3>1, <3>2
  <2> QED
    BY <2>1, <2>2, <2>3, <2>4, MovingKeeps
<1>2. CASE ResultReread
  <2>1. /\ worker = "rereading"
        /\ UNCHANGED <<mode, expired, route, doc, hooked, spent, tab, report, pinned, size, wire, stage, call, left>>
        /\ \/ worker' = "confirming" /\ page' = Released
           \/ worker' = "aborting" /\ UNCHANGED page
    BY <1>2 DEF ResultReread, AtWork
  <2>2. worker \in Moving /\ Whole /\ call = NoCall
    BY <2>1 DEF CaptureInv, StageFits, CallFits, Moving, Ended
  <2>3. stage' \in Stages /\ call' \in Calls
    BY <2>1, <2>2, MovingHas
  <2>4. Together(worker', call', stage')
    BY <2>1, <2>2, <2>3, AbortingIsTogether, StagesAreTyped DEF Together, Moving, Whole
  <2> QED
    BY <2>1, <2>2, <2>3, <2>4, MovingKeeps
<1> QED
  BY <1>1, <1>2

LEMMA ConfirmedMoves ==
    ASSUME CaptureInv, Confirmed
    PROVE  CaptureInv' /\ PageTurns
<1>1. /\ worker = "confirming"
      /\ UNCHANGED <<mode, expired, route, doc, hooked, spent, pinned, size, page, wire, stage, call, left>>
      /\ Ends("success") \/ GivesUp
  BY DEF Confirmed, AtWork, captureVars
<1>2. /\ worker \notin {"idle"} \cup Ended /\ call = NoCall /\ report = "none"
      /\ IF size = 0 THEN stage = NoStage ELSE Whole
      /\ wire > 0 /\ (mode = "replay" => wire = pinned)
  BY <1>1 DEF CaptureInv, StageFits, CallFits, Moving, Ended, TabFits
<1>3. size \in Nat /\ wire \in Nat /\ stage \in Stages /\ call \in Calls /\ left \in BOOLEAN
  BY CaptureStagingParameters DEF CaptureInv, CaptureTypeOK, Stages, Calls
<1>4. /\ WorkerMoves
      /\ \/ worker' = "over" /\ report' = "success"
         \/ worker' = "over" /\ report' = "failure" /\ size = 0
         \/ worker' = "aborting" /\ report' = "none" /\ size > 0
  BY <1>1, <1>2, <1>3 DEF GivesUp, Fails, Ends, WorkerMoves, Places
<1>5. CallFits'
  BY <1>1, <1>2, <1>4, StagesAreTyped DEF CallFits, Ended
<1>6. StageFits'
  BY <1>1, <1>2, <1>4 DEF StageFits, Early, Moving
<1>7. EndFits'
  BY <1>1, <1>2, <1>3, <1>4, StagesAreTyped DEF EndFits, Whole
<1>8. Moved
  BY <1>1, <1>3, <1>5, <1>6, <1>7 DEF Moved
<1> QED
  BY <1>1, <1>2, <1>4, <1>8, WorkerKeeps

LEMMA AbortMoves ==
    ASSUME CaptureInv, Aborts
    PROVE  CaptureInv' /\ PageTurns
<1>1. /\ worker = "aborting" /\ stage' = NoStage /\ Ends("failure")
      /\ UNCHANGED <<mode, expired, route, doc, hooked, spent, pinned, size, wire, call, left>>
      /\ page' = page \/ page' = Released
  BY DEF Aborts, AtWork, Fails
<1>2. /\ worker \in Moving /\ worker \notin {"idle"} \cup Ended /\ report = "none"
      /\ size \in Nat /\ wire \in Nat /\ call \in Calls /\ left \in BOOLEAN
      /\ (mode = "replay" => wire = pinned)
  BY <1>1, MovingHas DEF Moving
<1>3. worker' = "over" /\ report' = "failure" /\ WorkerMoves
  BY <1>1 DEF Ends, WorkerMoves
<1>4. CallFits'
  BY <1>1, <1>2, <1>3 DEF CallFits, CaptureInv, Ended
<1>5. StageFits'
  BY <1>1, <1>2, <1>3 DEF StageFits, Early, Moving
<1>6. EndFits'
  BY <1>1, <1>2, <1>3, StagesAreTyped DEF EndFits, CaptureInv
<1>7. Moved
  BY <1>1, <1>2, <1>4, <1>5, <1>6, StagesAreTyped DEF Moved
<1> QED
  BY <1>1, <1>2, <1>3, <1>7, WorkerKeeps

LEMMA RunOutMoves ==
    ASSUME CaptureInv, CaptureRunsOut
    PROVE  CaptureInv' /\ PageTurns
<1>1. /\ worker \notin {"idle", "creating", "aborting"} \cup Ended
      /\ UNCHANGED <<mode, pinned, expired, route, doc, hooked, spent, size, page, wire, stage, call>>
      /\ left' = (call.op # "none")
      /\ \/ KnowsStage /\ worker' = "aborting" /\ UNCHANGED <<tab, report>>
         \/ ~KnowsStage /\ Ends("failure")
  BY DEF CaptureRunsOut, Fails
<1>2. /\ report = "none" /\ size \in Nat /\ wire \in Nat
      /\ stage \in Stages /\ call \in Calls /\ left' \in BOOLEAN
  BY <1>1, CaptureStagingParameters DEF CaptureInv, TabFits, CaptureTypeOK, Stages, Calls, Ended
<1>3. worker \notin {"idle"} \cup Ended
  BY <1>1
<1>4. CASE KnowsStage /\ worker' = "aborting" /\ UNCHANGED <<tab, report>>
  <2>1. size > 0 /\ wire > 0 /\ (mode = "replay" => wire = pinned)
    BY <1>2, <1>4 DEF KnowsStage, CaptureInv, StageFits, Moving
  <2>2. CallFits'
    BY <1>1, <1>2, <1>4 DEF CallFits, CaptureInv
  <2>3. StageFits'
    BY <1>1, <1>4, <2>1 DEF StageFits, Early, Moving
  <2>4. EndFits'
    BY <1>1, <1>2, <1>4 DEF EndFits
  <2>5. WorkerMoves
    BY <1>4 DEF WorkerMoves, Places
  <2>6. Moved
    BY <1>1, <1>2, <2>2, <2>3, <2>4 DEF Moved
  <2> QED
    BY <1>1, <1>3, <2>5, <2>6, WorkerKeeps
<1>5. CASE ~KnowsStage /\ Ends("failure")
  <2>1. worker' = "over" /\ report' = "failure" /\ WorkerMoves
    BY <1>5 DEF Ends, WorkerMoves
  <2>2. worker \in {"waiting", "reading", "rechecking", "commanding", "polling", "beginning", "confirming"}
    BY <1>1, <1>5 DEF KnowsStage, CaptureInv, TabTypeOK, Places
  <2>3. CASE worker = "beginning"
    <3>1. mode = "capture" /\ call.op = "begin"
      BY <1>5, <2>3, MovingHas DEF KnowsStage, Moving, CaptureInv, CallFits
    <3>2. CallFits'
      BY <1>1, <1>2, <2>1, <2>3 DEF CallFits, CaptureInv, Ended
    <3>3. StageFits'
      BY <1>1, <2>1, <3>1 DEF StageFits, Early, Moving
    <3>4. EndFits'
      BY <1>1, <1>2, <2>1, <3>1 DEF EndFits
    <3>5. Moved
      BY <1>1, <1>2, <3>2, <3>3, <3>4 DEF Moved
    <3> QED
      BY <1>1, <1>3, <2>1, <3>5, WorkerKeeps
  <2>4. CASE worker # "beginning"
    <3>1. call = NoCall /\ ~stage.exists
      BY <1>2, <1>5, <2>2, <2>4, StagesAreTyped DEF KnowsStage, CaptureInv, CallFits, StageFits, Early, Ended
    <3>2. CallFits'
      BY <1>1, <1>2, <2>1, <3>1, StagesAreTyped DEF CallFits, Ended
    <3>3. StageFits'
      BY <1>1, <2>1, <2>2 DEF StageFits, Early, Moving, CaptureInv
    <3>4. EndFits'
      BY <1>1, <1>2, <2>1, <3>1, StagesAreTyped DEF EndFits
    <3>5. Moved
      BY <1>1, <1>2, <3>2, <3>3, <3>4 DEF Moved
    <3> QED
      BY <1>1, <1>3, <2>1, <3>5, WorkerKeeps
  <2> QED
    BY <2>3, <2>4
<1> QED
  BY <1>1, <1>4, <1>5

LEMMA WorkerReads ==
    ASSUME CaptureInv, CaptureWorker
    PROVE  CaptureInv' /\ PageTurns
  BY ReadyMoves, HookReadMoves, StageMoves, ChunkMoves, ConfirmedMoves, AbortMoves, RunOutMoves
  DEF CaptureWorker

-----------------------------------------------------------------------------
(* Reading a conversation: the store, the tab and the procedure as a whole. *)

\* A call that the store attends to while the worker is somewhere or gone.
LEMMA StoreKeeps ==
    ASSUME CaptureInv, CallFits', StageFits', EndFits', call' \in Calls, stage' \in Stages,
           UNCHANGED <<mode, pinned, worker, report, expired, browser, size, page, wire, left>>,
           spent' \in [Disturbances -> Nat]
    PROVE  CaptureInv' /\ PageTurns
<1>1. TabTypeOK' /\ TabFits' /\ ~Commanded'
  BY DocumentKeepsTab DEF CaptureInv, Commanded
<1>2. PageTurns
  BY PageStays
<1>3. CaptureTypeOK'
  BY DEF CaptureInv, CaptureTypeOK, Calls, Stages
<1> QED
  BY <1>1, <1>2, <1>3 DEF CaptureInv, PageTurns

\* What there is when the store has a call.
LEMMA CalledHas ==
    ASSUME CaptureInv, call.at # "none"
    PROVE  /\ size \in Nat /\ size > 0 /\ stage \in Stages /\ call \in Calls /\ call.op # "none"
           /\ mode \in {"capture", "replay"} /\ report # "success"
           /\ worker \in {"beginning", "appending", "sealing", "aborting"} \cup Ended
           /\ (worker \in {"aborting", "over"} => left)
           /\ (report # "none" => worker = "over")
           /\ spent \in [Disturbances -> Nat]
<1>1. size \in Nat /\ stage \in Stages /\ call \in Calls /\ spent \in [Disturbances -> Nat]
  BY CaptureStagingParameters DEF CaptureInv, CaptureTypeOK, Stages, Calls, TabTypeOK
<1>2. call.op # "none" /\ call # NoCall
  BY StagesAreTyped DEF CaptureInv, CallFits
<1>3. size > 0 /\ worker \in {"beginning", "appending", "sealing", "aborting"} \cup Ended
  BY <1>2 DEF CaptureInv, CallFits
<1>4. report # "success" /\ (worker \in {"aborting", "over"} => left)
  BY <1>2 DEF CaptureInv, EndFits
<1> QED
  BY <1>1, <1>2, <1>3, <1>4 DEF CaptureInv, TabFits

\* An answer to a call that leaves its other parts as they are.
LEMMA AnswersKeep ==
    ASSUME CaptureInv, call.at # "none", NEW at \in {"writing", "granted", "refused"},
           call' = [call EXCEPT !.at = at], stage' \in Stages,
           UNCHANGED <<mode, pinned, worker, report, expired, browser, size, page, wire, left>>,
           spent' \in [Disturbances -> Nat],
           call.op = "begin" => at # "writing" /\ call.at # "granted",
           worker = "beginning" =>
               stage' = IF at = "granted" THEN [NoStage EXCEPT !.exists = TRUE] ELSE NoStage,
           worker \in {"appending", "sealing"} => stage'.exists,
           worker = "sealing" => Len(stage'.chunks) = size /\ (at = "granted" => Whole')
    PROVE  CaptureInv' /\ PageTurns
<1>1. /\ call \in Calls /\ size > 0 /\ call.op # "none" /\ report # "success"
      /\ worker \in {"beginning", "appending", "sealing", "aborting"} \cup Ended
      /\ (worker \in {"aborting", "over"} => left) /\ (report # "none" => worker = "over")
  BY CalledHas
<1>2. call' \in Calls /\ call'.op = call.op /\ call'.at = at /\ call'.of = call.of
  BY <1>1 DEF Calls
<1>3. CallFits'
  BY <1>1, <1>2 DEF CallFits, CaptureInv, Ended
<1>4. StageFits'
  <2>1. worker' \notin Early /\ worker' \notin {"confirming", "checking", "fetching", "revisiting", "rereading", "rechecking", "commanding", "polling"}
    BY <1>1 DEF Early, Ended
  <2>2. worker' \in Moving => size' > 0 /\ wire' > 0
    BY <1>1 DEF CaptureInv, StageFits
  <2>3. mode' = "replay" /\ wire' > 0 => wire' = pinned'
    BY DEF CaptureInv, StageFits
  <2> QED
    BY <1>2, <2>1, <2>2, <2>3 DEF StageFits
<1>5. EndFits'
  BY <1>1, <1>2 DEF EndFits, CaptureInv
<1> QED
  BY <1>2, <1>3, <1>4, <1>5, StoreKeeps

LEMMA StoreMoves ==
    ASSUME CaptureInv, Store
    PROVE  CaptureInv' /\ PageTurns
<1>1. CASE CallRefused
  <2>1. /\ call.at = "asked" /\ call' = [call EXCEPT !.at = "refused"] /\ Spend("refused-store")
        /\ UNCHANGED <<mode, pinned, worker, report, expired, browser, size, page, wire, stage, left>>
    BY <1>1 DEF CallRefused
  <2>2. spent' \in [Disturbances -> Nat]
    BY <2>1, SpentIsTyped DEF CaptureInv, Disturbances
  <2>3. /\ stage \in Stages
        /\ worker = "beginning" => stage = NoStage
        /\ worker \in {"appending", "sealing"} => stage.exists
        /\ worker = "sealing" => Len(stage.chunks) = size
    BY <2>1, CalledHas DEF CaptureInv, StageFits
  <2> QED
    BY <2>1, <2>2, <2>3, AnswersKeep
<1>2. CASE BeginServed
  <2>1. /\ call.op = "begin" /\ call.at = "asked" /\ stage' = [NoStage EXCEPT !.exists = TRUE]
        /\ call' = [call EXCEPT !.at = "granted"]
        /\ UNCHANGED <<tabVars, size, page, wire, left>>
    BY <1>2 DEF BeginServed, Serves
  <2>2. stage' \in Stages /\ worker \notin {"appending", "sealing"}
    BY <2>1, StagesAreTyped DEF Stages, CaptureInv, CallFits
  <2>3. UNCHANGED <<mode, pinned, worker, report, expired, browser, spent>>
    BY <2>1 DEF tabVars
  <2>4. spent' \in [Disturbances -> Nat]
    BY <2>1, <2>3, CalledHas
  <2> QED
    BY <2>1, <2>2, <2>3, <2>4, AnswersKeep
<1>3. CASE CallChecked
  <2> DEFINE at == IF stage.exists THEN "writing" ELSE "refused"
  <2>1. /\ call.op \in {"append", "seal"} /\ call.at = "asked"
        /\ call' = [call EXCEPT !.at = at] /\ UNCHANGED stage
        /\ UNCHANGED <<tabVars, size, page, wire, left>>
    BY <1>3 DEF CallChecked, Serves
  <2>2. UNCHANGED <<mode, pinned, worker, report, expired, browser, spent>> /\ spent' \in [Disturbances -> Nat]
    BY <2>1, CalledHas DEF tabVars
  <2>3. /\ stage \in Stages /\ worker # "beginning"
        /\ worker \in {"appending", "sealing"} => stage.exists
        /\ worker = "sealing" => Len(stage.chunks) = size
    BY <2>1, CalledHas DEF CaptureInv, StageFits, CallFits
  <2>4. at \in {"writing", "granted", "refused"} /\ at # "granted"
    OBVIOUS
  <2> HIDE DEF at
  <2> QED
    BY <2>1, <2>2, <2>3, <2>4, AnswersKeep
<1>4. CASE CallWritten
  <2>1. /\ call.at = "writing" /\ UNCHANGED <<tabVars, size, page, wire, left>>
        /\ \/ /\ stage.exists /\ call.op = "append"
              /\ stage' = [stage EXCEPT !.chunks = Append(@, call.of)]
              /\ call' = [call EXCEPT !.at = "granted"]
           \/ /\ stage.exists /\ call.op = "seal"
              /\ stage' = [stage EXCEPT !.sealed = Sealable]
              /\ call' = [call EXCEPT !.at = IF Sealable THEN "granted" ELSE "refused"]
           \/ /\ ~stage.exists
              /\ stage' \in {stage, [stage EXCEPT !.exists = TRUE]}
              /\ call' = [call EXCEPT !.at = "refused"]
    BY <1>4 DEF CallWritten, Serves
  <2>2. UNCHANGED <<mode, pinned, worker, report, expired, browser, spent>> /\ spent' \in [Disturbances -> Nat]
    BY <2>1, CalledHas DEF tabVars
  <2>3. /\ stage \in Stages /\ call \in Calls /\ size \in Nat /\ call.op # "begin"
        /\ worker # "beginning"
        /\ worker \in {"appending", "sealing"} => stage.exists
        /\ worker = "sealing" => Len(stage.chunks) = size /\ call.op = "seal"
        /\ worker = "appending" => call.op = "append"
    BY <2>1, CalledHas DEF CaptureInv, StageFits, CallFits
  <2>4. CASE /\ stage.exists /\ call.op = "append"
             /\ stage' = [stage EXCEPT !.chunks = Append(@, call.of)]
             /\ call' = [call EXCEPT !.at = "granted"]
    <3>1. Append(stage.chunks, call.of) \in Seq(Nat)
      BY <2>3 DEF Stages, Calls
    <3>2. stage' \in Stages /\ stage'.exists
      BY <2>3, <2>4, <3>1 DEF Stages
    <3>3. worker # "sealing"
      BY <2>3, <2>4
    <3> QED
      BY <2>1, <2>2, <2>3, <2>4, <3>2, <3>3, AnswersKeep
  <2>5. CASE /\ stage.exists /\ call.op = "seal"
             /\ stage' = [stage EXCEPT !.sealed = Sealable]
             /\ call' = [call EXCEPT !.at = IF Sealable THEN "granted" ELSE "refused"]
    <3> DEFINE at == IF Sealable THEN "granted" ELSE "refused"
    <3>1. Sealable \in BOOLEAN /\ stage.chunks \in Seq(Nat)
      BY <2>3 DEF Sealable, Stages
    <3>2. stage' \in Stages /\ stage'.exists /\ stage'.chunks = stage.chunks /\ stage'.sealed = Sealable
      BY <2>3, <2>5, <3>1 DEF Stages
    <3>3. ASSUME worker = "sealing", Sealable
          PROVE  Whole'
      <4>1. Len(stage.chunks) = size /\ DOMAIN stage.chunks = 1 .. size
        BY <2>3, <3>1, <3>3
      <4>2. \A k \in 1 .. size : stage.chunks[k] = wire
        BY <3>3, <4>1 DEF Sealable
      <4>3. stage.chunks = [k \in 1 .. size |-> wire]
        BY <3>1, <4>1, <4>2
      <4> QED
        BY <2>1, <3>2, <3>3, <4>3 DEF Whole
    <3>4. at \in {"writing", "granted", "refused"} /\ (at = "granted" => Sealable)
      OBVIOUS
    <3>5. call' = [call EXCEPT !.at = at]
      BY <2>5
    <3> HIDE DEF at
    <3> QED
      BY <2>1, <2>2, <2>3, <2>5, <3>2, <3>3, <3>4, <3>5, AnswersKeep
  <2>6. CASE /\ ~stage.exists
             /\ stage' \in {stage, [stage EXCEPT !.exists = TRUE]}
             /\ call' = [call EXCEPT !.at = "refused"]
    <3>1. stage' \in Stages /\ worker \notin {"appending", "sealing"}
      BY <2>3, <2>6 DEF Stages
    <3> QED
      BY <2>1, <2>2, <2>3, <2>6, <3>1, AnswersKeep
  <2> QED
    BY <2>1, <2>4, <2>5, <2>6
<1>5. CASE LateAnswer
  <2>1. /\ call.at \in {"granted", "refused"} /\ worker \in {"aborting", "over"}
        /\ call' = NoCall /\ (stage' = IF mode = "replay" THEN NoStage ELSE stage)
        /\ UNCHANGED <<tabVars, size, page, wire, left>>
    BY <1>5 DEF LateAnswer, LateStage
  <2>2. UNCHANGED <<mode, pinned, worker, report, expired, browser, spent>> /\ spent' \in [Disturbances -> Nat]
    BY <2>1, CalledHas DEF tabVars
  <2>3. stage \in Stages /\ mode \in {"capture", "replay"} /\ left /\ report # "success" /\ size > 0
    BY <2>1, CalledHas
  <2>4. call' \in Calls /\ stage' \in Stages
    BY <2>1, <2>3, StagesAreTyped
  <2>5. CallFits'
    BY <2>1, <2>2, StagesAreTyped DEF CallFits
  <2>6. StageFits'
    BY <2>1, <2>2, <2>3 DEF StageFits, CaptureInv, Early, Moving
  <2>7. EndFits'
    BY <2>1, <2>2, <2>3, StagesAreTyped DEF EndFits
  <2> QED
    BY <2>1, <2>2, <2>4, <2>5, <2>6, <2>7, StoreKeeps
<1> QED
  BY <1>1, <1>2, <1>3, <1>4, <1>5 DEF Store

\* What the tab does to the place of the worker.
LEMMA TabPlaces ==
    ASSUME TabTypeOK, TabFits, TabSteps \/ Reloads
    PROVE  \/ UNCHANGED <<worker, report>>
           \/ worker' = "lost" /\ report' = report
           \/ worker \in {"idle", "creating"} /\ worker' \in {"creating", "waiting"} /\ report' = report
           \/ worker = "creating" /\ worker' = "over" /\ report' = "failure"
  BY DEF TabSteps, Asks, TabOpens, TabRefused, TabIsLate, TabRemoved, Expires, WorkerLost, Loads,
     Moves, UserCloses, Reloads, Fails, Ends

LEMMA CaptureWatchesTab ==
    ASSUME CaptureInv, TabSteps \/ Reloads, UNCHANGED <<size, wire, stage, call, left>>,
           page' \in Pages, PageFits', ResultIsFinal, ReplayIsGuarded
    PROVE  CaptureInv' /\ PageTurns
<1>1. TabTypeOK' /\ TabFits' /\ mode' = mode /\ pinned' = pinned
  BY TabKeeps DEF CaptureInv
<1>2. CaptureTypeOK' /\ (size' > 0 => mode' \in {"capture", "replay"}) /\ ~Commanded'
  BY <1>1 DEF CaptureInv, CaptureTypeOK, Pages, Commanded
<1>3. \/ UNCHANGED <<worker, report>>
      \/ worker' = "lost" /\ report' = report
      \/ worker \in {"idle", "creating"} /\ worker' \in {"creating", "waiting"} /\ report' = report
      \/ worker = "creating" /\ worker' = "over" /\ report' = "failure"
  BY TabPlaces DEF CaptureInv
<1>4. CASE UNCHANGED <<worker, report>>
  <2>1. CallFits' /\ StageFits' /\ EndFits'
    BY <1>1, <1>4 DEF CaptureInv, CallFits, StageFits, EndFits, Whole
  <2> QED
    BY <1>1, <1>2, <2>1 DEF CaptureInv, PageTurns
<1>5. CASE worker' = "lost" /\ report' = report
  <2>1. CallFits'
    BY <1>1, <1>5 DEF CaptureInv, CallFits, Ended
  <2>2. StageFits'
    BY <1>1, <1>5 DEF CaptureInv, StageFits, Early, Moving
  <2>3. report = "none"
    BY <1>1, <1>5 DEF TabFits, CaptureInv
  <2>4. EndFits'
    BY <1>1, <1>5, <2>3 DEF EndFits
  <2> QED
    BY <1>1, <1>2, <2>1, <2>2, <2>4 DEF CaptureInv, PageTurns
<1>6. CASE \/ worker \in {"idle", "creating"} /\ worker' \in {"creating", "waiting"} /\ report' = report
           \/ worker = "creating" /\ worker' = "over" /\ report' = "failure"
  <2>1. call = NoCall /\ stage = NoStage /\ wire = 0 /\ report = "none"
    BY <1>6 DEF CaptureInv, TabFits, CallFits, StageFits, Early, Ended
  <2>2. CallFits'
    BY <1>6, <2>1, StagesAreTyped DEF CallFits
  <2>3. StageFits'
    BY <1>1, <1>6, <2>1 DEF StageFits, Early, Moving
  <2>4. EndFits'
    BY <1>6, <2>1, StagesAreTyped DEF EndFits
  <2> QED
    BY <1>1, <1>2, <2>2, <2>3, <2>4 DEF CaptureInv, PageTurns
<1> QED
  BY <1>3, <1>4, <1>5, <1>6

LEMMA FreshPageFits == FreshPage \in Pages /\ FreshPage.result = "ready" /\ FreshPage.replay = "none"
  BY DEF FreshPage, Pages

LEMMA PageLoads ==
    ASSUME CaptureInv, Reloads, page' = FreshPage, UNCHANGED <<size, wire, stage, call, left>>
    PROVE  CaptureInv' /\ PageTurns
<1>1. doc' # doc
  BY DEF Reloads, CaptureInv, TabTypeOK
<1>2. page' \in Pages /\ PageFits' /\ ResultIsFinal /\ ReplayIsGuarded
  BY <1>1, FreshPageFits DEF PageFits, ResultIsFinal, ReplayIsGuarded
<1> QED
  BY <1>2, CaptureWatchesTab

LEMMA SpendInPage ==
    ASSUME TabTypeOK, Hooking
    PROVE  /\ spent' \in [Disturbances -> Nat]
           /\ UNCHANGED <<mode, pinned, worker, report, expired, browser, size, wire, stage, call, left>>
<1>1. /\ spent' = spent \/ Spend("bad-page")
      /\ UNCHANGED <<mode, pinned, worker, report, expired, browser, size, wire, stage, call, left>>
  BY DEF Hooking, ConversationClaimed, ConversationAnswers, ConversationRead, ReplayAnswers,
     ReplayRead, HookGivesUp, WindowExpires, ReaderExpires, LookupSent, LookupAnswers, LookupRead,
     OnPage, InPage, Unfit
<1> QED
  BY <1>1, SpentIsTyped DEF TabTypeOK, Disturbances

LEMMA HookKeeps ==
    ASSUME CaptureInv, Hooking
    PROVE  CaptureInv' /\ PageTurns
<1>1. /\ spent' \in [Disturbances -> Nat]
      /\ UNCHANGED <<mode, pinned, worker, report, expired, browser, size, wire, stage, call, left>>
  BY SpendInPage DEF CaptureInv
<1>2. PageTurns
  BY HookTurns DEF CaptureInv, CaptureTypeOK, Pages
<1>3. TabTypeOK' /\ TabFits' /\ ~Commanded'
  BY <1>1, DocumentKeepsTab DEF CaptureInv, Commanded
<1>4. CaptureTypeOK'
  BY <1>1, <1>2 DEF CaptureInv, CaptureTypeOK, PageTurns, Pages
<1>5. CallFits' /\ StageFits' /\ EndFits'
  BY <1>1 DEF CaptureInv, CallFits, StageFits, EndFits, Whole
<1> QED
  BY <1>1, <1>2, <1>3, <1>4, <1>5 DEF CaptureInv, PageTurns

LEMMA CaptureKeeps ==
    ASSUME CaptureInv, CaptureNext
    PROVE  CaptureInv' /\ PageTurns
<1>1. CASE TabSteps /\ UNCHANGED captureVars
  <2>1. UNCHANGED <<size, page, wire, stage, call, left>> /\ mode' = mode
    BY <1>1, TabKeeps DEF captureVars, CaptureInv
  <2>2. page' \in Pages /\ PageFits' /\ ResultIsFinal /\ ReplayIsGuarded
    BY <2>1, PageStays DEF PageTurns
  <2> QED
    BY <1>1, <2>1, <2>2, CaptureWatchesTab
<1> QED
  BY <1>1, PageLoads, HookKeeps, WorkerReads, StoreMoves DEF CaptureNext

LEMMA CaptureStarts ==
    ASSUME TabInit, CaptureInit
    PROVE  /\ ~Commanded => CaptureInv
           /\ CaptureTypeOK /\ (size > 0 => mode \in {"capture", "replay"})
<1>1. TabTypeOK /\ TabFits /\ worker = "idle" /\ report = "none"
  BY TabStarts DEF TabInit
<1>2. CaptureTypeOK /\ (size > 0 => mode \in {"capture", "replay"})
  BY FreshPageFits, StagesAreTyped, CaptureStagingParameters DEF CaptureInit, CaptureTypeOK, Pages, Stages, Calls
<1>3. CallFits /\ StageFits /\ EndFits /\ PageFits
  BY <1>1, FreshPageFits, StagesAreTyped DEF CaptureInit, CallFits, StageFits, EndFits, PageFits, Early, Moving, Ended
<1> QED
  BY <1>1, <1>2, <1>3 DEF CaptureInv

LEMMA WholeFollows ==
    ASSUME CaptureInv
    PROVE  WholeOrNothing
<1>1. wire \in Nat
  BY DEF CaptureInv, CaptureTypeOK
<1> QED
  BY <1>1 DEF CaptureInv, EndFits, StageFits, Whole, WholeOrNothing

-----------------------------------------------------------------------------
(* The temporary tab as a whole.                                           *)

LEMMA QueueKeepsMode == ASSUME QueueNext PROVE mode' = mode
<1>1. ASSUME TabSteps \/ Reloads PROVE mode' = mode
  BY <1>1 DEF TabSteps, Asks, TabOpens, TabRefused, TabIsLate, TabRemoved, Expires, WorkerLost, Loads,
     Moves, UserCloses, Reloads
<1>2. ASSUME QueueWorker PROVE mode' = mode
  BY <1>2 DEF QueueWorker, TargetIsReady, FirstRead, Rechecks, CommandAnswered, Polls, RunsOut, AtWork
<1>3. ASSUME SourceClaimed \/ SourceAnswers \/ HookTimesOut \/ CommandRuns PROVE mode' = mode
  BY <1>3 DEF SourceClaimed, SourceAnswers, HookTimesOut, CommandRuns, InDocument, InPage, tabVars
<1>4. ASSUME NEW i \in ItemIds, ItemAnswers(i) \/ ItemRead(i) \/ ItemTimesOut(i) PROVE mode' = mode
  BY <1>4 DEF ItemAnswers, ItemRead, ItemTimesOut, InDocument, InPage
<1> QED
  BY <1>1, <1>2, <1>3, <1>4 DEF QueueNext

\* A step of a tab whose page is none of its business, and the other way round.
LEMMA PageInvMeans ==
    /\ PageInv /\ Commanded => QueueInv /\ CaptureInit /\ CaptureTypeOK /\ size = 0
    /\ PageInv /\ ~Commanded => CaptureInv /\ QueueInit /\ QueueTypeOK
<1>1. PageInv /\ Commanded => size = 0
  BY CaptureStagingParameters DEF PageInv, PageTypeOK, CaptureTypeOK, CaptureFits, Commanded
<1> QED
  BY <1>1 DEF PageInv, PageTypeOK, QueueInv, CaptureInv, CaptureFits, QueueFits

LEMMA PageInvStarts == ASSUME PageInit PROVE PageInv
<1>1. QueueInv /\ CaptureTypeOK /\ (size > 0 => mode \in {"capture", "replay"})
      /\ (~Commanded => CaptureInv)
  BY QueueStarts, CaptureStarts DEF PageInit
<1> QED
  BY <1>1 DEF PageInit, PageInv, PageTypeOK, QueueInv, CaptureInv, CaptureFits

LEMMA PageInvKeeps ==
    ASSUME PageInv, PageNext
    PROVE  PageInv' /\ QueueDispatchIsGuarded /\ ReplayIsGuarded /\ ResultIsFinal
<1>1. CASE Commanded /\ QueueNext /\ UNCHANGED captureVars
  <2>1. QueueInv /\ CaptureInit /\ CaptureTypeOK /\ size = 0
    BY <1>1, PageInvMeans
  <2>2. QueueInv' /\ QueueDispatchIsGuarded /\ mode' = mode
    BY <1>1, <2>1, QueueKeeps, QueueKeepsMode
  <2>3. UNCHANGED <<size, page, wire, stage, call, left>>
    BY <1>1 DEF captureVars
  <2>4. CaptureTypeOK' /\ CaptureInit' /\ Commanded'
    BY <1>1, <2>1, <2>2, <2>3 DEF CaptureTypeOK, CaptureInit, Commanded
  <2>5. ReplayIsGuarded /\ ResultIsFinal
    BY <2>1, <2>3, FreshPageFits DEF CaptureInit, ReplayIsGuarded, ResultIsFinal
  <2>6. PageInv'
    BY <2>1, <2>2, <2>3, <2>4 DEF PageInv, PageTypeOK, QueueInv, CaptureFits
  <2> QED
    BY <2>2, <2>5, <2>6
<1>2. CASE ~Commanded /\ CaptureNext /\ UNCHANGED queueVars
  <2>1. CaptureInv /\ QueueInit /\ QueueTypeOK /\ QueueFits
    BY <1>2, PageInvMeans DEF PageInv
  <2>2. CaptureInv' /\ PageTurns
    BY <1>2, <2>1, CaptureKeeps
  <2>3. UNCHANGED <<hook, flight, command, answer>>
    BY <1>2 DEF queueVars
  <2>4. QueueTypeOK' /\ QueueInit' /\ ~Commanded'
    BY <2>1, <2>2, <2>3 DEF QueueTypeOK, QueueInit, CaptureInv
  <2>5. hook.requested = 0
    BY <2>1 DEF QueueInit, FreshHook
  <2>6. QueueFits'
    BY <2>1, <2>3, <2>4, <2>5 DEF QueueFits, QueueInit, FlightFits
  <2>7. QueueDispatchIsGuarded
    BY <2>3 DEF QueueDispatchIsGuarded
  <2>8. PageInv'
    BY <2>2, <2>4, <2>6 DEF PageInv, PageTypeOK, CaptureInv, CaptureFits
  <2> QED
    BY <2>2, <2>7, <2>8 DEF PageTurns
<1> QED
  BY <1>1, <1>2 DEF PageNext

LEMMA PageInvStays ==
    ASSUME PageInv, UNCHANGED pageVars
    PROVE  PageInv'
<1>1. UNCHANGED <<mode, worker, report, pinned, expired, tab, route, doc, hooked, spent>>
  BY DEF pageVars, tabVars, browser
<1>2. UNCHANGED <<hook, flight, command, answer>>
  BY DEF pageVars, queueVars
<1>3. UNCHANGED <<size, page, wire, stage, call, left>>
  BY DEF pageVars, captureVars
<1>4. PageTypeOK' /\ TabFits'
  BY <1>1, <1>2, <1>3 DEF PageInv, PageTypeOK, TabTypeOK, QueueTypeOK, CaptureTypeOK, TabFits
<1>5. QueueFits'
  BY <1>1, <1>2 DEF PageInv, QueueFits, FlightFits, Commanded, QueueInit
<1>6. CaptureFits'
  BY <1>1, <1>3 DEF PageInv, CaptureFits, Commanded, CaptureInit, CallFits, StageFits, EndFits, PageFits, Whole
<1> QED
  BY <1>4, <1>5, <1>6 DEF PageInv

LEMMA ResultsFollow == ASSUME PageInv PROVE PageTypeOK /\ ResultsAreTrue
<1>1. CASE Commanded
  <2>1. QueueInv /\ CaptureInit
    BY <1>1, PageInvMeans
  <2>2. size = 0 /\ stage = NoStage
    BY <1>1, <2>1, PageInvMeans DEF CaptureInit
  <2>3. WholeOrNothing
    BY <2>2, StagesAreTyped DEF WholeOrNothing
  <2> QED
    BY <2>1, <2>3, OutcomesFollow DEF PageInv, ResultsAreTrue
<1>2. CASE ~Commanded
  <2>1. CaptureInv /\ QueueInv
    BY <1>2, PageInvMeans DEF PageInv, PageTypeOK, QueueInv
  <2> QED
    BY <2>1, OutcomesFollow, WholeFollows DEF PageInv, ResultsAreTrue
<1> QED
  BY <1>1, <1>2

LEMMA PageInvStep ==
    ASSUME PageInv, [Next]_vars
    PROVE  /\ PageInv'
           /\ [QueueDispatchIsGuarded /\ ReplayIsGuarded /\ ResultIsFinal]_pageVars
<1>1. CASE InTemporaryTab
  BY <1>1, PageInvKeeps DEF InTemporaryTab
<1>2. CASE InPreview \/ UNCHANGED vars
  <2>1. UNCHANGED pageVars
    BY <1>2 DEF InPreview, vars
  <2> QED
    BY <2>1, PageInvStays
<1> QED
  BY <1>1, <1>2 DEF Next

\* PageInv is inductive.
THEOREM PageIsInductive == Spec => []PageInv
<1>1. Init => PageInv
  BY PageInvStarts DEF Init
<1>2. PageInv /\ [Next]_vars => PageInv'
  BY PageInvStep
<1> QED
  BY <1>1, <1>2, PTL DEF Spec

\* What the five procedures of the temporary tab tell their caller is so: the
\* outcomes of the items stand at their places, a conversation handed over is a
\* sealed stage with the bytes of the one document that was read, and a failure
\* leaves no stage behind but the one a capture left at its deadline:
\* completeActiveResolverItem, stageHookCapture, stageReplayCapture.
THEOREM ReportedResultsAreTrue == Spec => []ResultsAreTrue
<1>1. PageInv => ResultsAreTrue
  BY ResultsFollow
<1> QED
  BY <1>1, PageIsInductive, PTL

\* A request of the extension goes out only from the document it is about, at the
\* URL it was armed at, one at a time, and what a hook found out stays:
\* dispatchActiveResolverQueue, dispatchOpaqueReplay, completeConversation.
THEOREM DispatchesAreGuarded == Spec => DispatchIsGuarded
<1>1. PageInv /\ [Next]_vars =>
          [QueueDispatchIsGuarded /\ ReplayIsGuarded /\ ResultIsFinal]_pageVars
  BY PageInvStep
<1> QED
  BY <1>1, PageIsInductive, PTL DEF Spec, DispatchIsGuarded

-----------------------------------------------------------------------------
(* The preview: the inductive invariant.                                   *)

Kinds ==
    {"claim", "await", "lease", "publish", "stop", "choose", "status", "take", "ack", "close",
     "authorize", "record", "create", "register", "settle", "remove"} \cup TabNews
AtPlaces ==
    {"waiting", "begun", "tab", "settings", "tab-again", "cleaning", "cleaned", "tab-at-last",
     "releasing", "validating", "applying"}
StartPlaces ==
    {"none", "reserved", "opening", "navigating", "confirming", "registering", "beginning",
     "accepting", "accepted", "settling", "done", "chosen", "unconfirmed", "refused", "ending", "failed"}
ClientPlaces ==
    {"idle", "claiming", "running", "selecting", "choosing", "checking", "finishing", "failing",
     "publishing", "stopping"}
ViewPlaces ==
    {"idle", "asking", "offered", "taking", "taken", "acking", "reconciling", "checking", "showing",
     "erased"}
Tabs0 == {SourceTab} \cup Previews

Jobs ==
    [kind: Kinds, s: Tabs0, doc: Nat, gen: Nat, rev: Nat, at: AtPlaces,
     seen: {"nothing", "current", "changed", "accepted", "refused"}]
Sessions ==
    [phase: Phases, over: BOOLEAN, leaseOver: BOOLEAN, selected: BOOLEAN, doc: Nat, gen: Nat,
     window: BOOLEAN, reader: Nat, stages: SUBSET StageIds, held: BOOLEAN, closed: BOOLEAN,
     lost: BOOLEAN]
Tombs == [state: {"none", "there", "over", "expired"}, stages: SUBSET StageIds]
Ops ==
    [step: {"none", "queued", "granted", "done"}, kind: {"none", "begin", "abort"}, doc: Nat,
     epoch: Nat, stage: StageIds \cup {<<>>}]
Views == [at: {"none", "open", "gone"}, doc: Nat, step: ViewPlaces]
Clients ==
    [s: Tabs0, step: ClientPlaces, stopped: BOOLEAN, chosen: BOOLEAN, holds: SUBSET StageIds]

LedgerTypes ==
    /\ sessions \in [Previews -> Sessions] /\ tombs \in [Previews -> Tombs]
    /\ reserved \in BOOLEAN /\ stored \in SUBSET StageIds
LineTypes ==
    /\ queue \in Seq(Jobs) /\ holder \in Jobs \cup {NoJob}
StartTypes == starts \in [Previews -> StartPlaces]
OpTypes == ops \in [Previews -> Ops] /\ begun \in [Previews -> 0 .. StagesEach]
ClientTypes == client \in Clients
BrowserTypes ==
    /\ epoch \in [Tabs0 -> Nat] /\ revision \in Nat
    /\ source \in [doc: Nat \ {0}, at: {"exact", "loading", "other", "gone"}]
    /\ news \in Seq(Tabs0 \X TabNews)
    /\ views \in [Previews -> Views]

PreviewTypes == LedgerTypes /\ LineTypes /\ StartTypes /\ OpTypes /\ ClientTypes /\ BrowserTypes

\* The start of a preview that was accepted by its document; one that failed.
Accepted == {"accepted", "settling", "done", "chosen", "unconfirmed"}
Unborn == {"none", "reserved"}

\* A session that is in service.
Live(x) == Present(x) /\ x.phase # "invalidated"

\* A session, its tombstone and its start.
SessionFits(x, tomb) ==
    /\ HoldsSource(x) => x.held
    /\ ~Present(x) => x.stages = {} /\ ~x.held
    /\ x.phase = "none" => ~x.lost /\ x.doc = 0
    /\ x.doc = 0 => x.stages = {}
    /\ x.phase # "removed" => tomb = NoTomb
    /\ x.phase = "removed" /\ x.doc # 0 => tomb.state # "none"

LedgerFits ==
    /\ \A s \in Previews : SessionFits(sessions[s], tombs[s])
    /\ \A s \in Previews : sessions[s].gen <= epoch[SourceTab]

StartFits == \A s \in Previews : starts[s] \in Unborn => sessions[s].phase = "none"

\* A stage was begun, by the capture of an accepted start.
Known(id) == id[2] <= begun[id[1]]
StoredFits == (\A id \in stored : Known(id)) /\ StagesAreOwned

OpFits(s) ==
    LET op == ops[s]
    IN  /\ op.step = "none" => op = NoOp
        /\ op.step # "none" => op.kind # "none" /\ starts[s] \in Accepted /\ sessions[s].doc # 0
        /\ begun[s] > 0 => starts[s] \in Accepted
        /\ op.step \in {"queued", "granted"} /\ op.kind = "begin" => begun[s] < StagesEach
        /\ op.step = "done" /\ op.kind = "begin" =>
              op.stage \in StageIds /\ op.stage[1] = s /\ Known(op.stage)
        /\ op.kind = "abort" => op.stage = <<>> \/ Known(op.stage)
        /\ op.step = "done" /\ op.kind = "abort" => op.stage \notin stored
OpsFit == \A s \in Previews : OpFits(s)

ClientFits ==
    /\ client.step # "idle" => client.s \in Previews
    /\ client.step = "claiming" => starts[client.s] = "accepting"
    /\ client.step \notin {"idle", "claiming"} =>
          /\ starts[client.s] \in Accepted /\ sessions[client.s].doc # 0
          /\ sessions[client.s].phase \notin {"none", "pending"}
    /\ \A id \in client.holds : Known(id)

\* The holder of the lock, and those who wait for it.
LineSize == IF holder # NoJob THEN Len(queue) + 1 ELSE Len(queue)
Nth(i) ==
    IF holder # NoJob THEN (IF i = 1 THEN holder ELSE queue[i - 1]) ELSE queue[i]
Line == [i \in 1 .. LineSize |-> Nth(i)]

JobFits(m) ==
    /\ m.kind \notin TabNews => m.s \in Previews
    /\ m.kind = "claim" => m.doc # 0
    /\ m.kind = "create" => starts[m.s] = "reserved"
    /\ m.kind = "register" => starts[m.s] = "registering"
    /\ m.kind = "settle" => starts[m.s] \in Accepted
    /\ m.kind = "remove" => starts[m.s] \in {"ending", "failed"}
    /\ m.kind = "authorize" => ops[m.s].step = "queued"
    /\ m.kind = "record" => ops[m.s].step = "done"
    /\ m.kind = "publish" =>
          sessions[m.s].phase \notin {"none", "pending"} /\ m.gen <= epoch[SourceTab]

\* One of them at a time for a preview.
Single == {"create", "register", "authorize", "record"}
SingleFits(line) ==
    \A i, j \in DOMAIN line :
        line[i].kind \in Single /\ line[j].kind = line[i].kind /\ line[j].s = line[i].s => i = j

IsLoss(m) == m.kind \in {"removed", "loading", "elsewhere"} /\ m.s = SourceTab

\* The loss of the source is before whoever could make something of the capture.
LossFits(line) ==
    /\ \A s \in Previews :
          sessions[s].lost /\ Live(sessions[s]) => \E i \in DOMAIN line : IsLoss(line[i])
    /\ \A i \in DOMAIN line :
          LET s == line[i].s
          IN  line[i].kind = "publish" /\ sessions[s].lost /\ Live(sessions[s]) =>
                  \/ sessions[s].gen < epoch[SourceTab]
                  \/ \E j \in DOMAIN line : j < i /\ IsLoss(line[j])

LineFits == (\A i \in DOMAIN Line : JobFits(Line[i])) /\ SingleFits(Line) /\ LossFits(Line)

\* What the holder of the lock has found out of its session stays so.
NeedsPresent ==
    {<<"publish", "releasing">>, <<"choose", "applying">>, <<"choose", "tab-at-last">>,
     <<"authorize", "tab">>}
HolderFits ==
    holder # NoJob =>
        /\ holder.at # "waiting"
        /\ <<holder.kind, holder.at>> \in NeedsPresent => Present(sessions[holder.s])
        /\ holder.kind = "publish" /\ holder.at # "begun" /\ sessions[holder.s].lost =>
              holder.gen < epoch[SourceTab]

PreviewInv ==
    /\ PreviewTypes /\ LedgerFits /\ SourceIsReserved /\ StartFits /\ StoredFits
    /\ OpsFit /\ ClientFits /\ LineFits /\ HolderFits

\* The two parts of RevokedIsWithdrawn.
LossIsAttended == \A s \in Previews : Attended(s)
LossIsFinal == \A s \in Previews : StaysUnread(s)

-----------------------------------------------------------------------------
(* The line of those who wait for the lock.                                *)

LEMMA NobodyIsNoJob == \A m \in Jobs : m # NoJob /\ m.kind # "none"
<1>1. "none" \notin Kinds
  BY DEF Kinds, TabNews
<1>2. NoJob.kind = "none"
  BY DEF NoJob, Job
<1> QED
  BY <1>1, <1>2 DEF Jobs

LEMMA LineIsTyped ==
    ASSUME LineTypes
    PROVE  /\ LineSize \in Nat /\ DOMAIN Line = 1 .. LineSize
           /\ \A i \in 1 .. LineSize : Line[i] = Nth(i) /\ Line[i] \in Jobs
<1>1. LineSize \in Nat /\ DOMAIN Line = 1 .. LineSize
  BY DEF LineTypes, LineSize, Line
<1>2. ASSUME NEW i \in 1 .. LineSize
      PROVE  Line[i] = Nth(i) /\ Nth(i) \in Jobs
  <2>1. Line[i] = Nth(i)
    BY DEF Line
  <2>2. CASE holder # NoJob
    <3>1. holder \in Jobs /\ (i # 1 => i - 1 \in 1 .. Len(queue)) /\ i \in Nat
      BY <2>2 DEF LineTypes, LineSize
    <3>2. i # 1 => queue[i - 1] \in Jobs
      BY <3>1 DEF LineTypes
    <3> QED
      BY <2>1, <2>2, <3>1, <3>2 DEF Nth
  <2>3. CASE holder = NoJob
    BY <2>1, <2>3 DEF Nth, LineTypes, LineSize
  <2> QED
    BY <2>2, <2>3
<1> QED
  BY <1>1, <1>2

\* The job that goes on is the first of the line.
LEMMA JobIsFirst ==
    ASSUME LineTypes, job.kind \in Kinds
    PROVE  /\ job \in Jobs /\ LineSize >= 1
           /\ Line[1] \in Jobs /\ Line[1].kind = job.kind /\ Line[1].s = job.s
           /\ Line[1].doc = job.doc /\ Line[1].gen = job.gen
           /\ job.at # "begun" => holder # NoJob
           /\ holder # NoJob => holder = job
           /\ holder = NoJob => queue # <<>>
<1>1. NoJob.kind \notin Kinds
  BY DEF NoJob, Job, Kinds, TabNews
<1>2. CASE holder # NoJob
  <2>1. job = holder /\ holder \in Jobs
    BY <1>2 DEF job, LineTypes
  <2>2. LineSize >= 1 /\ Line[1] = holder
    BY <1>2, LineIsTyped DEF LineSize, LineTypes, Nth
  <2> QED
    BY <1>2, <2>1, <2>2
<1>3. CASE holder = NoJob
  <2>1. queue # <<>> /\ job = [Head(queue) EXCEPT !.at = "begun"]
    BY <1>1, <1>3 DEF job
  <2>2. Len(queue) >= 1 /\ Head(queue) = queue[1] /\ queue[1] \in Jobs
    BY <2>1 DEF LineTypes
  <2>3. LineSize >= 1 /\ Line[1] = queue[1]
    BY <1>3, <2>2, LineIsTyped DEF LineSize, LineTypes, Nth
  <2>4. /\ job \in Jobs /\ job.at = "begun" /\ job.kind = queue[1].kind /\ job.s = queue[1].s
        /\ job.doc = queue[1].doc /\ job.gen = queue[1].gen
    BY <2>1, <2>2 DEF Jobs, AtPlaces
  <2> QED
    BY <1>3, <2>1, <2>2, <2>3, <2>4
<1> QED
  BY <1>2, <1>3

\* It leaves the line, goes on with the lock, or another one joins.
LEMMA LineLeaves ==
    ASSUME LineTypes, job.kind \in Kinds, Finishes
    PROVE  /\ LineTypes' /\ LineSize' = LineSize - 1
           /\ \A i \in 1 .. (LineSize - 1) : Line'[i] = Line[i + 1]
<1>1. LineSize >= 1 /\ (holder = NoJob => queue # <<>>)
  BY JobIsFirst
<1>2. holder' = NoJob /\ (queue' = IF holder = NoJob THEN Tail(queue) ELSE queue)
  BY DEF Finishes, StillWaiting
<1>3. LineTypes'
  BY <1>1, <1>2 DEF LineTypes
<1>4. LineSize' = Len(queue') /\ Len(queue') = LineSize - 1
  BY <1>1, <1>2 DEF LineSize, LineTypes
<1>5. ASSUME NEW i \in 1 .. (LineSize - 1)
      PROVE  Line'[i] = Line[i + 1]
  <2>1. Line'[i] = queue'[i]
    BY <1>2, <1>3, <1>4, LineIsTyped DEF Line, Nth
  <2>2. i + 1 \in 1 .. LineSize /\ Line[i + 1] = Nth(i + 1)
    BY <1>1, LineIsTyped
  <2>3. CASE holder = NoJob
    BY <1>1, <1>2, <1>4, <2>1, <2>2, <2>3 DEF Nth, LineTypes
  <2>4. CASE holder # NoJob
    BY <1>2, <2>1, <2>2, <2>4, LineIsTyped DEF Nth
  <2> QED
    BY <2>3, <2>4
<1> QED
  BY <1>3, <1>4, <1>5

LEMMA LineGoesOn ==
    ASSUME LineTypes, job.kind \in Kinds, holder' \in Jobs, queue' = StillWaiting
    PROVE  /\ LineTypes' /\ LineSize' = LineSize /\ Line'[1] = holder'
           /\ \A i \in 2 .. LineSize : Line'[i] = Line[i]
<1>1. LineSize >= 1 /\ (holder = NoJob => queue # <<>>) /\ holder' # NoJob
  BY JobIsFirst, NobodyIsNoJob
<1>2. queue' = IF holder = NoJob THEN Tail(queue) ELSE queue
  BY DEF StillWaiting
<1>3. LineTypes'
  BY <1>1, <1>2 DEF LineTypes
<1>4. LineSize' = LineSize
  BY <1>1, <1>2 DEF LineSize, LineTypes
<1>5. Line'[1] = holder'
  BY <1>1, <1>3, <1>4 DEF Line, Nth
<1>6. ASSUME NEW i \in 2 .. LineSize
      PROVE  Line'[i] = Line[i]
  <2>1. i \in 1 .. LineSize /\ i # 1 /\ LineSize \in Nat
    BY LineIsTyped
  <2>2. Line'[i] = queue'[i - 1]
    BY <1>1, <1>4, <2>1 DEF Line, Nth
  <2>3. Line[i] = Nth(i)
    BY <2>1, LineIsTyped
  <2>4. CASE holder = NoJob
    BY <1>1, <1>2, <2>1, <2>2, <2>3, <2>4 DEF Nth, LineTypes, LineSize
  <2>5. CASE holder # NoJob
    BY <1>2, <2>1, <2>2, <2>3, <2>5 DEF Nth
  <2> QED
    BY <2>4, <2>5
<1> QED
  BY <1>3, <1>4, <1>5, <1>6

LEMMA LineJoined ==
    ASSUME LineTypes, NEW m \in Jobs, Sends(m), holder' = holder
    PROVE  /\ LineTypes' /\ LineSize' = LineSize + 1 /\ Line'[LineSize'] = m
           /\ \A i \in 1 .. LineSize : Line'[i] = Line[i]
<1>1. queue' = Append(queue, m)
  BY DEF Sends
<1>2. LineTypes' /\ LineSize' = LineSize + 1 /\ LineSize \in Nat
  BY <1>1, LineIsTyped DEF LineTypes, LineSize
<1>3. Line'[LineSize'] = m
  <2>1. LineSize' \in 1 .. LineSize'
    BY <1>2
  <2>2. Line'[LineSize'] = IF holder # NoJob THEN (IF LineSize' = 1 THEN holder ELSE queue'[LineSize' - 1])
                           ELSE queue'[LineSize']
    BY <2>1 DEF Line, Nth
  <2>3. CASE holder # NoJob
    <3>1. LineSize' = Len(queue) + 2
      BY <1>2, <2>3 DEF LineSize
    <3>2. Len(queue) \in Nat
      BY DEF LineTypes
    <3> QED
      BY <1>1, <2>2, <2>3, <3>1, <3>2 DEF LineTypes
  <2>4. CASE holder = NoJob
    <3>1. LineSize' = Len(queue) + 1
      BY <1>2, <2>4 DEF LineSize
    <3> QED
      BY <1>1, <2>2, <2>4, <3>1 DEF LineTypes
  <2> QED
    BY <2>3, <2>4
<1>4. ASSUME NEW i \in 1 .. LineSize
      PROVE  Line'[i] = Line[i]
  <2>1. i \in 1 .. LineSize' /\ Line[i] = Nth(i)
    BY <1>2, LineIsTyped
  <2>2. Line'[i] = IF holder # NoJob THEN (IF i = 1 THEN holder ELSE queue'[i - 1]) ELSE queue'[i]
    BY <2>1 DEF Line, Nth
  <2>3. /\ holder # NoJob /\ i # 1 => i - 1 \in 1 .. Len(queue)
        /\ holder = NoJob => i \in 1 .. Len(queue)
    BY DEF LineSize, LineTypes
  <2> QED
    BY <1>1, <2>1, <2>2, <2>3 DEF Nth, LineTypes
<1> QED
  BY <1>2, <1>3, <1>4

-----------------------------------------------------------------------------
(* What the line is about, when it moves.                                  *)

\* Nobody is lost anew, and the source of a capture stays the one it was claimed from.
LossStep ==
    /\ epoch[SourceTab] <= epoch'[SourceTab]
    /\ \A s \in Previews :
          /\ sessions'[s].lost /\ Live(sessions'[s]) => sessions[s].lost /\ Live(sessions[s])
          /\ sessions[s].phase \notin {"none", "pending"} => sessions'[s].gen = sessions[s].gen

\* What holds of a job stays so.
JobsStay == \A m \in Jobs : JobFits(m) => JobFits(m)'
OthersStay ==
    \A m \in Jobs :
        JobFits(m) /\ ~(m.kind \in Single /\ m.kind = job.kind /\ m.s = job.s) => JobFits(m)'

\* A job that may publish, with what is before it.
LEMMA PublishersStay ==
    ASSUME LedgerTypes, BrowserTypes, LedgerTypes', BrowserTypes', LossStep,
           NEW m \in Jobs, JobFits(m), m.kind = "publish",
           sessions'[m.s].lost, Live(sessions'[m.s])
    PROVE  /\ sessions[m.s].lost /\ Live(sessions[m.s])
           /\ sessions[m.s].gen < epoch[SourceTab] => sessions'[m.s].gen < epoch'[SourceTab]
<1>1. m.s \in Previews /\ sessions[m.s].phase \notin {"none", "pending"}
  BY DEF JobFits, TabNews
<1>2. sessions[m.s].gen \in Nat /\ epoch[SourceTab] \in Nat /\ epoch'[SourceTab] \in Nat
  BY <1>1 DEF LedgerTypes, Sessions, BrowserTypes, Tabs0
<1>3. sessions'[m.s].gen = sessions[m.s].gen /\ sessions[m.s].lost /\ Live(sessions[m.s])
      /\ epoch[SourceTab] <= epoch'[SourceTab]
  BY <1>1 DEF LossStep
<1> QED
  BY <1>2, <1>3

LEMMA LineMeans ==
    ASSUME LineTypes
    PROVE  /\ LineFits <=>
                /\ \A i \in 1 .. LineSize : JobFits(Line[i])
                /\ SingleFits(Line) /\ LossFits(Line)
           /\ DOMAIN Line = 1 .. LineSize
  BY LineIsTyped DEF LineFits

LEMMA FinishedLine ==
    ASSUME PreviewTypes, LedgerTypes', BrowserTypes', LineFits, Finishes, job.kind \in Kinds, LossStep,
           OthersStay,
           IsLoss(job) => \A s \in Previews : ~(sessions'[s].lost /\ Live(sessions'[s]))
    PROVE  LineTypes' /\ LineFits'
<1>1. /\ LineTypes' /\ LineSize' = LineSize - 1
      /\ \A i \in 1 .. (LineSize - 1) : Line'[i] = Line[i + 1]
  BY LineLeaves DEF PreviewTypes
<1>2. /\ LineSize >= 1 /\ LineSize \in Nat /\ job.kind = Line[1].kind /\ job.s = Line[1].s
      /\ \A i \in 1 .. LineSize : Line[i] \in Jobs
  BY JobIsFirst, LineIsTyped DEF PreviewTypes
<1>3. DOMAIN Line = 1 .. LineSize /\ DOMAIN Line' = 1 .. (LineSize - 1)
  BY <1>1, LineIsTyped DEF PreviewTypes, Line
<1>4. /\ \A i \in 1 .. LineSize : JobFits(Line[i])
      /\ SingleFits(Line) /\ LossFits(Line)
  BY LineMeans DEF PreviewTypes
<1>5. ASSUME NEW i \in 1 .. (LineSize - 1)
      PROVE  JobFits(Line[i])'
  <2>1. i + 1 \in 1 .. LineSize /\ i + 1 # 1
    BY <1>2
  <2>2. ~(Line[i + 1].kind \in Single /\ Line[i + 1].kind = job.kind /\ Line[i + 1].s = job.s)
    BY <1>2, <1>3, <1>4, <2>1 DEF SingleFits
  <2>3. PICK m \in Jobs : m = Line[i + 1]
    BY <1>2, <2>1
  <2>4. JobFits(m)'
    BY <1>4, <2>1, <2>2, <2>3 DEF OthersStay
  <2>5. m = Line'[i]
    BY <1>1, <2>3
  <2> QED
    BY <2>4, <2>5 DEF JobFits
<1>6. SingleFits(Line)'
  <2> SUFFICES ASSUME NEW i \in 1 .. (LineSize - 1), NEW j \in 1 .. (LineSize - 1),
                      Line'[i].kind \in Single, Line'[j].kind = Line'[i].kind, Line'[j].s = Line'[i].s
               PROVE  i = j
    BY <1>3 DEF SingleFits
  <2>1. i + 1 \in 1 .. LineSize /\ j + 1 \in 1 .. LineSize
    BY <1>2
  <2>2. i + 1 = j + 1
    BY <1>1, <1>3, <1>4, <2>1 DEF SingleFits
  <2> QED
    BY <2>2
<1>7. LossFits(Line)'
  <2>1. ASSUME NEW s \in Previews, sessions'[s].lost, Live(sessions'[s])
        PROVE  \E i \in 1 .. (LineSize - 1) : IsLoss(Line'[i])
    <3>1. sessions[s].lost /\ Live(sessions[s]) /\ ~IsLoss(job)
      BY <2>1 DEF LossStep
    <3>2. PICK i \in 1 .. LineSize : IsLoss(Line[i])
      BY <1>3, <1>4, <3>1 DEF LossFits
    <3>3. i # 1
      BY <1>2, <3>1, <3>2 DEF IsLoss
    <3>4. i - 1 \in 1 .. (LineSize - 1) /\ (i - 1) + 1 = i
      BY <1>2, <3>3
    <3>5. Line'[i - 1] = Line[i]
      BY <1>1, <3>4
    <3> QED
      BY <3>2, <3>4, <3>5
  <2>2. ASSUME NEW i \in 1 .. (LineSize - 1), Line'[i].kind = "publish",
               sessions'[Line'[i].s].lost, Live(sessions'[Line'[i].s])
        PROVE  \/ sessions'[Line'[i].s].gen < epoch'[SourceTab]
               \/ \E j \in 1 .. (LineSize - 1) : j < i /\ IsLoss(Line'[j])
    <3>1. i + 1 \in 1 .. LineSize /\ Line'[i] = Line[i + 1]
      BY <1>1, <1>2
    <3>2. PICK m \in Jobs : m = Line[i + 1]
      BY <1>2, <3>1
    <3>3. /\ sessions[m.s].lost /\ Live(sessions[m.s])
          /\ sessions[m.s].gen < epoch[SourceTab] => sessions'[m.s].gen < epoch'[SourceTab]
      BY <1>4, <2>2, <3>1, <3>2, PublishersStay DEF PreviewTypes
    <3>4. CASE sessions[m.s].gen < epoch[SourceTab]
      BY <3>1, <3>2, <3>3, <3>4
    <3>5. CASE ~(sessions[m.s].gen < epoch[SourceTab])
      <4>1. PICK j \in 1 .. LineSize : j < i + 1 /\ IsLoss(Line[j])
        BY <1>3, <1>4, <2>2, <3>1, <3>2, <3>3, <3>5 DEF LossFits
      <4>2. m.s \in Previews
        BY <1>4, <2>2, <3>1, <3>2 DEF JobFits, TabNews
      <4>3. ~IsLoss(job)
        BY <2>2, <3>1, <3>2, <4>2
      <4>4. j # 1
        BY <1>2, <4>1, <4>3 DEF IsLoss
      <4>5. j - 1 \in 1 .. (LineSize - 1) /\ (j - 1) + 1 = j /\ j - 1 < i
        BY <1>2, <4>1, <4>4
      <4>6. IsLoss(Line'[j - 1])
        BY <1>1, <4>1, <4>5
      <4> QED
        BY <4>5, <4>6
    <3> QED
      BY <3>4, <3>5
  <2> QED
    BY <1>3, <2>1, <2>2 DEF LossFits
<1>8. (\A i \in DOMAIN Line : JobFits(Line[i]))'
  BY <1>3, <1>5
<1> QED
  BY <1>1, <1>6, <1>7, <1>8 DEF LineFits

\* A line in which everybody keeps his place.
LEMMA SameLine ==
    ASSUME PreviewTypes, LedgerTypes', BrowserTypes', LineFits, LineTypes', LineSize' = LineSize, LossStep,
           \A i \in 1 .. LineSize : Line'[i].kind = Line[i].kind /\ Line'[i].s = Line[i].s,
           \A i \in 1 .. LineSize : JobFits(Line[i])'
    PROVE  LineFits'
<1>1. DOMAIN Line = 1 .. LineSize /\ DOMAIN Line' = 1 .. LineSize /\ LineSize \in Nat
      /\ \A i \in 1 .. LineSize : Line[i] \in Jobs
  BY LineIsTyped DEF PreviewTypes, Line
<1>2. /\ \A i \in 1 .. LineSize : JobFits(Line[i])
      /\ SingleFits(Line) /\ LossFits(Line)
  BY LineMeans DEF PreviewTypes
<1>3. SingleFits(Line)'
  BY <1>1, <1>2 DEF SingleFits
<1>4. \A i \in 1 .. LineSize : IsLoss(Line[i]) <=> IsLoss(Line'[i])
  BY DEF IsLoss
<1>5. LossFits(Line)'
  <2>1. ASSUME NEW s \in Previews, sessions'[s].lost, Live(sessions'[s])
        PROVE  \E i \in 1 .. LineSize : IsLoss(Line'[i])
    BY <1>1, <1>2, <1>4, <2>1 DEF LossFits, LossStep
  <2>2. ASSUME NEW i \in 1 .. LineSize, Line'[i].kind = "publish",
               sessions'[Line'[i].s].lost, Live(sessions'[Line'[i].s])
        PROVE  \/ sessions'[Line'[i].s].gen < epoch'[SourceTab]
               \/ \E j \in 1 .. LineSize : j < i /\ IsLoss(Line'[j])
    <3>1. PICK m \in Jobs : m = Line[i]
      BY <1>1
    <3>2. m.kind = "publish" /\ m.s = Line'[i].s /\ JobFits(m)
      BY <1>2, <2>2, <3>1
    <3>3. /\ sessions[m.s].lost /\ Live(sessions[m.s])
          /\ sessions[m.s].gen < epoch[SourceTab] => sessions'[m.s].gen < epoch'[SourceTab]
      BY <2>2, <3>2, PublishersStay DEF PreviewTypes
    <3>4. \/ sessions[m.s].gen < epoch[SourceTab]
          \/ \E j \in 1 .. LineSize : j < i /\ IsLoss(Line[j])
      BY <1>1, <1>2, <3>1, <3>2, <3>3 DEF LossFits
    <3> QED
      BY <1>4, <3>2, <3>3, <3>4
  <2> QED
    BY <1>1, <2>1, <2>2 DEF LossFits
<1> QED
  BY <1>1, <1>3, <1>5 DEF LineFits

LEMMA StandingLine ==
    ASSUME PreviewTypes, LedgerTypes', BrowserTypes', LineFits, LossStep, JobsStay, UNCHANGED <<queue, holder>>
    PROVE  LineTypes' /\ LineFits'
<1>1. LineTypes' /\ LineSize' = LineSize /\ Line' = Line
  BY DEF PreviewTypes, LineTypes, LineSize, Line, Nth
<1>2. \A i \in 1 .. LineSize : Line[i] \in Jobs /\ JobFits(Line[i])
  BY LineIsTyped, LineMeans DEF PreviewTypes
<1>3. ASSUME NEW i \in 1 .. LineSize PROVE JobFits(Line[i])'
  <2>1. PICK m \in Jobs : m = Line[i]
    BY <1>2
  <2>2. JobFits(m)'
    BY <1>2, <2>1 DEF JobsStay
  <2> QED
    BY <1>1, <2>1, <2>2 DEF JobFits
<1> QED
  BY <1>1, <1>3, SameLine

LEMMA HeldLine ==
    ASSUME PreviewTypes, LedgerTypes', BrowserTypes', LineFits, LossStep, JobsStay, job.kind \in Kinds,
           holder' \in Jobs, queue' = StillWaiting,
           holder'.kind = job.kind, holder'.s = job.s, holder'.doc = job.doc,
           job.kind = "publish" => holder'.gen <= epoch'[SourceTab]
    PROVE  LineTypes' /\ LineFits'
<1>1. /\ LineTypes' /\ LineSize' = LineSize /\ Line'[1] = holder'
      /\ \A i \in 2 .. LineSize : Line'[i] = Line[i]
  BY LineGoesOn DEF PreviewTypes
<1>2. \A i \in 1 .. LineSize : Line[i] \in Jobs /\ JobFits(Line[i])
  BY LineIsTyped, LineMeans DEF PreviewTypes
<1>3. /\ LineSize >= 1 /\ LineSize \in Nat
      /\ Line[1].kind = job.kind /\ Line[1].s = job.s /\ Line[1].doc = job.doc
  BY JobIsFirst, LineIsTyped DEF PreviewTypes
<1>4. ASSUME NEW i \in 1 .. LineSize PROVE JobFits(Line[i])'
  <2>1. PICK m \in Jobs : m = Line[i]
    BY <1>2
  <2>2. JobFits(m)'
    BY <1>2, <2>1 DEF JobsStay
  <2>3. CASE i = 1
    <3>1. m.kind = Line'[i].kind /\ m.s = Line'[i].s /\ m.doc = Line'[i].doc
      BY <1>1, <1>3, <2>1, <2>3
    <3>2. Line'[i].kind = "publish" => Line'[i].gen <= epoch'[SourceTab]
      BY <1>1, <2>3
    <3> QED
      BY <2>2, <3>1, <3>2 DEF JobFits
  <2>4. CASE i # 1
    <3>1. m = Line'[i]
      BY <1>1, <1>3, <2>1, <2>4
    <3> QED
      BY <2>2, <3>1 DEF JobFits
  <2> QED
    BY <2>3, <2>4
<1>5. \A i \in 1 .. LineSize : Line'[i].kind = Line[i].kind /\ Line'[i].s = Line[i].s
  <2> TAKE i \in 1 .. LineSize
  <2>1. CASE i = 1
    BY <1>1, <1>3, <2>1
  <2>2. CASE i # 1
    BY <1>1, <1>3, <2>2
  <2> QED
    BY <2>1, <2>2
<1> QED
  BY <1>1, <1>4, <1>5, SameLine

\* Somebody joins of whom there is no other yet.
LEMMA JoinedLine ==
    ASSUME PreviewTypes, LedgerTypes', BrowserTypes', LineFits, LossStep, JobsStay,
           NEW m \in Jobs, Sends(m), holder' = holder, JobFits(m)',
           m.kind \in Single => \A n \in Jobs : JobFits(n) => ~(n.kind = m.kind /\ n.s = m.s)
    PROVE  LineTypes' /\ LineFits'
<1>1. /\ LineTypes' /\ LineSize' = LineSize + 1 /\ Line'[LineSize'] = m
      /\ \A i \in 1 .. LineSize : Line'[i] = Line[i]
  BY LineJoined DEF PreviewTypes
<1>2. DOMAIN Line = 1 .. LineSize /\ DOMAIN Line' = 1 .. (LineSize + 1) /\ LineSize \in Nat
      /\ \A i \in 1 .. LineSize : Line[i] \in Jobs
  BY <1>1, LineIsTyped DEF PreviewTypes, Line
<1>3. /\ \A i \in 1 .. LineSize : JobFits(Line[i])
      /\ SingleFits(Line) /\ LossFits(Line)
  BY LineMeans DEF PreviewTypes
<1>4. ASSUME NEW i \in 1 .. (LineSize + 1) PROVE JobFits(Line[i])'
  <2>1. CASE i = LineSize + 1
    <3>1. Line'[i] = m
      BY <1>1, <2>1
    <3> QED
      BY <3>1 DEF JobFits
  <2>2. CASE i # LineSize + 1
    <3>1. i \in 1 .. LineSize
      BY <1>2, <2>2
    <3>2. PICK n \in Jobs : n = Line[i]
      BY <1>2, <3>1
    <3>3. JobFits(n)'
      BY <1>3, <3>1, <3>2 DEF JobsStay
    <3>4. n = Line'[i]
      BY <1>1, <3>1, <3>2
    <3> QED
      BY <3>3, <3>4 DEF JobFits
  <2> QED
    BY <2>1, <2>2
<1>5. SingleFits(Line)'
  <2> SUFFICES ASSUME NEW i \in 1 .. (LineSize + 1), NEW j \in 1 .. (LineSize + 1),
                      Line'[i].kind \in Single, Line'[j].kind = Line'[i].kind, Line'[j].s = Line'[i].s
               PROVE  i = j
    BY <1>2 DEF SingleFits
  <2>1. ASSUME NEW k \in 1 .. LineSize, m.kind \in Single
        PROVE  ~(Line[k].kind = m.kind /\ Line[k].s = m.s)
    BY <1>2, <1>3, <2>1
  <2>2. CASE i = LineSize + 1 \/ j = LineSize + 1
    <3>1. Line'[LineSize + 1] = m
      BY <1>1
    <3>2. ASSUME i # j PROVE FALSE
      <4>1. PICK k \in 1 .. LineSize : k \in {i, j} /\ Line'[k] = Line[k]
        BY <1>1, <1>2, <2>2, <3>2
      <4>2. Line[k].kind = m.kind /\ Line[k].s = m.s /\ m.kind \in Single
        BY <2>2, <3>1, <3>2, <4>1
      <4> QED
        BY <2>1, <4>2
    <3> QED
      BY <3>2
  <2>3. CASE i # LineSize + 1 /\ j # LineSize + 1
    <3>1. i \in 1 .. LineSize /\ j \in 1 .. LineSize
      BY <1>2, <2>3
    <3> QED
      BY <1>1, <1>2, <1>3, <3>1 DEF SingleFits
  <2> QED
    BY <2>2, <2>3
<1>6. LossFits(Line)'
  <2>1. ASSUME NEW s \in Previews, sessions'[s].lost, Live(sessions'[s])
        PROVE  \E i \in 1 .. LineSize : IsLoss(Line'[i])
    BY <1>1, <1>2, <1>3, <2>1 DEF LossFits, LossStep
  <2>2. ASSUME NEW i \in 1 .. (LineSize + 1), Line'[i].kind = "publish",
               sessions'[Line'[i].s].lost, Live(sessions'[Line'[i].s])
        PROVE  \/ sessions'[Line'[i].s].gen < epoch'[SourceTab]
               \/ \E j \in 1 .. (LineSize + 1) : j < i /\ IsLoss(Line'[j])
    <3>1. CASE i = LineSize + 1
      <4>1. Line'[i] = m /\ m.s \in Previews
        BY <1>1, <2>2, <3>1 DEF JobFits, TabNews
      <4>2. PICK j \in 1 .. LineSize : IsLoss(Line'[j])
        BY <2>1, <2>2, <4>1
      <4> QED
        BY <1>2, <3>1, <4>2
    <3>2. CASE i # LineSize + 1
      <4>1. i \in 1 .. LineSize /\ Line'[i] = Line[i]
        BY <1>1, <1>2, <3>2
      <4>2. PICK n \in Jobs : n = Line[i]
        BY <1>2, <4>1
      <4>3. /\ sessions[n.s].lost /\ Live(sessions[n.s])
            /\ sessions[n.s].gen < epoch[SourceTab] => sessions'[n.s].gen < epoch'[SourceTab]
        BY <1>3, <2>2, <4>1, <4>2, PublishersStay DEF PreviewTypes
      <4>4. CASE sessions[n.s].gen < epoch[SourceTab]
        BY <4>1, <4>2, <4>3, <4>4
      <4>5. CASE ~(sessions[n.s].gen < epoch[SourceTab])
        <5>1. PICK j \in 1 .. LineSize : j < i /\ IsLoss(Line[j])
          BY <1>2, <1>3, <2>2, <4>1, <4>2, <4>3, <4>5 DEF LossFits
        <5>2. j \in 1 .. (LineSize + 1) /\ Line'[j] = Line[j]
          BY <1>1, <1>2, <5>1
        <5> QED
          BY <5>1, <5>2
      <4> QED
        BY <4>4, <4>5
    <3> QED
      BY <3>1, <3>2
  <2>3. 1 .. LineSize \subseteq 1 .. (LineSize + 1)
    BY <1>2
  <2> QED
    BY <1>2, <2>1, <2>2, <2>3 DEF LossFits
<1> QED
  BY <1>1, <1>2, <1>4, <1>5, <1>6 DEF LineFits

-----------------------------------------------------------------------------
(* The sessions and what they own, from one state to the next.             *)

\* A session that differs in nothing that is told apart here.
Alike(x, y) ==
    /\ y \in Sessions /\ y.phase = x.phase /\ y.doc = x.doc /\ y.gen = x.gen
    /\ y.stages = x.stages /\ y.held = x.held /\ y.lost = x.lost

\* What a session may become.
Passing(x, y) ==
    /\ y.lost /\ Live(y) => x.lost /\ Live(x)
    /\ x.phase \notin {"none", "pending"} => y.gen = x.gen /\ y.phase \notin {"none", "pending"}
    /\ x.doc # 0 => y.doc # 0
    /\ y.phase = "ready" /\ x.phase # "ready" => ~x.lost

\* SourceIsReserved, of sessions and starts that may be of two states.
Reserve(sess, st, res) ==
    LET owners == {s \in Previews : sess[s].held \/ st[s] = "reserved"}
    IN  /\ \A s \in Previews : HoldsSource(sess[s]) => sess[s].held
        /\ res <=> owners # {}
        /\ \A r, s \in owners : r = s
        /\ res => ~exporting

OwnedAfter(id) ==
    \/ id \in sessions'[id[1]].stages
    \/ id \in tombs'[id[1]].stages
    \/ ops[id[1]].step = "done" /\ ops[id[1]].stage = id
    \/ tombs'[id[1]].state = "expired"

LedgerStep ==
    /\ LedgerTypes' /\ LedgerFits'
    /\ \A s \in Previews : Passing(sessions[s], sessions'[s])
    /\ \A s \in Previews : starts[s] \in Unborn => sessions'[s].phase = "none"
    /\ stored' \subseteq stored /\ \A id \in stored' : OwnedAfter(id)
    /\ Reserve(sessions', starts, reserved')

LEMMA ReservedMeans == SourceIsReserved <=> Reserve(sessions, starts, reserved)
  BY DEF SourceIsReserved, Reserve

LEMMA StageOwners ==
    ASSUME LedgerTypes, NEW id \in stored
    PROVE  id \in StageIds /\ id[1] \in Previews /\ id[2] \in 1 .. StagesEach
  BY DEF LedgerTypes, StageIds

LEMMA AlikePasses ==
    ASSUME NEW x \in Sessions, NEW y, Alike(x, y), NEW tomb
    PROVE  Passing(x, y) /\ (SessionFits(x, tomb) => SessionFits(y, tomb))
  BY DEF Alike, Passing, SessionFits, Live, Present, HoldsSource

\* Where no stage and no reservation is given up.
LEMMA QuietLedger ==
    ASSUME PreviewInv, LedgerTypes', UNCHANGED <<reserved, epoch>>, stored' \subseteq stored,
           \A s \in Previews :
               /\ Passing(sessions[s], sessions'[s]) /\ SessionFits(sessions'[s], tombs'[s])
               /\ sessions'[s].held = sessions[s].held
               /\ sessions'[s].gen <= epoch[SourceTab]
               /\ starts[s] \in Unborn => sessions'[s].phase = "none",
           \A id \in stored' : OwnedAfter(id)
    PROVE  LedgerStep
<1>1. LedgerFits'
  BY DEF LedgerFits
<1>2. Reserve(sessions', starts, reserved')
  <2>1. Reserve(sessions, starts, reserved)
    BY ReservedMeans DEF PreviewInv
  <2>2. \A s \in Previews : HoldsSource(sessions'[s]) => sessions'[s].held
    BY DEF SessionFits
  <2>3. {s \in Previews : sessions'[s].held \/ starts[s] = "reserved"}
        = {s \in Previews : sessions[s].held \/ starts[s] = "reserved"}
    OBVIOUS
  <2> QED
    BY <2>1, <2>2, <2>3 DEF Reserve
<1> QED
  BY <1>1, <1>2 DEF LedgerStep

LEMMA StillLedger ==
    ASSUME PreviewInv, UNCHANGED <<sessions, tombs, reserved, stored, epoch>>
    PROVE  LedgerStep
<1>1. LedgerTypes'
  BY DEF PreviewInv, PreviewTypes, LedgerTypes
<1>2. \A id \in stored' : OwnedAfter(id)
  BY DEF PreviewInv, StoredFits, StagesAreOwned, OwnedAfter
<1>3. \A s \in Previews :
          /\ Passing(sessions[s], sessions'[s]) /\ SessionFits(sessions'[s], tombs'[s])
          /\ sessions'[s].gen <= epoch[SourceTab]
          /\ starts[s] \in Unborn => sessions'[s].phase = "none"
  BY DEF PreviewInv, LedgerFits, StartFits, Passing
<1> QED
  BY <1>1, <1>2, <1>3, QuietLedger

\* One session is changed, and neither its stages nor what it holds.
LEMMA ChangedLedger ==
    ASSUME PreviewInv, NEW s \in Previews, NEW x \in Sessions, Changes(s, x), epoch' = epoch,
           Passing(sessions[s], x), SessionFits(x, tombs[s]),
           x.held = sessions[s].held, x.stages = sessions[s].stages, x.gen <= epoch[SourceTab],
           starts[s] \in Unborn => x.phase = "none"
    PROVE  LedgerStep
<1>1. sessions \in [Previews -> Sessions]
  BY DEF PreviewInv, PreviewTypes, LedgerTypes
<1>2. sessions' = [sessions EXCEPT ![s] = x] /\ UNCHANGED <<tombs, reserved, stored>>
  BY DEF Changes
<1>3. /\ sessions'[s] = x
      /\ \A r \in Previews : r # s => sessions'[r] = sessions[r]
      /\ sessions' \in [Previews -> Sessions]
  BY <1>1, <1>2
<1>4. LedgerTypes'
  BY <1>2, <1>3 DEF PreviewInv, PreviewTypes, LedgerTypes
<1>5. \A id \in stored' : OwnedAfter(id)
  <2> TAKE id \in stored'
  <2>1. id \in stored /\ id[1] \in Previews
    BY <1>2, StageOwners DEF PreviewInv, PreviewTypes
  <2>2. sessions'[id[1]].stages = sessions[id[1]].stages
    BY <1>3, <2>1
  <2> QED
    BY <1>2, <2>1, <2>2 DEF PreviewInv, StoredFits, StagesAreOwned, OwnedAfter
<1>6. ASSUME NEW r \in Previews
      PROVE  /\ Passing(sessions[r], sessions'[r]) /\ SessionFits(sessions'[r], tombs'[r])
             /\ sessions'[r].held = sessions[r].held
             /\ sessions'[r].gen <= epoch[SourceTab]
             /\ starts[r] \in Unborn => sessions'[r].phase = "none"
  <2>1. CASE r = s
    BY <1>2, <1>3, <2>1
  <2>2. CASE r # s
    <3>1. sessions'[r] = sessions[r] /\ tombs'[r] = tombs[r]
      BY <1>2, <1>3, <2>2
    <3> QED
      BY <3>1 DEF PreviewInv, LedgerFits, StartFits, Passing
  <2> QED
    BY <2>1, <2>2
<1> QED
  BY <1>2, <1>4, <1>5, <1>6, QuietLedger

\* A preview that never was accepted has no stage.
LEMMA NeverAccepted ==
    ASSUME PreviewInv, NEW id \in stored
    PROVE  starts[id[1]] \in Accepted
<1>1. id[1] \in Previews /\ id[2] \in 1 .. StagesEach
  BY StageOwners DEF PreviewInv, PreviewTypes
<1>2. id[2] <= begun[id[1]] /\ begun[id[1]] \in 0 .. StagesEach /\ StagesEach \in Nat
  BY <1>1, TextPreviewParameters DEF PreviewInv, PreviewTypes, OpTypes, StoredFits, Known
<1>3. begun[id[1]] > 0
  BY <1>1, <1>2
<1> QED
  BY <1>1, <1>3 DEF PreviewInv, OpsFit, OpFits

LEMMA RemovedPasses ==
    ASSUME NEW x \in Sessions, NEW b, Alike(x, b), NEW t \in Tombs, NEW kept \in SUBSET StageIds,
           SessionFits(x, t)
    PROVE  /\ Removed(b) \in Sessions /\ Retained(t, b, kept) \in Tombs
           /\ Passing(x, Removed(b)) /\ SessionFits(Removed(b), Retained(t, b, kept))
           /\ ~Removed(b).held /\ Removed(b).gen = x.gen
<1> DEFINE y == Removed(b)
           r == Retained(t, b, kept)
<1>1. b \in Sessions /\ b.doc = x.doc /\ b.gen = x.gen /\ b.stages = x.stages
  BY DEF Alike
<1>2. /\ y \in Sessions /\ y.phase = "removed" /\ ~y.held /\ y.stages = {}
      /\ y.doc = x.doc /\ y.gen = x.gen
  BY <1>1 DEF Removed, Sessions, Phases
<1>3. r \in Tombs /\ (y.doc # 0 => r.state # "none")
  <2>1. CASE b.doc = 0
    BY <1>1, <1>2, <2>1 DEF Retained
  <2>2. CASE b.doc # 0 /\ Stands(t)
    <3>1. r = [t EXCEPT !.stages = t.stages \cup (b.stages \cap kept)]
      BY <2>2 DEF Retained, Tombs
    <3>2. t.stages \cup (b.stages \cap kept) \in SUBSET StageIds
      BY <1>1 DEF Tombs, Sessions
    <3>3. r \in Tombs /\ r.state = t.state
      BY <3>1, <3>2 DEF Tombs
    <3> QED
      BY <2>2, <3>3 DEF Stands
  <2>3. CASE b.doc # 0 /\ ~Stands(t)
    <3>1. r = [state |-> "there", stages |-> b.stages \cap kept]
      BY <2>3 DEF Retained
    <3>2. b.stages \cap kept \in SUBSET StageIds
      BY <1>1 DEF Sessions
    <3> QED
      BY <3>1, <3>2 DEF Tombs
  <2> QED
    BY <2>1, <2>2, <2>3
<1> HIDE DEF y, r
<1>4. Passing(x, y)
  BY <1>2 DEF Passing, Live, Present
<1>5. SessionFits(y, r)
  BY <1>2, <1>3 DEF SessionFits, HoldsSource, Present
<1> QED
  BY <1>2, <1>3, <1>4, <1>5 DEF y, r

LEMMA InvalidatedPasses ==
    ASSUME NEW x \in Sessions, NEW b, Alike(x, b), NEW t \in Tombs, NEW kept \in SUBSET StageIds,
           SessionFits(x, t), Present(x)
    PROVE  /\ Invalidated(b, kept) \in Sessions
           /\ Passing(x, Invalidated(b, kept)) /\ SessionFits(Invalidated(b, kept), t)
           /\ ~Invalidated(b, kept).held /\ Invalidated(b, kept).gen = x.gen
           /\ Invalidated(b, kept).stages = x.stages \cap kept
<1> DEFINE o == IF b.phase = "invalidated" THEN b.over ELSE b.leaseOver
           y == [b EXCEPT !.phase = "invalidated", !.held = FALSE, !.stages = b.stages \cap kept, !.over = o]
<1>1. b \in Sessions /\ b.doc = x.doc /\ b.gen = x.gen /\ b.stages = x.stages
  BY DEF Alike
<1>2. Invalidated(b, kept) = y
  BY <1>1 DEF Invalidated, Sessions
<1>3. o \in BOOLEAN /\ b.stages \cap kept \in SUBSET StageIds
  BY <1>1 DEF Sessions
<1> HIDE DEF o
<1>4. /\ y \in Sessions /\ y.phase = "invalidated" /\ ~y.held /\ y.stages = x.stages \cap kept
      /\ y.doc = x.doc /\ y.gen = x.gen
  BY <1>1, <1>3 DEF Sessions, Phases
<1> HIDE DEF y
<1>5. Passing(x, y)
  BY <1>4 DEF Passing, Live, Present
<1>6. SessionFits(y, t)
  BY <1>4 DEF SessionFits, HoldsSource, Present
<1> QED
  BY <1>2, <1>4, <1>5, <1>6

\* Those who end give the tab up, if it was theirs.
LEMMA ReserveLeft ==
    ASSUME PreviewInv, NEW ended \in SUBSET Previews,
           \A s \in ended : starts[s] # "reserved",
           \A s \in Previews : SessionFits(sessions'[s], tombs'[s])
                              /\ (sessions'[s].held <=> (sessions[s].held /\ s \notin ended)),
           reserved' <=> (reserved /\ ~\E s \in ended : sessions[s].held)
    PROVE  Reserve(sessions', starts, reserved')
<1>1. Reserve(sessions, starts, reserved)
  BY ReservedMeans DEF PreviewInv
<1>2. \A s \in Previews : HoldsSource(sessions'[s]) => sessions'[s].held
  BY DEF SessionFits
<1>3. \A s \in Previews : (sessions'[s].held \/ starts[s] = "reserved") =>
                              (sessions[s].held \/ starts[s] = "reserved")
  OBVIOUS
<1>4. CASE \E s \in ended : sessions[s].held
  <2>1. PICK s \in ended : sessions[s].held
    BY <1>4
  <2>2. s \in Previews /\ ~sessions'[s].held /\ starts[s] # "reserved"
    BY <2>1
  <2>3. \A r \in Previews : (sessions[r].held \/ starts[r] = "reserved") => r = s
    BY <1>1, <2>1, <2>2 DEF Reserve
  <2>4. {r \in Previews : sessions'[r].held \/ starts[r] = "reserved"} = {}
    BY <1>3, <2>2, <2>3
  <2>5. ~reserved'
    BY <1>4
  <2> QED
    BY <1>2, <2>4, <2>5 DEF Reserve
<1>5. CASE ~\E s \in ended : sessions[s].held
  <2>1. \A s \in Previews : sessions'[s].held <=> sessions[s].held
    BY <1>5
  <2>2. {s \in Previews : sessions'[s].held \/ starts[s] = "reserved"}
        = {s \in Previews : sessions[s].held \/ starts[s] = "reserved"}
    BY <2>1
  <2>3. reserved' <=> reserved
    BY <1>5
  <2> QED
    BY <1>1, <1>2, <2>2, <2>3 DEF Reserve
<1> QED
  BY <1>4, <1>5

\* Who is taken out of service, with the sessions and tombstones it is done with.
MayTakeOut(base, graves, invalid, gone, kept) ==
    /\ invalid \subseteq Previews /\ gone \subseteq Previews /\ kept \in {{}, StageIds}
    /\ \A s \in Previews :
          /\ Alike(sessions[s], base[s])
          /\ graves[s] \in Tombs /\ SessionFits(sessions[s], graves[s])
          /\ tombs[s].state = "expired" => graves[s].state = "expired"
          /\ kept = StageIds /\ graves[s].state # "expired" => tombs[s].stages \subseteq graves[s].stages
    /\ \A s \in invalid : Present(sessions[s])
    /\ \A s \in gone : Present(sessions[s]) \/ starts[s] \notin Unborn \cup Accepted

LEMMA TakenOut ==
    ASSUME PreviewInv, NEW base, NEW graves, NEW invalid, NEW gone, NEW told, NEW kept,
           TakesOut(base, graves, invalid, gone, told, kept), epoch' = epoch,
           MayTakeOut(base, graves, invalid, gone, kept)
    PROVE  LedgerStep
<1> USE DEF MayTakeOut
<1> DEFINE ended == invalid \cup gone
<1>1. /\ \A s \in Previews :
            /\ sessions'[s] = IF s \in gone THEN Removed(base[s])
                              ELSE IF s \in invalid THEN Invalidated(base[s], kept) ELSE base[s]
            /\ tombs'[s] = IF s \in gone THEN Retained(graves[s], base[s], kept) ELSE graves[s]
      /\ DOMAIN sessions' = Previews /\ DOMAIN tombs' = Previews
      /\ sessions' = [s \in Previews |-> sessions'[s]] /\ tombs' = [s \in Previews |-> tombs'[s]]
  BY DEF TakesOut
<1>2. /\ stored' \subseteq stored /\ reserved' = StillReserved(base, ended)
      /\ \A id \in stored' :
            \/ id \in kept
            \/ /\ \A s \in ended : id \notin base[s].stages
               /\ \A s \in Previews : id \notin tombs[s].stages
  BY DEF TakesOut
<1>3. kept \in SUBSET StageIds /\ \A s \in Previews : sessions[s] \in Sessions
  BY DEF PreviewInv, PreviewTypes, LedgerTypes
<1>4. \A s \in ended : starts[s] \notin Unborn
  <2>1. ASSUME NEW s \in Previews, Present(sessions[s]) PROVE starts[s] \notin Unborn
    BY <2>1 DEF PreviewInv, StartFits, Present
  <2> QED
    BY <2>1
<1> HIDE DEF ended
<1>5. ended \subseteq Previews /\ invalid \subseteq ended /\ gone \subseteq ended /\ ended = invalid \cup gone
  BY DEF ended
<1>6. ASSUME NEW s \in Previews
      PROVE  /\ sessions'[s] \in Sessions /\ tombs'[s] \in Tombs
             /\ Passing(sessions[s], sessions'[s]) /\ SessionFits(sessions'[s], tombs'[s])
             /\ sessions'[s].gen = sessions[s].gen
             /\ sessions'[s].held <=> (sessions[s].held /\ s \notin ended)
             /\ starts[s] \in Unborn => sessions'[s].phase = "none"
  <2>1. CASE s \in gone
    <3>1. sessions'[s] = Removed(base[s]) /\ tombs'[s] = Retained(graves[s], base[s], kept)
      BY <1>1, <2>1
    <3> QED
      BY <1>3, <1>4, <1>5, <2>1, <3>1, RemovedPasses
  <2>2. CASE s \in invalid /\ s \notin gone
    <3>1. sessions'[s] = Invalidated(base[s], kept) /\ tombs'[s] = graves[s]
      BY <1>1, <2>2
    <3>2. /\ sessions[s] \in Sessions /\ Alike(sessions[s], base[s]) /\ kept \in SUBSET StageIds
          /\ SessionFits(sessions[s], graves[s]) /\ Present(sessions[s]) /\ graves[s] \in Tombs
      BY <1>3, <2>2
    <3>3. /\ Invalidated(base[s], kept) \in Sessions
          /\ Passing(sessions[s], Invalidated(base[s], kept))
          /\ SessionFits(Invalidated(base[s], kept), graves[s])
          /\ ~Invalidated(base[s], kept).held
          /\ Invalidated(base[s], kept).gen = sessions[s].gen
      BY <3>2, InvalidatedPasses
    <3>4. s \in ended /\ starts[s] \notin Unborn
      BY <1>4, <1>5, <2>2
    <3> QED
      BY <3>1, <3>3, <3>4
  <2>3. CASE s \notin ended
    <3>1. sessions'[s] = base[s] /\ tombs'[s] = graves[s]
      BY <1>1, <1>5, <2>3
    <3>2. Passing(sessions[s], base[s]) /\ SessionFits(base[s], graves[s])
      BY <1>3, AlikePasses
    <3>3. base[s] \in Sessions /\ base[s].gen = sessions[s].gen /\ base[s].held = sessions[s].held
          /\ base[s].phase = sessions[s].phase
      BY DEF Alike
    <3>4. starts[s] \in Unborn => sessions[s].phase = "none"
      BY DEF PreviewInv, StartFits
    <3> QED
      BY <2>3, <3>1, <3>2, <3>3, <3>4
  <2> QED
    BY <1>5, <2>1, <2>2, <2>3
<1>7. LedgerTypes'
  <2>1. reserved' \in BOOLEAN
    BY <1>2 DEF StillReserved, PreviewInv, PreviewTypes, LedgerTypes
  <2>2. stored' \in SUBSET StageIds
    BY <1>2 DEF PreviewInv, PreviewTypes, LedgerTypes
  <2> QED
    BY <1>1, <1>6, <2>1, <2>2 DEF LedgerTypes
<1>8. LedgerFits'
  BY <1>6 DEF LedgerFits, PreviewInv
<1>9. ASSUME NEW id \in stored'
      PROVE  OwnedAfter(id)
  <2>1. id \in stored /\ id \in StageIds /\ id[1] \in Previews
    BY <1>2, StageOwners DEF PreviewInv, PreviewTypes
  <2>2. PICK s \in Previews : s = id[1]
    BY <2>1
  <2>3. starts[s] \in Accepted
    BY <2>1, <2>2, NeverAccepted
  <2>4. s \in gone => graves[s] = NoTomb /\ Present(sessions[s])
    BY <2>3 DEF SessionFits, Present
  <2>5. \/ id \in sessions[s].stages
        \/ id \in tombs[s].stages
        \/ ops[s].step = "done" /\ ops[s].stage = id
        \/ tombs[s].state = "expired"
    BY <2>1, <2>2 DEF PreviewInv, StoredFits, StagesAreOwned
  <2>6. CASE id \in sessions[s].stages
    <3>1. base[s].stages = sessions[s].stages /\ base[s].doc = sessions[s].doc /\ base[s] \in Sessions
      BY DEF Alike
    <3>2. CASE s \notin ended
      <4>1. sessions'[s] = base[s]
        BY <1>1, <1>5, <3>2
      <4> QED
        BY <2>2, <2>6, <3>1, <4>1 DEF OwnedAfter
    <3>3. CASE s \in ended
      <4>1. id \in kept
        BY <1>2, <2>6, <3>1, <3>3
      <4>2. kept = StageIds /\ id \in kept
        BY <4>1
      <4>3. CASE s \in gone
        <5>1. base[s].doc # 0
          BY <2>6, <3>1 DEF SessionFits
        <5>2. ~Stands(graves[s])
          BY <2>4, <4>3 DEF Stands, NoTomb
        <5>3. tombs'[s] = [state |-> "there", stages |-> base[s].stages \cap kept]
          BY <1>1, <4>3, <5>1, <5>2 DEF Retained
        <5> QED
          BY <2>2, <2>6, <3>1, <4>2, <5>3 DEF OwnedAfter
      <4>4. CASE s \notin gone
        <5>1. sessions'[s] = Invalidated(base[s], kept) /\ s \in invalid
          BY <1>1, <1>5, <3>3, <4>4
        <5>2. /\ sessions[s] \in Sessions /\ Alike(sessions[s], base[s]) /\ kept \in SUBSET StageIds
              /\ SessionFits(sessions[s], graves[s]) /\ Present(sessions[s]) /\ graves[s] \in Tombs
          BY <1>3, <5>1
        <5>3. Invalidated(base[s], kept).stages = sessions[s].stages \cap kept
          BY <5>2, InvalidatedPasses
        <5> QED
          BY <2>2, <2>6, <4>2, <5>1, <5>3 DEF OwnedAfter
      <4> QED
        BY <4>3, <4>4
    <3> QED
      BY <3>2, <3>3
  <2>7. CASE id \in tombs[s].stages
    <3>1. id \in kept
      BY <1>2, <2>2, <2>7
    <3>2. kept = StageIds
      BY <3>1
    <3>3. id \in graves[s].stages \/ graves[s].state = "expired"
      BY <2>7, <3>2
    <3>4. s \notin gone
      BY <2>4, <3>3 DEF NoTomb
    <3>5. tombs'[s] = graves[s]
      BY <1>1, <3>4
    <3> QED
      BY <2>2, <3>3, <3>5 DEF OwnedAfter
  <2>8. CASE tombs[s].state = "expired"
    <3>1. graves[s].state = "expired"
      BY <2>8
    <3>2. s \notin gone
      BY <2>4, <3>1 DEF NoTomb
    <3>3. tombs'[s] = graves[s]
      BY <1>1, <3>2
    <3> QED
      BY <2>2, <3>1, <3>3 DEF OwnedAfter
  <2> QED
    BY <2>2, <2>5, <2>6, <2>7, <2>8 DEF OwnedAfter
<1>10. Reserve(sessions', starts, reserved')
  <2>1. \A s \in ended : starts[s] # "reserved" /\ base[s].held = sessions[s].held
    BY <1>4, <1>5 DEF Unborn, Alike
  <2>2. reserved' <=> (reserved /\ ~\E s \in ended : sessions[s].held)
    BY <1>2, <2>1 DEF StillReserved
  <2> QED
    BY <1>5, <1>6, <2>1, <2>2, ReserveLeft
<1> QED
  BY <1>2, <1>6, <1>7, <1>8, <1>9, <1>10 DEF LedgerStep


LEMMA InvalidatesWell ==
    ASSUME PreviewInv, NEW base, NEW invalid \in SUBSET Previews, NEW told, NEW kept \in {{}, StageIds},
           Invalidates(base, invalid, told, kept), epoch' = epoch,
           \A s \in Previews : Alike(sessions[s], base[s]), \A s \in invalid : Present(sessions[s])
    PROVE  LedgerStep
<1>1. PICK graves : graves = tombs
  OBVIOUS
<1>2. TakesOut(base, graves, invalid, {}, told, kept)
  BY <1>1 DEF Invalidates
<1>3. MayTakeOut(base, graves, invalid, {}, kept)
  BY <1>1 DEF PreviewInv, PreviewTypes, LedgerTypes, LedgerFits, MayTakeOut
<1> QED
  BY <1>2, <1>3, TakenOut

LEMMA InvalidatesOne ==
    ASSUME PreviewInv, NEW s \in Previews, NEW told, NEW kept \in {{}, StageIds},
           Invalidates(sessions, {s}, told, kept), epoch' = epoch, Present(sessions[s])
    PROVE  LedgerStep
<1>1. PICK base : base = sessions
  OBVIOUS
<1>2. \A r \in Previews : Alike(sessions[r], base[r])
  BY <1>1 DEF PreviewInv, PreviewTypes, LedgerTypes, Alike
<1>3. Invalidates(base, {s}, told, kept)
  BY <1>1
<1> QED
  BY <1>2, <1>3, InvalidatesWell
-----------------------------------------------------------------------------
(* The starts, the requests and the document, from one state to the next.  *)

\* The job that goes on is of this kind, and `ends` with this step.
Own(ends, kind, s) == ends /\ job.kind = kind /\ job.s = s

StartsStep(ends) ==
    /\ StartTypes'
    /\ \A s \in Previews :
          /\ starts'[s] \in Unborn => starts[s] \in Unborn
          /\ starts[s] \in Accepted => starts'[s] \in Accepted
          /\ starts[s] \in {"ending", "failed"} => starts'[s] \in {"ending", "failed"}
          /\ starts[s] = "reserved" => starts'[s] = "reserved" \/ Own(ends, "create", s)
          /\ starts[s] = "registering" => starts'[s] = "registering" \/ Own(ends, "register", s)

OpsStep(ends) ==
    /\ OpTypes' /\ OpsFit'
    /\ \A s \in Previews :
          /\ ops[s].step = "queued" => ops'[s].step = "queued" \/ Own(ends, "authorize", s)
          /\ ops[s].step = "done" => ops'[s] = ops[s] \/ Own(ends, "record", s)

ClientStep == ClientTypes' /\ ClientFits'

SessionsPass == \A s \in Previews : Passing(sessions[s], sessions'[s])

\* What the ledger guarantees.
LedgerKept ==
    /\ LedgerTypes' /\ LedgerFits' /\ SourceIsReserved' /\ StartFits' /\ StoredFits'

LEMMA JobsGoOn ==
    ASSUME NEW ends \in BOOLEAN, BrowserTypes, BrowserTypes',
           SessionsPass, StartsStep(ends), OpsStep(ends), epoch[SourceTab] <= epoch'[SourceTab]
    PROVE  OthersStay /\ (~ends => JobsStay)
<1>1. ASSUME NEW m \in Jobs, JobFits(m),
             ~(ends /\ m.kind \in Single /\ m.kind = job.kind /\ m.s = job.s)
      PROVE  JobFits(m)'
  <2>1. m.kind \notin TabNews => m.s \in Previews
    BY <1>1 DEF JobFits
  <2>2. m.kind \notin TabNews => m.kind # "claim" \/ m.doc # 0
    BY <1>1 DEF JobFits
  <2>3. m.kind = "create" => starts'[m.s] = "reserved"
    BY <1>1, <2>1 DEF JobFits, StartsStep, Own, Single, TabNews
  <2>4. m.kind = "register" => starts'[m.s] = "registering"
    BY <1>1, <2>1 DEF JobFits, StartsStep, Own, Single, TabNews
  <2>5. m.kind = "settle" => starts'[m.s] \in Accepted
    BY <1>1, <2>1 DEF JobFits, StartsStep, TabNews
  <2>6. m.kind = "remove" => starts'[m.s] \in {"ending", "failed"}
    BY <1>1, <2>1 DEF JobFits, StartsStep, TabNews
  <2>7. m.kind = "authorize" => ops'[m.s].step = "queued"
    BY <1>1, <2>1 DEF JobFits, OpsStep, Own, Single, TabNews
  <2>8. m.kind = "record" => ops'[m.s].step = "done"
    BY <1>1, <2>1 DEF JobFits, OpsStep, Own, Single, TabNews
  <2>9. m.kind = "publish" => sessions'[m.s].phase \notin {"none", "pending"} /\ m.gen <= epoch'[SourceTab]
    <3>1. epoch[SourceTab] \in Nat /\ epoch'[SourceTab] \in Nat /\ m.gen \in Nat
      BY DEF BrowserTypes, Tabs0, Jobs
    <3> QED
      BY <1>1, <2>1, <3>1 DEF JobFits, SessionsPass, Passing, TabNews
  <2> QED
    BY <1>1, <2>1, <2>3, <2>4, <2>5, <2>6, <2>7, <2>8, <2>9 DEF JobFits
<1> QED
  BY <1>1 DEF OthersStay, JobsStay

\* A request stays, is granted, or is over.
OpPasses(s) ==
    \/ ops'[s] = ops[s] \/ ops'[s] = NoOp
    \/ ops[s].step = "queued" /\ ops'[s] = [ops[s] EXCEPT !.step = "granted"]

LEMMA NoOpIsTyped == NoOp \in Ops /\ NoOp.step = "none" /\ NoOp.kind = "none"
  BY DEF NoOp, Ops

LEMMA OpsPass ==
    ASSUME PreviewInv, NEW ends \in BOOLEAN, SessionsPass, StartsStep(ends),
           begun' = begun, stored' \subseteq stored,
           DOMAIN ops' = Previews, ops' = [s \in Previews |-> ops'[s]], \A s \in Previews : OpPasses(s)
    PROVE  OpTypes' /\ OpsFit'
<1>1. ASSUME NEW s \in Previews
      PROVE  ops'[s] \in Ops /\ OpFits(s)'
  <2>1. ops[s] \in Ops /\ OpFits(s) /\ begun[s] \in 0 .. StagesEach
    BY DEF PreviewInv, PreviewTypes, OpTypes, OpsFit
  <2>2. (starts[s] \in Accepted => starts'[s] \in Accepted) /\ (sessions[s].doc # 0 => sessions'[s].doc # 0)
    BY DEF StartsStep, SessionsPass, Passing
  <2>3. \A i : Known(i) => Known(i)'
    BY DEF Known
  <2>4. CASE ops'[s] = ops[s]
    BY <2>1, <2>2, <2>3, <2>4 DEF OpFits
  <2>5. CASE ops'[s] = NoOp
    BY <2>1, <2>2, <2>5, NoOpIsTyped DEF OpFits
  <2>6. CASE ops[s].step = "queued" /\ ops'[s] = [ops[s] EXCEPT !.step = "granted"]
    <3>1. /\ ops'[s] \in Ops /\ ops'[s].step = "granted" /\ ops'[s].kind = ops[s].kind
          /\ ops'[s].stage = ops[s].stage
      BY <2>1, <2>6 DEF Ops
    <3> QED
      BY <2>1, <2>2, <2>3, <2>6, <3>1 DEF OpFits
  <2> QED
    BY <2>4, <2>5, <2>6 DEF OpPasses
<1>2. OpTypes'
  BY <1>1 DEF PreviewInv, PreviewTypes, OpTypes
<1> QED
  BY <1>1, <1>2 DEF OpsFit

LEMMA NoClientIsTyped == NoClient \in Clients /\ NoClient.step = "idle" /\ NoClient.holds = {}
  BY DEF NoClient, Clients, Tabs0, SourceTab, ClientPlaces

\* The document goes on with the same preview, or leaves it.
ClientGoesOn ==
    /\ \/ client' = client
       \/ client' = NoClient
       \/ /\ client.step \notin {"idle", "claiming"} /\ client' \in Clients /\ client'.s = client.s
          /\ client'.step \notin {"idle", "claiming"} /\ client'.holds \subseteq client.holds
    /\ client'.step = "claiming" => starts'[client.s] = starts[client.s]

LEMMA ClientPasses ==
    ASSUME PreviewInv, NEW ends \in BOOLEAN, SessionsPass, StartsStep(ends), OpTypes',
           \A s \in Previews : begun[s] <= begun'[s], ClientGoesOn
    PROVE  ClientStep
<1>1. ASSUME NEW i \in StageIds, Known(i) PROVE Known(i)'
  <2>1. i[1] \in Previews /\ i[2] \in Nat
    BY TextPreviewParameters DEF StageIds
  <2>2. begun \in [Previews -> 0 .. StagesEach] /\ begun' \in [Previews -> 0 .. StagesEach]
    BY DEF PreviewInv, PreviewTypes, OpTypes
  <2>3. begun[i[1]] \in Nat /\ begun'[i[1]] \in Nat /\ begun[i[1]] <= begun'[i[1]]
    BY <2>1, <2>2
  <2> QED
    BY <1>1, <2>1, <2>3 DEF Known
<1>2. client \in Clients /\ ClientFits
  BY DEF PreviewInv, PreviewTypes, ClientTypes
<1>3. client' \in Clients /\ (client'.step = "idle" \/ client'.s = client.s)
      /\ client'.holds \subseteq client.holds /\ client.holds \subseteq StageIds
  <2>1. client.holds \subseteq StageIds
    BY <1>2 DEF Clients
  <2> QED
    BY <1>2, <2>1, NoClientIsTyped DEF ClientGoesOn
<1>4. \A i \in client'.holds : Known(i)'
  BY <1>1, <1>2, <1>3 DEF ClientFits
<1>5. client'.step # "idle" => client.step # "idle" /\ client.s \in Previews
  BY <1>2 DEF ClientGoesOn, ClientFits, NoClient
<1>6. client'.step = "claiming" => client.step = "claiming" /\ starts'[client'.s] = "accepting"
  BY <1>2, <1>3 DEF ClientGoesOn, ClientFits, NoClient
<1>7. client'.step \notin {"idle", "claiming"} => client.step \notin {"idle", "claiming"}
  BY DEF ClientGoesOn, NoClient
<1>8. client'.step \notin {"idle", "claiming"} =>
          /\ starts'[client'.s] \in Accepted /\ sessions'[client'.s].doc # 0
          /\ sessions'[client'.s].phase \notin {"none", "pending"}
  BY <1>2, <1>3, <1>5, <1>7 DEF ClientFits, StartsStep, SessionsPass, Passing
<1>9. ClientFits'
  BY <1>3, <1>4, <1>5, <1>6, <1>8 DEF ClientFits
<1> QED
  BY <1>3, <1>9 DEF ClientStep, ClientTypes

LEMMA LedgerStays ==
    ASSUME PreviewInv, LedgerStep, NEW ends \in BOOLEAN, StartsStep(ends), UNCHANGED <<begun, exporting>>,
           \A s \in Previews :
               /\ starts'[s] = "reserved" <=> starts[s] = "reserved"
               /\ ops[s].step = "done" => ops'[s] = ops[s]
    PROVE  LedgerKept /\ SessionsPass
<1>1. SourceIsReserved'
  <2>1. {s \in Previews : sessions'[s].held \/ starts'[s] = "reserved"}
        = {s \in Previews : sessions'[s].held \/ starts[s] = "reserved"}
    OBVIOUS
  <2> QED
    BY <2>1 DEF LedgerStep, Reserve, SourceIsReserved
<1>2. StartFits'
  BY DEF StartFits, StartsStep, LedgerStep
<1>3. StoredFits'
  <2>1. \A id \in stored' : Known(id)'
    BY DEF LedgerStep, PreviewInv, StoredFits, Known
  <2>2. \A id \in stored' : id[1] \in Previews
    BY StageOwners DEF LedgerStep, PreviewInv, PreviewTypes
  <2> QED
    BY <2>1, <2>2 DEF StoredFits, StagesAreOwned, LedgerStep, OwnedAfter
<1> QED
  BY <1>1, <1>2, <1>3 DEF LedgerKept, LedgerStep, SessionsPass

LEMMA LossFollows ==
    ASSUME SessionsPass, epoch[SourceTab] <= epoch'[SourceTab]
    PROVE  LossStep
  BY DEF SessionsPass, Passing, LossStep

LEMMA EpochsRest ==
    ASSUME BrowserTypes, epoch' = epoch
    PROVE  epoch[SourceTab] <= epoch'[SourceTab] /\ epoch[SourceTab] \in Nat
  BY DEF BrowserTypes, Tabs0
-----------------------------------------------------------------------------
(* The invariant, after a step of the job that holds the lock.             *)

LEMMA PartsTogether ==
    ASSUME LedgerKept, StartTypes', OpTypes', OpsFit', ClientStep, BrowserTypes',
           LineTypes', LineFits', HolderFits'
    PROVE  PreviewInv'
  BY DEF PreviewInv, PreviewTypes, LedgerKept, ClientStep

LEMMA FinalFollows == ASSUME SessionsPass PROVE LossIsFinal
  BY DEF SessionsPass, Passing, LossIsFinal, StaysUnread

NoneIsLost == \A s \in Previews : ~(sessions[s].lost /\ Live(sessions[s]))

LEMMA JobEnds ==
    ASSUME PreviewInv, job.kind \in Kinds, Finishes, epoch' = epoch, BrowserTypes', LedgerKept,
           SessionsPass, StartsStep(TRUE), OpsStep(TRUE), ClientStep, IsLoss(job) => NoneIsLost'
    PROVE  PreviewInv' /\ LossIsFinal
<1>1. PreviewTypes /\ LineFits /\ LedgerTypes'
  BY DEF PreviewInv, LedgerKept
<1>2. epoch[SourceTab] <= epoch'[SourceTab] /\ BrowserTypes
  BY <1>1, EpochsRest DEF PreviewTypes
<1>3. LossStep /\ OthersStay
  BY <1>2, LossFollows, JobsGoOn
<1>4. IsLoss(job) => \A s \in Previews : ~(sessions'[s].lost /\ Live(sessions'[s]))
  BY DEF NoneIsLost
<1>5. LineTypes' /\ LineFits'
  BY <1>1, <1>3, <1>4, FinishedLine
<1>6. HolderFits'
  BY DEF Finishes, HolderFits
<1>7. StartTypes' /\ OpTypes' /\ OpsFit'
  BY DEF StartsStep, OpsStep
<1> QED
  BY <1>5, <1>6, <1>7, PartsTogether, FinalFollows

\* Nothing starts or ends but the job.
Unstarted == UNCHANGED <<epoch, exporting, begun, starts, ops>>

LEMMA UnstartedMeans ==
    ASSUME PreviewInv, Unstarted, LedgerStep, ClientGoesOn, NEW ends \in BOOLEAN
    PROVE  LedgerKept /\ SessionsPass /\ StartsStep(ends) /\ OpsStep(ends) /\ ClientStep
<1>1. StartsStep(ends)
  BY DEF PreviewInv, PreviewTypes, StartTypes, StartsStep, Unstarted
<1>2. LedgerKept /\ SessionsPass
  BY <1>1, LedgerStays DEF Unstarted
<1>3. OpTypes' /\ OpsFit'
  <2>1. DOMAIN ops' = Previews /\ ops' = [s \in Previews |-> ops'[s]]
    BY DEF PreviewInv, PreviewTypes, OpTypes, Unstarted
  <2>2. \A s \in Previews : OpPasses(s)
    BY DEF OpPasses, Unstarted
  <2> QED
    BY <1>1, <1>2, <2>1, <2>2, OpsPass DEF Unstarted, LedgerStep
<1>4. OpsStep(ends)
  BY <1>3 DEF OpsStep, Unstarted
<1>5. \A s \in Previews : begun[s] <= begun'[s]
  BY TextPreviewParameters DEF PreviewInv, PreviewTypes, OpTypes, Unstarted
<1> QED
  BY <1>1, <1>2, <1>3, <1>4, <1>5, ClientPasses

LEMMA PlainEnd ==
    ASSUME PreviewInv, job.kind \in Kinds, Finishes, Unstarted, BrowserTypes', LedgerStep, ClientGoesOn,
           IsLoss(job) => NoneIsLost'
    PROVE  PreviewInv' /\ LossIsFinal
  BY UnstartedMeans, JobEnds DEF Unstarted

LEMMA JobGoes ==
    ASSUME PreviewInv, job.kind \in Kinds, Unstarted, BrowserTypes', LedgerStep, ClientGoesOn,
           holder' \in Jobs, queue' = StillWaiting,
           holder'.kind = job.kind, holder'.s = job.s, holder'.doc = job.doc,
           job.kind = "publish" => holder'.gen <= epoch[SourceTab],
           HolderFits'
    PROVE  PreviewInv' /\ LossIsFinal
<1>1. PreviewTypes /\ LineFits /\ LedgerTypes'
  BY DEF PreviewInv, LedgerStep
<1>2. epoch[SourceTab] <= epoch'[SourceTab] /\ BrowserTypes /\ epoch' = epoch
  BY <1>1, EpochsRest DEF PreviewTypes, Unstarted
<1>3. LedgerKept /\ SessionsPass /\ StartsStep(FALSE) /\ OpsStep(FALSE) /\ ClientStep
  BY UnstartedMeans
<1>4. LossStep /\ JobsStay
  BY <1>2, <1>3, LossFollows, JobsGoOn
<1>5. LineTypes' /\ LineFits'
  BY <1>1, <1>2, <1>4, HeldLine
<1>6. StartTypes' /\ OpTypes' /\ OpsFit'
  BY <1>3 DEF StartsStep, OpsStep
<1> QED
  BY <1>3, <1>5, <1>6, PartsTogether, FinalFollows

LEMMA SeenNowMeans == SeenNow \in {"current", "changed"}
  BY DEF SeenNow

LEMMA AskedMeans ==
    ASSUME NEW j \in Jobs, j = job, NEW at \in AtPlaces
    PROVE  /\ Asked(at) \in Jobs /\ Asked(at).kind = j.kind /\ Asked(at).s = j.s
           /\ Asked(at).doc = j.doc /\ Asked(at).gen = j.gen /\ Asked(at).rev = j.rev /\ Asked(at).at = at
<1> DEFINE seen == IF at \in AsksDocument THEN "nothing" ELSE SeenNow
<1>1. Asked(at) = [j EXCEPT !.at = at, !.seen = seen]
  BY DEF Asked
<1>2. seen \in {"nothing", "current", "changed", "accepted", "refused"}
  BY SeenNowMeans
<1> HIDE DEF seen
<1> QED
  BY <1>1, <1>2 DEF Jobs

\* What is asked for next has been found out.
Founded(at) ==
    /\ at \in AtPlaces \ {"waiting"}
    /\ <<job.kind, at>> \in NeedsPresent => Present(sessions'[job.s])

LEMMA Goes ==
    ASSUME PreviewInv, job.kind \in Kinds, Unstarted, BrowserTypes', LedgerStep, ClientGoesOn,
           NEW at, GoesTo(at), Founded(at),
           job.kind = "publish" => (sessions'[job.s].lost => job.gen < epoch[SourceTab])
    PROVE  PreviewInv' /\ LossIsFinal
<1>1. job \in Jobs /\ LineTypes
  BY JobIsFirst DEF PreviewInv, PreviewTypes
<1>2. /\ holder' \in Jobs /\ holder'.kind = job.kind /\ holder'.s = job.s /\ holder'.doc = job.doc
      /\ holder'.gen = job.gen /\ holder'.at = at /\ queue' = StillWaiting
  <2>1. PICK j \in Jobs : j = job
    BY <1>1
  <2> QED
    BY <2>1, AskedMeans DEF GoesTo, Founded
<1>3. job.kind = "publish" => job.gen <= epoch[SourceTab]
  <2>1. LineSize >= 1 /\ LineSize \in Nat /\ Line[1].kind = job.kind /\ Line[1].gen = job.gen
    BY <1>1, JobIsFirst, LineIsTyped
  <2>2. JobFits(Line[1])
    BY <1>1, <2>1, LineMeans DEF PreviewInv
  <2> QED
    BY <2>1, <2>2 DEF JobFits
<1>4. HolderFits'
  BY <1>2 DEF HolderFits, Founded, Unstarted
<1> QED
  BY <1>2, <1>3, <1>4, JobGoes

LEMMA BeginsWell ==
    ASSUME PreviewInv, job.kind \in Kinds, Unstarted, BrowserTypes', LedgerStep, ClientGoesOn,
           NEW at, Begins(at), Founded(at),
           job.kind = "publish" => ~sessions'[job.s].lost
    PROVE  PreviewInv' /\ LossIsFinal
<1>1. job \in Jobs /\ epoch[SourceTab] \in Nat /\ revision \in Nat
  BY JobIsFirst DEF PreviewInv, PreviewTypes, BrowserTypes, Tabs0
<1>2. /\ holder' \in Jobs /\ holder'.kind = job.kind /\ holder'.s = job.s /\ holder'.doc = job.doc
      /\ holder'.gen = epoch[SourceTab] /\ holder'.at = at /\ queue' = StillWaiting
  <2>1. PICK j \in Jobs : j = job
    BY <1>1
  <2>2. at \in AtPlaces
    BY DEF Founded
  <2>3. PICK a \in Jobs : a = Asked(at)
    BY <2>1, <2>2, AskedMeans
  <2>4. a.kind = job.kind /\ a.s = job.s /\ a.doc = job.doc /\ a.at = at
    BY <2>1, <2>2, <2>3, AskedMeans
  <2>5. holder' = [a EXCEPT !.gen = epoch[SourceTab], !.rev = revision] /\ queue' = StillWaiting
    BY <2>3 DEF Begins
  <2> QED
    BY <1>1, <2>4, <2>5 DEF Jobs
<1>3. HolderFits'
  BY <1>2 DEF HolderFits, Founded, Unstarted
<1> QED
  BY <1>1, <1>2, <1>3, JobGoes
-----------------------------------------------------------------------------
(* The source document: claim, selection and lease.                        *)

LEMMA JobIsFit ==
    ASSUME PreviewInv, job.kind \in Kinds
    PROVE  /\ job \in Jobs /\ JobFits(job)
           /\ job.at # "begun" => holder # NoJob /\ holder = job
<1>1. LineTypes /\ LineFits
  BY DEF PreviewInv, PreviewTypes
<1>2. /\ job \in Jobs /\ LineSize >= 1 /\ Line[1] \in Jobs /\ Line[1].kind = job.kind /\ Line[1].s = job.s
      /\ Line[1].doc = job.doc /\ Line[1].gen = job.gen
      /\ job.at # "begun" => holder # NoJob
      /\ holder # NoJob => holder = job
  BY <1>1, JobIsFirst
<1>3. LineSize \in Nat /\ \A i \in 1 .. LineSize : JobFits(Line[i])
  BY <1>1, LineMeans, LineIsTyped
<1>4. JobFits(Line[1])
  BY <1>2, <1>3
<1> QED
  BY <1>2, <1>4 DEF JobFits

LEMMA OutsideMeans ==
    ASSUME PreviewInv, Outside
    PROVE  BrowserTypes' /\ UNCHANGED <<epoch, exporting, begun>>
  BY DEF PreviewInv, PreviewTypes, BrowserTypes, Outside, browserSide

LEMMA LedgerRests == ASSUME PreviewInv, UNCHANGED ledger, epoch' = epoch PROVE LedgerStep /\ sessions' = sessions
  BY StillLedger DEF ledger

LEMMA TellsWell ==
    ASSUME PreviewInv, job.kind \in {"await", "lease", "publish", "stop"},
           NEW step \in ClientPlaces \ {"claiming"}, Tells(step)
    PROVE  ClientGoesOn /\ starts' = starts
<1>1. starts' = starts
  BY DEF Tells
<1>2. client \in Clients /\ ClientFits
  BY DEF PreviewInv, PreviewTypes, ClientTypes
<1>3. CASE ~Hears
  BY <1>1, <1>3 DEF Tells, ClientGoesOn
<1>4. CASE Hears /\ step = "idle"
  BY <1>4 DEF Tells, ClientGoesOn, NoClient
<1>5. CASE Hears /\ step # "idle"
  <2>1. client' = [client EXCEPT !.step = step]
    BY <1>5 DEF Tells
  <2>2. client.step \notin {"idle", "claiming"}
    BY <1>5 DEF Hears, WaitsFor
  <2>3. client' \in Clients /\ client'.s = client.s /\ client'.step = step /\ client'.holds = client.holds
    BY <1>2, <2>1 DEF Clients
  <2> QED
    BY <1>1, <1>5, <2>2, <2>3 DEF ClientGoesOn
<1> QED
  BY <1>1, <1>3, <1>4, <1>5

\* The claim is decided, and the document told.
LEMMA ClaimAnswered ==
    ASSUME PreviewInv, job.kind = "claim", Finishes, Outside, UNCHANGED ops, LedgerStep,
           NEW granted \in BOOLEAN, AnswersClaim(granted),
           granted => sessions'[job.s].doc # 0 /\ sessions'[job.s].phase \notin {"none", "pending"}
    PROVE  PreviewInv' /\ LossIsFinal
<1>1. job.kind \in Kinds /\ job.s \in Previews /\ ~IsLoss(job)
  BY JobIsFit DEF Kinds, JobFits, TabNews, IsLoss
<1>2. BrowserTypes' /\ UNCHANGED <<epoch, exporting, begun>>
  BY OutsideMeans
<1>3. CASE ~Hears
  <2>1. Unstarted /\ ClientGoesOn
    BY <1>2, <1>3 DEF AnswersClaim, Unstarted, ClientGoesOn
  <2> QED
    BY <1>1, <1>2, <2>1, PlainEnd
<1>4. CASE Hears
  <2>1. client.s = job.s /\ client.step = "claiming"
    BY <1>4 DEF Hears, WaitsFor
  <2>2. starts[job.s] = "accepting" /\ starts \in [Previews -> StartPlaces]
    BY <2>1 DEF PreviewInv, ClientFits, PreviewTypes, StartTypes
  <2>3. PICK to : to \in {"accepted", "refused"} /\ starts' = [starts EXCEPT ![job.s] = to]
                  /\ \/ to = "refused" /\ client' = NoClient
                     \/ to = "accepted" /\ granted /\ client' = [client EXCEPT !.step = "running"]
    BY <1>4 DEF AnswersClaim
  <2>4. /\ starts' \in [Previews -> StartPlaces] /\ starts'[job.s] = to
        /\ \A s \in Previews : s # job.s => starts'[s] = starts[s]
    BY <1>1, <2>2, <2>3 DEF StartPlaces
  <2>5. StartsStep(TRUE)
    <3> SUFFICES ASSUME NEW s \in Previews
                 PROVE  /\ starts'[s] \in Unborn => starts[s] \in Unborn
                        /\ starts[s] \in Accepted => starts'[s] \in Accepted
                        /\ starts[s] \in {"ending", "failed"} => starts'[s] \in {"ending", "failed"}
                        /\ starts[s] = "reserved" => starts'[s] = "reserved"
                        /\ starts[s] = "registering" => starts'[s] = "registering"
      BY <2>4 DEF StartsStep, StartTypes
    <3>1. CASE s = job.s
      BY <2>2, <2>3, <2>4, <3>1 DEF Unborn, Accepted
    <3>2. CASE s # job.s
      BY <2>4, <3>2
    <3> QED
      BY <3>1, <3>2
  <2>6. \A s \in Previews : starts'[s] = "reserved" <=> starts[s] = "reserved"
    <3> TAKE s \in Previews
    <3>1. CASE s = job.s
      BY <2>2, <2>3, <2>4, <3>1
    <3>2. CASE s # job.s
      BY <2>4, <3>2
    <3> QED
      BY <3>1, <3>2
  <2>7. LedgerKept /\ SessionsPass
    BY <1>2, <2>5, <2>6, LedgerStays
  <2>8. DOMAIN ops' = Previews /\ ops' = [s \in Previews |-> ops'[s]] /\ \A s \in Previews : OpPasses(s)
    BY DEF PreviewInv, PreviewTypes, OpTypes, OpPasses
  <2>9. OpTypes' /\ OpsFit'
    BY <1>2, <2>5, <2>7, <2>8, OpsPass DEF LedgerStep
  <2>10. OpsStep(TRUE)
    BY <2>9 DEF OpsStep
  <2>11. ClientStep
    <3>1. client \in Clients /\ ClientFits
      BY DEF PreviewInv, PreviewTypes, ClientTypes
    <3>2. \A i \in client.holds : Known(i)'
      BY <1>2, <3>1 DEF ClientFits, Known
    <3>3. CASE to = "refused"
      BY <2>3, <3>3, NoClientIsTyped DEF ClientStep, ClientTypes, ClientFits
    <3>4. CASE to = "accepted"
      <4>1. granted /\ client' = [client EXCEPT !.step = "running"]
        BY <2>3, <3>4
      <4>2. /\ client' \in Clients /\ client'.s = client.s /\ client'.step = "running"
            /\ client'.holds = client.holds
        BY <3>1, <4>1 DEF Clients, ClientPlaces
      <4>3. starts'[job.s] \in Accepted
        BY <2>4, <3>4 DEF Accepted
      <4>4. ClientFits'
        BY <1>1, <2>1, <3>2, <4>1, <4>2, <4>3 DEF ClientFits
      <4> QED
        BY <4>2, <4>4 DEF ClientStep, ClientTypes
    <3> QED
      BY <2>3, <3>3, <3>4
  <2> QED
    BY <1>1, <1>2, <2>5, <2>7, <2>10, <2>11, JobEnds
<1> QED
  BY <1>3, <1>4

Listened == {"claim", "await", "lease", "publish", "choose"}

LEMMA RefusesWell ==
    ASSUME PreviewInv, job.kind \in Listened, Refuses
    PROVE  PreviewInv' /\ LossIsFinal
<1>1. Finishes /\ Outside /\ UNCHANGED <<ops, ledger>>
  BY DEF Refuses, Peaceful
<1>2. BrowserTypes' /\ UNCHANGED <<epoch, exporting, begun>> /\ job.kind \in Kinds /\ ~IsLoss(job)
  BY <1>1, OutsideMeans DEF Listened, Kinds, IsLoss
<1>3. LedgerStep
  BY <1>1, <1>2, LedgerRests
<1>4. CASE job.kind = "claim"
  <2>1. AnswersClaim(FALSE)
    BY <1>4 DEF Refuses
  <2> QED
    BY <1>1, <1>3, <1>4, <2>1, ClaimAnswered
<1>5. CASE job.kind # "claim"
  <2>1. ClientGoesOn /\ starts' = starts
    <3>1. CASE job.kind = "choose"
      BY <3>1 DEF Refuses, WaitsFor, ClientGoesOn
    <3>2. CASE job.kind # "choose"
      <4>1. Tells("failing") /\ job.kind \in {"await", "lease", "publish", "stop"}
        BY <1>5, <3>2 DEF Refuses, WaitsFor, Listened
      <4>2. "failing" \in ClientPlaces \ {"claiming"}
        BY DEF ClientPlaces
      <4> QED
        BY <4>1, <4>2, TellsWell
    <3> QED
      BY <3>1, <3>2
  <2> QED
    BY <1>1, <1>2, <1>3, <2>1, PlainEnd DEF Unstarted
<1> QED
  BY <1>4, <1>5

LEMMA RestsMeans ==
    ASSUME PreviewInv, UNCHANGED <<ledger, client, starts>>, Peaceful
    PROVE  Unstarted /\ BrowserTypes' /\ LedgerStep /\ ClientGoesOn /\ sessions' = sessions
  BY OutsideMeans, LedgerRests DEF Peaceful, Unstarted, ClientGoesOn

LEMMA ContinuesWell ==
    ASSUME PreviewInv, job.kind \in Listened, NEW check \in BOOLEAN,
           NEW at \in AtPlaces \ {"waiting"}, Continues(check, at),
           check /\ <<job.kind, at>> \in NeedsPresent => Present(sessions[job.s]),
           job.kind = "publish" => job.at # "begun"
    PROVE  PreviewInv' /\ LossIsFinal
<1>1. CASE ~check
  BY <1>1, RefusesWell DEF Continues
<1>2. CASE check
  <2>1. GoesTo(at) /\ UNCHANGED <<ledger, client, starts>> /\ Peaceful
    BY <1>2 DEF Continues
  <2>2. Unstarted /\ BrowserTypes' /\ LedgerStep /\ ClientGoesOn /\ sessions' = sessions
    BY <2>1, RestsMeans
  <2>3. job.kind \in Kinds /\ Founded(at)
    BY <1>2, <2>2 DEF Founded, Listened, Kinds
  <2>4. job.kind = "publish" => (sessions'[job.s].lost => job.gen < epoch[SourceTab])
    BY <2>2, <2>3, JobIsFit DEF PreviewInv, HolderFits
  <2> QED
    BY <2>1, <2>2, <2>3, <2>4, Goes
<1> QED
  BY <1>1, <1>2

LEMMA BeginsAtWell ==
    ASSUME PreviewInv, job.kind \in Listened, NEW check \in BOOLEAN,
           NEW at \in AtPlaces \ {"waiting"}, BeginsAt(check, at),
           <<job.kind, at>> \notin NeedsPresent,
           check /\ job.kind = "publish" => ~sessions[job.s].lost
    PROVE  PreviewInv' /\ LossIsFinal
<1>1. CASE ~check
  BY <1>1, RefusesWell DEF BeginsAt
<1>2. CASE check
  <2>1. Begins(at) /\ UNCHANGED <<ledger, client, starts>> /\ Peaceful
    BY <1>2 DEF BeginsAt
  <2>2. Unstarted /\ BrowserTypes' /\ LedgerStep /\ ClientGoesOn /\ sessions' = sessions
    BY <2>1, RestsMeans
  <2>3. job.kind \in Kinds /\ Founded(at)
    BY DEF Founded, Listened, Kinds
  <2>4. job.kind = "publish" => ~sessions'[job.s].lost
    BY <1>2, <2>2
  <2> QED
    BY <2>1, <2>2, <2>3, <2>4, BeginsWell
<1> QED
  BY <1>1, <1>2

\* A session that goes on to another phase, with its stages and what it holds.
LEMMA MovedOn ==
    ASSUME PreviewInv, NEW s \in Previews, NEW x \in Sessions, Changes(s, x), epoch' = epoch,
           Present(sessions[s]), Present(x), x.phase # "ready" \/ sessions[s].phase = "ready",
           sessions[s].phase = "invalidated" => x.phase = "invalidated",
           HoldsSource(x) => HoldsSource(sessions[s]),
           x.held = sessions[s].held, x.stages = sessions[s].stages, x.lost = sessions[s].lost,
           \/ x.gen = sessions[s].gen /\ x.doc = sessions[s].doc
              /\ (sessions[s].phase # "pending" => x.phase # "pending")
           \/ sessions[s].phase = "pending" /\ x.gen <= epoch[SourceTab] /\ x.doc # 0
    PROVE  LedgerStep /\ sessions'[s] = x
<1>1. SessionFits(sessions[s], tombs[s]) /\ sessions[s].gen <= epoch[SourceTab] /\ starts[s] \notin Unborn
  BY DEF PreviewInv, LedgerFits, StartFits, Present
<1>2. Passing(sessions[s], x)
  BY DEF Passing, Live, Present
<1>3. SessionFits(x, tombs[s])
  BY <1>1 DEF SessionFits, Present, HoldsSource
<1>4. x.gen <= epoch[SourceTab]
  BY <1>1
<1>5. LedgerStep
  BY <1>1, <1>2, <1>3, <1>4, ChangedLedger
<1>6. sessions'[s] = x
  BY DEF Changes, PreviewInv, PreviewTypes, LedgerTypes
<1> QED
  BY <1>5, <1>6

LEMMA SessionIsTyped ==
    ASSUME PreviewInv, NEW s \in Previews
    PROVE  sessions[s] \in Sessions /\ sessions \in [Previews -> Sessions]
  BY DEF PreviewInv, PreviewTypes, LedgerTypes

LEMMA ClaimKeeps == ASSUME PreviewInv, Claim PROVE PreviewInv' /\ LossIsFinal
<1>1. job.kind = "claim" /\ job.kind \in Listened /\ job.kind \in Kinds /\ <<job.kind, "tab">> \notin NeedsPresent
      /\ <<job.kind, "settings">> \notin NeedsPresent /\ <<job.kind, "tab-again">> \notin NeedsPresent
  BY DEF Claim, At, Listened, Kinds, NeedsPresent
<1>2. job \in Jobs /\ job.s \in Previews /\ job.doc # 0
  BY <1>1, JobIsFit DEF JobFits, TabNews
<1>3. "tab" \in AtPlaces \ {"waiting"} /\ "settings" \in AtPlaces \ {"waiting"}
      /\ "tab-again" \in AtPlaces \ {"waiting"}
  BY DEF AtPlaces
<1>4. CASE BeginsAt(PhaseCurrent(job.s, {"pending"}), "tab")
  <2>1. PICK check \in BOOLEAN : check = PhaseCurrent(job.s, {"pending"})
    BY DEF PhaseCurrent
  <2> QED
    BY <1>1, <1>3, <1>4, <2>1, BeginsAtWell
<1>5. ASSUME NEW seen \in Answers, Continues(StillCurrent(seen, {"pending"}), "settings")
      PROVE  PreviewInv' /\ LossIsFinal
  <2>1. PICK check \in BOOLEAN : check = StillCurrent(seen, {"pending"})
    BY DEF StillCurrent
  <2> QED
    BY <1>1, <1>3, <1>5, <2>1, ContinuesWell
<1>6. CASE Continues(/\ job.rev = revision /\ job.gen = epoch[SourceTab]
                     /\ PhaseCurrent(job.s, {"pending"}), "tab-again")
  <2>1. PICK check \in BOOLEAN : check = (/\ job.rev = revision /\ job.gen = epoch[SourceTab]
                                          /\ PhaseCurrent(job.s, {"pending"}))
    OBVIOUS
  <2> QED
    BY <1>1, <1>3, <1>6, <2>1, ContinuesWell
<1>7. ASSUME NEW seen \in Answers, StillCurrent(seen, {"pending"}),
             Changes(job.s, [sessions[job.s] EXCEPT !.phase = "capturing", !.over = sessions[job.s].leaseOver,
                                                   !.doc = job.doc, !.gen = job.gen]),
             AnswersClaim(TRUE), Finishes, Peaceful
      PROVE  PreviewInv' /\ LossIsFinal
  <2> DEFINE y == [sessions[job.s] EXCEPT !.phase = "capturing", !.over = sessions[job.s].leaseOver,
                                          !.doc = job.doc, !.gen = job.gen]
  <2>1. PICK s \in Previews : s = job.s
    BY <1>2
  <2>2. PICK x : x = y
    OBVIOUS
  <2>3. job.doc \in Nat /\ job.gen \in Nat /\ epoch[SourceTab] \in Nat
    BY <1>2 DEF Jobs, PreviewInv, PreviewTypes, BrowserTypes, Tabs0
  <2>4. /\ x \in Sessions /\ x.phase = "capturing" /\ x.doc = job.doc /\ x.gen = job.gen
        /\ x.held = sessions[s].held /\ x.stages = sessions[s].stages /\ x.lost = sessions[s].lost
    BY <2>1, <2>2, <2>3, SessionIsTyped DEF Sessions, Phases
  <2>5. sessions[s].phase = "pending" /\ job.gen = epoch[SourceTab]
    BY <1>7, <2>1 DEF StillCurrent, PhaseCurrent
  <2>6. Changes(s, x)
    BY <1>7, <2>1, <2>2
  <2>7. Outside /\ UNCHANGED ops /\ epoch' = epoch
    BY <1>7 DEF Peaceful, Outside
  <2>8. LedgerStep /\ sessions'[s] = x
    BY <1>2, <2>3, <2>4, <2>5, <2>6, <2>7, MovedOn DEF Present, HoldsSource
  <2> QED
    BY <1>1, <1>2, <1>7, <2>1, <2>4, <2>7, <2>8, ClaimAnswered
<1>8. ASSUME NEW seen \in Answers, Refuses PROVE PreviewInv' /\ LossIsFinal
  BY <1>1, <1>8, RefusesWell
<1> QED
  BY <1>4, <1>5, <1>6, <1>7, <1>8 DEF Claim

LEMMA AnswerKeeps ==
    ASSUME PreviewInv, job.kind \in {"await", "lease", "publish"}, Finishes, Outside, UNCHANGED ops,
           LedgerStep, NEW step \in ClientPlaces \ {"claiming"}, Tells(step)
    PROVE  PreviewInv' /\ LossIsFinal
<1>1. BrowserTypes' /\ UNCHANGED <<epoch, exporting, begun>>
  BY OutsideMeans
<1>2. ClientGoesOn /\ starts' = starts
  BY TellsWell
<1>3. job.kind \in Kinds /\ ~IsLoss(job)
  BY DEF Kinds, IsLoss
<1> QED
  BY <1>1, <1>2, <1>3, PlainEnd DEF Unstarted

LEMMA AwaitSelectionKeeps == ASSUME PreviewInv, AwaitSelection PROVE PreviewInv' /\ LossIsFinal
<1>1. job.kind = "await" /\ job.kind \in Listened /\ job.kind \in Kinds /\ <<job.kind, "tab">> \notin NeedsPresent
      /\ "tab" \in AtPlaces \ {"waiting"} /\ "choosing" \in ClientPlaces \ {"claiming"}
  BY DEF AwaitSelection, At, Listened, Kinds, NeedsPresent, AtPlaces, ClientPlaces
<1>2. job.s \in Previews
  BY <1>1, JobIsFit DEF JobFits, TabNews
<1>3. ASSUME NEW check, check = (/\ sessions[job.s].selected /\ PhaseCurrent(job.s, {"capturing"})
                                 /\ OwnsSource(job.s, job.doc) /\ SourceGenerationCurrent(job.s)),
             BeginsAt(check, "tab")
      PROVE  PreviewInv' /\ LossIsFinal
  <2>1. check \in BOOLEAN
    BY <1>3
  <2> QED
    BY <1>1, <1>3, <2>1, BeginsAtWell
<1>4. ASSUME NEW seen \in Answers, StillCurrent(seen, {"capturing"}),
             Changes(job.s, [sessions[job.s] EXCEPT !.phase = "awaiting-selection"]),
             Tells("choosing"), Finishes, Peaceful
      PROVE  PreviewInv' /\ LossIsFinal
  <2>1. PICK s \in Previews : s = job.s
    BY <1>2
  <2>2. PICK x : x = [sessions[s] EXCEPT !.phase = "awaiting-selection"]
    OBVIOUS
  <2>3. /\ x \in Sessions /\ x.phase = "awaiting-selection" /\ x.doc = sessions[s].doc /\ x.gen = sessions[s].gen
        /\ x.held = sessions[s].held /\ x.stages = sessions[s].stages /\ x.lost = sessions[s].lost
    BY <2>2, SessionIsTyped DEF Sessions, Phases
  <2>4. sessions[s].phase = "capturing" /\ Changes(s, x)
    BY <1>4, <2>1, <2>2 DEF StillCurrent, PhaseCurrent
  <2>5. Outside /\ UNCHANGED ops /\ epoch' = epoch
    BY <1>4 DEF Peaceful, Outside
  <2>6. LedgerStep
    BY <2>3, <2>4, <2>5, MovedOn DEF Present, HoldsSource
  <2> QED
    BY <1>1, <1>4, <2>5, <2>6, AnswerKeeps
<1>5. ASSUME NEW seen \in Answers, Refuses PROVE PreviewInv' /\ LossIsFinal
  BY <1>1, <1>5, RefusesWell
<1>6. CASE BeginsAt(/\ sessions[job.s].selected /\ PhaseCurrent(job.s, {"capturing"})
                    /\ OwnsSource(job.s, job.doc) /\ SourceGenerationCurrent(job.s), "tab")
  <2>1. PICK check : check = (/\ sessions[job.s].selected /\ PhaseCurrent(job.s, {"capturing"})
                              /\ OwnsSource(job.s, job.doc) /\ SourceGenerationCurrent(job.s))
    OBVIOUS
  <2> QED
    BY <1>3, <1>6, <2>1
<1> QED
  BY <1>4, <1>5, <1>6 DEF AwaitSelection

LEMMA CaptureLeaseKeeps == ASSUME PreviewInv, CaptureLease PROVE PreviewInv' /\ LossIsFinal
<1>1. job.kind = "lease" /\ job.kind \in Listened /\ job.kind \in Kinds /\ <<job.kind, "tab">> \notin NeedsPresent
      /\ "tab" \in AtPlaces \ {"waiting"} /\ "finishing" \in ClientPlaces \ {"claiming"}
  BY DEF CaptureLease, At, Listened, Kinds, NeedsPresent, AtPlaces, ClientPlaces
<1>2. CASE BeginsAt(/\ IsLiveCapture(sessions[job.s]) /\ ~sessions[job.s].over
                    /\ OwnsSource(job.s, job.doc) /\ SourceGenerationCurrent(job.s), "tab")
  <2>1. PICK check \in BOOLEAN : check = (/\ IsLiveCapture(sessions[job.s]) /\ ~sessions[job.s].over
                                          /\ OwnsSource(job.s, job.doc) /\ SourceGenerationCurrent(job.s))
    OBVIOUS
  <2> QED
    BY <1>1, <1>2, <2>1, BeginsAtWell
<1>3. ASSUME Tells("finishing"), Finishes, UNCHANGED ledger, Peaceful
      PROVE  PreviewInv' /\ LossIsFinal
  <2>1. Outside /\ UNCHANGED ops /\ epoch' = epoch
    BY <1>3 DEF Peaceful, Outside
  <2>2. LedgerStep
    BY <1>3, <2>1, LedgerRests
  <2> QED
    BY <1>1, <1>3, <2>1, <2>2, AnswerKeeps
<1>4. ASSUME Refuses PROVE PreviewInv' /\ LossIsFinal
  BY <1>1, <1>4, RefusesWell
<1> QED
  BY <1>2, <1>3, <1>4 DEF CaptureLease

\* A source that was lost is before the publication, and has moved its epoch on.
LEMMA PublisherIsNotLost ==
    ASSUME PreviewInv, job.kind = "publish", SourceGenerationCurrent(job.s), Live(sessions[job.s])
    PROVE  ~sessions[job.s].lost
<1>1. LineTypes /\ LineFits /\ job.kind \in Kinds
  BY DEF PreviewInv, PreviewTypes, Kinds
<1>2. LineSize >= 1 /\ LineSize \in Nat /\ Line[1].kind = "publish" /\ Line[1].s = job.s
      /\ DOMAIN Line = 1 .. LineSize
  BY <1>1, JobIsFirst, LineIsTyped
<1>3. 1 \in DOMAIN Line /\ ~\E j \in DOMAIN Line : j < 1
  BY <1>2
<1>4. job.s \in Previews
  BY <1>1, JobIsFit DEF JobFits, TabNews
<1>5. ~(sessions[job.s].gen < epoch[SourceTab])
  BY <1>4 DEF SourceGenerationCurrent, PreviewInv, PreviewTypes, BrowserTypes, Tabs0
<1> QED
  BY <1>1, <1>2, <1>3, <1>5 DEF LineFits, LossFits

\* What the capture still holds is given up before it is published.
LEMMA PublishCleans ==
    ASSUME PreviewInv, job.kind = "publish", job.at # "begun", NEW kept \in {{}, StageIds},
           sessions' = [sessions EXCEPT ![job.s].stages = @ \cap kept],
           stored' = stored \ (sessions[job.s].stages \ kept),
           GoesTo("cleaned"), Outside, UNCHANGED <<ops, tombs, reserved, cancels, client, starts>>
    PROVE  PreviewInv' /\ LossIsFinal
<1>1. PICK s \in Previews : s = job.s
  BY JobIsFit DEF JobFits, TabNews, Kinds
<1>2. sessions \in [Previews -> Sessions] /\ sessions[s] \in Sessions
  BY SessionIsTyped
<1>3. PICK x : x = [sessions[s] EXCEPT !.stages = sessions[s].stages \cap kept]
  OBVIOUS
<1>4. sessions' = [sessions EXCEPT ![s] = x]
  BY <1>1, <1>3
<1>5. sessions[s].stages \cap kept \in SUBSET StageIds
  BY <1>2 DEF Sessions
<1>6. /\ x \in Sessions /\ x.phase = sessions[s].phase /\ x.doc = sessions[s].doc /\ x.gen = sessions[s].gen
      /\ x.held = sessions[s].held /\ x.stages = sessions[s].stages \cap kept /\ x.lost = sessions[s].lost
  BY <1>2, <1>3, <1>5 DEF Sessions
<1>7. /\ sessions' \in [Previews -> Sessions] /\ sessions'[s] = x
      /\ \A r \in Previews : r # s => sessions'[r] = sessions[r]
  BY <1>2, <1>4, <1>6
<1>8. BrowserTypes' /\ UNCHANGED <<epoch, exporting, begun>>
  BY OutsideMeans
<1>9. LedgerTypes'
  BY <1>7 DEF PreviewInv, PreviewTypes, LedgerTypes
<1>10. ASSUME NEW r \in Previews
       PROVE  /\ Passing(sessions[r], sessions'[r]) /\ SessionFits(sessions'[r], tombs'[r])
              /\ sessions'[r].held = sessions[r].held
              /\ sessions'[r].gen <= epoch[SourceTab]
              /\ starts[r] \in Unborn => sessions'[r].phase = "none"
  <2>1. /\ SessionFits(sessions[r], tombs[r]) /\ sessions[r].gen <= epoch[SourceTab]
        /\ starts[r] \in Unborn => sessions[r].phase = "none"
    BY DEF PreviewInv, LedgerFits, StartFits
  <2>2. CASE r = s
    <3>1. Passing(sessions[r], x)
      BY <1>6, <2>2 DEF Passing, Live, Present
    <3>2. SessionFits(x, tombs[r])
      BY <1>6, <2>1, <2>2 DEF SessionFits, Present, HoldsSource
    <3> QED
      BY <1>6, <1>7, <2>1, <2>2, <3>1, <3>2
  <2>3. CASE r # s
    BY <1>7, <2>1, <2>3 DEF Passing
  <2> QED
    BY <2>2, <2>3
<1>11. ASSUME NEW id \in stored'
       PROVE  OwnedAfter(id)
  <2>1. id \in stored /\ id[1] \in Previews /\ id \in StageIds
    BY StageOwners DEF PreviewInv, PreviewTypes
  <2>2. \/ id \in sessions[id[1]].stages
        \/ id \in tombs[id[1]].stages
        \/ ops[id[1]].step = "done" /\ ops[id[1]].stage = id
        \/ tombs[id[1]].state = "expired"
    BY <2>1 DEF PreviewInv, StoredFits, StagesAreOwned
  <2>3. CASE id \in sessions[id[1]].stages /\ id[1] = s
    <3>1. id \in kept
      BY <1>1, <2>3
    <3> QED
      BY <1>6, <1>7, <2>3, <3>1 DEF OwnedAfter
  <2>4. CASE id \in sessions[id[1]].stages /\ id[1] # s
    BY <1>7, <2>1, <2>4 DEF OwnedAfter
  <2> QED
    BY <2>2, <2>3, <2>4 DEF OwnedAfter
<1>12. LedgerStep
  BY <1>8, <1>9, <1>10, <1>11, QuietLedger
<1>13. job.kind \in Kinds /\ Unstarted /\ ClientGoesOn /\ Founded("cleaned")
  BY <1>8 DEF Kinds, Unstarted, ClientGoesOn, Founded, AtPlaces, NeedsPresent
<1>14. sessions'[job.s].lost => job.gen < epoch[SourceTab]
  <2>1. sessions'[job.s].lost = sessions[job.s].lost
    BY <1>1, <1>6, <1>7
  <2>2. holder # NoJob /\ holder = job
    BY <1>13, JobIsFit
  <2> QED
    BY <2>1, <2>2 DEF PreviewInv, HolderFits
<1> QED
  BY <1>8, <1>12, <1>13, <1>14, Goes

\* The preview becomes readable, and gives its tab up.
LEMMA PublishReleases ==
    ASSUME PreviewInv, job.kind = "publish", job.at # "begun", NEW seen, StillCurrent(seen, {"capturing"}),
           sessions' = [sessions EXCEPT ![job.s].phase = "ready",
                                        ![job.s].over = sessions[job.s].leaseOver,
                                        ![job.s].held = FALSE],
           reserved' = StillReserved(sessions, {job.s}),
           GoesTo("releasing"), UNCHANGED <<tombs, stored, cancels, client, starts>>, Peaceful
    PROVE  PreviewInv' /\ LossIsFinal
<1>1. PICK s \in Previews : s = job.s
  BY JobIsFit DEF JobFits, TabNews, Kinds
<1>2. sessions \in [Previews -> Sessions] /\ sessions[s] \in Sessions
  BY SessionIsTyped
<1>3. PICK x : x = [sessions[s] EXCEPT !.phase = "ready", !.over = sessions[s].leaseOver, !.held = FALSE]
  OBVIOUS
<1>4. sessions' = [sessions EXCEPT ![s] = x]
  BY <1>1, <1>2, <1>3
<1>5. /\ x \in Sessions /\ x.phase = "ready" /\ x.doc = sessions[s].doc /\ x.gen = sessions[s].gen
      /\ ~x.held /\ x.stages = sessions[s].stages /\ x.lost = sessions[s].lost
  BY <1>2, <1>3 DEF Sessions, Phases
<1>6. /\ sessions' \in [Previews -> Sessions] /\ sessions'[s] = x
      /\ \A r \in Previews : r # s => sessions'[r] = sessions[r]
  BY <1>2, <1>4, <1>5
<1>7. BrowserTypes' /\ UNCHANGED <<epoch, exporting, begun, ops>>
  BY OutsideMeans DEF Peaceful
<1>8. holder # NoJob /\ holder = job /\ job.kind \in Kinds
  BY JobIsFit DEF Kinds
<1>9. sessions[s].phase = "capturing" /\ job.gen = epoch[SourceTab] /\ epoch[SourceTab] \in Nat
  BY <1>1 DEF StillCurrent, PhaseCurrent, PreviewInv, PreviewTypes, BrowserTypes, Tabs0
<1>10. ~sessions[s].lost
  BY <1>1, <1>8, <1>9 DEF PreviewInv, HolderFits
<1>11. starts[s] \notin Unborn
  BY <1>9 DEF PreviewInv, StartFits
<1>12. ASSUME NEW r \in Previews
       PROVE  /\ Passing(sessions[r], sessions'[r]) /\ SessionFits(sessions'[r], tombs'[r])
              /\ sessions'[r].held <=> (sessions[r].held /\ r \notin {s})
              /\ sessions'[r].gen <= epoch[SourceTab]
              /\ starts[r] \in Unborn => sessions'[r].phase = "none"
              /\ sessions'[r].stages = sessions[r].stages
  <2>1. /\ SessionFits(sessions[r], tombs[r]) /\ sessions[r].gen <= epoch[SourceTab]
        /\ starts[r] \in Unborn => sessions[r].phase = "none"
    BY DEF PreviewInv, LedgerFits, StartFits
  <2>2. CASE r = s
    <3>1. Passing(sessions[r], x)
      BY <1>5, <1>9, <1>10, <2>2 DEF Passing, Live, Present
    <3>2. SessionFits(x, tombs[r])
      BY <1>5, <1>9, <2>1, <2>2 DEF SessionFits, Present, HoldsSource
    <3> QED
      BY <1>5, <1>6, <1>11, <2>1, <2>2, <3>1, <3>2
  <2>3. CASE r # s
    BY <1>6, <2>1, <2>3 DEF Passing
  <2> QED
    BY <2>2, <2>3
<1>13. reserved' <=> (reserved /\ ~\E r \in {s} : sessions[r].held)
  BY <1>1 DEF StillReserved
<1>14. Reserve(sessions', starts, reserved')
  <2>1. \A r \in {s} : starts[r] # "reserved"
    BY <1>11 DEF Unborn
  <2>2. {s} \in SUBSET Previews
    OBVIOUS
  <2> QED
    BY <1>12, <1>13, <2>1, <2>2, ReserveLeft
<1>15. LedgerTypes'
  <2>1. reserved' \in BOOLEAN
    BY DEF StillReserved, PreviewInv, PreviewTypes, LedgerTypes
  <2> QED
    BY <1>6, <2>1 DEF PreviewInv, PreviewTypes, LedgerTypes
<1>16. \A id \in stored' : OwnedAfter(id)
  <2> TAKE id \in stored'
  <2>1. id \in stored /\ id[1] \in Previews
    BY StageOwners DEF PreviewInv, PreviewTypes
  <2> QED
    BY <1>12, <2>1 DEF PreviewInv, StoredFits, StagesAreOwned, OwnedAfter
<1>17. LedgerFits'
  BY <1>7, <1>12 DEF LedgerFits
<1>18. LedgerStep
  BY <1>12, <1>14, <1>15, <1>16, <1>17 DEF LedgerStep
<1>19. Unstarted /\ ClientGoesOn /\ Founded("releasing") /\ ~sessions'[job.s].lost
  BY <1>1, <1>5, <1>6, <1>7, <1>10 DEF Unstarted, ClientGoesOn, Founded, AtPlaces, NeedsPresent, Present
<1> QED
  BY <1>7, <1>8, <1>18, <1>19, Goes

\* The job takes its session out of service, and ends.
LEMMA InvalidatesAndEnds ==
    ASSUME PreviewInv, job.kind \in {"publish", "choose", "stop"}, Present(sessions[job.s]),
           NEW told, NEW kept \in {{}, StageIds}, Invalidates(sessions, {job.s}, told, kept),
           ClientGoesOn, Finishes, Outside, UNCHANGED <<ops, starts>>
    PROVE  PreviewInv' /\ LossIsFinal
<1>1. job.kind \in Kinds /\ ~IsLoss(job) /\ job.kind \notin TabNews
  BY DEF Kinds, IsLoss, TabNews
<1>2. PICK s \in Previews : s = job.s
  BY <1>1, JobIsFit DEF JobFits
<1>3. BrowserTypes' /\ UNCHANGED <<epoch, exporting, begun>>
  BY OutsideMeans
<1>4. LedgerStep
  BY <1>2, <1>3, InvalidatesOne
<1> QED
  BY <1>1, <1>3, <1>4, PlainEnd DEF Unstarted

LEMMA PublishKeeps == ASSUME PreviewInv, Publish PROVE PreviewInv' /\ LossIsFinal
<1>1. /\ job.kind = "publish" /\ job.kind \in Listened /\ job.kind \in Kinds
      /\ \A at \in {"tab", "tab-again", "cleaning", "tab-at-last"} :
            <<job.kind, at>> \notin NeedsPresent /\ at \in AtPlaces \ {"waiting"}
      /\ "failing" \in ClientPlaces \ {"claiming"} /\ "idle" \in ClientPlaces \ {"claiming"}
  BY DEF Publish, At, Listened, Kinds, NeedsPresent, AtPlaces, ClientPlaces
<1>2. CASE BeginsAt(/\ PhaseCurrent(job.s, {"capturing"})
                    /\ OwnsSource(job.s, job.doc) /\ SourceGenerationCurrent(job.s), "tab")
  <2>1. PICK check \in BOOLEAN : check = (/\ PhaseCurrent(job.s, {"capturing"})
                                          /\ OwnsSource(job.s, job.doc) /\ SourceGenerationCurrent(job.s))
    OBVIOUS
  <2>2. check => ~sessions[job.s].lost
    BY <1>1, <2>1, PublisherIsNotLost DEF PhaseCurrent, Live, Present
  <2> QED
    BY <1>1, <1>2, <2>1, <2>2, BeginsAtWell
<1>3. ASSUME NEW seen, NEW at \in {"tab-again", "cleaning"}, job.at # "begun",
             Continues(StillCurrent(seen, {"capturing"}), at)
      PROVE  PreviewInv' /\ LossIsFinal
  <2>1. PICK check \in BOOLEAN : check = StillCurrent(seen, {"capturing"})
    BY DEF StillCurrent
  <2> QED
    BY <1>1, <1>3, <2>1, ContinuesWell
<1>4. ASSUME Tells("failing"), Finishes, UNCHANGED <<ledger, ops>>, Outside PROVE PreviewInv' /\ LossIsFinal
  <2>1. LedgerStep
    BY <1>4, LedgerRests DEF Outside
  <2> QED
    BY <1>1, <1>4, <2>1, AnswerKeeps
<1>5. ASSUME job.at = "cleaning",
             NEW kept \in {{}, StageIds},
             sessions' = [sessions EXCEPT ![job.s].stages = @ \cap kept],
             stored' = stored \ (sessions[job.s].stages \ kept),
             GoesTo("cleaned"), Outside, UNCHANGED <<ops, tombs, reserved, cancels, client, starts>>
      PROVE  PreviewInv' /\ LossIsFinal
  BY <1>1, <1>5, PublishCleans
<1>6. ASSUME job.at = "cleaned",
             Continues(PhaseCurrent(job.s, {"capturing"}) /\ job.gen = epoch[SourceTab], "tab-at-last")
      PROVE  PreviewInv' /\ LossIsFinal
  <2>1. PICK check \in BOOLEAN : check = (PhaseCurrent(job.s, {"capturing"}) /\ job.gen = epoch[SourceTab])
    OBVIOUS
  <2> QED
    BY <1>1, <1>6, <2>1, ContinuesWell
<1>7. ASSUME job.at = "tab-at-last", NEW seen, StillCurrent(seen, {"capturing"}),
             sessions' = [sessions EXCEPT ![job.s].phase = "ready",
                                          ![job.s].over = sessions[job.s].leaseOver,
                                          ![job.s].held = FALSE],
             reserved' = StillReserved(sessions, {job.s}),
             GoesTo("releasing"), UNCHANGED <<tombs, stored, cancels, client, starts>>, Peaceful
      PROVE  PreviewInv' /\ LossIsFinal
  BY <1>1, <1>7, PublishReleases
<1>8. ASSUME Refuses PROVE PreviewInv' /\ LossIsFinal
  BY <1>1, <1>8, RefusesWell
<1>9. ASSUME Tells("idle"), Finishes, UNCHANGED ledger, Peaceful PROVE PreviewInv' /\ LossIsFinal
  <2>1. LedgerStep
    BY <1>9, LedgerRests DEF Peaceful, Outside
  <2> QED
    BY <1>1, <1>9, <2>1, AnswerKeeps DEF Peaceful
<1>10. ASSUME job.at = "releasing", NEW kept \in {{}, StageIds}, Invalidates(sessions, {job.s}, {}, kept),
              Tells("failing"), Finishes, Outside, UNCHANGED ops
       PROVE  PreviewInv' /\ LossIsFinal
  <2>1. holder # NoJob /\ holder = job
    BY <1>1, <1>10, JobIsFit
  <2>2. Present(sessions[job.s])
    BY <1>1, <1>10, <2>1 DEF PreviewInv, HolderFits, NeedsPresent
  <2>3. ClientGoesOn /\ starts' = starts
    BY <1>1, <1>10, TellsWell
  <2>4. PICK told : told = {}
    OBVIOUS
  <2>5. Invalidates(sessions, {job.s}, told, kept)
    BY <1>10, <2>4
  <2> QED
    BY <1>1, <1>10, <2>2, <2>3, <2>5, InvalidatesAndEnds
<1>11. CASE At("publish", "begun") /\
            BeginsAt(/\ PhaseCurrent(job.s, {"capturing"})
                     /\ OwnsSource(job.s, job.doc) /\ SourceGenerationCurrent(job.s), "tab")
  BY <1>2, <1>11
<1>12. CASE At("publish", "tab") /\ \E seen \in Answers : Continues(StillCurrent(seen, {"capturing"}), "tab-again")
  BY <1>3, <1>12 DEF At
<1>13. CASE At("publish", "tab-again") /\ \E seen \in Answers : Continues(StillCurrent(seen, {"capturing"}), "cleaning")
  BY <1>3, <1>13 DEF At
<1>14. CASE /\ At("publish", "cleaning")
            /\ \E kept \in {{}, StageIds} :
                 /\ AbortsSome(kept)
                 /\ sessions' = [sessions EXCEPT ![job.s].stages = @ \cap kept]
                 /\ stored' = stored \ (sessions[job.s].stages \ kept)
            /\ GoesTo("cleaned")
            /\ Outside /\ UNCHANGED <<ops, tombs, reserved, cancels, client, starts>>
  BY <1>5, <1>14 DEF At
<1>15. CASE /\ At("publish", "cleaned")
            /\ Continues(PhaseCurrent(job.s, {"capturing"}) /\ job.gen = epoch[SourceTab], "tab-at-last")
  BY <1>6, <1>15 DEF At
<1>16. CASE /\ At("publish", "tab-at-last")
            /\ \E seen \in Answers :
               IF StillCurrent(seen, {"capturing"})
               THEN /\ sessions' = [sessions EXCEPT ![job.s].phase = "ready",
                                                    ![job.s].over = sessions[job.s].leaseOver,
                                                    ![job.s].held = FALSE]
                    /\ reserved' = StillReserved(sessions, {job.s})
                    /\ GoesTo("releasing")
                    /\ UNCHANGED <<tombs, stored, cancels, client, starts>> /\ Peaceful
               ELSE Refuses
  BY <1>7, <1>8, <1>16 DEF At
<1>17. CASE /\ At("publish", "releasing")
            /\ IF PhaseCurrent(job.s, {"ready"}) /\ job.gen = epoch[SourceTab]
               THEN /\ Tells("idle") /\ Finishes /\ UNCHANGED ledger /\ Peaceful
               ELSE /\ \E kept \in {{}, StageIds} :
                         AbortsSome(kept) /\ Invalidates(sessions, {job.s}, {}, kept)
                    /\ Tells("failing") /\ Finishes /\ Outside /\ UNCHANGED ops
  BY <1>9, <1>10, <1>17 DEF At
<1>18. CASE /\ At("publish", "tab") /\ Costs("failed-capture")
            /\ Tells("failing") /\ Finishes /\ UNCHANGED <<ledger, ops>> /\ Outside
  BY <1>4, <1>18
<1> QED
  BY <1>11, <1>12, <1>13, <1>14, <1>15, <1>16, <1>17, <1>18 DEF Publish
-----------------------------------------------------------------------------
(* The popup's choice, and the preview window.                             *)

LEMMA ChoosingGoesOn ==
    ASSUME PreviewInv, job.kind = "choose", job.at # "begun", NEW seen,
           StillCurrent(seen, {"awaiting-selection"}),
           Changes(job.s, [sessions[job.s] EXCEPT !.phase = "capturing"]),
           GoesTo("applying"), UNCHANGED <<client, starts>>, Peaceful
    PROVE  PreviewInv' /\ LossIsFinal
<1>1. job.kind \in Kinds
  BY DEF Kinds
<1>2. PICK s \in Previews : s = job.s
  BY <1>1, JobIsFit DEF JobFits, TabNews
<1>3. PICK x : x = [sessions[s] EXCEPT !.phase = "capturing"]
  OBVIOUS
<1>4. /\ x \in Sessions /\ x.phase = "capturing" /\ x.doc = sessions[s].doc /\ x.gen = sessions[s].gen
      /\ x.held = sessions[s].held /\ x.stages = sessions[s].stages /\ x.lost = sessions[s].lost
  BY <1>3, SessionIsTyped DEF Sessions, Phases
<1>5. sessions[s].phase = "awaiting-selection" /\ Changes(s, x)
  BY <1>2, <1>3 DEF StillCurrent, PhaseCurrent
<1>6. BrowserTypes' /\ UNCHANGED <<epoch, exporting, begun, ops>>
  BY OutsideMeans DEF Peaceful
<1>7. LedgerStep /\ sessions'[s] = x
  BY <1>4, <1>5, <1>6, MovedOn DEF Present, HoldsSource
<1>8. Unstarted /\ ClientGoesOn /\ Founded("applying")
  BY <1>2, <1>4, <1>6, <1>7 DEF Unstarted, ClientGoesOn, Founded, AtPlaces, Present
<1> QED
  BY <1>1, <1>6, <1>7, <1>8, Goes

LEMMA ChooseKeeps == ASSUME PreviewInv, Choose PROVE PreviewInv' /\ LossIsFinal
<1>1. /\ job.kind = "choose" /\ job.kind \in Listened /\ job.kind \in Kinds
      /\ \A at \in {"tab", "validating", "tab-again"} :
            <<job.kind, at>> \notin NeedsPresent /\ at \in AtPlaces \ {"waiting"}
      /\ "tab-at-last" \in AtPlaces \ {"waiting"}
  BY DEF Choose, At, Listened, Kinds, NeedsPresent, AtPlaces
<1>2. ASSUME At("choose", "begun"),
             BeginsAt(PhaseCurrent(job.s, {"awaiting-selection"}) /\ SourceGenerationCurrent(job.s), "tab")
      PROVE  PreviewInv' /\ LossIsFinal
  <2>1. PICK check \in BOOLEAN :
            check = (PhaseCurrent(job.s, {"awaiting-selection"}) /\ SourceGenerationCurrent(job.s))
    OBVIOUS
  <2> QED
    BY <1>1, <1>2, <2>1, BeginsAtWell
<1>3. ASSUME NEW seen, Continues(StillCurrent(seen, {"awaiting-selection"}), "validating")
      PROVE  PreviewInv' /\ LossIsFinal
  <2>1. PICK check \in BOOLEAN : check = StillCurrent(seen, {"awaiting-selection"})
    BY DEF StillCurrent
  <2> QED
    BY <1>1, <1>3, <2>1, ContinuesWell
<1>4. CASE Continues(/\ job.seen = "accepted" /\ job.gen = epoch[SourceTab]
                     /\ PhaseCurrent(job.s, {"awaiting-selection"}), "tab-again")
  <2>1. PICK check \in BOOLEAN : check = (/\ job.seen = "accepted" /\ job.gen = epoch[SourceTab]
                                          /\ PhaseCurrent(job.s, {"awaiting-selection"}))
    OBVIOUS
  <2> QED
    BY <1>1, <1>4, <2>1, ContinuesWell
<1>5. ASSUME Refuses PROVE PreviewInv' /\ LossIsFinal
  BY <1>1, <1>5, RefusesWell
<1>6. ASSUME job.at \in {"applying", "tab-at-last"}, InvalidatesChoice PROVE PreviewInv' /\ LossIsFinal
  <2>1. holder # NoJob /\ holder = job
    BY <1>1, <1>6, JobIsFit
  <2>2. Present(sessions[job.s])
    BY <1>1, <1>6, <2>1 DEF PreviewInv, HolderFits, NeedsPresent
  <2>3. Finishes /\ Outside /\ UNCHANGED <<ops, client, starts>>
    BY <1>6 DEF InvalidatesChoice
  <2>4. PICK kept \in {{}, StageIds} : Invalidates(sessions, {job.s}, {job.s}, kept)
    BY <1>6 DEF InvalidatesChoice
  <2>5. ClientGoesOn
    BY <2>3 DEF ClientGoesOn
  <2>6. PICK told : told = {job.s}
    OBVIOUS
  <2>7. Invalidates(sessions, {job.s}, told, kept)
    BY <2>4, <2>6
  <2> QED
    BY <1>1, <2>2, <2>3, <2>5, <2>7, InvalidatesAndEnds
<1>7. ASSUME PhaseCurrent(job.s, {"capturing"}), GoesTo("tab-at-last"),
             UNCHANGED <<ledger, client, starts>>, Peaceful
      PROVE  PreviewInv' /\ LossIsFinal
  <2>1. Unstarted /\ BrowserTypes' /\ LedgerStep /\ ClientGoesOn /\ sessions' = sessions
    BY <1>7, RestsMeans
  <2>2. Founded("tab-at-last")
    BY <1>1, <1>7, <2>1 DEF Founded, PhaseCurrent, Present
  <2> QED
    BY <1>1, <1>7, <2>1, <2>2, Goes
<1>8. ASSUME Finishes, UNCHANGED <<ledger, client, starts>>, Peaceful
      PROVE  PreviewInv' /\ LossIsFinal
  <2>1. Unstarted /\ BrowserTypes' /\ LedgerStep /\ ClientGoesOn
    BY <1>8, RestsMeans
  <2>2. ~IsLoss(job)
    BY <1>1 DEF IsLoss
  <2> QED
    BY <1>1, <1>8, <2>1, <2>2, PlainEnd
<1>9. CASE At("choose", "tab") /\ \E seen \in Answers : Continues(StillCurrent(seen, {"awaiting-selection"}), "validating")
  BY <1>3, <1>9
<1>10. CASE /\ At("choose", "tab-again")
            /\ \E seen \in Answers :
               IF StillCurrent(seen, {"awaiting-selection"})
               THEN /\ Changes(job.s, [sessions[job.s] EXCEPT !.phase = "capturing"])
                    /\ GoesTo("applying") /\ UNCHANGED <<client, starts>> /\ Peaceful
               ELSE Refuses
  BY <1>1, <1>5, <1>10, ChoosingGoesOn DEF At
<1>11. CASE /\ At("choose", "applying") /\ Answered
            /\ IF /\ job.seen = "accepted" /\ job.gen = epoch[SourceTab]
                  /\ PhaseCurrent(job.s, {"capturing"})
               THEN GoesTo("tab-at-last") /\ UNCHANGED <<ledger, client, starts>> /\ Peaceful
               ELSE InvalidatesChoice
  BY <1>6, <1>7, <1>11 DEF At
<1>12. CASE /\ At("choose", "tab-at-last")
            /\ \E seen \in Answers :
               IF StillCurrent(seen, {"capturing"}) /\ SourceGenerationCurrent(job.s)
               THEN Finishes /\ UNCHANGED <<ledger, client, starts>> /\ Peaceful
               ELSE InvalidatesChoice
  BY <1>6, <1>8, <1>12 DEF At
<1>13. CASE /\ At("choose", "validating") /\ Answered
            /\ Continues(/\ job.seen = "accepted" /\ job.gen = epoch[SourceTab]
                         /\ PhaseCurrent(job.s, {"awaiting-selection"}), "tab-again")
  BY <1>4, <1>13
<1>14. CASE /\ At("choose", "begun")
            /\ BeginsAt(PhaseCurrent(job.s, {"awaiting-selection"}) /\ SourceGenerationCurrent(job.s), "tab")
  BY <1>2, <1>14
<1> QED
  BY <1>9, <1>10, <1>11, <1>12, <1>13, <1>14 DEF Choose

LEMMA DocumentAnswersKeeps == ASSUME PreviewInv, DocumentAnswers PROVE PreviewInv' /\ LossIsFinal
<1>1. job.kind = "choose" /\ job.kind \in Kinds /\ job.at \in {"validating", "applying"}
  BY DEF DocumentAnswers, AsksDocument, Kinds
<1>2. job \in Jobs /\ holder # NoJob /\ holder = job
  BY <1>1, JobIsFit
<1>3. PICK seen \in {"accepted", "refused"} : holder' = [job EXCEPT !.seen = seen]
  BY DEF DocumentAnswers
<1>4. /\ holder' \in Jobs /\ holder'.kind = job.kind /\ holder'.s = job.s /\ holder'.doc = job.doc
      /\ holder'.at = job.at /\ queue' = StillWaiting
  <2>1. queue' = queue
    BY DEF DocumentAnswers
  <2> QED
    BY <1>2, <1>3, <2>1 DEF Jobs, StillWaiting
<1>5. UNCHANGED <<ledger, starts, ops>> /\ Outside
  BY DEF DocumentAnswers, Peaceful
<1>6. BrowserTypes' /\ UNCHANGED <<epoch, exporting, begun>>
  BY <1>5, OutsideMeans
<1>7. LedgerStep /\ sessions' = sessions
  BY <1>5, <1>6, LedgerRests
<1>8. ClientGoesOn
  <2>1. \/ client' = client
        \/ client.step = "choosing" /\ client' = [client EXCEPT !.step = "running", !.chosen = TRUE]
    BY DEF DocumentAnswers
  <2>2. CASE client' = client
    BY <1>5, <2>2 DEF ClientGoesOn
  <2>3. CASE client.step = "choosing" /\ client' = [client EXCEPT !.step = "running", !.chosen = TRUE]
    <3>1. client \in Clients
      BY DEF PreviewInv, PreviewTypes, ClientTypes
    <3>2. client' \in Clients /\ client'.s = client.s /\ client'.step = "running" /\ client'.holds = client.holds
      BY <2>3, <3>1 DEF Clients, ClientPlaces
    <3> QED
      BY <2>3, <3>2 DEF ClientGoesOn
  <2> QED
    BY <2>1, <2>2, <2>3
<1>9. HolderFits'
  BY <1>1, <1>2, <1>4, <1>7 DEF PreviewInv, HolderFits
<1> QED
  BY <1>1, <1>4, <1>5, <1>6, <1>7, <1>8, <1>9, JobGoes DEF Unstarted

\* The document of the page is pinned, and nothing else.
LEMMA PinnedIsAlike ==
    ASSUME PreviewInv, NEW s \in Previews, NEW d \in Nat
    PROVE  Alike(sessions[s], Pinned(s, d)) /\ Pinned(s, d).over = sessions[s].over
           /\ Pinned(s, d).leaseOver = sessions[s].leaseOver
<1>1. sessions[s] \in Sessions
  BY SessionIsTyped
<1>2. CASE IsPage(s, d)
  <2>1. Pinned(s, d) = [sessions[s] EXCEPT !.reader = d]
    BY <1>2 DEF Pinned
  <2> QED
    BY <1>1, <2>1 DEF Sessions, Alike
<1>3. CASE ~IsPage(s, d)
  BY <1>1, <1>3 DEF Pinned, Alike
<1> QED
  BY <1>2, <1>3

LEMMA AlikeLedger ==
    ASSUME PreviewInv, NEW s \in Previews, NEW x, Alike(sessions[s], x), Changes(s, x), epoch' = epoch
    PROVE  LedgerStep
<1>1. sessions[s] \in Sessions /\ SessionFits(sessions[s], tombs[s]) /\ sessions[s].gen <= epoch[SourceTab]
      /\ (starts[s] \in Unborn => sessions[s].phase = "none")
  BY SessionIsTyped DEF PreviewInv, LedgerFits, StartFits
<1>2. x \in Sessions /\ Passing(sessions[s], x) /\ SessionFits(x, tombs[s]) /\ x.held = sessions[s].held
      /\ x.stages = sessions[s].stages /\ x.gen = sessions[s].gen /\ x.phase = sessions[s].phase
  BY <1>1, AlikePasses DEF Alike
<1> QED
  BY <1>1, <1>2, ChangedLedger

\* What the window shows, and the rest of what the page's requests touch.
LEMMA ShownMeans ==
    ASSUME PreviewInv, NEW waiting, NEW step \in ViewPlaces, Shows(waiting, step), OnlyViews
    PROVE  BrowserTypes' /\ Unstarted /\ ClientGoesOn
<1>1. views \in [Previews -> Views]
  BY DEF PreviewInv, PreviewTypes, BrowserTypes
<1>2. UNCHANGED <<epoch, revision, source, news, ops, starts, client, exporting, begun>>
  BY DEF OnlyViews, bounds
<1>3. views' \in [Previews -> Views]
  <2>1. PICK v : v = IF views[job.s].at = "open" /\ views[job.s].doc = job.doc /\ views[job.s].step \in waiting
                     THEN [views[job.s] EXCEPT !.step = step] ELSE views[job.s]
    OBVIOUS
  <2>2. views' = [views EXCEPT ![job.s] = v]
    BY <2>1 DEF Shows
  <2>3. job.s \in Previews => v \in Views
    BY <1>1, <2>1 DEF Views
  <2> QED
    BY <1>1, <2>2, <2>3
<1>4. BrowserTypes'
  BY <1>2, <1>3 DEF PreviewInv, PreviewTypes, BrowserTypes
<1> QED
  BY <1>2, <1>4 DEF Unstarted, ClientGoesOn

LEMMA PageJob ==
    ASSUME PreviewInv, job.kind \in {"status", "take", "ack", "close"}
    PROVE  job \in Jobs /\ job.kind \in Kinds /\ job.s \in Previews /\ job.doc \in Nat /\ ~IsLoss(job)
<1>1. job.kind \in Kinds /\ ~IsLoss(job) /\ job.kind \notin TabNews
  BY DEF Kinds, IsLoss, TabNews
<1> QED
  BY <1>1, JobIsFit DEF JobFits, Jobs

LEMMA StatusKeeps == ASSUME PreviewInv, Status PROVE PreviewInv' /\ LossIsFinal
<1>1. job.kind = "status" /\ Finishes /\ OnlyViews /\ Changes(job.s, Pinned(job.s, job.doc))
  BY DEF Status, At
<1>2. PICK step \in ViewPlaces : \E waiting : Shows(waiting, step)
  <2>1. \A phase : StepAfter(views[job.s].step, phase) \in {"idle", "offered", "showing", "erased"}
    BY DEF StepAfter
  <2>2. \A phase : StepAfter(views[job.s].step, phase) \in ViewPlaces
    BY <2>1 DEF ViewPlaces
  <2>3. \E waiting, phase : Shows(waiting, StepAfter(views[job.s].step, phase))
    BY DEF Status
  <2> QED
    BY <2>2, <2>3
<1>3. BrowserTypes' /\ Unstarted /\ ClientGoesOn
  BY <1>1, <1>2, ShownMeans
<1>4. job.kind \in Kinds /\ job.s \in Previews /\ job.doc \in Nat /\ ~IsLoss(job)
  BY <1>1, PageJob
<1>5. LedgerStep
  <2>1. PICK s \in Previews, d \in Nat : s = job.s /\ d = job.doc
    BY <1>4
  <2>2. PICK x : x = Pinned(s, d)
    OBVIOUS
  <2>3. Alike(sessions[s], x) /\ Changes(s, x)
    BY <1>1, <2>1, <2>2, PinnedIsAlike
  <2> QED
    BY <1>3, <2>3, AlikeLedger DEF Unstarted
<1> QED
  BY <1>1, <1>3, <1>4, <1>5, PlainEnd

\* The page takes what is ready, or acknowledges what it took.
LEMMA HandedOver ==
    ASSUME PreviewInv, NEW s \in Previews, NEW d \in Nat, NEW phase \in {"taken", "delivered"}, NEW over \in BOOLEAN,
           Changes(s, [Pinned(s, d) EXCEPT !.phase = phase, !.over = over]), epoch' = epoch,
           sessions[s].phase \in {"ready", "taken", "delivered"}
    PROVE  LedgerStep
<1>1. PICK p \in Sessions : p = Pinned(s, d)
  BY PinnedIsAlike DEF Alike
<1>2. Alike(sessions[s], p)
  BY <1>1, PinnedIsAlike
<1>3. PICK x : x = [p EXCEPT !.phase = phase, !.over = over]
  OBVIOUS
<1>4. /\ x \in Sessions /\ x.phase = phase /\ x.doc = p.doc /\ x.gen = p.gen /\ x.held = p.held
      /\ x.stages = p.stages /\ x.lost = p.lost
  BY <1>1, <1>3 DEF Sessions, Phases
<1>5. Changes(s, x)
  BY <1>1, <1>3
<1>6. Present(x) /\ Present(sessions[s]) /\ ~HoldsSource(x) /\ x.phase # "ready" /\ x.phase # "pending"
      /\ sessions[s].phase # "invalidated"
  BY <1>4 DEF Present, HoldsSource
<1> QED
  BY <1>2, <1>4, <1>5, <1>6, MovedOn DEF Alike

LEMMA TakeKeeps == ASSUME PreviewInv, Take PROVE PreviewInv' /\ LossIsFinal
<1>1. job.kind = "take" /\ Finishes /\ OnlyViews
  BY DEF Take, At
<1>2. job.kind \in Kinds /\ job.s \in Previews /\ job.doc \in Nat /\ ~IsLoss(job)
  BY <1>1, PageJob
<1>3. PICK s \in Previews, d \in Nat : s = job.s /\ d = job.doc
  BY <1>2
<1>4. "taken" \in ViewPlaces /\ "erased" \in ViewPlaces /\ sessions[s].leaseOver \in BOOLEAN /\ epoch' = epoch
  BY <1>1, SessionIsTyped DEF ViewPlaces, Sessions, OnlyViews
<1>5. CASE MayBeTaken(sessions[s]) /\ Shows({"taking"}, "taken")
           /\ Changes(s, [Pinned(s, d) EXCEPT !.phase = "taken", !.over = sessions[s].leaseOver])
  <2>1. LedgerStep
    BY <1>4, <1>5, HandedOver DEF MayBeTaken
  <2>2. BrowserTypes' /\ Unstarted /\ ClientGoesOn
    BY <1>1, <1>4, <1>5, ShownMeans
  <2> QED
    BY <1>1, <1>2, <2>1, <2>2, PlainEnd
<1>6. CASE Shows({"taking"}, "erased") /\ Changes(s, Pinned(s, d))
  <2>1. PICK x : x = Pinned(s, d)
    OBVIOUS
  <2>2. LedgerStep
    BY <1>4, <1>6, <2>1, PinnedIsAlike, AlikeLedger
  <2>3. BrowserTypes' /\ Unstarted /\ ClientGoesOn
    BY <1>1, <1>4, <1>6, ShownMeans
  <2> QED
    BY <1>1, <1>2, <2>2, <2>3, PlainEnd
<1> QED
  BY <1>3, <1>5, <1>6 DEF Take

LEMMA AckKeeps == ASSUME PreviewInv, Ack PROVE PreviewInv' /\ LossIsFinal
<1>1. job.kind = "ack" /\ Finishes /\ OnlyViews
  BY DEF Ack, At
<1>2. job.kind \in Kinds /\ job.s \in Previews /\ job.doc \in Nat /\ ~IsLoss(job)
  BY <1>1, PageJob
<1>3. PICK s \in Previews, d \in Nat : s = job.s /\ d = job.doc
  BY <1>2
<1>4. "showing" \in ViewPlaces /\ "erased" \in ViewPlaces /\ epoch' = epoch
      /\ sessions[s].leaseOver \in BOOLEAN /\ sessions[s].over \in BOOLEAN
  BY <1>1, SessionIsTyped DEF ViewPlaces, Sessions, OnlyViews
<1>5. PICK p \in Sessions : p = Pinned(s, d) /\ p.over = sessions[s].over
  BY PinnedIsAlike DEF Alike
<1>6. PICK over \in BOOLEAN : over = IF sessions[s].phase = "taken" THEN sessions[s].leaseOver ELSE p.over
  BY <1>4, <1>5
<1>7. CASE /\ sessions[s].phase \in {"taken", "delivered"} /\ Shows({"acking"}, "showing")
           /\ Changes(s, [p EXCEPT !.phase = "delivered", !.over = over])
  <2>1. Changes(s, [Pinned(s, d) EXCEPT !.phase = "delivered", !.over = over])
    BY <1>5, <1>7
  <2>2. LedgerStep
    BY <1>4, <1>7, <2>1, HandedOver
  <2>3. BrowserTypes' /\ Unstarted /\ ClientGoesOn
    BY <1>1, <1>4, <1>7, ShownMeans
  <2> QED
    BY <1>1, <1>2, <2>2, <2>3, PlainEnd
<1>8. CASE Shows({"acking"}, "erased") /\ Changes(s, Pinned(s, d))
  <2>1. PICK x : x = Pinned(s, d)
    OBVIOUS
  <2>2. LedgerStep
    BY <1>4, <1>8, <2>1, PinnedIsAlike, AlikeLedger
  <2>3. BrowserTypes' /\ Unstarted /\ ClientGoesOn
    BY <1>1, <1>4, <1>8, ShownMeans
  <2> QED
    BY <1>1, <1>2, <2>2, <2>3, PlainEnd
<1>9. \/ /\ sessions[s].phase \in {"taken", "delivered"} /\ Shows({"acking"}, "showing")
         /\ Changes(s, [p EXCEPT !.phase = "delivered", !.over = over])
      \/ Shows({"acking"}, "erased") /\ Changes(s, Pinned(s, d))
  BY <1>3, <1>5, <1>6 DEF Ack, Sessions
<1> QED
  BY <1>7, <1>8, <1>9

LEMMA InvalidateKeeps == ASSUME PreviewInv, Invalidate PROVE PreviewInv' /\ LossIsFinal
<1>1. Finishes /\ Outside /\ UNCHANGED ops /\ job.kind \in {"close", "stop"}
  BY DEF Invalidate, At
<1>2. job.kind \in Kinds /\ ~IsLoss(job) /\ job \in Jobs /\ job.s \in Previews
  BY <1>1, JobIsFit DEF Kinds, IsLoss, JobFits, TabNews
<1>3. BrowserTypes' /\ UNCHANGED <<epoch, exporting, begun>>
  BY <1>1, OutsideMeans
<1>4. ASSUME NEW kept \in {{}, StageIds}, At("close", "begun"), UNCHANGED <<starts, client>>,
             IF IsPage(job.s, job.doc)
             THEN AbortsSome(kept) /\ Invalidates([sessions EXCEPT ![job.s] = Pinned(job.s, job.doc)],
                                                  {job.s}, {job.s}, kept)
             ELSE kept = {} /\ UNCHANGED <<ledger, allowance>>
      PROVE  PreviewInv' /\ LossIsFinal
  <2>1. ClientGoesOn /\ Unstarted
    BY <1>1, <1>3, <1>4 DEF ClientGoesOn, Unstarted
  <2>2. CASE ~IsPage(job.s, job.doc)
    <3>1. LedgerStep
      BY <1>3, <1>4, <2>2, LedgerRests
    <3> QED
      BY <1>1, <1>2, <1>3, <2>1, <3>1, PlainEnd
  <2>3. CASE IsPage(job.s, job.doc)
    <3>1. PICK s \in Previews, d \in Nat : s = job.s /\ d = job.doc
      BY <1>2 DEF Jobs
    <3>2. PICK x : x = Pinned(s, d)
      OBVIOUS
    <3>3. PICK base : base = [sessions EXCEPT ![s] = x]
      OBVIOUS
    <3>4. Alike(sessions[s], x)
      BY <3>2, PinnedIsAlike
    <3>5. \A r \in Previews : Alike(sessions[r], base[r])
      <4> TAKE r \in Previews
      <4>1. CASE r = s
        BY <3>3, <3>4, <4>1, SessionIsTyped
      <4>2. CASE r # s
        BY <3>3, <4>2, SessionIsTyped DEF Alike
      <4> QED
        BY <4>1, <4>2
    <3>6. PICK one : one = {s}
      OBVIOUS
    <3>7. Invalidates(base, one, one, kept)
      BY <1>4, <2>3, <3>1, <3>2, <3>3, <3>6
    <3>8. one \in SUBSET Previews /\ \A r \in one : Present(sessions[r])
      BY <2>3, <3>1, <3>6 DEF IsPage
    <3>9. LedgerStep
      BY <1>3, <3>5, <3>7, <3>8, InvalidatesWell
    <3> QED
      BY <1>1, <1>2, <1>3, <2>1, <3>9, PlainEnd
  <2> QED
    BY <2>2, <2>3
<1>5. ASSUME NEW kept \in {{}, StageIds}, At("stop", "begun"), Tells("idle"),
             IF OwnsSource(job.s, job.doc) /\ Present(sessions[job.s])
             THEN AbortsSome(kept) /\ Invalidates(sessions, {job.s}, {}, kept)
             ELSE kept = {} /\ UNCHANGED <<ledger, allowance>>
      PROVE  PreviewInv' /\ LossIsFinal
  <2>1. job.kind = "stop" /\ "idle" \in ClientPlaces \ {"claiming"}
    BY <1>5 DEF At, ClientPlaces
  <2>2. ClientGoesOn /\ starts' = starts
    BY <1>5, <2>1, TellsWell
  <2>3. CASE OwnsSource(job.s, job.doc) /\ Present(sessions[job.s])
    <3>1. PICK told : told = {}
      OBVIOUS
    <3>2. Invalidates(sessions, {job.s}, told, kept)
      BY <1>5, <2>3, <3>1
    <3> QED
      BY <1>1, <2>1, <2>2, <2>3, <3>2, InvalidatesAndEnds
  <2>4. CASE ~(OwnsSource(job.s, job.doc) /\ Present(sessions[job.s]))
    <3>1. LedgerStep
      BY <1>3, <1>5, <2>4, LedgerRests
    <3> QED
      BY <1>1, <1>2, <1>3, <2>2, <3>1, PlainEnd DEF Unstarted
  <2> QED
    BY <2>3, <2>4
<1>6. CASE \E kept \in {{}, StageIds} :
            /\ At("close", "begun")
            /\ IF IsPage(job.s, job.doc)
               THEN AbortsSome(kept) /\ Invalidates([sessions EXCEPT ![job.s] = Pinned(job.s, job.doc)],
                                                    {job.s}, {job.s}, kept)
               ELSE kept = {} /\ UNCHANGED <<ledger, allowance>>
            /\ Finishes /\ Outside /\ UNCHANGED <<ops, starts, client>>
  BY <1>4, <1>6
<1>7. CASE \E kept \in {{}, StageIds} :
            /\ At("stop", "begun")
            /\ IF OwnsSource(job.s, job.doc) /\ Present(sessions[job.s])
               THEN AbortsSome(kept) /\ Invalidates(sessions, {job.s}, {}, kept)
               ELSE kept = {} /\ UNCHANGED <<ledger, allowance>>
            /\ Tells("idle") /\ Finishes /\ Outside /\ UNCHANGED ops
  BY <1>5, <1>7
<1> QED
  BY <1>6, <1>7 DEF Invalidate

-----------------------------------------------------------------------------
(* The lock is given to the next, once what is overdue is out of the way.  *)

\* The tombstones that are left when the stages of each were tried once more.
LEMMA VisitedFits ==
    ASSUME NEW x \in Sessions, NEW t \in Tombs, NEW kept \in {{}, StageIds}, SessionFits(x, t)
    PROVE  /\ Visited(t, kept) \in Tombs /\ SessionFits(x, Visited(t, kept))
           /\ t.state = "expired" => Visited(t, kept).state = "expired"
           /\ kept = StageIds /\ Visited(t, kept).state # "expired" => t.stages \subseteq Visited(t, kept).stages
<1>1. CASE t.state = "over"
  <2>1. Visited(t, kept) = [state |-> "expired", stages |-> {}]
    BY <1>1 DEF Visited
  <2>2. t # NoTomb
    BY <1>1 DEF NoTomb
  <2> QED
    BY <1>1, <2>1, <2>2 DEF Tombs, SessionFits
<1>2. CASE t.state # "over"
  <2>1. PICK v : v = [t EXCEPT !.stages = t.stages \cap kept]
    OBVIOUS
  <2>2. Visited(t, kept) = v
    BY <1>2, <2>1 DEF Visited, Tombs
  <2>3. t.stages \cap kept \in SUBSET StageIds /\ t.stages \subseteq StageIds
    BY DEF Tombs
  <2>4. v \in Tombs /\ v.state = t.state /\ v.stages = t.stages \cap kept
    BY <2>1, <2>3 DEF Tombs
  <2>5. t = NoTomb => v = NoTomb
    <3>1. ASSUME t = NoTomb PROVE v = [state |-> "none", stages |-> {}]
      <4>1. t.stages \cap kept = {} /\ t.state = "none"
        BY <3>1 DEF NoTomb
      <4> QED
        BY <2>1, <4>1 DEF Tombs
    <3> QED
      BY <3>1 DEF NoTomb
  <2>6. SessionFits(x, v)
    BY <2>4, <2>5 DEF SessionFits
  <2> QED
    BY <2>2, <2>3, <2>4, <2>6
<1> QED
  BY <1>1, <1>2

LEMMA PruneLedger ==
    ASSUME PreviewInv, NEW kept \in {{}, StageIds}, Prune(kept)
    PROVE  LedgerStep
<1>1. PICK base : base = sessions
  OBVIOUS
<1>2. PICK graves : graves = [s \in Previews |-> Visited(tombs[s], kept)]
  OBVIOUS
<1>3. PICK late : late = {s \in Previews : Late(sessions[s])}
  OBVIOUS
<1>4. PICK gone : gone = {s \in Previews : Lapsed(sessions[s])}
  OBVIOUS
<1>5. TakesOut(base, graves, late, gone, late, kept) /\ epoch' = epoch
  BY <1>1, <1>2, <1>3, <1>4 DEF Prune
<1>6. ASSUME NEW s \in Previews
      PROVE  /\ Alike(sessions[s], base[s])
             /\ graves[s] \in Tombs /\ SessionFits(sessions[s], graves[s])
             /\ tombs[s].state = "expired" => graves[s].state = "expired"
             /\ kept = StageIds /\ graves[s].state # "expired" => tombs[s].stages \subseteq graves[s].stages
  <2>1. sessions[s] \in Sessions /\ tombs[s] \in Tombs /\ SessionFits(sessions[s], tombs[s])
    BY DEF PreviewInv, PreviewTypes, LedgerTypes, LedgerFits
  <2>2. graves[s] = Visited(tombs[s], kept)
    BY <1>2
  <2>3. PICK t \in Tombs : t = tombs[s]
    BY <2>1
  <2>4. Alike(sessions[s], base[s])
    BY <1>1, <2>1 DEF Alike
  <2> QED
    BY <2>1, <2>2, <2>3, <2>4, VisitedFits
<1>7. (\A s \in late : Present(sessions[s])) /\ (\A s \in gone : Present(sessions[s]))
  BY <1>3, <1>4 DEF Late, Lapsed
<1>8. MayTakeOut(base, graves, late, gone, kept)
  BY <1>3, <1>4, <1>6, <1>7 DEF MayTakeOut
<1> QED
  BY <1>5, <1>8, TakenOut

LEMMA PruneKeeps ==
    ASSUME PreviewInv, NEW kept \in {{}, StageIds}, Prune(kept)
    PROVE  PreviewInv' /\ LossIsFinal
<1>1. /\ holder = NoJob /\ queue # <<>> /\ holder' = [Head(queue) EXCEPT !.at = "begun"] /\ queue' = Tail(queue)
      /\ UNCHANGED <<epoch, revision, ops, starts, browserSide, client, exporting, begun>>
  BY DEF Prune
<1>2. LedgerStep
  BY PruneLedger
<1>3. PreviewTypes /\ LineFits /\ LedgerTypes' /\ LineTypes
  BY <1>2 DEF PreviewInv, PreviewTypes, LedgerStep
<1>4. BrowserTypes' /\ Unstarted /\ ClientGoesOn
  BY <1>1 DEF PreviewInv, PreviewTypes, BrowserTypes, Unstarted, browserSide, ClientGoesOn
<1>5. LedgerKept /\ SessionsPass /\ StartsStep(FALSE) /\ OpsStep(FALSE) /\ ClientStep
  BY <1>2, <1>4, UnstartedMeans
<1>6. epoch[SourceTab] <= epoch'[SourceTab] /\ BrowserTypes
  BY <1>1, <1>3, EpochsRest DEF PreviewTypes
<1>7. LossStep /\ JobsStay
  BY <1>4, <1>5, <1>6, LossFollows, JobsGoOn
<1>8. Len(queue) >= 1 /\ queue[1] \in Jobs /\ Head(queue) = queue[1]
  BY <1>1, <1>3 DEF LineTypes
<1>9. /\ holder' \in Jobs /\ holder'.kind = queue[1].kind /\ holder'.s = queue[1].s
      /\ holder'.doc = queue[1].doc /\ holder'.gen = queue[1].gen /\ holder'.at = "begun" /\ holder' # NoJob
  <2>1. PICK h \in Jobs : h = queue[1]
    BY <1>8
  <2>2. holder' = [h EXCEPT !.at = "begun"]
    BY <1>1, <1>8, <2>1
  <2>3. /\ holder' \in Jobs /\ holder'.kind = h.kind /\ holder'.s = h.s /\ holder'.doc = h.doc
        /\ holder'.gen = h.gen /\ holder'.at = "begun"
    BY <2>2 DEF Jobs, AtPlaces
  <2> QED
    BY <2>1, <2>3, NobodyIsNoJob
<1>10. LineTypes'
  BY <1>1, <1>3, <1>8, <1>9 DEF LineTypes
<1>11. LineSize' = LineSize
  BY <1>1, <1>3, <1>8, <1>9 DEF LineTypes, LineSize
<1>12. ASSUME NEW i \in 1 .. LineSize
       PROVE  /\ Line'[i].kind = Line[i].kind /\ Line'[i].s = Line[i].s
              /\ JobFits(Line[i])'
  <2>1. LineSize = Len(queue) /\ i \in Nat /\ Line[i] = queue[i]
    BY <1>1, <1>3, LineIsTyped DEF LineSize, Nth, LineTypes
  <2>2. Line'[i] = IF i = 1 THEN holder' ELSE queue'[i - 1]
    BY <1>9, <1>11 DEF Line, Nth
  <2>3. i # 1 => Line'[i] = queue[i]
    BY <1>1, <1>3, <1>8, <2>1, <2>2 DEF LineTypes
  <2>4. PICK m \in Jobs : m = Line[i]
    BY <1>3, LineIsTyped
  <2>5. JobFits(m)'
    <3>1. JobFits(m)
      BY <1>3, <2>4, LineMeans
    <3> QED
      BY <1>7, <3>1 DEF JobsStay
  <2>6. Line'[i].kind = m.kind /\ Line'[i].s = m.s /\ Line'[i].doc = m.doc /\ Line'[i].gen = m.gen
    BY <1>9, <2>1, <2>2, <2>3, <2>4
  <2> QED
    BY <2>4, <2>5, <2>6 DEF JobFits
<1>13. LineFits'
  BY <1>3, <1>4, <1>7, <1>10, <1>11, <1>12, SameLine
<1>14. HolderFits'
  BY <1>9 DEF HolderFits, NeedsPresent
<1>15. StartTypes' /\ OpTypes' /\ OpsFit'
  BY <1>5 DEF StartsStep, OpsStep
<1> QED
  BY <1>4, <1>5, <1>10, <1>13, <1>14, <1>15, PartsTogether, FinalFollows
-----------------------------------------------------------------------------
(* The jobs of a start.                                                    *)

LEMMA StartMoves ==
    ASSUME StartTypes, NEW ends \in BOOLEAN, NEW s \in Previews, NEW to \in StartPlaces \ Unborn,
           StartGoes(s, to),
           starts[s] \in Accepted => to \in Accepted,
           starts[s] \in {"ending", "failed"} => to \in {"ending", "failed"},
           starts[s] = "reserved" => Own(ends, "create", s),
           starts[s] = "registering" => Own(ends, "register", s)
    PROVE  /\ StartsStep(ends) /\ starts'[s] = to
           /\ \A r \in Previews : r # s => starts'[r] = starts[r]
<1>1. /\ starts' \in [Previews -> StartPlaces] /\ starts'[s] = to
      /\ \A r \in Previews : r # s => starts'[r] = starts[r]
  BY DEF StartTypes, StartGoes
<1>2. ASSUME NEW r \in Previews
      PROVE  /\ starts'[r] \in Unborn => starts[r] \in Unborn
             /\ starts[r] \in Accepted => starts'[r] \in Accepted
             /\ starts[r] \in {"ending", "failed"} => starts'[r] \in {"ending", "failed"}
             /\ starts[r] = "reserved" => starts'[r] = "reserved" \/ Own(ends, "create", r)
             /\ starts[r] = "registering" => starts'[r] = "registering" \/ Own(ends, "register", r)
  <2>1. CASE r = s
    BY <1>1, <2>1
  <2>2. CASE r # s
    BY <1>1, <2>2
  <2> QED
    BY <2>1, <2>2
<1> QED
  BY <1>1, <1>2 DEF StartsStep, StartTypes

\* The requests about stages are as they were.
LEMMA OpsRest ==
    ASSUME PreviewInv, NEW ends \in BOOLEAN, SessionsPass, StartsStep(ends),
           UNCHANGED <<ops, begun>>, stored' \subseteq stored
    PROVE  OpsStep(ends)
<1>1. DOMAIN ops' = Previews /\ ops' = [s \in Previews |-> ops'[s]] /\ \A s \in Previews : OpPasses(s)
  BY DEF PreviewInv, PreviewTypes, OpTypes, OpPasses
<1>2. OpTypes' /\ OpsFit'
  BY <1>1, OpsPass
<1> QED
  BY <1>2 DEF OpsStep

LEMMA ClientRests ==
    ASSUME PreviewInv, NEW ends \in BOOLEAN, SessionsPass, StartsStep(ends), UNCHANGED <<client, begun>>,
           client.step = "claiming" => starts'[client.s] = starts[client.s]
    PROVE  ClientStep
<1>2. client \in Clients /\ ClientFits
  BY DEF PreviewInv, PreviewTypes, ClientTypes
<1>3. \A i \in client.holds : Known(i)'
  BY <1>2 DEF ClientFits, Known
<1>4. client.step = "claiming" => starts'[client.s] = "accepting"
  BY <1>2 DEF ClientFits
<1>5. client.step \notin {"idle", "claiming"} =>
          /\ starts'[client.s] \in Accepted /\ sessions'[client.s].doc # 0
          /\ sessions'[client.s].phase \notin {"none", "pending"}
  BY <1>2 DEF ClientFits, StartsStep, SessionsPass, Passing
<1>6. ClientFits'
  BY <1>2, <1>3, <1>4, <1>5 DEF ClientFits
<1> QED
  BY <1>2, <1>6 DEF ClientStep, ClientTypes

\* A job moves the start of its preview.
LEMMA StartJobEnds ==
    ASSUME PreviewInv, job.kind \in {"register", "settle", "remove"}, Finishes,
           BrowserTypes', UNCHANGED <<epoch, exporting, begun, ops, client>>, LedgerStep,
           NEW to \in StartPlaces \ Unborn, StartGoes(job.s, to),
           starts[job.s] \in Accepted => to \in Accepted,
           starts[job.s] \in {"ending", "failed"} => to \in {"ending", "failed"}
    PROVE  PreviewInv' /\ LossIsFinal
<1>1. job.kind \in Kinds /\ ~IsLoss(job) /\ job.kind \notin TabNews
  BY DEF Kinds, IsLoss, TabNews
<1>2. PICK s \in Previews : s = job.s
  BY <1>1, JobIsFit DEF JobFits
<1>3. starts[s] \notin {"reserved", "accepting"} /\ (starts[s] = "registering" => Own(TRUE, "register", s))
  BY <1>1, <1>2, JobIsFit DEF JobFits, Own, Accepted
<1>4. StartTypes /\ StartGoes(s, to) /\ (starts[s] = "reserved" => Own(TRUE, "create", s))
  BY <1>2, <1>3 DEF PreviewInv, PreviewTypes
<1>5. /\ StartsStep(TRUE) /\ starts'[s] = to
      /\ \A r \in Previews : r # s => starts'[r] = starts[r]
  BY <1>2, <1>3, <1>4, StartMoves
<1>6. \A r \in Previews : starts'[r] = "reserved" <=> starts[r] = "reserved"
  <2> TAKE r \in Previews
  <2>1. CASE r = s
    BY <1>3, <1>5, <2>1 DEF Unborn
  <2>2. CASE r # s
    BY <1>5, <2>2
  <2> QED
    BY <2>1, <2>2
<1>7. LedgerKept /\ SessionsPass
  BY <1>5, <1>6, LedgerStays
<1>8. OpsStep(TRUE)
  BY <1>5, <1>7, OpsRest DEF LedgerStep
<1>9. client.step = "claiming" => starts'[client.s] = starts[client.s]
  BY <1>3, <1>5 DEF PreviewInv, ClientFits
<1>10. ClientStep
  BY <1>5, <1>7, <1>9, ClientRests
<1> QED
  BY <1>1, <1>5, <1>7, <1>8, <1>10, JobEnds

LEMMA RegisterKeeps == ASSUME PreviewInv, Register PROVE PreviewInv' /\ LossIsFinal
<1>1. job.kind = "register" /\ Finishes /\ UNCHANGED client /\ Peaceful
  BY DEF Register, At
<1>2. BrowserTypes' /\ UNCHANGED <<epoch, exporting, begun, ops>>
  BY <1>1, OutsideMeans DEF Peaceful
<1>3. job.kind \in Kinds /\ "beginning" \in StartPlaces \ Unborn /\ "refused" \in StartPlaces \ Unborn
  BY <1>1 DEF Kinds, StartPlaces, Unborn
<1>4. PICK s \in Previews : s = job.s
  BY <1>1, <1>3, JobIsFit DEF JobFits, TabNews
<1>5. starts[s] = "registering"
  BY <1>1, <1>3, <1>4, JobIsFit DEF JobFits
<1>6. starts[s] \notin Accepted /\ starts[s] \notin {"ending", "failed"}
  BY <1>5 DEF Accepted
<1>7. CASE Changes(s, [sessions[s] EXCEPT !.window = TRUE]) /\ StartGoes(s, "beginning")
  <2>1. PICK x : x = [sessions[s] EXCEPT !.window = TRUE]
    OBVIOUS
  <2>2. Alike(sessions[s], x)
    BY <2>1, SessionIsTyped DEF Alike, Sessions
  <2>3. LedgerStep
    BY <1>2, <1>7, <2>1, <2>2, AlikeLedger
  <2> QED
    BY <1>1, <1>2, <1>3, <1>4, <1>6, <1>7, <2>3, StartJobEnds
<1>8. CASE StartGoes(s, "refused") /\ UNCHANGED ledger
  <2>1. LedgerStep
    BY <1>2, <1>8, LedgerRests
  <2> QED
    BY <1>1, <1>2, <1>3, <1>4, <1>6, <1>8, <2>1, StartJobEnds
<1> QED
  BY <1>4, <1>7, <1>8 DEF Register

LEMMA SettleKeeps == ASSUME PreviewInv, Settle PROVE PreviewInv' /\ LossIsFinal
<1>1. job.kind = "settle" /\ Finishes /\ UNCHANGED <<ledger, client>> /\ Peaceful
  BY DEF Settle, At
<1>2. BrowserTypes' /\ UNCHANGED <<epoch, exporting, begun, ops>>
  BY <1>1, OutsideMeans DEF Peaceful
<1>3. LedgerStep
  BY <1>1, <1>2, LedgerRests
<1>4. PICK to \in {"done", "unconfirmed"} : StartGoes(job.s, to)
  BY DEF Settle
<1>5. to \in StartPlaces \ Unborn /\ to \in Accepted
  BY <1>4 DEF StartPlaces, Unborn, Accepted
<1>6. starts[job.s] \notin {"ending", "failed"}
  BY <1>1, JobIsFit DEF JobFits, Accepted, Kinds
<1> QED
  BY <1>1, <1>2, <1>3, <1>4, <1>5, <1>6, StartJobEnds

LEMMA RemoveKeeps == ASSUME PreviewInv, Remove PROVE PreviewInv' /\ LossIsFinal
<1>1. job.kind = "remove" /\ Finishes /\ StartGoes(job.s, "failed") /\ Outside /\ UNCHANGED <<ops, client>>
  BY DEF Remove, At
<1>2. BrowserTypes' /\ UNCHANGED <<epoch, exporting, begun>>
  BY <1>1, OutsideMeans
<1>3. job.kind \in Kinds /\ "failed" \in StartPlaces \ Unborn
  BY <1>1 DEF Kinds, StartPlaces, Unborn
<1>4. PICK s \in Previews : s = job.s
  BY <1>1, <1>3, JobIsFit DEF JobFits, TabNews
<1>5. starts[s] \in {"ending", "failed"} /\ starts[s] \notin Accepted /\ starts[s] \notin Unborn
  BY <1>1, <1>3, <1>4, JobIsFit DEF JobFits, Accepted, Unborn
<1>6. LedgerStep
  <2>1. PICK kept \in {{}, StageIds} : TakesOut(sessions, tombs, {}, {job.s}, {}, kept)
    BY DEF Remove
  <2>2. PICK base : base = sessions
    OBVIOUS
  <2>3. PICK graves : graves = tombs
    OBVIOUS
  <2>4. TakesOut(base, graves, {}, {s}, {}, kept)
    BY <1>4, <2>1, <2>2, <2>3
  <2>5. \A r \in Previews : sessions[r] \in Sessions /\ tombs[r] \in Tombs /\ SessionFits(sessions[r], tombs[r])
    BY DEF PreviewInv, PreviewTypes, LedgerTypes, LedgerFits
  <2>6. MayTakeOut(base, graves, {}, {s}, kept)
    BY <1>5, <2>2, <2>3, <2>5 DEF MayTakeOut, Alike
  <2> QED
    BY <1>2, <2>4, <2>6, TakenOut
<1> QED
  BY <1>1, <1>2, <1>3, <1>4, <1>5, <1>6, StartJobEnds
-----------------------------------------------------------------------------
(* The requests about stages.                                              *)

LEMMA AuthorizeEnds ==
    ASSUME PreviewInv, job.kind = "authorize", Finishes, Outside, UNCHANGED starts, LedgerStep,
           \/ OpGranted(job.s)
           \/ OpDenied(job.s)
    PROVE  PreviewInv' /\ LossIsFinal
<1>1. job.kind \in Kinds /\ ~IsLoss(job)
  BY DEF Kinds, IsLoss
<1>2. PICK s \in Previews : s = job.s
  BY <1>1, JobIsFit DEF JobFits, TabNews
<1>3. ops[s].step = "queued" /\ ops \in [Previews -> Ops]
  BY <1>1, <1>2, JobIsFit DEF JobFits, PreviewInv, PreviewTypes, OpTypes
<1>4. BrowserTypes' /\ UNCHANGED <<epoch, exporting, begun>>
  BY OutsideMeans
<1>5. PICK o : /\ ops' = [ops EXCEPT ![s] = o]
               /\ o = NoOp \/ o = [ops[s] EXCEPT !.step = "granted"]
  BY <1>2 DEF OpGranted, OpDenied
<1>6. /\ DOMAIN ops' = Previews /\ ops' = [r \in Previews |-> ops'[r]] /\ ops'[s] = o
      /\ \A r \in Previews : r # s => ops'[r] = ops[r]
  BY <1>3, <1>5
<1>7. \A r \in Previews : OpPasses(r)
  BY <1>3, <1>5, <1>6 DEF OpPasses
<1>8. StartsStep(TRUE)
  BY DEF PreviewInv, PreviewTypes, StartTypes, StartsStep
<1>9. \A r \in Previews : /\ ops[r].step = "done" => ops'[r] = ops[r]
                          /\ ops[r].step = "queued" => ops'[r].step = "queued" \/ Own(TRUE, "authorize", r)
  BY <1>2, <1>3, <1>6 DEF Own
<1>10. LedgerKept /\ SessionsPass
  BY <1>4, <1>8, <1>9, LedgerStays
<1>11. OpsStep(TRUE)
  <2>1. OpTypes' /\ OpsFit'
    BY <1>4, <1>6, <1>7, <1>8, <1>10, OpsPass DEF LedgerStep
  <2> QED
    BY <1>9, <2>1 DEF OpsStep
<1>12. ClientGoesOn
  <2>1. client' = client \/ (client.step = "running" /\ client' = [client EXCEPT !.step = "failing"])
    BY DEF OpGranted, OpDenied
  <2>2. CASE client.step = "running" /\ client' = [client EXCEPT !.step = "failing"]
    <3>1. client \in Clients
      BY DEF PreviewInv, PreviewTypes, ClientTypes
    <3>2. client' \in Clients /\ client'.s = client.s /\ client'.step = "failing" /\ client'.holds = client.holds
      BY <2>2, <3>1 DEF Clients, ClientPlaces
    <3> QED
      BY <2>2, <3>2 DEF ClientGoesOn
  <2> QED
    BY <2>1, <2>2 DEF ClientGoesOn
<1>13. ClientStep
  <2>1. \A r \in Previews : begun[r] <= begun'[r]
    BY <1>4, TextPreviewParameters DEF PreviewInv, PreviewTypes, OpTypes
  <2> QED
    BY <1>8, <1>10, <1>11, <1>12, <2>1, ClientPasses DEF OpsStep
<1> QED
  BY <1>1, <1>4, <1>8, <1>10, <1>11, <1>13, JobEnds

LEMMA AuthorizeKeeps == ASSUME PreviewInv, Authorize PROVE PreviewInv' /\ LossIsFinal
<1>1. job.kind = "authorize" /\ Outside /\ UNCHANGED starts
  BY DEF Authorize, At
<1>2. job.kind \in Kinds
  BY <1>1 DEF Kinds
<1>3. PICK s \in Previews : s = job.s
  BY <1>1, <1>2, JobIsFit DEF JobFits, TabNews
<1>4. BrowserTypes' /\ UNCHANGED <<epoch, exporting, begun>>
  BY <1>1, OutsideMeans
<1>5. ASSUME Finishes, UNCHANGED ledger, OpGranted(s) \/ OpDenied(s) PROVE PreviewInv' /\ LossIsFinal
  <2>1. LedgerStep
    BY <1>4, <1>5, LedgerRests
  <2> QED
    BY <1>1, <1>3, <1>5, <2>1, AuthorizeEnds
<1>6. ASSUME UNCHANGED <<ledger, ops, client>>, Present(sessions[s]), GoesTo("tab")
      PROVE  PreviewInv' /\ LossIsFinal
  <2>1. LedgerStep /\ sessions' = sessions
    BY <1>4, <1>6, LedgerRests
  <2>2. Unstarted /\ ClientGoesOn /\ Founded("tab")
    BY <1>1, <1>3, <1>4, <1>6, <2>1 DEF Unstarted, ClientGoesOn, Founded, AtPlaces
  <2> QED
    BY <1>1, <1>2, <1>4, <1>6, <2>1, <2>2, Goes
<1>7. ASSUME job.at = "tab", Finishes, OpDenied(s), NEW kept \in {{}, StageIds}, Invalidates(sessions, {s}, {s}, kept)
      PROVE  PreviewInv' /\ LossIsFinal
  <2>1. holder # NoJob /\ holder = job
    BY <1>2, <1>7, JobIsFit
  <2>2. Present(sessions[s])
    BY <1>1, <1>3, <1>7, <2>1 DEF PreviewInv, HolderFits, NeedsPresent
  <2>3. PICK told : told = {s}
    OBVIOUS
  <2>4. LedgerStep
    BY <1>4, <1>7, <2>2, <2>3, InvalidatesOne
  <2> QED
    BY <1>1, <1>3, <1>7, <2>4, AuthorizeEnds
<1>8. CASE /\ At("authorize", "begun") /\ UNCHANGED ledger
           /\ \/ Finishes /\ (OpGranted(s) \/ OpDenied(s))
              \/ Present(sessions[s]) /\ GoesTo("tab") /\ UNCHANGED <<ops, client>>
  BY <1>5, <1>6, <1>8
<1>9. CASE /\ At("authorize", "tab") /\ Finishes
           /\ \/ UNCHANGED ledger /\ (OpGranted(s) \/ OpDenied(s))
              \/ OpDenied(s) /\ \E kept \in {{}, StageIds} : Invalidates(sessions, {s}, {s}, kept)
  BY <1>5, <1>7, <1>9 DEF At
<1>10. \/ /\ At("authorize", "begun") /\ UNCHANGED ledger
          /\ \/ Finishes /\ (OpGranted(s) \/ OpDenied(s))
             \/ Present(sessions[s]) /\ GoesTo("tab") /\ UNCHANGED <<ops, client>>
       \/ /\ At("authorize", "tab") /\ Finishes
          /\ \/ UNCHANGED ledger /\ (OpGranted(s) \/ OpDenied(s))
             \/ OpDenied(s) /\ \E kept \in {{}, StageIds} : Invalidates(sessions, {s}, {s}, kept)
  BY <1>3 DEF Authorize
<1> QED
  BY <1>8, <1>9, <1>10
-----------------------------------------------------------------------------
(* The listeners of the tabs, once they have the lock.                     *)

LEMMA TabEventKeeps == ASSUME PreviewInv, TabEvent PROVE PreviewInv' /\ LossIsFinal
<1>1. job.kind \in TabNews /\ Finishes /\ Outside /\ UNCHANGED <<ops, starts, client>>
  BY DEF TabEvent, TabNews
<1>2. job.kind \in Kinds /\ BrowserTypes' /\ UNCHANGED <<epoch, exporting, begun>>
  BY <1>1, OutsideMeans DEF Kinds
<1>3. PICK concerned : concerned = {s \in Previews : Concerns(s)}
  OBVIOUS
<1>4. PICK told : told = IF job.kind = "removed" /\ job.s = SourceTab THEN {} ELSE concerned
  OBVIOUS
<1>5. PICK base : base = [s \in Previews |-> IF job.kind = "removed" /\ job.s = s /\ s \in concerned
                                              THEN [sessions[s] EXCEPT !.closed = TRUE] ELSE sessions[s]]
  OBVIOUS
<1>6. PICK kept \in {{}, StageIds} : Invalidates(base, concerned, told, kept)
  BY <1>3, <1>4, <1>5 DEF TabEvent
<1>7. \A s \in Previews : Alike(sessions[s], base[s])
  <2> TAKE s \in Previews
  <2>1. PICK x \in Sessions : x = sessions[s]
    BY SessionIsTyped
  <2>2. base[s] = x \/ base[s] = [x EXCEPT !.closed = TRUE]
    BY <1>5, <2>1
  <2>3. Alike(x, [x EXCEPT !.closed = TRUE]) /\ Alike(x, x)
    BY DEF Alike, Sessions
  <2> QED
    BY <2>1, <2>2, <2>3
<1>8. concerned \in SUBSET Previews /\ \A s \in concerned : Present(sessions[s])
  BY <1>3 DEF Concerns
<1>9. LedgerStep
  BY <1>2, <1>6, <1>7, <1>8, InvalidatesWell
<1>10. IsLoss(job) => NoneIsLost'
  <2> SUFFICES ASSUME IsLoss(job), NEW s \in Previews
               PROVE  ~Live(sessions'[s])
    BY DEF NoneIsLost
  <2>1. Present(sessions[s]) <=> s \in concerned
    BY <1>3 DEF IsLoss, Concerns
  <2>2. sessions'[s] = IF s \in concerned THEN Invalidated(base[s], kept) ELSE base[s]
    BY <1>6 DEF Invalidates, TakesOut
  <2>3. CASE s \in concerned
    <3>1. base[s] \in Sessions
      BY <1>7 DEF Alike
    <3>2. sessions'[s].phase = "invalidated"
      BY <2>2, <2>3, <3>1 DEF Invalidated, Sessions
    <3> QED
      BY <3>2 DEF Live
  <2>4. CASE s \notin concerned
    <3>1. base[s].phase = sessions[s].phase
      BY <1>7 DEF Alike
    <3> QED
      BY <2>1, <2>2, <2>4, <3>1 DEF Live, Present
  <2> QED
    BY <2>3, <2>4
<1>11. Unstarted /\ ClientGoesOn
  BY <1>1, <1>2 DEF Unstarted, ClientGoesOn
<1> QED
  BY <1>1, <1>2, <1>9, <1>10, <1>11, PlainEnd

\* The session that a start was reserved for, or the reservation given up.
LEMMA CreateKeeps == ASSUME PreviewInv, Create PROVE PreviewInv' /\ LossIsFinal
<1>1. job.kind = "create" /\ Finishes /\ Outside /\ UNCHANGED <<ops, client>>
  BY DEF Create, At
<1>2. job.kind \in Kinds /\ ~IsLoss(job) /\ job.kind \notin TabNews
  BY <1>1 DEF Kinds, IsLoss, TabNews
<1>3. PICK s \in Previews : s = job.s
  BY <1>2, JobIsFit DEF JobFits
<1>4. starts[s] = "reserved" /\ StartTypes
  BY <1>1, <1>2, <1>3, JobIsFit DEF JobFits, PreviewInv, PreviewTypes
<1>5. BrowserTypes' /\ UNCHANGED <<epoch, exporting, begun>>
  BY <1>1, OutsideMeans
<1>6. /\ sessions[s].phase = "none" /\ SessionFits(sessions[s], tombs[s]) /\ ~sessions[s].lost
      /\ sessions[s].doc = 0 /\ sessions[s].stages = {}
  BY <1>4 DEF PreviewInv, StartFits, Unborn, LedgerFits, SessionFits
<1>7. \A r \in Previews : (sessions[r].held \/ starts[r] = "reserved") => r = s
  BY <1>4 DEF PreviewInv, SourceIsReserved
<1>8. reserved /\ ~exporting /\ \A r \in Previews : HoldsSource(sessions[r]) => sessions[r].held
  BY <1>4 DEF PreviewInv, SourceIsReserved
<1>9. starts[s] \notin Accepted /\ starts[s] \notin {"ending", "failed"} /\ Own(TRUE, "create", s)
  BY <1>1, <1>3, <1>4 DEF Accepted, Own
<1>10. client.step = "claiming" => client.s # s
  BY <1>4 DEF PreviewInv, ClientFits
<1>11. PreviewTypes /\ LedgerTypes /\ LedgerFits /\ StartFits /\ StoredFits
  BY DEF PreviewInv, PreviewTypes
<1>12. ASSUME NEW to \in StartPlaces \ Unborn, StartGoes(s, to), LedgerTypes', LedgerFits', SessionsPass,
              SourceIsReserved', StartFits', StoredFits', stored' \subseteq stored
       PROVE  PreviewInv' /\ LossIsFinal
  <2>1. /\ StartsStep(TRUE) /\ starts'[s] = to
        /\ \A r \in Previews : r # s => starts'[r] = starts[r]
    BY <1>4, <1>9, <1>12, StartMoves
  <2>2. LedgerKept
    BY <1>12 DEF LedgerKept
  <2>3. OpsStep(TRUE)
    BY <1>1, <1>5, <1>12, <2>1, OpsRest
  <2>4. client.step = "claiming" => starts'[client.s] = starts[client.s]
    BY <1>10, <2>1 DEF PreviewInv, ClientFits
  <2>5. ClientStep
    BY <1>1, <1>5, <1>12, <2>1, <2>4, ClientRests
  <2> QED
    BY <1>1, <1>2, <1>5, <1>12, <2>1, <2>2, <2>3, <2>5, JobEnds
<1>13. CASE /\ Changes(s, [sessions[s] EXCEPT !.phase = "pending", !.held = TRUE])
            /\ StartGoes(s, "opening")
  <2>1. PICK x : x = [sessions[s] EXCEPT !.phase = "pending", !.held = TRUE]
    OBVIOUS
  <2>2. /\ x \in Sessions /\ x.phase = "pending" /\ x.held /\ x.lost = sessions[s].lost /\ x.doc = sessions[s].doc
        /\ x.gen = sessions[s].gen /\ x.stages = sessions[s].stages
    BY <2>1, SessionIsTyped DEF Sessions, Phases
  <2>3. /\ sessions'[s] = x /\ sessions' \in [Previews -> Sessions]
        /\ \A r \in Previews : r # s => sessions'[r] = sessions[r]
        /\ UNCHANGED <<tombs, reserved, stored>>
    BY <1>11, <1>13, <2>1, <2>2 DEF Changes, LedgerTypes
  <2>4. LedgerTypes'
    BY <1>11, <2>3 DEF LedgerTypes
  <2>5. ASSUME NEW r \in Previews
        PROVE  /\ Passing(sessions[r], sessions'[r]) /\ SessionFits(sessions'[r], tombs'[r])
               /\ sessions'[r].gen <= epoch'[SourceTab] /\ sessions'[r].stages = sessions[r].stages
    <3>1. CASE r = s
      <4>1. Passing(sessions[s], x)
        BY <1>6, <2>2 DEF Passing
      <4>2. SessionFits(x, tombs[s])
        BY <1>6, <2>2 DEF SessionFits, Present, HoldsSource
      <4> QED
        BY <1>5, <1>11, <2>2, <2>3, <3>1, <4>1, <4>2 DEF LedgerFits
    <3>2. CASE r # s
      BY <1>5, <1>11, <2>3, <3>2 DEF LedgerFits, Passing
    <3> QED
      BY <3>1, <3>2
  <2>6. LedgerFits' /\ SessionsPass
    BY <2>5 DEF LedgerFits, SessionsPass
  <2>7. /\ starts'[s] = "opening" /\ \A r \in Previews : r # s => starts'[r] = starts[r]
    BY <1>4, <1>13 DEF StartGoes, StartTypes
  <2>8. {r \in Previews : sessions'[r].held \/ starts'[r] = "reserved"} = {s}
    BY <1>7, <2>2, <2>3, <2>7
  <2>9. SourceIsReserved'
    BY <1>5, <1>8, <2>2, <2>3, <2>8 DEF SourceIsReserved
  <2>10. StartFits'
    BY <1>11, <2>3, <2>7 DEF StartFits, Unborn
  <2>11. StoredFits'
    <3>1. \A id \in stored : id[1] \in Previews
      BY <1>11, StageOwners
    <3> QED
      BY <1>1, <1>5, <1>11, <2>3, <2>5, <3>1 DEF StoredFits, StagesAreOwned, Known
  <2>12. "opening" \in StartPlaces \ Unborn /\ StartGoes(s, "opening")
    BY <1>13 DEF StartPlaces, Unborn
  <2> QED
    BY <1>12, <2>3, <2>4, <2>6, <2>9, <2>10, <2>11, <2>12
<1>14. CASE reserved' = FALSE /\ StartGoes(s, "failed") /\ UNCHANGED <<sessions, tombs, stored>>
  <2>1. LedgerTypes' /\ LedgerFits' /\ SessionsPass
    BY <1>5, <1>11, <1>14 DEF LedgerTypes, LedgerFits, SessionsPass, Passing
  <2>2. /\ starts'[s] = "failed" /\ \A r \in Previews : r # s => starts'[r] = starts[r]
    BY <1>4, <1>14 DEF StartGoes, StartTypes
  <2>3. ~sessions[s].held
    BY <1>6 DEF SessionFits, Present
  <2>4. {r \in Previews : sessions'[r].held \/ starts'[r] = "reserved"} = {}
    BY <1>7, <1>14, <2>2, <2>3
  <2>5. SourceIsReserved'
    BY <1>8, <1>14, <2>4 DEF SourceIsReserved
  <2>6. StartFits'
    BY <1>11, <1>14, <2>2 DEF StartFits, Unborn
  <2>7. StoredFits'
    BY <1>1, <1>5, <1>11, <1>14 DEF StoredFits, StagesAreOwned, Known
  <2>8. "failed" \in StartPlaces \ Unborn /\ StartGoes(s, "failed")
    BY <1>14 DEF StartPlaces, Unborn
  <2> QED
    BY <1>12, <1>14, <2>1, <2>5, <2>6, <2>7, <2>8
<1> QED
  BY <1>3, <1>13, <1>14 DEF Create
\* What a late stage, or one that was begun or aborted, leaves with its preview.
Recorded(s, x, t) ==
    /\ x \in Sessions /\ x.phase = sessions[s].phase /\ x.doc = sessions[s].doc /\ x.gen = sessions[s].gen
    /\ x.held = sessions[s].held /\ x.lost = sessions[s].lost
    /\ t \in Tombs /\ t.state = tombs[s].state /\ tombs[s].stages \subseteq t.stages
    /\ SessionFits(x, t)
    /\ stored' \subseteq stored /\ \A id \in stored' : id \in sessions[s].stages => id \in x.stages
    /\ ops[s].stage \in stored' => \/ ops[s].stage \in x.stages \/ ops[s].stage \in t.stages
                                   \/ t.state = "expired"

LEMMA RecordLedger ==
    ASSUME PreviewInv, Record, NEW s \in Previews, s = job.s, ops[s].step = "done"
    PROVE  \E x \in Sessions, t \in Tombs :
              /\ Recorded(s, x, t)
              /\ sessions' = [sessions EXCEPT ![s] = x] /\ tombs' = [tombs EXCEPT ![s] = t]
<1> DEFINE about == ops[s].stage
           Result == \E x \in Sessions, t \in Tombs :
                        /\ Recorded(s, x, t)
                        /\ sessions' = [sessions EXCEPT ![s] = x] /\ tombs' = [tombs EXCEPT ![s] = t]
<1>1. PICK x0 \in Sessions, t0 \in Tombs : x0 = sessions[s] /\ t0 = tombs[s]
  BY DEF PreviewInv, PreviewTypes, LedgerTypes
<1>2. /\ SessionFits(x0, t0) /\ x0.stages \subseteq StageIds /\ t0.stages \subseteq StageIds
      /\ sessions = [sessions EXCEPT ![s] = x0] /\ tombs = [tombs EXCEPT ![s] = t0]
  BY <1>1 DEF PreviewInv, PreviewTypes, LedgerTypes, LedgerFits, Sessions, Tombs
<1>3. /\ x0.doc # 0 /\ ops[s].stage \in StageIds \cup {<<>>}
      /\ ops[s].kind = "begin" => about \in StageIds
      /\ ops[s].kind = "abort" => about \notin stored
  BY <1>1 DEF PreviewInv, PreviewTypes, OpTypes, OpsFit, OpFits, Ops
<1>4. ~Present(x0) => x0.phase = "removed" /\ t0.state # "none"
  BY <1>2, <1>3 DEF SessionFits, Present
<1>5. ASSUME ops[s].kind = "begin", Present(x0), NEW some \in SUBSET StageIds,
             sessions' = [sessions EXCEPT ![s].stages = @ \cup some], UNCHANGED tombs,
             stored' \subseteq stored, about \in stored' => about \in some
      PROVE  Result
  <2>1. PICK more \in SUBSET StageIds : more = x0.stages \cup some
    BY <1>2
  <2>2. PICK y : y = [x0 EXCEPT !.stages = more]
    OBVIOUS
  <2>3. /\ y \in Sessions /\ y.stages = more
        /\ y.phase = x0.phase /\ y.doc = x0.doc /\ y.gen = x0.gen /\ y.held = x0.held /\ y.lost = x0.lost
    BY <2>2 DEF Sessions
  <2>4. SessionFits(y, t0)
    BY <1>2, <1>3, <1>5, <2>3 DEF SessionFits, Present, HoldsSource
  <2>5. Recorded(s, y, t0)
    BY <1>1, <1>5, <2>1, <2>3, <2>4 DEF Recorded
  <2>6. sessions' = [sessions EXCEPT ![s] = y] /\ tombs' = [tombs EXCEPT ![s] = t0]
    BY <1>1, <1>2, <1>5, <2>1, <2>2
  <2> QED
    BY <2>3, <2>5, <2>6
<1>6. CASE /\ ops[s].kind = "begin" /\ Present(x0)
           /\ sessions' = [sessions EXCEPT ![s].stages = @ \cup {about}]
           /\ UNCHANGED <<tombs, stored>>
  <2>1. {about} \in SUBSET StageIds
    BY <1>3, <1>6
  <2> QED
    BY <1>5, <1>6, <2>1
<1>7. CASE /\ ops[s].kind = "begin" /\ (Present(x0) \/ Stands(t0))
           /\ \E kept \in {{}, {about}} : StageComesLate(s, about, kept)
  <2>1. PICK kept \in {{}, {about}} : StageComesLate(s, about, kept)
    BY <1>7
  <2>2. PICK some \in SUBSET StageIds : some = {about} \cap kept
    BY <1>3, <1>7
  <2>3. stored' \subseteq stored /\ (about \in stored' => about \in some)
    BY <2>1, <2>2 DEF StageComesLate
  <2>4. CASE Present(x0)
    <3>1. sessions' = [sessions EXCEPT ![s].stages = @ \cup some] /\ UNCHANGED tombs
      BY <1>1, <2>1, <2>2, <2>4 DEF StageComesLate
    <3> QED
      BY <1>5, <1>7, <2>3, <2>4, <3>1
  <2>5. CASE ~Present(x0)
    <3>1. PICK u : u = [t0 EXCEPT !.stages = t0.stages \cup some]
      OBVIOUS
    <3>2. t0.stages \cup some \in SUBSET StageIds
      BY <1>2
    <3>3. u \in Tombs /\ u.state = t0.state /\ u.stages = t0.stages \cup some
      BY <3>1, <3>2 DEF Tombs
    <3>4. SessionFits(x0, u)
      BY <1>2, <1>4, <2>5, <3>3 DEF SessionFits
    <3>5. Recorded(s, x0, u)
      BY <1>1, <2>3, <3>3, <3>4 DEF Recorded
    <3>6. sessions' = [sessions EXCEPT ![s] = x0] /\ tombs' = [tombs EXCEPT ![s] = u]
      BY <1>1, <1>2, <2>1, <2>2, <2>5, <3>1 DEF StageComesLate
    <3> QED
      BY <3>3, <3>5, <3>6
  <2> QED
    BY <2>4, <2>5
<1>8. CASE /\ ops[s].kind = "begin" /\ ~Present(x0) /\ ~Stands(t0)
           /\ UNCHANGED <<sessions, tombs, stored>>
  <2>1. t0.state = "expired"
    BY <1>4, <1>8 DEF Stands, Tombs
  <2>2. Recorded(s, x0, t0)
    BY <1>1, <1>2, <1>8, <2>1 DEF Recorded
  <2> QED
    BY <1>2, <1>8, <2>2
<1>9. CASE /\ ops[s].kind = "abort"
           /\ sessions' = [sessions EXCEPT ![s].stages = @ \ {about}]
           /\ UNCHANGED <<tombs, stored>>
  <2>1. PICK less \in SUBSET StageIds : less = x0.stages \ {about}
    BY <1>2
  <2>2. PICK y : y = [x0 EXCEPT !.stages = less]
    OBVIOUS
  <2>3. sessions' = [sessions EXCEPT ![s] = y] /\ tombs' = [tombs EXCEPT ![s] = t0]
    BY <1>1, <1>2, <1>9, <2>1, <2>2
  <2>4. /\ y \in Sessions /\ y.stages = less
        /\ y.phase = x0.phase /\ y.doc = x0.doc /\ y.gen = x0.gen /\ y.held = x0.held /\ y.lost = x0.lost
    BY <2>2 DEF Sessions
  <2>5. SessionFits(y, t0)
    BY <1>2, <1>3, <2>1, <2>4 DEF SessionFits, Present, HoldsSource
  <2>6. Recorded(s, y, t0)
    BY <1>1, <1>3, <1>9, <2>1, <2>4, <2>5 DEF Recorded
  <2> QED
    BY <2>3, <2>4, <2>6
<1>10. \/ /\ ops[s].kind = "begin" /\ Present(x0)
          /\ sessions' = [sessions EXCEPT ![s].stages = @ \cup {about}]
          /\ UNCHANGED <<tombs, stored>>
       \/ /\ ops[s].kind = "begin" /\ (Present(x0) \/ Stands(t0))
          /\ \E kept \in {{}, {about}} : StageComesLate(s, about, kept)
       \/ /\ ops[s].kind = "begin" /\ ~Present(x0) /\ ~Stands(t0)
          /\ UNCHANGED <<sessions, tombs, stored>>
       \/ /\ ops[s].kind = "abort"
          /\ sessions' = [sessions EXCEPT ![s].stages = @ \ {about}]
          /\ UNCHANGED <<tombs, stored>>
  BY <1>1 DEF Record
<1> QED
  BY <1>6, <1>7, <1>8, <1>9, <1>10

LEMMA RecordKeeps == ASSUME PreviewInv, Record PROVE PreviewInv' /\ LossIsFinal
<1>1. job.kind = "record" /\ Finishes /\ Outside /\ UNCHANGED <<reserved, starts>>
  BY DEF Record, At
<1>2. job.kind \in Kinds /\ ~IsLoss(job) /\ job.kind \notin TabNews
  BY <1>1 DEF Kinds, IsLoss, TabNews
<1>3. PICK s \in Previews : s = job.s
  BY <1>2, JobIsFit DEF JobFits
<1>4. /\ ops[s].step = "done" /\ ops \in [Previews -> Ops] /\ OpFits(s)
      /\ starts[s] \in Accepted /\ starts[s] \notin Unborn
  BY <1>1, <1>2, <1>3, JobIsFit DEF JobFits, PreviewInv, PreviewTypes, OpTypes, OpsFit, OpFits, Accepted, Unborn
<1>5. BrowserTypes' /\ UNCHANGED <<epoch, exporting, begun>>
  BY <1>1, OutsideMeans
<1>6. PICK x \in Sessions, t \in Tombs :
          /\ Recorded(s, x, t)
          /\ sessions' = [sessions EXCEPT ![s] = x] /\ tombs' = [tombs EXCEPT ![s] = t]
  BY <1>3, <1>4, RecordLedger
<1>7. LedgerTypes /\ LedgerFits /\ StartFits /\ StoredFits /\ SourceIsReserved
  BY DEF PreviewInv, PreviewTypes
<1>8. /\ sessions'[s] = x /\ tombs'[s] = t /\ LedgerTypes'
      /\ \A r \in Previews : r # s => sessions'[r] = sessions[r] /\ tombs'[r] = tombs[r]
  BY <1>1, <1>6, <1>7 DEF LedgerTypes, Recorded
<1>9. /\ ops'[s] = NoOp /\ \A r \in Previews : r # s => ops'[r] = ops[r]
      /\ DOMAIN ops' = Previews /\ ops' = [r \in Previews |-> ops'[r]]
  BY <1>3, <1>4 DEF Record
<1>10. ASSUME NEW r \in Previews
       PROVE  /\ Passing(sessions[r], sessions'[r]) /\ SessionFits(sessions'[r], tombs'[r])
              /\ sessions'[r].gen = sessions[r].gen /\ sessions'[r].phase = sessions[r].phase
              /\ sessions'[r].held = sessions[r].held
  <2>1. CASE r = s
    <3>1. Passing(sessions[s], x)
      BY <1>6 DEF Recorded, Passing, Live, Present
    <3> QED
      BY <1>6, <1>8, <2>1, <3>1 DEF Recorded
  <2>2. CASE r # s
    BY <1>7, <1>8, <2>2 DEF LedgerFits, Passing
  <2> QED
    BY <2>1, <2>2
<1>11. LedgerFits' /\ SessionsPass /\ StartFits'
  BY <1>1, <1>5, <1>7, <1>10 DEF LedgerFits, SessionsPass, StartFits
<1>12. SourceIsReserved'
  <2>1. {r \in Previews : sessions'[r].held \/ starts'[r] = "reserved"}
        = {r \in Previews : sessions[r].held \/ starts[r] = "reserved"}
    BY <1>1, <1>10
  <2> QED
    BY <1>1, <1>5, <1>7, <1>10, <2>1 DEF SourceIsReserved, HoldsSource
<1>13. StoredFits'
  <2>1. stored' \subseteq stored /\ \A id \in stored' : Known(id)'
    BY <1>5, <1>6, <1>7 DEF Recorded, StoredFits, Known
  <2>2. ASSUME NEW id \in stored'
        PROVE  \/ id \in sessions'[id[1]].stages
               \/ id \in tombs'[id[1]].stages
               \/ ops'[id[1]].step = "done" /\ ops'[id[1]].stage = id
               \/ tombs'[id[1]].state = "expired"
    <3>1. PICK r \in Previews : r = id[1]
      BY <1>7, <2>1, StageOwners
    <3>2. \/ id \in sessions[r].stages
          \/ id \in tombs[r].stages
          \/ ops[r].step = "done" /\ ops[r].stage = id
          \/ tombs[r].state = "expired"
      BY <1>7, <2>1, <3>1 DEF StoredFits, StagesAreOwned
    <3>3. CASE r # s
      BY <1>8, <1>9, <3>1, <3>2, <3>3
    <3>4. CASE r = s
      <4>1. \/ id \in x.stages \/ id \in t.stages \/ t.state = "expired"
        BY <1>6, <3>2, <3>4 DEF Recorded
      <4> QED
        BY <1>8, <3>1, <3>4, <4>1
    <3> QED
      BY <3>3, <3>4
  <2> QED
    BY <2>1, <2>2 DEF StoredFits, StagesAreOwned
<1>14. LedgerKept
  BY <1>8, <1>11, <1>12, <1>13 DEF LedgerKept
<1>15. StartsStep(TRUE)
  BY <1>1 DEF PreviewInv, PreviewTypes, StartTypes, StartsStep
<1>16. OpsStep(TRUE)
  <2>1. \A r \in Previews : OpPasses(r)
    BY <1>9 DEF OpPasses
  <2>2. OpTypes' /\ OpsFit'
    BY <1>5, <1>6, <1>9, <1>11, <1>15, <2>1, OpsPass DEF Recorded
  <2> QED
    BY <1>1, <1>3, <1>4, <1>9, <2>2 DEF OpsStep, Own
<1>17. ClientStep
  <2>1. client \in Clients /\ ClientFits
    BY DEF PreviewInv, PreviewTypes, ClientTypes
  <2>2. CASE client' = client
    <3>1. client.step = "claiming" => starts'[client.s] = starts[client.s]
      BY <1>1
    <3> QED
      BY <1>5, <1>11, <1>15, <2>2, <3>1, ClientRests
  <2>3. CASE /\ ops[s].kind = "begin" /\ client.step = "running"
             /\ client' = [client EXCEPT !.holds = @ \cup {ops[s].stage}]
    <3>1. PICK more : more = client.holds \cup {ops[s].stage}
      OBVIOUS
    <3>2. more \in SUBSET StageIds /\ \A i \in more : Known(i)
      BY <1>4, <2>1, <2>3, <3>1 DEF Clients, ClientFits, OpFits
    <3>3. /\ client' \in Clients /\ client'.s = client.s /\ client'.step = "running" /\ client'.holds = more
      BY <2>1, <2>3, <3>1, <3>2 DEF Clients
    <3>4. /\ client.s \in Previews /\ starts[client.s] \in Accepted /\ sessions[client.s].doc # 0
          /\ sessions[client.s].phase \notin {"none", "pending"}
      BY <2>1, <2>3 DEF ClientFits
    <3>5. sessions'[client.s].doc # 0 /\ sessions'[client.s].phase \notin {"none", "pending"}
      BY <1>11, <3>4 DEF SessionsPass, Passing
    <3>6. \A i \in more : Known(i)'
      BY <1>5, <3>2 DEF Known
    <3>7. ClientFits'
      BY <1>1, <3>3, <3>4, <3>5, <3>6 DEF ClientFits
    <3> QED
      BY <3>3, <3>7 DEF ClientStep, ClientTypes
  <2>4. \/ client' = client
        \/ /\ ops[s].kind = "begin" /\ client.step = "running"
           /\ client' = [client EXCEPT !.holds = @ \cup {ops[s].stage}]
    BY <1>3 DEF Record
  <2> QED
    BY <2>2, <2>3, <2>4
<1> QED
  BY <1>1, <1>2, <1>5, <1>11, <1>14, <1>15, <1>16, <1>17, JobEnds
-----------------------------------------------------------------------------
(* The invariant, after a step beside the lock.                            *)

\* A message waits for the lock, of which there is no other if there may be one only.
Joins(m) ==
    /\ m \in Jobs /\ Sends(m) /\ JobFits(m)'
    /\ m.kind \in Single => \A n \in Jobs : JobFits(n) => ~(n.kind = m.kind /\ n.s = m.s)

LineGrows == queue' = queue \/ \E m \in Jobs : Joins(m)

\* No session changes its phase, nor is lost.
Abiding == \A s \in Previews : sessions'[s].phase = sessions[s].phase /\ sessions'[s].lost = sessions[s].lost

LEMMA HolderIsFit ==
    ASSUME LineTypes, LineFits, holder # NoJob
    PROVE  holder \in Jobs /\ JobFits(holder)
<1>1. holder \in Jobs /\ LineSize \in Nat /\ LineSize >= 1
  BY LineIsTyped DEF LineTypes, LineSize
<1>2. Line[1] = holder
  BY <1>1, LineIsTyped DEF Nth
<1> QED
  BY <1>1, <1>2, LineMeans

LEMMA OutsideStep ==
    ASSUME PreviewInv, holder' = holder, LineGrows, epoch' = epoch, BrowserTypes', LedgerKept,
           SessionsPass, Abiding, StartsStep(FALSE), OpsStep(FALSE), ClientStep
    PROVE  PreviewInv' /\ LossIsFinal
<1>1. PreviewTypes /\ LineFits /\ LedgerTypes' /\ LineTypes
  BY DEF PreviewInv, PreviewTypes, LedgerKept
<1>2. epoch[SourceTab] <= epoch'[SourceTab] /\ BrowserTypes
  BY <1>1, EpochsRest DEF PreviewTypes
<1>3. LossStep /\ JobsStay
  BY <1>2, LossFollows, JobsGoOn
<1>4. LineTypes' /\ LineFits'
  <2>1. CASE queue' = queue
    BY <1>1, <1>3, <2>1, StandingLine
  <2>2. ASSUME NEW m \in Jobs, Joins(m) PROVE LineTypes' /\ LineFits'
    BY <1>1, <1>3, <2>2, JoinedLine DEF Joins
  <2> QED
    BY <2>1, <2>2 DEF LineGrows
<1>5. HolderFits'
  <2> SUFFICES ASSUME holder # NoJob PROVE HolderFits'
    BY DEF HolderFits
  <2>1. /\ holder \in Jobs
        /\ <<holder.kind, holder.at>> \in NeedsPresent \/ holder.kind = "publish" => holder.s \in Previews
    BY <1>1, HolderIsFit DEF JobFits, TabNews, NeedsPresent
  <2>2. /\ holder.at # "waiting"
        /\ <<holder.kind, holder.at>> \in NeedsPresent => Present(sessions[holder.s])
        /\ holder.kind = "publish" /\ holder.at # "begun" /\ sessions[holder.s].lost =>
              holder.gen < epoch[SourceTab]
    BY DEF PreviewInv, HolderFits
  <2>3. <<holder.kind, holder.at>> \in NeedsPresent => Present(sessions'[holder.s])
    BY <2>1, <2>2 DEF Abiding, Present
  <2>4. holder.kind = "publish" /\ holder.at # "begun" /\ sessions'[holder.s].lost =>
              holder.gen < epoch'[SourceTab]
    BY <2>1, <2>2 DEF Abiding
  <2> QED
    BY <2>2, <2>3, <2>4 DEF HolderFits
<1>6. StartTypes' /\ OpTypes' /\ OpsFit'
  BY DEF StartsStep, OpsStep
<1> QED
  BY <1>4, <1>5, <1>6, PartsTogether, FinalFollows

LEMMA AsideLedger ==
    ASSUME PreviewInv, UNCHANGED <<sessions, tombs, reserved, stored, epoch>>
    PROVE  LedgerStep /\ Abiding
  BY StillLedger DEF Abiding

\* Nothing starts, and the document goes on or leaves.
LEMMA AsideStep ==
    ASSUME PreviewInv, holder' = holder, LineGrows, Unstarted, BrowserTypes', LedgerStep, Abiding,
           ClientGoesOn
    PROVE  PreviewInv' /\ LossIsFinal
  BY UnstartedMeans, OutsideStep DEF Unstarted

\* A start moves on.
LEMMA AsideStart ==
    ASSUME PreviewInv, holder' = holder, LineGrows, BrowserTypes',
           UNCHANGED <<sessions, tombs, reserved, stored, epoch, exporting, begun, ops>>,
           NEW s \in Previews, NEW to \in StartPlaces \ Unborn, StartGoes(s, to),
           starts[s] \notin {"none", "reserved", "registering", "ending", "failed"},
           starts[s] \in Accepted => to \in Accepted,
           client.step = "claiming" => client.s # s, client' = client
    PROVE  PreviewInv' /\ LossIsFinal
<1>1. /\ StartsStep(FALSE) /\ starts'[s] = to
      /\ \A r \in Previews : r # s => starts'[r] = starts[r]
  BY StartMoves DEF PreviewInv, PreviewTypes
<1>2. \A r \in Previews : starts'[r] = "reserved" <=> starts[r] = "reserved"
  BY <1>1 DEF Unborn
<1>3. LedgerStep /\ Abiding
  BY AsideLedger
<1>4. LedgerKept /\ SessionsPass
  BY <1>1, <1>2, <1>3, LedgerStays
<1>5. OpsStep(FALSE)
  BY <1>1, <1>4, OpsRest
<1>6. client.step = "claiming" => starts'[client.s] = starts[client.s]
  BY <1>1 DEF PreviewInv, ClientFits
<1>7. ClientStep
  BY <1>1, <1>4, <1>6, ClientRests
<1> QED
  BY <1>1, <1>3, <1>4, <1>5, <1>7, OutsideStep

LEMMA MessageIsTyped ==
    ASSUME NEW kind \in Kinds, NEW s \in Tabs0, NEW d \in Nat
    PROVE  /\ Job(kind, s, d) \in Jobs /\ Job(kind, s, d).kind = kind /\ Job(kind, s, d).s = s
           /\ Job(kind, s, d).doc = d /\ Job(kind, s, d).gen = 0
  BY DEF Job, Jobs, AtPlaces

\* A message that needs nothing but its preview, or the start it is of.
LEMMA PlainMessage ==
    ASSUME PreviewInv, NEW s \in Previews, NEW d \in Nat,
           NEW kind \in {"await", "lease", "stop", "choose", "status", "take", "ack", "close", "claim", "settle",
                         "remove", "publish"},
           Sends(Job(kind, s, d)), epoch' = epoch,
           kind = "claim" => d # 0,
           kind = "settle" => starts'[s] \in Accepted,
           kind = "remove" => starts'[s] \in {"ending", "failed"},
           kind = "publish" => sessions'[s].phase \notin {"none", "pending"}
    PROVE  LineGrows
<1>1. kind \in Kinds /\ s \in Tabs0
  BY DEF Kinds, Tabs0
<1>2. PICK m \in Jobs : m = Job(kind, s, d) /\ m.kind = kind /\ m.s = s /\ m.doc = d /\ m.gen = 0
  BY <1>1, MessageIsTyped
<1>3. 0 <= epoch'[SourceTab]
  BY DEF PreviewInv, PreviewTypes, BrowserTypes, Tabs0
<1>4. JobFits(m)'
  BY <1>2, <1>3 DEF JobFits
<1>5. Joins(m)
  BY <1>2, <1>4 DEF Joins, Single
<1> QED
  BY <1>5 DEF LineGrows
-----------------------------------------------------------------------------
(* The source document goes on.                                            *)

LEMMA OnlyClientMeans ==
    ASSUME PreviewInv, OnlyClient
    PROVE  /\ BrowserTypes' /\ holder' = holder /\ UNCHANGED <<starts, epoch, exporting, begun, stored>>
           /\ LedgerStep /\ Abiding
<1>1. BrowserTypes'
  BY DEF PreviewInv, PreviewTypes, BrowserTypes, OnlyClient, browserSide
<1>2. LedgerStep /\ Abiding
  BY AsideLedger DEF OnlyClient, ledger
<1> QED
  BY <1>1, <1>2 DEF OnlyClient, ledger

LEMMA ClientIsFit ==
    ASSUME PreviewInv
    PROVE  /\ client \in Clients /\ ClientFits /\ source.doc \in Nat /\ source.doc # 0
           /\ client.step # "idle" => client.s \in Previews
  BY DEF PreviewInv, PreviewTypes, ClientTypes, ClientFits, BrowserTypes

\* The document asks for something and waits for the answer, or is told to stop.
LEMMA ClientMoves ==
    ASSUME PreviewInv, OnlyClient, UNCHANGED ops, LineGrows, client.step \notin {"idle", "claiming"},
           client' \in Clients, client'.s = client.s, client'.step \notin {"idle", "claiming"},
           client'.holds \subseteq client.holds
    PROVE  PreviewInv' /\ LossIsFinal
<1>1. ClientGoesOn
  BY DEF ClientGoesOn
<1>2. /\ BrowserTypes' /\ holder' = holder /\ UNCHANGED <<starts, epoch, exporting, begun, stored>>
      /\ LedgerStep /\ Abiding
  BY OnlyClientMeans
<1> QED
  BY <1>1, <1>2, AsideStep DEF Unstarted

LEMMA ClientAsksWell ==
    ASSUME PreviewInv, OnlyClient, UNCHANGED ops, client.step \notin {"idle", "claiming"},
           NEW step \in ClientPlaces \ {"idle", "claiming"}, ClientGoes(step),
           NEW kind \in {"await", "lease", "publish", "stop"}, ClientAsks(kind)
    PROVE  PreviewInv' /\ LossIsFinal
<1>1. /\ client \in Clients /\ ClientFits /\ source.doc \in Nat /\ client.s \in Previews
  BY ClientIsFit
<1>2. /\ client' \in Clients /\ client'.s = client.s /\ client'.step = step /\ client'.holds = client.holds
  BY <1>1 DEF Clients, ClientGoes
<1>3. sessions'[client.s].phase \notin {"none", "pending"} /\ epoch' = epoch
  BY <1>1, OnlyClientMeans DEF ClientFits, Abiding
<1>4. PICK s \in Previews, d \in Nat : s = client.s /\ d = source.doc
  BY <1>1
<1>5. LineGrows
  BY <1>3, <1>4, PlainMessage DEF ClientAsks
<1> QED
  BY <1>2, <1>5, ClientMoves

\* A request about a stage waits for the lock; there is none yet.
LEMMA RequestStep ==
    ASSUME PreviewInv, OnlyClient, ClientGoesOn, client.step \notin {"idle", "claiming"}, ops[client.s] = NoOp,
           NEW kind \in {"begin", "abort"}, NEW id, Requests(kind, id),
           kind = "begin" => begun[client.s] < StagesEach /\ id = <<>>,
           kind = "abort" => id \in client.holds
    PROVE  PreviewInv' /\ LossIsFinal
<1>1. /\ client \in Clients /\ ClientFits /\ source.doc \in Nat
      /\ starts[client.s] \in Accepted /\ sessions[client.s].doc # 0
      /\ id \in StageIds \cup {<<>>} /\ (kind = "abort" => Known(id))
  BY ClientIsFit DEF ClientFits, Clients
<1>2. PICK s \in Previews : s = client.s
  BY ClientIsFit
<1>3. /\ BrowserTypes' /\ holder' = holder /\ UNCHANGED <<starts, epoch, exporting, begun, stored>>
      /\ LedgerStep /\ Abiding
  BY OnlyClientMeans
<1>4. ops \in [Previews -> Ops] /\ begun \in [Previews -> 0 .. StagesEach] /\ OpsFit /\ epoch[SourceTab] \in Nat
  BY DEF PreviewInv, PreviewTypes, OpTypes, BrowserTypes, Tabs0
<1>5. PICK o : o = [step |-> "queued", kind |-> kind, doc |-> source.doc, epoch |-> epoch[SourceTab], stage |-> id]
  OBVIOUS
<1>6. o \in Ops /\ o.step = "queued" /\ o.kind = kind /\ o.stage = id
  BY <1>1, <1>4, <1>5 DEF Ops
<1>7. ops' = [ops EXCEPT ![s] = o]
  BY <1>2, <1>5 DEF Requests
<1>8. /\ ops'[s] = o /\ ops' \in [Previews -> Ops]
      /\ \A r \in Previews : r # s => ops'[r] = ops[r]
  BY <1>4, <1>6, <1>7
<1>9. ops[s].step = "none"
  BY <1>2, NoOpIsTyped
<1>10. StartsStep(FALSE)
  BY <1>3 DEF PreviewInv, PreviewTypes, StartTypes, StartsStep
<1>11. \A r \in Previews : /\ ops[r].step = "done" => ops'[r] = ops[r]
                           /\ ops[r].step = "queued" => ops'[r].step = "queued"
  BY <1>8, <1>9
<1>12. LedgerKept /\ SessionsPass
  BY <1>3, <1>10, <1>11, LedgerStays
<1>13. OpsFit'
  <2> SUFFICES ASSUME NEW r \in Previews PROVE OpFits(r)'
    BY DEF OpsFit
  <2>1. OpFits(r) /\ (sessions[r].doc # 0 => sessions'[r].doc # 0)
    BY <1>4, <1>12 DEF OpsFit, SessionsPass, Passing
  <2>2. CASE r # s
    BY <1>3, <1>8, <2>1, <2>2 DEF OpFits, Known
  <2>3. CASE r = s
    BY <1>1, <1>2, <1>3, <1>6, <1>8, <2>1, <2>3 DEF OpFits, Known
  <2> QED
    BY <2>2, <2>3
<1>14. OpTypes' /\ OpsStep(FALSE)
  BY <1>3, <1>4, <1>8, <1>11, <1>13 DEF OpTypes, OpsStep
<1>15. LineGrows
  <2>1. "authorize" \in Kinds /\ s \in Tabs0
    BY DEF Kinds, Tabs0
  <2>2. PICK m \in Jobs : m = Job("authorize", s, source.doc) /\ m.kind = "authorize" /\ m.s = s
    BY <1>1, <2>1, MessageIsTyped
  <2>3. Sends(m)
    BY <1>2, <2>2 DEF Requests, ClientAsks
  <2>4. JobFits(m)'
    BY <1>6, <1>8, <2>2 DEF JobFits
  <2>5. \A n \in Jobs : JobFits(n) => ~(n.kind = m.kind /\ n.s = m.s)
    BY <1>9, <2>2 DEF JobFits
  <2> QED
    BY <2>3, <2>4, <2>5 DEF LineGrows, Joins
<1>16. ClientStep
  <2>1. begun' = begun
    BY <1>3
  <2>2. \A r \in Previews : begun[r] \in Nat
    BY <1>4, TextPreviewParameters
  <2>3. \A r \in Previews : begun[r] <= begun'[r]
    BY <2>1, <2>2
  <2> QED
    BY <1>10, <1>12, <1>14, <2>3, ClientPasses
<1> QED
  BY <1>3, <1>10, <1>12, <1>14, <1>15, <1>16, OutsideStep
LEMMA ClientBeginsStageKeeps == ASSUME PreviewInv, ClientBeginsStage PROVE PreviewInv' /\ LossIsFinal
<1>1. PICK id : id = <<>>
  OBVIOUS
<1>2. Requests("begin", id) /\ OnlyClient /\ ClientGoesOn
  BY <1>1 DEF ClientBeginsStage, ClientGoesOn, OnlyClient
<1> QED
  BY <1>1, <1>2, RequestStep DEF ClientBeginsStage

LEMMA ClientDiscardsKeeps == ASSUME PreviewInv, ClientDiscards PROVE PreviewInv' /\ LossIsFinal
<1>1. PICK id \in client.holds : client' = [client EXCEPT !.holds = @ \ {id}] /\ Requests("abort", id)
  BY DEF ClientDiscards
<1>2. client \in Clients
  BY ClientIsFit
<1>3. PICK less : less = client.holds \ {id}
  OBVIOUS
<1>4. less \in SUBSET StageIds /\ less \subseteq client.holds
  BY <1>2, <1>3 DEF Clients
<1>5. client' \in Clients /\ client'.s = client.s /\ client'.step = client.step /\ client'.holds = less
  BY <1>1, <1>2, <1>3, <1>4 DEF Clients
<1>6. client.step \notin {"idle", "claiming"} /\ OnlyClient /\ ops[client.s] = NoOp
  BY DEF ClientDiscards
<1>7. ClientGoesOn
  BY <1>4, <1>5, <1>6 DEF ClientGoesOn
<1> QED
  BY <1>1, <1>6, <1>7, RequestStep

LEMMA ClientSelectsKeeps == ASSUME PreviewInv, ClientSelects PROVE PreviewInv' /\ LossIsFinal
<1>1. "selecting" \in ClientPlaces \ {"idle", "claiming"}
  BY DEF ClientPlaces
<1> QED
  BY <1>1, ClientAsksWell DEF ClientSelects

LEMMA ClientChecksKeeps == ASSUME PreviewInv, ClientChecks PROVE PreviewInv' /\ LossIsFinal
<1>1. "checking" \in ClientPlaces \ {"idle", "claiming"}
  BY DEF ClientPlaces
<1> QED
  BY <1>1, ClientAsksWell DEF ClientChecks

LEMMA ClientPublishesKeeps == ASSUME PreviewInv, ClientPublishes PROVE PreviewInv' /\ LossIsFinal
<1>1. "publishing" \in ClientPlaces \ {"idle", "claiming"}
  BY DEF ClientPlaces
<1> QED
  BY <1>1, ClientAsksWell DEF ClientPublishes

LEMMA ClientStopsKeeps == ASSUME PreviewInv, ClientStops PROVE PreviewInv' /\ LossIsFinal
<1>1. "stopping" \in ClientPlaces \ {"idle", "claiming"}
  BY DEF ClientPlaces
<1> QED
  BY <1>1, ClientAsksWell DEF ClientStops

LEMMA ClientGivesUpKeeps == ASSUME PreviewInv, ClientGivesUp PROVE PreviewInv' /\ LossIsFinal
<1>1. client.step \notin {"idle", "claiming"} /\ OnlyClient /\ UNCHANGED ops /\ LineGrows
  BY DEF ClientGivesUp, LineGrows
<1>2. client \in Clients
  BY ClientIsFit
<1>3. PICK holds \in {{}, client.holds} : client' = [client EXCEPT !.step = "failing", !.holds = holds]
  BY DEF ClientGivesUp
<1>4. holds \in SUBSET StageIds /\ holds \subseteq client.holds
  BY <1>2, <1>3 DEF Clients
<1>5. client' \in Clients /\ client'.s = client.s /\ client'.step = "failing" /\ client'.holds = holds
  BY <1>2, <1>3, <1>4 DEF Clients, ClientPlaces
<1> QED
  BY <1>1, <1>4, <1>5, ClientMoves

LEMMA AbortedMeans ==
    ASSUME PreviewInv, Scoped
    PROVE  /\ Aborted \in Clients /\ Aborted.s = client.s /\ Aborted.step \notin {"idle", "claiming"}
           /\ Aborted.holds = client.holds /\ client.step \notin {"idle", "claiming"}
<1>1. client \in Clients /\ client.step \notin {"idle", "claiming"}
  BY ClientIsFit DEF Scoped
<1>2. PICK step : step = IF client.step \in {"selecting", "choosing"} THEN "failing" ELSE client.step
  OBVIOUS
<1>3. step \in ClientPlaces \ {"idle", "claiming"}
  BY <1>1, <1>2 DEF Clients, ClientPlaces
<1>4. Aborted = [client EXCEPT !.stopped = TRUE, !.step = step]
  BY <1>1, <1>2 DEF Aborted, Clients
<1> QED
  BY <1>1, <1>3, <1>4 DEF Clients

LEMMA CaptureExpiresKeeps == ASSUME PreviewInv, CaptureExpires PROVE PreviewInv' /\ LossIsFinal
<1>1. Scoped /\ client' = Aborted /\ OnlyClient /\ UNCHANGED ops /\ LineGrows
  BY DEF CaptureExpires, LineGrows
<1> QED
  BY <1>1, AbortedMeans, ClientMoves

LEMMA CancelArrivesKeeps ==
    ASSUME PreviewInv, NEW s \in Previews, CancelArrives(s) PROVE PreviewInv' /\ LossIsFinal
<1>1. UNCHANGED <<sessions, tombs, reserved, stored, epoch, revision, queue, holder, ops, starts,
                  browserSide, bounds>>
  BY DEF CancelArrives
<1>2. BrowserTypes' /\ Unstarted /\ LineGrows
  BY <1>1 DEF PreviewInv, PreviewTypes, BrowserTypes, browserSide, bounds, Unstarted, LineGrows
<1>3. LedgerStep /\ Abiding
  BY <1>1, AsideLedger
<1>4. client' = client \/ (Scoped /\ client' = Aborted)
  BY DEF CancelArrives
<1>5. ClientGoesOn
  <2>1. CASE client' = client
    BY <1>1, <2>1 DEF ClientGoesOn
  <2>2. CASE Scoped /\ client' = Aborted
    <3>1. /\ client' \in Clients /\ client'.s = client.s /\ client'.step \notin {"idle", "claiming"}
          /\ client'.holds = client.holds /\ client.step \notin {"idle", "claiming"}
      BY <2>2, AbortedMeans
    <3> QED
      BY <3>1 DEF ClientGoesOn
  <2> QED
    BY <1>4, <2>1, <2>2
<1> QED
  BY <1>1, <1>2, <1>3, <1>5, AsideStep
-----------------------------------------------------------------------------
(* A start goes on beside the lock.                                        *)

LEMMA BeforeJobMeans ==
    ASSUME PreviewInv, BeforeJob
    PROVE  /\ UNCHANGED <<sessions, tombs, reserved, stored, epoch, exporting, begun, ops>>
           /\ holder' = holder /\ client' = client /\ UNCHANGED <<source, revision>>
  BY DEF BeforeJob, OnlyStarts, ledger

LEMMA BrowserRests ==
    ASSUME PreviewInv, UNCHANGED <<epoch, revision, source>>,
           news' \in Seq(Tabs0 \X TabNews), views' \in [Previews -> Views]
    PROVE  BrowserTypes'
  BY DEF PreviewInv, PreviewTypes, BrowserTypes

LEMMA BrowserIsTyped ==
    ASSUME PreviewInv
    PROVE  /\ news \in Seq(Tabs0 \X TabNews) /\ views \in [Previews -> Views]
           /\ epoch \in [Tabs0 -> Nat] /\ revision \in Nat
           /\ source \in [doc: Nat \ {0}, at: {"exact", "loading", "other", "gone"}]
  BY DEF PreviewInv, PreviewTypes, BrowserTypes

\* The document of a preview is gone: the browser will tell, and the session is to end.
LEMMA UnloadsWell ==
    ASSUME PreviewInv, NEW s \in Previews, NEW what \in {"removed", "loading"}, Unloads(s, what), epoch' = epoch
    PROVE  LineGrows /\ news' \in Seq(Tabs0 \X TabNews) /\ views' \in [Previews -> Views]
<1>1. /\ news \in Seq(Tabs0 \X TabNews) /\ views \in [Previews -> Views]
      /\ Sends(Job("close", s, views[s].doc)) /\ news' = Append(news, <<s, what>>)
  BY BrowserIsTyped DEF Unloads
<1>2. views[s].doc \in Nat /\ <<s, what>> \in Tabs0 \X TabNews
  BY <1>1 DEF Views, Tabs0, TabNews
<1>3. LineGrows
  BY <1>1, <1>2, PlainMessage
<1>4. PICK v \in Views : v = views[s]
  BY <1>1
<1>5. v.doc + 1 \in Nat
  BY DEF Views
<1>6. PICK w : w = IF what = "removed" THEN [v EXCEPT !.at = "gone"] ELSE [v EXCEPT !.doc = v.doc + 1, !.step = "idle"]
  OBVIOUS
<1>7. w \in Views
  BY <1>5, <1>6 DEF Views, ViewPlaces
<1>8. views' = [views EXCEPT ![s] = w]
  BY <1>4, <1>6 DEF Unloads
<1> QED
  BY <1>1, <1>2, <1>3, <1>7, <1>8

LEMMA WindowOpensKeeps ==
    ASSUME PreviewInv, NEW s \in Previews, WindowOpens(s) PROVE PreviewInv' /\ LossIsFinal
<1>1. starts[s] = "opening" /\ UNCHANGED <<queue, news>> /\ BeforeJob
  BY DEF WindowOpens
<1>2. PICK to \in {"navigating", "refused"} : StartGoes(s, to)
  BY DEF WindowOpens
<1>3. views' \in [Previews -> Views]
  <2>1. [at |-> "open", doc |-> 1, step |-> "idle"] \in Views
    BY DEF Views, ViewPlaces
  <2> QED
    BY <2>1, BrowserIsTyped DEF WindowOpens
<1>4. BrowserTypes'
  BY <1>1, <1>3, BrowserRests, BrowserIsTyped, BeforeJobMeans
<1>5. to \in StartPlaces \ Unborn /\ starts[s] \notin Accepted /\ LineGrows
  BY <1>1, <1>2 DEF StartPlaces, Unborn, Accepted, LineGrows
<1>6. client.step = "claiming" => client.s # s
  BY <1>1 DEF PreviewInv, ClientFits
<1> QED
  BY <1>1, <1>2, <1>4, <1>5, <1>6, BeforeJobMeans, AsideStart

LEMMA WindowNavigatesKeeps ==
    ASSUME PreviewInv, NEW s \in Previews, WindowNavigates(s) PROVE PreviewInv' /\ LossIsFinal
<1>1. starts[s] = "navigating" /\ BeforeJob
  BY DEF WindowNavigates
<1>2. PICK to \in {"confirming", "refused"} : StartGoes(s, to)
  BY DEF WindowNavigates
<1>3. LineGrows /\ news' \in Seq(Tabs0 \X TabNews) /\ views' \in [Previews -> Views]
  <2>1. Unloads(s, "loading") \/ UNCHANGED <<queue, news, views>>
    BY DEF WindowNavigates
  <2>2. CASE Unloads(s, "loading")
    BY <1>1, <2>2, UnloadsWell, BeforeJobMeans
  <2>3. CASE UNCHANGED <<queue, news, views>>
    BY <2>3, BrowserIsTyped DEF LineGrows
  <2> QED
    BY <2>1, <2>2, <2>3
<1>4. BrowserTypes'
  BY <1>1, <1>3, BrowserRests, BeforeJobMeans
<1>5. to \in StartPlaces \ Unborn /\ starts[s] \notin Accepted
  BY <1>1, <1>2 DEF StartPlaces, Unborn, Accepted
<1>6. client.step = "claiming" => client.s # s
  BY <1>1 DEF PreviewInv, ClientFits
<1> QED
  BY <1>1, <1>2, <1>3, <1>4, <1>5, <1>6, BeforeJobMeans, AsideStart

LEMMA NavigationConfirmedKeeps ==
    ASSUME PreviewInv, NEW s \in Previews, NavigationConfirmed(s) PROVE PreviewInv' /\ LossIsFinal
<1>1. starts[s] = "confirming" /\ BeforeJob /\ UNCHANGED <<news, views>>
  BY DEF NavigationConfirmed
<1>2. PICK to \in {"registering", "refused"} :
          /\ StartGoes(s, to)
          /\ \/ queue' = queue
             \/ to = "registering" /\ Sends([Job("register", s, 0) EXCEPT !.gen = epoch[s]])
  BY DEF NavigationConfirmed
<1>3. starts'[s] = to
  BY <1>2 DEF StartGoes, PreviewInv, PreviewTypes, StartTypes
<1>4. LineGrows
  <2>1. CASE queue' = queue
    BY <2>1 DEF LineGrows
  <2>2. CASE to = "registering" /\ Sends([Job("register", s, 0) EXCEPT !.gen = epoch[s]])
    <3>1. "register" \in Kinds /\ s \in Tabs0 /\ epoch[s] \in Nat /\ 0 \in Nat
      BY BrowserIsTyped DEF Kinds, Tabs0
    <3>2. PICK j \in Jobs : j = Job("register", s, 0) /\ j.kind = "register" /\ j.s = s
      BY <3>1, MessageIsTyped
    <3>3. PICK m : m = [j EXCEPT !.gen = epoch[s]]
      OBVIOUS
    <3>4. m \in Jobs /\ m.kind = "register" /\ m.s = s
      BY <3>1, <3>2, <3>3 DEF Jobs
    <3>5. Sends(m)
      BY <2>2, <3>2, <3>3
    <3>6. JobFits(m)'
      BY <1>3, <2>2, <3>4 DEF JobFits
    <3>7. \A n \in Jobs : JobFits(n) => ~(n.kind = m.kind /\ n.s = m.s)
      BY <1>1, <3>4 DEF JobFits
    <3> QED
      BY <3>4, <3>5, <3>6, <3>7 DEF LineGrows, Joins
  <2> QED
    BY <1>2, <2>1, <2>2
<1>5. BrowserTypes'
  BY <1>1, BrowserRests, BrowserIsTyped, BeforeJobMeans
<1>6. to \in StartPlaces \ Unborn /\ starts[s] \notin Accepted
  BY <1>1, <1>2 DEF StartPlaces, Unborn, Accepted
<1>7. client.step = "claiming" => client.s # s
  BY <1>1 DEF PreviewInv, ClientFits
<1> QED
  BY <1>1, <1>2, <1>4, <1>5, <1>6, <1>7, BeforeJobMeans, AsideStart

LEMMA BeginIsLostKeeps ==
    ASSUME PreviewInv, NEW s \in Previews, BeginIsLost(s) PROVE PreviewInv' /\ LossIsFinal
<1>1. /\ starts[s] = "accepting" /\ BeforeJob /\ UNCHANGED <<queue, news, views>> /\ StartGoes(s, "refused")
      /\ client.s # s
  BY DEF BeginIsLost
<1>2. BrowserTypes' /\ LineGrows
  BY <1>1, BrowserRests, BrowserIsTyped, BeforeJobMeans DEF LineGrows
<1>3. "refused" \in StartPlaces \ Unborn /\ starts[s] \notin Accepted
  BY <1>1 DEF StartPlaces, Unborn, Accepted
<1> QED
  BY <1>1, <1>2, <1>3, BeforeJobMeans, AsideStart

\* The job that a start waits for, which is of a start that went so far.
LEMMA StartAsks ==
    ASSUME PreviewInv, BeforeJob, UNCHANGED <<news, views>>, NEW s \in Previews,
           NEW kind \in {"settle", "remove", "choose"}, Sends(Job(kind, s, 0)),
           NEW to \in StartPlaces \ Unborn, StartGoes(s, to),
           starts[s] \notin {"none", "reserved", "registering", "accepting", "ending", "failed"},
           starts[s] \in Accepted => to \in Accepted,
           kind = "settle" => to \in Accepted,
           kind = "remove" => to \in {"ending", "failed"}
    PROVE  PreviewInv' /\ LossIsFinal
<1>1. starts'[s] = to
  BY DEF StartGoes, PreviewInv, PreviewTypes, StartTypes
<1>2. BrowserTypes' /\ epoch' = epoch
  BY BrowserRests, BrowserIsTyped, BeforeJobMeans
<1>3. PICK d \in Nat : d = 0
  OBVIOUS
<1>4. LineGrows
  BY <1>1, <1>2, <1>3, PlainMessage
<1>5. client.step = "claiming" => client.s # s
  BY DEF PreviewInv, ClientFits
<1> QED
  BY <1>2, <1>4, <1>5, BeforeJobMeans, AsideStart

LEMMA StartConcludesKeeps ==
    ASSUME PreviewInv, NEW s \in Previews, StartConcludes(s) PROVE PreviewInv' /\ LossIsFinal
<1>1. BeforeJob /\ UNCHANGED <<news, views>>
  BY DEF StartConcludes
<1>2. {"settling", "ending"} \subseteq StartPlaces \ Unborn /\ "settling" \in Accepted /\ "refused" \notin Accepted
  BY DEF StartPlaces, Unborn, Accepted
<1>3. CASE starts[s] = "accepted" /\ StartGoes(s, "settling") /\ Sends(Job("settle", s, 0))
  BY <1>1, <1>2, <1>3, StartAsks
<1>4. CASE starts[s] = "refused" /\ StartGoes(s, "ending") /\ Sends(Job("remove", s, 0))
  BY <1>1, <1>2, <1>4, StartAsks
<1> QED
  BY <1>3, <1>4 DEF StartConcludes

LEMMA UserChoosesKeeps ==
    ASSUME PreviewInv, NEW s \in Previews, UserChooses(s) PROVE PreviewInv' /\ LossIsFinal
<1>1. "chosen" \in StartPlaces \ Unborn /\ "chosen" \in Accepted
  BY DEF StartPlaces, Unborn, Accepted
<1> QED
  BY <1>1, StartAsks DEF UserChooses

LEMMA WindowRemovedKeeps ==
    ASSUME PreviewInv, NEW s \in Previews, WindowRemoved(s) PROVE PreviewInv' /\ LossIsFinal
<1>1. Unloads(s, "removed") /\ starts' = starts /\ BeforeJob
  BY DEF WindowRemoved
<1>2. LineGrows /\ BrowserTypes'
  BY <1>1, UnloadsWell, BrowserRests, BeforeJobMeans
<1>3. Unstarted /\ ClientGoesOn /\ LedgerStep /\ Abiding
  BY <1>1, BeforeJobMeans, AsideLedger DEF Unstarted, ClientGoesOn
<1> QED
  BY <1>1, <1>2, <1>3, BeforeJobMeans, AsideStep
-----------------------------------------------------------------------------
(* The preview window, and the source tab.                                 *)

LEMMA WindowStep ==
    ASSUME PreviewInv, OnlyWindow, LineGrows, news' \in Seq(Tabs0 \X TabNews), views' \in [Previews -> Views]
    PROVE  PreviewInv' /\ LossIsFinal
<1>1. BrowserTypes' /\ holder' = holder
  BY BrowserRests DEF OnlyWindow
<1>2. Unstarted /\ ClientGoesOn /\ LedgerStep /\ Abiding
  BY AsideLedger DEF OnlyWindow, ledger, Unstarted, ClientGoesOn
<1> QED
  BY <1>1, <1>2, AsideStep

LEMMA PageGoesWell ==
    ASSUME PreviewInv, NEW s \in Previews, NEW step \in ViewPlaces, PageGoes(s, step)
    PROVE  views' \in [Previews -> Views]
<1>1. PICK v \in Views : v = views[s]
  BY BrowserIsTyped
<1>2. [v EXCEPT !.step = step] \in Views
  BY DEF Views
<1>3. views' = [views EXCEPT ![s] = [v EXCEPT !.step = step]]
  BY <1>1, BrowserIsTyped DEF PageGoes
<1> QED
  BY <1>2, <1>3, BrowserIsTyped

LEMMA PageAsksWell ==
    ASSUME PreviewInv, NEW s \in Previews, NEW kind \in {"status", "take", "ack", "close"}, PageAsks(s, kind),
           epoch' = epoch
    PROVE  LineGrows
<1>1. views[s].doc \in Nat
  BY BrowserIsTyped DEF Views
<1>2. PICK d \in Nat : d = views[s].doc
  BY <1>1
<1>3. Sends(Job(kind, s, d))
  BY <1>2 DEF PageAsks
<1> QED
  BY <1>3, PlainMessage

LEMMA PageRequestsKeeps ==
    ASSUME PreviewInv, NEW s \in Previews, PageRequests(s) PROVE PreviewInv' /\ LossIsFinal
<1>1. OnlyWindow /\ news' = news /\ epoch' = epoch
  BY DEF PageRequests, OnlyWindow
<1>2. PICK step \in {"asking", "taking", "acking", "checking"}, kind \in {"status", "take", "ack"} :
          PageGoes(s, step) /\ PageAsks(s, kind)
  <2>1. /\ views[s].step \in {"idle", "offered", "taken", "showing"}
        /\ PageGoes(s, Request[views[s].step][1]) /\ PageAsks(s, Request[views[s].step][2])
    BY DEF PageRequests, Request
  <2>2. CASE views[s].step = "idle"
    BY <2>1, <2>2 DEF Request
  <2>3. CASE views[s].step = "offered"
    BY <2>1, <2>3 DEF Request
  <2>4. CASE views[s].step = "taken"
    BY <2>1, <2>4 DEF Request
  <2>5. CASE views[s].step = "showing"
    BY <2>1, <2>5 DEF Request
  <2> QED
    BY <2>1, <2>2, <2>3, <2>4, <2>5
<1>3. step \in ViewPlaces /\ LineGrows
  BY <1>1, <1>2, PageAsksWell DEF ViewPlaces
<1>4. views' \in [Previews -> Views]
  BY <1>2, <1>3, PageGoesWell
<1> QED
  BY <1>1, <1>3, <1>4, BrowserIsTyped, WindowStep

LEMMA AnswerIsLostKeeps ==
    ASSUME PreviewInv, NEW s \in Previews, AnswerIsLost(s) PROVE PreviewInv' /\ LossIsFinal
<1>1. OnlyWindow /\ news' = news /\ epoch' = epoch
  BY DEF AnswerIsLost, OnlyWindow
<1>2. PICK step \in {"reconciling", "erased"} :
          PageGoes(s, step) /\ (PageAsks(s, "status") \/ queue' = queue)
  BY DEF AnswerIsLost
<1>3. step \in ViewPlaces /\ LineGrows
  BY <1>1, <1>2, PageAsksWell DEF ViewPlaces, LineGrows
<1>4. views' \in [Previews -> Views]
  BY <1>2, <1>3, PageGoesWell
<1> QED
  BY <1>1, <1>3, <1>4, BrowserIsTyped, WindowStep

LEMMA PageEnds ==
    ASSUME PreviewInv, NEW s \in Previews, OnlyWindow, news' = news, PageGoes(s, "erased"),
           PageAsks(s, "close") \/ queue' = queue
    PROVE  PreviewInv' /\ LossIsFinal
<1>1. "erased" \in ViewPlaces /\ epoch' = epoch
  BY DEF ViewPlaces, OnlyWindow
<1>2. LineGrows
  BY <1>1, PageAsksWell DEF LineGrows
<1>3. views' \in [Previews -> Views]
  BY <1>1, PageGoesWell
<1> QED
  BY <1>2, <1>3, BrowserIsTyped, WindowStep

LEMMA PageExpiresKeeps ==
    ASSUME PreviewInv, NEW s \in Previews, PageExpires(s) PROVE PreviewInv' /\ LossIsFinal
  BY PageEnds DEF PageExpires

LEMMA PageClearsKeeps ==
    ASSUME PreviewInv, NEW s \in Previews, PageClears(s) PROVE PreviewInv' /\ LossIsFinal
  BY PageEnds DEF PageClears

LEMMA WindowGoesKeeps ==
    ASSUME PreviewInv, NEW s \in Previews, WindowGoes(s) PROVE PreviewInv' /\ LossIsFinal
<1>1. OnlyWindow /\ epoch' = epoch
  BY DEF WindowGoes, OnlyWindow
<1>2. PICK what \in {"removed", "loading"} : Unloads(s, what)
  BY DEF WindowGoes
<1> QED
  BY <1>1, <1>2, UnloadsWell, WindowStep

LEMMA SourceStep ==
    ASSUME PreviewInv, OnlySource, client' = client \/ client' = NoClient,
           source' \in [doc: Nat \ {0}, at: {"exact", "loading", "other", "gone"}],
           news' = news \/ \E what \in TabNews : SourceTells(what)
    PROVE  PreviewInv' /\ LossIsFinal
<1>1. news' \in Seq(Tabs0 \X TabNews)
  <2>1. ASSUME NEW what \in TabNews, SourceTells(what) PROVE news' \in Seq(Tabs0 \X TabNews)
    <3>1. <<SourceTab, what>> \in Tabs0 \X TabNews
      BY DEF Tabs0
    <3> QED
      BY <2>1, <3>1, BrowserIsTyped DEF SourceTells
  <2> QED
    BY <2>1, BrowserIsTyped
<1>2. BrowserTypes' /\ holder' = holder /\ LineGrows
  BY <1>1, BrowserIsTyped DEF BrowserTypes, OnlySource, LineGrows
<1>3. Unstarted /\ ClientGoesOn /\ LedgerStep /\ Abiding
  BY AsideLedger DEF OnlySource, ledger, Unstarted, ClientGoesOn, NoClient
<1> QED
  BY <1>2, <1>3, AsideStep

LEMMA SourceReloadsKeeps == ASSUME PreviewInv, SourceReloads PROVE PreviewInv' /\ LossIsFinal
<1>1. source.doc + 1 \in Nat \ {0}
  BY BrowserIsTyped
<1>2. source' \in [doc: Nat \ {0}, at: {"exact", "loading", "other", "gone"}]
  BY <1>1 DEF SourceReloads
<1> QED
  BY <1>2, SourceStep DEF SourceReloads, TabNews

LEMMA SourceLoadsKeeps == ASSUME PreviewInv, SourceLoads PROVE PreviewInv' /\ LossIsFinal
<1>1. source' \in [doc: Nat \ {0}, at: {"exact", "loading", "other", "gone"}]
  BY BrowserIsTyped DEF SourceLoads
<1> QED
  BY <1>1, SourceStep DEF SourceLoads

LEMMA SourceWandersKeeps == ASSUME PreviewInv, SourceWanders PROVE PreviewInv' /\ LossIsFinal
<1>1. source' \in [doc: Nat \ {0}, at: {"exact", "loading", "other", "gone"}]
  BY BrowserIsTyped DEF SourceWanders
<1> QED
  BY <1>1, SourceStep DEF SourceWanders, TabNews

LEMMA SourceClosesKeeps == ASSUME PreviewInv, SourceCloses PROVE PreviewInv' /\ LossIsFinal
<1>1. source' \in [doc: Nat \ {0}, at: {"exact", "loading", "other", "gone"}]
  BY BrowserIsTyped DEF SourceCloses
<1> QED
  BY <1>1, SourceStep DEF SourceCloses, TabNews
-----------------------------------------------------------------------------
(* The clock, other exports, and the listeners of the tabs.                *)

LEMMA OnlyWorkerMeans ==
    ASSUME PreviewInv, OnlyWorker
    PROVE  /\ LineGrows /\ ClientGoesOn /\ (revision' \in Nat => BrowserTypes')
           /\ holder' = holder /\ UNCHANGED <<reserved, stored, epoch, starts, ops, begun>>
  BY DEF PreviewInv, PreviewTypes, BrowserTypes, OnlyWorker, browserSide, LineGrows, ClientGoesOn

LEMMA DeadlinePassesKeeps ==
    ASSUME PreviewInv, NEW s \in Previews, DeadlinePasses(s) PROVE PreviewInv' /\ LossIsFinal
<1>1. UNCHANGED <<revision, exporting>> /\ OnlyWorker /\ revision \in Nat
  BY BrowserIsTyped DEF DeadlinePasses
<1>2. /\ LineGrows /\ ClientGoesOn /\ BrowserTypes'
      /\ holder' = holder /\ UNCHANGED <<reserved, stored, epoch, starts, ops, begun>>
  BY <1>1, OnlyWorkerMeans
<1>3. Unstarted
  BY <1>1, <1>2 DEF Unstarted
<1>4. LedgerStep /\ Abiding
  <2>1. PICK x \in Sessions, t \in Tombs : x = sessions[s] /\ t = tombs[s]
    BY DEF PreviewInv, PreviewTypes, LedgerTypes
  <2>2. CASE \E y \in Sessions : Alike(x, y) /\ sessions' = [sessions EXCEPT ![s] = y] /\ UNCHANGED tombs
    <3>1. PICK y \in Sessions : Alike(x, y) /\ sessions' = [sessions EXCEPT ![s] = y] /\ UNCHANGED tombs
      BY <2>2
    <3>2. PICK base : base = [sessions EXCEPT ![s] = y]
      OBVIOUS
    <3>3. sessions \in [Previews -> Sessions] /\ LedgerTypes /\ StartFits /\ LedgerFits /\ StoredFits
      BY DEF PreviewInv, PreviewTypes, LedgerTypes
    <3>4. \A r \in Previews : sessions'[r] \in Sessions /\ Alike(sessions[r], sessions'[r])
      <4> TAKE r \in Previews
      <4>1. CASE r = s
        BY <2>1, <3>1, <3>3, <4>1
      <4>2. CASE r # s
        BY <3>1, <3>3, <4>2 DEF Alike
      <4> QED
        BY <4>1, <4>2
    <3>5. LedgerTypes'
      BY <1>2, <3>1, <3>3 DEF LedgerTypes
    <3>6. ASSUME NEW r \in Previews
          PROVE  /\ Passing(sessions[r], sessions'[r]) /\ SessionFits(sessions'[r], tombs'[r])
                 /\ sessions'[r].held = sessions[r].held /\ sessions'[r].gen <= epoch[SourceTab]
                 /\ starts[r] \in Unborn => sessions'[r].phase = "none"
                 /\ sessions'[r].stages = sessions[r].stages
                 /\ sessions'[r].phase = sessions[r].phase /\ sessions'[r].lost = sessions[r].lost
      <4>1. SessionFits(sessions[r], tombs'[r]) /\ sessions[r] \in Sessions /\ sessions[r].gen <= epoch[SourceTab]
            /\ (starts[r] \in Unborn => sessions[r].phase = "none")
        BY <3>1, <3>3 DEF LedgerFits, StartFits
      <4>2. PICK u \in Sessions, v \in Sessions : u = sessions[r] /\ v = sessions'[r] /\ Alike(u, v)
        BY <3>4, <4>1
      <4>3. Passing(u, v) /\ SessionFits(v, tombs'[r])
        BY <4>1, <4>2, AlikePasses
      <4> QED
        BY <4>1, <4>2, <4>3 DEF Alike
    <3>7. \A id \in stored' : OwnedAfter(id)
      <4>1. \A id \in stored : id[1] \in Previews
        BY <3>3, StageOwners
      <4> QED
        BY <1>2, <3>1, <3>3, <3>6, <4>1 DEF StoredFits, StagesAreOwned, OwnedAfter
    <3>8. LedgerStep
      BY <1>2, <3>5, <3>6, <3>7, QuietLedger
    <3> QED
      BY <3>6, <3>8 DEF Abiding
  <2>3. CASE t.state = "there" /\ tombs' = [tombs EXCEPT ![s].state = "over"] /\ UNCHANGED sessions
    <3>1. PICK u : u = [t EXCEPT !.state = "over"]
      OBVIOUS
    <3>2. u \in Tombs /\ u.state = "over" /\ u.stages = t.stages
      BY <3>1 DEF Tombs
    <3>3. LedgerTypes /\ StartFits /\ LedgerFits /\ StoredFits
      BY DEF PreviewInv, PreviewTypes
    <3>4. /\ tombs' \in [Previews -> Tombs] /\ tombs'[s] = u
          /\ \A r \in Previews : r # s => tombs'[r] = tombs[r]
      BY <2>1, <2>3, <3>1, <3>2, <3>3 DEF LedgerTypes
    <3>5. LedgerTypes'
      BY <1>2, <2>3, <3>3, <3>4 DEF LedgerTypes
    <3>6. SessionFits(x, u)
      <4>1. SessionFits(x, t)
        BY <2>1, <3>3 DEF LedgerFits
      <4>2. t # NoTomb
        BY <2>3 DEF NoTomb
      <4> QED
        BY <3>2, <4>1, <4>2 DEF SessionFits
    <3>7. ASSUME NEW r \in Previews
          PROVE  /\ Passing(sessions[r], sessions'[r]) /\ SessionFits(sessions'[r], tombs'[r])
                 /\ sessions'[r].held = sessions[r].held /\ sessions'[r].gen <= epoch[SourceTab]
                 /\ starts[r] \in Unborn => sessions'[r].phase = "none"
      <4>1. SessionFits(sessions'[r], tombs'[r])
        BY <2>1, <2>3, <3>3, <3>4, <3>6 DEF LedgerFits
      <4>2. sessions'[r] = sessions[r]
        BY <2>3
      <4> QED
        BY <3>3, <4>1, <4>2 DEF LedgerFits, StartFits, Passing
    <3>8. \A id \in stored' : OwnedAfter(id)
      <4>1. \A id \in stored : id[1] \in Previews
        BY <3>3, StageOwners
      <4>2. \A r \in Previews : tombs'[r].stages = tombs[r].stages
                                /\ (tombs[r].state = "expired" => tombs'[r].state = "expired")
        BY <2>1, <2>3, <3>2, <3>4
      <4> QED
        BY <1>2, <2>3, <3>3, <4>1, <4>2 DEF StoredFits, StagesAreOwned, OwnedAfter
    <3>9. LedgerStep
      BY <1>2, <3>5, <3>7, <3>8, QuietLedger
    <3> QED
      BY <2>3, <3>9 DEF Abiding
  <2>4. \/ \E y \in Sessions : Alike(x, y) /\ sessions' = [sessions EXCEPT ![s] = y] /\ UNCHANGED tombs
        \/ t.state = "there" /\ tombs' = [tombs EXCEPT ![s].state = "over"] /\ UNCHANGED sessions
    <3>1. PICK y1 : y1 = [x EXCEPT !.over = TRUE]
      OBVIOUS
    <3>2. PICK y2 : y2 = [x EXCEPT !.over = TRUE, !.leaseOver = TRUE]
      OBVIOUS
    <3>3. y1 \in Sessions /\ Alike(x, y1) /\ y2 \in Sessions /\ Alike(x, y2)
      BY <3>1, <3>2 DEF Sessions, Alike
    <3>4. Passes(s)
      BY DEF DeadlinePasses
    <3>5. \/ sessions' = [sessions EXCEPT ![s].over = TRUE] /\ UNCHANGED tombs
          \/ sessions' = [sessions EXCEPT ![s].over = TRUE, ![s].leaseOver = TRUE] /\ UNCHANGED tombs
          \/ t.state = "there" /\ tombs' = [tombs EXCEPT ![s].state = "over"] /\ UNCHANGED sessions
      BY <2>1, <3>4 DEF Passes
    <3>6. /\ [sessions EXCEPT ![s].over = TRUE] = [sessions EXCEPT ![s] = y1]
          /\ [sessions EXCEPT ![s].over = TRUE, ![s].leaseOver = TRUE] = [sessions EXCEPT ![s] = y2]
      BY <2>1, <3>1, <3>2 DEF PreviewInv, PreviewTypes, LedgerTypes, Sessions
    <3> QED
      BY <3>3, <3>5, <3>6
  <2> QED
    BY <2>2, <2>3, <2>4
<1> QED
  BY <1>2, <1>3, <1>4, AsideStep

\* An export of the source tab starts only where no preview reserves it.
LEMMA ElsewhereKeeps == ASSUME PreviewInv, Elsewhere PROVE PreviewInv' /\ LossIsFinal
<1>1. OnlyWorker /\ UNCHANGED <<sessions, tombs>> /\ revision' \in Nat /\ (exporting' => ~reserved \/ exporting)
  BY BrowserIsTyped DEF Elsewhere
<1>2. /\ LineGrows /\ ClientGoesOn /\ BrowserTypes'
      /\ holder' = holder /\ UNCHANGED <<reserved, stored, epoch, starts, ops, begun, client>>
  BY <1>1, OnlyWorkerMeans DEF OnlyWorker
<1>3. LedgerStep /\ Abiding
  BY <1>1, <1>2, AsideLedger
<1>4. StartsStep(FALSE)
  BY <1>2 DEF PreviewInv, PreviewTypes, StartTypes, StartsStep
<1>5. SessionsPass
  BY <1>3 DEF LedgerStep, SessionsPass
<1>6. LedgerKept
  <2>1. SourceIsReserved'
    BY <1>1, <1>2 DEF PreviewInv, SourceIsReserved, HoldsSource
  <2>2. StartFits' /\ StoredFits'
    BY <1>1, <1>2 DEF PreviewInv, StartFits, StoredFits, StagesAreOwned, Known
  <2> QED
    BY <1>3, <2>1, <2>2 DEF LedgerKept, LedgerStep
<1>7. OpsStep(FALSE)
  BY <1>2, <1>4, <1>5, OpsRest
<1>8. ClientStep
  BY <1>2, <1>4, <1>5, ClientRests
<1> QED
  BY <1>2, <1>3, <1>4, <1>5, <1>6, <1>7, <1>8, OutsideStep
-----------------------------------------------------------------------------
(* A start, the claim of its document, and a stage.                        *)

LEMMA DocumentBeginsKeeps ==
    ASSUME PreviewInv, NEW s \in Previews, DocumentBegins(s) PROVE PreviewInv' /\ LossIsFinal
<1>1. starts[s] = "beginning" /\ UNCHANGED <<ledger, holder, epoch, revision, ops, browserSide, bounds>>
  BY DEF DocumentBegins
<1>2. UNCHANGED <<sessions, tombs, reserved, stored, epoch, exporting, begun, ops, holder>> /\ BrowserTypes'
  BY <1>1 DEF PreviewInv, PreviewTypes, BrowserTypes, browserSide, ledger, bounds
<1>3. starts[s] \notin Accepted /\ {"accepting", "refused"} \subseteq StartPlaces \ Unborn
  BY <1>1 DEF Accepted, StartPlaces, Unborn
<1>4. client.step = "claiming" => client.s # s
  BY <1>1 DEF PreviewInv, ClientFits
<1>5. CASE StartGoes(s, "refused") /\ UNCHANGED <<client, queue>>
  <2>1. LineGrows
    BY <1>5 DEF LineGrows
  <2> QED
    BY <1>1, <1>2, <1>3, <1>4, <1>5, <2>1, AsideStart
<1>6. CASE /\ client' = [NoClient EXCEPT !.s = s, !.step = "claiming"]
           /\ Sends(Job("claim", s, source.doc)) /\ StartGoes(s, "accepting")
  <2>1. /\ StartsStep(FALSE) /\ starts'[s] = "accepting"
        /\ \A r \in Previews : r # s => starts'[r] = starts[r]
    BY <1>1, <1>3, <1>6, StartMoves DEF PreviewInv, PreviewTypes
  <2>2. \A r \in Previews : starts'[r] = "reserved" <=> starts[r] = "reserved"
    BY <1>1, <2>1
  <2>3. LedgerStep /\ Abiding
    BY <1>2, AsideLedger
  <2>4. LedgerKept /\ SessionsPass
    BY <1>2, <2>1, <2>2, <2>3, LedgerStays
  <2>5. OpsStep(FALSE)
    BY <1>2, <2>1, <2>4, OpsRest
  <2>6. /\ client' \in Clients /\ client'.s = s /\ client'.step = "claiming" /\ client'.holds = {}
    BY <1>6 DEF NoClient, Clients, Tabs0, ClientPlaces
  <2>7. ClientFits'
    BY <2>1, <2>6 DEF ClientFits
  <2>8. ClientStep
    BY <2>6, <2>7 DEF ClientStep, ClientTypes
  <2>9. LineGrows
    <3>1. source.doc \in Nat /\ source.doc # 0
      BY BrowserIsTyped
    <3>2. PICK d \in Nat : d = source.doc
      BY <3>1
    <3>3. Sends(Job("claim", s, d)) /\ d # 0
      BY <1>6, <3>1, <3>2
    <3> QED
      BY <1>2, <3>3, PlainMessage
  <2> QED
    BY <1>2, <2>1, <2>3, <2>4, <2>5, <2>8, <2>9, OutsideStep
<1> QED
  BY <1>5, <1>6 DEF DocumentBegins

\* The tab is reserved for a preview where it is not, and nothing exports it.
LEMMA StartKeeps ==
    ASSUME PreviewInv, NEW s \in Previews, NEW selected \in BOOLEAN, Start(s, selected)
    PROVE  PreviewInv' /\ LossIsFinal
<1>1. /\ starts[s] = "none" /\ ~reserved /\ ~exporting /\ reserved' = TRUE
      /\ sessions' = [sessions EXCEPT ![s].selected = selected]
      /\ StartGoes(s, "reserved") /\ Sends(Job("create", s, 0))
      /\ UNCHANGED <<tombs, stored, cancels, holder, news, views>> /\ OnlyStarts
  BY DEF Start
<1>2. UNCHANGED <<epoch, revision, ops, source, client, exporting, begun>>
  BY <1>1 DEF OnlyStarts
<1>3. BrowserTypes'
  BY <1>1, <1>2, BrowserRests, BrowserIsTyped
<1>4. LedgerTypes /\ LedgerFits /\ StartFits /\ StoredFits /\ StartTypes
  BY DEF PreviewInv, PreviewTypes
<1>5. PICK y : y = [sessions[s] EXCEPT !.selected = selected]
  OBVIOUS
<1>6. y \in Sessions /\ Alike(sessions[s], y)
  BY <1>5, SessionIsTyped DEF Sessions, Alike
<1>7. /\ sessions' \in [Previews -> Sessions] /\ sessions'[s] = y
      /\ \A r \in Previews : r # s => sessions'[r] = sessions[r]
  BY <1>1, <1>4, <1>5, <1>6 DEF LedgerTypes
<1>8. ASSUME NEW r \in Previews
      PROVE  /\ Passing(sessions[r], sessions'[r]) /\ SessionFits(sessions'[r], tombs'[r])
             /\ sessions'[r].phase = sessions[r].phase /\ sessions'[r].lost = sessions[r].lost
             /\ sessions'[r].held = sessions[r].held /\ sessions'[r].gen = sessions[r].gen
             /\ sessions'[r].stages = sessions[r].stages
  <2>1. PICK x \in Sessions, v \in Sessions : x = sessions[r] /\ v = sessions'[r]
    BY <1>4, <1>7 DEF LedgerTypes
  <2>2. Alike(x, v)
    BY <1>6, <1>7, <2>1 DEF Alike
  <2>3. SessionFits(x, tombs'[r])
    BY <1>1, <1>4, <2>1 DEF LedgerFits
  <2> QED
    BY <2>1, <2>2, <2>3, AlikePasses DEF Alike
<1>9. SessionsPass /\ Abiding /\ LedgerFits' /\ LedgerTypes'
  BY <1>1, <1>2, <1>4, <1>7, <1>8 DEF SessionsPass, Abiding, LedgerFits, LedgerTypes
<1>10. /\ starts' \in [Previews -> StartPlaces] /\ starts'[s] = "reserved"
       /\ \A r \in Previews : r # s => starts'[r] = starts[r]
  BY <1>1, <1>4 DEF StartGoes, StartTypes, StartPlaces
<1>11. StartsStep(FALSE)
  <2> SUFFICES ASSUME NEW r \in Previews
               PROVE  /\ starts'[r] \in Unborn => starts[r] \in Unborn
                      /\ starts[r] \in Accepted => starts'[r] \in Accepted
                      /\ starts[r] \in {"ending", "failed"} => starts'[r] \in {"ending", "failed"}
                      /\ starts[r] = "reserved" => starts'[r] = "reserved"
                      /\ starts[r] = "registering" => starts'[r] = "registering"
    BY <1>10 DEF StartsStep, StartTypes
  <2> QED
    BY <1>1, <1>10 DEF Unborn, Accepted
<1>12. SourceIsReserved'
  <2>1. \A r \in Previews : ~sessions[r].held /\ starts[r] # "reserved"
    BY <1>1 DEF PreviewInv, SourceIsReserved
  <2>2. {r \in Previews : sessions'[r].held \/ starts'[r] = "reserved"} = {s}
    BY <1>8, <1>10, <2>1
  <2>3. \A r \in Previews : HoldsSource(sessions'[r]) => sessions'[r].held
    BY <1>8 DEF PreviewInv, SourceIsReserved, HoldsSource
  <2> QED
    BY <1>1, <1>2, <2>2, <2>3 DEF SourceIsReserved
<1>13. StartFits'
  BY <1>1, <1>4, <1>8, <1>10 DEF StartFits, Unborn
<1>14. StoredFits'
  <2>1. \A id \in stored : id[1] \in Previews
    BY <1>4, StageOwners
  <2> QED
    BY <1>1, <1>2, <1>4, <1>8, <2>1 DEF StoredFits, StagesAreOwned, Known
<1>15. LedgerKept
  BY <1>9, <1>12, <1>13, <1>14 DEF LedgerKept
<1>16. OpsStep(FALSE)
  BY <1>1, <1>2, <1>9, <1>11, OpsRest
<1>17. ClientStep
  <2>1. client.step = "claiming" => client.s \in Previews /\ client.s # s
    BY <1>1 DEF PreviewInv, ClientFits
  <2> QED
    BY <1>2, <1>9, <1>10, <1>11, <2>1, ClientRests
<1>18. LineGrows
  <2>1. "create" \in Kinds /\ s \in Tabs0 /\ 0 \in Nat
    BY DEF Kinds, Tabs0
  <2>2. PICK m \in Jobs : m = Job("create", s, 0) /\ m.kind = "create" /\ m.s = s
    BY <2>1, MessageIsTyped
  <2>3. JobFits(m)'
    BY <1>10, <2>2 DEF JobFits
  <2>4. \A n \in Jobs : JobFits(n) => ~(n.kind = m.kind /\ n.s = m.s)
    BY <1>1, <2>2 DEF JobFits
  <2> QED
    BY <1>1, <2>2, <2>3, <2>4 DEF LineGrows, Joins
<1> QED
  BY <1>1, <1>2, <1>3, <1>9, <1>11, <1>15, <1>16, <1>17, <1>18, OutsideStep

LEMMA KnownGrows ==
    ASSUME PreviewInv, OpTypes', \A s \in Previews : begun[s] <= begun'[s], NEW i \in StageIds, Known(i)
    PROVE  Known(i)'
<1>1. i[1] \in Previews /\ i[2] \in Nat
  BY TextPreviewParameters DEF StageIds
<1>2. begun \in [Previews -> 0 .. StagesEach] /\ begun' \in [Previews -> 0 .. StagesEach]
  BY DEF PreviewInv, PreviewTypes, OpTypes
<1>3. begun[i[1]] \in Nat /\ begun'[i[1]] \in Nat /\ begun[i[1]] <= begun'[i[1]]
  BY <1>1, <1>2
<1> QED
  BY <1>1, <1>3 DEF Known

LEMMA NothingIsNoStage == <<>> \notin StageIds
  BY DEF StageIds
\* A stage begins, or is aborted or refuses to be.
LEMMA OpRunsKeeps ==
    ASSUME PreviewInv, NEW s \in Previews, OpRuns(s) PROVE PreviewInv' /\ LossIsFinal
<1>1. /\ ops[s].step = "granted" /\ Sends(Job("record", s, ops[s].doc))
      /\ UNCHANGED <<sessions, tombs, reserved, cancels, epoch, revision, holder, starts, browserSide,
                     client, exporting>>
  BY DEF OpRuns
<1>2. PICK k : k = begun[s] + 1
  OBVIOUS
<1>3. PICK id : id = <<s, k>>
  OBVIOUS
<1>4. /\ begun \in [Previews -> 0 .. StagesEach] /\ ops \in [Previews -> Ops] /\ OpsFit /\ StagesEach \in Nat
      /\ stored \in SUBSET StageIds /\ StoredFits
  BY TextPreviewParameters DEF PreviewInv, PreviewTypes, OpTypes, LedgerTypes
<1>5. OpFits(s) /\ begun[s] \in Nat /\ k \in Nat /\ k > begun[s] /\ starts[s] \in Accepted /\ sessions[s].doc # 0
  BY <1>1, <1>2, <1>4 DEF OpsFit, OpFits
<1>6. PICK o : /\ ops' = [ops EXCEPT ![s] = o] /\ o \in Ops /\ o.step = "done"
               /\ \/ /\ ops[s].kind = "begin" /\ o.kind = "begin" /\ o.stage = id /\ id \in StageIds
                     /\ stored' = stored \cup {id} /\ begun' = [begun EXCEPT ![s] = k] /\ k <= StagesEach
                  \/ /\ ops[s].kind = "abort" /\ o.kind = "abort" /\ o.stage = ops[s].stage
                     /\ stored' = stored \ {ops[s].stage} /\ begun' = begun
                  \/ /\ ops[s].kind = "abort" /\ o.kind = "abort" /\ o.stage = <<>>
                     /\ stored' = stored /\ begun' = begun
  <2>1. PICK p \in Ops : p = ops[s]
    BY <1>4
  <2>2. CASE /\ p.kind = "begin" /\ ops' = [ops EXCEPT ![s].step = "done", ![s].stage = id]
             /\ stored' = stored \cup {id} /\ begun' = [begun EXCEPT ![s] = begun[s] + 1]
    <3>1. k <= StagesEach /\ k \in 1 .. StagesEach
      BY <1>1, <1>2, <1>4, <1>5, <2>1, <2>2 DEF OpFits
    <3>2. id \in StageIds
      BY <1>3, <3>1 DEF StageIds
    <3>3. PICK o : o = [p EXCEPT !.step = "done", !.stage = id]
      OBVIOUS
    <3>4. o \in Ops /\ o.step = "done" /\ o.kind = "begin" /\ o.stage = id
      BY <2>2, <3>2, <3>3 DEF Ops
    <3>5. ops' = [ops EXCEPT ![s] = o]
      BY <1>4, <2>1, <2>2, <3>3 DEF Ops
    <3> QED
      BY <1>2, <2>1, <2>2, <3>1, <3>2, <3>4, <3>5
  <2>3. CASE /\ p.kind = "abort" /\ ops' = [ops EXCEPT ![s].step = "done"]
             /\ stored' = stored \ {p.stage} /\ begun' = begun
    <3>1. PICK o : o = [p EXCEPT !.step = "done"]
      OBVIOUS
    <3>2. o \in Ops /\ o.step = "done" /\ o.kind = "abort" /\ o.stage = p.stage
      BY <2>3, <3>1 DEF Ops
    <3>3. ops' = [ops EXCEPT ![s] = o]
      BY <1>4, <2>1, <2>3, <3>1
    <3> QED
      BY <2>1, <2>3, <3>2, <3>3
  <2>4. CASE /\ p.kind = "abort" /\ ops' = [ops EXCEPT ![s].step = "done", ![s].stage = <<>>]
             /\ stored' = stored /\ begun' = begun
    <3>1. PICK o : o = [p EXCEPT !.step = "done", !.stage = <<>>]
      OBVIOUS
    <3>2. o \in Ops /\ o.step = "done" /\ o.kind = "abort" /\ o.stage = <<>>
      BY <2>4, <3>1 DEF Ops
    <3>3. ops' = [ops EXCEPT ![s] = o]
      BY <1>4, <2>1, <2>4, <3>1 DEF Ops
    <3> QED
      BY <2>1, <2>4, <3>2, <3>3
  <2>5. \/ /\ p.kind = "begin" /\ ops' = [ops EXCEPT ![s].step = "done", ![s].stage = id]
           /\ stored' = stored \cup {id} /\ begun' = [begun EXCEPT ![s] = begun[s] + 1]
        \/ /\ p.kind = "abort" /\ ops' = [ops EXCEPT ![s].step = "done"]
           /\ stored' = stored \ {p.stage} /\ begun' = begun
        \/ /\ p.kind = "abort" /\ ops' = [ops EXCEPT ![s].step = "done", ![s].stage = <<>>]
           /\ stored' = stored /\ begun' = begun
    BY <1>2, <1>3, <2>1 DEF OpRuns
  <2> QED
    BY <2>2, <2>3, <2>4, <2>5
<1>7. /\ ops' \in [Previews -> Ops] /\ ops'[s] = o
      /\ \A r \in Previews : r # s => ops'[r] = ops[r]
  BY <1>4, <1>6
<1>8. /\ begun' \in [Previews -> 0 .. StagesEach] /\ begun[s] <= begun'[s]
      /\ \A r \in Previews : r # s => begun'[r] = begun[r]
  BY <1>4, <1>5, <1>6
<1>9. OpTypes' /\ \A r \in Previews : begun[r] <= begun'[r]
  <2>1. \A r \in Previews : begun[r] \in Nat
    BY <1>4
  <2> QED
    BY <1>7, <1>8, <2>1 DEF OpTypes
<1>10. ops[s].kind = "begin" => Known(id)' /\ ~Known(id) /\ id[1] = s
  BY <1>2, <1>3, <1>4, <1>5, <1>6 DEF Known
<1>11. LedgerTypes' /\ LedgerFits' /\ StartFits' /\ SourceIsReserved' /\ SessionsPass /\ Abiding
  <2>1. stored' \in SUBSET StageIds
    BY <1>4, <1>6
  <2>2. LedgerTypes'
    BY <1>1, <2>1 DEF PreviewInv, PreviewTypes, LedgerTypes
  <2> QED
    BY <1>1, <2>2 DEF PreviewInv, LedgerFits, StartFits, SourceIsReserved, SessionsPass, Passing, Abiding
<1>12. StoredFits'
  <2>1. ASSUME NEW i \in stored'
        PROVE  /\ Known(i)'
               /\ \/ i \in sessions'[i[1]].stages
                  \/ i \in tombs'[i[1]].stages
                  \/ ops'[i[1]].step = "done" /\ ops'[i[1]].stage = i
                  \/ tombs'[i[1]].state = "expired"
    <3>1. CASE i \in stored
      <4>1. i \in StageIds /\ Known(i)
        BY <1>4, <3>1 DEF StoredFits
      <4>2. PICK r \in Previews : r = i[1]
        BY <3>1, StageOwners DEF PreviewInv, PreviewTypes
      <4>3. \/ i \in sessions[r].stages
            \/ i \in tombs[r].stages
            \/ ops[r].step = "done" /\ ops[r].stage = i
            \/ tombs[r].state = "expired"
        BY <1>4, <3>1, <4>2 DEF StoredFits, StagesAreOwned
      <4>4. ops[r].step = "done" => r # s
        BY <1>1
      <4> QED
        BY <1>1, <1>7, <1>9, <4>1, <4>2, <4>3, <4>4, KnownGrows
    <3>2. CASE i \notin stored
      <4>1. i = id /\ ops[s].kind = "begin" /\ o.stage = id
        BY <1>6, <3>2
      <4> QED
        BY <1>6, <1>7, <1>10, <4>1
    <3> QED
      BY <3>1, <3>2
  <2> QED
    BY <2>1 DEF StoredFits, StagesAreOwned
<1>13. OpsFit'
  <2> SUFFICES ASSUME NEW r \in Previews PROVE OpFits(r)'
    BY DEF OpsFit
  <2>1. OpFits(r) /\ ops[r] \in Ops
    BY <1>4 DEF OpsFit
  <2>2. CASE r = s
    <3>1. CASE ops[s].kind = "begin"
      BY <1>1, <1>5, <1>6, <1>7, <1>10, <2>2, <3>1 DEF OpFits
    <3>2. CASE ops[s].kind = "abort"
      <4>1. o.stage = <<>> \/ (o.stage = ops[s].stage /\ Known(ops[s].stage))
        BY <1>5, <1>6, <3>2 DEF OpFits
      <4>2. o.stage \notin stored'
        BY <1>4, <1>6, <3>2, NothingIsNoStage
      <4>3. begun' = begun
        BY <1>6, <3>2
      <4>4. o.kind = "abort" /\ o.step = "done"
        BY <1>6, <3>2
      <4>5. o.stage = <<>> \/ Known(o.stage)'
        BY <4>1, <4>3 DEF Known
      <4> QED
        BY <1>1, <1>5, <1>7, <2>2, <4>2, <4>4, <4>5, NoOpIsTyped DEF OpFits
    <3> QED
      BY <1>6, <3>1, <3>2
  <2>3. CASE r # s
    <3>1. ops'[r] = ops[r] /\ begun'[r] = begun[r] /\ UNCHANGED <<starts, sessions>>
      BY <1>1, <1>7, <1>8, <2>3
    <3>2. ops[r].stage \in StageIds /\ Known(ops[r].stage) => Known(ops[r].stage)'
      <4>1. PICK i : i = ops[r].stage /\ i = ops'[r].stage
        BY <3>1
      <4>2. i \in StageIds /\ Known(i) => Known(i)'
        BY <1>9, KnownGrows
      <4> QED
        BY <4>1, <4>2
    <3>3. ops[r].stage = <<>> \/ ops[r].stage \in StageIds
      BY <2>1 DEF Ops
    <3>4. ops[r].step = "done" /\ ops[r].kind = "abort" => ops[r].stage \notin stored'
      <4> SUFFICES ASSUME ops[r].step = "done", ops[r].kind = "abort" PROVE ops[r].stage \notin stored'
        OBVIOUS
      <4>1. ops[r].stage \notin stored /\ (ops[r].stage = <<>> \/ Known(ops[r].stage))
        BY <2>1 DEF OpFits
      <4>2. id \in StageIds /\ ops[s].kind = "begin" => ops[r].stage # id
        BY <1>10, <4>1, NothingIsNoStage
      <4> QED
        BY <1>6, <4>1, <4>2
    <3> QED
      BY <2>1, <3>1, <3>2, <3>3, <3>4 DEF OpFits
  <2> QED
    BY <2>2, <2>3
<1>14. StartsStep(FALSE)
  BY <1>1 DEF PreviewInv, PreviewTypes, StartTypes, StartsStep
<1>15. OpsStep(FALSE)
  BY <1>1, <1>7, <1>9, <1>13 DEF OpsStep
<1>16. ClientStep
  <2>1. ClientGoesOn
    BY <1>1 DEF ClientGoesOn
  <2> QED
    BY <1>9, <1>11, <1>14, <2>1, ClientPasses
<1>17. LineGrows
  <2>1. "record" \in Kinds /\ s \in Tabs0 /\ ops[s].doc \in Nat
    BY <1>4 DEF Kinds, Tabs0, Ops
  <2>2. PICK m \in Jobs : m = Job("record", s, ops[s].doc) /\ m.kind = "record" /\ m.s = s
    BY <2>1, MessageIsTyped
  <2>3. JobFits(m)'
    BY <1>6, <1>7, <2>2 DEF JobFits
  <2>4. \A n \in Jobs : JobFits(n) => ~(n.kind = m.kind /\ n.s = m.s)
    BY <1>1, <2>2 DEF JobFits
  <2> QED
    BY <1>1, <2>2, <2>3, <2>4 DEF LineGrows, Joins
<1>18. BrowserTypes'
  BY <1>1 DEF PreviewInv, PreviewTypes, BrowserTypes, browserSide
<1>19. LedgerKept
  BY <1>11, <1>12 DEF LedgerKept
<1> QED
  BY <1>1, <1>11, <1>14, <1>15, <1>16, <1>17, <1>18, <1>19, OutsideStep
-----------------------------------------------------------------------------
(* A tab changes: whoever loses its source is lost at once, and the        *)
(* listener waits for the lock to withdraw it.                             *)

LEMMA AnnouncedKeeps == ASSUME PreviewInv, Announced PROVE PreviewInv' /\ LossIsFinal
<1>1. PICK changed, what :
          /\ news # <<>> /\ changed = Head(news)[1] /\ what = Head(news)[2] /\ news' = Tail(news)
          /\ epoch' = [epoch EXCEPT ![changed] = @ + 1] /\ Sends(Job(what, changed, 0))
          /\ sessions' = [s \in Previews |->
                 IF changed = SourceTab /\ what # "back" /\ Present(sessions[s])
                 THEN [sessions[s] EXCEPT !.lost = TRUE] ELSE sessions[s]]
  BY DEF Announced
<1>2. UNCHANGED <<tombs, reserved, stored, cancels, revision, holder, ops, starts, source, views,
                  client, bounds>>
  BY DEF Announced
<1>3. UNCHANGED <<exporting, begun>>
  BY <1>2 DEF bounds
<1>4. PreviewTypes /\ LineFits /\ LineTypes /\ LedgerTypes /\ LedgerFits /\ StoredFits /\ StartFits /\ HolderFits
  BY DEF PreviewInv, PreviewTypes
<1>5. changed \in Tabs0 /\ what \in TabNews /\ news' \in Seq(Tabs0 \X TabNews)
  BY <1>1, BrowserIsTyped
<1>6. /\ epoch' \in [Tabs0 -> Nat] /\ epoch \in [Tabs0 -> Nat]
      /\ changed = SourceTab => epoch'[SourceTab] = epoch[SourceTab] + 1
      /\ changed # SourceTab => epoch'[SourceTab] = epoch[SourceTab]
  BY <1>1, <1>5, BrowserIsTyped DEF Tabs0
<1>7. BrowserTypes'
  BY <1>2, <1>5, <1>6, BrowserIsTyped DEF BrowserTypes
<1>8. ASSUME NEW s \in Previews
      PROVE  /\ sessions'[s] \in Sessions
             /\ sessions'[s].phase = sessions[s].phase /\ sessions'[s].doc = sessions[s].doc
             /\ sessions'[s].gen = sessions[s].gen /\ sessions'[s].stages = sessions[s].stages
             /\ sessions'[s].held = sessions[s].held
             /\ \/ sessions'[s].lost = sessions[s].lost
                \/ changed = SourceTab /\ what # "back" /\ Present(sessions[s])
  <2>1. PICK x \in Sessions : x = sessions[s]
    BY SessionIsTyped
  <2>2. sessions'[s] = IF changed = SourceTab /\ what # "back" /\ Present(x) THEN [x EXCEPT !.lost = TRUE] ELSE x
    BY <1>1, <2>1
  <2>3. /\ [x EXCEPT !.lost = TRUE] \in Sessions /\ [x EXCEPT !.lost = TRUE].phase = x.phase
        /\ [x EXCEPT !.lost = TRUE].doc = x.doc /\ [x EXCEPT !.lost = TRUE].gen = x.gen
        /\ [x EXCEPT !.lost = TRUE].stages = x.stages /\ [x EXCEPT !.lost = TRUE].held = x.held
    BY DEF Sessions
  <2> QED
    BY <2>1, <2>2, <2>3
<1>9. epoch[SourceTab] \in Nat /\ epoch'[SourceTab] \in Nat /\ epoch[SourceTab] <= epoch'[SourceTab]
  BY <1>6 DEF Tabs0
<1>10. LedgerTypes'
  <2>1. sessions' \in [Previews -> Sessions]
    BY <1>1, <1>8
  <2> QED
    BY <1>2, <1>4, <2>1 DEF LedgerTypes
<1>11. LedgerFits'
  <2> SUFFICES ASSUME NEW s \in Previews
               PROVE  SessionFits(sessions'[s], tombs'[s]) /\ sessions'[s].gen <= epoch'[SourceTab]
    BY DEF LedgerFits
  <2>1. SessionFits(sessions[s], tombs[s]) /\ sessions[s].gen <= epoch[SourceTab] /\ sessions[s].gen \in Nat
    BY <1>4, SessionIsTyped DEF LedgerFits, Sessions
  <2>2. SessionFits(sessions'[s], tombs[s])
    BY <1>8, <2>1 DEF SessionFits, HoldsSource, Present
  <2> QED
    BY <1>2, <1>8, <1>9, <2>1, <2>2
<1>12. SourceIsReserved' /\ StartFits'
  <2>1. {s \in Previews : sessions'[s].held \/ starts'[s] = "reserved"}
        = {s \in Previews : sessions[s].held \/ starts[s] = "reserved"}
    BY <1>2, <1>8
  <2>2. \A s \in Previews : HoldsSource(sessions'[s]) => sessions'[s].held
    BY <1>8 DEF PreviewInv, SourceIsReserved, HoldsSource
  <2>3. SourceIsReserved'
    BY <1>2, <1>3, <2>1, <2>2 DEF PreviewInv, SourceIsReserved
  <2> QED
    BY <1>2, <1>4, <1>8, <2>3 DEF StartFits
<1>13. StoredFits'
  <2>1. \A id \in stored : id[1] \in Previews
    BY <1>4, StageOwners
  <2> QED
    BY <1>2, <1>3, <1>4, <1>8, <2>1 DEF StoredFits, StagesAreOwned, Known
<1>14. OpTypes' /\ StartTypes' /\ ClientTypes' /\ OpsFit'
  <2>1. \A s \in Previews : OpFits(s) => OpFits(s)'
    BY <1>2, <1>3, <1>8 DEF OpFits, Known
  <2> QED
    BY <1>2, <1>3, <2>1 DEF PreviewInv, PreviewTypes, OpTypes, StartTypes, ClientTypes, OpsFit
<1>15. ClientFits'
  BY <1>2, <1>3, <1>8, ClientIsFit DEF ClientFits, Known
<1>16. JobsStay
  <2> SUFFICES ASSUME NEW m \in Jobs, JobFits(m) PROVE JobFits(m)'
    BY DEF JobsStay
  <2>1. m.kind \notin TabNews => m.s \in Previews
    BY DEF JobFits
  <2>2. m.kind = "publish" => sessions'[m.s].phase \notin {"none", "pending"} /\ m.gen <= epoch'[SourceTab]
    <3>1. m.gen \in Nat
      BY DEF Jobs
    <3> QED
      BY <1>8, <1>9, <2>1, <3>1 DEF JobFits, TabNews
  <2> QED
    BY <1>2, <2>1, <2>2 DEF JobFits
<1>17. PICK m \in Jobs : m = Job(what, changed, 0) /\ m.kind = what /\ m.s = changed
  <2>1. what \in Kinds /\ 0 \in Nat
    BY <1>5 DEF Kinds
  <2> QED
    BY <1>5, <2>1, MessageIsTyped
<1>18. /\ LineTypes' /\ LineSize' = LineSize + 1 /\ Line'[LineSize'] = m
       /\ \A i \in 1 .. LineSize : Line'[i] = Line[i]
  BY <1>1, <1>2, <1>4, <1>17, LineJoined
<1>19. /\ DOMAIN Line = 1 .. LineSize /\ DOMAIN Line' = 1 .. (LineSize + 1) /\ LineSize \in Nat
       /\ \A i \in 1 .. LineSize : Line[i] \in Jobs
  BY <1>4, <1>18, LineIsTyped DEF Line
<1>20. /\ \A i \in 1 .. LineSize : JobFits(Line[i])
       /\ SingleFits(Line) /\ LossFits(Line)
  BY <1>4, LineMeans
<1>21. m.kind \in TabNews
  BY <1>5, <1>17
<1>22. ASSUME NEW i \in 1 .. (LineSize + 1)
       PROVE  JobFits(Line[i])'
  <2>1. CASE i \in 1 .. LineSize
    <3>1. PICK n \in Jobs : n = Line[i] /\ n = Line'[i]
      BY <1>18, <1>19, <2>1
    <3>2. JobFits(n)'
      BY <1>16, <1>20, <2>1, <3>1 DEF JobsStay
    <3> QED
      BY <3>1, <3>2
  <2>2. CASE i = LineSize + 1
    <3>1. Line'[i] = m
      BY <1>18, <2>2
    <3> QED
      BY <1>21, <3>1 DEF JobFits, TabNews
  <2> QED
    BY <1>19, <2>1, <2>2
<1>23. SingleFits(Line')
  <2> SUFFICES ASSUME NEW i \in 1 .. (LineSize + 1), NEW j \in 1 .. (LineSize + 1),
                      Line'[i].kind \in Single, Line'[j].kind = Line'[i].kind, Line'[j].s = Line'[i].s
               PROVE  i = j
    BY <1>19 DEF SingleFits
  <2>1. m.kind \notin Single
    BY <1>21 DEF Single, TabNews
  <2>2. i # LineSize + 1 /\ j # LineSize + 1
    BY <1>18, <2>1
  <2>3. i \in 1 .. LineSize /\ j \in 1 .. LineSize
    BY <1>19, <2>2
  <2> QED
    BY <1>18, <1>19, <1>20, <2>3 DEF SingleFits
<1>24. LossFits(Line)'
  <2>1. ASSUME NEW s \in Previews, sessions'[s].lost, Live(sessions'[s])
        PROVE  \E i \in 1 .. (LineSize + 1) : IsLoss(Line'[i])
    <3>1. CASE sessions[s].lost
      <4>1. Live(sessions[s])
        BY <1>8, <2>1 DEF Live, Present
      <4>2. PICK i \in 1 .. LineSize : IsLoss(Line[i])
        BY <1>19, <1>20, <3>1, <4>1 DEF LossFits
      <4>3. i \in 1 .. (LineSize + 1) /\ IsLoss(Line'[i])
        BY <1>18, <1>19, <4>2
      <4> QED
        BY <4>3
    <3>2. CASE ~sessions[s].lost
      <4>1. changed = SourceTab /\ what # "back"
        BY <1>8, <2>1, <3>2
      <4>2. IsLoss(m)
        BY <1>5, <1>17, <4>1 DEF IsLoss, TabNews
      <4>3. LineSize + 1 \in 1 .. (LineSize + 1) /\ IsLoss(Line'[LineSize + 1])
        BY <1>18, <1>19, <4>2
      <4> QED
        BY <4>3
    <3> QED
      BY <3>1, <3>2
  <2>2. ASSUME NEW i \in 1 .. (LineSize + 1), Line'[i].kind = "publish",
               sessions'[Line'[i].s].lost, Live(sessions'[Line'[i].s])
        PROVE  \/ sessions'[Line'[i].s].gen < epoch'[SourceTab]
               \/ \E j \in 1 .. (LineSize + 1) : j < i /\ IsLoss(Line'[j])
    <3>1. i \in 1 .. LineSize
      <4>1. i # LineSize + 1
        BY <1>18, <1>21, <2>2 DEF TabNews
      <4> QED
        BY <1>19, <4>1
    <3>2. PICK n \in Jobs : n = Line[i] /\ n = Line'[i]
      BY <1>18, <1>19, <3>1
    <3>3. JobFits(n) /\ n.kind = "publish" /\ sessions'[n.s].lost /\ Live(sessions'[n.s])
      BY <1>20, <2>2, <3>1, <3>2
    <3>4. PICK s \in Previews : s = n.s
      BY <3>3 DEF JobFits, TabNews
    <3>5. sessions[s].gen \in Nat /\ sessions[s].gen <= epoch[SourceTab] /\ sessions'[s].gen = sessions[s].gen
      BY <1>4, <1>8, SessionIsTyped DEF LedgerFits, Sessions
    <3>6. CASE sessions[s].lost
      <4>1. Live(sessions[s])
        BY <1>8, <3>3, <3>4 DEF Live, Present
      <4>2. \/ sessions[s].gen < epoch[SourceTab]
            \/ \E j \in 1 .. LineSize : j < i /\ IsLoss(Line[j])
        BY <1>19, <1>20, <3>1, <3>2, <3>3, <3>4, <3>6, <4>1 DEF LossFits
      <4>3. CASE sessions[s].gen < epoch[SourceTab]
        BY <1>9, <3>2, <3>4, <3>5, <4>3
      <4>4. CASE \E j \in 1 .. LineSize : j < i /\ IsLoss(Line[j])
        <5>1. PICK j \in 1 .. LineSize : j < i /\ IsLoss(Line[j])
          BY <4>4
        <5>2. j \in 1 .. (LineSize + 1) /\ IsLoss(Line'[j])
          BY <1>18, <1>19, <5>1
        <5> QED
          BY <5>1, <5>2
      <4> QED
        BY <4>2, <4>3, <4>4
    <3>7. CASE ~sessions[s].lost
      <4>1. epoch'[SourceTab] = epoch[SourceTab] + 1
        BY <1>6, <1>8, <3>3, <3>4, <3>7
      <4> QED
        BY <1>9, <3>2, <3>4, <3>5, <4>1
    <3> QED
      BY <3>6, <3>7
  <2> QED
    BY <1>19, <2>1, <2>2 DEF LossFits
<1>25. LineFits'
  BY <1>19, <1>22, <1>23, <1>24 DEF LineFits
<1>26. HolderFits'
  <2> SUFFICES ASSUME holder # NoJob PROVE HolderFits'
    BY <1>2 DEF HolderFits
  <2>1. holder \in Jobs /\ JobFits(holder) /\ holder.gen \in Nat
    BY <1>4, HolderIsFit DEF Jobs
  <2>2. /\ holder.at # "waiting"
        /\ <<holder.kind, holder.at>> \in NeedsPresent => Present(sessions[holder.s])
        /\ holder.kind = "publish" /\ holder.at # "begun" /\ sessions[holder.s].lost =>
              holder.gen < epoch[SourceTab]
    BY <1>4 DEF HolderFits
  <2>3. <<holder.kind, holder.at>> \in NeedsPresent => holder.s \in Previews
    BY <2>1 DEF JobFits, TabNews, NeedsPresent
  <2>4. <<holder.kind, holder.at>> \in NeedsPresent => Present(sessions'[holder.s])
    BY <1>8, <2>2, <2>3 DEF Present
  <2>5. ASSUME holder.kind = "publish", holder.at # "begun", sessions'[holder.s].lost
        PROVE  holder.gen < epoch'[SourceTab]
    <3>1. holder.s \in Previews /\ holder.gen <= epoch[SourceTab]
      BY <2>1, <2>5 DEF JobFits, TabNews
    <3>2. sessions[holder.s].lost \/ epoch'[SourceTab] = epoch[SourceTab] + 1
      BY <1>6, <1>8, <2>5, <3>1
    <3>3. CASE sessions[holder.s].lost
      BY <1>9, <2>1, <2>2, <2>5, <3>3
    <3>4. CASE epoch'[SourceTab] = epoch[SourceTab] + 1
      BY <1>9, <2>1, <3>1, <3>4
    <3> QED
      BY <3>2, <3>3, <3>4
  <2> QED
    BY <1>2, <2>2, <2>4, <2>5 DEF HolderFits
<1>27. LedgerKept /\ ClientStep
  BY <1>10, <1>11, <1>12, <1>13, <1>14, <1>15 DEF LedgerKept, ClientStep
<1>28. PreviewInv'
  BY <1>7, <1>14, <1>18, <1>25, <1>26, <1>27, PartsTogether
<1>29. LossIsFinal
  BY <1>8 DEF LossIsFinal, StaysUnread
<1> QED
  BY <1>28, <1>29
-----------------------------------------------------------------------------
(* The preview as a whole.                                                 *)

LEMMA PreviewInvStarts == ASSUME PreviewInit PROVE PreviewInv
<1>1. /\ sessions = [s \in Previews |-> NoSession] /\ tombs = [s \in Previews |-> NoTomb]
      /\ reserved = FALSE /\ stored = {} /\ exporting = FALSE
      /\ epoch = [t \in Tabs0 |-> 0] /\ revision = 0 /\ queue = <<>> /\ holder = NoJob
      /\ ops = [s \in Previews |-> NoOp] /\ starts = [s \in Previews |-> "none"]
      /\ begun = [s \in Previews |-> 0] /\ client = NoClient
  BY DEF PreviewInit, Windows, Tabs0
<1>2. /\ source = [doc |-> 1, at |-> "exact"] /\ news = <<>>
      /\ views = [s \in Previews |-> [at |-> "none", doc |-> 0, step |-> "idle"]]
  BY DEF PreviewInit, Windows
<1>3. /\ NoSession \in Sessions /\ NoSession.phase = "none" /\ NoSession.doc = 0 /\ NoSession.gen = 0
      /\ NoSession.stages = {} /\ ~NoSession.held /\ ~NoSession.lost
  BY DEF NoSession, Sessions, Phases
<1>4. NoTomb \in Tombs
  BY DEF NoTomb, Tombs
<1>5. LedgerTypes
  BY <1>1, <1>3, <1>4 DEF LedgerTypes
<1>6. LedgerFits
  <2>1. SessionFits(NoSession, NoTomb)
    BY <1>3 DEF SessionFits, HoldsSource
  <2> QED
    BY <1>1, <1>3, <2>1 DEF LedgerFits, Tabs0
<1>7. SourceIsReserved /\ StartFits /\ StoredFits
  <2>1. {s \in Previews : sessions[s].held \/ starts[s] = "reserved"} = {}
    BY <1>1, <1>3
  <2>2. SourceIsReserved
    BY <1>1, <1>3, <2>1 DEF SourceIsReserved, HoldsSource
  <2> QED
    BY <1>1, <1>3, <2>2 DEF StartFits, StoredFits, StagesAreOwned
<1>8. LineTypes /\ LineSize = 0 /\ Line = [i \in 1 .. 0 |-> Nth(i)]
  BY <1>1 DEF LineTypes, LineSize, Line
<1>9. LineFits
  <2>1. DOMAIN Line = {}
    BY <1>8
  <2>2. \A s \in Previews : ~sessions[s].lost
    BY <1>1, <1>3
  <2> QED
    BY <2>1, <2>2 DEF LineFits, SingleFits, LossFits
<1>10. StartTypes /\ OpTypes /\ OpsFit
  <2>1. StartTypes
    BY <1>1 DEF StartTypes, StartPlaces
  <2>2. 0 \in 0 .. StagesEach
    BY TextPreviewParameters
  <2>3. OpTypes
    BY <1>1, <2>2, NoOpIsTyped DEF OpTypes
  <2>4. OpsFit
    BY <1>1, NoOpIsTyped DEF OpsFit, OpFits
  <2> QED
    BY <2>1, <2>3, <2>4
<1>11. ClientTypes /\ ClientFits /\ HolderFits
  BY <1>1, NoClientIsTyped DEF ClientTypes, ClientFits, HolderFits
<1>12. BrowserTypes
  <2>1. [at |-> "none", doc |-> 0, step |-> "idle"] \in Views
    BY DEF Views, ViewPlaces
  <2>2. source \in [doc: Nat \ {0}, at: {"exact", "loading", "other", "gone"}]
    BY <1>2
  <2> QED
    BY <1>1, <1>2, <2>1, <2>2 DEF BrowserTypes
<1> QED
  BY <1>5, <1>6, <1>7, <1>8, <1>9, <1>10, <1>11, <1>12 DEF PreviewInv, PreviewTypes

LEMMA JobStepsKeep == ASSUME PreviewInv, JobSteps PROVE PreviewInv' /\ LossIsFinal
  BY ClaimKeeps, AwaitSelectionKeeps, CaptureLeaseKeeps, PublishKeeps, ChooseKeeps, StatusKeeps, TakeKeeps,
     AckKeeps, InvalidateKeeps, AuthorizeKeeps, RecordKeeps, CreateKeeps, RegisterKeeps, SettleKeeps,
     RemoveKeeps, TabEventKeeps, DocumentAnswersKeeps DEF JobSteps

LEMMA StartStepsKeep ==
    ASSUME PreviewInv, NEW s \in Previews, StartSteps(s) PROVE PreviewInv' /\ LossIsFinal
  BY WindowOpensKeeps, WindowNavigatesKeeps, NavigationConfirmedKeeps, DocumentBeginsKeeps, BeginIsLostKeeps,
     StartConcludesKeeps, WindowRemovedKeeps DEF StartSteps

LEMMA ClientStepsKeep == ASSUME PreviewInv, ClientSteps PROVE PreviewInv' /\ LossIsFinal
  BY ClientSelectsKeeps, ClientChecksKeeps, ClientDiscardsKeeps, ClientPublishesKeeps, ClientStopsKeeps,
     CaptureExpiresKeeps, ClientGivesUpKeeps DEF ClientSteps

LEMMA ProgressKeeps == ASSUME PreviewInv, PreviewProgress PROVE PreviewInv' /\ LossIsFinal
<1>1. CASE WorkerSteps
  BY <1>1, JobStepsKeep, PruneKeeps DEF WorkerSteps
<1>2. CASE ClientSteps \/ Announced \/ SourceLoads
  BY <1>2, ClientStepsKeep, AnnouncedKeeps, SourceLoadsKeeps
<1>3. ASSUME NEW s \in Previews,
             \/ StartSteps(s) \/ OpRuns(s) \/ CancelArrives(s) \/ PageRequests(s) \/ PageExpires(s)
             \/ DeadlinePasses(s)
      PROVE  PreviewInv' /\ LossIsFinal
  BY <1>3, StartStepsKeep, OpRunsKeeps, CancelArrivesKeeps, PageRequestsKeeps, PageExpiresKeeps,
     DeadlinePassesKeeps
<1> QED
  BY <1>1, <1>2, <1>3 DEF PreviewProgress, PageSteps

LEMMA OccursKeeps == ASSUME PreviewInv, Occurs PROVE PreviewInv' /\ LossIsFinal
<1>1. CASE ClientBeginsStage \/ ClientGivesUp \/ SourceReloads \/ SourceWanders \/ SourceCloses \/ Elsewhere
  BY <1>1, ClientBeginsStageKeeps, ClientGivesUpKeeps, SourceReloadsKeeps, SourceWandersKeeps,
     SourceClosesKeeps, ElsewhereKeeps
<1>2. ASSUME NEW s \in Previews,
             \/ \E selected \in BOOLEAN : Start(s, selected)
             \/ UserChooses(s) \/ AnswerIsLost(s) \/ PageClears(s) \/ WindowGoes(s)
      PROVE  PreviewInv' /\ LossIsFinal
  BY <1>2, StartKeeps, UserChoosesKeeps, AnswerIsLostKeeps, PageClearsKeeps, WindowGoesKeeps
<1> QED
  BY <1>1, <1>2 DEF Occurs

LEMMA PreviewInvStays ==
    ASSUME PreviewInv, UNCHANGED previewVars
    PROVE  PreviewInv'
<1>1. /\ UNCHANGED <<sessions, tombs, reserved, stored, cancels, epoch, revision, queue, holder, ops, starts>>
      /\ UNCHANGED <<source, news, views, client, exporting, begun, allowance>>
  BY DEF previewVars, ledger, browserSide, bounds
<1>2. LedgerStep /\ Abiding
  BY <1>1, AsideLedger
<1>3. BrowserTypes' /\ LineGrows /\ Unstarted /\ ClientGoesOn
  BY <1>1 DEF PreviewInv, PreviewTypes, BrowserTypes, LineGrows, Unstarted, ClientGoesOn
<1> QED
  BY <1>1, <1>2, <1>3, AsideStep

LEMMA PreviewInvStep ==
    ASSUME PreviewInv, [Next]_vars
    PROVE  PreviewInv' /\ [LossIsFinal]_previewVars
<1>1. CASE InPreview
  BY <1>1, ProgressKeeps, OccursKeeps DEF InPreview, PreviewNext
<1>2. CASE InTemporaryTab \/ UNCHANGED vars
  <2>1. UNCHANGED previewVars
    BY <1>2 DEF InTemporaryTab, vars
  <2> QED
    BY <2>1, PreviewInvStays
<1> QED
  BY <1>1, <1>2 DEF Next

LEMMA PreviewTypesFollow == ASSUME PreviewInv PROVE PreviewTypeOK
<1>1. /\ \A s \in Previews : sessions[s] \in Sessions /\ tombs[s] \in Tombs /\ ops[s] \in Ops
      /\ \A s \in Previews : SessionFits(sessions[s], tombs[s])
      /\ stored \in SUBSET StageIds /\ client \in Clients /\ epoch \in [Tabs0 -> Nat]
  BY DEF PreviewInv, PreviewTypes, LedgerTypes, OpTypes, ClientTypes, BrowserTypes, LedgerFits
<1>2. ASSUME NEW s \in Previews
      PROVE  /\ sessions[s].phase \in Phases
             /\ sessions[s].stages \subseteq StageIds
             /\ ~Present(sessions[s]) => sessions[s].stages = {} /\ ~sessions[s].held
             /\ tombs[s].state \in {"none", "there", "over", "expired"}
             /\ ops[s].step \in {"none", "queued", "granted", "done"}
  BY <1>1 DEF Sessions, Tombs, Ops, SessionFits
<1> QED
  BY <1>1, <1>2 DEF PreviewTypeOK, Clients, Tabs0, SourceTab

LEMMA LossFollowsInLine == ASSUME PreviewInv PROVE LossIsAttended
<1> SUFFICES ASSUME NEW s \in Previews, sessions[s].lost, Present(sessions[s]),
                    sessions[s].phase # "invalidated"
             PROVE  \E m \in {holder} \cup {queue[i] : i \in DOMAIN queue} :
                        m.s = SourceTab /\ m.kind \in TabNews \ {"back"}
  BY DEF LossIsAttended, Attended
<1>1. LineTypes /\ LossFits(Line)
  BY DEF PreviewInv, PreviewTypes, LineFits
<1>2. PICK i \in 1 .. LineSize : IsLoss(Line[i])
  BY <1>1, LineIsTyped DEF LossFits, Live
<1>3. Line[i] \in {holder} \cup {queue[k] : k \in DOMAIN queue}
  <2>1. Line[i] = Nth(i) /\ LineSize \in Nat
    BY <1>1, LineIsTyped
  <2>2. CASE holder # NoJob
    <3>1. i # 1 => i - 1 \in DOMAIN queue
      BY <1>1, <2>2 DEF LineTypes, LineSize
    <3> QED
      BY <2>1, <2>2, <3>1 DEF Nth
  <2>3. CASE holder = NoJob
    <3>1. i \in DOMAIN queue
      BY <1>1, <2>3 DEF LineTypes, LineSize
    <3> QED
      BY <2>1, <2>3, <3>1 DEF Nth
  <2> QED
    BY <2>2, <2>3
<1>4. Line[i].s = SourceTab /\ Line[i].kind \in TabNews \ {"back"}
  BY <1>2 DEF IsLoss, TabNews
<1> QED
  BY <1>3, <1>4

\* PreviewInv is inductive.
THEOREM PreviewIsInductive == Spec => []PreviewInv
<1>1. Init => PreviewInv
  BY PreviewInvStarts DEF Init
<1>2. PreviewInv /\ [Next]_vars => PreviewInv'
  BY PreviewInvStep
<1> QED
  BY <1>1, <1>2, PTL DEF Spec

\* A preview holds its tab alone while it waits or captures, and no stage of its
\* capture is without somebody who will have it removed, however the ends of two
\* previews, late answers and refused aborts cross: releaseSource,
\* recordCaptureResult, retainCleanupTombstone, cleanupTombstone.
THEOREM PreviewResourcesAreOwned == Spec => []ResourcesAreOwned
<1>1. PreviewInv => ResourcesAreOwned
  BY DEF PreviewInv, StoredFits, ResourcesAreOwned
<1> QED
  BY <1>1, PreviewIsInductive, PTL

\* A preview whose tab was seen to leave the conversation never becomes readable,
\* and never outlives the listener that waits for the lock to withdraw it, whatever
\* the job does that holds the lock then: tabChanged, tabRemoved,
\* sourceGenerationCurrent.
THEOREM RevokedPreviewsAreWithdrawn == Spec => RevokedIsWithdrawn
<1>1. PreviewInv => LossIsAttended
  BY LossFollowsInLine
<1>2. PreviewInv /\ [Next]_vars => [LossIsFinal]_previewVars
  BY PreviewInvStep
<1> QED
  BY <1>1, <1>2, PreviewIsInductive, PTL DEF Spec, RevokedIsWithdrawn, LossIsAttended, LossIsFinal

-----------------------------------------------------------------------------
(* Both ways.                                                              *)

\* Every variable of a capture stays within its values: the tab, the queue, the
\* stage and the call of the temporary tab (chatgpt-page-capture.ts,
\* chatgpt-document-start.ts), the sessions, tombstones, stages, jobs and views of
\* the preview (text-preview-controller.ts). A session that is gone keeps no stage
\* and no tab.
THEOREM CaptureTypes == Spec => []TypeOK
<1>1. PageInv /\ PreviewInv => TypeOK
  BY ResultsFollow, PreviewTypesFollow DEF TypeOK
<1> QED
  BY <1>1, PageIsInductive, PreviewIsInductive, PTL
=============================================================================

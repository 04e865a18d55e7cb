----------------------------- MODULE TextPreview -----------------------------
(***************************************************************************)
(* The controller of the text preview:                                     *)
(*   background/text-preview-controller.ts                                 *)
(*                                                                         *)
(* A preview lets the document of a conversation capture it, with a right  *)
(* to capture only, and shows the result once, in a window of its own.  It *)
(* reserves the source tab against exports, and owns the stages the        *)
(* capture begins.  Everything is in memory and changed under one lock;    *)
(* the jobs that wait for it are served in the order in which they came.   *)
(* While a job awaits the browser, the settings, the document or the stage *)
(* store, time passes, tabs change and listeners are called: those only    *)
(* count the change and wait for the lock themselves.                      *)
(*                                                                         *)
(* All previews here are of one source tab.  Deadlines are flags that the  *)
(* passing of time raises.  A call that is served in one go although it    *)
(* awaits the store is one whose awaits nothing else can tell apart.       *)
(***************************************************************************)
EXTENDS Naturals, Sequences, FiniteSets

CONSTANTS
    Previews,          \* bound: the previews the user may start
    StagesEach,        \* bound: the stages a capture may begin
    StageLimit,        \* stages a session may own
    Allowances         \* bound: how often what may happen, in some mixtures

Happenings ==
    {"start", "selected-start", "stage", "reload", "wander", "closed-source", "closed-window",
     "reloaded-window", "cleared", "slow-answer", "deadline", "refused-abort", "refused-window",
     "other-leases", "failed-capture", "export", "settings"}

ASSUME TextPreviewParameters ==
    /\ Previews \subseteq Nat \ {0}
    /\ StagesEach \in Nat /\ StageLimit \in Nat
    /\ \A some \in Allowances : \A h \in Happenings : some[h] \in Nat

VARIABLES
    sessions,    \* worker: the sessions
    tombs,       \* worker: the tombstones of removed ones, for late stages
    reserved,    \* worker: ExportOperationController reserves the source tab
    epoch,       \* worker: how often each tab was seen to change
    revision,    \* worker: how often the settings changed
    queue, holder,  \* worker: who waits for the lock, and who holds it across an await
    ops,         \* worker: the request of each capture about a stage
    starts,      \* worker: where the start of each preview stands
    stored,      \* offscreen: the stages that exist
    cancels,     \* messages to the source document that end a capture
    source,      \* browser: the source tab
    news,        \* browser: changes of tabs not yet announced
    client,      \* source document: its part in a preview
    views,       \* preview windows
    exporting,   \* an export of the source tab is live
    begun,       \* the stages each capture has begun
    allowance    \* bound: what may still happen

ledger == <<sessions, tombs, reserved, stored, cancels>>
browserSide == <<source, news, views>>
bounds == <<exporting, begun, allowance>>
previewVars ==
    <<ledger, epoch, revision, queue, holder, ops, starts, browserSide, client, bounds>>

StageIds == Previews \X (1 .. StagesEach)
SourceTab == 0
Windows == Previews

Phases ==
    {"none", "pending", "capturing", "awaiting-selection", "ready", "taken", "delivered",
     "invalidated", "removed"}

\* `over` and `leaseOver`: the deadline of the phase and of the page have passed;
\* `doc` and `gen`: the source; `window`, `reader`: the page, and its document;
\* `lost` is history: the source was seen to leave the conversation.
NoSession ==
    [phase |-> "none", over |-> FALSE, leaseOver |-> FALSE, selected |-> FALSE,
     doc |-> 0, gen |-> 0, window |-> FALSE, reader |-> 0, stages |-> {},
     held |-> FALSE, closed |-> FALSE, lost |-> FALSE]

NoTomb == [state |-> "none", stages |-> {}]
\* `holds`: the stages of its result; `stopped`: its scope is aborted.
NoClient == [s |-> 0, step |-> "idle", stopped |-> FALSE, chosen |-> FALSE, holds |-> {}]
NoOp == [step |-> "none", kind |-> "none", doc |-> 0, epoch |-> 0, stage |-> <<>>]

Job(kind, s, doc) ==
    [kind |-> kind, s |-> s, doc |-> doc, gen |-> 0, rev |-> 0, at |-> "waiting",
     seen |-> "nothing"]
NoJob == Job("none", 0, 0)

Sends(message) == queue' = Append(queue, message)

Costs(h) == allowance[h] > 0 /\ allowance' = [allowance EXCEPT ![h] = @ - 1]

-----------------------------------------------------------------------------
(* Sessions.                                                               *)

Present(x) == x.phase \notin {"none", "removed"}
IsLiveCapture(x) == x.phase \in {"capturing", "awaiting-selection"}

\* phaseCurrent
PhaseCurrent(s, phases) == sessions[s].phase \in phases /\ ~sessions[s].over

OwnsSource(s, doc) == sessions[s].doc = doc /\ doc # 0
SourceGenerationCurrent(s) == sessions[s].gen = epoch[SourceTab]

\* page: the registered window; its first document is pinned.
IsPage(s, doc) == Present(sessions[s]) /\ sessions[s].window /\ sessions[s].reader \in {0, doc}
Pinned(s, doc) == IF IsPage(s, doc) THEN [sessions[s] EXCEPT !.reader = doc] ELSE sessions[s]

\* invalidateSession and removeSession; `kept` are the stages whose abort fails.
Invalidated(x, kept) ==
    [x EXCEPT !.phase = "invalidated", !.held = FALSE, !.stages = @ \cap kept,
              !.over = IF x.phase = "invalidated" THEN @ ELSE x.leaseOver]
Removed(x) == [x EXCEPT !.phase = "removed", !.held = FALSE, !.stages = {}]

Stands(tomb) == tomb.state \in {"there", "over"}

\* Mutant: a session that is removed leaves nothing behind.
Forgotten(tomb, x, kept) == tomb
\* retainCleanupTombstone
Retained(tomb, x, kept) ==
    IF x.doc = 0 THEN tomb
    ELSE IF Stands(tomb) THEN [tomb EXCEPT !.stages = @ \cup (x.stages \cap kept)]
    ELSE [state |-> "there", stages |-> x.stages \cap kept]

\* Mutant: whoever ends gives the source tab free.
ReleasesAnyway(base, ended) == ended = {} /\ reserved
\* releaseSource: only what the session itself holds.
StillReserved(base, ended) == reserved /\ ~\E s \in ended : base[s].held

\* The sessions `base` with those in `invalid` and `gone` taken out of service, and
\* `told` of them announced to their source; `graves` are the tombstones kept.
TakesOut(base, graves, invalid, gone, told, kept) ==
    /\ sessions' = [s \in Previews |-> IF s \in gone THEN Removed(base[s])
                                       ELSE IF s \in invalid THEN Invalidated(base[s], kept)
                                       ELSE base[s]]
    /\ tombs' = [s \in Previews |-> IF s \in gone THEN Retained(graves[s], base[s], kept)
                                    ELSE graves[s]]
    /\ stored' = stored \ (((UNION {base[s].stages : s \in invalid \cup gone})
                            \cup (UNION {tombs[s].stages : s \in Previews})) \ kept)
    /\ reserved' = StillReserved(base, invalid \cup gone)
    /\ cancels' = cancels \cup {s \in told : base[s].doc # 0}

\* abortStage: the store may refuse, or fail.
AbortsSome(kept) ==
    \/ kept = {} /\ UNCHANGED allowance
    \/ /\ kept = StageIds /\ Costs("refused-abort")
       /\ \E s \in Previews : sessions[s].stages \cup tombs[s].stages # {}

Invalidates(base, invalid, told, kept) == TakesOut(base, tombs, invalid, {}, told, kept)

-----------------------------------------------------------------------------
(* The lock: locked and prune.                                             *)

Lapsed(x) == Present(x) /\ (x.leaseOver \/ (x.closed /\ x.over))
\* Mutant: the user is waited for without an end.
LateUnlessChoosing(x) ==
    /\ Present(x) /\ ~Lapsed(x) /\ x.over
    /\ x.phase \notin {"delivered", "invalidated", "awaiting-selection"}
Late(x) == Present(x) /\ ~Lapsed(x) /\ x.over /\ x.phase \notin {"delivered", "invalidated"}

Visited(tomb, kept) ==
    IF tomb.state = "over" THEN [state |-> "expired", stages |-> {}]
    ELSE [tomb EXCEPT !.stages = @ \cap kept]

Overdue ==
    \/ \E s \in Previews : Lapsed(sessions[s]) \/ Late(sessions[s])
    \/ \E s \in Previews : tombs[s].stages # {} \/ tombs[s].state = "over"

\* prune awaits only what is overdue; without, the work follows in the same turn.
Prune(kept) ==
    /\ holder = NoJob /\ queue # <<>> /\ Overdue
    /\ holder' = [Head(queue) EXCEPT !.at = "begun"]
    /\ queue' = Tail(queue)
    /\ AbortsSome(kept)
    /\ LET late == {s \in Previews : Late(sessions[s])}
       IN TakesOut(sessions, [s \in Previews |-> Visited(tombs[s], kept)],
                   late, {s \in Previews : Lapsed(sessions[s])}, late, kept)
    /\ UNCHANGED <<epoch, revision, ops, starts, browserSide, client, exporting, begun>>

\* The job that may go on: that of the holder, or the next one.
job ==
    IF holder # NoJob THEN holder
    ELSE IF queue = <<>> \/ Overdue THEN NoJob
    ELSE [Head(queue) EXCEPT !.at = "begun"]
StillWaiting == IF holder = NoJob THEN Tail(queue) ELSE queue

\* `current`: what tabs.get tells of the source tab.
SeenNow == IF source.at = "exact" THEN "current" ELSE "changed"

\* A job at a place, and what its steps do to it.
At(kind, at) == job.kind = kind /\ job.at = at
AsksDocument == {"validating", "applying"}
Asked(at) ==
    [job EXCEPT !.at = at, !.seen = IF at \in AsksDocument THEN "nothing" ELSE SeenNow]
GoesTo(at) == holder' = Asked(at) /\ queue' = StillWaiting
Begins(at) ==
    /\ holder' = [Asked(at) EXCEPT !.gen = epoch[SourceTab], !.rev = revision]
    /\ queue' = StillWaiting
Finishes == holder' = NoJob /\ queue' = StillWaiting

\* What no job touches.
Outside == UNCHANGED <<epoch, revision, browserSide, exporting, begun>>
Peaceful == Outside /\ UNCHANGED <<ops, allowance>>

\* Mutant: what changed during the await is not asked about.
HeldOnlyByAnswer(answer, phases) == answer = "current" /\ PhaseCurrent(job.s, phases)
\* The checks after an await, as at the one before it.
StillCurrent(answer, phases) ==
    answer = "current" /\ PhaseCurrent(job.s, phases) /\ job.gen = epoch[SourceTab]

\* What the browser answers is what was so when it was asked, or what is so now.
Answered == job.seen # "nothing"
Answers == {job.seen, SeenNow}

-----------------------------------------------------------------------------
(* The source document: claim, selection, lease and publication.           *)

\* What the document waits for.
WaitsFor ==
    [claim |-> "claiming", await |-> "selecting", lease |-> "checking",
     publish |-> "publishing", stop |-> "stopping"]

\* The document that asked is still there, and still waits for the answer.
Hears ==
    source.doc = job.doc /\ source.at # "gone" /\ client.s = job.s /\ client.step = WaitsFor[job.kind]

\* Its answer to startTextPreview's message, once its claim is decided: begin.
AnswersClaim(granted) ==
    IF ~Hears THEN UNCHANGED <<client, starts>>
    ELSE IF granted /\ source.at = "exact"
    THEN /\ client' = [client EXCEPT !.step = "running"]
         /\ starts' = [starts EXCEPT ![job.s] = "accepted"]
    ELSE client' = NoClient /\ starts' = [starts EXCEPT ![job.s] = "refused"]

Tells(step) ==
    /\ client' = IF ~Hears THEN client
                 ELSE IF step = "idle" THEN NoClient ELSE [client EXCEPT !.step = step]
    /\ UNCHANGED starts

\* Only success leaves the ledger changed.
Refuses ==
    /\ IF job.kind = "claim" THEN AnswersClaim(FALSE)
       ELSE IF job.kind = "stop" THEN Tells("idle")
       ELSE IF job.kind \in DOMAIN WaitsFor THEN Tells("failing")
       ELSE UNCHANGED <<client, starts>>
    /\ Finishes /\ UNCHANGED ledger /\ Peaceful

Continues(check, at) ==
    IF check THEN GoesTo(at) /\ UNCHANGED <<ledger, client, starts>> /\ Peaceful ELSE Refuses

BeginsAt(check, at) ==
    IF check THEN Begins(at) /\ UNCHANGED <<ledger, client, starts>> /\ Peaceful ELSE Refuses

Changes(s, x) ==
    /\ sessions' = [sessions EXCEPT ![s] = x]
    /\ UNCHANGED <<tombs, reserved, stored, cancels>>

Claim ==
    \/ At("claim", "begun") /\ BeginsAt(PhaseCurrent(job.s, {"pending"}), "tab")
    \/ At("claim", "tab") /\ \E seen \in Answers : Continues(StillCurrent(seen, {"pending"}), "settings")
    \/ /\ At("claim", "settings")
       /\ Continues(/\ job.rev = revision /\ job.gen = epoch[SourceTab]
                    /\ PhaseCurrent(job.s, {"pending"}), "tab-again")
    \/ /\ At("claim", "tab-again")
       /\ \E seen \in Answers :
          IF StillCurrent(seen, {"pending"})
          THEN /\ Changes(job.s, [sessions[job.s] EXCEPT !.phase = "capturing", !.over = sessions[job.s].leaseOver,
                                                        !.doc = job.doc, !.gen = job.gen])
               /\ AnswersClaim(TRUE) /\ Finishes /\ Peaceful
          ELSE Refuses

AwaitSelection ==
    \/ /\ At("await", "begun")
       /\ BeginsAt(/\ sessions[job.s].selected /\ PhaseCurrent(job.s, {"capturing"})
                   /\ OwnsSource(job.s, job.doc) /\ SourceGenerationCurrent(job.s), "tab")
    \/ /\ At("await", "tab")
       /\ \E seen \in Answers :
          IF StillCurrent(seen, {"capturing"})
          THEN /\ Changes(job.s, [sessions[job.s] EXCEPT !.phase = "awaiting-selection"])
               /\ Tells("choosing") /\ Finishes /\ Peaceful
          ELSE Refuses

CaptureLease ==
    \/ /\ At("lease", "begun")
       /\ BeginsAt(/\ IsLiveCapture(sessions[job.s]) /\ ~sessions[job.s].over
                   /\ OwnsSource(job.s, job.doc) /\ SourceGenerationCurrent(job.s), "tab")
    \/ /\ At("lease", "tab")
       /\ \E seen \in Answers :
          IF StillCurrent(seen, {sessions[job.s].phase}) /\ SourceGenerationCurrent(job.s)
          THEN Tells("finishing") /\ Finishes /\ UNCHANGED ledger /\ Peaceful
          ELSE Refuses

\* The two checks before the stages are given up, and the two around it.
Publish ==
    \/ /\ At("publish", "begun")
       /\ BeginsAt(/\ PhaseCurrent(job.s, {"capturing"})
                   /\ OwnsSource(job.s, job.doc) /\ SourceGenerationCurrent(job.s), "tab")
    \/ At("publish", "tab") /\ \E seen \in Answers : Continues(StillCurrent(seen, {"capturing"}), "tab-again")
    \/ /\ At("publish", "tab") /\ Costs("failed-capture")    \* the payload is not acceptable
       /\ Tells("failing") /\ Finishes /\ UNCHANGED <<ledger, ops>> /\ Outside
    \/ At("publish", "tab-again") /\ \E seen \in Answers : Continues(StillCurrent(seen, {"capturing"}), "cleaning")
    \/ /\ At("publish", "cleaning")
       /\ \E kept \in {{}, StageIds} :
            /\ AbortsSome(kept)
            /\ sessions' = [sessions EXCEPT ![job.s].stages = @ \cap kept]
            /\ stored' = stored \ (sessions[job.s].stages \ kept)
       /\ GoesTo("cleaned")
       /\ Outside /\ UNCHANGED <<ops, tombs, reserved, cancels, client, starts>>
    \/ /\ At("publish", "cleaned")
       /\ Continues(PhaseCurrent(job.s, {"capturing"}) /\ job.gen = epoch[SourceTab], "tab-at-last")
    \/ /\ At("publish", "tab-at-last")
       /\ \E seen \in Answers :
          IF StillCurrent(seen, {"capturing"})
          THEN /\ sessions' = [sessions EXCEPT ![job.s].phase = "ready",
                                               ![job.s].over = sessions[job.s].leaseOver,
                                               ![job.s].held = FALSE]
               /\ reserved' = StillReserved(sessions, {job.s})
               /\ GoesTo("releasing")
               /\ UNCHANGED <<tombs, stored, cancels, client, starts>> /\ Peaceful
          ELSE Refuses
    \/ /\ At("publish", "releasing")
       /\ IF PhaseCurrent(job.s, {"ready"}) /\ job.gen = epoch[SourceTab]
          THEN /\ Tells("idle") /\ Finishes /\ UNCHANGED ledger /\ Peaceful
          ELSE /\ \E kept \in {{}, StageIds} :
                    AbortsSome(kept) /\ Invalidates(sessions, {job.s}, {}, kept)
               /\ Tells("failing") /\ Finishes /\ Outside /\ UNCHANGED ops

-----------------------------------------------------------------------------
(* The popup: choose, with the two messages to the source document.        *)

InvalidatesChoice ==
    /\ \E kept \in {{}, StageIds} :
        AbortsSome(kept) /\ Invalidates(sessions, {job.s}, {job.s}, kept)
    /\ Finishes /\ Outside /\ UNCHANGED <<ops, client, starts>>

Choose ==
    \/ /\ At("choose", "begun")
       /\ BeginsAt(PhaseCurrent(job.s, {"awaiting-selection"}) /\ SourceGenerationCurrent(job.s), "tab")
    \/ /\ At("choose", "tab")
       /\ \E seen \in Answers : Continues(StillCurrent(seen, {"awaiting-selection"}), "validating")
    \/ /\ At("choose", "validating") /\ Answered
       /\ Continues(/\ job.seen = "accepted" /\ job.gen = epoch[SourceTab]
                    /\ PhaseCurrent(job.s, {"awaiting-selection"}), "tab-again")
    \/ /\ At("choose", "tab-again")
       /\ \E seen \in Answers :
          IF StillCurrent(seen, {"awaiting-selection"})
          THEN /\ Changes(job.s, [sessions[job.s] EXCEPT !.phase = "capturing"])
               /\ GoesTo("applying") /\ UNCHANGED <<client, starts>> /\ Peaceful
          ELSE Refuses
    \/ /\ At("choose", "applying") /\ Answered
       /\ IF /\ job.seen = "accepted" /\ job.gen = epoch[SourceTab]
             /\ PhaseCurrent(job.s, {"capturing"})
          THEN GoesTo("tab-at-last") /\ UNCHANGED <<ledger, client, starts>> /\ Peaceful
          ELSE InvalidatesChoice
    \/ /\ At("choose", "tab-at-last")
       /\ \E seen \in Answers :
          IF StillCurrent(seen, {"capturing"}) /\ SourceGenerationCurrent(job.s)
          THEN Finishes /\ UNCHANGED <<ledger, client, starts>> /\ Peaceful
          ELSE InvalidatesChoice

\* ownedCommand: the document that waits for a choice takes it, and goes on.
DocumentAnswers ==
    /\ job.kind = "choose" /\ job.at \in AsksDocument /\ ~Answered
    /\ LET takes == /\ source.doc = sessions[job.s].doc /\ source.at = "exact"
                    /\ client.s = job.s /\ ~client.stopped /\ client.step = "choosing"
       IN /\ holder' = [job EXCEPT !.seen = IF takes THEN "accepted" ELSE "refused"]
          /\ client' = IF takes /\ job.at = "applying"
                       THEN [client EXCEPT !.step = "running", !.chosen = TRUE] ELSE client
    /\ UNCHANGED <<queue, ledger, starts>> /\ Peaceful

-----------------------------------------------------------------------------
(* The preview window.                                                     *)

\* The answer reaches the document that asked, if it still waits for it.
Shows(waiting, step) ==
    views' = [views EXCEPT ![job.s] =
                 IF @.at = "open" /\ @.doc = job.doc /\ @.step \in waiting
                 THEN [@ EXCEPT !.step = step] ELSE @]

OnlyViews == UNCHANGED <<epoch, revision, source, news, ops, starts, client, bounds>>

\* What the page makes of its status: poll, acknowledge and checkLease of page.ts.
StepAfter(step, phase) ==
    CASE step = "asking" /\ phase \in {"pending", "capturing", "awaiting-selection", "not-ready"} -> "idle"
      [] step = "asking" /\ phase = "ready" -> "offered"
      [] step \in {"reconciling", "checking"} /\ phase = "delivered" -> "showing"
      [] OTHER -> "erased"

Status ==
    /\ At("status", "begun") /\ Finishes
    /\ LET known == IsPage(job.s, job.doc)
           x == sessions[job.s]
           phase == IF ~known THEN "not-ready" ELSE IF x.leaseOver THEN "expired" ELSE x.phase
       IN /\ Changes(job.s, Pinned(job.s, job.doc))
          /\ Shows({views[job.s].step} \cap {"asking", "reconciling", "checking"},
                   StepAfter(views[job.s].step, phase))
    /\ OnlyViews

MayBeTaken(x) == x.phase = "ready"

Take ==
    /\ At("take", "begun") /\ Finishes
    /\ IF IsPage(job.s, job.doc) /\ MayBeTaken(sessions[job.s])
       THEN /\ Changes(job.s, [Pinned(job.s, job.doc) EXCEPT !.phase = "taken", !.over = sessions[job.s].leaseOver])
            /\ Shows({"taking"}, "taken")
       ELSE Changes(job.s, Pinned(job.s, job.doc)) /\ Shows({"taking"}, "erased")
    /\ OnlyViews

\* The delivery is named by its only taking; a second ack of it succeeds as well.
Ack ==
    /\ At("ack", "begun") /\ Finishes
    /\ IF IsPage(job.s, job.doc) /\ sessions[job.s].phase \in {"taken", "delivered"}
       THEN /\ Changes(job.s, [Pinned(job.s, job.doc) EXCEPT
                                  !.phase = "delivered",
                                  !.over = IF sessions[job.s].phase = "taken" THEN sessions[job.s].leaseOver ELSE @])
            /\ Shows({"acking"}, "showing")
       ELSE Changes(job.s, Pinned(job.s, job.doc)) /\ Shows({"acking"}, "erased")
    /\ OnlyViews

\* invalidate: the source may stop, the page clear or close.
Invalidate ==
    \E kept \in {{}, StageIds} :
        \/ /\ At("close", "begun")
           /\ IF IsPage(job.s, job.doc)
              THEN AbortsSome(kept) /\ Invalidates([sessions EXCEPT ![job.s] = Pinned(job.s, job.doc)],
                                               {job.s}, {job.s}, kept)
              ELSE kept = {} /\ UNCHANGED <<ledger, allowance>>
           /\ Finishes /\ Outside /\ UNCHANGED <<ops, starts, client>>
        \/ /\ At("stop", "begun")
           /\ IF OwnsSource(job.s, job.doc) /\ Present(sessions[job.s])
              THEN AbortsSome(kept) /\ Invalidates(sessions, {job.s}, {}, kept)
              ELSE kept = {} /\ UNCHANGED <<ledger, allowance>>
           /\ Tells("idle") /\ Finishes /\ Outside /\ UNCHANGED ops

==============================================================================

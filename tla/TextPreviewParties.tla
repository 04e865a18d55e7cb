-------------------------- MODULE TextPreviewParties --------------------------
(***************************************************************************)
(* Those who take part in a text preview, around TextPreview:              *)
(*   the route of its requests through background/service-worker.ts,       *)
(*   startTextPreview, which opens the window outside the lock,            *)
(*   the source document   content/text-preview-client.ts, bootstrap.ts    *)
(*   the preview window    text-preview/page.ts                            *)
(*   the popup             text-preview/popup.ts                           *)
(*                                                                         *)
(* A message is queued where it waits for the lock when it is sent, so the *)
(* messages of one sender stay in order.  The choice of a branch, what is  *)
(* captured, selected and downloaded are left out.                         *)
(***************************************************************************)
EXTENDS TextPreview

-----------------------------------------------------------------------------
(* Requests of the capture about a stage.                                  *)

\* The document that made the request is told that it failed.
OpDenied(s) ==
    /\ ops' = [ops EXCEPT ![s] = NoOp]
    /\ client' = IF source.doc = ops[s].doc /\ client.s = s /\ client.step = "running"
                 THEN [client EXCEPT !.step = "failing"] ELSE client

OpGranted(s) == ops' = [ops EXCEPT ![s].step = "granted"] /\ UNCHANGED client

\* authorizeCaptureAction; cleanup needs only the stage.
Authorize ==
    LET s == job.s
        op == ops[s]
        owns == Present(sessions[s]) /\ OwnsSource(s, op.doc)
    IN  \/ /\ At("authorize", "begun")
           /\ IF op.kind = "abort"
              THEN /\ IF owns /\ op.stage \in sessions[s].stages THEN OpGranted(s) ELSE OpDenied(s)
                   /\ Finishes
              ELSE IF owns /\ sessions[s].phase = "capturing" /\ SourceGenerationCurrent(s)
              THEN GoesTo("tab") /\ UNCHANGED <<ops, client>>
              ELSE OpDenied(s) /\ Finishes
           /\ UNCHANGED <<ledger, starts, allowance>> /\ Outside
        \/ /\ At("authorize", "tab")
           /\ \E seen \in Answers :
              IF seen = "current"
              THEN /\ IF op.epoch = epoch[SourceTab] /\ PhaseCurrent(s, {"capturing"})
                      THEN OpGranted(s) ELSE OpDenied(s)
                   /\ UNCHANGED <<ledger, allowance>>
              ELSE /\ \E kept \in {{}, StageIds} :
                        AbortsSome(kept) /\ Invalidates(sessions, {s}, {s}, kept)
                   /\ OpDenied(s)
           /\ Finishes /\ UNCHANGED starts /\ Outside

\* handleMessage, dispatchMessage: the handler runs without the lock.
OpRuns(s) ==
    /\ ops[s].step = "granted"
    /\ \/ /\ ops[s].kind = "begin"
          /\ LET stage == <<s, begun[s] + 1>>
             IN ops' = [ops EXCEPT ![s].step = "done", ![s].stage = stage]
                /\ stored' = stored \cup {stage}
          /\ begun' = [begun EXCEPT ![s] = @ + 1]
          /\ UNCHANGED allowance
       \/ /\ ops[s].kind = "abort"
          /\ \/ stored' = stored \ {ops[s].stage} /\ UNCHANGED allowance
                /\ ops' = [ops EXCEPT ![s].step = "done"]
             \/ Costs("refused-abort") /\ UNCHANGED stored
                /\ ops' = [ops EXCEPT ![s].step = "done", ![s].stage = <<>>]
          /\ UNCHANGED begun
    /\ Sends(Job("record", s, ops[s].doc))
    /\ UNCHANGED <<sessions, tombs, reserved, cancels, epoch, revision, holder, starts, browserSide,
                   client, exporting>>

\* Mutant: a stage that comes late is nobody's.
LateStageIgnored(s, stage, kept) ==
    UNCHANGED <<sessions, tombs, stored>> /\ kept = {}
\* The capture is over: the stage is aborted, or kept in mind until it can be.
StageComesLate(s, stage, kept) ==
    /\ stored' = stored \ ({stage} \ kept)
    /\ IF Present(sessions[s])
       THEN sessions' = [sessions EXCEPT ![s].stages = @ \cup ({stage} \cap kept)] /\ UNCHANGED tombs
       ELSE tombs' = [tombs EXCEPT ![s].stages = @ \cup ({stage} \cap kept)] /\ UNCHANGED sessions

\* recordCaptureResult
Record ==
    /\ At("record", "begun")
    /\ LET s == job.s
           x == sessions[s]
           stage == ops[s].stage
       IN  /\ \/ /\ ops[s].kind = "begin" /\ Present(x)
                 /\ IsLiveCapture(x) /\ Cardinality(x.stages) < StageLimit
                 /\ sessions' = [sessions EXCEPT ![s].stages = @ \cup {stage}]
                 /\ UNCHANGED <<tombs, stored, allowance>>
              \/ /\ ops[s].kind = "begin"
                 /\ IF Present(x) THEN ~IsLiveCapture(x) \/ Cardinality(x.stages) >= StageLimit
                    ELSE Stands(tombs[s])
                 /\ \E kept \in {{}, {stage}} :
                        /\ StageComesLate(s, stage, kept)
                        /\ IF kept = {} THEN UNCHANGED allowance ELSE Costs("refused-abort")
              \/ /\ ops[s].kind = "begin" /\ ~Present(x) /\ ~Stands(tombs[s])
                 /\ UNCHANGED <<sessions, tombs, stored, allowance>>
              \/ /\ ops[s].kind = "abort"
                 /\ sessions' = [sessions EXCEPT ![s].stages = @ \ {stage}]
                 /\ UNCHANGED <<tombs, stored, allowance>>
           /\ ops' = [ops EXCEPT ![s] = NoOp]
           /\ client' = IF /\ ops[s].kind = "begin" /\ source.doc = ops[s].doc
                           /\ client.s = s /\ client.step = "running"
                        THEN [client EXCEPT !.holds = @ \cup {stage}] ELSE client
    /\ Finishes /\ Outside /\ UNCHANGED <<reserved, cancels, starts>>

-----------------------------------------------------------------------------
(* startTextPreview.                                                       *)

OnlyStarts == UNCHANGED <<epoch, revision, ops, source, client, exporting, begun>>
StartGoes(s, at) == starts' = [starts EXCEPT ![s] = at]

\* bound: a start is answered before the next one.
Concluded == {"done", "chosen", "unconfirmed", "failed"}

\* uiSource and reserveSource; the popup starts a preview where none is refused.
Start(s, selected) ==
    /\ starts[s] = "none" /\ \A r \in Previews : r < s => starts[r] \in Concluded
    /\ Costs(IF selected THEN "selected-start" ELSE "start")
    /\ source.at = "exact" /\ ~reserved /\ ~exporting
    /\ reserved' = TRUE
    /\ sessions' = [sessions EXCEPT ![s].selected = selected]
    /\ StartGoes(s, "reserved")
    /\ Sends(Job("create", s, 0))
    /\ UNCHANGED <<tombs, stored, cancels, holder, news, views>> /\ OnlyStarts

\* The session, unless previews of other tabs hold all leases.
Create ==
    /\ At("create", "begun") /\ Finishes
    /\ \/ /\ Changes(job.s, [sessions[job.s] EXCEPT !.phase = "pending", !.held = TRUE])
          /\ StartGoes(job.s, "opening")
          /\ UNCHANGED allowance
       \/ /\ Costs("other-leases")
          /\ reserved' = FALSE
          /\ StartGoes(job.s, "failed")
          /\ UNCHANGED <<sessions, tombs, stored, cancels>>
    /\ Outside /\ UNCHANGED <<ops, client>>

BeforeJob == UNCHANGED <<ledger, holder>> /\ OnlyStarts

\* windows.create: the first document of the window.
WindowOpens(s) ==
    /\ starts[s] = "opening"
    /\ \/ /\ views' = [views EXCEPT ![s] = [at |-> "open", doc |-> 1, step |-> "idle"]]
          /\ StartGoes(s, "navigating")
          /\ UNCHANGED allowance
       \/ Costs("refused-window") /\ StartGoes(s, "refused") /\ UNCHANGED views
    /\ UNCHANGED <<queue, news>> /\ BeforeJob

\* A document goes: pagehide, with the browser's news of it; another one loads or not.
Unloads(s, what) ==
    /\ Sends(Job("close", s, views[s].doc))
    /\ news' = Append(news, <<s, what>>)
    /\ views' = [views EXCEPT ![s] = IF what = "removed" THEN [@ EXCEPT !.at = "gone"]
                                     ELSE [@ EXCEPT !.doc = views[s].doc + 1, !.step = "idle"]]

\* tabs.update to the same URL.
WindowNavigates(s) ==
    /\ starts[s] = "navigating"
    /\ IF views[s].at = "open" THEN Unloads(s, "loading") /\ StartGoes(s, "confirming")
       ELSE StartGoes(s, "refused") /\ UNCHANGED <<queue, news, views>>
    /\ UNCHANGED allowance /\ BeforeJob

\* confirmPreviewNavigation, and the request for the lock with what was seen until then;
\* the browser tells of the loading before it says that it is over.
NavigationConfirmed(s) ==
    /\ starts[s] = "confirming" /\ \A i \in DOMAIN news : news[i][1] # s
    /\ IF views[s].at = "open"
       THEN StartGoes(s, "registering") /\ Sends([Job("register", s, 0) EXCEPT !.gen = epoch[s]])
       ELSE StartGoes(s, "refused") /\ UNCHANGED queue
    /\ UNCHANGED <<news, views, allowance>> /\ BeforeJob

Register ==
    /\ At("register", "begun") /\ Finishes
    /\ IF PhaseCurrent(job.s, {"pending"}) /\ job.gen = epoch[job.s]
       THEN Changes(job.s, [sessions[job.s] EXCEPT !.window = TRUE]) /\ StartGoes(job.s, "beginning")
       ELSE StartGoes(job.s, "refused") /\ UNCHANGED ledger
    /\ UNCHANGED client /\ Peaceful

\* begin: the document claims the capture before it answers.
DocumentBegins(s) ==
    /\ starts[s] = "beginning"
    /\ IF source.at = "exact" /\ client.s = 0
       THEN /\ client' = [NoClient EXCEPT !.s = s, !.step = "claiming"]
            /\ Sends(Job("claim", s, source.doc))
            /\ StartGoes(s, "accepting")
       ELSE StartGoes(s, "refused") /\ UNCHANGED <<client, queue>>
    /\ UNCHANGED <<ledger, holder, epoch, revision, ops, browserSide, bounds>>

\* The document is gone before it answered.
BeginIsLost(s) ==
    /\ starts[s] = "accepting" /\ client.s # s
    /\ StartGoes(s, "refused")
    /\ UNCHANGED <<queue, news, views, allowance>> /\ BeforeJob

\* The outcome goes through the lock: a last check, or the session's removal.
StartConcludes(s) ==
    /\ \/ starts[s] = "accepted" /\ StartGoes(s, "settling") /\ Sends(Job("settle", s, 0))
       \/ starts[s] = "refused" /\ StartGoes(s, "ending") /\ Sends(Job("remove", s, 0))
    /\ UNCHANGED <<news, views, allowance>> /\ BeforeJob

Settle ==
    /\ At("settle", "begun") /\ Finishes
    /\ StartGoes(job.s, IF PhaseCurrent(job.s, {"pending", "capturing", "awaiting-selection"})
                        THEN "done" ELSE "unconfirmed")
    /\ UNCHANGED <<ledger, client>> /\ Peaceful

Remove ==
    /\ At("remove", "begun") /\ Finishes
    /\ \E kept \in {{}, StageIds} :
        AbortsSome(kept) /\ TakesOut(sessions, tombs, {}, {job.s}, {}, kept)
    /\ StartGoes(job.s, "failed")
    /\ Outside /\ UNCHANGED <<ops, client>>

\* windows.remove, after a start that failed.
WindowRemoved(s) ==
    /\ starts[s] = "failed" /\ views[s].at = "open"
    /\ Unloads(s, "removed")
    /\ UNCHANGED <<starts, allowance>> /\ BeforeJob

\* The popup has polled the options, and the user chooses one.
UserChooses(s) ==
    /\ starts[s] = "done" /\ sessions[s].phase = "awaiting-selection"
    /\ StartGoes(s, "chosen")
    /\ Sends(Job("choose", s, 0))
    /\ UNCHANGED <<news, views, allowance>> /\ BeforeJob

-----------------------------------------------------------------------------
(* Listeners: tabRemoved and tabChanged.                                   *)

Announced ==
    /\ news # <<>> /\ news' = Tail(news)
    /\ LET changed == Head(news)[1]
           what == Head(news)[2]
       IN  /\ epoch' = [epoch EXCEPT ![changed] = @ + 1]
           /\ Sends(Job(what, changed, 0))
           /\ sessions' = [s \in Previews |->
                  IF changed = SourceTab /\ what # "back" /\ Present(sessions[s])
                  THEN [sessions[s] EXCEPT !.lost = TRUE] ELSE sessions[s]]
    /\ UNCHANGED <<tombs, reserved, stored, cancels, revision, holder, ops, starts, source, views,
                   client, bounds>>

\* Mutant: what is captured already is not withdrawn.
ConcernsOnlyCaptures(s) ==
    \/ job.s = SourceTab /\ job.kind # "back"
       /\ sessions[s].phase \in {"pending", "capturing", "awaiting-selection"}
    \/ job.s = s /\ Present(sessions[s]) /\ sessions[s].window
\* A session the change of the tab concerns.
Concerns(s) ==
    Present(sessions[s]) /\ \/ job.s = SourceTab /\ job.kind # "back"
                            \/ job.s = s /\ sessions[s].window

TabEvent ==
    /\ job.kind \in {"removed", "loading", "elsewhere", "back"} /\ job.at = "begun" /\ Finishes
    /\ LET concerned == {s \in Previews : Concerns(s)}
           told == IF job.kind = "removed" /\ job.s = SourceTab THEN {} ELSE concerned
           closes(s) == job.kind = "removed" /\ job.s = s /\ s \in concerned
       IN \E kept \in {{}, StageIds} :
            /\ AbortsSome(kept)
            /\ Invalidates([s \in Previews |-> IF closes(s) THEN [sessions[s] EXCEPT !.closed = TRUE]
                                               ELSE sessions[s]], concerned, told, kept)
    /\ Outside /\ UNCHANGED <<ops, starts, client>>

-----------------------------------------------------------------------------
(* The source document: begin, and handleTextPreviewCapture of bootstrap.ts. *)

OnlyClient == UNCHANGED <<ledger, holder, epoch, revision, starts, browserSide, exporting, begun>>
ClientGoes(step) == client' = [client EXCEPT !.step = step]
ClientAsks(kind) == Sends(Job(kind, client.s, source.doc))

\* Its requests pass through withTextPreviewGeneration; cleanup is not refused there.
MaySend == ~client.stopped /\ source.at = "exact"

Requests(kind, stage) ==
    /\ ops' = [ops EXCEPT ![client.s] = [step |-> "queued", kind |-> kind, doc |-> source.doc,
                                         epoch |-> epoch[SourceTab], stage |-> stage]]
    /\ ClientAsks("authorize")

ClientBeginsStage ==
    /\ client.step = "running" /\ MaySend
    /\ ops[client.s] = NoOp /\ begun[client.s] < StagesEach /\ Costs("stage")
    /\ Requests("begin", <<>>)
    /\ UNCHANGED client /\ OnlyClient

\* selectTextPreviewBranch
ClientSelects ==
    /\ client.step = "running" /\ ops[client.s] = NoOp
    /\ ~client.stopped /\ sessions[client.s].selected /\ ~client.chosen
    /\ ClientGoes("selecting") /\ ClientAsks("await")
    /\ UNCHANGED <<ops, allowance>> /\ OnlyClient

\* checkTextPreviewCaptureLease, before the result is used.
ClientChecks ==
    /\ client.step = "running" /\ ops[client.s] = NoOp
    /\ ~client.stopped /\ (sessions[client.s].selected => client.chosen)
    /\ ClientGoes("checking") /\ ClientAsks("lease")
    /\ UNCHANGED <<ops, allowance>> /\ OnlyClient

\* The capture fails, with a result that holds its stages or without.
ClientGivesUp ==
    /\ client.step \in {"running", "finishing"} /\ ops[client.s] = NoOp
    /\ IF client.stopped THEN UNCHANGED allowance
       ELSE client.step = "running" /\ Costs("failed-capture")
    /\ \E holds \in {{}, client.holds} :
        client' = [client EXCEPT !.step = "failing", !.holds = holds]
    /\ UNCHANGED <<queue, ops>> /\ OnlyClient

\* discardStoppedExtractionStages, one artifact after the other.
ClientDiscards ==
    /\ client.step \in {"finishing", "failing"} /\ ops[client.s] = NoOp
    /\ \E stage \in client.holds :
        /\ client' = [client EXCEPT !.holds = @ \ {stage}]
        /\ Requests("abort", stage)
    /\ UNCHANGED allowance /\ OnlyClient

Discarded == client.holds = {} /\ ops[client.s] = NoOp

\* publishTextPreview, and what begin does when nothing was published.
ClientPublishes ==
    /\ client.step = "finishing" /\ Discarded /\ ~client.stopped
    /\ ClientGoes("publishing") /\ ClientAsks("publish")
    /\ UNCHANGED <<ops, allowance>> /\ OnlyClient

ClientStops ==
    /\ client.step = "failing" /\ Discarded
    /\ ClientGoes("stopping") /\ ClientAsks("stop")
    /\ UNCHANGED <<ops, allowance>> /\ OnlyClient

\* scope.abort with finishSelection(null)
Aborted == [client EXCEPT !.stopped = TRUE,
                          !.step = IF @ \in {"selecting", "choosing"} THEN "failing" ELSE @]
Scoped == client.step \notin {"idle", "claiming"}

\* ownedCommand, in the document the message is sent to.
CancelArrives(s) ==
    /\ s \in cancels /\ cancels' = cancels \ {s}
    /\ client' = IF client.s = s /\ Scoped /\ source.doc = sessions[s].doc THEN Aborted ELSE client
    /\ UNCHANGED <<sessions, tombs, reserved, stored, epoch, revision, queue, holder, ops, starts,
                   browserSide, bounds>>

\* The timer of begin.
CaptureExpires ==
    /\ Scoped /\ ~client.stopped /\ sessions[client.s].over
    /\ client' = Aborted
    /\ UNCHANGED <<queue, ops, allowance>> /\ OnlyClient

ClientSteps ==
    \/ ClientSelects \/ ClientChecks \/ ClientDiscards \/ ClientPublishes \/ ClientStops
    \/ CaptureExpires
    \/ client.stopped /\ ClientGivesUp      \* what is aborted comes to an end

-----------------------------------------------------------------------------
(* The preview window.                                                     *)

OnlyWindow == UNCHANGED <<ledger, holder, epoch, revision, ops, starts, source, client, exporting, begun>>
Page(s) == views[s].at = "open"
PageGoes(s, step) == views' = [views EXCEPT ![s].step = step]
PageAsks(s, kind) == Sends(Job(kind, s, views[s].doc))

\* The preview waits, or captures.
HoldsSource(x) == x.phase \in {"pending", "capturing", "awaiting-selection"}

\* poll, deliver, acknowledge and checkLease; a request never follows an erasure.
Request ==
    [idle |-> <<"asking", "status">>, offered |-> <<"taking", "take">>,
     taken |-> <<"acking", "ack">>, showing |-> <<"checking", "status">>]

\* bound: a poll or a check that would learn nothing new, and find nothing expired,
\* is left out.
Learns(s) ==
    CASE views[s].step = "idle" ->
            IF HoldsSource(sessions[s]) THEN sessions[s].over ELSE IsPage(s, views[s].doc)
      [] views[s].step = "showing" -> sessions[s].phase # "delivered" \/ sessions[s].leaseOver
      [] OTHER -> TRUE

PageRequests(s) ==
    /\ Page(s) /\ views[s].step \in DOMAIN Request /\ Learns(s)
    /\ PageGoes(s, Request[views[s].step][1]) /\ PageAsks(s, Request[views[s].step][2])
    /\ UNCHANGED <<news, allowance>> /\ OnlyWindow

\* An answer is lost or late: only of the acknowledgement the page asks again.
AnswerIsLost(s) ==
    /\ Page(s) /\ views[s].step \in {"asking", "taking", "acking", "reconciling", "checking"}
    /\ Costs("slow-answer")
    /\ IF views[s].step = "acking" THEN PageGoes(s, "reconciling") /\ PageAsks(s, "status")
       ELSE PageGoes(s, "erased") /\ UNCHANGED queue
    /\ UNCHANGED news /\ OnlyWindow

\* setExpiry: the page has a timer of its own for the lease.
PageExpires(s) ==
    /\ Page(s) /\ views[s].step # "erased" /\ sessions[s].leaseOver /\ sessions[s].window
    /\ PageGoes(s, "erased")
    /\ UNCHANGED <<queue, news, allowance>> /\ OnlyWindow

PageClears(s) ==
    /\ Page(s) /\ views[s].step # "erased" /\ Costs("cleared")
    /\ PageGoes(s, "erased") /\ PageAsks(s, "close")
    /\ UNCHANGED news /\ OnlyWindow

WindowGoes(s) ==
    /\ Page(s)
    /\ \/ Costs("closed-window") /\ Unloads(s, "removed")
       \/ Costs("reloaded-window") /\ Unloads(s, "loading")
    /\ OnlyWindow

-----------------------------------------------------------------------------
(* The source tab, time, the settings and other exports.                   *)

OnlySource == UNCHANGED <<ledger, epoch, revision, queue, holder, ops, starts, views, exporting, begun>>
SourceTells(what) == news' = Append(news, <<SourceTab, what>>)

SourceReloads ==
    /\ source.at # "gone" /\ Costs("reload")
    /\ source' = [doc |-> source.doc + 1, at |-> "loading"]
    /\ client' = NoClient
    /\ SourceTells("loading") /\ OnlySource

SourceLoads ==
    /\ source.at = "loading"
    /\ source' = [source EXCEPT !.at = "exact"]
    /\ UNCHANGED <<client, news, allowance>> /\ OnlySource

\* A change of the URL that keeps the document.
SourceWanders ==
    /\ \/ /\ source.at = "exact" /\ Costs("wander")
          /\ source' = [source EXCEPT !.at = "other"] /\ SourceTells("elsewhere")
       \/ /\ source.at = "other" /\ UNCHANGED allowance
          /\ source' = [source EXCEPT !.at = "exact"] /\ SourceTells("back")
    /\ UNCHANGED client /\ OnlySource

SourceCloses ==
    /\ source.at # "gone" /\ Costs("closed-source")
    /\ source' = [source EXCEPT !.at = "gone"]
    /\ client' = NoClient
    /\ SourceTells("removed") /\ OnlySource

OnlyWorker == UNCHANGED <<reserved, stored, cancels, epoch, queue, holder, ops, starts, browserSide,
                          client, begun>>

\* The deadlines of the phase and of the page, and that of a tombstone.
Passes(s) ==
    \/ /\ Present(sessions[s]) /\ ~sessions[s].over
       /\ sessions[s].phase \in {"delivered", "invalidated"} => sessions[s].closed
       /\ sessions' = [sessions EXCEPT ![s].over = TRUE] /\ UNCHANGED tombs
    \/ /\ Present(sessions[s]) /\ ~sessions[s].leaseOver
       /\ sessions[s].over \/ sessions[s].phase \in {"delivered", "invalidated"}
       /\ sessions' = [sessions EXCEPT ![s].over = TRUE, ![s].leaseOver = TRUE] /\ UNCHANGED tombs
    \/ /\ tombs[s].state = "there"
       /\ tombs' = [tombs EXCEPT ![s].state = "over"] /\ UNCHANGED sessions

DeadlinePasses(s) ==
    /\ Costs("deadline") /\ Passes(s)
    /\ UNCHANGED <<revision, exporting>> /\ OnlyWorker

\* The revision counts what storage.onChanged tells; an export holds the tab.
Elsewhere ==
    /\ \/ Costs("settings") /\ revision' = revision + 1 /\ UNCHANGED exporting
       \/ /\ ~reserved /\ ~exporting /\ Costs("export")
          /\ exporting' = TRUE /\ UNCHANGED revision
       \/ exporting /\ exporting' = FALSE /\ UNCHANGED <<revision, allowance>>
    /\ UNCHANGED <<sessions, tombs>> /\ OnlyWorker

-----------------------------------------------------------------------------

PreviewInit ==
    /\ sessions = [s \in Previews |-> NoSession] /\ tombs = [s \in Previews |-> NoTomb]
    /\ reserved = FALSE /\ stored = {} /\ cancels = {}
    /\ epoch = [t \in {SourceTab} \cup Windows |-> 0] /\ revision = 0
    /\ queue = <<>> /\ holder = NoJob
    /\ ops = [s \in Previews |-> NoOp] /\ starts = [s \in Previews |-> "none"]
    /\ source = [doc |-> 1, at |-> "exact"] /\ news = <<>> /\ client = NoClient
    /\ views = [s \in Windows |-> [at |-> "none", doc |-> 0, step |-> "idle"]]
    /\ exporting = FALSE /\ begun = [s \in Previews |-> 0]
    /\ allowance \in Allowances

\* The steps of a job that holds the lock, and the one that gives it to the next.
JobSteps ==
    \/ Claim \/ AwaitSelection \/ CaptureLease \/ Publish \/ Choose
    \/ Status \/ Take \/ Ack \/ Invalidate
    \/ Authorize \/ Record \/ Create \/ Register \/ Settle \/ Remove \/ TabEvent
    \/ DocumentAnswers

WorkerSteps == JobSteps \/ \E kept \in {{}, StageIds} : Prune(kept)

StartSteps(s) ==
    \/ WindowOpens(s) \/ WindowNavigates(s) \/ NavigationConfirmed(s)
    \/ DocumentBegins(s) \/ BeginIsLost(s) \/ StartConcludes(s) \/ WindowRemoved(s)

PageSteps(s) == PageRequests(s) \/ PageExpires(s)

\* What happens without being made to.
Occurs ==
    \/ ClientBeginsStage \/ ClientGivesUp
    \/ SourceReloads \/ SourceWanders \/ SourceCloses \/ Elsewhere
    \/ \E s \in Previews :
        \/ \E selected \in BOOLEAN : Start(s, selected)
        \/ UserChooses(s) \/ AnswerIsLost(s) \/ PageClears(s) \/ WindowGoes(s)

\* The worker, the browser, the documents that live and the clock go on.
PreviewProgress ==
    \/ WorkerSteps \/ ClientSteps \/ Announced \/ SourceLoads
    \/ \E s \in Previews :
        \/ StartSteps(s) \/ OpRuns(s) \/ CancelArrives(s) \/ PageSteps(s)
        \/ DeadlinePasses(s)

PreviewNext == PreviewProgress \/ Occurs

-----------------------------------------------------------------------------

\* What the parties may be in, and a session that is not there owns nothing.
PreviewTypeOK ==
    /\ \A s \in Previews :
        /\ sessions[s].phase \in Phases
        /\ sessions[s].stages \subseteq StageIds
        /\ ~Present(sessions[s]) => sessions[s].stages = {} /\ ~sessions[s].held
        /\ tombs[s].state \in {"none", "there", "over", "expired"}
        /\ ops[s].step \in {"none", "queued", "granted", "done"}
    /\ stored \subseteq StageIds
    /\ client.s \in Previews \cup {0}
    /\ \A t \in DOMAIN epoch : epoch[t] \in Nat

\* A preview that waits or captures holds the reservation of the source tab, no
\* other does, no one else holds it either, and no export starts beside it: the
\* ends of one preview never give up the tab of another.  releaseSource,
\* reservePreviewSource.
SourceIsReserved ==
    LET owners == {s \in Previews : sessions[s].held \/ starts[s] = "reserved"}
    IN  /\ \A s \in Previews : HoldsSource(sessions[s]) => sessions[s].held
        /\ reserved <=> owners # {}
        /\ \A r, s \in owners : r = s
        /\ reserved => ~exporting

\* A stage of a preview's capture always has somebody who will have it removed: the
\* session, its tombstone, or the request that is about it and not yet recorded.
\* recordCaptureResult, cleanupOwnedStages, retainCleanupTombstone, cleanupTombstone.
StagesAreOwned ==
    \A id \in stored :
        \/ id \in sessions[id[1]].stages
        \/ id \in tombs[id[1]].stages
        \/ ops[id[1]].step = "done" /\ ops[id[1]].stage = id
        \/ tombs[id[1]].state = "expired"

\* A preview holds its tab alone while it waits or captures, and no stage of its
\* capture is without somebody who will have it removed, however the ends of two
\* previews, late answers and refused aborts cross.
ResourcesAreOwned == SourceIsReserved /\ StagesAreOwned

TabNews == {"removed", "loading", "elsewhere", "back"}

\* A preview that was seen to lose its source is withdrawn, or news of a loss of
\* the source wait for the lock or hold it; and it does not become readable.
Attended(s) ==
    sessions[s].lost /\ Present(sessions[s]) /\ sessions[s].phase # "invalidated"
    => \E m \in {holder} \cup {queue[i] : i \in DOMAIN queue} :
           m.s = SourceTab /\ m.kind \in TabNews \ {"back"}
StaysUnread(s) ==
    sessions[s].lost /\ sessions[s].phase # "ready" => sessions'[s].phase # "ready"

\* A preview whose tab was seen to leave the conversation never becomes readable,
\* and never outlives the listener that waits for the lock to withdraw it, whatever
\* the job does that holds the lock then.  tabChanged, tabRemoved, sourceGenerationCurrent.
RevokedIsWithdrawn ==
    /\ [](\A s \in Previews : Attended(s))
    /\ [][\A s \in Previews : StaysUnread(s)]_previewVars

\* What is on display although its session is over.
Outdated == \E s \in Previews : Page(s) /\ views[s].step = "showing" /\ sessions[s].phase # "delivered"

\* The source tab is reserved, or what is over is on display.
PreviewUnfinished == reserved \/ Outdated
===============================================================================

-------------------------- MODULE ExportOperation --------------------------
(***************************************************************************)
(* The worker-owned export authority of the extension:                     *)
(* background/export-operation-controller.ts, and the way                  *)
(* background/service-worker.ts drives it.                                 *)
(*                                                                         *)
(* A trusted click creates a short-lived intent; the document in the tab   *)
(* claims it and becomes the owner of an operation; every privileged       *)
(* message of that document is admitted against the operation; temporary   *)
(* stages are registered with it and either handed to a commit or to       *)
(* cleanup.  Everything but the registration of browser events runs inside *)
(* one promise queue (`locked`), yet a job of that queue awaits the        *)
(* browser several times, so navigation, settings writes, expiry and the   *)
(* loss of the worker fall between any two of its steps.                   *)
(*                                                                         *)
(* One step of this module is the code between two awaits.                 *)
(***************************************************************************)
EXTENDS Naturals, Sequences, FiniteSets

CONSTANTS
    Tabs,              \* browser tabs showing a provider
    Routes,            \* normalised conversation URLs
    Settings,          \* values of the effective settings (snapshot and key)
    Stages,            \* identities of temporary stages
    Modes,             \* the export modes users ask for
    ReservationLimit,  \* operations + intents, 64 in the code
    IntentLimit,       \* pending intents, 32 in the code
    SurfaceLimit,      \* registered export windows, 32 in the code
    StageLimit,        \* stages registered with one operation, 4096 in the code
    MaxIntents,        \* bound: intents ever created
    MaxOps,            \* bound: operations ever created
    MaxSurfaces,       \* bound: export windows ever created
    QueueBound,        \* bound: jobs waiting for the lock when a request arrives
    Scenarios          \* bound: what the environment does, in each of some kinds of behaviour

Closed == "closed"       \* the route of a tab that is gone
Loading == "loading"     \* the route in a notification that a tab started loading
NoStage == "no-stage"

\* A scenario says which tabs are open, what session state the first worker finds,
\* the kinds and purposes of the requests that are made, the number of clicks, and
\* how often disturbances happen, in one of some mixtures.
Disturbances ==
    {"browser", "settings", "restart", "save-failure", "removal-failure", "expiry"}

ASSUME ParametersAreSane ==
    /\ Tabs # {} /\ Routes # {} /\ Settings # {}
    /\ Closed \notin Routes /\ Loading \notin Routes /\ NoStage \notin Stages
    /\ Modes \subseteq {"current", "selected"} /\ Modes # {}
    /\ ReservationLimit \in Nat /\ IntentLimit \in Nat /\ SurfaceLimit \in Nat
    /\ StageLimit \in Nat
    /\ MaxIntents \in Nat /\ MaxOps \in Nat /\ MaxSurfaces \in Nat
    /\ QueueBound \in Nat
    /\ \A sc \in Scenarios : \A mix \in sc.mixes : \A d \in Disturbances : mix[d] \in Nat

\* A browser session names finitely many stages.
ASSUME StagesAreFinite == IsFiniteSet(Stages)

IntentIds == 1 .. MaxIntents
OpIds == 1 .. MaxOps
SurfaceIds == 1 .. MaxSurfaces

VARIABLES
    tabs,       \* browser: route, loading flag and document of each tab
    windows,    \* browser: export windows now open
    settings,   \* browser: the effective settings now in storage
    events,     \* browser: notifications not yet delivered to the worker
    disk,       \* chrome.storage.session: the state a new worker hydrates
    mem,        \* this.state
    queue,      \* this.queue: jobs waiting for the lock, oldest first
    job,        \* the job that holds the lock, and where it stands
    epoch,      \* this.tabRevocations
    revision,   \* exportSettingsRevision of the service worker
    reserved,   \* this.previewReservations
    running,    \* stage handlers started and not yet recorded
    elapsed,    \* deadlines that have passed
    next,       \* fresh identities
    revoked,    \* history: generations the worker was told to revoke
    fate,       \* history: what happened to each stage
    spent,      \* bound: disturbances so far
    scenario    \* bound: the kind of this behaviour

browser == <<tabs, windows, settings, events>>
volatile == <<queue, epoch, revision, reserved, running>>
history == <<revoked, fate>>
vars == <<browser, disk, mem, job, volatile, elapsed, next, history, spent, scenario>>

-----------------------------------------------------------------------------
(* The controller's state.                                                 *)

AnyTab == CHOOSE t \in Tabs : TRUE
AnyRoute == CHOOSE r \in Routes : TRUE
AnySettings == CHOOSE s \in Settings : TRUE

Phases == {"none", "preparing", "awaiting-selection", "exporting", "cancelled", "completed"}

\* `ui` is the export window the click came from, 0 for the toolbar popup.
Intent ==
    [there: BOOLEAN, tab: Tabs, route: Routes, settings: Settings,
     mode: {"current", "selected"}, ui: 0 .. MaxSurfaces]

\* `branch` stands for selectionId ("offered" once set) and choice ("chosen").
Operation ==
    [phase: Phases, tab: Tabs, route: Routes, settings: Settings,
     mode: {"current", "selected"}, doc: Nat,
     branch: {"none", "offered", "chosen"},
     outcome: {"none", "ended", "branch-preparation-ended"}, stages: SUBSET Stages]

Surface == [there: BOOLEAN, tab: Tabs, route: Routes, op: 0 .. MaxOps]

State ==
    [intents: [IntentIds -> Intent], ops: [OpIds -> Operation],
     surfaces: [SurfaceIds -> Surface]]

NoIntent ==
    [there |-> FALSE, tab |-> AnyTab, route |-> AnyRoute, settings |-> AnySettings,
     mode |-> "current", ui |-> 0]

NoOperation ==
    [phase |-> "none", tab |-> AnyTab, route |-> AnyRoute, settings |-> AnySettings,
     mode |-> "current", doc |-> 0, branch |-> "none", outcome |-> "none", stages |-> {}]

NoSurface == [there |-> FALSE, tab |-> AnyTab, route |-> AnyRoute, op |-> 0]

EmptyState ==
    [intents |-> [i \in IntentIds |-> NoIntent], ops |-> [o \in OpIds |-> NoOperation],
     surfaces |-> [u \in SurfaceIds |-> NoSurface]]

Exists(op) == op.phase # "none"
Live(op) == op.phase \in {"preparing", "awaiting-selection", "exporting"}

Intents(s) == {i \in IntentIds : s.intents[i].there}
Operations(s) == {o \in OpIds : Exists(s.ops[o])}
Surfaces(s) == {u \in SurfaceIds : s.surfaces[u].there}
LiveOn(s, t) == {o \in OpIds : Live(s.ops[o]) /\ s.ops[o].tab = t}
IntentsOn(s, t) == {i \in Intents(s) : s.intents[i].tab = t}
Reserved(s) == Cardinality(Operations(s)) + Cardinality(Intents(s))

Without(s, gone) == [s EXCEPT !.ops = [o \in OpIds |-> IF o \in gone THEN NoOperation ELSE @[o]]]
DropIntents(s, gone) ==
    [s EXCEPT !.intents = [i \in IntentIds |-> IF i \in gone THEN NoIntent ELSE @[i]]]
DropSurfaces(s, gone) ==
    [s EXCEPT !.surfaces = [u \in SurfaceIds |-> IF u \in gone THEN NoSurface ELSE @[u]]]
\* Mutant: a cancelled operation is given a phase nobody knows.
CancelledAsStopped(s, o) ==
    IF Live(s.ops[o]) THEN [s EXCEPT !.ops[o].phase = "stopped"] ELSE s

Cancelled(s, o) ==
    IF Live(s.ops[o]) THEN [s EXCEPT !.ops[o].phase = "cancelled"] ELSE s

\* The ids of a set taken in creation order, so `oldest` n are the n smallest.
Oldest(ids, n) == {i \in ids : Cardinality({j \in ids : j < i}) < n}

\* Mutant: every terminal record makes room, a cleanup capability too.
ReclaimableIfTerminal(s) == {o \in Operations(s) : ~Live(s.ops[o])}

\* Terminal records that own no stage may make room; nothing else may.
Reclaimable(s) == {o \in Operations(s) : ~Live(s.ops[o]) /\ s.ops[o].stages = {}}

\* The whole validation of `hydrate`, on what this model keeps of a record.
Hydratable(s) ==
    /\ Cardinality(Intents(s)) <= IntentLimit
    /\ Cardinality(Operations(s)) <= ReservationLimit
    /\ Cardinality(Surfaces(s)) <= SurfaceLimit
    /\ \A o \in Operations(s) :
          LET op == s.ops[o] IN
          /\ op.outcome # "none" =>
                /\ op.phase = "completed"
                /\ IF op.outcome = "branch-preparation-ended"
                   THEN op.mode = "selected" /\ op.branch # "chosen"
                   ELSE op.mode = "current" \/ op.branch = "chosen"
          /\ op.mode = "current" =>
                op.branch = "none" /\ op.phase \notin {"preparing", "awaiting-selection"}
          /\ op.phase = "awaiting-selection" => op.branch # "none"
          /\ op.phase = "exporting" => op.mode = "current" \/ op.branch = "chosen"
          /\ Cardinality(op.stages) <= StageLimit
    /\ \A t \in Tabs : Cardinality(LiveOn(s, t)) <= 1

Hydrate(s) == IF Hydratable(s) THEN s ELSE EmptyState

\* `prune`: expired records leave, an expired operation stays for cleanup only.
Pruned(s) ==
    [intents |-> [i \in IntentIds |->
        IF <<"intent", i>> \in elapsed THEN NoIntent ELSE s.intents[i]],
     ops |-> [o \in OpIds |->
        IF <<"grace", o>> \in elapsed THEN NoOperation
        ELSE IF <<"operation", o>> \in elapsed /\ Live(s.ops[o])
             THEN [s.ops[o] EXCEPT !.phase = "cancelled"]
             ELSE s.ops[o]],
     surfaces |-> [u \in SurfaceIds |->
        IF <<"surface", u>> \in elapsed THEN NoSurface ELSE s.surfaces[u]]]

\* recoverOverreservedIntents: history goes first, then the newest intents.
Recovered(s) ==
    LET overflow == Reserved(s) - ReservationLimit
        kept == Without(s, Oldest(Reclaimable(s), overflow))
        room == IF Cardinality(Operations(kept)) < ReservationLimit
                THEN ReservationLimit - Cardinality(Operations(kept)) ELSE 0
    IN  DropIntents(kept, Intents(kept) \ Oldest(Intents(kept), room))

\* What holds a tab: the pending clicks and the live operations that name it.
Holders(s, t) == ({"intent"} \X IntentsOn(s, t)) \cup ({"operation"} \X LiveOn(s, t))

\* An earlier worker may have stored more than the limits allow, yet every
\* version has admitted one export to a tab and given a stage to one operation.
ASSUME StoredStates ==
    \A d \in UNION {sc.disks : sc \in Scenarios} :
        /\ d \in State
        /\ \A t \in Tabs : \A a, b \in Holders(d, t) : a = b
        /\ \A a, b \in OpIds : d.ops[a].stages \cap d.ops[b].stages # {} => a = b
        /\ Intents(d) \subseteq 1 .. Cardinality(Intents(d))
        /\ Operations(d) \subseteq 1 .. Cardinality(Operations(d))
        /\ \A o \in OpIds : Exists(d.ops[o]) \/ d.ops[o] = NoOperation

-----------------------------------------------------------------------------
(* Requests and jobs.                                                      *)

Kinds ==
    {"start", "unstart", "claim", "popup", "offer", "choose", "stop", "complete", "authorize",
     "commit", "take", "record", "released", "removed", "changed", "window-closed",
     "settings", "reserve", "release"}

ByOperation ==
    {"offer", "choose", "stop", "complete", "authorize", "commit", "take", "record", "released"}

\* What `authorize` is asked for: reading or capture, a durable output, the
\* start of a stage named by the document (binary) or by the store (archive),
\* work on a stage, its commit, its abort.
Purposes == {"prepare", "persist", "begin", "open", "use", "commit", "abort", "none"}
Durable == {"persist", "commit"}

Message ==
    [kind: Kinds, tab: Tabs, route: Routes \cup {Loading}, doc: Nat, id: Nat,
     mode: {"current", "selected"}, ui: 0 .. MaxSurfaces, purpose: Purposes,
     stage: Stages \cup {NoStage}, epoch: Nat, revision: Nat]

\* Only a notification carries no conversation; a message names what it is about.
Request ==
    {r \in Message :
        /\ r.route = Loading => r.kind = "changed"
        /\ r.kind \in {"claim", "unstart"} => r.id \in IntentIds
        /\ r.kind \in ByOperation => r.id \in OpIds
        /\ \/ r.kind \in {"commit", "take", "record", "released"}
           \/ r.purpose \in {"begin", "use", "commit", "abort"}
           => r.stage \in Stages}

Ask(kind) ==
    [kind |-> kind, tab |-> AnyTab, route |-> AnyRoute, doc |-> 0, id |-> 0,
     mode |-> "current", ui |-> 0, purpose |-> "none", stage |-> NoStage,
     epoch |-> 0, revision |-> 0]

Steps ==
    {"idle", "enter", "settings", "admit", "save", "compact", "create-window",
     "apply", "sweep", "recheck", "final", "give-up", "granted", "refused", "done"}

\* `current` is the last answer of `this.current`; `permitted` the first verdict
\* of dispatchStageCommit; after a save the job goes on at `onSaved` or `onFailed`.
Job ==
    [at: Steps, req: Request, settings: Settings, revision: Nat, current: BOOLEAN,
     permitted: BOOLEAN, onSaved: Steps, onFailed: Steps]

NoJob ==
    [at |-> "idle", req |-> Ask("settings"), settings |-> AnySettings, revision |-> 0,
     current |-> FALSE, permitted |-> FALSE, onSaved |-> "done", onFailed |-> "done"]

Notification ==
    [kind: {"removed", "changed", "window-closed", "settings"}, tab: Tabs,
     route: Routes \cup {Loading}, ui: 0 .. MaxSurfaces]

Event == {e \in Notification : e.route = Loading => e.kind = "changed"}

req == job.req
theOp == mem.ops[req.id]

At(step, kind) == job.at = step /\ req.kind = kind
Finish == job' = NoJob
Go(step) == IF step = "done" THEN Finish ELSE job' = [job EXCEPT !.at = step]

\* A mutation of this.state followed by `await this.save()`.
SaveThen(state, onSaved, onFailed) ==
    /\ mem' = state
    /\ job' = [job EXCEPT !.at = "save", !.onSaved = onSaved, !.onFailed = onFailed]

\* `cancel`: only a live operation is changed and saved.
CancelThen(o, step) ==
    IF Live(mem.ops[o]) THEN SaveThen(Cancelled(mem, o), step, "done")
    ELSE UNCHANGED mem /\ Go(step)

\* `this.current(target)`: the tab is there, has settled and shows the route.
Current(t, r) == tabs[t].route = r /\ ~tabs[t].loading

\* `uiTarget`: the toolbar popup takes the tab as it is, an export window its
\* recorded source, and only if that has settled.
UiTargets(t, r) ==
    \/ req.ui = 0 /\ tabs[t].route = r
    \/ /\ req.ui \in Surfaces(mem)
       /\ mem.surfaces[req.ui].tab = t /\ mem.surfaces[req.ui].route = r
       /\ Current(t, r)

\* `owns`: the document that claimed the operation, in its tab.
Owns(op, r) == Exists(op) /\ r.tab = op.tab /\ r.doc = op.doc

\* `ownedStage`.
OwnedStage(r) == Owns(mem.ops[r.id], r) /\ r.stage \in mem.ops[r.id].stages

\* Mutant: the settings of the click are not compared with those in effect.
AnySettingsMatch(record) == TRUE

SettingsMatch(record) == job.settings = record.settings

\* `matchingSettings`: the value read matches and no write was announced since.
MatchingSettings(record) == SettingsMatch(record) /\ job.revision = revision

\* Mutants: one of the two epochs captured with the message is not compared.
NoSettingsSince == revision = req.revision
NoNavigationSince == epoch[theOp.tab] = req.epoch

\* Nothing was announced since the message arrived.
NothingSince == epoch[theOp.tab] = req.epoch /\ revision = req.revision

\* `admissionStillCurrent`, after its await has answered job.current.
AdmissionStillCurrent ==
    /\ job.current
    /\ NothingSince
    /\ Live(theOp)
    /\ <<"operation", req.id>> \notin elapsed
    /\ Owns(theOp, req)
    /\ req.route = theOp.route
    /\ req.purpose \in Durable => theOp.phase = "exporting"

-----------------------------------------------------------------------------
(* The lock: `locked` waits for its turn, prunes, repairs, then works.     *)

Acquire ==
    /\ job.at = "idle" /\ queue # <<>>
    /\ queue' = Tail(queue)
    /\ LET pruned == Pruned(mem)
           taken == [NoJob EXCEPT !.req = Head(queue)] IN
       IF Reserved(pruned) > ReservationLimit
       THEN /\ mem' = Recovered(pruned)
            /\ job' = [taken EXCEPT !.at = "save", !.onSaved = "enter"]
       ELSE /\ mem' = pruned
            /\ job' = [taken EXCEPT !.at = "enter"]
    /\ UNCHANGED <<browser, disk, epoch, revision, reserved, running, elapsed, next, history,
                   spent, scenario>>

Saved ==
    /\ job.at = "save"
    /\ disk' = mem
    /\ Go(job.onSaved)
    /\ UNCHANGED <<browser, mem, volatile, elapsed, next, history, spent, scenario>>

Spend(what) ==
    /\ spent' = [spent EXCEPT ![what] = @ + 1] /\ UNCHANGED scenario
    /\ \E mix \in scenario.mixes : \A d \in Disturbances : spent'[d] <= mix[d]

\* Mutant: a refused save leaves this.state as it was.
MemoryKept == mem
AfterRefusedSave == EmptyState

\* The write is refused: every grant is dropped and the stored key removed,
\* unless the removal is refused too.
SaveFailed ==
    /\ job.at = "save"
    /\ mem' = AfterRefusedSave
    /\ Go(job.onFailed)
    /\ \/ Spend("save-failure") /\ disk' = EmptyState
       \/ Spend("removal-failure") /\ UNCHANGED disk
    /\ UNCHANGED <<browser, volatile, elapsed, next, history>>

\* What no step of a job but those above and the last ones touches.
Outside == <<browser, disk, volatile, elapsed, spent, scenario>>

\* A job asks for the settings, having noted their revision ...
ReadSettings == job' = [job EXCEPT !.at = "settings", !.revision = revision]

Check(kind, admissible) ==
    /\ At("enter", kind)
    /\ IF admissible THEN ReadSettings ELSE Finish
    /\ UNCHANGED <<Outside, mem, next, history>>

\* ... they arrive from storage, and the key is hashed, before its next step.
SettingsArrive ==
    /\ job.at = "settings"
    /\ job' = [job EXCEPT !.at = "admit", !.settings = settings]
    /\ UNCHANGED <<Outside, mem, next, history>>

-----------------------------------------------------------------------------
(* The start of an export and its claim by the document.                   *)

\* Mutant: a pending intent does not count as the operation it will become.
SlotsForOperations ==
    IF Cardinality(Operations(mem)) + 1 > ReservationLimit
    THEN Cardinality(Operations(mem)) + 1 - ReservationLimit ELSE 0

SlotsNeeded ==
    IF Reserved(mem) + 1 > ReservationLimit THEN Reserved(mem) + 1 - ReservationLimit ELSE 0

\* Mutants: a click that is still pending, or a text preview, is overlooked.
TabHasNoOperation == LiveOn(mem, req.tab) = {} /\ req.tab \notin reserved
TabHasNoExport == LiveOn(mem, req.tab) = {} /\ IntentsOn(mem, req.tab) = {}

TabIsFree ==
    /\ LiveOn(mem, req.tab) = {} /\ IntentsOn(mem, req.tab) = {}
    /\ req.tab \notin reserved

Startable ==
    /\ UiTargets(req.tab, req.route)
    /\ TabIsFree
    /\ Cardinality(Intents(mem)) < IntentLimit
    /\ Cardinality(Reclaimable(mem)) >= SlotsNeeded
    /\ next.intent <= MaxIntents /\ next.intent <= scenario.clicks

StartChecks == Check("start", Startable)

\* The intent is written with the eviction of the history that makes room.
StartAdmits ==
    /\ At("admit", "start")
    /\ LET intent == [there |-> TRUE, tab |-> req.tab, route |-> req.route,
                      settings |-> job.settings, mode |-> req.mode, ui |-> req.ui]
           room == Without(mem, Oldest(Reclaimable(mem), SlotsNeeded))
       IN  SaveThen([room EXCEPT !.intents[next.intent] = intent], "done", "done")
    /\ next' = [next EXCEPT !.intent = @ + 1]
    /\ UNCHANGED <<Outside, history>>

\* The document did not answer the invitation, or its answer was lost.
Unstart ==
    /\ At("enter", "unstart")
    /\ SaveThen(DropIntents(mem, {req.id}), "done", "done")
    /\ UNCHANGED <<Outside, next, history>>

Claimable(intent) ==
    /\ intent.there
    /\ req.tab = intent.tab /\ req.route = intent.route
    /\ intent.ui # 0 => intent.ui \in Surfaces(mem)
    /\ Current(req.tab, req.route)
    /\ LiveOn(mem, req.tab) = {}
    /\ next.op <= MaxOps

ClaimChecks == Check("claim", Claimable(mem.intents[req.id]))

\* A claim also binds the export window it came from to the operation.
ClaimAdmits ==
    /\ At("admit", "claim")
    /\ LET intent == mem.intents[req.id]
           operation == [phase |-> IF intent.mode = "current" THEN "exporting" ELSE "preparing",
                         tab |-> intent.tab, route |-> intent.route,
                         settings |-> intent.settings, mode |-> intent.mode, doc |-> req.doc,
                         branch |-> "none", outcome |-> "none", stages |-> {}]
           claimed == [DropIntents(mem, {req.id}) EXCEPT !.ops[next.op] = operation]
       IN  IF /\ MatchingSettings(intent)
              /\ Cardinality(Operations(mem)) < ReservationLimit
           THEN /\ SaveThen(IF intent.ui = 0 THEN claimed
                            ELSE [claimed EXCEPT !.surfaces[intent.ui].op = next.op],
                            "done", "done")
                /\ elapsed' = elapsed \ {<<"surface", intent.ui>>}
                /\ next' = [next EXCEPT !.op = @ + 1]
                /\ revoked' = revoked \cup
                      (IF <<"intent", req.id>> \in revoked THEN {<<"operation", next.op>>} ELSE {})
           ELSE Finish /\ UNCHANGED <<mem, elapsed, next, revoked>>
    /\ UNCHANGED <<browser, disk, volatile, spent, scenario, fate>>

-----------------------------------------------------------------------------
(* The choice of a branch in an export window.                             *)

Offerable ==
    /\ Owns(theOp, req)
    /\ theOp.mode = "selected" /\ theOp.phase = "preparing"
    /\ Current(theOp.tab, theOp.route)

OfferChecks == Check("offer", Offerable)

OfferAdmits ==
    /\ At("admit", "offer")
    /\ IF SettingsMatch(theOp)
       THEN /\ mem' = [mem EXCEPT !.ops[req.id].phase = "awaiting-selection",
                                  !.ops[req.id].branch = "offered"]
            /\ job' = [job EXCEPT !.req.route = theOp.route, !.at = "save",
                                  !.onSaved = "compact", !.onFailed = "done"]
       ELSE Finish /\ UNCHANGED mem
    /\ UNCHANGED <<Outside, next, history>>

\* The page asks for the export window; the browser may show the popup itself.
OpenChecks ==
    /\ At("enter", "popup")
    /\ \/ Finish
       \/ Current(req.tab, req.route) /\ Go("compact")
    /\ UNCHANGED <<Outside, mem, next, history>>

\* `compact`: the window already registered for this source is brought back,
\* or forgotten if that fails, a refused save included.  The job keeps the
\* source in its request, for this.state may be emptied under it.
Registered ==
    {u \in Surfaces(mem) : mem.surfaces[u].tab = req.tab /\ mem.surfaces[u].route = req.route}

Compact ==
    /\ job.at = "compact"
    /\ \/ \E u \in Registered \cap windows :
             /\ SaveThen(IF req.kind = "popup" THEN mem
                         ELSE [mem EXCEPT !.surfaces[u].op = req.id],
                         "done", "create-window")
             /\ elapsed' = elapsed \ {<<"surface", u>>}
       \/ /\ Registered \cap windows = {}
          /\ mem' = DropSurfaces(mem, Registered)
          /\ Go("create-window")
          /\ UNCHANGED elapsed
    /\ UNCHANGED <<browser, disk, volatile, next, history, spent, scenario>>

WindowCreated ==
    /\ job.at = "create-window"
    /\ Cardinality(Surfaces(mem)) < SurfaceLimit
    /\ next.surface <= MaxSurfaces
    /\ SaveThen([mem EXCEPT !.surfaces[next.surface] =
                    [there |-> TRUE, tab |-> req.tab, route |-> req.route,
                     op |-> IF req.kind = "popup" THEN 0 ELSE req.id]],
                "done", "give-up")
    /\ windows' = windows \cup {next.surface}
    /\ next' = [next EXCEPT !.surface = @ + 1]
    /\ UNCHANGED <<tabs, settings, events, disk, volatile, elapsed, history, spent, scenario>>

WindowRefused ==
    /\ job.at = "create-window"
    /\ Go("give-up")
    /\ UNCHANGED <<Outside, mem, next, history>>

\* The window or the document failed the choice: the operation is cancelled.
\* After a refused save the operation is detached and the empty state is saved.
GiveUp ==
    /\ job.at = "give-up"
    /\ IF req.kind = "popup" THEN Finish /\ UNCHANGED mem
       ELSE SaveThen(Cancelled(mem, req.id), "done", "done")
    /\ UNCHANGED <<Outside, next, history>>

ChooseChecks ==
    Check("choose", theOp.phase = "awaiting-selection" /\ UiTargets(theOp.tab, theOp.route))

\* Only the document that owns the operation can be reached and can accept.
Reachable == tabs[theOp.tab].route # Closed /\ tabs[theOp.tab].doc = theOp.doc

ChooseValidates ==
    /\ At("admit", "choose")
    /\ \/ /\ SettingsMatch(theOp) /\ Reachable
          /\ Current(theOp.tab, theOp.route)
          /\ SaveThen([mem EXCEPT !.ops[req.id].phase = "exporting",
                                  !.ops[req.id].branch = "chosen"], "apply", "done")
       \/ Finish /\ UNCHANGED mem
    /\ UNCHANGED <<Outside, next, history>>

ChooseApplies ==
    /\ At("apply", "choose")
    /\ \/ Reachable /\ Finish
       \/ Go("give-up")
    /\ UNCHANGED <<Outside, mem, next, history>>

-----------------------------------------------------------------------------
(* Stop and completion.                                                    *)

Stop ==
    /\ At("enter", "stop")
    /\ IF Exists(theOp) /\ UiTargets(theOp.tab, theOp.route)
       THEN CancelThen(req.id, "done")
       ELSE Finish /\ UNCHANGED mem
    /\ UNCHANGED <<Outside, next, history>>

\* Mutants: an unchosen branch ends like an export; a cancellation is overwritten.
CompletedAsEnded(op) ==
    IF op.phase = "cancelled" THEN op ELSE [op EXCEPT !.phase = "completed", !.outcome = "ended"]
CompletedAnyway(op) == [op EXCEPT !.phase = "completed"]

\* The choice the worker authorised, not the document, decides the outcome.
Completed(op) ==
    IF op.phase = "cancelled" THEN op
    ELSE [op EXCEPT !.phase = "completed",
                    !.outcome = IF op.mode = "selected" /\ op.branch # "chosen"
                                THEN "branch-preparation-ended" ELSE "ended"]

Complete ==
    /\ At("enter", "complete")
    /\ IF Owns(theOp, req)
       THEN SaveThen([mem EXCEPT !.ops[req.id] = Completed(@)], "done", "done")
       ELSE Finish /\ UNCHANGED mem
    /\ UNCHANGED <<Outside, next, history>>

-----------------------------------------------------------------------------
(* The admission of a privileged message.                                  *)

\* No message about a stage is on its way.
Quiet(s) ==
    /\ \A i \in DOMAIN queue : queue[i].stage # s
    /\ req.stage # s
    /\ \A h \in running : h.stage # s

\* What becomes of a stage: its bytes go to a commit or are thrown away, once.
Fates == {"unused", "begun", "aborted-by-document", "handed-to-commit", "aborted-by-worker",
          "consumed-twice"}

Consume(s, how) ==
    [fate EXCEPT ![s] =
        IF @ \in {"unused", "begun"} \/ (@ = how /\ how = "aborted-by-document")
        THEN how ELSE "consumed-twice"]

\* The store gives an archive stage a random name, which nobody has used.
Fresh(s) ==
    /\ fate[s] = "unused" /\ Quiet(s)
    /\ \A o \in OpIds : s \notin mem.ops[o].stages \cup disk.ops[o].stages

\* The verdict is returned to service-worker.ts `handleMessage`.
StageRequirement == req.purpose \in {"use", "commit", "abort"} => req.stage \in theOp.stages

AuthorizeChecks ==
    /\ At("enter", "authorize")
    /\ IF ~(Owns(theOp, req) /\ StageRequirement)
       THEN Go("refused") /\ UNCHANGED mem
       ELSE IF req.purpose = "abort" THEN Go("granted") /\ UNCHANGED mem
       ELSE IF Live(theOp) /\ req.route = theOp.route /\ Current(theOp.tab, theOp.route)
       THEN ReadSettings /\ UNCHANGED mem
       ELSE CancelThen(req.id, "refused")
    /\ UNCHANGED <<Outside, next, history>>

\* Mutants: only the requester's own stages are looked at; the stage is not
\* entered with its operation; it stays with it after the hand-off; one stage more
\* than the limit is let in.
OwnOwners(stage) == {o \in {req.id} : stage \in mem.ops[o].stages}
Unregistered(o, stage) == mem
NotRelinquishing(o, stage) == mem

Owners(stage) == {o \in OpIds : stage \in mem.ops[o].stages}
OverFull(op) == Cardinality(op.stages) > StageLimit
Full(op) == Cardinality(op.stages) >= StageLimit
Registering(o, stage) == [mem EXCEPT !.ops[o].stages = @ \cup {stage}]
Relinquishing(o, stage) == [mem EXCEPT !.ops[o].stages = @ \ {stage}]

AuthorizeAdmits ==
    /\ At("admit", "authorize")
    /\ IF ~MatchingSettings(theOp) THEN CancelThen(req.id, "refused")
       ELSE IF \/ req.purpose \in Durable /\ theOp.phase # "exporting"
               \/ req.purpose = "begin" /\ (Owners(req.stage) # {} \/ Full(theOp))
       THEN Go("refused") /\ UNCHANGED mem
       ELSE IF req.purpose = "begin"
       THEN SaveThen(Registering(req.id, req.stage), "recheck", "done")
       ELSE Go("recheck") /\ UNCHANGED mem
    /\ UNCHANGED <<Outside, next, history>>

\* `admissionStillCurrent` asks the browser for the tab once more ...
Rechecks ==
    /\ job.at = "recheck"
    /\ job' = [job EXCEPT !.at = "final", !.current = Current(theOp.tab, theOp.route)]
    /\ UNCHANGED <<Outside, mem, next, history>>

\* ... and judges when the answer arrives.
AuthorizeJudges ==
    /\ At("final", "authorize")
    /\ IF AdmissionStillCurrent THEN Go("granted") /\ UNCHANGED mem
       ELSE CancelThen(req.id, "refused")
    /\ UNCHANGED <<Outside, next, history>>

\* The worker acts on the verdict before anything else can happen: it starts
\* the handler, or passes an admitted commit to dispatchStageCommit and a
\* refused one to takeStageForCleanup, which queue for the lock again.
Forward(kind) ==
    queue' = Append(queue, [req EXCEPT !.kind = kind, !.epoch = epoch[req.tab],
                                       !.revision = revision])

AuthorizeGrants ==
    /\ At("granted", "authorize")
    /\ \/ /\ req.purpose \in {"prepare", "persist", "use"}
          /\ UNCHANGED <<queue, running, fate>>
       \/ /\ req.purpose \in {"begin", "abort"}
          /\ running' = running \cup {req}
          /\ fate' = IF req.purpose = "begin" THEN [fate EXCEPT ![req.stage] = "begun"]
                     ELSE Consume(req.stage, "aborted-by-document")
          /\ UNCHANGED queue
       \/ /\ req.purpose = "open"
          /\ \E s \in Stages :
                /\ Fresh(s)
                /\ running' = running \cup {[req EXCEPT !.stage = s]}
                /\ fate' = [fate EXCEPT ![s] = "begun"]
          /\ UNCHANGED queue
       \/ /\ req.purpose = "commit"
          /\ Forward("commit")
          /\ UNCHANGED <<running, fate>>
    /\ Finish
    /\ UNCHANGED <<browser, disk, mem, epoch, revision, reserved, elapsed, next, revoked, spent,
                   scenario>>

AuthorizeRefuses ==
    /\ At("refused", "authorize")
    /\ IF req.purpose = "commit" THEN Forward("take") ELSE UNCHANGED queue
    /\ Finish
    /\ UNCHANGED <<browser, disk, mem, epoch, revision, reserved, running, elapsed, next,
                   history, spent, scenario>>

-----------------------------------------------------------------------------
(* The hand-off of a stage, to its commit or to cleanup.                   *)

CommitChecks == Check("commit", OwnedStage(req))

\* The capability is given up and saved before the outcome is settled.
RelinquishThen(step) == SaveThen(Relinquishing(req.id, req.stage), step, "refused")

CommitAdmits ==
    /\ At("admit", "commit")
    /\ IF MatchingSettings(theOp) THEN Go("recheck") /\ UNCHANGED mem
       ELSE RelinquishThen("refused")
    /\ UNCHANGED <<Outside, next, history>>

\* First verdict: the stage leaves the operation either way.
CommitJudges ==
    /\ At("final", "commit") /\ ~job.permitted
    /\ mem' = Relinquishing(req.id, req.stage)
    /\ job' = [job EXCEPT !.at = "save", !.onFailed = "refused",
                          !.permitted = AdmissionStillCurrent,
                          !.onSaved = IF AdmissionStillCurrent THEN "recheck" ELSE "refused"]
    /\ UNCHANGED <<Outside, next, history>>

\* Second verdict, after the save.
CommitRejudges ==
    /\ At("final", "commit") /\ job.permitted
    /\ IF AdmissionStillCurrent THEN Go("granted") ELSE Go("refused")
    /\ UNCHANGED <<Outside, mem, next, history>>

CommitDispatches ==
    /\ At("granted", "commit")
    /\ fate' = Consume(req.stage, "handed-to-commit")
    /\ Finish
    /\ UNCHANGED <<Outside, mem, next, revoked>>

\* `takeStageForCleanup`; even a refused save leaves the stage to the caller.
TakeChecks ==
    /\ At("enter", "take")
    /\ IF OwnedStage(req) THEN RelinquishThen("refused") ELSE Finish /\ UNCHANGED mem
    /\ UNCHANGED <<Outside, next, history>>

\* `rejectChangedSettings`: the worker aborts the stage it now owns.
WorkerCleansUp ==
    /\ job.at = "refused" /\ req.kind \in {"commit", "take"}
    /\ fate' = Consume(req.stage, "aborted-by-worker")
    /\ Finish
    /\ UNCHANGED <<Outside, mem, next, revoked>>

\* `recordResult` of a begin; a stage that has an owner cancels the impostor.
Record ==
    /\ At("enter", "record")
    /\ IF ~Exists(theOp) \/ req.stage \in theOp.stages
       THEN Finish /\ UNCHANGED mem
       ELSE IF Owners(req.stage) # {} \/ Full(theOp)
       THEN CancelThen(req.id, "done")
       ELSE SaveThen(Registering(req.id, req.stage), "done", "done")
    /\ UNCHANGED <<Outside, next, history>>

\* `recordResult` of a successful abort.
Released ==
    /\ At("enter", "released")
    /\ IF OwnedStage(req)
       THEN SaveThen(Relinquishing(req.id, req.stage), "done", "done")
       ELSE Finish /\ UNCHANGED mem
    /\ UNCHANGED <<Outside, next, history>>

-----------------------------------------------------------------------------
(* Revocation by the browser: tabRemoved, tabChanged, settingsChanged.     *)

Revocations == {"removed", "changed", "window-closed", "settings"}

\* Whether notification `r` ends record `x` of a tab.
Ends(r, x) ==
    \/ r.kind = "settings"
    \/ r.kind = "removed" /\ r.tab = x.tab
    \/ r.kind = "changed" /\ r.tab = x.tab /\ r.route # x.route

ClosesChoice(r, s, o) ==
    /\ r.kind = "window-closed" /\ r.ui \in Surfaces(s)
    /\ s.surfaces[r.ui].op = o
    /\ s.ops[o].phase \in {"preparing", "awaiting-selection"}

\* Mutant: navigation spares what is already exporting.
DoomedChoices ==
    {o \in OpIds : mem.ops[o].phase \in {"preparing", "awaiting-selection"} /\ Ends(req, mem.ops[o])}

Doomed == {o \in OpIds : Live(mem.ops[o]) /\ (Ends(req, mem.ops[o]) \/ ClosesChoice(req, mem, o))}

RevokedIntents ==
    {i \in Intents(mem) :
        LET x == mem.intents[i] IN
        \/ req.kind \in {"removed", "changed"} /\ x.tab = req.tab
        \/ req.kind = "window-closed" /\ req.ui \in Surfaces(mem) /\ x.ui = req.ui}

\* One operation is cancelled and saved at a time; a settings change drops the
\* intents before that, a notification of a tab after it.
Sweep ==
    /\ job.at \in {"enter", "sweep"} /\ req.kind \in Revocations
    /\ LET base == IF req.kind = "settings" THEN DropIntents(mem, Intents(mem)) ELSE mem
           last == DropSurfaces(DropIntents(base, RevokedIntents),
                                IF req.kind = "window-closed" THEN {req.ui} ELSE {})
       IN  \/ \E o \in Oldest(Doomed, 1) : SaveThen(Cancelled(base, o), "sweep", "done")
           \/ Doomed = {} /\ SaveThen(last, "done", "done")
    /\ UNCHANGED <<Outside, next, history>>

\* The text preview borrows a tab that no export uses; memory only.
Reserve ==
    /\ At("enter", "reserve")
    /\ reserved' = IF LiveOn(mem, req.tab) = {} /\ IntentsOn(mem, req.tab) = {}
                   THEN reserved \cup {req.tab} ELSE reserved
    /\ Finish
    /\ UNCHANGED <<browser, disk, mem, queue, epoch, revision, running, elapsed, next, history,
                   spent, scenario>>

Release ==
    /\ At("enter", "release")
    /\ reserved' = reserved \ {req.tab}
    /\ Finish
    /\ UNCHANGED <<browser, disk, mem, queue, epoch, revision, running, elapsed, next, history,
                   spent, scenario>>

-----------------------------------------------------------------------------
(* The environment: users, documents, the browser, time.                   *)

\* A verdict is acted upon in the same turn of the worker's event loop.
Idle == job.at \notin {"granted", "refused"}

Send(r) ==
    /\ Idle
    /\ {r.kind, r.purpose} \subseteq scenario.traffic \cup {"none"}
    /\ Len(queue) < QueueBound
    /\ queue' = Append(queue, r)
    /\ UNCHANGED <<browser, disk, mem, job, epoch, revision, reserved, running, elapsed, next,
                   history, spent, scenario>>

\* The authenticated sender of a document's message, with the epochs that
\* `authorize` captures before it queues for the lock.
From(t, kind) ==
    [Ask(kind) EXCEPT !.tab = t, !.route = tabs[t].route, !.doc = tabs[t].doc,
                      !.epoch = epoch[t], !.revision = revision]

OpenTabs == {t \in Tabs : tabs[t].route # Closed}

UserStarts ==
    \E t \in OpenTabs, m \in Modes, u \in {0} \cup windows :
        Send([Ask("start") EXCEPT !.tab = t, !.route = tabs[t].route, !.mode = m, !.ui = u])

InvitationFails ==
    \E i \in Intents(mem) : Send([Ask("unstart") EXCEPT !.id = i])

DocumentClaims ==
    \E t \in OpenTabs, i \in Intents(mem) : Send([From(t, "claim") EXCEPT !.id = i])

DocumentReports ==
    \E t \in OpenTabs, o \in Operations(mem) :
        \/ Send([From(t, "offer") EXCEPT !.id = o])
        \/ Send([From(t, "complete") EXCEPT !.id = o])

DocumentOpensPopup == \E t \in OpenTabs : Send(From(t, "popup"))

UserDecides ==
    \E o \in Operations(mem), u \in {0} \cup windows :
        \/ Send([Ask("choose") EXCEPT !.id = o, !.ui = u])
        \/ Send([Ask("stop") EXCEPT !.id = o, !.ui = u])

PreviewReserves ==
    \E t \in Tabs, kind \in {"reserve", "release"} : Send([Ask(kind) EXCEPT !.tab = t])

DocumentWorks ==
    \E t \in OpenTabs, o \in Operations(mem), p \in {"prepare", "persist", "open"} :
        /\ p = "open" => \E s \in Stages : Fresh(s)
        /\ Send([From(t, "authorize") EXCEPT !.id = o, !.purpose = p])

\* Stage names are random; only a document that has begun a stage works on it,
\* and it commits nothing it asked to abort.
DocumentStages ==
    \E t \in OpenTabs, o \in Operations(mem), s \in Stages, p \in {"begin", "use", "commit", "abort"} :
        /\ IF p = "begin" THEN fate[s] = "unused"
           ELSE (fate[s] # "unused" \/ p = "abort") /\ Quiet(s)
        /\ p = "commit" => fate[s] # "aborted-by-document"
        /\ Send([From(t, "authorize") EXCEPT !.id = o, !.purpose = p, !.stage = s])

\* What changes the browser changes it first and notifies the worker later.
Disturb(what, event) ==
    /\ Idle /\ Spend(what)
    /\ events' = Append(events, event)
    /\ UNCHANGED <<disk, mem, job, volatile, elapsed, next, history>>

Notice(kind, t, r, u) == [kind |-> kind, tab |-> t, route |-> r, ui |-> u]

\* In-page navigation keeps the document; a reload replaces it.
Navigates ==
    \E t \in OpenTabs : \E r \in Routes \ {tabs[t].route} :
        /\ tabs' = [tabs EXCEPT ![t].route = r]
        /\ Disturb("browser", Notice("changed", t, r, 0))
        /\ UNCHANGED <<windows, settings>>

Reloads ==
    \E t \in OpenTabs, r \in Routes :
        /\ tabs' = [tabs EXCEPT ![t] = [route |-> r, loading |-> TRUE, doc |-> @.doc + 1]]
        /\ Disturb("browser", Notice("changed", t, Loading, 0))
        /\ UNCHANGED <<windows, settings>>

Settles ==
    /\ Idle
    /\ \E t \in Tabs :
          /\ tabs[t].loading
          /\ tabs' = [tabs EXCEPT ![t].loading = FALSE]
    /\ UNCHANGED <<windows, settings, events, disk, mem, job, volatile, elapsed, next, history,
                   spent, scenario>>

TabCloses ==
    \E t \in OpenTabs :
        /\ tabs' = [tabs EXCEPT ![t].route = Closed, ![t].loading = FALSE]
        /\ Disturb("browser", Notice("removed", t, AnyRoute, 0))
        /\ UNCHANGED <<windows, settings>>

WindowCloses ==
    \E u \in windows :
        /\ windows' = windows \ {u}
        /\ Disturb("browser", Notice("window-closed", AnyTab, AnyRoute, u))
        /\ UNCHANGED <<tabs, settings>>

SettingsWritten ==
    \E v \in Settings \ {settings} :
        /\ settings' = v
        /\ Disturb("settings", Notice("settings", AnyTab, AnyRoute, 0))
        /\ UNCHANGED <<tabs, windows>>

\* The generations a notification ends, as seen when it reaches the worker.
Ended(r) ==
    {<<"operation", o>> : o \in {x \in OpIds : Live(mem.ops[x]) /\ Ends(r, mem.ops[x])}}
        \cup {<<"intent", i>> : i \in {x \in Intents(mem) : Ends(r, mem.intents[x])}}

\* The listeners move the epochs at once and queue the cancellation.
Revoke(r) ==
    /\ epoch' = IF r.kind \in {"removed", "changed"}
                THEN [epoch EXCEPT ![r.tab] = @ + 1] ELSE epoch
    /\ revision' = IF r.kind = "settings" THEN revision + 1 ELSE revision
    /\ queue' = Append(queue, [Ask(r.kind) EXCEPT !.tab = r.tab, !.route = r.route, !.ui = r.ui])
    /\ revoked' = revoked \cup Ended(r)

Deliver ==
    /\ Idle /\ events # <<>>
    /\ events' = Tail(events)
    /\ Revoke(Head(events))
    /\ UNCHANGED <<tabs, windows, settings, disk, mem, job, reserved, running, elapsed, next,
                   fate, spent, scenario>>

\* The popup saves settings: the worker revokes before it writes.  A changed
\* destination is in effect at once, other settings when the write lands, and
\* either write may fail.
UserSavesSettings ==
    /\ Idle /\ Spend("settings")
    /\ settings' \in Settings
    /\ Revoke(Notice("settings", AnyTab, AnyRoute, 0))
    /\ UNCHANGED <<tabs, windows, events, disk, mem, job, reserved, running, elapsed, next, fate>>

\* A handler answers; only an opened archive stage and a successful abort have
\* something to record.  A binary begin was registered when it was admitted; an
\* opened stage that cannot be reported is thrown away by its handler.
HandlerReturns ==
    /\ Idle
    /\ \E h \in running :
          /\ running' = running \ {h}
          /\ \/ h.purpose # "open" /\ UNCHANGED <<queue, fate>>
             \/ h.purpose = "open" /\ fate' = Consume(h.stage, "aborted-by-worker") /\ UNCHANGED queue
             \/ h.purpose = "open" /\ queue' = Append(queue, [h EXCEPT !.kind = "record"])
                                  /\ UNCHANGED fate
             \/ h.purpose = "abort" /\ queue' = Append(queue, [h EXCEPT !.kind = "released"])
                                   /\ UNCHANGED fate
    /\ UNCHANGED <<browser, disk, mem, job, epoch, revision, reserved, elapsed, next, revoked,
                   spent, scenario>>

Deadlines ==
    UNION {
        {<<"intent", i>> : i \in Intents(s)} \cup {<<"operation", o>> : o \in Operations(s)}
            \cup {<<"grace", o>> : o \in {x \in Operations(s) : <<"operation", x>> \in elapsed}}
            \cup {<<"surface", u>> : u \in Surfaces(s)} : s \in {mem, disk}}

TimePasses ==
    /\ Idle /\ Spend("expiry")
    /\ \E d \in Deadlines \ elapsed : elapsed' = elapsed \cup {d}
    /\ UNCHANGED <<browser, disk, mem, job, volatile, next, history>>

\* The browser stops the worker; the next event starts another, which hydrates.
Restarts ==
    /\ Idle /\ Spend("restart")
    /\ mem' = Hydrate(disk)
    /\ job' = NoJob
    /\ queue' = <<>> /\ running' = {} /\ reserved' = {}
    /\ epoch' = [t \in Tabs |-> 0] /\ revision' = 0
    /\ UNCHANGED <<browser, disk, elapsed, next, history>>

-----------------------------------------------------------------------------
(* The specification.                                                      *)

\* Which conversation and which settings come first makes no difference.
Init ==
    /\ scenario \in Scenarios
    /\ tabs = [t \in Tabs |-> [route |-> IF t \in scenario.tabs THEN AnyRoute ELSE Closed,
                               loading |-> FALSE, doc |-> 1]]
    /\ windows = {} /\ events = <<>>
    /\ settings = AnySettings
    /\ disk \in scenario.disks
    /\ mem = Hydrate(disk)
    /\ queue = <<>> /\ job = NoJob
    /\ epoch = [t \in Tabs |-> 0] /\ revision = 0
    /\ reserved = {} /\ running = {} /\ elapsed = {}
    /\ next = [intent |-> 1 + Cardinality(Intents(disk)), op |-> 1 + Cardinality(Operations(disk)),
               surface |-> 1]
    /\ revoked = {} /\ fate = [s \in Stages |-> "unused"]
    /\ spent = [d \in Disturbances |-> 0]

JobSteps ==
    \/ StartChecks \/ StartAdmits \/ Unstart \/ ClaimChecks \/ ClaimAdmits
    \/ OfferChecks \/ OfferAdmits \/ OpenChecks \/ Compact \/ WindowCreated \/ WindowRefused
    \/ GiveUp \/ ChooseChecks \/ ChooseValidates \/ ChooseApplies \/ Stop \/ Complete
    \/ AuthorizeChecks \/ AuthorizeAdmits \/ Rechecks \/ AuthorizeJudges \/ AuthorizeGrants
    \/ AuthorizeRefuses \/ CommitChecks \/ CommitAdmits \/ CommitJudges \/ CommitRejudges
    \/ CommitDispatches \/ TakeChecks \/ WorkerCleansUp \/ Record \/ Released \/ Sweep
    \/ Reserve \/ Release

Worker == Acquire \/ Saved \/ SettingsArrive \/ JobSteps

Requests ==
    \/ UserStarts \/ InvitationFails \/ DocumentClaims \/ DocumentReports \/ DocumentOpensPopup
    \/ UserDecides \/ PreviewReserves \/ DocumentWorks \/ DocumentStages

World ==
    \/ Navigates \/ Reloads \/ Settles \/ TabCloses \/ WindowCloses \/ SettingsWritten
    \/ UserSavesSettings \/ TimePasses \/ Restarts \/ SaveFailed \/ HandlerReturns

Next == Worker \/ Requests \/ Deliver \/ World

Spec == Init /\ [][Next]_vars

\* The browser answers every call the worker awaits and delivers every event.
FairSpec == Spec /\ WF_vars(Worker) /\ WF_vars(Deliver)

-----------------------------------------------------------------------------
(* What must hold.                                                         *)

Token == ({"intent"} \X IntentIds) \cup ({"operation", "grace"} \X OpIds)
            \cup ({"surface"} \X SurfaceIds)

\* Every variable keeps the shape the code gives it; `scenario` is as it was drawn.
TypeOK ==
    /\ tabs \in [Tabs -> [route: Routes \cup {Closed}, loading: BOOLEAN, doc: Nat]]
    /\ windows \subseteq SurfaceIds
    /\ settings \in Settings
    /\ events \in Seq(Event)
    /\ disk \in State /\ mem \in State
    /\ queue \in Seq(Request) /\ job \in Job
    /\ epoch \in [Tabs -> Nat] /\ revision \in Nat
    /\ reserved \subseteq Tabs
    /\ running \subseteq Request
    /\ elapsed \subseteq Token
    /\ next \in [intent: 1 .. MaxIntents + 1, op: 1 .. MaxOps + 1, surface: 1 .. MaxSurfaces + 1]
    /\ revoked \subseteq Token
    /\ fate \in [Stages -> Fates]
    /\ spent \in [Disturbances -> Nat]

\* A tab serves one export at a time, from the pending click to the end of the
\* operation (`start` refuses a tab with a live operation or an intent, and an
\* intent is replaced by its operation in one write): of the intents and live
\* operations that name a tab there is at most one, in memory and in what a new
\* worker would hydrate, whatever is refused, lost or restarted.
OneExportPerTab ==
    \A s \in {mem, disk} : \A t \in Tabs : \A a, b \in Holders(s, t) : a = b

\* A text preview and an export never use the same tab (`reservePreviewSource`,
\* `start`), although neither looks at the other once it has begun.
PreviewIsExclusive == \A t \in reserved : Holders(mem, t) = {}

\* A temporary stage is the capability of one operation: no other generation
\* may use, commit or throw away its bytes (`authorize`, `recordResult`).
StageHasOneOwner ==
    \A s \in {mem, disk} : \A a, b \in OpIds : s.ops[a].stages \cap s.ops[b].stages # {} => a = b

\* Someone in memory answers for stage `s`: its owner, the handler that opened it
\* or its report, or the job that took it from its owner and will give it away.
InHand(s) ==
    \/ Owners(s) # {}
    \/ \E h \in running : h.purpose = "open" /\ h.stage = s
    \/ \E i \in DOMAIN queue : queue[i].kind = "record" /\ queue[i].stage = s
    \/ /\ req.kind = "record" /\ req.stage = s
       /\ job.at = "enter" \/ (job.at = "save" /\ job.onSaved = "enter")
    \/ /\ req.kind \in {"commit", "take"} /\ req.stage = s
       /\ job.permitted \/ job.at = "refused" \/ (job.at = "save" /\ job.onFailed = "refused")

\* What leaves the bytes of a stage to the sweep of its store: a lost worker, a
\* refused save, the end of its owner's grace, and a report that finds its
\* operation forgotten or full.
LeftToSweep(s) ==
    \/ spent'["restart"] > spent["restart"]
    \/ job.at = "save" /\ mem' = EmptyState
    \/ \E o \in Owners(s) : <<"grace", o>> \in elapsed
    \/ At("enter", "record") /\ (~Exists(theOp) \/ Full(theOp))

\* "A later denied/replayed commit cannot abort a stage already handed off": the
\* bytes of a stage are given away once, to a commit or to cleanup, across
\* retries, refusals, failed saves and restarts of the worker; only a refused
\* removal brings back a capability that was given up.  And until they are given
\* away somebody answers for them, but for what the store sweeps.
StageIsAccountedFor ==
    [][\A s \in Stages :
          /\ spent'["removal-failure"] = 0 => fate'[s] # "consumed-twice"
          /\ fate'[s] = "begun" /\ (fate[s] = "begun" => InHand(s)) =>
                InHand(s)' \/ LeftToSweep(s)]_vars

\* A worker that is lost leaves a state that its successor takes: nothing the
\* controller writes is refused by its own `hydrate`, which would forget every
\* operation and every cleanup capability of the browser.
DiskIsHydratable == Hydratable(disk)

\* "A failed durable state transition must never leave an in-memory grant":
\* outside the await of a save, what is pending or live in memory is stored.
GrantsAreDurable ==
    job.at # "save" =>
        /\ \A o \in OpIds : Live(mem.ops[o]) => disk.ops[o] = mem.ops[o]
        /\ \A i \in Intents(mem) : disk.intents[i] = mem.intents[i]

\* The room of an admitted click is reserved until its claim: whoever holds the
\* lock sees no more pending clicks and retained operations than there are
\* slots, so a delayed claim is never refused because 64 operations are kept,
\* even if a previous version of the extension stored too many reservations.
ClaimHasRoom == job.at # "idle" => Reserved(mem) <= ReservationLimit

\* What is admitted agrees with the browser, but for what the browser has not
\* yet told: the tab shows the operation's conversation and the settings are
\* those of the click, or a notification of the change is still to come.
Granted == job.at = "granted" /\ req.purpose # "abort"

GrantIsFresh ==
    Granted =>
        /\ \/ Current(theOp.tab, theOp.route)
           \/ \E e \in DOMAIN events :
                 events[e].kind \in {"changed", "removed"} /\ events[e].tab = theOp.tab
        /\ \/ settings = theOp.settings
           \/ \E e \in DOMAIN events : events[e].kind = "settings"

\* A grant is sound if it would survive the worker and if nothing the browser has
\* said contradicts it, whatever was refused, lost or changed while it was decided.
GrantsAreSound == GrantsAreDurable /\ GrantIsFresh

\* The generation "is revoked by Stop/navigation/settings changes, and cannot be
\* borrowed by a stale continuation": once the worker was notified of the end of
\* an operation, or its two hours are over, no message is admitted for it,
\* wherever in the queue or in an await the notification found that message.
NoGrantAfterRevocation ==
    [][Granted' /\ ~Granted => <<"operation", req.id>> \notin revoked \cup elapsed]_vars

\* What is durably cancelled or completed stays so until it is forgotten: no
\* message, save, hydration or reuse of a record makes it live, and completion
\* cannot turn a cancellation into a result.
TerminalIsFinal ==
    [][\A o \in OpIds :
          disk.ops[o].phase \in {"cancelled", "completed"} =>
              disk'.ops[o].phase \in {disk.ops[o].phase, "none"}]_vars

\* "Empty terminal history is replaceable; live generations and exact cleanup
\* capabilities are not": an operation that is live within its two hours, or owns
\* a stage, leaves memory only after its grace, with a refused save, or with a
\* worker that is lost before the operation was stored.
CapabilitiesAreRetained ==
    [][\A o \in OpIds :
          /\ \/ Live(mem.ops[o]) /\ <<"operation", o>> \notin elapsed
             \/ mem.ops[o].stages # {}
          /\ ~Exists(mem'.ops[o])
          => <<"grace", o>> \in elapsed \/ mem' \in {EmptyState, Hydrate(disk)}]_vars

\* A revocation takes effect: whatever holds the lock is eventually done, and
\* the cancellation that waits behind it is carried out.
RevocationTakesEffect ==
    \A o \in OpIds : <<"operation", o>> \in revoked ~> ~Live(mem.ops[o])

=============================================================================

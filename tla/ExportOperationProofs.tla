----------------------- MODULE ExportOperationProofs -----------------------
(***************************************************************************)
(* What ExportOperation guarantees for every value of its constants.       *)
(*                                                                         *)
(* The invariants follow from one inductive invariant, IInv.  Most steps   *)
(* of the controller only give up grants: the lemmas of the first section  *)
(* say so of each operator that changes the state, and the induction then  *)
(* looks closely at the few steps that give a grant or a stage.            *)
(*                                                                         *)
(* The second part is about the records that are kept: what ended stays    *)
(* ended, nothing is evicted early, a click finds room, and what is        *)
(* written can be read back.                                               *)
(***************************************************************************)
EXTENDS ExportOperation, FiniteSetTheorems, WellFoundedInduction, TLAPS

\* What a change of the controller's state from s to z leaves of the grants: no
\* intent is added or altered, no operation becomes live, moves to another tab,
\* returns from its end or gains a stage.
IntentsKept(s, z) == \A i \in IntentIds : z.intents[i].there => z.intents[i] = s.intents[i]

LiveKept(s, z) ==
    \A o \in OpIds :
        /\ Live(z.ops[o]) => Live(s.ops[o]) /\ z.ops[o].tab = s.ops[o].tab
        /\ ~Live(s.ops[o]) => z.ops[o].phase \in {s.ops[o].phase, "none"}

StagesKept(s, z) == \A o \in OpIds : z.ops[o].stages \subseteq s.ops[o].stages

GrantsKept(s, z) == z \in State /\ IntentsKept(s, z) /\ LiveKept(s, z)
Weaker(s, z) == GrantsKept(s, z) /\ StagesKept(s, z)

-----------------------------------------------------------------------------
(* The operators that change the state.                                    *)

\* The empty records are records.
LEMMA DefaultsTyped == NoIntent \in Intent /\ NoOperation \in Operation /\ NoSurface \in Surface
<1>1. AnyTab \in Tabs /\ AnyRoute \in Routes /\ AnySettings \in Settings
  BY ParametersAreSane DEF AnyTab, AnyRoute, AnySettings
<1> QED
  BY <1>1, ParametersAreSane DEF NoIntent, NoOperation, NoSurface, Intent, Operation, Surface, Phases

\* Leaving the state alone gives nothing.
LEMMA SameWeaker == ASSUME NEW s \in State PROVE Weaker(s, s)
  BY DEF Weaker, GrantsKept, IntentsKept, LiveKept, StagesKept, State

\* Giving up one thing after another gives nothing.
LEMMA WeakerTransitive ==
    ASSUME NEW s, NEW y, NEW z, Weaker(s, y), Weaker(y, z) PROVE Weaker(s, z)
  BY DEF Weaker, GrantsKept, IntentsKept, LiveKept, StagesKept, Live

\* Dropping every grant gives nothing.
LEMMA EmptyStateWeaker == ASSUME NEW s \in State PROVE Weaker(s, EmptyState)
  BY DefaultsTyped
  DEF Weaker, GrantsKept, IntentsKept, LiveKept, StagesKept, EmptyState, State, NoIntent,
      NoOperation, Live

\* Evicting operations gives nothing.
LEMMA WithoutWeaker == ASSUME NEW s \in State, NEW gone PROVE Weaker(s, Without(s, gone))
  BY DefaultsTyped
  DEF Weaker, GrantsKept, IntentsKept, LiveKept, StagesKept, Without, State, NoOperation, Live,
      Operation

\* Dropping intents gives nothing.
LEMMA DropIntentsWeaker == ASSUME NEW s \in State, NEW gone PROVE Weaker(s, DropIntents(s, gone))
  BY DefaultsTyped
  DEF Weaker, GrantsKept, IntentsKept, LiveKept, StagesKept, DropIntents, State, NoIntent

\* Forgetting export windows gives nothing.
LEMMA DropSurfacesWeaker == ASSUME NEW s \in State, NEW gone PROVE Weaker(s, DropSurfaces(s, gone))
  BY DefaultsTyped
  DEF Weaker, GrantsKept, IntentsKept, LiveKept, StagesKept, DropSurfaces, State

\* Changing one operation in place keeps the state well formed.
LEMMA OperationChanged ==
    ASSUME NEW s \in State, NEW o \in OpIds, NEW op \in Operation
    PROVE  /\ [s EXCEPT !.ops[o] = op] \in State
           /\ [s EXCEPT !.ops[o] = op].intents = s.intents
           /\ \A x \in OpIds : [s EXCEPT !.ops[o] = op].ops[x] = IF x = o THEN op ELSE s.ops[x]
  BY DEF State

\* Cancelling an operation gives nothing.
LEMMA CancelledWeaker == ASSUME NEW s \in State, NEW o \in OpIds PROVE Weaker(s, Cancelled(s, o))
<1> DEFINE op == [s.ops[o] EXCEPT !.phase = "cancelled"]
<1>1. op \in Operation /\ op.stages = s.ops[o].stages /\ op.phase = "cancelled"
  BY DEF State, Operation, Phases
<1>2. [s EXCEPT !.ops[o].phase = "cancelled"] = [s EXCEPT !.ops[o] = op]
  BY DEF State
<1> HIDE DEF op
<1>3. CASE Live(s.ops[o])
  BY <1>1, <1>2, <1>3, OperationChanged
  DEF Weaker, GrantsKept, IntentsKept, LiveKept, StagesKept, Cancelled, Live
<1>4. CASE ~Live(s.ops[o])
  BY <1>4, SameWeaker DEF Cancelled
<1> QED BY <1>3, <1>4

\* Pruning what has expired gives nothing.
LEMMA PrunedWeaker == ASSUME NEW s \in State PROVE Weaker(s, Pruned(s))
  BY DefaultsTyped
  DEF Weaker, GrantsKept, IntentsKept, LiveKept, StagesKept, Pruned, State, Live, Operation,
      Phases, NoOperation, NoIntent

\* Repairing an over-reserved state gives nothing.
LEMMA RecoveredWeaker == ASSUME NEW s \in State PROVE Weaker(s, Recovered(s))
  BY WithoutWeaker, DropIntentsWeaker, WeakerTransitive DEF Recovered, Weaker, GrantsKept

\* Giving up a stage gives nothing.
LEMMA RelinquishingWeaker ==
    ASSUME mem \in State, NEW o \in OpIds, NEW stage PROVE Weaker(mem, Relinquishing(o, stage))
<1> DEFINE op == [mem.ops[o] EXCEPT !.stages = @ \ {stage}]
<1>1. /\ op \in Operation /\ op.stages \subseteq mem.ops[o].stages
      /\ op.phase = mem.ops[o].phase /\ op.tab = mem.ops[o].tab
  BY DEF State, Operation
<1>2. Relinquishing(o, stage) = [mem EXCEPT !.ops[o] = op]
  BY DEF State, Relinquishing
<1> HIDE DEF op
<1> QED
  BY <1>1, <1>2, OperationChanged DEF Weaker, GrantsKept, IntentsKept, LiveKept, StagesKept, Live

\* Entering a stage gives no grant, and no stage but this one, to this operation.
LEMMA RegisteringKeeps ==
    ASSUME mem \in State, NEW o \in OpIds, NEW stage \in Stages
    PROVE  /\ GrantsKept(mem, Registering(o, stage))
           /\ \A x \in OpIds : Registering(o, stage).ops[x].stages =
                 mem.ops[x].stages \cup (IF x = o THEN {stage} ELSE {})
<1> DEFINE op == [mem.ops[o] EXCEPT !.stages = @ \cup {stage}]
<1>1. /\ op \in Operation /\ op.stages = mem.ops[o].stages \cup {stage}
      /\ op.phase = mem.ops[o].phase /\ op.tab = mem.ops[o].tab
  BY DEF State, Operation
<1>2. Registering(o, stage) = [mem EXCEPT !.ops[o] = op]
  BY DEF State, Registering
<1> HIDE DEF op
<1> QED
  BY <1>1, <1>2, OperationChanged DEF GrantsKept, IntentsKept, LiveKept, Live

\* Hydration keeps the state or drops it.
LEMMA HydrateWeaker == ASSUME NEW s \in State PROVE Weaker(s, Hydrate(s))
  BY SameWeaker, EmptyStateWeaker DEF Hydrate

-----------------------------------------------------------------------------
(* The inductive invariant.                                                *)

\* A tab has at most one holder in state s; a stage at most one owner.
OneHolder(s) == \A t \in Tabs : \A a, b \in Holders(s, t) : a = b
OneOwner(s) == \A a, b \in OpIds : s.ops[a].stages \cap s.ops[b].stages # {} => a = b

WindowSteps == {"compact", "create-window", "give-up"}

\* A job that waits for the settings has not been sent there by a save, and only
\* the requests that open an export window get to its steps.
StepsFit ==
    /\ {job.onSaved, job.onFailed} \cap {"settings", "admit", "save"} = {}
    /\ {job.at, job.onSaved, job.onFailed} \cap WindowSteps # {} =>
           req.kind \in {"popup", "offer", "choose"}

\* Handlers run for messages that name the stage they work on.
RunningFit == \A h \in running : h.kind = "authorize" /\ h.stage \in Stages

\* What was checked before the settings were read still holds when they arrive:
\* nothing but the job itself changes what the checks looked at.
Checked ==
    /\ req.kind = "start" =>
          /\ TabIsFree
          /\ Cardinality(Intents(mem)) < IntentLimit
          /\ Cardinality(Reclaimable(mem)) >= SlotsNeeded
          /\ next.intent <= MaxIntents
    /\ req.kind = "claim" =>
          /\ mem.intents[req.id].there
          /\ mem.intents[req.id].tab = req.tab
          /\ LiveOn(mem, req.tab) = {}
          /\ next.op <= MaxOps
    /\ req.kind = "offer" => theOp.phase = "preparing" /\ theOp.mode = "selected"
    /\ req.kind = "choose" => theOp.phase = "awaiting-selection"
    /\ req.kind = "authorize" => Live(theOp)

CheckHolds == job.at \in {"settings", "admit"} => Checked

Grants == OneHolder(mem) /\ OneHolder(disk) /\ PreviewIsExclusive
Owned == OneOwner(mem) /\ OneOwner(disk)

IInv == TypeOK /\ StepsFit /\ RunningFit /\ CheckHolds /\ Grants /\ Owned

-----------------------------------------------------------------------------
(* What a step leaves of the grants.                                       *)

\* The holders of a tab do not grow when grants are only given up.
LEMMA HoldersKept ==
    ASSUME NEW s \in State, NEW z, GrantsKept(s, z), NEW t \in Tabs
    PROVE  Holders(z, t) \subseteq Holders(s, t)
<1>1. IntentsOn(z, t) \subseteq IntentsOn(s, t)
  BY DEF GrantsKept, IntentsKept, IntentsOn, Intents
<1>2. LiveOn(z, t) \subseteq LiveOn(s, t)
  BY DEF GrantsKept, LiveKept, LiveOn
<1> QED BY <1>1, <1>2 DEF Holders

\* A step that only gives up grants, in memory, keeps tabs and previews exclusive.
LEMMA GrantsPreserved ==
    ASSUME Grants, mem \in State, GrantsKept(mem, mem'), reserved' \subseteq Tabs,
           disk' \in {disk, mem}, reserved' \subseteq reserved
    PROVE  Grants'
<1>1. \A t \in Tabs : Holders(mem', t) \subseteq Holders(mem, t)
  BY HoldersKept
<1>2. OneHolder(mem)' /\ OneHolder(disk)'
  BY <1>1 DEF Grants, OneHolder
<1>3. PreviewIsExclusive'
  BY <1>1 DEF Grants, PreviewIsExclusive
<1> QED BY <1>2, <1>3 DEF Grants

\* A step that gives no stage keeps every stage with one owner.
LEMMA OwnedPreserved ==
    ASSUME Owned, StagesKept(mem, mem'), disk' \in {disk, mem}
    PROVE  Owned'
<1>1. \A o \in OpIds : mem'.ops[o].stages \subseteq mem.ops[o].stages
  BY DEF StagesKept
<1>2. OneOwner(mem)'
  BY <1>1 DEF Owned, OneOwner
<1>3. OneOwner(disk)'
  BY DEF Owned, OneOwner
<1> QED BY <1>2, <1>3 DEF Owned

\* A stage that nobody owns can be given to an operation.
LEMMA RegisteringOwned ==
    ASSUME Owned, mem \in State, disk' = disk, NEW o \in OpIds, NEW stage \in Stages,
           Owners(stage) = {}, mem' = Registering(o, stage)
    PROVE  Owned'
<1>1. \A x \in OpIds : stage \notin mem.ops[x].stages
  BY DEF Owners
<1>2. \A x \in OpIds : mem'.ops[x].stages = mem.ops[x].stages \cup (IF x = o THEN {stage} ELSE {})
  BY RegisteringKeeps
<1>3. OneOwner(mem)'
  BY <1>1, <1>2 DEF Owned, OneOwner
<1>4. OneOwner(disk)'
  BY DEF Owned, OneOwner
<1> QED BY <1>3, <1>4 DEF Owned

-----------------------------------------------------------------------------
(* Steps of a job.                                                         *)

\* A job that ends, or goes on to a step where nothing was checked, fits.
LEMMA JobEnds == ASSUME Finish PROVE job' \in Job /\ StepsFit' /\ CheckHolds'
<1>1. Ask("settings") \in Request
  BY ParametersAreSane DEF Ask, Request, Message, Kinds, Purposes, ByOperation, AnyTab, AnyRoute
<1>2. NoJob \in Job
  <2>1. AnySettings \in Settings
    BY ParametersAreSane DEF AnySettings
  <2> QED BY <1>1, <2>1 DEF NoJob, Job, Steps
<1> QED
  BY <1>2 DEF Finish, NoJob, StepsFit, CheckHolds, WindowSteps

LEMMA JobGoes ==
    ASSUME job \in Job, StepsFit, NEW step \in Steps, Go(step),
           step \notin {"settings", "admit"},
           step \in WindowSteps => req.kind \in {"popup", "offer", "choose"}
    PROVE  job' \in Job /\ StepsFit' /\ CheckHolds'
<1>1. CASE step = "done"
  BY <1>1, JobEnds DEF Go
<1>2. CASE step # "done"
  BY <1>2 DEF Go, Job, StepsFit, CheckHolds, WindowSteps, req
<1> QED BY <1>1, <1>2

\* A job that saves goes on where it said it would.
LEMMA JobSaves ==
    ASSUME job \in Job, StepsFit, NEW state, NEW onSaved \in Steps, NEW onFailed \in Steps,
           SaveThen(state, onSaved, onFailed),
           {onSaved, onFailed} \cap {"settings", "admit", "save"} = {},
           {onSaved, onFailed} \cap WindowSteps # {} => req.kind \in {"popup", "offer", "choose"}
    PROVE  job' \in Job /\ StepsFit' /\ CheckHolds' /\ mem' = state
<1>1. mem' = state /\ job' = [job EXCEPT !.at = "save", !.onSaved = onSaved, !.onFailed = onFailed]
  BY DEF SaveThen
<1>2. job' \in Job
  BY <1>1 DEF Job, Steps
<1>3. /\ job'.at = "save" /\ job'.onSaved = onSaved /\ job'.onFailed = onFailed
      /\ job'.req = job.req
  BY <1>1 DEF Job
<1>4. StepsFit' /\ CheckHolds'
  BY <1>3 DEF StepsFit, CheckHolds, WindowSteps, req
<1> QED BY <1>1, <1>2, <1>4

\* Cancelling what is no longer live saves nothing and goes on.
LEMMA JobCancels ==
    ASSUME job \in Job, mem \in State, StepsFit, NEW o \in OpIds, NEW step \in Steps,
           CancelThen(o, step), step \notin {"settings", "admit", "save"} \cup WindowSteps
    PROVE  job' \in Job /\ StepsFit' /\ CheckHolds' /\ Weaker(mem, mem')
<1>1. CASE Live(mem.ops[o])
  <2>1. SaveThen(Cancelled(mem, o), step, "done")
    BY <1>1 DEF CancelThen
  <2>2. /\ "done" \in Steps /\ "done" \notin {"settings", "admit", "save"} \cup WindowSteps
    BY DEF Steps, WindowSteps
  <2> QED BY <2>1, <2>2, JobSaves, CancelledWeaker
<1>2. CASE ~Live(mem.ops[o])
  BY <1>2, JobGoes, SameWeaker DEF CancelThen
<1> QED BY <1>1, <1>2

\* A request that names an operation names one of the identities.
LEMMA RequestsAreTyped ==
    ASSUME TypeOK
    PROVE  /\ req \in Request /\ req.kind \in Kinds /\ req.tab \in Tabs
           /\ req.kind \in ByOperation => req.id \in OpIds
           /\ req.kind \in {"claim", "unstart"} => req.id \in IntentIds
           /\ req.kind \in {"commit", "take", "record", "released"} => req.stage \in Stages
           /\ req.purpose \in {"begin", "use", "commit", "abort"} => req.stage \in Stages
  BY DEF TypeOK, Job, req, Request, Message

\* A job that reads the settings keeps what it checked.
LEMMA JobReadsSettings ==
    ASSUME TypeOK, StepsFit, Checked, ReadSettings, UNCHANGED <<mem, next, reserved>>
    PROVE  job' \in Job /\ StepsFit' /\ CheckHolds'
<1>1. job' = [job EXCEPT !.at = "settings", !.revision = revision]
  BY DEF ReadSettings
<1>2. job \in Job /\ revision \in Nat
  BY DEF TypeOK
<1>3. job' \in Job
  BY <1>1, <1>2 DEF Job, Steps
<1>4. /\ job'.at = "settings" /\ job'.onSaved = job.onSaved /\ job'.onFailed = job.onFailed
      /\ job'.req = job.req
  BY <1>1, <1>2 DEF Job
<1>5. StepsFit'
  BY <1>4 DEF StepsFit, WindowSteps, req
<1>6. req' = req
  BY <1>4 DEF req
<1>7. CheckHolds'
  BY <1>6 DEF CheckHolds, Checked, TabIsFree, SlotsNeeded, theOp
<1> QED BY <1>3, <1>5, <1>7

\* The checks of a request, and what the job may rely on if they succeed.
LEMMA JobChecks ==
    ASSUME TypeOK, StepsFit, NEW kind \in Kinds, NEW admissible, Check(kind, admissible),
           admissible => Checked
    PROVE  job' \in Job /\ StepsFit' /\ CheckHolds' /\ mem' = mem
           /\ UNCHANGED <<Outside, next, history>>
<1>1. mem' = mem /\ UNCHANGED <<Outside, next, history>>
  BY DEF Check
<1>2. CASE admissible
  <2>1. ReadSettings
    BY <1>2 DEF Check
  <2>2. UNCHANGED <<mem, next, reserved>>
    BY <1>1 DEF Outside, volatile
  <2> QED BY <1>1, <1>2, <2>1, <2>2, JobReadsSettings
<1>3. CASE ~admissible
  <2>1. Finish
    BY <1>3 DEF Check
  <2> QED BY <1>1, <2>1, JobEnds
<1> QED BY <1>2, <1>3

\* A step of a job that touches memory alone, and gives nothing, keeps IInv.
LEMMA JobStepKeeps ==
    ASSUME IInv, UNCHANGED <<Outside, next, history>>,
           job' \in Job, StepsFit', CheckHolds', Weaker(mem, mem')
    PROVE  IInv'
<1>1. TypeOK'
  BY DEF IInv, TypeOK, Outside, browser, volatile, history, Weaker, GrantsKept
<1>2. RunningFit'
  BY DEF IInv, RunningFit, Outside, volatile
<1>3. Grants'
  <2>1. disk' \in {disk, mem} /\ reserved' \subseteq reserved /\ reserved' \subseteq Tabs
    BY DEF IInv, TypeOK, Outside, volatile
  <2> QED BY <2>1, GrantsPreserved DEF IInv, TypeOK, Weaker
<1>4. Owned'
  BY OwnedPreserved DEF IInv, Outside, Weaker
<1> QED BY <1>1, <1>2, <1>3, <1>4 DEF IInv

\* The checks of the five requests that read the settings keep IInv.
LEMMA CheckKeeps ==
    ASSUME IInv, NEW kind \in Kinds, NEW admissible, Check(kind, admissible), admissible => Checked
    PROVE  IInv'
<1>1. /\ job' \in Job /\ StepsFit' /\ CheckHolds' /\ mem' = mem
      /\ UNCHANGED <<Outside, next, history>>
  BY JobChecks DEF IInv
<1>2. Weaker(mem, mem')
  BY <1>1, SameWeaker DEF IInv, TypeOK
<1> QED BY <1>1, <1>2, JobStepKeeps

-----------------------------------------------------------------------------
(* The steps of a job that only give up grants.                            *)

\* The checks of every request keep IInv.
LEMMA ChecksKeep ==
    ASSUME IInv, StartChecks \/ ClaimChecks \/ OfferChecks \/ ChooseChecks \/ CommitChecks
    PROVE  IInv'
<1> USE DEF Checked
<1>0. {"start", "claim", "offer", "choose", "commit"} \subseteq Kinds
  BY DEF Kinds
<1>1. CASE StartChecks
  <2>1. Check("start", Startable) /\ req.kind = "start"
    BY <1>1 DEF StartChecks, Check, At
  <2>2. Startable => Checked
    BY <2>1 DEF Startable
  <2> QED BY <1>0, <2>1, <2>2, CheckKeeps
<1>2. CASE ClaimChecks
  <2>1. Check("claim", Claimable(mem.intents[req.id])) /\ req.kind = "claim"
    BY <1>2 DEF ClaimChecks, Check, At
  <2>2. Claimable(mem.intents[req.id]) => Checked
    BY <2>1 DEF Claimable
  <2> QED BY <1>0, <2>1, <2>2, CheckKeeps
<1>3. CASE OfferChecks
  <2>1. Check("offer", Offerable) /\ req.kind = "offer"
    BY <1>3 DEF OfferChecks, Check, At
  <2>2. Offerable => Checked
    BY <2>1 DEF Offerable
  <2> QED BY <1>0, <2>1, <2>2, CheckKeeps
<1>4. CASE ChooseChecks
  <2> DEFINE asked == theOp.phase = "awaiting-selection" /\ UiTargets(theOp.tab, theOp.route)
  <2>1. Check("choose", asked) /\ req.kind = "choose"
    BY <1>4 DEF ChooseChecks, Check, At
  <2>2. asked => Checked
    BY <2>1
  <2> HIDE DEF asked
  <2> QED BY <1>0, <2>1, <2>2, CheckKeeps
<1>5. CASE CommitChecks
  <2>1. Check("commit", OwnedStage(req)) /\ req.kind = "commit"
    BY <1>5 DEF CommitChecks, Check, At
  <2> QED BY <1>0, <2>1, CheckKeeps
<1> QED BY <1>1, <1>2, <1>3, <1>4, <1>5

\* The first step of an authorisation, and those that may cancel it, keep IInv.
LEMMA AuthorizeChecksKeeps == ASSUME IInv, AuthorizeChecks PROVE IInv'
<1>1. /\ TypeOK /\ StepsFit /\ job \in Job /\ mem \in State
      /\ req.kind = "authorize" /\ req.id \in OpIds
      /\ UNCHANGED <<Outside, next, history>>
  BY RequestsAreTyped DEF IInv, TypeOK, AuthorizeChecks, At, ByOperation
<1>2. /\ {"granted", "refused"} \subseteq Steps
      /\ {"granted", "refused"} \cap ({"settings", "admit", "save"} \cup WindowSteps) = {}
  BY DEF Steps, WindowSteps
<1>3. CASE UNCHANGED mem /\ (Go("granted") \/ Go("refused"))
  BY <1>1, <1>2, <1>3, JobGoes, SameWeaker, JobStepKeeps
<1>4. CASE UNCHANGED mem /\ ReadSettings /\ Live(theOp)
  <2>1. Checked
    BY <1>1, <1>4 DEF Checked
  <2>2. UNCHANGED <<mem, next, reserved>>
    BY <1>1, <1>4 DEF Outside, volatile
  <2> QED BY <1>1, <1>4, <2>1, <2>2, JobReadsSettings, SameWeaker, JobStepKeeps
<1>5. CASE CancelThen(req.id, "refused")
  BY <1>1, <1>2, <1>5, JobCancels, JobStepKeeps
<1> QED BY <1>3, <1>4, <1>5 DEF AuthorizeChecks

\* The steps that only cancel, complete, relinquish or drop keep IInv.
LEMMA EndingsKeep ==
    ASSUME IInv,
           \/ Unstart \/ GiveUp \/ Stop \/ AuthorizeJudges \/ CommitAdmits \/ CommitJudges
           \/ CommitRejudges \/ TakeChecks \/ Released \/ Sweep
    PROVE  IInv'
<1> USE RequestsAreTyped
<1>0. /\ TypeOK /\ StepsFit /\ job \in Job /\ mem \in State
      /\ UNCHANGED <<Outside, next, history>>
  BY DEF IInv, TypeOK, Unstart, GiveUp, Stop, AuthorizeJudges, CommitAdmits, CommitJudges,
         CommitRejudges, TakeChecks, Released, Sweep
<1>1. /\ {"done", "granted", "refused", "recheck", "sweep"} \subseteq Steps
      /\ {"done", "granted", "refused", "recheck", "sweep"}
            \cap ({"settings", "admit", "save"} \cup WindowSteps) = {}
  BY DEF Steps, WindowSteps
<1>2. CASE Unstart
  BY <1>0, <1>1, <1>2, JobSaves, DropIntentsWeaker, JobStepKeeps DEF Unstart
<1>3. CASE GiveUp
  <2>1. req.kind \in {"popup", "offer", "choose"}
    BY <1>0, <1>3 DEF GiveUp, StepsFit, WindowSteps
  <2>2. CASE req.kind = "popup"
    BY <1>0, <1>3, <2>2, JobEnds, SameWeaker, JobStepKeeps DEF GiveUp
  <2>3. CASE req.kind # "popup"
    <3>1. req.id \in OpIds
      BY <1>0, <2>1, <2>3 DEF ByOperation
    <3>2. SaveThen(Cancelled(mem, req.id), "done", "done")
      BY <1>3, <2>3 DEF GiveUp
    <3> QED BY <1>0, <1>1, <3>1, <3>2, JobSaves, CancelledWeaker, JobStepKeeps
  <2> QED BY <2>2, <2>3
<1>4. CASE Stop
  <2>1. req.id \in OpIds
    BY <1>0, <1>4 DEF Stop, At, ByOperation
  <2> QED
    BY <1>0, <1>1, <1>4, <2>1, JobCancels, JobEnds, SameWeaker, JobStepKeeps DEF Stop
<1>5. CASE AuthorizeJudges
  <2>1. req.id \in OpIds
    BY <1>0, <1>5 DEF AuthorizeJudges, At, ByOperation
  <2> QED
    BY <1>0, <1>1, <1>5, <2>1, JobCancels, JobGoes, SameWeaker, JobStepKeeps DEF AuthorizeJudges
<1>6. CASE CommitAdmits
  <2>1. req.id \in OpIds
    BY <1>0, <1>6 DEF CommitAdmits, At, ByOperation
  <2> QED
    BY <1>0, <1>1, <1>6, <2>1, JobSaves, JobGoes, SameWeaker, RelinquishingWeaker, JobStepKeeps
    DEF CommitAdmits, RelinquishThen
<1>7. CASE CommitJudges
  <2>1. req.id \in OpIds
    BY <1>0, <1>7 DEF CommitJudges, At, ByOperation
  <2> DEFINE after == IF AdmissionStillCurrent THEN "recheck" ELSE "refused"
  <2>2. /\ mem' = Relinquishing(req.id, req.stage)
        /\ job' = [job EXCEPT !.at = "save", !.onFailed = "refused",
                              !.permitted = AdmissionStillCurrent, !.onSaved = after]
    BY <1>7 DEF CommitJudges
  <2>3. after \in {"recheck", "refused"} /\ AdmissionStillCurrent \in BOOLEAN
    BY DEF AdmissionStillCurrent
  <2> HIDE DEF after
  <2>4. /\ job'.at = "save" /\ job'.onSaved = after /\ job'.onFailed = "refused"
        /\ job' \in Job
    BY <1>0, <2>2, <2>3 DEF Job, Steps
  <2>5. StepsFit' /\ CheckHolds'
    BY <2>3, <2>4 DEF StepsFit, CheckHolds, WindowSteps
  <2> QED BY <1>0, <2>1, <2>2, <2>4, <2>5, RelinquishingWeaker, JobStepKeeps
<1>8. CASE CommitRejudges
  BY <1>0, <1>1, <1>8, JobGoes, SameWeaker, JobStepKeeps DEF CommitRejudges
<1>9. CASE TakeChecks
  <2>1. req.id \in OpIds
    BY <1>0, <1>9 DEF TakeChecks, At, ByOperation
  <2> QED
    BY <1>0, <1>1, <1>9, <2>1, JobSaves, JobEnds, SameWeaker, RelinquishingWeaker, JobStepKeeps
    DEF TakeChecks, RelinquishThen
<1>10. CASE Released
  <2>1. req.id \in OpIds
    BY <1>0, <1>10 DEF Released, At, ByOperation
  <2> QED
    BY <1>0, <1>1, <1>10, <2>1, JobSaves, JobEnds, SameWeaker, RelinquishingWeaker, JobStepKeeps
    DEF Released
<1>11. CASE Sweep
  <2> DEFINE base == IF req.kind = "settings" THEN DropIntents(mem, Intents(mem)) ELSE mem
             last == DropSurfaces(DropIntents(base, RevokedIntents),
                                  IF req.kind = "window-closed" THEN {req.ui} ELSE {})
  <2>1. Weaker(mem, base)
    BY <1>0, DropIntentsWeaker, SameWeaker
  <2>2. base \in State
    BY <2>1 DEF Weaker, GrantsKept
  <2>3. \/ \E o \in Oldest(Doomed, 1) : SaveThen(Cancelled(base, o), "sweep", "done")
        \/ SaveThen(last, "done", "done")
    BY <1>11 DEF Sweep
  <2> HIDE DEF base
  <2>4. CASE \E o \in Oldest(Doomed, 1) : SaveThen(Cancelled(base, o), "sweep", "done")
    <3>1. PICK o \in Oldest(Doomed, 1) : SaveThen(Cancelled(base, o), "sweep", "done")
      BY <2>4
    <3>2. o \in OpIds
      BY <3>1 DEF Oldest, Doomed
    <3>3. Weaker(mem, Cancelled(base, o))
      BY <2>1, <2>2, <3>2, CancelledWeaker, WeakerTransitive
    <3> QED BY <1>0, <1>1, <3>1, <3>3, JobSaves, JobStepKeeps
  <2>5. CASE SaveThen(last, "done", "done")
    <3>1. Weaker(base, DropIntents(base, RevokedIntents))
      BY <2>2, DropIntentsWeaker
    <3>2. Weaker(DropIntents(base, RevokedIntents), last)
      BY <3>1, DropSurfacesWeaker DEF Weaker, GrantsKept
    <3>3. Weaker(mem, last)
      BY <2>1, <3>1, <3>2, WeakerTransitive
    <3> HIDE DEF last
    <3> QED BY <1>0, <1>1, <2>5, <3>3, JobSaves, JobStepKeeps
  <2> QED BY <2>3, <2>4, <2>5
<1> QED
  BY <1>2, <1>3, <1>4, <1>5, <1>6, <1>7, <1>8, <1>9, <1>10, <1>11

\* The steps around the export window touch its registration alone.
LEMMA WindowStepsKeep ==
    ASSUME IInv,
           \/ OpenChecks \/ Compact \/ WindowCreated \/ WindowRefused \/ ChooseApplies
    PROVE  IInv'
<1> USE RequestsAreTyped
<1>0. TypeOK /\ StepsFit /\ job \in Job /\ mem \in State
  BY DEF IInv, TypeOK
<1>1. {"done", "compact", "create-window", "give-up"} \subseteq Steps
  BY DEF Steps
<1>2. CASE OpenChecks
  <2>1. req.kind = "popup" /\ UNCHANGED <<Outside, next, history>> /\ mem' = mem
        /\ (Finish \/ Go("compact"))
    BY <1>2 DEF OpenChecks, At
  <2> QED BY <1>0, <1>1, <2>1, JobEnds, JobGoes, SameWeaker, JobStepKeeps
<1>3. CASE WindowRefused
  <2>1. req.kind \in {"popup", "offer", "choose"}
    BY <1>0, <1>3 DEF WindowRefused, StepsFit, WindowSteps
  <2> QED BY <1>0, <1>1, <1>3, <2>1, JobGoes, SameWeaker, JobStepKeeps DEF WindowRefused
<1>4. CASE ChooseApplies
  <2>1. req.kind = "choose"
    BY <1>4 DEF ChooseApplies, At
  <2> QED BY <1>0, <1>1, <1>4, <2>1, JobEnds, JobGoes, SameWeaker, JobStepKeeps DEF ChooseApplies
<1>5. CASE Compact
  <2>1. req.kind \in {"popup", "offer", "choose"}
    BY <1>0, <1>5 DEF Compact, StepsFit, WindowSteps
  <2>2. UNCHANGED <<browser, disk, volatile, next, history, spent, scenario>>
    BY <1>5 DEF Compact
  <2>3. CASE \E u \in Registered \cap windows :
               /\ SaveThen(IF req.kind = "popup" THEN mem
                           ELSE [mem EXCEPT !.surfaces[u].op = req.id], "done", "create-window")
               /\ elapsed' = elapsed \ {<<"surface", u>>}
    <3>1. PICK u \in Registered \cap windows :
               /\ SaveThen(IF req.kind = "popup" THEN mem
                           ELSE [mem EXCEPT !.surfaces[u].op = req.id], "done", "create-window")
               /\ elapsed' = elapsed \ {<<"surface", u>>}
      BY <2>3
    <3> DEFINE state == IF req.kind = "popup" THEN mem ELSE [mem EXCEPT !.surfaces[u].op = req.id]
    <3>2. Weaker(mem, state)
      <4>1. req.kind # "popup" => req.id \in 0 .. MaxOps
        BY <1>0, <2>1, ParametersAreSane DEF ByOperation, OpIds
      <4>2. u \in SurfaceIds
        BY <3>1 DEF Registered, Surfaces
      <4> QED
        BY <1>0, <4>1, <4>2, SameWeaker
        DEF Weaker, GrantsKept, IntentsKept, LiveKept, StagesKept, State, Surface
    <3> HIDE DEF state
    <3>3. job' \in Job /\ StepsFit' /\ CheckHolds' /\ mem' = state
      BY <1>0, <1>1, <2>1, <3>1, JobSaves DEF WindowSteps, state
    <3>4. TypeOK'
      BY <1>0, <2>2, <3>1, <3>2, <3>3
      DEF TypeOK, browser, volatile, history, Weaker, GrantsKept
    <3>5. RunningFit' /\ Grants' /\ Owned'
      BY <1>0, <2>2, <3>2, <3>3, GrantsPreserved, OwnedPreserved
      DEF IInv, RunningFit, volatile, TypeOK, Weaker
    <3> QED BY <3>3, <3>4, <3>5 DEF IInv
  <2>4. CASE /\ mem' = DropSurfaces(mem, Registered) /\ Go("create-window")
             /\ UNCHANGED elapsed
    BY <1>0, <1>1, <2>1, <2>2, <2>4, JobGoes, DropSurfacesWeaker, JobStepKeeps DEF Outside
  <2> QED BY <1>5, <2>3, <2>4 DEF Compact
<1>6. CASE WindowCreated
  <2> DEFINE u == next.surface
             surface == [there |-> TRUE, tab |-> req.tab, route |-> req.route,
                         op |-> IF req.kind = "popup" THEN 0 ELSE req.id]
             state == [mem EXCEPT !.surfaces[u] = surface]
  <2>1. req.kind \in {"popup", "offer", "choose"}
    BY <1>0, <1>6 DEF WindowCreated, StepsFit, WindowSteps
  <2>2. /\ SaveThen(state, "done", "give-up")
        /\ windows' = windows \cup {u} /\ next' = [next EXCEPT !.surface = @ + 1]
        /\ UNCHANGED <<tabs, settings, events, disk, volatile, elapsed, history, spent>>
    BY <1>6 DEF WindowCreated
  <2>3. /\ next \in [intent: 1 .. MaxIntents + 1, op: 1 .. MaxOps + 1,
                     surface: 1 .. MaxSurfaces + 1]
        /\ u \in 1 .. MaxSurfaces
    <3>1. next \in [intent: 1 .. MaxIntents + 1, op: 1 .. MaxOps + 1,
                    surface: 1 .. MaxSurfaces + 1]
      BY <1>0 DEF TypeOK
    <3>2. next.surface \in 1 .. MaxSurfaces + 1 /\ next.surface <= MaxSurfaces
      BY <1>6, <3>1 DEF WindowCreated
    <3> QED BY <3>1, <3>2, ParametersAreSane
  <2>4. u \in SurfaceIds
    BY <2>3 DEF SurfaceIds
  <2>5. surface \in Surface
    <3>1. req.kind # "popup" => req.id \in 0 .. MaxOps
      BY <1>0, <2>1, ParametersAreSane DEF ByOperation, OpIds
    <3>2. req.route \in Routes /\ req.tab \in Tabs
      BY <1>0, <2>1 DEF Request, Message
    <3> QED BY <3>1, <3>2, ParametersAreSane DEF Surface
  <2> HIDE DEF surface
  <2>6. Weaker(mem, state)
    BY <1>0, <2>4, <2>5, SameWeaker
    DEF Weaker, GrantsKept, IntentsKept, LiveKept, StagesKept, State
  <2> HIDE DEF state
  <2>7. job' \in Job /\ StepsFit' /\ CheckHolds' /\ mem' = state
    BY <1>0, <1>1, <2>1, <2>2, JobSaves DEF WindowSteps
  <2>8. TypeOK'
    <3>1. next' \in [intent: 1 .. MaxIntents + 1, op: 1 .. MaxOps + 1,
                     surface: 1 .. MaxSurfaces + 1]
      <4>1. u + 1 \in 1 .. MaxSurfaces + 1
        BY <2>3, ParametersAreSane
      <4> QED BY <2>2, <2>3, <4>1
    <3>2. windows' \subseteq SurfaceIds
      BY <1>0, <2>2, <2>4 DEF TypeOK
    <3> HIDE DEF u
    <3> QED
      BY <1>0, <2>2, <2>6, <2>7, <3>1, <3>2 DEF TypeOK, volatile, history, Weaker, GrantsKept
  <2>9. RunningFit' /\ Grants' /\ Owned'
    BY <1>0, <2>2, <2>6, <2>7, GrantsPreserved, OwnedPreserved
    DEF IInv, RunningFit, volatile, TypeOK, Weaker
  <2> QED BY <2>7, <2>8, <2>9 DEF IInv
<1> QED BY <1>2, <1>3, <1>4, <1>5, <1>6

-----------------------------------------------------------------------------
(* The steps of a job that give a grant, a choice or a stage.              *)

\* A choice is offered for a live operation and made for one that waits for it;
\* a completion ends what is live.  None of them gives a grant.
LEMMA ChoicesKeep ==
    ASSUME IInv, OfferAdmits \/ ChooseValidates \/ Complete
    PROVE  IInv'
<1> USE RequestsAreTyped
<1>0. /\ TypeOK /\ StepsFit /\ job \in Job /\ mem \in State
      /\ UNCHANGED <<Outside, next, history>>
  BY DEF IInv, TypeOK, OfferAdmits, ChooseValidates, Complete
<1>1. {"done", "compact", "apply", "save"} \subseteq Steps
      /\ {"done", "apply"} \cap ({"settings", "admit", "save"} \cup WindowSteps) = {}
  BY DEF Steps, WindowSteps
<1>2. ASSUME NEW op \in Operation, req.id \in OpIds, mem' = [mem EXCEPT !.ops[req.id] = op],
             op.tab = theOp.tab, op.stages = theOp.stages,
             Live(op) => Live(theOp),
             ~Live(theOp) => op.phase \in {theOp.phase, "none"}
      PROVE  Weaker(mem, mem')
  BY <1>0, <1>2, OperationChanged
  DEF Weaker, GrantsKept, IntentsKept, LiveKept, StagesKept, theOp
<1>3. req.id \in OpIds => theOp \in Operation
  BY <1>0 DEF theOp, State
<1>4. CASE OfferAdmits
  <2>1. job.at = "admit" /\ req.kind = "offer" /\ req.id \in OpIds
    BY <1>0, <1>4 DEF OfferAdmits, At, ByOperation
  <2>2. theOp.phase = "preparing"
    BY <2>1 DEF IInv, CheckHolds, Checked
  <2>3. CASE SettingsMatch(theOp)
    <3> DEFINE op == [theOp EXCEPT !.phase = "awaiting-selection", !.branch = "offered"]
    <3>1. mem' = [mem EXCEPT !.ops[req.id] = op]
      BY ZenonT(40), <1>0, <1>4, <2>1, <2>3 DEF OfferAdmits, theOp, State, Operation
    <3>2. /\ op \in Operation /\ op.tab = theOp.tab /\ op.stages = theOp.stages
          /\ Live(op) /\ Live(theOp)
      BY <1>3, <2>1, <2>2 DEF Operation, Phases, Live
    <3> HIDE DEF op
    <3>3. Weaker(mem, mem')
      BY <1>2, <2>1, <3>1, <3>2
    <3>4. job' = [job EXCEPT !.req.route = theOp.route, !.at = "save", !.onSaved = "compact",
                             !.onFailed = "done"]
      BY <1>4, <2>3 DEF OfferAdmits
    <3>5. [job.req EXCEPT !.route = theOp.route] \in Request
      BY <1>0, <1>3, <2>1, ParametersAreSane DEF Request, Message, Operation, req, ByOperation
    <3>6. /\ job'.at = "save" /\ job'.onSaved = "compact" /\ job'.onFailed = "done"
          /\ job'.req = [job.req EXCEPT !.route = theOp.route] /\ job' \in Job
      BY <1>0, <1>1, <3>4, <3>5 DEF Job
    <3>7. job'.req.kind = "offer"
      BY <1>0, <2>1, <3>6 DEF req, Request, Message
    <3>8. StepsFit' /\ CheckHolds'
      BY <3>6, <3>7 DEF StepsFit, CheckHolds, WindowSteps, req
    <3> QED BY <1>0, <3>3, <3>6, <3>8, JobStepKeeps
  <2>4. CASE ~SettingsMatch(theOp)
    BY <1>0, <1>4, <2>4, JobEnds, SameWeaker, JobStepKeeps DEF OfferAdmits
  <2> QED BY <2>3, <2>4
<1>5. CASE ChooseValidates
  <2>1. job.at = "admit" /\ req.kind = "choose" /\ req.id \in OpIds
    BY <1>0, <1>5 DEF ChooseValidates, At, ByOperation
  <2>2. theOp.phase = "awaiting-selection"
    BY <2>1 DEF IInv, CheckHolds, Checked
  <2> DEFINE op == [theOp EXCEPT !.phase = "exporting", !.branch = "chosen"]
             state == [mem EXCEPT !.ops[req.id].phase = "exporting", !.ops[req.id].branch = "chosen"]
  <2>3. SaveThen(state, "apply", "done") \/ (Finish /\ mem' = mem)
    BY <1>5 DEF ChooseValidates
  <2>4. state = [mem EXCEPT !.ops[req.id] = op]
    BY <1>0, <2>1 DEF theOp, State, Operation
  <2>5. /\ op \in Operation /\ op.tab = theOp.tab /\ op.stages = theOp.stages
        /\ Live(op) /\ Live(theOp)
    BY <1>3, <2>1, <2>2 DEF Operation, Phases, Live
  <2> HIDE DEF op, state
  <2>6. CASE SaveThen(state, "apply", "done")
    BY <1>0, <1>1, <1>2, <2>1, <2>4, <2>5, <2>6, JobSaves, JobStepKeeps
  <2>7. CASE Finish /\ mem' = mem
    BY <1>0, <2>7, JobEnds, SameWeaker, JobStepKeeps
  <2> QED BY <2>3, <2>6, <2>7
<1>6. CASE Complete
  <2>1. req.id \in OpIds
    BY <1>0, <1>6 DEF Complete, At, ByOperation
  <2>2. CASE Owns(theOp, req)
    <3> DEFINE op == Completed(theOp)
               state == [mem EXCEPT !.ops[req.id] = Completed(@)]
    <3>1. SaveThen(state, "done", "done")
      BY <1>6, <2>2 DEF Complete
    <3>2. state = [mem EXCEPT !.ops[req.id] = op]
      BY <1>0, <2>1 DEF theOp, State
    <3>3. /\ op \in Operation /\ op.tab = theOp.tab /\ op.stages = theOp.stages
          /\ ~Live(op) /\ (~Live(theOp) => op.phase = theOp.phase)
      BY <1>3, <2>1, <2>2 DEF Completed, Operation, Phases, Live, Owns, Exists
    <3> HIDE DEF op, state
    <3> QED BY <1>0, <1>1, <1>2, <2>1, <3>1, <3>2, <3>3, JobSaves, JobStepKeeps
  <2>3. CASE ~Owns(theOp, req)
    BY <1>0, <1>6, <2>3, JobEnds, SameWeaker, JobStepKeeps DEF Complete
  <2> QED BY <2>2, <2>3
<1> QED BY <1>4, <1>5, <1>6

\* A stage is entered with an operation only when nobody owns it.
LEMMA RegistrationsKeep == ASSUME IInv, AuthorizeAdmits \/ Record PROVE IInv'
<1> USE RequestsAreTyped
<1>0. /\ TypeOK /\ StepsFit /\ job \in Job /\ mem \in State
      /\ UNCHANGED <<Outside, next, history>> /\ req.id \in OpIds
  BY DEF IInv, TypeOK, AuthorizeAdmits, Record, At, ByOperation
<1>1. {"done", "refused", "recheck"} \subseteq Steps
      /\ {"done", "refused", "recheck"} \cap ({"settings", "admit", "save"} \cup WindowSteps) = {}
  BY DEF Steps, WindowSteps
<1>2. ASSUME NEW step \in {"done", "recheck"}, req.stage \in Stages, Owners(req.stage) = {},
             SaveThen(Registering(req.id, req.stage), step, "done")
      PROVE  IInv'
  <2>1. job' \in Job /\ StepsFit' /\ CheckHolds' /\ mem' = Registering(req.id, req.stage)
    BY <1>0, <1>1, <1>2, JobSaves
  <2>2. GrantsKept(mem, mem')
    BY <1>0, <1>2, <2>1, RegisteringKeeps
  <2>3. Owned'
    BY <1>0, <1>2, <2>1, RegisteringOwned DEF IInv, Outside
  <2>4. Grants'
    BY <1>0, <2>2, GrantsPreserved DEF IInv, TypeOK, Outside, volatile
  <2>5. TypeOK'
    BY <1>0, <2>1, <2>2 DEF TypeOK, Outside, browser, volatile, history, GrantsKept
  <2>6. RunningFit'
    BY <1>0 DEF IInv, RunningFit, Outside, volatile
  <2> QED BY <2>1, <2>3, <2>4, <2>5, <2>6 DEF IInv
<1>3. CASE AuthorizeAdmits
  <2>1. \/ CancelThen(req.id, "refused")
        \/ mem' = mem /\ (Go("refused") \/ Go("recheck"))
        \/ /\ req.purpose = "begin" /\ Owners(req.stage) = {}
           /\ SaveThen(Registering(req.id, req.stage), "recheck", "done")
    BY <1>3 DEF AuthorizeAdmits
  <2>2. CASE CancelThen(req.id, "refused")
    BY <1>0, <1>1, <2>2, JobCancels, JobStepKeeps
  <2>3. CASE mem' = mem /\ (Go("refused") \/ Go("recheck"))
    BY <1>0, <1>1, <2>3, JobGoes, SameWeaker, JobStepKeeps
  <2> QED BY <1>0, <1>2, <2>1, <2>2, <2>3
<1>4. CASE Record
  <2>1. /\ req.stage \in Stages
        /\ \/ Finish /\ mem' = mem
           \/ CancelThen(req.id, "done")
           \/ Owners(req.stage) = {} /\ SaveThen(Registering(req.id, req.stage), "done", "done")
    BY <1>0, <1>4 DEF Record, At
  <2>2. CASE Finish /\ mem' = mem
    BY <1>0, <2>2, JobEnds, SameWeaker, JobStepKeeps
  <2>3. CASE CancelThen(req.id, "done")
    BY <1>0, <1>1, <2>3, JobCancels, JobStepKeeps
  <2> QED BY <1>2, <2>1, <2>2, <2>3
<1> QED BY <1>3, <1>4

\* A click becomes the only holder of its tab, for the tab was free when the job
\* looked and nothing took it while the settings were read.
LEMMA StartAdmitsKeeps == ASSUME IInv, StartAdmits PROVE IInv'
<1> DEFINE i == next.intent
           intent == [there |-> TRUE, tab |-> req.tab, route |-> req.route,
                      settings |-> job.settings, mode |-> req.mode, ui |-> req.ui]
           room == Without(mem, Oldest(Reclaimable(mem), SlotsNeeded))
           state == [room EXCEPT !.intents[i] = intent]
<1>1. /\ TypeOK /\ StepsFit /\ job \in Job /\ mem \in State
      /\ job.at = "admit" /\ req.kind = "start" /\ UNCHANGED <<Outside, history>>
  BY DEF IInv, TypeOK, StartAdmits, At
<1>2. SaveThen(state, "done", "done") /\ next' = [next EXCEPT !.intent = @ + 1]
  BY DEF StartAdmits
<1>3. LiveOn(mem, req.tab) = {} /\ IntentsOn(mem, req.tab) = {} /\ req.tab \notin reserved
  BY <1>1 DEF IInv, CheckHolds, Checked, TabIsFree
<1>4. next \in [intent: 1 .. MaxIntents + 1, op: 1 .. MaxOps + 1, surface: 1 .. MaxSurfaces + 1]
      /\ i \in 1 .. MaxIntents
  <2>1. next \in [intent: 1 .. MaxIntents + 1, op: 1 .. MaxOps + 1, surface: 1 .. MaxSurfaces + 1]
    BY <1>1 DEF TypeOK
  <2>2. next.intent <= MaxIntents
    BY <1>1 DEF IInv, CheckHolds, Checked
  <2> QED BY <2>1, <2>2, ParametersAreSane
<1>5. i \in IntentIds
  BY <1>4 DEF IntentIds
<1>6. intent \in Intent /\ intent.there /\ intent.tab = req.tab
  BY <1>1, RequestsAreTyped DEF Request, Message, Intent, Job
<1> HIDE DEF i, intent
<1>7. Weaker(mem, room)
  BY <1>1, WithoutWeaker
<1> HIDE DEF room
<1>8. /\ state \in State /\ state.ops = room.ops
      /\ \A x \in IntentIds : state.intents[x] = IF x = i THEN intent ELSE room.intents[x]
  BY <1>5, <1>6, <1>7 DEF Weaker, GrantsKept, State
<1> HIDE DEF state
<1>9. job' \in Job /\ StepsFit' /\ CheckHolds' /\ mem' = state
  <2>1. {"done"} \subseteq Steps /\ "done" \notin {"settings", "admit", "save"} \cup WindowSteps
    BY DEF Steps, WindowSteps
  <2> QED BY <1>1, <1>2, <2>1, JobSaves
<1>10. TypeOK'
  <2>1. next' \in [intent: 1 .. MaxIntents + 1, op: 1 .. MaxOps + 1,
                   surface: 1 .. MaxSurfaces + 1]
    <3>1. i + 1 \in 1 .. MaxIntents + 1
      BY <1>4, ParametersAreSane
    <3> QED BY <1>2, <1>4, <3>1 DEF i
  <2> QED BY <1>1, <1>8, <1>9, <2>1 DEF TypeOK, Outside, browser, volatile, history
<1>11. Grants'
  <2>1. ASSUME NEW t \in Tabs PROVE LiveOn(mem', t) \subseteq LiveOn(mem, t)
    BY <1>7, <1>8, <1>9 DEF LiveOn, Weaker, GrantsKept, LiveKept
  <2>2. ASSUME NEW t \in Tabs, t # req.tab PROVE IntentsOn(mem', t) \subseteq IntentsOn(mem, t)
    BY <1>6, <1>7, <1>8, <1>9, <2>2
    DEF IntentsOn, Intents, Weaker, GrantsKept, IntentsKept
  <2>3. ASSUME NEW t \in Tabs, t # req.tab PROVE Holders(mem', t) \subseteq Holders(mem, t)
    BY <2>1, <2>2, <2>3 DEF Holders
  <2>4. IntentsOn(mem', req.tab) \subseteq {i}
    BY <1>3, <1>7, <1>8, <1>9 DEF IntentsOn, Intents, Weaker, GrantsKept, IntentsKept
  <2>5. Holders(mem', req.tab) \subseteq {<<"intent", i>>}
    BY <1>1, <1>3, <2>1, <2>4, RequestsAreTyped DEF Holders
  <2>6. OneHolder(mem)'
    BY <2>3, <2>5 DEF OneHolder, IInv, Grants
  <2>7. OneHolder(disk)' /\ PreviewIsExclusive'
    BY ZenonT(40), <1>1, <1>3, <2>3
    DEF OneHolder, PreviewIsExclusive, IInv, Grants, Outside, volatile, TypeOK
  <2> QED BY <2>6, <2>7 DEF Grants
<1>12. Owned'
  BY <1>1, <1>7, <1>8, <1>9, OwnedPreserved DEF IInv, Outside, Weaker, StagesKept
<1>13. RunningFit'
  BY <1>1 DEF IInv, RunningFit, Outside, volatile
<1> QED BY <1>9, <1>10, <1>11, <1>12, <1>13 DEF IInv

\* An operation takes over the tab of the intent that it replaces.
LEMMA ClaimAdmitsKeeps == ASSUME IInv, ClaimAdmits PROVE IInv'
<1> DEFINE i == req.id
           o == next.op
           intent == mem.intents[i]
           operation == [phase |-> IF intent.mode = "current" THEN "exporting" ELSE "preparing",
                         tab |-> intent.tab, route |-> intent.route,
                         settings |-> intent.settings, mode |-> intent.mode, doc |-> req.doc,
                         branch |-> "none", outcome |-> "none", stages |-> {}]
           dropped == DropIntents(mem, {i})
           claimed == [dropped EXCEPT !.ops[o] = operation]
           state == IF intent.ui = 0 THEN claimed ELSE [claimed EXCEPT !.surfaces[intent.ui].op = o]
<1>1. /\ TypeOK /\ StepsFit /\ job \in Job /\ mem \in State
      /\ job.at = "admit" /\ req.kind = "claim" /\ i \in IntentIds
      /\ UNCHANGED <<browser, disk, volatile, spent, scenario, fate>>
  BY RequestsAreTyped DEF IInv, TypeOK, ClaimAdmits, At
<1>2. CASE Finish /\ UNCHANGED <<mem, elapsed, next, revoked>>
  BY <1>1, <1>2, JobEnds, SameWeaker, JobStepKeeps DEF Outside, history
<1>3. CASE /\ SaveThen(state, "done", "done")
           /\ elapsed' = elapsed \ {<<"surface", intent.ui>>}
           /\ next' = [next EXCEPT !.op = @ + 1]
           /\ revoked' = revoked \cup
                 (IF <<"intent", i>> \in revoked THEN {<<"operation", o>>} ELSE {})
  <2>1. intent.there /\ intent.tab = req.tab /\ LiveOn(mem, req.tab) = {} /\ next.op <= MaxOps
    BY <1>1 DEF IInv, CheckHolds, Checked
  <2>2. next \in [intent: 1 .. MaxIntents + 1, op: 1 .. MaxOps + 1, surface: 1 .. MaxSurfaces + 1]
        /\ o \in 1 .. MaxOps
    <3>1. next \in [intent: 1 .. MaxIntents + 1, op: 1 .. MaxOps + 1,
                    surface: 1 .. MaxSurfaces + 1]
      BY <1>1 DEF TypeOK
    <3> QED BY <2>1, <3>1, ParametersAreSane
  <2>3. o \in OpIds
    BY <2>2 DEF OpIds
  <2>4. intent \in Intent
    BY <1>1 DEF State
  <2>5. operation \in Operation /\ operation.tab = intent.tab /\ operation.stages = {}
    BY <1>1, <2>4, RequestsAreTyped DEF Intent, Operation, Phases, Request, Message
  <2> HIDE DEF operation
  <2>6. Weaker(mem, dropped) /\ dropped.intents = [x \in IntentIds |-> IF x = i THEN NoIntent
                                                                     ELSE mem.intents[x]]
        /\ dropped.ops = mem.ops
    BY <1>1, DropIntentsWeaker DEF DropIntents, State
  <2> HIDE DEF dropped
  <2>7. /\ claimed \in State /\ claimed.intents = dropped.intents
        /\ \A x \in OpIds : claimed.ops[x] = IF x = o THEN operation ELSE mem.ops[x]
    BY <2>3, <2>5, <2>6, OperationChanged DEF Weaker, GrantsKept
  <2> HIDE DEF claimed
  <2> HIDE DEF state
  <2>8. state \in State /\ state.intents = claimed.intents /\ state.ops = claimed.ops
    <3>1. o \in 0 .. MaxOps
      BY <2>2, ParametersAreSane
    <3>2. CASE intent.ui = 0
      BY <2>7, <3>2 DEF state
    <3>3. CASE intent.ui # 0
      <4>1. PICK surfaces \in [SurfaceIds -> Surface] :
               surfaces = [claimed.surfaces EXCEPT ![intent.ui].op = o]
        BY <2>7, <3>1 DEF State, Surface
      <4>2. state = [claimed EXCEPT !.surfaces = surfaces]
        BY <2>7, <3>3, <4>1 DEF state, State
      <4> QED BY <2>7, <4>1, <4>2 DEF State
    <3> QED BY <3>2, <3>3
  <2>9. job' \in Job /\ StepsFit' /\ CheckHolds' /\ mem' = state
    <3>1. {"done"} \subseteq Steps /\ "done" \notin {"settings", "admit", "save"} \cup WindowSteps
      BY DEF Steps, WindowSteps
    <3> QED BY <1>1, <1>3, <3>1, JobSaves
  <2>10. TypeOK'
    <3>1. next' \in [intent: 1 .. MaxIntents + 1, op: 1 .. MaxOps + 1,
                     surface: 1 .. MaxSurfaces + 1]
      <4>1. o + 1 \in 1 .. MaxOps + 1
        BY <2>2, ParametersAreSane
      <4> QED BY <1>3, <2>2, <4>1
    <3>2. revoked' \subseteq Token /\ elapsed' \subseteq Token
      BY <1>1, <1>3, <2>3 DEF TypeOK, Token
    <3> QED
      BY <1>1, <2>8, <2>9, <3>1, <3>2 DEF TypeOK, browser, volatile
  <2>11. Grants'
    <3>1. i \in IntentsOn(mem, req.tab) /\ IntentsOn(mem, req.tab) \subseteq {i}
      <4>1. i \in IntentsOn(mem, req.tab)
        BY <1>1, <2>1 DEF IntentsOn, Intents
      <4>2. ASSUME NEW x \in IntentsOn(mem, req.tab) PROVE x = i
        <5>1. <<"intent", x>> \in Holders(mem, req.tab) /\ <<"intent", i>> \in Holders(mem, req.tab)
          BY <4>1 DEF Holders
        <5>2. <<"intent", x>> = <<"intent", i>>
          BY <1>1, <5>1, RequestsAreTyped DEF IInv, Grants, OneHolder
        <5> QED BY <5>2
      <4> QED BY <4>1, <4>2
    <3>2. \A x \in IntentIds : state.intents[x].there => x # i /\ state.intents[x] = mem.intents[x]
      BY <2>6, <2>7, <2>8 DEF NoIntent
    <3>3. \A x \in OpIds : state.ops[x] = IF x = o THEN operation ELSE mem.ops[x]
      BY <2>7, <2>8
    <3>4. ASSUME NEW t \in Tabs, t # req.tab PROVE Holders(mem', t) \subseteq Holders(mem, t)
      <4>1. IntentsOn(mem', t) \subseteq IntentsOn(mem, t)
        BY <2>9, <3>2 DEF IntentsOn, Intents
      <4>2. LiveOn(mem', t) \subseteq LiveOn(mem, t)
        BY <2>1, <2>5, <2>9, <3>3, <3>4 DEF LiveOn
      <4> QED BY <4>1, <4>2 DEF Holders
    <3>5. Holders(mem', req.tab) \subseteq {<<"operation", o>>}
      <4>1. IntentsOn(mem', req.tab) = {}
        BY <2>9, <3>1, <3>2 DEF IntentsOn, Intents
      <4>2. LiveOn(mem', req.tab) \subseteq {o}
        BY <2>1, <2>9, <3>3 DEF LiveOn
      <4> QED BY <4>1, <4>2 DEF Holders
    <3>6. OneHolder(mem)'
      BY <3>4, <3>5 DEF OneHolder, IInv, Grants
    <3>7. req.tab \notin reserved
      <4>1. <<"intent", i>> \in Holders(mem, req.tab)
        BY <3>1 DEF Holders
      <4> QED BY <4>1 DEF IInv, Grants, PreviewIsExclusive
    <3>8. OneHolder(disk)' /\ PreviewIsExclusive'
      BY <1>1, <3>4, <3>7 DEF OneHolder, PreviewIsExclusive, IInv, Grants, volatile, TypeOK
    <3> QED BY <3>6, <3>8 DEF Grants
  <2>12. Owned'
    <3>1. StagesKept(mem, mem')
      BY <2>5, <2>7, <2>8, <2>9 DEF StagesKept
    <3> QED BY <1>1, <3>1, OwnedPreserved DEF IInv
  <2>13. RunningFit'
    BY <1>1 DEF IInv, RunningFit, volatile
  <2> QED BY <2>9, <2>10, <2>11, <2>12, <2>13 DEF IInv
<1> QED
  BY <1>2, <1>3 DEF ClaimAdmits

-----------------------------------------------------------------------------
(* The remaining steps of a job: verdicts, and what is done on them.       *)

\* The answers the job waits for arrive; the previews keep away from exports.
LEMMA AnswersKeep ==
    ASSUME IInv, SettingsArrive \/ Rechecks \/ Reserve \/ Release
    PROVE  IInv'
<1> USE RequestsAreTyped
<1>0. TypeOK /\ StepsFit /\ job \in Job /\ mem \in State /\ mem' = mem
  BY DEF IInv, TypeOK, SettingsArrive, Rechecks, Reserve, Release
<1>1. CASE SettingsArrive
  <2>1. /\ job.at = "settings" /\ job' = [job EXCEPT !.at = "admit", !.settings = settings]
        /\ UNCHANGED <<Outside, mem, next, history>>
    BY <1>1 DEF SettingsArrive
  <2>2. job' \in Job
    BY <1>0, <2>1 DEF Job, Steps, TypeOK
  <2>3. /\ job'.at = "admit" /\ job'.onSaved = job.onSaved /\ job'.onFailed = job.onFailed
        /\ job'.req = job.req
    BY <1>0, <2>1 DEF Job
  <2>4. StepsFit'
    BY <1>0, <2>3 DEF StepsFit, WindowSteps, req
  <2>5. CheckHolds'
    <3>1. Checked
      BY <2>1 DEF IInv, CheckHolds
    <3>2. req' = req /\ UNCHANGED <<mem, next, reserved>>
      BY <2>1, <2>3 DEF req, Outside, volatile
    <3> QED BY <3>1, <3>2 DEF CheckHolds, Checked, TabIsFree, SlotsNeeded, theOp
  <2> QED BY <1>0, <2>1, <2>2, <2>4, <2>5, SameWeaker, JobStepKeeps
<1>2. CASE Rechecks
  <2> DEFINE answer == Current(theOp.tab, theOp.route)
  <2>1. /\ job.at = "recheck" /\ job' = [job EXCEPT !.at = "final", !.current = answer]
        /\ UNCHANGED <<Outside, mem, next, history>>
    BY <1>2 DEF Rechecks
  <2>2. answer \in BOOLEAN
    BY DEF Current
  <2> HIDE DEF answer
  <2>3. job' \in Job
    BY <1>0, <2>1, <2>2 DEF Job, Steps
  <2>4. /\ job'.at = "final" /\ job'.onSaved = job.onSaved /\ job'.onFailed = job.onFailed
        /\ job'.req = job.req
    BY <1>0, <2>1 DEF Job
  <2>5. StepsFit' /\ CheckHolds'
    BY <1>0, <2>4 DEF StepsFit, CheckHolds, WindowSteps, req
  <2> QED BY <1>0, <2>1, <2>3, <2>5, SameWeaker, JobStepKeeps
<1>3. CASE Reserve \/ Release
  <2>1. /\ Finish
        /\ UNCHANGED <<browser, disk, mem, queue, epoch, revision, running, elapsed, next,
                       history, spent>>
    BY <1>3 DEF Reserve, Release
  <2>2. job' \in Job /\ StepsFit' /\ CheckHolds'
    BY <2>1, JobEnds
  <2>3. \A t \in reserved' : t \in reserved \/ (t = req.tab /\ Holders(mem, t) = {})
    BY <1>3 DEF Reserve, Release, Holders
  <2>4. TypeOK'
    BY <1>0, <2>1, <2>2, <2>3 DEF TypeOK, browser, history
  <2>5. Grants'
    BY <2>1, <2>3 DEF IInv, Grants, OneHolder, PreviewIsExclusive
  <2>6. RunningFit' /\ Owned'
    BY <2>1 DEF IInv, RunningFit, Owned, OneOwner
  <2> QED BY <2>2, <2>4, <2>5, <2>6 DEF IInv
<1> QED BY <1>1, <1>2, <1>3

\* The fate of a stage stays one of the fates.
LEMMA ConsumeTyped ==
    ASSUME fate \in [Stages -> Fates], NEW s \in Stages,
           NEW how \in {"aborted-by-document", "handed-to-commit", "aborted-by-worker"}
    PROVE  Consume(s, how) \in [Stages -> Fates]
  BY DEF Consume, Fates

\* A message passed on within the worker is a request.
LEMMA ForwardTyped ==
    ASSUME TypeOK, NEW kind \in {"commit", "take"}, req.kind = "authorize",
           req.purpose = "commit", Forward(kind)
    PROVE  queue' \in Seq(Request)
<1>1. [req EXCEPT !.kind = kind, !.epoch = epoch[req.tab], !.revision = revision] \in Request
  <2>1. /\ req \in Message /\ req.route # Loading /\ req.stage \in Stages /\ req.id \in OpIds
        /\ epoch[req.tab] \in Nat /\ revision \in Nat
    BY RequestsAreTyped DEF TypeOK, Request, Message, ByOperation
  <2>2. kind \in Kinds
    BY DEF Kinds
  <2> HIDE DEF req
  <2> QED BY <2>1, <2>2 DEF Request, Message, ByOperation
<1> QED BY <1>1 DEF Forward, TypeOK

\* A verdict starts a handler, forwards a commit, or settles the fate of a stage;
\* the controller's state stays as it is.
LEMMA VerdictsKeep ==
    ASSUME IInv,
           AuthorizeGrants \/ AuthorizeRefuses \/ CommitDispatches \/ WorkerCleansUp
    PROVE  IInv'
<1> USE RequestsAreTyped
<1>0. /\ TypeOK /\ job \in Job /\ mem \in State /\ fate \in [Stages -> Fates]
      /\ running \subseteq Request /\ queue \in Seq(Request)
  BY DEF IInv, TypeOK
<1>1. /\ Finish
      /\ UNCHANGED <<browser, disk, mem, epoch, revision, reserved, elapsed, next, revoked, spent>>
  BY DEF AuthorizeGrants, AuthorizeRefuses, CommitDispatches, WorkerCleansUp, Outside, volatile,
         history
<1>2. job' \in Job /\ StepsFit' /\ CheckHolds'
  BY <1>1, JobEnds
<1>3. /\ queue' \in Seq(Request) /\ running' \subseteq Request /\ fate' \in [Stages -> Fates]
      /\ RunningFit'
  <2>1. CASE AuthorizeGrants
    <3>1. req.kind = "authorize" /\ req \in Request /\ req.route # Loading /\ req.id \in OpIds
      BY <1>0, <2>1 DEF AuthorizeGrants, At, Request, ByOperation
    <3>2. CASE UNCHANGED <<queue, running, fate>>
      BY <1>0, <3>2 DEF IInv, RunningFit
    <3>3. CASE /\ req.purpose \in {"begin", "abort"}
               /\ running' = running \cup {req}
               /\ fate' = IF req.purpose = "begin" THEN [fate EXCEPT ![req.stage] = "begun"]
                          ELSE Consume(req.stage, "aborted-by-document")
               /\ UNCHANGED queue
      <4>1. req.stage \in Stages
        BY <1>0, <3>3
      <4>2. fate' \in [Stages -> Fates]
        BY <1>0, <3>3, <4>1, ConsumeTyped DEF Fates
      <4> QED BY <1>0, <3>1, <3>3, <4>1, <4>2 DEF IInv, RunningFit
    <3>4. CASE /\ req.purpose = "open"
               /\ \E s \in Stages :
                     /\ Fresh(s)
                     /\ running' = running \cup {[req EXCEPT !.stage = s]}
                     /\ fate' = [fate EXCEPT ![s] = "begun"]
               /\ UNCHANGED queue
      <4>1. PICK s \in Stages :
               /\ running' = running \cup {[req EXCEPT !.stage = s]}
               /\ fate' = [fate EXCEPT ![s] = "begun"]
        BY <3>4
      <4>2. [req EXCEPT !.stage = s] \in Request
            /\ [req EXCEPT !.stage = s].kind = "authorize" /\ [req EXCEPT !.stage = s].stage \in Stages
        BY <3>1 DEF Request, Message, ByOperation
      <4>3. fate' \in [Stages -> Fates]
        BY <1>0, <4>1 DEF Fates
      <4> QED BY <1>0, <3>4, <4>1, <4>2, <4>3 DEF IInv, RunningFit
    <3>5. CASE req.purpose = "commit" /\ Forward("commit") /\ UNCHANGED <<running, fate>>
      BY <1>0, <3>1, <3>5, ForwardTyped DEF IInv, RunningFit
    <3> QED BY <2>1, <3>2, <3>3, <3>4, <3>5 DEF AuthorizeGrants
  <2>2. CASE AuthorizeRefuses
    BY <1>0, <2>2, ForwardTyped DEF AuthorizeRefuses, At, IInv, RunningFit, history
  <2>3. CASE CommitDispatches \/ WorkerCleansUp
    <3>1. req.stage \in Stages /\ UNCHANGED <<queue, running>>
      BY <1>0, <2>3 DEF CommitDispatches, WorkerCleansUp, At, Outside, volatile
    <3>2. fate' = Consume(req.stage, "handed-to-commit")
          \/ fate' = Consume(req.stage, "aborted-by-worker")
      BY <2>3 DEF CommitDispatches, WorkerCleansUp
    <3> QED BY <1>0, <3>1, <3>2, ConsumeTyped DEF IInv, RunningFit
  <2> QED BY <2>1, <2>2, <2>3
<1>4. TypeOK'
  BY <1>0, <1>1, <1>2, <1>3 DEF TypeOK, browser
<1>5. Grants' /\ Owned'
  BY <1>1 DEF IInv, Grants, Owned, OneHolder, OneOwner, PreviewIsExclusive
<1> QED BY <1>2, <1>3, <1>4, <1>5 DEF IInv

\* Every step of a job keeps IInv.
LEMMA JobStepsKeep == ASSUME IInv, JobSteps PROVE IInv'
<1>1. CASE StartChecks \/ ClaimChecks \/ OfferChecks \/ ChooseChecks \/ CommitChecks
  BY <1>1, ChecksKeep
<1>2. CASE AuthorizeChecks
  BY <1>2, AuthorizeChecksKeeps
<1>3. CASE \/ Unstart \/ GiveUp \/ Stop \/ AuthorizeJudges \/ CommitAdmits \/ CommitJudges
           \/ CommitRejudges \/ TakeChecks \/ Released \/ Sweep
  BY <1>3, EndingsKeep
<1>4. CASE OpenChecks \/ Compact \/ WindowCreated \/ WindowRefused \/ ChooseApplies
  BY <1>4, WindowStepsKeep
<1>5. CASE OfferAdmits \/ ChooseValidates \/ Complete
  BY <1>5, ChoicesKeep
<1>6. CASE AuthorizeAdmits \/ Record
  BY <1>6, RegistrationsKeep
<1>7. CASE StartAdmits
  BY <1>7, StartAdmitsKeeps
<1>8. CASE ClaimAdmits
  BY <1>8, ClaimAdmitsKeeps
<1>9. CASE Rechecks \/ Reserve \/ Release
  BY <1>9, AnswersKeep
<1>10. CASE AuthorizeGrants \/ AuthorizeRefuses \/ CommitDispatches \/ WorkerCleansUp
  BY <1>10, VerdictsKeep
<1> QED
  BY <1>1, <1>2, <1>3, <1>4, <1>5, <1>6, <1>7, <1>8, <1>9, <1>10 DEF JobSteps

-----------------------------------------------------------------------------
(* The lock, the storage and the loss of the worker.                       *)

\* Pruning and repair on the way to the lock give nothing.
LEMMA AcquireKeeps == ASSUME IInv, Acquire PROVE IInv'
<1> DEFINE pruned == Pruned(mem)
           taken == [NoJob EXCEPT !.req = Head(queue)]
<1>1. TypeOK /\ mem \in State /\ queue \in Seq(Request) /\ queue # <<>>
  BY DEF IInv, TypeOK, Acquire
<1>2. Head(queue) \in Request /\ queue' \in Seq(Request)
  BY <1>1 DEF Acquire
<1>3. NoJob \in Job
  <2>1. Ask("settings") \in Request /\ AnySettings \in Settings
    BY ParametersAreSane
    DEF Ask, Request, Message, Kinds, Purposes, ByOperation, AnyTab, AnyRoute, AnySettings
  <2> QED BY <2>1 DEF NoJob, Job, Steps
<1>4. /\ taken \in Job /\ taken.onSaved = "done" /\ taken.onFailed = "done"
  BY <1>2, <1>3 DEF NoJob, Job
<1>5. /\ \/ /\ mem' = Recovered(pruned)
            /\ job' = [taken EXCEPT !.at = "save", !.onSaved = "enter"]
         \/ /\ mem' = pruned
            /\ job' = [taken EXCEPT !.at = "enter"]
      /\ UNCHANGED <<browser, disk, epoch, revision, reserved, running, elapsed, next, history,
                     spent>>
  BY DEF Acquire
<1> HIDE DEF taken
<1>6. Weaker(mem, mem')
  <2>1. Weaker(mem, pruned)
    BY <1>1, PrunedWeaker
  <2>2. Weaker(pruned, Recovered(pruned))
    BY <2>1, RecoveredWeaker DEF Weaker, GrantsKept
  <2> QED BY <1>5, <2>1, <2>2, WeakerTransitive
<1>7. /\ job' \in Job /\ job'.at \in {"save", "enter"}
      /\ job'.onSaved \in {"done", "enter"} /\ job'.onFailed = "done"
  BY <1>4, <1>5 DEF Job, Steps
<1>8. StepsFit' /\ CheckHolds'
  BY <1>7 DEF StepsFit, CheckHolds, WindowSteps
<1>9. TypeOK'
  BY <1>1, <1>2, <1>5, <1>6, <1>7 DEF TypeOK, browser, history, Weaker, GrantsKept
<1>10. Grants' /\ Owned'
  BY <1>1, <1>5, <1>6, GrantsPreserved, OwnedPreserved DEF IInv, Weaker, TypeOK
<1>11. RunningFit'
  BY <1>5 DEF IInv, RunningFit
<1> QED BY <1>7, <1>8, <1>9, <1>10, <1>11 DEF IInv

\* What is stored is what was kept in memory.
LEMMA SavedKeeps == ASSUME IInv, Saved PROVE IInv'
<1>1. /\ TypeOK /\ job \in Job /\ StepsFit /\ mem \in State
      /\ job.at = "save" /\ disk' = mem /\ Go(job.onSaved)
      /\ UNCHANGED <<browser, mem, volatile, elapsed, next, history, spent>>
  BY DEF IInv, TypeOK, Saved
<1>2. job' \in Job /\ StepsFit' /\ CheckHolds'
  <2>1. job.onSaved \in Steps /\ job.onSaved \notin {"settings", "admit"}
        /\ (job.onSaved \in WindowSteps => req.kind \in {"popup", "offer", "choose"})
    BY <1>1 DEF StepsFit, Job
  <2> QED BY <1>1, <2>1, JobGoes
<1>3. TypeOK'
  BY <1>1, <1>2 DEF TypeOK, browser, volatile, history
<1>4. Grants' /\ Owned' /\ RunningFit'
  BY <1>1 DEF IInv, Grants, OneHolder, PreviewIsExclusive, Owned, OneOwner, RunningFit, volatile
<1> QED BY <1>2, <1>3, <1>4 DEF IInv

\* The empty state has neither holders nor owners.
LEMMA EmptyStateFits ==
    /\ EmptyState \in State
    /\ \A t \in Tabs : Holders(EmptyState, t) = {}
    /\ OneOwner(EmptyState)
<1>1. EmptyState \in State
  BY DefaultsTyped DEF EmptyState, State
<1>2. /\ \A i \in IntentIds : ~EmptyState.intents[i].there
      /\ \A o \in OpIds : ~Live(EmptyState.ops[o]) /\ EmptyState.ops[o].stages = {}
  BY DEF EmptyState, NoIntent, NoOperation, Live
<1>3. \A t \in Tabs : IntentsOn(EmptyState, t) = {} /\ LiveOn(EmptyState, t) = {}
  BY <1>2 DEF IntentsOn, Intents, LiveOn
<1>4. \A t \in Tabs : Holders(EmptyState, t) = {}
  BY <1>3 DEF Holders
<1> QED BY <1>1, <1>2, <1>4 DEF OneOwner

\* A refused write drops every grant in memory, and what is stored or nothing of it.
LEMMA SaveFailedKeeps == ASSUME IInv, SaveFailed PROVE IInv'
<1>1. /\ TypeOK /\ job \in Job /\ StepsFit
      /\ job.at = "save" /\ mem' = EmptyState /\ Go(job.onFailed)
      /\ disk' \in {disk, EmptyState}
      /\ UNCHANGED <<browser, volatile, elapsed, next, history>>
      /\ \E d \in Disturbances : spent' = [spent EXCEPT ![d] = @ + 1]
  BY DEF IInv, TypeOK, SaveFailed, AfterRefusedSave, Spend, Disturbances
<1>2. job' \in Job /\ StepsFit' /\ CheckHolds'
  <2>1. job.onFailed \in Steps /\ job.onFailed \notin {"settings", "admit"}
        /\ (job.onFailed \in WindowSteps => req.kind \in {"popup", "offer", "choose"})
    BY <1>1 DEF StepsFit, Job
  <2> QED BY <1>1, <2>1, JobGoes
<1>3. TypeOK'
  BY <1>1, <1>2, EmptyStateFits DEF TypeOK, browser, volatile, history
<1>4. PreviewIsExclusive'
  BY <1>1, EmptyStateFits DEF PreviewIsExclusive, volatile, TypeOK
<1>5. RunningFit'
  BY <1>1 DEF IInv, RunningFit, volatile
<1>6. OneHolder(mem)' /\ OneOwner(mem)'
  BY <1>1, EmptyStateFits DEF OneHolder, OneOwner
<1>7. OneHolder(disk)' /\ OneOwner(disk)'
  <2>1. CASE disk' = disk
    BY <2>1 DEF IInv, Grants, OneHolder, Owned, OneOwner
  <2>2. CASE disk' = EmptyState
    BY <2>2, EmptyStateFits DEF OneHolder, OneOwner
  <2> QED BY <1>1, <2>1, <2>2
<1> QED BY <1>2, <1>3, <1>4, <1>5, <1>6, <1>7 DEF IInv, Grants, Owned

\* A new worker starts from what was stored, without previews, handlers or jobs.
LEMMA RestartsKeeps == ASSUME IInv, Restarts PROVE IInv'
<1>1. /\ TypeOK /\ mem' \in {disk, EmptyState} /\ Finish
      /\ queue' = <<>> /\ running' = {} /\ reserved' = {}
      /\ epoch' = [t \in Tabs |-> 0] /\ revision' = 0
      /\ UNCHANGED <<browser, disk, elapsed, next, history>>
      /\ \E d \in Disturbances : spent' = [spent EXCEPT ![d] = @ + 1]
  BY DEF IInv, Restarts, Finish, Hydrate, Spend, Disturbances
<1>2. job' \in Job /\ StepsFit' /\ CheckHolds'
  BY <1>1, JobEnds
<1>3. TypeOK'
  BY <1>1, <1>2, EmptyStateFits DEF TypeOK, browser, history
<1>4. PreviewIsExclusive' /\ RunningFit'
  BY <1>1 DEF PreviewIsExclusive, RunningFit
<1>5. OneHolder(disk)' /\ OneOwner(disk)'
  BY <1>1 DEF IInv, Grants, OneHolder, Owned, OneOwner
<1>6. OneHolder(mem)' /\ OneOwner(mem)'
  <2>1. CASE mem' = disk
    BY <2>1 DEF IInv, Grants, OneHolder, Owned, OneOwner
  <2>2. CASE mem' = EmptyState
    BY <2>2, EmptyStateFits DEF OneHolder, OneOwner
  <2> QED BY <1>1, <2>1, <2>2
<1> QED BY <1>2, <1>3, <1>4, <1>5, <1>6 DEF IInv, Grants, Owned

-----------------------------------------------------------------------------
(* The environment.                                                        *)

\* A step that leaves the controller's state, its job and its previews alone
\* keeps IInv if what it changes stays well formed.
LEMMA OutsideStepKeeps ==
    ASSUME IInv, TypeOK', RunningFit', UNCHANGED <<disk, mem, job, reserved, next>>
    PROVE  IInv'
<1>1. StepsFit'
  BY DEF IInv, StepsFit, req
<1>2. CheckHolds'
  BY DEF IInv, CheckHolds, Checked, TabIsFree, SlotsNeeded, req, theOp
<1>3. Grants' /\ Owned'
  BY DEF IInv, Grants, Owned, OneHolder, OneOwner, PreviewIsExclusive
<1> QED BY <1>1, <1>2, <1>3 DEF IInv

\* A request that arrives only waits for the lock.
LEMMA SendKeeps == ASSUME IInv, NEW r \in Request, Send(r) PROVE IInv'
<1>1. /\ queue' = Append(queue, r)
      /\ UNCHANGED <<browser, disk, mem, job, epoch, revision, reserved, running, elapsed, next,
                     history, spent>>
  BY DEF Send
<1>2. TypeOK'
  BY <1>1 DEF IInv, TypeOK, browser, history
<1>3. RunningFit'
  BY <1>1 DEF IInv, RunningFit
<1> QED BY <1>1, <1>2, <1>3, OutsideStepKeeps

\* What users and documents send are requests.
LEMMA AskTyped == \A kind \in Kinds : Ask(kind) \in Message /\ Ask(kind).route # Loading
                                      /\ Ask(kind).kind = kind /\ Ask(kind).purpose = "none"
  BY ParametersAreSane DEF Ask, Message, Purposes, AnyTab, AnyRoute

\* ... from a document, with its route and its epochs.
LEMMA FromTyped ==
    ASSUME TypeOK, NEW t \in OpenTabs, NEW kind \in Kinds
    PROVE  /\ From(t, kind) \in Message /\ From(t, kind).route # Loading
           /\ From(t, kind).kind = kind /\ From(t, kind).purpose = "none"
<1>1. tabs[t].route \in Routes /\ tabs[t].doc \in Nat /\ t \in Tabs /\ epoch[t] \in Nat
      /\ revision \in Nat
  BY DEF TypeOK, OpenTabs
<1> DEFINE r == Ask(kind)
<1>2. r \in Message /\ r.kind = kind /\ r.purpose = "none"
  BY AskTyped
<1>3. From(t, kind) = [r EXCEPT !.tab = t, !.route = tabs[t].route, !.doc = tabs[t].doc,
                                !.epoch = epoch[t], !.revision = revision]
  BY DEF From
<1> HIDE DEF r
<1>4. From(t, kind) \in Message
  BY <1>1, <1>2, <1>3 DEF Message
<1>5. /\ From(t, kind).route = tabs[t].route /\ From(t, kind).kind = kind
      /\ From(t, kind).purpose = "none"
  BY <1>2, <1>3 DEF Message
<1>6. tabs[t].route # Loading
  BY <1>1, ParametersAreSane
<1> QED BY <1>4, <1>5, <1>6

\* What makes a message a request: it names a conversation, and what it is about.
About(kind, id) ==
    /\ kind \in ByOperation => id \in OpIds
    /\ kind \in {"claim", "unstart"} => id \in IntentIds

Sent(r) ==
    r \in Message /\ r.route # Loading /\ r.kind \notin {"commit", "take", "record", "released"}

LEMMA RequestAbout ==
    ASSUME NEW r, Sent(r), r.purpose = "none", NEW id \in Nat, About(r.kind, id)
    PROVE  [r EXCEPT !.id = id] \in Request
<1> DEFINE x == [r EXCEPT !.id = id]
<1>1. x \in Message
  BY DEF Sent, Message
<1>2. x.kind = r.kind /\ x.route = r.route /\ x.purpose = "none" /\ x.id = id
  BY DEF Sent, Message
<1> HIDE DEF x
<1>3. x \in Request
  BY <1>1, <1>2 DEF Sent, About, Request
<1> QED BY <1>3 DEF x

LEMMA RequestInWindow ==
    ASSUME NEW r, Sent(r), r.purpose = "none", NEW id \in Nat, About(r.kind, id),
           NEW ui \in 0 .. MaxSurfaces
    PROVE  [r EXCEPT !.id = id, !.ui = ui] \in Request
<1> DEFINE x == [r EXCEPT !.id = id, !.ui = ui]
<1>1. x \in Message
  BY DEF Sent, Message
<1>2. x.kind = r.kind /\ x.route = r.route /\ x.purpose = "none" /\ x.id = id
  BY DEF Sent, Message
<1> HIDE DEF x
<1>3. x \in Request
  BY <1>1, <1>2 DEF Sent, About, Request
<1> QED BY <1>3 DEF x

LEMMA RequestForStage ==
    ASSUME NEW r, Sent(r), NEW id \in Nat, About(r.kind, id), NEW p \in Purposes,
           NEW s \in Stages
    PROVE  [r EXCEPT !.id = id, !.purpose = p, !.stage = s] \in Request
<1> DEFINE x == [r EXCEPT !.id = id, !.purpose = p, !.stage = s]
<1>1. x \in Message
  BY DEF Sent, Message
<1>2. x.kind = r.kind /\ x.route = r.route /\ x.stage = s /\ x.id = id
  BY DEF Sent, Message
<1> HIDE DEF x
<1>3. x \in Request
  BY <1>1, <1>2 DEF Sent, About, Request
<1> QED BY <1>3 DEF x

LEMMA RequestForWork ==
    ASSUME NEW r, Sent(r), NEW id \in Nat, About(r.kind, id), NEW p \in {"prepare", "persist", "open"}
    PROVE  [r EXCEPT !.id = id, !.purpose = p] \in Request
<1> DEFINE x == [r EXCEPT !.id = id, !.purpose = p]
<1>0. p \in Purposes
  BY DEF Purposes
<1>1. x \in Message
  BY <1>0 DEF Sent, Message
<1>2. x.kind = r.kind /\ x.route = r.route /\ x.purpose = p /\ x.id = id
  BY DEF Sent, Message
<1> HIDE DEF x
<1>3. x \in Request
  BY <1>1, <1>2 DEF Sent, About, Request
<1> QED BY <1>3 DEF x

\* No request changes more than the queue.
LEMMA RequestsKeep == ASSUME IInv, Requests PROVE IInv'
<1>0. TypeOK
  BY DEF IInv
<1>1. \A i \in Intents(mem) : i \in IntentIds /\ i \in Nat
  BY DEF Intents, IntentIds
<1>2. \A o \in Operations(mem) : o \in OpIds /\ o \in Nat
  BY DEF Operations, OpIds
<1>3. \A u \in {0} \cup windows : u \in 0 .. MaxSurfaces
  BY <1>0, ParametersAreSane DEF SurfaceIds, TypeOK
<1>4. ASSUME NEW kind \in Kinds \ {"commit", "take", "record", "released"}
      PROVE  /\ Sent(Ask(kind)) /\ Ask(kind).kind = kind /\ Ask(kind).purpose = "none"
             /\ \A t \in OpenTabs : /\ Sent(From(t, kind)) /\ From(t, kind).kind = kind
                                    /\ From(t, kind).purpose = "none"
  BY <1>0, AskTyped, FromTyped DEF Sent
<1>5. {"start", "unstart", "claim", "offer", "complete", "popup", "choose", "stop", "reserve",
       "release", "authorize"} \subseteq Kinds \ {"commit", "take", "record", "released"}
  BY DEF Kinds
<1> USE DEF About
<1>6. CASE UserStarts
  <2>1. PICK t \in OpenTabs, m \in Modes, u \in {0} \cup windows :
          Send([Ask("start") EXCEPT !.tab = t, !.route = tabs[t].route, !.mode = m, !.ui = u])
    BY <1>6 DEF UserStarts
  <2> DEFINE r == Ask("start")
             x == [r EXCEPT !.tab = t, !.route = tabs[t].route, !.mode = m, !.ui = u]
  <2>2. tabs[t].route \in Routes /\ t \in Tabs
    BY <1>0 DEF TypeOK, OpenTabs
  <2>3. m \in {"current", "selected"} /\ tabs[t].route # Loading
    BY <2>2, ParametersAreSane
  <2>4. Sent(r) /\ r.kind = "start" /\ r.purpose = "none"
    BY <1>4, <1>5
  <2> HIDE DEF r
  <2>5. x \in Message
    BY <1>3, <2>2, <2>3, <2>4 DEF Sent, Message
  <2>6. x.kind = "start" /\ x.purpose = "none" /\ x.route = tabs[t].route
    BY <2>4 DEF Sent, Message
  <2> HIDE DEF x
  <2>7. x \in Request
    BY <2>3, <2>5, <2>6 DEF Request, ByOperation
  <2> QED BY <2>1, <2>7, SendKeeps DEF x, r
<1>7. CASE InvitationFails
  <2>1. PICK i \in Intents(mem) : Send([Ask("unstart") EXCEPT !.id = i])
    BY <1>7 DEF InvitationFails
  <2>2. [Ask("unstart") EXCEPT !.id = i] \in Request
    BY <1>1, <1>4, <1>5, RequestAbout DEF ByOperation
  <2> QED BY <2>1, <2>2, SendKeeps
<1>8. CASE DocumentClaims
  <2>1. PICK t \in OpenTabs, i \in Intents(mem) : Send([From(t, "claim") EXCEPT !.id = i])
    BY <1>8 DEF DocumentClaims
  <2>2. [From(t, "claim") EXCEPT !.id = i] \in Request
    BY <1>1, <1>4, <1>5, RequestAbout DEF ByOperation
  <2> QED BY <2>1, <2>2, SendKeeps
<1>9. CASE DocumentReports
  <2>1. PICK t \in OpenTabs, o \in Operations(mem), kind \in {"offer", "complete"} :
          Send([From(t, kind) EXCEPT !.id = o])
    BY <1>9 DEF DocumentReports
  <2>2. [From(t, kind) EXCEPT !.id = o] \in Request
    BY <1>2, <1>4, <1>5, RequestAbout
  <2> QED BY <2>1, <2>2, SendKeeps
<1>10. CASE DocumentOpensPopup
  <2>1. PICK t \in OpenTabs : Send(From(t, "popup"))
    BY <1>10 DEF DocumentOpensPopup
  <2>2. From(t, "popup") \in Request
    BY <1>4, <1>5 DEF Sent, Request, ByOperation
  <2> QED BY <2>1, <2>2, SendKeeps
<1>11. CASE UserDecides
  <2>1. PICK o \in Operations(mem), u \in {0} \cup windows, kind \in {"choose", "stop"} :
          Send([Ask(kind) EXCEPT !.id = o, !.ui = u])
    BY <1>11 DEF UserDecides
  <2>2. [Ask(kind) EXCEPT !.id = o, !.ui = u] \in Request
    BY ZenonT(40), <1>2, <1>3, <1>4, <1>5, RequestInWindow
  <2> QED BY <2>1, <2>2, SendKeeps
<1>12. CASE PreviewReserves
  <2>1. PICK t \in Tabs, kind \in {"reserve", "release"} : Send([Ask(kind) EXCEPT !.tab = t])
    BY <1>12 DEF PreviewReserves
  <2> DEFINE r == Ask(kind)
             x == [r EXCEPT !.tab = t]
  <2>2. Sent(r) /\ r.kind = kind /\ r.purpose = "none"
    BY <1>4, <1>5
  <2> HIDE DEF r
  <2>3. x \in Message /\ x.kind = kind /\ x.purpose = "none" /\ x.route = r.route
    BY <2>2 DEF Sent, Message
  <2> HIDE DEF x
  <2>4. x \in Request
    BY <2>2, <2>3 DEF Sent, Request, ByOperation
  <2> QED BY <2>1, <2>4, SendKeeps DEF x, r
<1>13. CASE DocumentWorks
  <2>1. PICK t \in OpenTabs, o \in Operations(mem), p \in {"prepare", "persist", "open"} :
          Send([From(t, "authorize") EXCEPT !.id = o, !.purpose = p])
    BY <1>13 DEF DocumentWorks
  <2>2. [From(t, "authorize") EXCEPT !.id = o, !.purpose = p] \in Request
    BY <1>2, <1>4, <1>5, RequestForWork
  <2> QED BY <2>1, <2>2, SendKeeps
<1>14. CASE DocumentStages
  <2>1. PICK t \in OpenTabs, o \in Operations(mem), s \in Stages,
             p \in {"begin", "use", "commit", "abort"} :
          Send([From(t, "authorize") EXCEPT !.id = o, !.purpose = p, !.stage = s])
    BY <1>14 DEF DocumentStages
  <2>2. p \in Purposes
    BY DEF Purposes
  <2>3. [From(t, "authorize") EXCEPT !.id = o, !.purpose = p, !.stage = s] \in Request
    BY <1>2, <1>4, <1>5, <2>2, RequestForStage
  <2> QED BY <2>1, <2>3, SendKeeps
<1> QED
  BY <1>6, <1>7, <1>8, <1>9, <1>10, <1>11, <1>12, <1>13, <1>14 DEF Requests

\* What the listeners do on a notification leaves everything but epochs and queue.
LEMMA RevokeTyped ==
    ASSUME TypeOK, NEW e \in Event, Revoke(e)
    PROVE  /\ epoch' \in [Tabs -> Nat] /\ revision' \in Nat /\ queue' \in Seq(Request)
           /\ revoked' \subseteq Token
<1>1. /\ epoch \in [Tabs -> Nat] /\ revision \in Nat /\ queue \in Seq(Request)
      /\ revoked \subseteq Token
  BY DEF TypeOK
<1>2. epoch' \in [Tabs -> Nat] /\ revision' \in Nat
  <2>1. epoch' \in {epoch, [epoch EXCEPT ![e.tab] = @ + 1]} /\ revision' \in {revision, revision + 1}
    BY DEF Revoke
  <2>2. [epoch EXCEPT ![e.tab] = @ + 1] \in [Tabs -> Nat]
    <3>1. e.tab \in Tabs
      BY DEF Event, Notification
    <3>2. epoch[e.tab] + 1 \in Nat
      BY <1>1, <3>1
    <3> QED BY <1>1, <3>1, <3>2
  <2> QED BY <1>1, <2>1, <2>2
<1>3. Ended(e) \subseteq Token
  BY DEF Ended, Token, Intents
<1> DEFINE r == Ask(e.kind)
           x == [r EXCEPT !.tab = e.tab, !.route = e.route, !.ui = e.ui]
<1>4. r \in Message /\ r.kind = e.kind /\ r.purpose = "none"
  BY ZenonT(40), AskTyped DEF Event, Notification, Kinds
<1> HIDE DEF r
<1>5. x \in Message /\ x.kind = e.kind /\ x.purpose = "none" /\ x.route = e.route
  BY <1>4 DEF Event, Notification, Message
<1>6. x.route = Loading => x.kind = "changed"
  BY <1>5 DEF Event
<1> HIDE DEF x
<1>7. x \in Request
  BY <1>5, <1>6 DEF Request, Event, Notification, ByOperation
<1> QED BY <1>1, <1>2, <1>3, <1>7 DEF Revoke, x, r

\* A notification is one the listeners know.
LEMMA NoticeTyped ==
    ASSUME NEW kind \in {"removed", "changed", "window-closed", "settings"}, NEW t \in Tabs,
           NEW r \in Routes \cup {Loading}, r = Loading => kind = "changed",
           NEW u \in 0 .. MaxSurfaces
    PROVE  Notice(kind, t, r, u) \in Event
  BY DEF Notice, Event, Notification

\* The first of everything.
LEMMA DefaultsInRange ==
    AnyTab \in Tabs /\ AnyRoute \in Routes /\ AnySettings \in Settings /\ AnyRoute # Loading
    /\ 0 \in 0 .. MaxSurfaces
  BY ParametersAreSane DEF AnyTab, AnyRoute, AnySettings

\* What happens in the browser changes the browser and announces it.
LEMMA DisturbKeeps ==
    ASSUME IInv, NEW what \in Disturbances, NEW e \in Event, Disturb(what, e),
           tabs' \in [Tabs -> [route: Routes \cup {Closed}, loading: BOOLEAN, doc: Nat]],
           windows' \subseteq windows, settings' \in Settings
    PROVE  IInv'
<1>1. /\ events' = Append(events, e) /\ spent' = [spent EXCEPT ![what] = @ + 1]
      /\ UNCHANGED <<disk, mem, job, volatile, elapsed, next, history>>
  BY DEF Disturb, Spend
<1>2. TypeOK'
  BY <1>1 DEF IInv, TypeOK, volatile, history
<1>3. RunningFit'
  BY <1>1 DEF IInv, RunningFit, volatile
<1> QED BY <1>1, <1>2, <1>3, OutsideStepKeeps DEF volatile

\* What happens to tabs, windows and settings keeps IInv.
LEMMA BrowserKeeps ==
    ASSUME IInv,
           \/ Navigates \/ Reloads \/ Settles \/ TabCloses \/ WindowCloses \/ SettingsWritten
    PROVE  IInv'
<1> DEFINE Tab == [route: Routes \cup {Closed}, loading: BOOLEAN, doc: Nat]
<1>0. TypeOK /\ tabs \in [Tabs -> Tab] /\ settings \in Settings
  BY DEF IInv, TypeOK
<1>1. {"browser", "settings"} \subseteq Disturbances
  BY DEF Disturbances
<1>2. \A r \in Routes : r # Loading
  BY ParametersAreSane
<1> USE DefaultsInRange
<1>3. CASE Navigates
  <2>1. PICK t \in OpenTabs, r \in Routes :
          /\ tabs' = [tabs EXCEPT ![t].route = r]
          /\ Disturb("browser", Notice("changed", t, r, 0))
          /\ UNCHANGED <<windows, settings>>
    BY <1>3 DEF Navigates
  <2>2. t \in Tabs /\ tabs' \in [Tabs -> Tab]
    BY <1>0, <2>1 DEF OpenTabs
  <2>3. Notice("changed", t, r, 0) \in Event
    BY <2>1, <2>2, NoticeTyped
  <2> QED BY <1>0, <1>1, <2>1, <2>2, <2>3, DisturbKeeps
<1>4. CASE Reloads
  <2>1. PICK t \in OpenTabs, r \in Routes :
          /\ tabs' = [tabs EXCEPT ![t] = [route |-> r, loading |-> TRUE, doc |-> @.doc + 1]]
          /\ Disturb("browser", Notice("changed", t, Loading, 0))
          /\ UNCHANGED <<windows, settings>>
    BY <1>4 DEF Reloads
  <2>2. t \in Tabs /\ tabs' \in [Tabs -> Tab]
    BY <1>0, <2>1 DEF OpenTabs
  <2>3. Notice("changed", t, Loading, 0) \in Event
    BY <2>2, NoticeTyped
  <2> QED BY <1>0, <1>1, <2>1, <2>2, <2>3, DisturbKeeps
<1>5. CASE Settles
  <2>1. PICK t \in Tabs : tabs' = [tabs EXCEPT ![t].loading = FALSE]
    BY <1>5 DEF Settles
  <2>2. UNCHANGED <<windows, settings, events, disk, mem, job, volatile, elapsed, next, history,
                    spent>>
    BY <1>5 DEF Settles
  <2>3. tabs' \in [Tabs -> Tab]
    BY <1>0, <2>1
  <2>4. TypeOK'
    BY <1>0, <2>2, <2>3 DEF TypeOK, volatile, history
  <2>5. RunningFit'
    BY <2>2 DEF IInv, RunningFit, volatile
  <2> QED BY <2>2, <2>4, <2>5, OutsideStepKeeps DEF volatile
<1>6. CASE TabCloses
  <2>1. PICK t \in OpenTabs :
          /\ tabs' = [tabs EXCEPT ![t].route = Closed, ![t].loading = FALSE]
          /\ Disturb("browser", Notice("removed", t, AnyRoute, 0))
          /\ UNCHANGED <<windows, settings>>
    BY <1>6 DEF TabCloses
  <2>2. t \in Tabs /\ tabs' \in [Tabs -> Tab]
    BY <1>0, <2>1 DEF OpenTabs
  <2>3. Notice("removed", t, AnyRoute, 0) \in Event
    BY <2>2, NoticeTyped
  <2> QED BY <1>0, <1>1, <2>1, <2>2, <2>3, DisturbKeeps
<1>7. CASE WindowCloses
  <2>1. PICK u \in windows :
          /\ windows' = windows \ {u}
          /\ Disturb("browser", Notice("window-closed", AnyTab, AnyRoute, u))
          /\ UNCHANGED <<tabs, settings>>
    BY <1>7 DEF WindowCloses
  <2>2. u \in 0 .. MaxSurfaces
    <3>1. u \in SurfaceIds
      BY <1>0, <2>1 DEF TypeOK
    <3> QED BY <3>1, ParametersAreSane DEF SurfaceIds
  <2>3. Notice("window-closed", AnyTab, AnyRoute, u) \in Event
    BY <2>2, NoticeTyped
  <2> QED BY <1>0, <1>1, <2>1, <2>3, DisturbKeeps
<1>8. CASE SettingsWritten
  <2>1. PICK v \in Settings \ {settings} :
          /\ settings' = v
          /\ Disturb("settings", Notice("settings", AnyTab, AnyRoute, 0))
          /\ UNCHANGED <<tabs, windows>>
    BY <1>8 DEF SettingsWritten
  <2>2. Notice("settings", AnyTab, AnyRoute, 0) \in Event
    BY NoticeTyped
  <2> QED BY <1>0, <1>1, <2>1, <2>2, DisturbKeeps
<1> QED BY <1>3, <1>4, <1>5, <1>6, <1>7, <1>8

\* The disturbances that the listeners and the clock stand for.
LEMMA DisturbancesKnown == {"settings", "expiry"} \subseteq Disturbances
  BY DEF Disturbances

\* What is spent is counted.
LEMMA SpentTyped ==
    ASSUME spent \in [Disturbances -> Nat], NEW what \in Disturbances,
           spent' = [spent EXCEPT ![what] = @ + 1]
    PROVE  spent' \in [Disturbances -> Nat]
<1>1. spent[what] + 1 \in Nat
  OBVIOUS
<1> QED BY <1>1

\* The deadlines that can pass are those of records.
LEMMA DeadlinesTyped == Deadlines \subseteq Token
<1> SUFFICES ASSUME NEW d \in Deadlines PROVE d \in Token
  OBVIOUS
<1>1. PICK s \in {mem, disk} :
        \/ \E i \in Intents(s) : d = <<"intent", i>>
        \/ \E o \in Operations(s) : d = <<"operation", o>> \/ d = <<"grace", o>>
        \/ \E u \in Surfaces(s) : d = <<"surface", u>>
  BY DEF Deadlines
<1>2. CASE \E i \in Intents(s) : d = <<"intent", i>>
  BY <1>2 DEF Token, Intents
<1>3. CASE \E o \in Operations(s) : d = <<"operation", o>> \/ d = <<"grace", o>>
  BY <1>3 DEF Token, Operations
<1>4. CASE \E u \in Surfaces(s) : d = <<"surface", u>>
  BY <1>4 DEF Token, Surfaces
<1> QED BY <1>1, <1>2, <1>3, <1>4

\* Notifications, handlers and time leave the controller's state alone.
LEMMA ArrivalsKeep ==
    ASSUME IInv, Deliver \/ UserSavesSettings \/ HandlerReturns \/ TimePasses
    PROVE  IInv'
<1>0. TypeOK
  BY DEF IInv
<1>1. CASE Deliver
  <2>1. /\ events # <<>> /\ events' = Tail(events) /\ Revoke(Head(events))
        /\ UNCHANGED <<tabs, windows, settings, disk, mem, job, reserved, running, elapsed, next,
                       fate, spent>>
    BY <1>1 DEF Deliver
  <2>2. events \in Seq(Event) /\ Head(events) \in Event /\ events' \in Seq(Event)
    BY <1>0, <2>1 DEF TypeOK
  <2>3. TypeOK'
    BY <1>0, <2>1, <2>2, RevokeTyped DEF TypeOK
  <2>4. RunningFit'
    BY <2>1 DEF IInv, RunningFit
  <2> QED BY <2>1, <2>3, <2>4, OutsideStepKeeps
<1>2. CASE UserSavesSettings
  <2>1. /\ settings' \in Settings /\ Revoke(Notice("settings", AnyTab, AnyRoute, 0))
        /\ spent' = [spent EXCEPT !["settings"] = @ + 1]
        /\ UNCHANGED <<tabs, windows, events, disk, mem, job, reserved, running, elapsed, next, fate>>
    BY <1>2 DEF UserSavesSettings, Spend
  <2>2. Notice("settings", AnyTab, AnyRoute, 0) \in Event
    BY DefaultsInRange, NoticeTyped
  <2>3. spent' \in [Disturbances -> Nat]
    BY <1>0, <2>1, SpentTyped, DisturbancesKnown DEF TypeOK
  <2>4. TypeOK'
    BY <1>0, <2>1, <2>2, <2>3, RevokeTyped DEF TypeOK
  <2>5. RunningFit'
    BY <2>1 DEF IInv, RunningFit
  <2> QED BY <2>1, <2>4, <2>5, OutsideStepKeeps
<1>3. CASE HandlerReturns
  <2>1. UNCHANGED <<browser, disk, mem, job, epoch, revision, reserved, elapsed, next, revoked,
                    spent>>
    BY <1>3 DEF HandlerReturns
  <2>2. PICK h \in running :
          /\ running' = running \ {h}
          /\ \/ UNCHANGED <<queue, fate>>
             \/ fate' = Consume(h.stage, "aborted-by-worker") /\ UNCHANGED queue
             \/ queue' = Append(queue, [h EXCEPT !.kind = "record"]) /\ UNCHANGED fate
             \/ queue' = Append(queue, [h EXCEPT !.kind = "released"]) /\ UNCHANGED fate
    BY <1>3 DEF HandlerReturns
  <2>3. h \in Request /\ h.kind = "authorize" /\ h.stage \in Stages
    BY <1>0, <2>2 DEF IInv, RunningFit, TypeOK
  <2>4. ASSUME NEW kind \in {"record", "released"} PROVE [h EXCEPT !.kind = kind] \in Request
    <3>1. h \in Message /\ h.route # Loading /\ h.id \in OpIds
      BY <2>3 DEF Request, ByOperation
    <3>2. kind \in Kinds
      BY DEF Kinds
    <3> DEFINE x == [h EXCEPT !.kind = kind]
    <3>3. x \in Message /\ x.kind = kind /\ x.route = h.route /\ x.id = h.id /\ x.stage = h.stage
      BY <3>1, <3>2 DEF Message
    <3> HIDE DEF x
    <3>4. x \in Request
      BY <2>3, <3>1, <3>3 DEF Request, ByOperation
    <3> QED BY <3>4 DEF x
  <2>5. queue' \in Seq(Request) /\ fate' \in [Stages -> Fates] /\ running' \subseteq Request
    <3>1. queue \in Seq(Request) /\ fate \in [Stages -> Fates] /\ running \subseteq Request
      BY <1>0 DEF TypeOK
    <3>2. \A r \in Request : Append(queue, r) \in Seq(Request)
      BY <3>1
    <3>3. [h EXCEPT !.kind = "record"] \in Request /\ [h EXCEPT !.kind = "released"] \in Request
      BY <2>4
    <3>4. Consume(h.stage, "aborted-by-worker") \in [Stages -> Fates]
      BY <2>3, <3>1, ConsumeTyped
    <3> QED BY <2>2, <3>1, <3>2, <3>3, <3>4
  <2>6. TypeOK'
    BY <1>0, <2>1, <2>5 DEF TypeOK, browser
  <2>7. RunningFit'
    BY <2>2 DEF IInv, RunningFit
  <2> QED BY <2>1, <2>6, <2>7, OutsideStepKeeps
<1>4. CASE TimePasses
  <2>1. /\ UNCHANGED <<browser, disk, mem, job, volatile, next, history>>
        /\ spent' = [spent EXCEPT !["expiry"] = @ + 1]
        /\ \E d \in Deadlines : elapsed' = elapsed \cup {d}
    BY <1>4 DEF TimePasses, Spend
  <2>2. elapsed' \subseteq Token
    BY <1>0, <2>1, DeadlinesTyped DEF TypeOK
  <2>3. spent' \in [Disturbances -> Nat]
    BY <1>0, <2>1, SpentTyped, DisturbancesKnown DEF TypeOK
  <2>4. TypeOK'
    BY <1>0, <2>1, <2>2, <2>3 DEF TypeOK, browser, volatile, history
  <2>5. RunningFit'
    BY <2>1 DEF IInv, RunningFit, volatile
  <2> QED BY <2>1, <2>4, <2>5, OutsideStepKeeps DEF volatile
<1> QED BY <1>1, <1>2, <1>3, <1>4

-----------------------------------------------------------------------------
(* The theorems.                                                           *)

\* A set of n numbers from 1 on counts n: the next identity is a fresh one.
LEMMA CountedFrom ==
    ASSUME NEW n \in Nat, NEW S, S \subseteq 1 .. n
    PROVE  1 + Cardinality(S) \in 1 .. n + 1
<1>1. IsFiniteSet(1 .. n) /\ Cardinality(1 .. n) = n
  BY FS_Interval
<1>2. Cardinality(S) \in Nat /\ Cardinality(S) <= n
  BY <1>1, FS_Subset, FS_CardinalityType
<1> QED BY <1>2

\* The invariant holds of a worker that starts on a stored state.
LEMMA InitFits == Init => IInv
<1> SUFFICES ASSUME Init PROVE IInv
  OBVIOUS
<1>1. disk \in State /\ OneHolder(disk) /\ OneOwner(disk)
  BY StoredStates DEF Init, OneHolder, OneOwner
<1>2. mem \in State /\ OneHolder(mem) /\ OneOwner(mem)
  <2>1. mem \in {disk, EmptyState}
    BY DEF Init, Hydrate
  <2>2. CASE mem = disk
    BY <1>1, <2>2
  <2>3. CASE mem = EmptyState
    BY <2>3, EmptyStateFits DEF OneHolder
  <2> QED BY <2>1, <2>2, <2>3
<1>3. job \in Job /\ job.at = "idle" /\ job.onSaved = "done" /\ job.onFailed = "done"
  <2>1. Ask("settings") \in Request
    BY AskTyped DEF Request, Kinds, ByOperation
  <2>2. NoJob \in Job
    BY <2>1, DefaultsInRange DEF NoJob, Job, Steps
  <2> QED BY <2>2 DEF Init, NoJob
<1>4. next \in [intent: 1 .. MaxIntents + 1, op: 1 .. MaxOps + 1, surface: 1 .. MaxSurfaces + 1]
  <2>1. Intents(disk) \subseteq 1 .. MaxIntents /\ Operations(disk) \subseteq 1 .. MaxOps
    BY DEF Intents, Operations, IntentIds, OpIds
  <2>2. 1 + Cardinality(Intents(disk)) \in 1 .. MaxIntents + 1
        /\ 1 + Cardinality(Operations(disk)) \in 1 .. MaxOps + 1
    BY <2>1, CountedFrom, ParametersAreSane
  <2>3. 1 \in 1 .. MaxSurfaces + 1
    BY ParametersAreSane
  <2> QED BY <2>2, <2>3 DEF Init
<1>5. TypeOK
  <2>1. tabs \in [Tabs -> [route: Routes \cup {Closed}, loading: BOOLEAN, doc: Nat]]
    BY DefaultsInRange DEF Init
  <2>2. fate \in [Stages -> Fates] /\ spent \in [Disturbances -> Nat] /\ epoch \in [Tabs -> Nat]
    BY DEF Init, Fates
  <2> QED
    BY <1>1, <1>2, <1>3, <1>4, <2>1, <2>2, DefaultsInRange DEF Init, TypeOK
<1>6. StepsFit /\ CheckHolds
  BY <1>3 DEF StepsFit, CheckHolds, WindowSteps
<1>7. RunningFit /\ PreviewIsExclusive
  BY DEF Init, RunningFit, PreviewIsExclusive
<1> QED BY <1>1, <1>2, <1>5, <1>6, <1>7 DEF IInv, Grants, Owned

\* Every step keeps it.
LEMMA NextKeeps == IInv /\ [Next]_vars => IInv'
<1> SUFFICES ASSUME IInv, [Next]_vars PROVE IInv'
  OBVIOUS
<1>1. CASE Acquire
  BY <1>1, AcquireKeeps
<1>2. CASE Saved
  BY <1>2, SavedKeeps
<1>3. CASE SettingsArrive
  BY <1>3, AnswersKeep
<1>4. CASE JobSteps
  BY <1>4, JobStepsKeep
<1>5. CASE Requests
  BY <1>5, RequestsKeep
<1>6. CASE Deliver \/ UserSavesSettings \/ HandlerReturns \/ TimePasses
  BY <1>6, ArrivalsKeep
<1>7. CASE \/ Navigates \/ Reloads \/ Settles \/ TabCloses \/ WindowCloses \/ SettingsWritten
  BY <1>7, BrowserKeeps
<1>8. CASE SaveFailed
  BY <1>8, SaveFailedKeeps
<1>9. CASE Restarts
  BY <1>9, RestartsKeeps
<1>10. CASE UNCHANGED vars
  <2>1. UNCHANGED <<tabs, windows, settings, events, disk, mem, job, queue, epoch, revision,
                    reserved, running, elapsed, next, revoked, fate, spent>>
    BY <1>10 DEF vars, browser, volatile, history
  <2>2. TypeOK' /\ RunningFit'
    BY <2>1 DEF IInv, TypeOK, RunningFit
  <2> QED BY <2>1, <2>2, OutsideStepKeeps
<1> QED
  BY <1>1, <1>2, <1>3, <1>4, <1>5, <1>6, <1>7, <1>8, <1>9, <1>10 DEF Next, Worker, World

\* The inductive invariant holds throughout every behaviour of the controller.
THEOREM Invariance == Spec => []IInv
  BY InitFits, NextKeeps, PTL DEF Spec

\* Every variable keeps the shape the code gives it, whatever the interleaving.
THEOREM TypeCorrectness == Spec => []TypeOK
<1>1. IInv => TypeOK
  BY DEF IInv
<1> QED BY <1>1, Invariance, PTL

\* No tab ever serves two exports, in memory or in what a new worker hydrates,
\* for any number of tabs, documents, requests, restarts and refused saves.
THEOREM ExportsAreExclusive == Spec => []OneExportPerTab
<1>1. IInv => OneExportPerTab
  BY DEF IInv, Grants, OneHolder, OneExportPerTab
<1> QED BY <1>1, Invariance, PTL

\* A text preview and an export never share a tab.
THEOREM PreviewsAreExclusive == Spec => []PreviewIsExclusive
<1>1. IInv => PreviewIsExclusive
  BY DEF IInv, Grants
<1> QED BY <1>1, Invariance, PTL

\* A temporary stage has one owner, in memory and in what is stored.
THEOREM StagesHaveOneOwner == Spec => []StageHasOneOwner
<1>1. IInv => StageHasOneOwner
  BY DEF IInv, Owned, OneOwner, StageHasOneOwner
<1> QED BY <1>1, Invariance, PTL

-----------------------------------------------------------------------------
(* The records: what has ended stays ended, nothing but history makes      *)
(* room, the room of a click lasts until its claim, and what is written    *)
(* can be read back by the next worker.                                    *)
(*                                                                         *)
(* One lemma says what a step of a job may do to an operation, Moved; the  *)
(* four results are consequences of it and of a close look at the steps    *)
(* that add or evict a record: Acquire, StartAdmits and ClaimAdmits.       *)


\* The clause of `hydrate` about one record.
Fits(op) ==
    /\ op.outcome # "none" => op.phase = "completed"
    /\ op.outcome = "branch-preparation-ended" => op.mode = "selected" /\ op.branch # "chosen"
    /\ op.outcome = "ended" => op.mode = "current" \/ op.branch = "chosen"
    /\ op.mode = "current" =>
          op.branch = "none" /\ op.phase \notin {"preparing", "awaiting-selection"}
    /\ op.phase = "awaiting-selection" => op.branch # "none"
    /\ op.phase = "exporting" => op.mode = "current" \/ op.branch = "chosen"
    /\ Cardinality(op.stages) <= StageLimit

\* What a step of a job may make of an operation: it does not appear or vanish,
\* it does not return from its end, while it is live it keeps its conversation,
\* and a record that can be read back still can.
Moved(a, b) ==
    /\ Exists(a) <=> Exists(b)
    /\ ~Exists(a) => b.stages \subseteq a.stages
    /\ Live(b) => Live(a) /\ b.tab = a.tab /\ b.route = a.route
    /\ ~Live(a) => b.phase = a.phase
    /\ Exists(a) /\ Fits(a) => Fits(b)

OpsMoved(s, z) == \A o \in OpIds : Moved(s.ops[o], z.ops[o])

\* What a step of a job may do to the records, but for the two that add one.
WindowsFit(s, z) ==
    Cardinality(Surfaces(s)) <= SurfaceLimit => Cardinality(Surfaces(z)) <= SurfaceLimit
Progress(s, z) == z \in State /\ IntentsKept(s, z) /\ OpsMoved(s, z) /\ WindowsFit(s, z)

-----------------------------------------------------------------------------
(* Sets of identities.                                                     *)

\* A set of natural numbers has a least element, and one bounded by n a greatest.
LEMMA LeastNatural ==
    ASSUME NEW T \in SUBSET Nat, T # {} PROVE \E x \in T : \A y \in T : x <= y
<1>1. PICK x \in T : \A y \in T : ~(<<y, x>> \in OpToRel(<, Nat))
  BY NatLessThanWellFounded, WFMin
<1>2. \A y \in T : ~(y < x)
  BY <1>1 DEF OpToRel
<1> QED BY <1>2

LEMMA GreatestIdentity ==
    ASSUME NEW n \in Nat, NEW T \in SUBSET (1 .. n), T # {} PROVE \E x \in T : \A y \in T : y <= x
<1> DEFINE up == {k \in Nat : \A y \in T : y <= k}
<1>1. n \in up
  OBVIOUS
<1>2. PICK k \in up : \A m \in up : k <= m
  BY <1>1, LeastNatural
<1>3. ASSUME k \notin T PROVE FALSE
  <2>1. \A y \in T : y < k
    BY <1>2, <1>3
  <2>2. PICK y \in T : y \in 1 .. n
    OBVIOUS
  <2>3. k - 1 \in up
    BY <2>1, <2>2
  <2> QED BY <2>3, <1>2
<1> QED BY <1>2, <1>3

\* Sets of identities are finite, and their subsets are no larger.
LEMMA IdentitiesFinite ==
    ASSUME NEW n \in Nat, NEW T \in SUBSET (1 .. n)
    PROVE  /\ IsFiniteSet(T) /\ Cardinality(T) \in Nat
           /\ \A S \in SUBSET T : Cardinality(S) <= Cardinality(T)
<1>1. IsFiniteSet(1 .. n)
  BY FS_Interval
<1>2. IsFiniteSet(T)
  BY <1>1, FS_Subset
<1>3. Cardinality(T) \in Nat
  BY <1>2, FS_CardinalityType
<1>4. \A S \in SUBSET T : Cardinality(S) <= Cardinality(T)
  BY <1>2, FS_Subset
<1> QED BY <1>2, <1>3, <1>4

\* The oldest n of a set are no more than n ...
LEMMA OldestFew ==
    ASSUME NEW m \in Nat, NEW ids \in SUBSET (1 .. m), NEW n \in Nat
    PROVE  Cardinality(Oldest(ids, n)) <= n
<1> DEFINE old == Oldest(ids, n)
<1>1. old \in SUBSET ids
  BY DEF Oldest
<1>2. CASE old = {}
  BY <1>2, FS_EmptySet
<1>3. CASE old # {}
  <2>1. PICK x \in old : \A y \in old : y <= x
    BY <1>1, <1>3, GreatestIdentity
  <2> DEFINE below == {j \in ids : j < x}
  <2>2. Cardinality(below) < n
    BY <2>1 DEF Oldest
  <2>3. x \in 1 .. m
    BY <1>1, <2>1
  <2>4. old \in SUBSET (below \cup {x})
    <3> HIDE DEF old
    <3> SUFFICES ASSUME NEW y \in old PROVE y = x \/ (y \in ids /\ y < x)
      OBVIOUS
    <3>1. y \in ids /\ y \in 1 .. m /\ y <= x
      BY <1>1, <2>1
    <3> QED BY <3>1, <2>3
  <2>0. below \in SUBSET (1 .. m) /\ x \notin below
    <3>1. ~(x < x)
      BY <2>3
    <3>2. \A j \in below : j \in ids /\ j < x
      OBVIOUS
    <3> QED BY <3>1, <3>2
  <2> HIDE DEF old, below
  <2>8. below \cup {x} \in SUBSET (1 .. m)
    BY <2>0, <2>3
  <2>5. IsFiniteSet(below) /\ Cardinality(below) \in Nat
    BY <2>0, IdentitiesFinite
  <2>6. Cardinality(below \cup {x}) = Cardinality(below) + 1
    BY <2>0, <2>5, FS_AddElement
  <2>7. Cardinality(old) <= Cardinality(below \cup {x}) 
    BY <2>4, <2>8, IdentitiesFinite
  <2>9. Cardinality(old) \in Nat
    <3>1. old \in SUBSET (1 .. m)
      BY <1>1
    <3> QED BY <3>1, IdentitiesFinite
  <2> QED BY <2>2, <2>5, <2>6, <2>7, <2>9 DEF old
<1> QED BY <1>2, <1>3

\* ... and a set that is not empty has an oldest element.
LEMMA OldestOne ==
    ASSUME NEW m \in Nat, NEW ids \in SUBSET (1 .. m), ids # {}
    PROVE  \E x \in ids : x \in Oldest(ids, 1)
<1>1. PICK x \in ids : \A y \in ids : x <= y
  BY LeastNatural
<1>2. ASSUME NEW j \in ids PROVE ~(j < x)
  <2>1. j \in Nat /\ x \in Nat /\ x <= j
    BY <1>1
  <2> QED BY <2>1
<1>3. {j \in ids : j < x} = {}
  BY <1>2
<1>4. Cardinality({j \in ids : j < x}) = 0
  BY <1>3, FS_EmptySet
<1> QED BY <1>1, <1>4 DEF Oldest

\* The kept intents, operations and windows of a state are finite sets.
LEMMA RecordsFinite ==
    ASSUME NEW s
    PROVE  /\ Intents(s) \in SUBSET (1 .. MaxIntents) /\ MaxIntents \in Nat
           /\ Operations(s) \in SUBSET (1 .. MaxOps) /\ MaxOps \in Nat
           /\ Surfaces(s) \in SUBSET (1 .. MaxSurfaces) /\ MaxSurfaces \in Nat
           /\ Cardinality(Intents(s)) \in Nat /\ Cardinality(Operations(s)) \in Nat
           /\ Cardinality(Surfaces(s)) \in Nat
<1>1. /\ Intents(s) \in SUBSET (1 .. MaxIntents) /\ MaxIntents \in Nat
      /\ Operations(s) \in SUBSET (1 .. MaxOps) /\ MaxOps \in Nat
      /\ Surfaces(s) \in SUBSET (1 .. MaxSurfaces) /\ MaxSurfaces \in Nat
  BY ParametersAreSane DEF Intents, Operations, Surfaces, IntentIds, OpIds, SurfaceIds
<1> QED BY <1>1, IdentitiesFinite

\* The stages of a record are finitely many; fewer stages, and one more of a record
\* that is not full, are within the limit.
LEMMA StagesCounted ==
    ASSUME NEW a \in SUBSET Stages
    PROVE  /\ IsFiniteSet(a) /\ Cardinality(a) \in Nat
           /\ \A b \in SUBSET a : Cardinality(b) <= Cardinality(a) /\ Cardinality(b) \in Nat
<1>1. IsFiniteSet(a)
  BY StagesAreFinite, FS_Subset
<1>2. Cardinality(a) \in Nat
  BY <1>1, FS_CardinalityType
<1>3. ASSUME NEW b \in SUBSET a PROVE Cardinality(b) <= Cardinality(a) /\ Cardinality(b) \in Nat
  <2>1. IsFiniteSet(b) /\ Cardinality(b) <= Cardinality(a)
    BY <1>1, FS_Subset
  <2> QED BY <2>1, FS_CardinalityType
<1> QED BY <1>1, <1>2, <1>3

LEMMA FewerStages ==
    ASSUME NEW a \in SUBSET Stages, NEW b \in SUBSET a, Cardinality(a) <= StageLimit
    PROVE  Cardinality(b) <= StageLimit
<1>1. /\ Cardinality(b) <= Cardinality(a) /\ Cardinality(a) \in Nat /\ Cardinality(b) \in Nat
      /\ StageLimit \in Nat
  BY StagesCounted, ParametersAreSane
<1> QED BY <1>1

LEMMA OneMoreStage ==
    ASSUME NEW a \in SUBSET Stages, NEW x, ~(Cardinality(a) >= StageLimit)
    PROVE  Cardinality(a \cup {x}) <= StageLimit
<1>1. IsFiniteSet(a) /\ Cardinality(a) \in Nat /\ StageLimit \in Nat
  BY StagesCounted, ParametersAreSane
<1>2. CASE x \in a
  <2>1. a \cup {x} = a
    BY <1>2
  <2>2. Cardinality(a \cup {x}) = Cardinality(a)
    BY <2>1
  <2> QED BY <1>1, <2>2
<1>3. CASE x \notin a
  <2>1. Cardinality(a \cup {x}) = Cardinality(a) + 1
    BY <1>1, <1>3, FS_AddElement
  <2> QED BY <1>1, <2>1
<1> QED BY <1>2, <1>3

-----------------------------------------------------------------------------
(* What a step of a job does to the records.                               *)

\* Forgetting windows makes their number no larger.
LEMMA FewerWindows ==
    ASSUME NEW s, NEW z, Surfaces(z) \subseteq Surfaces(s) PROVE WindowsFit(s, z)
<1>1. Surfaces(z) \in SUBSET Surfaces(s)
  OBVIOUS
<1>2. Cardinality(Surfaces(z)) <= Cardinality(Surfaces(s))
  BY <1>1, RecordsFinite, IdentitiesFinite
<1>3. /\ Cardinality(Surfaces(z)) \in Nat /\ Cardinality(Surfaces(s)) \in Nat
      /\ SurfaceLimit \in Nat
  BY RecordsFinite, ParametersAreSane
<1> QED BY <1>2, <1>3 DEF WindowsFit

LEMMA SameProgress == ASSUME NEW s \in State PROVE Progress(s, s)
  BY DEF Progress, IntentsKept, OpsMoved, Moved, WindowsFit

LEMMA ProgressTransitive ==
    ASSUME NEW s, NEW y, NEW z, Progress(s, y), Progress(y, z) PROVE Progress(s, z)
<1>1. OpsMoved(s, z)
  BY DEF Progress, OpsMoved, Moved
<1>2. IntentsKept(s, z)
  BY DEF Progress, IntentsKept
<1> QED BY <1>1, <1>2 DEF Progress, WindowsFit

\* One operation is changed in place.
LEMMA OperationProgress ==
    ASSUME NEW s \in State, NEW o \in OpIds, NEW op \in Operation, Moved(s.ops[o], op)
    PROVE  Progress(s, [s EXCEPT !.ops[o] = op])
<1> DEFINE z == [s EXCEPT !.ops[o] = op]
<1>1. /\ z \in State /\ z.intents = s.intents
      /\ \A x \in OpIds : z.ops[x] = IF x = o THEN op ELSE s.ops[x]
  BY OperationChanged
<1>2. z.surfaces = s.surfaces
  BY DEF State
<1> HIDE DEF z
<1>3. Surfaces(z) \subseteq Surfaces(s)
  BY <1>2 DEF Surfaces
<1>4. OpsMoved(s, z)
  BY <1>1 DEF OpsMoved, Moved
<1>5. IntentsKept(s, z)
  BY <1>1 DEF IntentsKept
<1>6. Progress(s, z)
  BY <1>1, <1>3, <1>4, <1>5, FewerWindows DEF Progress
<1> QED BY <1>6 DEF z

\* Intents are dropped, windows are forgotten.
LEMMA DropIntentsProgress ==
    ASSUME NEW s \in State, NEW gone PROVE Progress(s, DropIntents(s, gone))
<1> DEFINE z == DropIntents(s, gone)
<1>1. z \in State /\ IntentsKept(s, z)
  BY DropIntentsWeaker DEF Weaker, GrantsKept
<1>2. z.surfaces = s.surfaces /\ z.ops = s.ops
  BY DEF DropIntents, State
<1> HIDE DEF z
<1>3. Surfaces(z) \subseteq Surfaces(s)
  BY <1>2 DEF Surfaces
<1>4. OpsMoved(s, z)
  BY <1>2 DEF OpsMoved, Moved
<1>5. Progress(s, z)
  BY <1>1, <1>3, <1>4, FewerWindows DEF Progress
<1> QED BY <1>5 DEF z

LEMMA DropSurfacesProgress ==
    ASSUME NEW s \in State, NEW gone PROVE Progress(s, DropSurfaces(s, gone))
<1> DEFINE z == DropSurfaces(s, gone)
<1>1. z \in State /\ IntentsKept(s, z)
  BY DropSurfacesWeaker DEF Weaker, GrantsKept
<1>2. z.ops = s.ops
  BY DEF DropSurfaces, State
<1>3. Surfaces(z) \subseteq Surfaces(s)
  BY DEF DropSurfaces, State, Surfaces, NoSurface
<1> HIDE DEF z
<1>4. OpsMoved(s, z)
  BY <1>2 DEF OpsMoved, Moved
<1>5. Progress(s, z)
  BY <1>1, <1>3, <1>4, FewerWindows DEF Progress
<1> QED BY <1>5 DEF z

\* An operation is cancelled: what can be read back still can, as no outcome is
\* recorded of a live operation.
LEMMA CancelledProgress ==
    ASSUME NEW s \in State, NEW o \in OpIds PROVE Progress(s, Cancelled(s, o))
<1> DEFINE op == [s.ops[o] EXCEPT !.phase = "cancelled"]
<1>0. s.ops[o] \in Operation
  BY DEF State
<1>1. CASE Live(s.ops[o])
  <2>1. /\ op \in Operation /\ op.phase = "cancelled" /\ op.outcome = s.ops[o].outcome
        /\ op.mode = s.ops[o].mode /\ op.branch = s.ops[o].branch
        /\ op.stages = s.ops[o].stages
    BY <1>0 DEF Operation, Phases
  <2>2. [s EXCEPT !.ops[o].phase = "cancelled"] = [s EXCEPT !.ops[o] = op]
    BY DEF State
  <2> HIDE DEF op
  <2>3. Moved(s.ops[o], op)
    BY <1>1, <2>1 DEF Moved, Exists, Live, Fits
  <2>4. Progress(s, [s EXCEPT !.ops[o] = op])
    BY <2>1, <2>3, OperationProgress
  <2> QED BY <1>1, <2>2, <2>4 DEF Cancelled
<1>2. CASE ~Live(s.ops[o])
  BY <1>2, SameProgress DEF Cancelled
<1> QED BY <1>1, <1>2

\* A stage is given up, or given to an operation that exists and is not full.
LEMMA RelinquishingProgress ==
    ASSUME mem \in State, NEW o \in OpIds, NEW stage PROVE Progress(mem, Relinquishing(o, stage))
<1> DEFINE op == [mem.ops[o] EXCEPT !.stages = @ \ {stage}]
<1>0. mem.ops[o] \in Operation
  BY DEF State
<1>1. /\ op \in Operation /\ op.phase = mem.ops[o].phase /\ op.outcome = mem.ops[o].outcome
      /\ op.mode = mem.ops[o].mode /\ op.branch = mem.ops[o].branch
      /\ op.stages \subseteq mem.ops[o].stages
      /\ op.tab = mem.ops[o].tab /\ op.route = mem.ops[o].route
  BY <1>0 DEF Operation
<1>2. Relinquishing(o, stage) = [mem EXCEPT !.ops[o] = op]
  BY DEF State, Relinquishing
<1> HIDE DEF op
<1>3. Cardinality(mem.ops[o].stages) <= StageLimit => Cardinality(op.stages) <= StageLimit
  <2>1. mem.ops[o].stages \in SUBSET Stages /\ op.stages \in SUBSET mem.ops[o].stages
    BY <1>0, <1>1 DEF Operation
  <2> QED BY <2>1, FewerStages
<1>4. Moved(mem.ops[o], op)
  BY <1>1, <1>3 DEF Moved, Exists, Live, Fits
<1> QED BY <1>1, <1>2, <1>4, OperationProgress

LEMMA RegisteringProgress ==
    ASSUME mem \in State, NEW o \in OpIds, NEW stage \in Stages, Exists(mem.ops[o]),
           ~Full(mem.ops[o])
    PROVE  Progress(mem, Registering(o, stage))
<1> DEFINE op == [mem.ops[o] EXCEPT !.stages = @ \cup {stage}]
<1>0. mem.ops[o] \in Operation
  BY DEF State
<1>1. /\ op \in Operation /\ op.phase = mem.ops[o].phase /\ op.outcome = mem.ops[o].outcome
      /\ op.mode = mem.ops[o].mode /\ op.branch = mem.ops[o].branch
      /\ op.stages = mem.ops[o].stages \cup {stage}
      /\ op.tab = mem.ops[o].tab /\ op.route = mem.ops[o].route
  BY <1>0 DEF Operation
<1>2. Registering(o, stage) = [mem EXCEPT !.ops[o] = op]
  BY DEF State, Registering
<1> HIDE DEF op
<1>3. Cardinality(op.stages) <= StageLimit
  <2>1. mem.ops[o].stages \in SUBSET Stages /\ ~(Cardinality(mem.ops[o].stages) >= StageLimit)
    BY <1>0 DEF Operation, Full
  <2> QED BY <1>1, <2>1, OneMoreStage
<1>4. Moved(mem.ops[o], op)
  BY <1>1, <1>3 DEF Moved, Exists, Live, Fits
<1> QED BY <1>1, <1>2, <1>4, OperationProgress

\* A job that cancels or goes on.
LEMMA CancelProgress ==
    ASSUME mem \in State, NEW o \in OpIds, NEW step, CancelThen(o, step)
    PROVE  Progress(mem, mem')
<1>1. CASE Live(mem.ops[o])
  <2>1. mem' = Cancelled(mem, o)
    BY <1>1 DEF CancelThen, SaveThen
  <2> QED BY <2>1, CancelledProgress
<1>2. CASE ~Live(mem.ops[o])
  <2>1. mem' = mem
    BY <1>2 DEF CancelThen
  <2> QED BY <2>1, SameProgress
<1> QED BY <1>1, <1>2

\* The steps that only look leave the records alone.
LEMMA LooksProgress ==
    ASSUME IInv,
           \/ StartChecks \/ ClaimChecks \/ OfferChecks \/ ChooseChecks \/ CommitChecks
           \/ OpenChecks \/ WindowRefused \/ ChooseApplies \/ Rechecks \/ Reserve \/ Release
           \/ AuthorizeGrants \/ AuthorizeRefuses \/ CommitDispatches \/ WorkerCleansUp
           \/ CommitRejudges
    PROVE  Progress(mem, mem')
<1>1. mem' = mem
  BY DEF StartChecks, ClaimChecks, OfferChecks, ChooseChecks, CommitChecks, Check, OpenChecks,
         WindowRefused, ChooseApplies, Rechecks, Reserve, Release, AuthorizeGrants,
         AuthorizeRefuses, CommitDispatches, WorkerCleansUp, CommitRejudges
<1>2. mem \in State
  BY DEF IInv, TypeOK
<1> QED BY <1>1, <1>2, SameProgress

\* So do most of the steps that end something.
LEMMA EndingsProgress ==
    ASSUME IInv,
           \/ Unstart \/ GiveUp \/ Stop \/ AuthorizeChecks \/ AuthorizeJudges \/ CommitAdmits
           \/ CommitJudges \/ TakeChecks \/ Released \/ Sweep
    PROVE  Progress(mem, mem')
<1> USE RequestsAreTyped
<1>0. TypeOK /\ StepsFit /\ mem \in State
  BY DEF IInv, TypeOK
<1>1. mem' = mem => Progress(mem, mem')
  BY <1>0, SameProgress
<1>2. CASE Unstart
  <2>1. mem' = DropIntents(mem, {req.id})
    BY <1>2 DEF Unstart, SaveThen
  <2> QED BY <1>0, <2>1, DropIntentsProgress
<1>3. CASE GiveUp
  <2>1. req.kind \in {"popup", "offer", "choose"}
    BY <1>0, <1>3 DEF GiveUp, StepsFit, WindowSteps
  <2>2. CASE req.kind = "popup"
    BY <1>1, <1>3, <2>2 DEF GiveUp
  <2>3. CASE req.kind # "popup"
    <3>1. req.id \in OpIds
      BY <1>0, <2>1, <2>3 DEF ByOperation
    <3>2. mem' = Cancelled(mem, req.id)
      BY <1>3, <2>3 DEF GiveUp, SaveThen
    <3> QED BY <1>0, <3>1, <3>2, CancelledProgress
  <2> QED BY <2>2, <2>3
<1>4. CASE Stop \/ AuthorizeChecks \/ AuthorizeJudges
  <2>1. req.id \in OpIds
    BY <1>0, <1>4 DEF Stop, AuthorizeChecks, AuthorizeJudges, At, ByOperation
  <2>2. mem' = mem \/ CancelThen(req.id, "done") \/ CancelThen(req.id, "refused")
    BY <1>4 DEF Stop, AuthorizeChecks, AuthorizeJudges
  <2> QED BY <1>0, <1>1, <2>1, <2>2, CancelProgress
<1>5. CASE CommitAdmits \/ CommitJudges \/ TakeChecks \/ Released
  <2>1. req.id \in OpIds
    BY <1>0, <1>5 DEF CommitAdmits, CommitJudges, TakeChecks, Released, At, ByOperation
  <2>2. mem' = mem \/ mem' = Relinquishing(req.id, req.stage)
    BY <1>5 DEF CommitAdmits, CommitJudges, TakeChecks, Released, RelinquishThen, SaveThen
  <2> QED BY <1>0, <1>1, <2>1, <2>2, RelinquishingProgress
<1>6. CASE Sweep
  <2> DEFINE base == IF req.kind = "settings" THEN DropIntents(mem, Intents(mem)) ELSE mem
             last == DropSurfaces(DropIntents(base, RevokedIntents),
                                  IF req.kind = "window-closed" THEN {req.ui} ELSE {})
  <2>1. Progress(mem, base)
    BY <1>0, DropIntentsProgress, SameProgress
  <2>2. base \in State
    BY <2>1 DEF Progress
  <2>3. \/ \E o \in Oldest(Doomed, 1) : mem' = Cancelled(base, o)
        \/ mem' = last
    BY <1>6 DEF Sweep, SaveThen
  <2> HIDE DEF base
  <2>4. CASE \E o \in Oldest(Doomed, 1) : mem' = Cancelled(base, o)
    <3>1. PICK o \in Oldest(Doomed, 1) : mem' = Cancelled(base, o)
      BY <2>4
    <3>2. o \in OpIds
      BY <3>1 DEF Oldest, Doomed
    <3> QED BY <2>1, <2>2, <3>1, <3>2, CancelledProgress, ProgressTransitive
  <2>5. CASE mem' = last
    <3>1. Progress(base, DropIntents(base, RevokedIntents))
      BY <2>2, DropIntentsProgress
    <3>2. Progress(DropIntents(base, RevokedIntents), last)
      BY <3>1, DropSurfacesProgress DEF Progress
    <3>3. Progress(mem, last)
      BY <2>1, <3>1, <3>2, ProgressTransitive
    <3> HIDE DEF last
    <3> QED BY <2>5, <3>3
  <2> QED BY <2>3, <2>4, <2>5
<1> QED BY <1>2, <1>3, <1>4, <1>5, <1>6

\* A choice follows an offer, and the outcome that is recorded fits the branch.
LEMMA ChoicesProgress ==
    ASSUME IInv, OfferAdmits \/ ChooseValidates \/ Complete
    PROVE  Progress(mem, mem')
<1> USE RequestsAreTyped
<1>0. /\ TypeOK /\ mem \in State /\ req.id \in OpIds
      /\ (mem' = mem => Progress(mem, mem'))
  BY SameProgress DEF IInv, TypeOK, OfferAdmits, ChooseValidates, Complete, At, ByOperation
<1>1. theOp \in Operation /\ theOp = mem.ops[req.id]
  BY <1>0 DEF theOp, State
<1>2. ASSUME NEW op \in Operation, mem' = [mem EXCEPT !.ops[req.id] = op], Moved(theOp, op)
      PROVE  Progress(mem, mem')
  BY <1>0, <1>1, <1>2, OperationProgress
<1>3. CASE OfferAdmits
  <2>1. theOp.phase = "preparing" /\ theOp.mode = "selected"
    BY <1>3 DEF OfferAdmits, At, IInv, CheckHolds, Checked
  <2> DEFINE op == [theOp EXCEPT !.phase = "awaiting-selection", !.branch = "offered"]
  <2>2. mem' = mem \/ mem' = [mem EXCEPT !.ops[req.id] = op]
    <3>1. \/ mem' = mem
          \/ mem' = [mem EXCEPT !.ops[req.id].phase = "awaiting-selection",
                               !.ops[req.id].branch = "offered"]
      BY <1>3 DEF OfferAdmits
    <3>2. [mem EXCEPT !.ops[req.id].phase = "awaiting-selection",
                      !.ops[req.id].branch = "offered"] = [mem EXCEPT !.ops[req.id] = op]
      BY <1>0, <1>1 DEF State, Operation
    <3> QED BY <3>1, <3>2
  <2>3. /\ op \in Operation /\ op.phase = "awaiting-selection" /\ op.branch = "offered"
        /\ op.mode = theOp.mode /\ op.outcome = theOp.outcome /\ op.stages = theOp.stages
        /\ op.tab = theOp.tab /\ op.route = theOp.route
    BY <1>1 DEF Operation, Phases
  <2> HIDE DEF op
  <2>4. Moved(theOp, op)
    BY <2>1, <2>3 DEF Moved, Exists, Live, Fits
  <2> QED BY <1>0, <1>2, <2>2, <2>3, <2>4
<1>4. CASE ChooseValidates
  <2>1. theOp.phase = "awaiting-selection"
    BY <1>4 DEF ChooseValidates, At, IInv, CheckHolds, Checked
  <2> DEFINE op == [theOp EXCEPT !.phase = "exporting", !.branch = "chosen"]
  <2>2. mem' = mem \/ mem' = [mem EXCEPT !.ops[req.id] = op]
    BY ZenonT(40), <1>0, <1>1, <1>4 DEF ChooseValidates, SaveThen, State, Operation
  <2>3. /\ op \in Operation /\ op.phase = "exporting" /\ op.branch = "chosen"
        /\ op.mode = theOp.mode /\ op.outcome = theOp.outcome /\ op.stages = theOp.stages
        /\ op.tab = theOp.tab /\ op.route = theOp.route
    BY <1>1 DEF Operation, Phases
  <2> HIDE DEF op
  <2>4. Moved(theOp, op)
    BY <2>1, <2>3 DEF Moved, Exists, Live, Fits
  <2> QED BY <1>0, <1>2, <2>2, <2>3, <2>4
<1>5. CASE Complete
  <2>1. CASE ~Owns(theOp, req)
    BY <1>0, <1>5, <2>1 DEF Complete
  <2>2. CASE Owns(theOp, req)
    <3> DEFINE op == Completed(theOp)
    <3>1. mem' = [mem EXCEPT !.ops[req.id] = op]
      BY <1>0, <1>1, <1>5, <2>2 DEF Complete, SaveThen, State
    <3>2. CASE theOp.phase = "cancelled"
      <4>1. op = theOp
        BY <3>2 DEF Completed
      <4>2. Moved(theOp, op)
        BY <4>1 DEF Moved
      <4> HIDE DEF op
      <4> QED BY <1>1, <1>2, <3>1, <4>1, <4>2
    <3>3. CASE theOp.phase # "cancelled"
      <4>1. /\ op \in Operation /\ op.phase = "completed" /\ op.mode = theOp.mode
            /\ op.branch = theOp.branch /\ op.stages = theOp.stages
            /\ \/ op.outcome = "ended" /\ (theOp.mode # "selected" \/ theOp.branch = "chosen")
               \/ /\ op.outcome = "branch-preparation-ended"
                  /\ theOp.mode = "selected" /\ theOp.branch # "chosen"
        BY ZenonT(40), <1>1, <3>3 DEF Completed, Operation, Phases
      <4>2. theOp.phase \in Phases \ {"none", "cancelled"} /\ theOp.mode \in {"current", "selected"}
        BY <1>1, <2>2, <3>3 DEF Operation, Owns, Exists
      <4> HIDE DEF op
      <4>3. Moved(theOp, op)
        BY <4>1, <4>2 DEF Moved, Exists, Live, Fits, Phases
      <4> QED BY <1>2, <3>1, <4>1, <4>3
    <3> QED BY <3>2, <3>3
  <2> QED BY <2>1, <2>2
<1> QED BY <1>3, <1>4, <1>5

\* A stage is registered with an operation that exists and is not full.
LEMMA RegistrationsProgress ==
    ASSUME IInv, AuthorizeAdmits \/ Record PROVE Progress(mem, mem')
<1> USE RequestsAreTyped
<1>0. TypeOK /\ mem \in State /\ req.id \in OpIds
  BY DEF IInv, TypeOK, AuthorizeAdmits, Record, At, ByOperation
<1>1. \/ mem' = mem
      \/ CancelThen(req.id, "refused") \/ CancelThen(req.id, "done")
      \/ /\ req.stage \in Stages /\ Exists(theOp) /\ ~Full(theOp)
         /\ mem' = Registering(req.id, req.stage)
  <2>1. CASE AuthorizeAdmits
    <3>1. Exists(theOp)
      BY <2>1 DEF AuthorizeAdmits, At, IInv, CheckHolds, Checked, Live, Exists
    <3> QED BY <1>0, <2>1, <3>1 DEF AuthorizeAdmits, SaveThen
  <2>2. CASE Record
    BY <1>0, <2>2 DEF Record, SaveThen, At
  <2> QED BY <2>1, <2>2
<1>2. CASE mem' = mem
  BY <1>0, <1>2, SameProgress
<1>3. CASE CancelThen(req.id, "refused") \/ CancelThen(req.id, "done")
  BY <1>0, <1>3, CancelProgress
<1>4. CASE /\ req.stage \in Stages /\ Exists(theOp) /\ ~Full(theOp)
           /\ mem' = Registering(req.id, req.stage)
  BY <1>0, <1>4, RegisteringProgress DEF theOp
<1> QED BY <1>1, <1>2, <1>3, <1>4

\* The steps around the export window change nothing but its registration, and
\* a window is registered only while there is room for it.
LEMMA WindowsProgress ==
    ASSUME IInv, Compact \/ WindowCreated PROVE Progress(mem, mem')
<1> USE RequestsAreTyped
<1>0. TypeOK /\ StepsFit /\ mem \in State
  BY DEF IInv, TypeOK
<1>1. req.kind \in {"popup", "offer", "choose"} /\ req.tab \in Tabs /\ req.route \in Routes
  <2>1. req.kind \in {"popup", "offer", "choose"}
    BY <1>0 DEF Compact, WindowCreated, StepsFit, WindowSteps
  <2> QED BY <1>0, <2>1 DEF Request, Message
<1>2. req.kind # "popup" => req.id \in 0 .. MaxOps
  BY <1>0, <1>1, ParametersAreSane DEF ByOperation, OpIds
<1>3. ASSUME NEW u \in SurfaceIds, NEW surface \in Surface,
             mem' = [mem EXCEPT !.surfaces[u] = surface],
             \/ surface.there => mem.surfaces[u].there
             \/ Cardinality(Surfaces(mem)) < SurfaceLimit
      PROVE  Progress(mem, mem')
  <2>1. /\ mem' \in State /\ mem'.ops = mem.ops /\ mem'.intents = mem.intents
        /\ \A x \in SurfaceIds : mem'.surfaces[x] = IF x = u THEN surface ELSE mem.surfaces[x]
    BY <1>0, <1>3 DEF State
  <2>2. OpsMoved(mem, mem') /\ IntentsKept(mem, mem')
    BY <2>1 DEF OpsMoved, Moved, IntentsKept
  <2>3. CASE surface.there => mem.surfaces[u].there
    <3>1. Surfaces(mem') \subseteq Surfaces(mem)
      BY <2>1, <2>3 DEF Surfaces
    <3> QED BY <2>1, <2>2, <3>1, FewerWindows DEF Progress
  <2>4. CASE Cardinality(Surfaces(mem)) < SurfaceLimit
    <3>1. Surfaces(mem') \subseteq Surfaces(mem) \cup {u}
      BY <2>1 DEF Surfaces
    <3>2. IsFiniteSet(Surfaces(mem)) /\ Cardinality(Surfaces(mem)) \in Nat
      BY RecordsFinite, IdentitiesFinite
    <3>3. Cardinality(Surfaces(mem) \cup {u}) <= Cardinality(Surfaces(mem)) + 1
          /\ IsFiniteSet(Surfaces(mem) \cup {u})
      <4>1. CASE u \in Surfaces(mem)
        <5>1. Surfaces(mem) \cup {u} = Surfaces(mem)
          BY <4>1
        <5>2. Cardinality(Surfaces(mem) \cup {u}) = Cardinality(Surfaces(mem))
          BY <5>1
        <5>3. IsFiniteSet(Surfaces(mem) \cup {u})
          BY <3>2, <5>1
        <5> QED BY <3>2, <5>2, <5>3
      <4>2. CASE u \notin Surfaces(mem)
        BY <3>2, <4>2, FS_AddElement
      <4> QED BY <4>1, <4>2
    <3>4. Cardinality(Surfaces(mem')) <= Cardinality(Surfaces(mem) \cup {u})
      BY <3>1, <3>3, FS_Subset
    <3>5. /\ Cardinality(Surfaces(mem')) \in Nat /\ SurfaceLimit \in Nat
          /\ Cardinality(Surfaces(mem) \cup {u}) \in Nat
      BY <3>3, RecordsFinite, FS_CardinalityType, ParametersAreSane
    <3>6. Cardinality(Surfaces(mem')) <= SurfaceLimit
      BY <2>4, <3>2, <3>3, <3>4, <3>5
    <3> QED BY <2>1, <2>2, <3>6 DEF Progress, WindowsFit
  <2> QED BY <1>3, <2>3, <2>4
<1>4. CASE Compact
  <2>1. \/ mem' = mem
        \/ mem' = DropSurfaces(mem, Registered)
        \/ /\ req.kind # "popup"
           /\ \E u \in Registered : mem' = [mem EXCEPT !.surfaces[u].op = req.id]
    BY <1>4 DEF Compact, SaveThen
  <2>2. CASE /\ req.kind # "popup"
             /\ \E u \in Registered : mem' = [mem EXCEPT !.surfaces[u].op = req.id]
    <3>1. PICK u \in Registered : mem' = [mem EXCEPT !.surfaces[u].op = req.id]
      BY <2>2
    <3>2. u \in SurfaceIds /\ mem.surfaces[u].there
      BY <3>1 DEF Registered, Surfaces
    <3> DEFINE surface == [mem.surfaces[u] EXCEPT !.op = req.id]
    <3>3. surface \in Surface
      BY <1>0, <1>2, <2>2, <3>2 DEF State, Surface
    <3>4. mem' = [mem EXCEPT !.surfaces[u] = surface]
      BY <1>0, <3>1, <3>2 DEF State, Surface
    <3> HIDE DEF surface
    <3> QED BY <1>3, <3>2, <3>3, <3>4
  <2> QED BY <1>0, <2>1, <2>2, SameProgress, DropSurfacesProgress
<1>5. CASE WindowCreated
  <2> DEFINE surface == [there |-> TRUE, tab |-> req.tab, route |-> req.route,
                         op |-> IF req.kind = "popup" THEN 0 ELSE req.id]
  <2>1. /\ mem' = [mem EXCEPT !.surfaces[next.surface] = surface]
        /\ Cardinality(Surfaces(mem)) < SurfaceLimit
        /\ next.surface <= MaxSurfaces
    BY <1>5 DEF WindowCreated, SaveThen
  <2>2. next.surface \in SurfaceIds
    BY <1>0, <2>1, ParametersAreSane DEF TypeOK, SurfaceIds
  <2>3. surface \in Surface
    BY <1>0, <1>1, <1>2, ParametersAreSane DEF Surface
  <2> HIDE DEF surface
  <2> QED BY <1>3, <2>1, <2>2, <2>3
<1> QED BY <1>4, <1>5

\* A step of a job makes progress, or adds an intent, or an operation.
LEMMA JobStepsProgress ==
    ASSUME IInv, JobSteps
    PROVE  StartAdmits \/ ClaimAdmits \/ Progress(mem, mem')
<1>1. CASE \/ StartChecks \/ ClaimChecks \/ OfferChecks \/ ChooseChecks \/ CommitChecks
           \/ OpenChecks \/ WindowRefused \/ ChooseApplies \/ Rechecks \/ Reserve \/ Release
           \/ AuthorizeGrants \/ AuthorizeRefuses \/ CommitDispatches \/ WorkerCleansUp
           \/ CommitRejudges
  BY <1>1, LooksProgress
<1>2. CASE \/ Unstart \/ GiveUp \/ Stop \/ AuthorizeChecks \/ AuthorizeJudges \/ CommitAdmits
           \/ CommitJudges \/ TakeChecks \/ Released \/ Sweep
  BY <1>2, EndingsProgress
<1>3. CASE OfferAdmits \/ ChooseValidates \/ Complete
  BY <1>3, ChoicesProgress
<1>4. CASE AuthorizeAdmits \/ Record
  BY <1>4, RegistrationsProgress
<1>5. CASE Compact \/ WindowCreated
  BY <1>5, WindowsProgress
<1> QED BY <1>1, <1>2, <1>3, <1>4, <1>5 DEF JobSteps

\* A step of a job stores nothing and holds the lock.
LEMMA JobStepsHold ==
    ASSUME JobSteps PROVE disk' = disk /\ job.at \notin {"idle", "save"}
<1>1. disk' = disk
  BY DEF JobSteps, Outside, browser, volatile, Check, StartChecks, StartAdmits, Unstart,
         ClaimChecks, ClaimAdmits, OfferChecks, OfferAdmits, OpenChecks, Compact, WindowCreated,
         WindowRefused, GiveUp, ChooseChecks, ChooseValidates, ChooseApplies, Stop, Complete,
         AuthorizeChecks, AuthorizeAdmits, Rechecks, AuthorizeJudges, AuthorizeGrants,
         AuthorizeRefuses, CommitChecks, CommitAdmits, CommitJudges, CommitRejudges,
         CommitDispatches, TakeChecks, WorkerCleansUp, Record, Released, Sweep, Reserve, Release
<1>2. job.at \notin {"idle", "save"}
  BY DEF JobSteps, At, Check, StartChecks, StartAdmits, Unstart,
         ClaimChecks, ClaimAdmits, OfferChecks, OfferAdmits, OpenChecks, Compact, WindowCreated,
         WindowRefused, GiveUp, ChooseChecks, ChooseValidates, ChooseApplies, Stop, Complete,
         AuthorizeChecks, AuthorizeAdmits, Rechecks, AuthorizeJudges, AuthorizeGrants,
         AuthorizeRefuses, CommitChecks, CommitAdmits, CommitJudges, CommitRejudges,
         CommitDispatches, TakeChecks, WorkerCleansUp, Record, Released, Sweep, Reserve, Release
<1> QED BY <1>1, <1>2

\* Nothing else but the lock, the storage and the loss of the worker touches the
\* records, the identities, or the lock.
Quietly == \/ SettingsArrive \/ Requests \/ Deliver \/ HandlerReturns \/ TimePasses
           \/ Navigates \/ Reloads \/ Settles \/ TabCloses \/ WindowCloses \/ SettingsWritten
           \/ UserSavesSettings

LEMMA QuietlyKeeps ==
    ASSUME TypeOK, Quietly
    PROVE  UNCHANGED <<mem, disk, next>> /\ (job'.at = "idle" <=> job.at = "idle")
<1>1. CASE SettingsArrive
  <2>1. /\ UNCHANGED <<mem, disk, next>> /\ job.at = "settings"
        /\ job' = [job EXCEPT !.at = "admit", !.settings = settings]
    BY <1>1 DEF SettingsArrive, Outside
  <2>2. job'.at = "admit"
    BY <2>1 DEF TypeOK, Job
  <2> QED BY <2>1, <2>2
<1>2. CASE Requests
  <2>1. \E r : Send(r)
    BY <1>2
    DEF Requests, UserStarts, InvitationFails, DocumentClaims, DocumentReports,
        DocumentOpensPopup, UserDecides, PreviewReserves, DocumentWorks, DocumentStages
  <2> QED BY <2>1 DEF Send
<1>3. CASE \/ Deliver \/ HandlerReturns \/ TimePasses \/ Navigates \/ Reloads \/ Settles
           \/ TabCloses \/ WindowCloses \/ SettingsWritten \/ UserSavesSettings
  <2>1. UNCHANGED <<mem, disk, next, job>>
    BY <1>3
    DEF Deliver, HandlerReturns, TimePasses, Navigates, Reloads, Settles, TabCloses,
        WindowCloses, SettingsWritten, UserSavesSettings, Disturb
  <2> QED BY <2>1
<1> QED BY <1>1, <1>2, <1>3 DEF Quietly

LEMMA NextCases ==
    ASSUME Next PROVE Acquire \/ Saved \/ SaveFailed \/ Restarts \/ JobSteps \/ Quietly
  BY DEF Next, Worker, World, Quietly

-----------------------------------------------------------------------------
(* What has ended stays ended.                                             *)

Terminal(op) == op.phase \in {"cancelled", "completed"}

\* Memory never shows a terminal record of the storage as anything else, and the
\* identities not yet given belong to nobody.
TerminalKept ==
    \A o \in OpIds : Terminal(disk.ops[o]) => mem.ops[o].phase \in {disk.ops[o].phase, "none"}
Ahead == \A o \in OpIds : o >= next.op => ~Exists(mem.ops[o]) /\ ~Exists(disk.ops[o])

TInv == TerminalKept /\ Ahead

\* Ending operations, or forgetting them, keeps both.
EndedKept(s, z) == \A o \in OpIds : ~Live(s.ops[o]) => z.ops[o].phase \in {s.ops[o].phase, "none"}

LEMMA EndingKeepsTerminal ==
    ASSUME TInv, EndedKept(mem, mem'), disk' = disk, next'.op = next.op
    PROVE  TInv'
<1>1. TerminalKept'
  BY DEF TInv, TerminalKept, Terminal, EndedKept, Live
<1>2. Ahead'
  BY DEF TInv, Ahead, EndedKept, Live, Exists
<1> QED BY <1>1, <1>2 DEF TInv

LEMMA ProgressEnds == ASSUME NEW s, NEW z, Progress(s, z) PROVE EndedKept(s, z)
  BY DEF Progress, OpsMoved, Moved, EndedKept

LEMMA WeakerEnds == ASSUME NEW s, NEW z, Weaker(s, z) PROVE EndedKept(s, z)
  BY DEF Weaker, GrantsKept, LiveKept, EndedKept

\* What a start and a claim make of the operations.
LEMMA StartChanges ==
    ASSUME IInv, StartAdmits
    PROVE  /\ next.intent \in IntentIds /\ next'.op = next.op /\ next'.intent = next.intent + 1
           /\ \A i \in IntentIds :
                 mem'.intents[i].there <=> (i = next.intent \/ mem.intents[i].there)
           /\ \A i \in IntentIds \ {next.intent} : mem'.intents[i] = mem.intents[i]
           /\ \A o \in OpIds :
                 mem'.ops[o] = IF o \in Oldest(Reclaimable(mem), SlotsNeeded)
                               THEN NoOperation ELSE mem.ops[o]
           /\ mem'.surfaces = mem.surfaces
<1> DEFINE gone == Oldest(Reclaimable(mem), SlotsNeeded)
           intent == [there |-> TRUE, tab |-> req.tab, route |-> req.route,
                      settings |-> job.settings, mode |-> req.mode, ui |-> req.ui]
           room == Without(mem, gone)
<1>1. /\ mem' = [room EXCEPT !.intents[next.intent] = intent]
      /\ next' = [next EXCEPT !.intent = @ + 1] /\ mem \in State
      /\ next \in [intent: 1 .. MaxIntents + 1, op: 1 .. MaxOps + 1, surface: 1 .. MaxSurfaces + 1]
  BY DEF StartAdmits, SaveThen, IInv, TypeOK
<1>2. next.intent \in IntentIds
  <2>1. next.intent <= MaxIntents
    BY DEF StartAdmits, At, IInv, CheckHolds, Checked
  <2> QED BY <1>1, <2>1, ParametersAreSane DEF IntentIds
<1>3. intent.there
  OBVIOUS
<1> HIDE DEF gone, intent
<1>4. /\ room.intents = mem.intents /\ room.surfaces = mem.surfaces /\ room \in State
      /\ \A o \in OpIds : room.ops[o] = IF o \in gone THEN NoOperation ELSE mem.ops[o]
  <2>1. Weaker(mem, room)
    BY <1>1, WithoutWeaker
  <2>2. room.intents = mem.intents /\ room.surfaces = mem.surfaces
        /\ room.ops = [o \in OpIds |-> IF o \in gone THEN NoOperation ELSE mem.ops[o]]
    BY <1>1 DEF Without, State
  <2> QED BY <2>1, <2>2 DEF Weaker, GrantsKept
<1> HIDE DEF room
<1>5. /\ \A i \in IntentIds : mem'.intents[i] = IF i = next.intent THEN intent ELSE mem.intents[i]
      /\ mem'.ops = room.ops /\ mem'.surfaces = mem.surfaces
  <2>1. PICK pending : pending = [room.intents EXCEPT ![next.intent] = intent]
    OBVIOUS
  <2>2. mem'.intents = pending /\ mem'.ops = room.ops /\ mem'.surfaces = room.surfaces
    BY <1>1, <1>4, <2>1 DEF State
  <2>3. room.intents \in [IntentIds -> Intent]
    BY <1>4 DEF State
  <2> QED BY <1>2, <1>4, <2>1, <2>2, <2>3
<1>6. \A o \in OpIds : mem'.ops[o] = IF o \in gone THEN NoOperation ELSE mem.ops[o]
  BY <1>4, <1>5
<1>7. next'.op = next.op /\ next'.intent = next.intent + 1
  BY <1>1
<1> QED BY <1>2, <1>3, <1>5, <1>6, <1>7 DEF gone

NewOperation(op) ==
    /\ op.branch = "none" /\ op.outcome = "none" /\ op.stages = {}
    /\ \/ op.mode = "current" /\ op.phase = "exporting"
       \/ op.mode = "selected" /\ op.phase = "preparing"

LEMMA ClaimChanges ==
    ASSUME IInv, ClaimAdmits
    PROVE  \/ UNCHANGED <<mem, next>>
           \/ /\ next.op \in OpIds /\ next'.op = next.op + 1 /\ next'.intent = next.intent
              /\ req.id \in IntentIds /\ mem.intents[req.id].there
              /\ Cardinality(Operations(mem)) < ReservationLimit
              /\ NewOperation(mem'.ops[next.op])
              /\ mem'.ops[next.op].tab = mem.intents[req.id].tab
              /\ mem'.ops[next.op].route = mem.intents[req.id].route
              /\ \A i \in IntentIds :
                    mem'.intents[i].there <=> (i # req.id /\ mem.intents[i].there)
              /\ \A i \in IntentIds \ {req.id} : mem'.intents[i] = mem.intents[i]
              /\ \A o \in OpIds \ {next.op} : mem'.ops[o] = mem.ops[o]
              /\ Surfaces(mem') = Surfaces(mem)
<1> DEFINE i == req.id
           o == next.op
           intent == mem.intents[i]
           operation == [phase |-> IF intent.mode = "current" THEN "exporting" ELSE "preparing",
                         tab |-> intent.tab, route |-> intent.route,
                         settings |-> intent.settings, mode |-> intent.mode, doc |-> req.doc,
                         branch |-> "none", outcome |-> "none", stages |-> {}]
           dropped == DropIntents(mem, {i})
           claimed == [dropped EXCEPT !.ops[o] = operation]
           state == IF intent.ui = 0 THEN claimed ELSE [claimed EXCEPT !.surfaces[intent.ui].op = o]
<1>1. /\ TypeOK /\ mem \in State /\ i \in IntentIds /\ intent.there /\ o <= MaxOps
      /\ next \in [intent: 1 .. MaxIntents + 1, op: 1 .. MaxOps + 1, surface: 1 .. MaxSurfaces + 1]
  BY RequestsAreTyped DEF IInv, TypeOK, ClaimAdmits, At, CheckHolds, Checked
<1>2. o \in OpIds
  BY <1>1, ParametersAreSane DEF OpIds
<1>3. \/ UNCHANGED <<mem, next>>
      \/ /\ mem' = state /\ next' = [next EXCEPT !.op = @ + 1]
         /\ Cardinality(Operations(mem)) < ReservationLimit
  BY DEF ClaimAdmits, SaveThen
<1>4. intent \in Intent
  BY <1>1 DEF State
<1>5. NewOperation(operation) /\ operation.tab = intent.tab /\ operation.route = intent.route
  BY <1>4 DEF NewOperation, Intent
<1> HIDE DEF operation
<1>6. /\ \A x \in IntentIds : dropped.intents[x] = IF x = i THEN NoIntent ELSE mem.intents[x]
      /\ dropped.ops = mem.ops /\ dropped.surfaces = mem.surfaces /\ dropped \in State
  <2>1. dropped.intents = [x \in IntentIds |-> IF x = i THEN NoIntent ELSE mem.intents[x]]
    BY <1>1 DEF DropIntents, State
  <2>2. dropped.ops = mem.ops /\ dropped.surfaces = mem.surfaces
    BY <1>1 DEF DropIntents, State
  <2>3. dropped \in State
    BY <1>1, DropIntentsWeaker DEF Weaker, GrantsKept
  <2> QED BY <2>1, <2>2, <2>3
<1> HIDE DEF dropped
<1>7. /\ claimed.intents = dropped.intents /\ claimed.surfaces = mem.surfaces
      /\ \A x \in OpIds : claimed.ops[x] = IF x = o THEN operation ELSE mem.ops[x]
      /\ DOMAIN claimed = {"intents", "ops", "surfaces"}
  BY <1>2, <1>6 DEF State
<1> HIDE DEF claimed
<1>8. /\ state.intents = dropped.intents /\ state.ops = claimed.ops
      /\ \A u \in SurfaceIds : state.surfaces[u].there <=> mem.surfaces[u].there
  <2>1. mem.surfaces \in [SurfaceIds -> Surface]
    BY <1>1 DEF State
  <2>2. CASE intent.ui = 0
    BY <1>7, <2>2 DEF state
  <2>3. CASE intent.ui # 0
    <3>1. intent.ui \in SurfaceIds
      BY <1>4, <2>3, ParametersAreSane DEF Intent, SurfaceIds
    <3>2. state = [claimed EXCEPT !.surfaces = [mem.surfaces EXCEPT ![intent.ui].op = o]]
      BY <1>7, <2>3 DEF state
    <3>3. /\ state.intents = claimed.intents /\ state.ops = claimed.ops
          /\ state.surfaces = [mem.surfaces EXCEPT ![intent.ui].op = o]
      BY <1>7, <3>2
    <3>4. \A u \in SurfaceIds :
             [mem.surfaces EXCEPT ![intent.ui].op = o][u].there = mem.surfaces[u].there
      BY <2>1, <3>1 DEF Surface
    <3> QED BY <1>7, <3>3, <3>4
  <2> QED BY <2>2, <2>3
<1> HIDE DEF state
<1>9. CASE /\ mem' = state /\ next' = [next EXCEPT !.op = @ + 1]
           /\ Cardinality(Operations(mem)) < ReservationLimit
  <2>1. next'.op = next.op + 1 /\ next'.intent = next.intent
    BY <1>1, <1>9
  <2>2. /\ \A x \in IntentIds : mem'.intents[x].there <=> (x # i /\ mem.intents[x].there)
        /\ \A x \in IntentIds \ {i} : mem'.intents[x] = mem.intents[x]
    BY <1>6, <1>8, <1>9 DEF NoIntent
  <2>3. mem'.ops[o] = operation /\ \A x \in OpIds \ {o} : mem'.ops[x] = mem.ops[x]
    BY <1>2, <1>7, <1>8, <1>9
  <2>4. Surfaces(mem') = Surfaces(mem)
    BY <1>8, <1>9 DEF Surfaces
  <2> QED BY <1>1, <1>2, <1>5, <1>9, <2>1, <2>2, <2>3, <2>4
<1> QED BY <1>3, <1>9

\* Only a start and a claim give an identity to a click or to an operation.
LEMMA IdentitiesKept ==
    ASSUME IInv, JobSteps, ~StartAdmits, ~ClaimAdmits
    PROVE  next'.op = next.op /\ next'.intent = next.intent
<1>1. next' = next \/ next' = [next EXCEPT !.surface = @ + 1]
  BY DEF JobSteps, Check, StartChecks, Unstart, ClaimChecks, OfferChecks, OfferAdmits,
         OpenChecks, Compact, WindowCreated, WindowRefused, GiveUp, ChooseChecks,
         ChooseValidates, ChooseApplies, Stop, Complete, AuthorizeChecks, AuthorizeAdmits,
         Rechecks, AuthorizeJudges, AuthorizeGrants, AuthorizeRefuses, CommitChecks,
         CommitAdmits, CommitJudges, CommitRejudges, CommitDispatches, TakeChecks,
         WorkerCleansUp, Record, Released, Sweep, Reserve, Release
<1>2. next \in [intent: 1 .. MaxIntents + 1, op: 1 .. MaxOps + 1, surface: 1 .. MaxSurfaces + 1]
  BY DEF IInv, TypeOK
<1> QED BY <1>1, <1>2

\* Every step keeps TInv.
LEMMA NextKeepsTerminal == IInv /\ TInv /\ [Next]_vars => TInv'
<1> SUFFICES ASSUME IInv, TInv, [Next]_vars PROVE TInv'
  OBVIOUS
<1>0. TypeOK /\ mem \in State
  BY DEF IInv, TypeOK
<1>1. CASE UNCHANGED vars
  BY <1>1 DEF TInv, TerminalKept, Ahead, Terminal, Exists, vars
<1>2. CASE Acquire
  <2>1. /\ mem' = Pruned(mem) \/ mem' = Recovered(Pruned(mem))
        /\ UNCHANGED <<disk, next>>
    BY <1>2 DEF Acquire
  <2>2. Weaker(mem, Pruned(mem))
    BY <1>0, PrunedWeaker
  <2>3. Weaker(Pruned(mem), Recovered(Pruned(mem)))
    BY <2>2, RecoveredWeaker DEF Weaker, GrantsKept
  <2>4. Weaker(mem, mem')
    BY <2>1, <2>2, <2>3, WeakerTransitive
  <2> QED BY <2>1, <2>4, WeakerEnds, EndingKeepsTerminal
<1>3. CASE Saved
  BY <1>3 DEF Saved, TInv, TerminalKept, Ahead, Terminal
<1>4. CASE SaveFailed
  <2>1. /\ mem' = EmptyState /\ disk' \in {disk, EmptyState} /\ next' = next
        /\ \A o \in OpIds : EmptyState.ops[o].phase = "none"
    BY <1>4 DEF SaveFailed, AfterRefusedSave, EmptyState, NoOperation
  <2> QED BY <2>1 DEF TInv, TerminalKept, Ahead, Terminal, Exists
<1>5. CASE Restarts
  <2>1. /\ mem' \in {disk, EmptyState} /\ UNCHANGED <<disk, next>>
        /\ \A o \in OpIds : EmptyState.ops[o].phase = "none"
    BY <1>5 DEF Restarts, Hydrate, EmptyState, NoOperation
  <2> QED BY <2>1 DEF TInv, TerminalKept, Ahead, Terminal, Exists
<1>6. CASE JobSteps
  <2>0. disk' = disk
    BY <1>6, JobStepsHold
  <2>1. CASE StartAdmits
    <3>1. EndedKept(mem, mem') /\ next'.op = next.op
      BY <2>1, StartChanges DEF EndedKept, NoOperation
    <3> QED BY <2>0, <3>1, EndingKeepsTerminal
  <2>2. CASE ClaimAdmits
    <3>1. CASE UNCHANGED <<mem, next>>
      BY <2>0, <3>1 DEF TInv, TerminalKept, Ahead, Terminal
    <3>2. CASE /\ next.op \in OpIds /\ next'.op = next.op + 1
               /\ \A o \in OpIds \ {next.op} : mem'.ops[o] = mem.ops[o]
      <4>1. ~Exists(disk.ops[next.op])
        <5>1. next.op >= next.op
          BY <3>2, ParametersAreSane DEF OpIds
        <5> QED BY <3>2, <5>1 DEF TInv, Ahead
      <4>2. TerminalKept'
        BY <2>0, <3>2, <4>1 DEF TInv, TerminalKept, Terminal, Exists
      <4>3. ASSUME NEW o \in OpIds, o >= next'.op PROVE o # next.op /\ o >= next.op
        BY <3>2, <4>3, ParametersAreSane DEF OpIds
      <4>4. Ahead'
        BY <2>0, <3>2, <4>3 DEF TInv, Ahead
      <4> QED BY <4>2, <4>4 DEF TInv
    <3> QED BY <2>2, <3>1, <3>2, ClaimChanges
  <2>3. CASE Progress(mem, mem') /\ ~StartAdmits /\ ~ClaimAdmits
    <3>1. next'.op = next.op
      BY <1>6, <2>3, IdentitiesKept
    <3> QED BY <2>0, <2>3, <3>1, ProgressEnds, EndingKeepsTerminal
  <2> QED BY <1>6, <2>1, <2>2, <2>3, JobStepsProgress
<1>7. CASE Quietly
  BY <1>0, <1>7, QuietlyKeeps DEF TInv, TerminalKept, Ahead, Terminal, Exists
<1> QED BY <1>1, <1>2, <1>3, <1>4, <1>5, <1>6, <1>7, NextCases

LEMMA InitTerminal == Init => TInv
<1> SUFFICES ASSUME Init PROVE TInv
  OBVIOUS
<1>1. disk \in UNION {sc.disks : sc \in Scenarios} /\ mem \in {disk, EmptyState}
      /\ next.op = 1 + Cardinality(Operations(disk))
  BY DEF Init, Hydrate
<1>2. \A o \in OpIds : EmptyState.ops[o].phase = "none"
  BY DEF EmptyState, NoOperation
<1>3. TerminalKept
  BY <1>1, <1>2 DEF TerminalKept
<1>4. ASSUME NEW o \in OpIds, o >= next.op PROVE ~Exists(disk.ops[o])
  <2>1. Operations(disk) \subseteq 1 .. Cardinality(Operations(disk))
        /\ Cardinality(Operations(disk)) \in Nat
    BY <1>1, StoredStates, RecordsFinite
  <2>2. o \in Nat
    BY DEF OpIds
  <2>3. o \notin 1 .. Cardinality(Operations(disk))
    BY <1>1, <1>4, <2>1, <2>2
  <2> QED BY <2>1, <2>3 DEF Operations
<1>5. Ahead
  BY <1>1, <1>2, <1>4 DEF Ahead, Exists
<1> QED BY <1>3, <1>5 DEF TInv

\* What a step may do to the storage.
LEMMA StorageChanges ==
    ASSUME TypeOK, [Next]_vars PROVE disk' \in {disk, EmptyState, mem}
<1>1. CASE UNCHANGED vars
  BY <1>1 DEF vars
<1>2. CASE Acquire \/ Saved \/ SaveFailed \/ Restarts
  BY <1>2 DEF Acquire, Saved, SaveFailed, Restarts
<1>3. CASE JobSteps
  BY <1>3, JobStepsHold
<1>4. CASE Quietly
  BY <1>4, QuietlyKeeps
<1> QED BY <1>1, <1>2, <1>3, <1>4, NextCases

\* A durable cancellation or completion is final: no message, save, hydration or
\* reuse of a record brings an ended operation back, or changes how it ended.
THEOREM EndsAreFinal == Spec => TerminalIsFinal
<1>1. Init => IInv /\ TInv
  BY InitFits, InitTerminal
<1>2. IInv /\ TInv /\ [Next]_vars => (IInv /\ TInv)'
  BY NextKeeps, NextKeepsTerminal
<1>3. IInv /\ TInv /\ [Next]_vars =>
        [\A o \in OpIds :
            disk.ops[o].phase \in {"cancelled", "completed"} =>
                disk'.ops[o].phase \in {disk.ops[o].phase, "none"}]_vars
  <2> SUFFICES ASSUME IInv, TInv, [Next]_vars, NEW o \in OpIds, Terminal(disk.ops[o])
               PROVE  disk'.ops[o].phase \in {disk.ops[o].phase, "none"}
    BY DEF Terminal
  <2>1. disk' \in {disk, EmptyState, mem}
    BY StorageChanges DEF IInv
  <2>2. EmptyState.ops[o].phase = "none"
    BY DEF EmptyState, NoOperation
  <2> QED BY <2>1, <2>2 DEF TInv, TerminalKept
<1> QED
  BY <1>1, <1>2, <1>3, PTL DEF Spec, TerminalIsFinal

-----------------------------------------------------------------------------
(* Nothing but history makes room.                                         *)

\* A record that is not there owns no stage.
NothingUnowned ==
    \A o \in OpIds : /\ Exists(mem.ops[o]) \/ mem.ops[o].stages = {}
                     /\ Exists(disk.ops[o]) \/ disk.ops[o].stages = {}

\* What a step may do to an operation that is there: nothing, to these ends.
Retained(o) ==
    /\ \/ Live(mem.ops[o]) /\ <<"operation", o>> \notin elapsed
       \/ mem.ops[o].stages # {}
    /\ ~Exists(mem'.ops[o])
    => <<"grace", o>> \in elapsed \/ mem' \in {EmptyState, Hydrate(disk)}

\* A change that evicts only history, and gives no stage to what is not there.
Evicts(s, z) ==
    \A o \in OpIds :
        /\ /\ Exists(s.ops[o]) /\ s.ops[o].stages # {}
           /\ ~Exists(z.ops[o])
           => <<"grace", o>> \in elapsed
        /\ /\ Live(s.ops[o]) /\ <<"operation", o>> \notin elapsed
           /\ ~Exists(z.ops[o])
           => <<"grace", o>> \in elapsed
        /\ (Exists(s.ops[o]) \/ s.ops[o].stages = {}) /\ ~Exists(z.ops[o]) => z.ops[o].stages = {}

LEMMA EvictsRetains ==
    ASSUME Evicts(mem, mem'), NothingUnowned, disk' = disk
    PROVE  NothingUnowned' /\ \A o \in OpIds : Retained(o)
<1>1. NothingUnowned'
  BY DEF Evicts, NothingUnowned
<1>2. \A o \in OpIds : Retained(o)
  BY DEF Evicts, Retained, NothingUnowned
<1> QED BY <1>1, <1>2

\* Pruning and repair on the way to the lock.
LEMMA AcquireEvicts == ASSUME IInv, Acquire PROVE Evicts(mem, mem') /\ disk' = disk
<1> DEFINE pruned == Pruned(mem)
<1>0. mem \in State /\ disk' = disk /\ (mem' = pruned \/ mem' = Recovered(pruned))
  BY DEF IInv, TypeOK, Acquire
<1>1. \A o \in OpIds :
         \/ <<"grace", o>> \in elapsed /\ pruned.ops[o] = NoOperation
         \/ pruned.ops[o] = mem.ops[o]
         \/ /\ <<"operation", o>> \in elapsed /\ Live(mem.ops[o])
            /\ pruned.ops[o].phase = "cancelled" /\ pruned.ops[o].stages = mem.ops[o].stages
  BY <1>0 DEF Pruned, State, Operation
<1>2. pruned \in State
  BY <1>0, PrunedWeaker DEF Weaker, GrantsKept
<1>3. \A o \in OpIds :
         \/ Recovered(pruned).ops[o] = pruned.ops[o]
         \/ /\ Recovered(pruned).ops[o] = NoOperation
            /\ ~Live(pruned.ops[o]) /\ pruned.ops[o].stages = {}
  <2> DEFINE gone == Oldest(Reclaimable(pruned), Reserved(pruned) - ReservationLimit)
             kept == Without(pruned, gone)
  <2>1. \E some : Recovered(pruned) = DropIntents(kept, some)
    BY DEF Recovered
  <2>2. \A some : DropIntents(kept, some).ops = kept.ops
    <3>1. kept \in State
      BY <1>2, WithoutWeaker DEF Weaker, GrantsKept
    <3> HIDE DEF kept
    <3> QED BY <3>1 DEF DropIntents, State
  <2>3. \A o \in gone : ~Live(pruned.ops[o]) /\ pruned.ops[o].stages = {}
    BY DEF Oldest, Reclaimable
  <2> HIDE DEF gone, pruned
  <2>4. \A o \in OpIds : kept.ops[o] = IF o \in gone THEN NoOperation ELSE pruned.ops[o]
    BY <1>2 DEF Without, State
  <2> HIDE DEF kept
  <2> QED BY <2>1, <2>2, <2>3, <2>4
<1> HIDE DEF pruned
<1>4. ~Exists(NoOperation) /\ NoOperation.stages = {}
  BY DEF Exists, NoOperation
<1>5. \A o \in OpIds : pruned.ops[o].phase = "cancelled" => Exists(pruned.ops[o])
  BY DEF Exists
<1>6. \A o \in OpIds : Live(mem.ops[o]) => Exists(mem.ops[o])
  BY DEF Live, Exists
<1>7. Evicts(mem, pruned)
  BY <1>1, <1>4, <1>5, <1>6 DEF Evicts
<1>8. Evicts(mem, Recovered(pruned))
  <2> SUFFICES ASSUME NEW o \in OpIds, Recovered(pruned).ops[o] = NoOperation,
                      ~Live(pruned.ops[o]) /\ pruned.ops[o].stages = {},
                      <<"grace", o>> \notin elapsed
               PROVE  /\ mem.ops[o].stages = {}
                      /\ ~Live(mem.ops[o]) \/ <<"operation", o>> \in elapsed
    BY <1>3, <1>4, <1>7 DEF Evicts
  <2> QED BY <1>1
<1> QED BY <1>0, <1>7, <1>8

LEMMA JobStepsEvict == ASSUME IInv, JobSteps PROVE Evicts(mem, mem')
<1>1. CASE StartAdmits
  <2>1. \A o \in Oldest(Reclaimable(mem), SlotsNeeded) :
           ~Live(mem.ops[o]) /\ mem.ops[o].stages = {}
    BY DEF Oldest, Reclaimable
  <2>2. \A o \in OpIds :
           \/ mem'.ops[o] = mem.ops[o]
           \/ /\ mem'.ops[o] = NoOperation
              /\ ~Live(mem.ops[o]) /\ mem.ops[o].stages = {}
    BY <1>1, <2>1, StartChanges
  <2>3. ~Exists(NoOperation) /\ NoOperation.stages = {}
    BY DEF Exists, NoOperation
  <2>4. \A o \in OpIds : Live(mem.ops[o]) => Exists(mem.ops[o])
    BY DEF Live, Exists
  <2> QED BY <2>2, <2>3, <2>4 DEF Evicts, Exists
<1>2. CASE ClaimAdmits
  <2>1. \A o \in OpIds : mem'.ops[o] = mem.ops[o] \/ Exists(mem'.ops[o])
    BY <1>2, ClaimChanges DEF NewOperation, Exists
  <2> QED BY <2>1 DEF Evicts, Live, Exists
<1>3. CASE Progress(mem, mem')
  BY <1>3 DEF Progress, OpsMoved, Moved, Evicts, Live, Exists
<1> QED BY <1>1, <1>2, <1>3, JobStepsProgress

LEMMA NextRetains ==
    ASSUME IInv, NothingUnowned, [Next]_vars
    PROVE  NothingUnowned' /\ (UNCHANGED vars \/ \A o \in OpIds : Retained(o))
<1>0. \A o \in OpIds : ~Exists(EmptyState.ops[o]) /\ EmptyState.ops[o].stages = {}
  BY DEF EmptyState, NoOperation, Exists
<1>1. CASE UNCHANGED vars
  BY <1>1 DEF vars, NothingUnowned
<1>2. CASE Acquire
  BY <1>2, AcquireEvicts, EvictsRetains
<1>3. CASE JobSteps
  BY <1>3, JobStepsHold, JobStepsEvict, EvictsRetains
<1>4. CASE Saved
  <2>1. disk' = mem /\ mem' = mem
    BY <1>4 DEF Saved
  <2>2. \A o \in OpIds : Live(mem.ops[o]) => Exists(mem.ops[o])
    BY DEF Live, Exists
  <2> QED BY <2>1, <2>2 DEF NothingUnowned, Retained
<1>5. CASE SaveFailed
  <2>1. mem' = EmptyState /\ disk' \in {disk, EmptyState}
    BY <1>5 DEF SaveFailed, AfterRefusedSave
  <2> QED BY <1>0, <2>1 DEF NothingUnowned, Retained
<1>6. CASE Restarts
  <2>1. mem' = Hydrate(disk) /\ mem' \in {disk, EmptyState} /\ disk' = disk
    BY <1>6 DEF Restarts, Hydrate
  <2> QED BY <1>0, <2>1 DEF NothingUnowned, Retained
<1>7. CASE Quietly
  <2>1. UNCHANGED <<mem, disk>>
    BY <1>7, QuietlyKeeps DEF IInv
  <2>2. \A o \in OpIds : Live(mem.ops[o]) => Exists(mem.ops[o])
    BY DEF Live, Exists
  <2> QED BY <2>1, <2>2 DEF NothingUnowned, Retained
<1> QED BY <1>1, <1>2, <1>3, <1>4, <1>5, <1>6, <1>7, NextCases

LEMMA InitUnowned == Init => NothingUnowned
<1> SUFFICES ASSUME Init PROVE NothingUnowned
  OBVIOUS
<1>1. disk \in UNION {sc.disks : sc \in Scenarios} /\ mem \in {disk, EmptyState}
  BY DEF Init, Hydrate
<1>2. \A o \in OpIds : Exists(disk.ops[o]) \/ disk.ops[o] = NoOperation
  BY <1>1, StoredStates
<1>3. NoOperation.stages = {} /\ \A o \in OpIds : EmptyState.ops[o] = NoOperation
  BY DEF EmptyState, NoOperation
<1> QED BY <1>1, <1>2, <1>3 DEF NothingUnowned

\* Making room costs history only: while it is live within its time, or owns a
\* stage, an operation is not forgotten by an admission, a repair or a sweep.
THEOREM CapabilitiesStay == Spec => CapabilitiesAreRetained
<1>1. Init => IInv /\ NothingUnowned
  BY InitFits, InitUnowned
<1>2. IInv /\ NothingUnowned /\ [Next]_vars => (IInv /\ NothingUnowned)'
  BY NextKeeps, NextRetains
<1>3. IInv /\ NothingUnowned /\ [Next]_vars =>
        [\A o \in OpIds :
            /\ \/ Live(mem.ops[o]) /\ <<"operation", o>> \notin elapsed
               \/ mem.ops[o].stages # {}
            /\ ~Exists(mem'.ops[o])
            => <<"grace", o>> \in elapsed \/ mem' \in {EmptyState, Hydrate(disk)}]_vars
  BY NextRetains DEF Retained
<1> QED
  BY <1>1, <1>2, <1>3, PTL DEF Spec, CapabilitiesAreRetained

-----------------------------------------------------------------------------
(* What is written can be read back, and a claim has room.                 *)

\* `hydrate` but for the live operations of a tab, of which OneHolder speaks.
Recorded(s) ==
    /\ Cardinality(Intents(s)) <= IntentLimit
    /\ Cardinality(Operations(s)) <= ReservationLimit
    /\ Cardinality(Surfaces(s)) <= SurfaceLimit
    /\ \A o \in Operations(s) : Fits(s.ops[o])

LEMMA HydratableRecords ==
    ASSUME NEW s \in State, OneHolder(s) PROVE Hydratable(s) <=> Recorded(s)
<1>1. ASSUME NEW t \in Tabs PROVE Cardinality(LiveOn(s, t)) <= 1
  <2>1. \A a, b \in LiveOn(s, t) : a = b
    <3> SUFFICES ASSUME NEW a \in LiveOn(s, t), NEW b \in LiveOn(s, t) PROVE a = b
      OBVIOUS
    <3>1. <<"operation", a>> \in Holders(s, t) /\ <<"operation", b>> \in Holders(s, t)
      BY DEF Holders
    <3>2. <<"operation", a>> = <<"operation", b>>
      BY <3>1 DEF OneHolder
    <3> QED BY <3>2
  <2>2. CASE LiveOn(s, t) = {}
    BY <2>2, FS_EmptySet
  <2>3. CASE LiveOn(s, t) # {}
    <3>1. PICK a \in LiveOn(s, t) : LiveOn(s, t) = {a}
      BY <2>1, <2>3
    <3>2. Cardinality({a}) = 1
      BY FS_Singleton
    <3>3. Cardinality(LiveOn(s, t)) = 1
      BY <3>1, <3>2
    <3> QED BY <3>3
  <2> QED BY <2>2, <2>3
<1>2. ASSUME NEW o \in Operations(s)
      PROVE  Fits(s.ops[o]) <=>
             LET op == s.ops[o] IN
             /\ op.outcome # "none" =>
                   /\ op.phase = "completed"
                   /\ IF op.outcome = "branch-preparation-ended"
                      THEN op.mode = "selected" /\ op.branch # "chosen"
                      ELSE op.mode = "current" \/ op.branch = "chosen"
             /\ op.mode = "current" =>
                   op.branch = "none" /\ op.phase \notin {"preparing", "awaiting-selection"}
             /\ op.phase = "awaiting-selection" => op.branch # "none"
             /\ op.phase = "exporting" => op.mode = "current" \/ op.branch = "chosen"
             /\ Cardinality(op.stages) <= StageLimit
  <2>1. s.ops[o].outcome \in {"none", "ended", "branch-preparation-ended"}
    BY DEF Operations, State, Operation
  <2> QED BY <2>1 DEF Fits
<1>3. (\A o \in Operations(s) : Fits(s.ops[o])) <=>
      \A o \in Operations(s) :
             LET op == s.ops[o] IN
             /\ op.outcome # "none" =>
                   /\ op.phase = "completed"
                   /\ IF op.outcome = "branch-preparation-ended"
                      THEN op.mode = "selected" /\ op.branch # "chosen"
                      ELSE op.mode = "current" \/ op.branch = "chosen"
             /\ op.mode = "current" =>
                   op.branch = "none" /\ op.phase \notin {"preparing", "awaiting-selection"}
             /\ op.phase = "awaiting-selection" => op.branch # "none"
             /\ op.phase = "exporting" => op.mode = "current" \/ op.branch = "chosen"
             /\ Cardinality(op.stages) <= StageLimit
  BY <1>2, Zenon
<1> QED BY <1>1, <1>3, Zenon DEF Hydratable, Recorded

\* Fewer records, each of which fits, are recorded, and reserve no more.
Slimmer(s, z) ==
    /\ Intents(z) \subseteq Intents(s) /\ Operations(z) \subseteq Operations(s)
    /\ WindowsFit(s, z)
    /\ \A o \in Operations(z) : Fits(s.ops[o]) => Fits(z.ops[o])

LEMMA SlimmerRecords ==
    ASSUME NEW s, NEW z, Slimmer(s, z)
    PROVE  /\ Recorded(s) => Recorded(z)
           /\ Reserved(z) <= Reserved(s) /\ Reserved(z) \in Nat
           /\ Cardinality(Intents(z)) <= Cardinality(Intents(s))
           /\ Cardinality(Operations(z)) <= Cardinality(Operations(s))
<1>1. Intents(z) \in SUBSET Intents(s) /\ Operations(z) \in SUBSET Operations(s)
  BY DEF Slimmer
<1>2. /\ Cardinality(Intents(z)) <= Cardinality(Intents(s))
      /\ Cardinality(Operations(z)) <= Cardinality(Operations(s))
  BY <1>1, RecordsFinite, IdentitiesFinite
<1>3. /\ Cardinality(Intents(z)) \in Nat /\ Cardinality(Intents(s)) \in Nat
      /\ Cardinality(Operations(z)) \in Nat /\ Cardinality(Operations(s)) \in Nat
      /\ IntentLimit \in Nat /\ ReservationLimit \in Nat
  BY RecordsFinite, ParametersAreSane
<1>4. Reserved(z) <= Reserved(s) /\ Reserved(z) \in Nat
  BY <1>2, <1>3 DEF Reserved
<1>5. ASSUME Recorded(s) PROVE Recorded(z)
  <2>1. Cardinality(Intents(z)) <= IntentLimit /\ Cardinality(Operations(z)) <= ReservationLimit
    BY <1>2, <1>3, <1>5 DEF Recorded
  <2>2. Cardinality(Surfaces(z)) <= SurfaceLimit
    BY <1>5 DEF Recorded, Slimmer, WindowsFit
  <2>3. \A o \in Operations(z) : Fits(z.ops[o])
    BY <1>1, <1>5 DEF Recorded, Slimmer
  <2> QED BY <2>1, <2>2, <2>3 DEF Recorded
<1> QED BY <1>2, <1>4, <1>5

LEMMA ProgressSlims == ASSUME NEW s, NEW z, Progress(s, z) PROVE Slimmer(s, z)
<1>1. Intents(z) \subseteq Intents(s)
  BY DEF Progress, IntentsKept, Intents
<1>2. Operations(z) \subseteq Operations(s)
  BY DEF Progress, OpsMoved, Moved, Operations
<1>3. \A o \in Operations(z) : Fits(s.ops[o]) => Fits(z.ops[o])
  BY <1>2 DEF Progress, OpsMoved, Moved, Operations
<1> QED BY <1>1, <1>2, <1>3 DEF Slimmer, Progress

\* Nothing is there in the empty state.
LEMMA EmptyRecords == Recorded(EmptyState) /\ Reserved(EmptyState) = 0
<1>1. /\ Intents(EmptyState) = {} /\ Operations(EmptyState) = {} /\ Surfaces(EmptyState) = {}
  BY DEF EmptyState, NoIntent, NoOperation, NoSurface, Intents, Operations, Surfaces, Exists
<1>2. /\ Cardinality(Intents(EmptyState)) = 0 /\ Cardinality(Operations(EmptyState)) = 0
      /\ Cardinality(Surfaces(EmptyState)) = 0
  BY <1>1, FS_EmptySet
<1>3. IntentLimit \in Nat /\ ReservationLimit \in Nat /\ SurfaceLimit \in Nat
  BY ParametersAreSane
<1>4. Recorded(EmptyState)
  BY <1>1, <1>2, <1>3 DEF Recorded
<1>5. Reserved(EmptyState) = 0
  BY <1>2 DEF Reserved
<1> QED BY <1>4, <1>5

\* Memory can always be stored and read back; whoever holds the lock sees no more
\* reservations than there are slots.
RInv == Recorded(mem) /\ ClaimHasRoom

LEMMA SlimmerKeepsRoom ==
    ASSUME RInv, Slimmer(mem, mem'), job'.at = "idle" \/ job.at # "idle" PROVE RInv'
<1>1. Recorded(mem') /\ Reserved(mem') <= Reserved(mem) /\ Reserved(mem') \in Nat
  BY SlimmerRecords DEF RInv
<1>2. Reserved(mem) \in Nat /\ ReservationLimit \in Nat
  BY RecordsFinite, ParametersAreSane DEF Reserved
<1>3. ClaimHasRoom'
  BY <1>1, <1>2 DEF RInv, ClaimHasRoom
<1> QED BY <1>1, <1>3 DEF RInv

\* Pruning and repair leave no more reservations than there are slots.
LEMMA AcquireMakesRoom == ASSUME IInv, RInv, Acquire PROVE RInv'
<1> DEFINE pruned == Pruned(mem)
           repaired == Recovered(pruned)
           overflow == Reserved(pruned) - ReservationLimit
           gone == Oldest(Reclaimable(pruned), overflow)
           kept == Without(pruned, gone)
           held == Cardinality(Operations(kept))
           room == IF held < ReservationLimit THEN ReservationLimit - held ELSE 0
           waiting == Oldest(Intents(kept), room)
<1>0. mem \in State
  BY DEF IInv, TypeOK
<1>1. \/ mem' = pruned /\ ~(Reserved(pruned) > ReservationLimit)
      \/ mem' = repaired /\ Reserved(pruned) > ReservationLimit
  BY DEF Acquire
<1>2. Slimmer(mem, pruned) /\ pruned \in State
  <2>1. pruned \in State /\ Intents(pruned) \subseteq Intents(mem)
    BY <1>0, PrunedWeaker DEF Weaker, GrantsKept, IntentsKept, Intents
  <2>2. \A o \in OpIds :
           \/ pruned.ops[o] = NoOperation
           \/ pruned.ops[o] = mem.ops[o]
           \/ /\ Live(mem.ops[o]) /\ pruned.ops[o] = [mem.ops[o] EXCEPT !.phase = "cancelled"]
    BY <1>0 DEF Pruned, State, Operation
  <2>3. Surfaces(pruned) \subseteq Surfaces(mem)
    BY <1>0 DEF Pruned, State, Surfaces, NoSurface
  <2> HIDE DEF pruned
  <2>4. ASSUME NEW o \in Operations(pruned)
        PROVE  o \in Operations(mem) /\ (Fits(mem.ops[o]) => Fits(pruned.ops[o]))
    <3>1. o \in OpIds /\ pruned.ops[o] # NoOperation /\ mem.ops[o] \in Operation
      BY <1>0 DEF Operations, Exists, NoOperation, State
    <3>2. CASE pruned.ops[o] = mem.ops[o]
      BY <3>2 DEF Operations
    <3>3. CASE Live(mem.ops[o]) /\ pruned.ops[o] = [mem.ops[o] EXCEPT !.phase = "cancelled"]
      <4>1. /\ pruned.ops[o].phase = "cancelled" /\ pruned.ops[o].outcome = mem.ops[o].outcome
            /\ pruned.ops[o].mode = mem.ops[o].mode /\ pruned.ops[o].branch = mem.ops[o].branch
            /\ pruned.ops[o].stages = mem.ops[o].stages
        BY <3>1, <3>3 DEF Operation
      <4>2. Live(mem.ops[o])
        BY <3>3
      <4>3. o \in Operations(mem)
        BY <3>1, <4>2 DEF Operations, Exists, Live
      <4>4. Fits(mem.ops[o]) => Fits(pruned.ops[o])
        BY <4>1, <4>2 DEF Live, Fits
      <4> QED BY <4>3, <4>4
    <3> QED BY <2>2, <3>1, <3>2, <3>3
  <2>5. WindowsFit(mem, pruned)
    BY <2>3, FewerWindows
  <2> QED BY <2>1, <2>4, <2>5 DEF Slimmer
<1>3. Recorded(pruned) /\ Reserved(pruned) \in Nat
  BY <1>2, SlimmerRecords DEF RInv
<1> HIDE DEF pruned
<1>4. repaired = DropIntents(kept, Intents(kept) \ waiting)
  BY DEF Recovered
<1> HIDE DEF gone
<1>5. /\ kept.intents = pruned.intents /\ kept.surfaces = pruned.surfaces /\ kept \in State
      /\ \A o \in OpIds : kept.ops[o] = IF o \in gone THEN NoOperation ELSE pruned.ops[o]
  BY <1>2, WithoutWeaker DEF Without, State, Weaker, GrantsKept
<1>6. Slimmer(pruned, kept)
  <2>1. Intents(kept) \subseteq Intents(pruned) /\ Surfaces(kept) \subseteq Surfaces(pruned)
    BY <1>5 DEF Intents, Surfaces
  <2>2. \A o \in Operations(kept) : o \in Operations(pruned) /\ kept.ops[o] = pruned.ops[o]
    BY <1>5 DEF Operations, Exists, NoOperation
  <2> HIDE DEF kept
  <2>3. WindowsFit(pruned, kept)
    BY <2>1, FewerWindows
  <2> QED BY <2>1, <2>2, <2>3 DEF Slimmer
<1>7. Recorded(kept)
  BY <1>3, <1>6, SlimmerRecords
<1> HIDE DEF kept
<1>8. Slimmer(kept, repaired) /\ Operations(repaired) = Operations(kept)
      /\ Intents(repaired) \subseteq waiting
  <2>1. Progress(kept, repaired)
    BY <1>4, <1>5, DropIntentsProgress
  <2>2. repaired.ops = kept.ops
    BY <1>4, <1>5 DEF DropIntents, State
  <2>3. repaired.intents = [i \in IntentIds |-> IF i \in Intents(kept) \ waiting THEN NoIntent
                                              ELSE kept.intents[i]]
    BY <1>4, <1>5 DEF DropIntents, State
  <2> HIDE DEF waiting, repaired
  <2>4. \A i \in Intents(repaired) : i \in waiting
    BY <2>3 DEF Intents, NoIntent
  <2> QED BY <2>1, <2>2, <2>4, ProgressSlims DEF Operations
<1>9. Recorded(repaired)
  BY <1>7, <1>8, SlimmerRecords
<1>10. Reserved(repaired) <= ReservationLimit
  <2>1. held \in Nat /\ held <= ReservationLimit /\ ReservationLimit \in Nat
    BY <1>7, RecordsFinite, ParametersAreSane DEF Recorded
  <2>2. room \in Nat /\ held + room = ReservationLimit
    <3>1. CASE held < ReservationLimit
      BY <2>1, <3>1
    <3>2. CASE ~(held < ReservationLimit)
      BY <2>1, <3>2
    <3> QED BY <3>1, <3>2
  <2> HIDE DEF room
  <2>3. Cardinality(waiting) <= room /\ waiting \in SUBSET (1 .. MaxIntents) /\ MaxIntents \in Nat
    <3>1. Intents(kept) \in SUBSET (1 .. MaxIntents) /\ MaxIntents \in Nat
      BY RecordsFinite
    <3>2. waiting \subseteq Intents(kept)
      BY DEF Oldest
    <3> QED BY <2>2, <3>1, <3>2, OldestFew
  <2>4. Cardinality(Intents(repaired)) <= Cardinality(waiting) /\ Cardinality(waiting) \in Nat
    BY <1>8, <2>3, IdentitiesFinite
  <2>5. Cardinality(Intents(repaired)) \in Nat
    BY RecordsFinite
  <2>6. Cardinality(Intents(repaired)) <= room
    BY <2>2, <2>3, <2>4, <2>5
  <2>7. Cardinality(Operations(repaired)) = held
    BY <1>8
  <2> HIDE DEF held, repaired
  <2> QED BY <2>1, <2>2, <2>5, <2>6, <2>7 DEF Reserved
<1> HIDE DEF repaired
<1>11. CASE mem' = pruned /\ ~(Reserved(pruned) > ReservationLimit)
  <2>1. Reserved(pruned) <= ReservationLimit
    BY <1>3, <1>11, ParametersAreSane
  <2> QED BY <1>3, <1>11, <2>1 DEF RInv, ClaimHasRoom
<1>12. CASE mem' = repaired
  BY <1>9, <1>10, <1>12 DEF RInv, ClaimHasRoom
<1> QED BY <1>1, <1>11, <1>12

\* A click takes a free slot, or that of the history it evicts.
LEMMA StartHasRoom == ASSUME IInv, RInv, StartAdmits PROVE RInv'
<1> DEFINE i == next.intent
           gone == Oldest(Reclaimable(mem), SlotsNeeded)
<1>1. /\ i \in IntentIds /\ Surfaces(mem') = Surfaces(mem)
      /\ \A x \in IntentIds : mem'.intents[x].there <=> (x = i \/ mem.intents[x].there)
      /\ \A o \in OpIds : mem'.ops[o] = IF o \in gone THEN NoOperation ELSE mem.ops[o]
  BY StartChanges DEF Surfaces
<1>2. /\ Cardinality(Intents(mem)) < IntentLimit
      /\ Cardinality(Reclaimable(mem)) >= SlotsNeeded
      /\ Reserved(mem) <= ReservationLimit
  BY DEF StartAdmits, At, IInv, CheckHolds, Checked, RInv, ClaimHasRoom
<1>3. /\ Reserved(mem) \in Nat /\ ReservationLimit \in Nat /\ IntentLimit \in Nat
      /\ Cardinality(Operations(mem)) \in Nat /\ Cardinality(Operations(mem')) \in Nat
      /\ Cardinality(Intents(mem)) \in Nat /\ Cardinality(Intents(mem')) \in Nat
      /\ Reserved(mem) = Cardinality(Operations(mem)) + Cardinality(Intents(mem))
      /\ Reserved(mem') = Cardinality(Operations(mem')) + Cardinality(Intents(mem'))
  BY RecordsFinite, ParametersAreSane DEF Reserved
<1>4. Cardinality(Intents(mem')) <= Cardinality(Intents(mem)) + 1
  <2>1. Intents(mem') \in SUBSET (Intents(mem) \cup {i})
    BY <1>1 DEF Intents
  <2>2. Intents(mem) \cup {i} \in SUBSET (1 .. MaxIntents) /\ MaxIntents \in Nat
    BY <1>1, RecordsFinite DEF IntentIds
  <2>3. Cardinality(Intents(mem')) <= Cardinality(Intents(mem) \cup {i})
        /\ Cardinality(Intents(mem) \cup {i}) \in Nat
    BY <2>1, <2>2, IdentitiesFinite
  <2>4. Cardinality(Intents(mem) \cup {i}) <= Cardinality(Intents(mem)) + 1
    <3>0. IsFiniteSet(Intents(mem))
      BY RecordsFinite, IdentitiesFinite
    <3>1. CASE i \in Intents(mem)
      <4>1. Intents(mem) \cup {i} = Intents(mem)
        BY <3>1
      <4>2. Cardinality(Intents(mem) \cup {i}) = Cardinality(Intents(mem))
        BY <4>1
      <4> QED BY <1>3, <4>2
    <3>2. CASE i \notin Intents(mem)
      <4>1. Cardinality(Intents(mem) \cup {i}) = Cardinality(Intents(mem)) + 1
        BY <3>0, <3>2, FS_AddElement
      <4> QED BY <1>3, <4>1
    <3> QED BY <3>1, <3>2
  <2> QED BY <1>3, <2>3, <2>4
<1>5. \A o \in Operations(mem') : o \in Operations(mem) /\ o \notin gone
                                  /\ mem'.ops[o] = mem.ops[o]
  BY <1>1 DEF Operations, Exists, NoOperation
<1>6. Cardinality(Operations(mem')) <= Cardinality(Operations(mem))
  <2>1. Operations(mem') \in SUBSET Operations(mem)
    BY <1>5
  <2> QED BY <2>1, RecordsFinite, IdentitiesFinite
<1>7. Reserved(mem') <= ReservationLimit
  <2>1. CASE Reserved(mem) + 1 <= ReservationLimit
    BY <1>3, <1>4, <1>6, <2>1
  <2>2. CASE ~(Reserved(mem) + 1 <= ReservationLimit)
    <3>1. Reserved(mem) = ReservationLimit
      BY <1>2, <1>3, <2>2
    <3>2. SlotsNeeded = 1
      BY <1>3, <3>1 DEF SlotsNeeded
    <3>3. Reclaimable(mem) # {}
      <4>1. Cardinality(Reclaimable(mem)) # 0
        <5>1. Reclaimable(mem) \in SUBSET (1 .. MaxOps)
          BY RecordsFinite DEF Reclaimable
        <5>2. Cardinality(Reclaimable(mem)) \in Nat
          BY <5>1, RecordsFinite, IdentitiesFinite
        <5>3. Cardinality(Reclaimable(mem)) >= 1
          BY <1>2, <3>2
        <5> QED BY <5>2, <5>3
      <4> QED BY <4>1, FS_EmptySet
    <3>4. PICK x \in Reclaimable(mem) : x \in Oldest(Reclaimable(mem), 1)
      <4>1. Reclaimable(mem) \in SUBSET (1 .. MaxOps) /\ MaxOps \in Nat
        BY RecordsFinite DEF Reclaimable
      <4> QED BY <3>3, <4>1, OldestOne
    <3>5. x \in Operations(mem) /\ x \in gone
      BY <3>2, <3>4 DEF Reclaimable
    <3>6. Operations(mem') \in SUBSET (Operations(mem) \ {x})
      BY <1>5, <3>5
    <3>7. IsFiniteSet(Operations(mem)) /\ Operations(mem) \ {x} \in SUBSET (1 .. MaxOps)
          /\ MaxOps \in Nat
      BY RecordsFinite, IdentitiesFinite
    <3>8. Cardinality(Operations(mem) \ {x}) = Cardinality(Operations(mem)) - 1
      BY <3>5, <3>7, FS_RemoveElement
    <3>9. Cardinality(Operations(mem')) <= Cardinality(Operations(mem) \ {x})
      BY <3>6, <3>7, IdentitiesFinite
    <3>10. Cardinality(Operations(mem')) <= Cardinality(Operations(mem)) - 1
      BY <3>8, <3>9
    <3> QED BY <1>3, <1>4, <3>1, <3>10
  <2> QED BY <2>1, <2>2
<1>8. Recorded(mem')
  <2>1. Cardinality(Intents(mem')) <= IntentLimit
    BY <1>2, <1>3, <1>4
  <2>2. Cardinality(Operations(mem')) <= ReservationLimit
    BY <1>3, <1>6 DEF RInv, Recorded
  <2>3. Cardinality(Surfaces(mem')) <= SurfaceLimit
    BY <1>1 DEF RInv, Recorded
  <2>4. \A o \in Operations(mem') : Fits(mem'.ops[o])
    BY <1>5 DEF RInv, Recorded
  <2> QED BY <2>1, <2>2, <2>3, <2>4 DEF Recorded
<1> QED BY <1>7, <1>8 DEF RInv, ClaimHasRoom

\* A claim takes the slot of its click.
LEMMA ClaimUsesRoom == ASSUME IInv, RInv, ClaimAdmits PROVE RInv'
<1> DEFINE i == req.id
           o == next.op
<1>0. job.at # "idle"
  BY DEF ClaimAdmits, At
<1>1. CASE UNCHANGED <<mem, next>>
  BY <1>0, <1>1 DEF RInv, ClaimHasRoom
<1>2. CASE /\ o \in OpIds /\ i \in IntentIds /\ mem.intents[i].there
           /\ Cardinality(Operations(mem)) < ReservationLimit
           /\ NewOperation(mem'.ops[o])
           /\ \A x \in IntentIds : mem'.intents[x].there <=> (x # i /\ mem.intents[x].there)
           /\ \A x \in OpIds \ {o} : mem'.ops[x] = mem.ops[x]
           /\ Surfaces(mem') = Surfaces(mem)
  <2>1. /\ Reserved(mem) \in Nat /\ ReservationLimit \in Nat /\ IntentLimit \in Nat
        /\ Cardinality(Operations(mem)) \in Nat /\ Cardinality(Operations(mem')) \in Nat
        /\ Cardinality(Intents(mem)) \in Nat /\ Cardinality(Intents(mem')) \in Nat
        /\ Reserved(mem) = Cardinality(Operations(mem)) + Cardinality(Intents(mem))
        /\ Reserved(mem') = Cardinality(Operations(mem')) + Cardinality(Intents(mem'))
    BY RecordsFinite, ParametersAreSane DEF Reserved
  <2>2. Cardinality(Intents(mem')) = Cardinality(Intents(mem)) - 1
    <3>1. Intents(mem') = Intents(mem) \ {i} /\ i \in Intents(mem)
      BY <1>2 DEF Intents
    <3>2. IsFiniteSet(Intents(mem))
      BY RecordsFinite, IdentitiesFinite
    <3> QED BY <3>1, <3>2, FS_RemoveElement
  <2>3. Operations(mem') \in SUBSET (Operations(mem) \cup {o})
    BY <1>2 DEF Operations
  <2>4. Operations(mem) \cup {o} \in SUBSET (1 .. MaxOps) /\ MaxOps \in Nat
    BY <1>2, RecordsFinite DEF OpIds
  <2>5. Cardinality(Operations(mem')) <= Cardinality(Operations(mem) \cup {o})
        /\ Cardinality(Operations(mem) \cup {o}) \in Nat
    BY <2>3, <2>4, IdentitiesFinite
  <2>6. Cardinality(Operations(mem) \cup {o}) <= Cardinality(Operations(mem)) + 1
    <3>0. IsFiniteSet(Operations(mem))
      BY RecordsFinite, IdentitiesFinite
    <3>1. CASE o \in Operations(mem)
      <4>1. Operations(mem) \cup {o} = Operations(mem)
        BY <3>1
      <4>2. Cardinality(Operations(mem) \cup {o}) = Cardinality(Operations(mem))
        BY <4>1
      <4> QED BY <2>1, <4>2
    <3>2. CASE o \notin Operations(mem)
      <4>1. Cardinality(Operations(mem) \cup {o}) = Cardinality(Operations(mem)) + 1
        BY <3>0, <3>2, FS_AddElement
      <4> QED BY <2>1, <4>1
    <3> QED BY <3>1, <3>2
  <2>7. Cardinality(Operations(mem')) <= Cardinality(Operations(mem)) + 1
    BY <2>1, <2>5, <2>6
  <2>8. Reserved(mem') <= Reserved(mem)
    BY <2>1, <2>2, <2>7
  <2>9. ClaimHasRoom'
    <3>1. Reserved(mem) <= ReservationLimit
      BY <1>0 DEF RInv, ClaimHasRoom
    <3>2. Reserved(mem') \in Nat
      BY <2>1
    <3>3. Reserved(mem') <= ReservationLimit
      BY <2>1, <2>8, <3>1, <3>2
    <3> QED BY <3>3 DEF ClaimHasRoom
  <2>10. Cardinality(Operations(mem')) <= ReservationLimit
    BY <1>2, <2>1, <2>7
  <2>11. Cardinality(Intents(mem')) <= IntentLimit
    <3>1. Cardinality(Intents(mem)) <= IntentLimit
      BY DEF RInv, Recorded
    <3> QED BY <2>1, <2>2, <3>1
  <2>12. Cardinality(Surfaces(mem')) <= SurfaceLimit
    BY <1>2 DEF RInv, Recorded
  <2>13. \A x \in Operations(mem') : Fits(mem'.ops[x])
    <3>1. Fits(mem'.ops[o])
      <4>1. Cardinality({}) <= StageLimit
        BY FS_EmptySet, ParametersAreSane
      <4> QED BY <1>2, <4>1 DEF NewOperation, Fits
    <3>2. \A x \in Operations(mem') : x # o => x \in Operations(mem) /\ mem'.ops[x] = mem.ops[x]
      BY <1>2 DEF Operations
    <3> QED BY <3>1, <3>2 DEF RInv, Recorded
  <2>14. Recorded(mem')
    BY <2>10, <2>11, <2>12, <2>13 DEF Recorded
  <2> QED BY <2>9, <2>14 DEF RInv
<1> QED BY <1>1, <1>2, ClaimChanges

\* What a worker hydrates can be stored again.
LEMMA HydratedRecords ==
    ASSUME NEW s \in State, OneHolder(s) PROVE Recorded(Hydrate(s))
  BY HydratableRecords, EmptyRecords DEF Hydrate

LEMMA NextKeepsRoom == IInv /\ RInv /\ [Next]_vars => RInv'
<1> SUFFICES ASSUME IInv, RInv, [Next]_vars PROVE RInv'
  OBVIOUS
<1>1. CASE UNCHANGED vars
  BY <1>1 DEF vars, RInv, ClaimHasRoom
<1>2. CASE Acquire
  BY <1>2, AcquireMakesRoom
<1>3. CASE Saved
  <2>1. mem' = mem /\ job.at # "idle"
    BY <1>3 DEF Saved
  <2> QED BY <2>1 DEF RInv, ClaimHasRoom
<1>4. CASE SaveFailed
  <2>1. mem' = EmptyState
    BY <1>4 DEF SaveFailed, AfterRefusedSave
  <2> QED BY <2>1, EmptyRecords, ParametersAreSane DEF RInv, ClaimHasRoom
<1>5. CASE Restarts
  <2>1. mem' = Hydrate(disk) /\ job'.at = "idle"
    BY <1>5 DEF Restarts, NoJob
  <2> QED BY <2>1, HydratedRecords DEF IInv, TypeOK, Grants, RInv, ClaimHasRoom
<1>6. CASE JobSteps
  <2>1. CASE Progress(mem, mem')
    BY <1>6, <2>1, JobStepsHold, ProgressSlims, SlimmerKeepsRoom
  <2> QED BY <1>6, <2>1, JobStepsProgress, StartHasRoom, ClaimUsesRoom
<1>7. CASE Quietly
  <2>1. mem' = mem /\ (job'.at = "idle" <=> job.at = "idle")
    BY <1>7, QuietlyKeeps DEF IInv
  <2> QED BY <2>1 DEF RInv, ClaimHasRoom
<1> QED BY <1>1, <1>2, <1>3, <1>4, <1>5, <1>6, <1>7, NextCases

LEMMA InitHasRoom == Init => RInv
<1> SUFFICES ASSUME Init PROVE RInv
  OBVIOUS
<1>1. IInv
  BY InitFits
<1>2. mem = Hydrate(disk) /\ job.at = "idle"
  BY DEF Init, NoJob
<1> QED BY <1>1, <1>2, HydratedRecords DEF IInv, TypeOK, Grants, RInv, ClaimHasRoom

\* What a step stores can be read back.
LEMMA StoredIsHydratable ==
    ASSUME IInv, RInv, [Next]_vars PROVE disk' = disk \/ Hydratable(disk')
<1>1. disk' \in {disk, EmptyState, mem}
  BY StorageChanges DEF IInv
<1>2. Hydratable(mem)
  BY HydratableRecords DEF IInv, TypeOK, Grants, RInv
<1>3. Hydratable(EmptyState)
  <2>1. OneHolder(EmptyState) /\ EmptyState \in State
    BY EmptyStateFits DEF OneHolder
  <2> QED BY <2>1, EmptyRecords, HydratableRecords
<1> QED BY <1>1, <1>2, <1>3

\* The room of a click lasts until its claim: whoever holds the lock sees no more
\* pending clicks and retained operations than there are slots.
THEOREM RoomLasts == Spec => []ClaimHasRoom
<1>1. Init => IInv /\ RInv
  BY InitFits, InitHasRoom
<1>2. IInv /\ RInv /\ [Next]_vars => (IInv /\ RInv)'
  BY NextKeeps, NextKeepsRoom
<1>3. RInv => ClaimHasRoom
  BY DEF RInv
<1> QED BY <1>1, <1>2, <1>3, PTL DEF Spec

\* No write of the controller is refused by its own hydrate, whatever the first
\* worker found.
THEOREM WritesAreReadable == Spec => [][disk' = disk \/ Hydratable(disk')]_vars
<1>1. Init => IInv /\ RInv
  BY InitFits, InitHasRoom
<1>2. IInv /\ RInv /\ [Next]_vars => (IInv /\ RInv)'
  BY NextKeeps, NextKeepsRoom
<1>3. IInv /\ RInv /\ [Next]_vars => [disk' = disk \/ Hydratable(disk')]_vars
  BY StoredIsHydratable
<1> QED BY <1>1, <1>2, <1>3, PTL DEF Spec

\* So a successor takes what a lost worker left, at every moment, if the first
\* worker of the session could read what it found.
THEOREM SuccessorsHydrate == Spec /\ Hydratable(disk) => []DiskIsHydratable
<1>1. Init => IInv /\ RInv
  BY InitFits, InitHasRoom
<1>2. IInv /\ RInv /\ [Next]_vars => (IInv /\ RInv)'
  BY NextKeeps, NextKeepsRoom
<1>3. IInv /\ RInv /\ DiskIsHydratable /\ [Next]_vars => DiskIsHydratable'
  BY StoredIsHydratable DEF DiskIsHydratable
<1>4. Hydratable(disk) => DiskIsHydratable
  BY DEF DiskIsHydratable
<1> QED BY <1>1, <1>2, <1>3, <1>4, PTL DEF Spec
=============================================================================

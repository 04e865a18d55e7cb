------------------------- MODULE ExportGrantsProofs -------------------------
(***************************************************************************)
(* What ExportOperation guarantees of what it gives away, grants and       *)
(* stages, for every value of its constants.  A grant is stored before     *)
(* anybody acts on it, nothing that the worker was told contradicts it,    *)
(* and what has ended stays ended.  The bytes of a stage are given away    *)
(* once and always have somebody who answers for them.  And all of it      *)
(* implements ExportAuthority.                                             *)
(*                                                                         *)
(* A message is admitted after several awaits, and anything may happen     *)
(* during each.  The argument follows the job that decides: at each of its *)
(* steps either what it has read so far still agrees with the browser, or  *)
(* the notification that says otherwise has not been delivered, or it has, *)
(* and then an epoch has moved and the last comparison refuses.            *)
(*                                                                         *)
(* The section on revocation follows the notification instead: from its    *)
(* delivery to the end of what it revokes it waits for the lock or holds   *)
(* it, and every message delivered before it is outdated by it.            *)
(*                                                                         *)
(* The argument about a stage follows the messages that are about it: they *)
(* are apart, each agrees with what has become of the stage, and the job   *)
(* that gives the bytes away has taken the stage from its operation first, *)
(* in memory and, unless that was refused, in the storage.                 *)
(***************************************************************************)
EXTENDS ExportOperationProofs, ExportRefinement

\* The job is at one of these steps, or will be once its save is acknowledged.
Heading(steps) == job.at \in steps \/ (job.at = "save" /\ job.onSaved \in steps)

\* Only a message of a document is judged, after the question to the browser; a
\* verdict is never the continuation of a save, and a refused save leads to none.
VerdictsAreJudged ==
    /\ {job.onSaved, job.onFailed} \cap {"final", "granted"} = {} /\ job.onFailed # "recheck"
    /\ Heading({"recheck", "final"}) => req.kind \in {"authorize", "commit"}

\* A message carries epochs of its arrival, which only grow afterwards.
HeardBefore(r) == r.epoch <= epoch[r.tab] /\ r.revision <= revision

Stamped ==
    /\ \A i \in DOMAIN queue : HeardBefore(queue[i])
    /\ \A h \in running : HeardBefore(h)
    /\ HeardBefore(req) /\ job.revision <= revision

\* The browser agrees, or has a notification to deliver.
TabTold(t) ==
    \E e \in DOMAIN events : events[e].kind \in {"changed", "removed"} /\ events[e].tab = t
SettingsTold == \E e \in DOMAIN events : events[e].kind = "settings"
TabAgrees(t, r) == Current(t, r) \/ TabTold(t)
SettingsAgree(v) == settings = v \/ SettingsTold

\* The settings that a job has read are those in effect unless their revision
\* has moved, and from its admission on they are those of the operation.
SettingsFollow ==
    /\ Heading({"settings", "admit", "recheck", "final"}) => req.revision <= job.revision
    /\ Heading({"admit", "recheck", "final"}) /\ job.revision = revision =>
           SettingsAgree(job.settings)
    /\ Heading({"recheck", "final"}) => job.settings = theOp.settings

\* A positive answer about the tab is true unless its epoch has moved.
TabFollows ==
    job.at = "final" /\ job.current /\ req.tab = theOp.tab /\ epoch[req.tab] = req.epoch =>
        TabAgrees(theOp.tab, theOp.route)

GInv ==
    /\ VerdictsAreJudged /\ Stamped /\ SettingsFollow /\ TabFollows
    /\ GrantsAreDurable /\ GrantIsFresh

-----------------------------------------------------------------------------
(* Steps of a job that decide nothing.                                     *)

Deciding == {"settings", "admit", "recheck", "final", "granted"}

\* A job outside the decision owes nothing but its epochs and what is stored.
LEMMA Undecided ==
    ASSUME job'.at \notin Deciding, job'.at = "save" => job'.onSaved \notin Deciding,
           VerdictsAreJudged', Stamped', GrantsAreDurable'
    PROVE  GInv'
  BY DEF GInv, Deciding, Heading, SettingsFollow, TabFollows, GrantIsFresh, Granted

\* What is stored and pending stays so when neither memory nor storage changes.
LEMMA DurableKept ==
    ASSUME GrantsAreDurable, job.at # "save", UNCHANGED <<mem, disk>>
    PROVE  GrantsAreDurable'
  BY DEF GrantsAreDurable, Intents

\* A job that ends.
LEMMA EndFollows ==
    ASSUME GInv, job.at # "save", Finish, UNCHANGED <<mem, disk>>,
           epoch' \in [Tabs -> Nat], revision' \in Nat,
           \A i \in DOMAIN queue' : HeardBefore(queue[i])',
           \A h \in running' : HeardBefore(h)'
    PROVE  GInv'
<1>1. /\ job'.at = "idle" /\ job'.onSaved = "done" /\ job'.onFailed = "done"
      /\ job'.revision = 0 /\ job'.req = Ask("settings")
  BY DEF Finish, NoJob
<1>2. /\ Ask("settings").epoch = 0 /\ Ask("settings").revision = 0
      /\ Ask("settings").tab \in Tabs
  BY ParametersAreSane DEF Ask, AnyTab
<1>3. VerdictsAreJudged'
  BY <1>1 DEF VerdictsAreJudged, Heading
<1>4. Stamped'
  <2>1. HeardBefore(req)' /\ job'.revision <= revision'
    BY <1>1, <1>2 DEF HeardBefore, req
  <2> QED BY <2>1 DEF Stamped
<1>5. GrantsAreDurable'
  BY DurableKept DEF GInv
<1> QED BY <1>1, <1>3, <1>4, <1>5, Undecided DEF Deciding

\* The epochs of a request are those of any other with the same stamps.
LEMMA StampedKept ==
    ASSUME Stamped, UNCHANGED <<queue, running, epoch, revision>>,
           job'.req.tab = req.tab, job'.req.epoch = req.epoch,
           job'.req.revision = req.revision, job'.revision = job.revision
    PROVE  Stamped'
  BY DEF Stamped, HeardBefore, req

\* A job that goes on outside the decision.
LEMMA GoFollows ==
    ASSUME IInv, GInv, job.at # "save", NEW step \in Steps, Go(step), step \notin Deciding \cup {"save"},
           UNCHANGED <<Outside, mem>>
    PROVE  GInv'
<1>0. UNCHANGED <<mem, disk, queue, running, epoch, revision>> /\ job \in Job
  BY DEF Outside, volatile, IInv, TypeOK
<1>1. CASE step = "done"
  <2>1. Finish
    BY <1>1 DEF Go
  <2>2. epoch' \in [Tabs -> Nat] /\ revision' \in Nat
    BY <1>0 DEF IInv, TypeOK
  <2> QED BY <1>0, <2>1, <2>2, EndFollows DEF GInv, Stamped, HeardBefore
<1>2. CASE step # "done"
  <2>1. job' = [job EXCEPT !.at = step]
    BY <1>2 DEF Go
  <2>2. /\ job'.at = step /\ job'.onSaved = job.onSaved /\ job'.onFailed = job.onFailed
        /\ job'.req = job.req /\ job'.revision = job.revision
    BY <1>0, <2>1 DEF Job
  <2>3. VerdictsAreJudged'
    BY <2>2 DEF GInv, VerdictsAreJudged, Heading, Deciding, req
  <2>4. Stamped'
    BY <1>0, <2>2, StampedKept DEF GInv, req
  <2>5. GrantsAreDurable'
    BY <1>0, DurableKept DEF GInv
  <2> QED BY <2>2, <2>3, <2>4, <2>5, Undecided
<1> QED BY <1>1, <1>2

\* A job that saves, and then goes on outside the decision.
LEMMA SaveFollows ==
    ASSUME IInv, GInv, NEW state, NEW onSaved \in Steps, NEW onFailed \in Steps,
           SaveThen(state, onSaved, onFailed),
           {onSaved, onFailed} \cap Deciding = {}, onFailed # "recheck",
           UNCHANGED <<queue, running, epoch, revision>>
    PROVE  GInv'
<1>1. job' = [job EXCEPT !.at = "save", !.onSaved = onSaved, !.onFailed = onFailed]
  BY DEF SaveThen
<1>2. job \in Job
  BY DEF IInv, TypeOK
<1>3. /\ job'.at = "save" /\ job'.onSaved = onSaved /\ job'.onFailed = onFailed
      /\ job'.req = job.req /\ job'.revision = job.revision
  BY <1>1, <1>2 DEF Job
<1>4. VerdictsAreJudged'
  BY <1>3 DEF VerdictsAreJudged, Heading, Deciding, req
<1>5. Stamped'
  BY <1>3, StampedKept DEF GInv, req
<1>6. GrantsAreDurable'
  BY <1>3 DEF GrantsAreDurable
<1> QED BY <1>3, <1>4, <1>5, <1>6, Undecided DEF Deciding

\* A cancellation that ends the decision.
LEMMA CancelFollows ==
    ASSUME IInv, GInv, job.at # "save", NEW o, NEW step \in {"done", "refused"},
           CancelThen(o, step), UNCHANGED Outside
    PROVE  GInv'
<1>0. UNCHANGED <<queue, running, epoch, revision>>
  BY DEF Outside, volatile
<1>1. /\ {"done", "refused"} \subseteq Steps /\ "done" \notin Deciding /\ "refused" \notin Deciding
      /\ "refused" # "save" /\ "done" # "save" /\ "done" # "recheck"
  BY DEF Steps, Deciding
<1>2. CASE Live(mem.ops[o])
  <2>1. SaveThen(Cancelled(mem, o), step, "done")
    BY <1>2 DEF CancelThen
  <2>2. step \in Steps /\ "done" \in Steps /\ {step, "done"} \cap Deciding = {}
    BY <1>1
  <2> QED BY <1>0, <1>1, <2>1, <2>2, SaveFollows
<1>3. CASE ~Live(mem.ops[o])
  <2>1. Go(step) /\ mem' = mem
    BY <1>3 DEF CancelThen
  <2>2. step \in Steps /\ step \notin Deciding \cup {"save"}
    BY <1>1
  <2> QED BY <2>1, <2>2, GoFollows
<1> QED BY <1>2, <1>3

\* A job that asks for the settings notes their revision, which is not older than
\* that of its message.
LEMMA ReadFollows ==
    ASSUME IInv, GInv, job.at # "save", ReadSettings, UNCHANGED <<Outside, mem>>
    PROVE  GInv'
<1>0. UNCHANGED <<mem, disk, queue, running, epoch, revision>> /\ job \in Job /\ revision \in Nat
  BY DEF Outside, volatile, IInv, TypeOK
<1>1. job' = [job EXCEPT !.at = "settings", !.revision = revision]
  BY DEF ReadSettings
<1>2. /\ job'.at = "settings" /\ job'.onSaved = job.onSaved /\ job'.onFailed = job.onFailed
      /\ job'.req = job.req /\ job'.revision = revision
  BY <1>0, <1>1 DEF Job
<1>3. VerdictsAreJudged'
  BY <1>2 DEF GInv, VerdictsAreJudged, Heading, req
<1>4. Stamped'
  BY <1>0, <1>2 DEF GInv, Stamped, HeardBefore, req
<1>5. SettingsFollow'
  BY <1>0, <1>2 DEF GInv, Stamped, HeardBefore, SettingsFollow, Heading, req
<1>6. TabFollows' /\ GrantIsFresh'
  BY <1>2 DEF TabFollows, GrantIsFresh, Granted
<1>7. GrantsAreDurable'
  BY <1>0, DurableKept DEF GInv
<1> QED BY <1>3, <1>4, <1>5, <1>6, <1>7 DEF GInv

\* The checks of a request.
LEMMA CheckFollows ==
    ASSUME IInv, GInv, NEW kind, NEW admissible, Check(kind, admissible)
    PROVE  GInv'
<1>1. job.at = "enter" /\ UNCHANGED <<Outside, mem>>
  BY DEF Check, At
<1>2. CASE admissible
  BY <1>1, <1>2, ReadFollows DEF Check
<1>3. CASE ~admissible
  <2>1. Go("done")
    BY <1>3 DEF Check, Go
  <2>2. "done" \in Steps /\ "done" \notin Deciding \cup {"save"}
    BY DEF Steps, Deciding
  <2> QED BY <1>1, <2>1, <2>2, GoFollows
<1> QED BY <1>2, <1>3

\* The checks of every request.
LEMMA ChecksFollow ==
    ASSUME IInv, GInv,
           StartChecks \/ ClaimChecks \/ OfferChecks \/ ChooseChecks \/ CommitChecks
    PROVE  GInv'
<1>1. CASE StartChecks
  BY <1>1, CheckFollows DEF StartChecks
<1>2. CASE ClaimChecks
  BY <1>2, CheckFollows DEF ClaimChecks
<1>3. CASE OfferChecks
  BY <1>3, CheckFollows DEF OfferChecks
<1>4. CASE ChooseChecks
  BY <1>4, CheckFollows DEF ChooseChecks
<1>5. CASE CommitChecks
  BY <1>5, CheckFollows DEF CommitChecks
<1> QED BY <1>1, <1>2, <1>3, <1>4, <1>5

-----------------------------------------------------------------------------
(* The steps that decide.                                                  *)

\* What every step of a decision leaves alone.
LEMMA OutsideUnchanged ==
    ASSUME UNCHANGED Outside
    PROVE  UNCHANGED <<tabs, settings, events, disk, queue, running, epoch, revision, elapsed>>
  BY DEF Outside, browser, volatile

\* The settings arrive: they are those in effect.
LEMMA SettingsArriveFollows == ASSUME IInv, GInv, SettingsArrive PROVE GInv'
<1>0. /\ UNCHANGED <<settings, events, mem, disk, queue, running, epoch, revision>> /\ job \in Job
      /\ job.at = "settings" /\ job' = [job EXCEPT !.at = "admit", !.settings = settings]
  BY OutsideUnchanged DEF SettingsArrive, IInv, TypeOK
<1>1. /\ job'.at = "admit" /\ job'.onSaved = job.onSaved /\ job'.onFailed = job.onFailed
      /\ job'.req = job.req /\ job'.revision = job.revision /\ job'.settings = settings
  BY <1>0 DEF Job
<1>2. VerdictsAreJudged'
  BY <1>0, <1>1 DEF GInv, VerdictsAreJudged, Heading, req
<1>3. Stamped'
  BY <1>0, <1>1, StampedKept DEF GInv, req
<1>4. SettingsFollow'
  BY <1>0, <1>1 DEF GInv, SettingsFollow, Heading, req, SettingsAgree
<1>5. TabFollows' /\ GrantIsFresh'
  BY <1>1 DEF TabFollows, GrantIsFresh, Granted
<1>6. GrantsAreDurable'
  BY <1>0, DurableKept DEF GInv
<1> QED BY <1>2, <1>3, <1>4, <1>5, <1>6 DEF GInv

\* An admitted message: its settings matched, and it goes on to the last question,
\* at once or after a save that enters or gives up a stage of its operation.
LEMMA AdmittedFollows ==
    ASSUME IInv, GInv, Heading({"admit", "recheck", "final"})', Heading({"recheck", "final"})',
           job'.at \in {"recheck", "save"}, job'.onSaved = "recheck" \/ job'.onSaved = job.onSaved,
           job'.onFailed \in {job.onFailed, "done", "refused"},
           Heading({"admit", "recheck", "final"}), req.kind \in {"authorize", "commit"},
           job.at # "save",
           job'.req = job.req, job'.revision = job.revision, job'.settings = job.settings,
           job.settings = theOp.settings, theOp'.settings = theOp.settings,
           job'.at = "recheck" => mem' = mem, UNCHANGED Outside
    PROVE  GInv'
<1>0. UNCHANGED <<tabs, settings, events, disk, queue, running, epoch, revision>>
  BY OutsideUnchanged
<1>1. VerdictsAreJudged'
  BY <1>0 DEF GInv, VerdictsAreJudged, Heading, req
<1>2. Stamped'
  BY <1>0, StampedKept DEF GInv, req
<1>3. SettingsFollow'
  BY <1>0 DEF GInv, SettingsFollow, Heading, req, SettingsAgree, SettingsTold
<1>4. TabFollows' /\ GrantIsFresh'
  BY DEF TabFollows, GrantIsFresh, Granted
<1>5. GrantsAreDurable'
  <2>1. CASE job'.at = "recheck"
    BY <1>0, <2>1, DurableKept DEF GInv
  <2>2. CASE job'.at = "save"
    BY <2>2 DEF GrantsAreDurable
  <2> QED BY <2>1, <2>2
<1> QED BY <1>1, <1>2, <1>3, <1>4, <1>5 DEF GInv

\* Entering or giving up a stage leaves the settings of the operation.
LEMMA StagesLeaveSettings ==
    ASSUME mem \in State, NEW o \in OpIds, NEW stage
    PROVE  /\ Registering(o, stage).ops[o].settings = mem.ops[o].settings
           /\ Relinquishing(o, stage).ops[o].settings = mem.ops[o].settings
  BY DEF State, Operation, Registering, Relinquishing

\* The admission of a document's message.
LEMMA AuthorizeAdmitsFollows == ASSUME IInv, GInv, AuthorizeAdmits PROVE GInv'
<1>0. /\ TypeOK /\ job \in Job /\ mem \in State /\ job.at = "admit" /\ req.kind = "authorize"
      /\ UNCHANGED Outside /\ req.id \in OpIds
  BY RequestsAreTyped DEF IInv, TypeOK, AuthorizeAdmits, At, ByOperation
<1>1. \/ CancelThen(req.id, "refused")
      \/ mem' = mem /\ Go("refused")
      \/ job.settings = theOp.settings /\ mem' = mem /\ Go("recheck")
      \/ job.settings = theOp.settings /\ SaveThen(Registering(req.id, req.stage), "recheck", "done")
  BY DEF AuthorizeAdmits, MatchingSettings, SettingsMatch
<1>2. CASE CancelThen(req.id, "refused")
  BY <1>0, <1>2, CancelFollows
<1>3. CASE mem' = mem /\ Go("refused")
  <2>1. "refused" \in Steps /\ "refused" \notin Deciding \cup {"save"}
    BY DEF Steps, Deciding
  <2> QED BY <1>0, <1>3, <2>1, GoFollows
<1>4. CASE job.settings = theOp.settings /\ mem' = mem /\ Go("recheck")
  <2>1. job' = [job EXCEPT !.at = "recheck"]
    BY <1>4 DEF Go
  <2>2. /\ job'.at = "recheck" /\ job'.onSaved = job.onSaved /\ job'.onFailed = job.onFailed
        /\ job'.req = job.req /\ job'.revision = job.revision /\ job'.settings = job.settings
    BY <1>0, <2>1 DEF Job
  <2>3. theOp'.settings = theOp.settings
    BY <1>4, <2>2 DEF theOp, req
  <2> QED BY <1>0, <1>4, <2>2, <2>3, AdmittedFollows DEF Heading
<1>5. CASE /\ job.settings = theOp.settings
           /\ SaveThen(Registering(req.id, req.stage), "recheck", "done")
  <2>1. job' = [job EXCEPT !.at = "save", !.onSaved = "recheck", !.onFailed = "done"]
        /\ mem' = Registering(req.id, req.stage)
    BY <1>5 DEF SaveThen
  <2>2. /\ job'.at = "save" /\ job'.onSaved = "recheck" /\ job'.onFailed = "done"
        /\ job'.req = job.req /\ job'.revision = job.revision /\ job'.settings = job.settings
    BY <1>0, <2>1 DEF Job
  <2>3. theOp'.settings = theOp.settings
    BY <1>0, <2>1, <2>2, StagesLeaveSettings DEF theOp, req
  <2> QED BY <1>0, <1>5, <2>2, <2>3, AdmittedFollows DEF Heading
<1> QED BY <1>1, <1>2, <1>3, <1>4, <1>5

\* A positive answer is what the browser showed when it was given.
LEMMA RechecksFollows == ASSUME IInv, GInv, Rechecks PROVE GInv'
<1> DEFINE answer == Current(theOp.tab, theOp.route)
<1>0. /\ UNCHANGED <<tabs, settings, events, mem, disk, queue, running, epoch, revision>>
      /\ job \in Job /\ job.at = "recheck"
      /\ job' = [job EXCEPT !.at = "final", !.current = answer]
  BY OutsideUnchanged DEF Rechecks, IInv, TypeOK
<1> HIDE DEF answer
<1>1. /\ job'.at = "final" /\ job'.onSaved = job.onSaved /\ job'.onFailed = job.onFailed
      /\ job'.req = job.req /\ job'.revision = job.revision /\ job'.settings = job.settings
      /\ job'.current = answer
  BY <1>0 DEF Job
<1>2. req' = req /\ theOp' = theOp
  BY <1>0, <1>1 DEF req, theOp
<1>3. VerdictsAreJudged'
  BY <1>0, <1>1, <1>2 DEF GInv, VerdictsAreJudged, Heading
<1>4. Stamped'
  BY <1>0, <1>1, StampedKept DEF GInv, req
<1>5. SettingsFollow'
  BY <1>0, <1>1, <1>2 DEF GInv, SettingsFollow, Heading, SettingsAgree, SettingsTold
<1>6. TabFollows'
  BY <1>0, <1>1, <1>2 DEF TabFollows, TabAgrees, Current, answer
<1>7. GrantIsFresh'
  BY <1>1 DEF GrantIsFresh, Granted
<1>8. GrantsAreDurable'
  BY <1>0, DurableKept DEF GInv
<1> QED BY <1>3, <1>4, <1>5, <1>6, <1>7, <1>8 DEF GInv

\* If nothing was announced since the message arrived, what was read still agrees.
LEMMA VerdictIsFresh ==
    ASSUME IInv, GInv, job.at = "final", AdmissionStillCurrent
    PROVE  TabAgrees(theOp.tab, theOp.route) /\ SettingsAgree(theOp.settings)
<1>1. /\ job.current /\ epoch[theOp.tab] = req.epoch /\ revision = req.revision
      /\ req.tab = theOp.tab
  BY DEF AdmissionStillCurrent, NothingSince, Owns
<1>2. TabAgrees(theOp.tab, theOp.route)
  BY <1>1 DEF GInv, TabFollows
<1>3. job.revision = revision
  <2>1. req.revision <= job.revision /\ job.revision <= revision
    BY DEF GInv, SettingsFollow, Stamped, Heading
  <2>2. job.revision \in Nat /\ revision \in Nat /\ req.revision \in Nat
    BY DEF IInv, TypeOK, Job, req, Request, Message
  <2> QED BY <1>1, <2>1, <2>2
<1>4. SettingsAgree(theOp.settings)
  BY <1>3 DEF GInv, SettingsFollow, Heading
<1> QED BY <1>2, <1>4

\* A grant that follows from it is fresh.
LEMMA GrantFollows ==
    ASSUME IInv, GInv, job.at = "final", AdmissionStillCurrent, Go("granted"),
           UNCHANGED <<Outside, mem>>
    PROVE  GInv'
<1>0. /\ UNCHANGED <<tabs, settings, events, mem, disk, queue, running, epoch, revision>>
      /\ job \in Job /\ job' = [job EXCEPT !.at = "granted"]
  BY OutsideUnchanged DEF IInv, TypeOK, Go
<1>1. /\ job'.at = "granted" /\ job'.onSaved = job.onSaved /\ job'.onFailed = job.onFailed
      /\ job'.req = job.req /\ job'.revision = job.revision
  BY <1>0 DEF Job
<1>2. req' = req /\ theOp' = theOp
  BY <1>0, <1>1 DEF req, theOp
<1>3. VerdictsAreJudged'
  BY <1>1, <1>2 DEF GInv, VerdictsAreJudged, Heading
<1>4. Stamped'
  BY <1>0, <1>1, StampedKept DEF GInv, req
<1>5. SettingsFollow' /\ TabFollows'
  BY <1>1 DEF SettingsFollow, TabFollows, Heading
<1>6. GrantIsFresh'
  <2>1. TabAgrees(theOp.tab, theOp.route)' /\ SettingsAgree(theOp.settings)'
    BY <1>0, <1>2, VerdictIsFresh DEF TabAgrees, TabTold, Current, SettingsAgree, SettingsTold
  <2> QED BY <2>1 DEF GrantIsFresh, TabAgrees, TabTold, SettingsAgree, SettingsTold
<1>7. GrantsAreDurable'
  BY <1>0, DurableKept DEF GInv
<1> QED BY <1>3, <1>4, <1>5, <1>6, <1>7 DEF GInv

\* The first and the last step of an authorisation.
LEMMA AuthorizationFollows == ASSUME IInv, GInv, AuthorizeChecks \/ AuthorizeJudges PROVE GInv'
<1>0. "refused" \in Steps /\ "refused" \notin Deciding \cup {"save"}
  BY DEF Steps, Deciding
<1>1. CASE AuthorizeChecks
  <2>1. job.at = "enter" /\ UNCHANGED Outside
    BY <1>1 DEF AuthorizeChecks, At
  <2>2. \/ mem' = mem /\ Go("refused")
        \/ mem' = mem /\ req.purpose = "abort" /\ Go("granted")
        \/ mem' = mem /\ ReadSettings
        \/ CancelThen(req.id, "refused")
    BY <1>1 DEF AuthorizeChecks
  <2>3. CASE mem' = mem /\ Go("refused")
    BY <1>0, <2>1, <2>3, GoFollows
  <2>4. CASE mem' = mem /\ req.purpose = "abort" /\ Go("granted")
    <3>0. /\ UNCHANGED <<mem, disk, queue, running, epoch, revision>> /\ job \in Job
          /\ job' = [job EXCEPT !.at = "granted"]
      BY <2>1, <2>4, OutsideUnchanged DEF IInv, TypeOK, Go
    <3>1. /\ job'.at = "granted" /\ job'.onSaved = job.onSaved /\ job'.onFailed = job.onFailed
          /\ job'.req = job.req /\ job'.revision = job.revision
      BY <3>0 DEF Job
    <3>2. VerdictsAreJudged'
      BY <3>1 DEF GInv, VerdictsAreJudged, Heading, req
    <3>3. Stamped'
      BY <3>0, <3>1, StampedKept DEF GInv, req
    <3>4. SettingsFollow' /\ TabFollows'
      BY <3>1 DEF SettingsFollow, TabFollows, Heading
    <3>5. GrantIsFresh'
      BY <2>4, <3>1 DEF GrantIsFresh, Granted, req
    <3>6. GrantsAreDurable'
      BY <2>1, <3>0, DurableKept DEF GInv
    <3> QED BY <3>2, <3>3, <3>4, <3>5, <3>6 DEF GInv
  <2>5. CASE mem' = mem /\ ReadSettings
    BY <2>1, <2>5, ReadFollows
  <2>6. CASE CancelThen(req.id, "refused")
    BY <2>1, <2>6, CancelFollows
  <2> QED BY <2>2, <2>3, <2>4, <2>5, <2>6
<1>2. CASE AuthorizeJudges
  <2>1. job.at = "final" /\ UNCHANGED Outside
    BY <1>2 DEF AuthorizeJudges, At
  <2>2. CASE AdmissionStillCurrent
    <3>1. Go("granted") /\ UNCHANGED mem
      BY <1>2, <2>2 DEF AuthorizeJudges
    <3> QED BY <2>1, <2>2, <3>1, GrantFollows
  <2>3. CASE ~AdmissionStillCurrent
    <3>1. CancelThen(req.id, "refused")
      BY <1>2, <2>3 DEF AuthorizeJudges
    <3> QED BY <2>1, <3>1, CancelFollows
  <2> QED BY <2>2, <2>3
<1> QED BY <1>1, <1>2

\* The steps of a commit: it is judged once before its stage is given up, and once
\* after that was saved.
LEMMA CommitFollows ==
    ASSUME IInv, GInv, CommitAdmits \/ CommitJudges \/ CommitRejudges
    PROVE  GInv'
<1>0. /\ TypeOK /\ job \in Job /\ mem \in State /\ req.kind = "commit" /\ req.id \in OpIds
      /\ UNCHANGED Outside
  BY RequestsAreTyped
  DEF IInv, TypeOK, CommitAdmits, CommitJudges, CommitRejudges, At, ByOperation
<1>1. "refused" \in Steps /\ "refused" \notin Deciding \cup {"save"} /\ "refused" # "recheck"
  BY DEF Steps, Deciding
<1>2. UNCHANGED <<queue, running, epoch, revision>>
  BY <1>0, OutsideUnchanged
<1>3. CASE CommitAdmits
  <2>1. job.at = "admit"
    BY <1>3 DEF CommitAdmits, At
  <2>2. \/ job.settings = theOp.settings /\ Go("recheck") /\ mem' = mem
        \/ SaveThen(Relinquishing(req.id, req.stage), "refused", "refused")
    BY <1>3 DEF CommitAdmits, MatchingSettings, SettingsMatch, RelinquishThen
  <2>3. CASE job.settings = theOp.settings /\ Go("recheck") /\ mem' = mem
    <3>1. job' = [job EXCEPT !.at = "recheck"]
      BY <2>3 DEF Go
    <3>2. /\ job'.at = "recheck" /\ job'.onSaved = job.onSaved /\ job'.onFailed = job.onFailed
          /\ job'.req = job.req /\ job'.revision = job.revision /\ job'.settings = job.settings
      BY <1>0, <3>1 DEF Job
    <3>3. theOp'.settings = theOp.settings
      BY <2>3, <3>2 DEF theOp, req
    <3> QED BY <1>0, <2>1, <2>3, <3>2, <3>3, AdmittedFollows DEF Heading
  <2>4. CASE SaveThen(Relinquishing(req.id, req.stage), "refused", "refused")
    BY <1>1, <1>2, <2>4, SaveFollows
  <2> QED BY <2>2, <2>3, <2>4
<1>4. CASE CommitJudges
  <2> DEFINE after == IF AdmissionStillCurrent THEN "recheck" ELSE "refused"
  <2>1. /\ job.at = "final" /\ mem' = Relinquishing(req.id, req.stage)
        /\ job' = [job EXCEPT !.at = "save", !.onFailed = "refused",
                              !.permitted = AdmissionStillCurrent, !.onSaved = after]
    BY <1>4 DEF CommitJudges, At
  <2>2. after \in {"recheck", "refused"}
    OBVIOUS
  <2> HIDE DEF after
  <2>3. /\ job'.at = "save" /\ job'.onSaved = after /\ job'.onFailed = "refused"
        /\ job'.req = job.req /\ job'.revision = job.revision /\ job'.settings = job.settings
    BY <1>0, <2>1 DEF Job
  <2>4. CASE after = "recheck"
    <3>1. theOp'.settings = theOp.settings
      BY <1>0, <2>1, <2>3, StagesLeaveSettings DEF theOp, req
    <3>2. job.settings = theOp.settings
      BY <2>1 DEF GInv, SettingsFollow, Heading
    <3> QED BY <1>0, <2>1, <2>3, <2>4, <3>1, <3>2, AdmittedFollows DEF Heading
  <2>5. CASE after = "refused"
    <3>1. VerdictsAreJudged'
      BY <2>3, <2>5 DEF VerdictsAreJudged, Heading
    <3>2. Stamped'
      BY <1>2, <2>3, StampedKept DEF GInv, req
    <3>3. GrantsAreDurable'
      BY <2>3 DEF GrantsAreDurable
    <3> QED BY <2>3, <2>5, <3>1, <3>2, <3>3, Undecided DEF Deciding
  <2> QED BY <2>2, <2>4, <2>5
<1>5. CASE CommitRejudges
  <2>1. job.at = "final" /\ UNCHANGED mem
    BY <1>5 DEF CommitRejudges, At
  <2>2. CASE AdmissionStillCurrent
    <3>1. Go("granted")
      BY <1>5, <2>2 DEF CommitRejudges
    <3> QED BY <1>0, <2>1, <2>2, <3>1, GrantFollows
  <2>3. CASE ~AdmissionStillCurrent
    <3>1. Go("refused")
      BY <1>5, <2>3 DEF CommitRejudges
    <3> QED BY <1>0, <1>1, <2>1, <3>1, GoFollows
  <2> QED BY <2>2, <2>3
<1> QED BY <1>3, <1>4, <1>5

-----------------------------------------------------------------------------
(* The other steps of a job.                                               *)

\* The steps that save, and then are done.
LEMMA SavingsFollow ==
    ASSUME IInv, GInv,
           \/ StartAdmits \/ ClaimAdmits \/ Unstart \/ ChooseValidates \/ Complete \/ TakeChecks
           \/ Released \/ Sweep \/ WindowCreated \/ GiveUp
    PROVE  GInv'
<1>0. {"done", "refused", "apply", "sweep", "give-up"} \subseteq Steps
      /\ {"done", "refused", "apply", "sweep", "give-up"} \cap (Deciding \cup {"save"}) = {}
      /\ {"done", "refused", "apply", "sweep", "give-up"} \cap {"recheck"} = {}
  BY DEF Steps, Deciding
<1>1. ASSUME NEW state, NEW onSaved \in {"done", "refused", "apply", "sweep"},
             NEW onFailed \in {"done", "refused", "give-up"},
             SaveThen(state, onSaved, onFailed), UNCHANGED <<queue, running, epoch, revision>>
      PROVE  GInv'
  <2>1. onSaved \in Steps /\ onFailed \in Steps /\ {onSaved, onFailed} \cap Deciding = {}
        /\ onFailed # "recheck"
    BY <1>0
  <2> QED BY <1>1, <2>1, SaveFollows
<1>2. ASSUME job.at # "save", Finish, UNCHANGED <<mem, disk, queue, running, epoch, revision>>
      PROVE  GInv'
  <2>1. epoch' \in [Tabs -> Nat] /\ revision' \in Nat
    BY <1>2 DEF IInv, TypeOK
  <2>2. /\ \A i \in DOMAIN queue' : HeardBefore(queue[i])'
        /\ \A h \in running' : HeardBefore(h)'
    BY <1>2 DEF GInv, Stamped, HeardBefore
  <2> QED BY <1>2, <2>1, <2>2, EndFollows
<1>3. UNCHANGED <<disk, queue, running, epoch, revision>> /\ job.at # "save"
  BY DEF StartAdmits, ClaimAdmits, Unstart, ChooseValidates, Complete, TakeChecks, Released,
         Sweep, WindowCreated, GiveUp, Outside, volatile, At
<1>4. CASE StartAdmits
  BY <1>1, <1>3, <1>4 DEF StartAdmits
<1>5. CASE ClaimAdmits
  <2>1. (\E state : SaveThen(state, "done", "done")) \/ (Finish /\ UNCHANGED mem)
    BY <1>5 DEF ClaimAdmits
  <2> QED BY <1>1, <1>2, <1>3, <2>1
<1>6. CASE Unstart
  BY <1>1, <1>3, <1>6 DEF Unstart
<1>7. CASE ChooseValidates
  <2>1. (\E state : SaveThen(state, "apply", "done")) \/ (Finish /\ UNCHANGED mem)
    BY <1>7 DEF ChooseValidates
  <2> QED BY <1>1, <1>2, <1>3, <2>1
<1>8. CASE Complete
  <2>1. (\E state : SaveThen(state, "done", "done")) \/ (Finish /\ UNCHANGED mem)
    BY <1>8 DEF Complete
  <2> QED BY <1>1, <1>2, <1>3, <2>1
<1>9. CASE TakeChecks
  <2>1. (\E state : SaveThen(state, "refused", "refused")) \/ (Finish /\ UNCHANGED mem)
    BY <1>9 DEF TakeChecks, RelinquishThen
  <2> QED BY <1>1, <1>2, <1>3, <2>1
<1>10. CASE Released
  <2>1. (\E state : SaveThen(state, "done", "done")) \/ (Finish /\ UNCHANGED mem)
    BY <1>10 DEF Released
  <2> QED BY <1>1, <1>2, <1>3, <2>1
<1>11. CASE Sweep
  <2>1. \/ \E state : SaveThen(state, "sweep", "done")
        \/ \E state : SaveThen(state, "done", "done")
    BY <1>11 DEF Sweep
  <2> QED BY <1>1, <1>3, <2>1
<1>12. CASE WindowCreated
  <2>1. \E state : SaveThen(state, "done", "give-up")
    BY <1>12 DEF WindowCreated
  <2> QED BY <1>1, <1>3, <2>1
<1>13. CASE GiveUp
  <2>1. (\E state : SaveThen(state, "done", "done")) \/ (Finish /\ UNCHANGED mem)
    BY <1>13 DEF GiveUp
  <2> QED BY <1>1, <1>2, <1>3, <2>1
<1> QED
  BY <1>4, <1>5, <1>6, <1>7, <1>8, <1>9, <1>10, <1>11, <1>12, <1>13

\* A choice that was offered is saved with the conversation of its operation.
LEMMA OfferFollows == ASSUME IInv, GInv, OfferAdmits PROVE GInv'
<1>0. UNCHANGED Outside /\ job \in Job /\ job.at = "admit"
  BY DEF OfferAdmits, At, IInv, TypeOK
<1>1. CASE Finish /\ UNCHANGED mem
  <2>1. Go("done") /\ "done" \in Steps /\ "done" \notin Deciding \cup {"save"}
    BY <1>1 DEF Go, Steps, Deciding
  <2> QED BY <1>0, <1>1, <2>1, GoFollows
<1>2. CASE job' = [job EXCEPT !.req.route = theOp.route, !.at = "save", !.onSaved = "compact",
                              !.onFailed = "done"]
  <2>1. /\ job'.at = "save" /\ job'.onSaved = "compact" /\ job'.onFailed = "done"
        /\ job'.req = [job.req EXCEPT !.route = theOp.route] /\ job'.revision = job.revision
    BY <1>0, <1>2 DEF Job
  <2>2. /\ job'.req.tab = req.tab /\ job'.req.epoch = req.epoch
        /\ job'.req.revision = req.revision
    BY <1>0, <2>1 DEF req, Job, Request, Message
  <2>3. VerdictsAreJudged'
    BY <2>1 DEF VerdictsAreJudged, Heading
  <2>4. Stamped'
    BY <1>0, <2>1, <2>2, OutsideUnchanged, StampedKept DEF GInv
  <2>5. GrantsAreDurable'
    BY <2>1 DEF GrantsAreDurable
  <2> QED BY <2>1, <2>3, <2>4, <2>5, Undecided DEF Deciding
<1> QED BY <1>1, <1>2 DEF OfferAdmits

\* Forgetting export windows leaves intents and operations.
LEMMA SurfacesApart ==
    ASSUME NEW s \in State, NEW gone
    PROVE  DropSurfaces(s, gone).intents = s.intents /\ DropSurfaces(s, gone).ops = s.ops
  BY DEF DropSurfaces, State

\* The steps around the export window and its choice, and those of a stop, a
\* record or a text preview.
LEMMA OthersFollow ==
    ASSUME IInv, GInv,
           \/ Stop \/ Record \/ OpenChecks \/ Compact \/ WindowRefused \/ ChooseApplies
           \/ Reserve \/ Release
    PROVE  GInv'
<1>0. {"done", "compact", "create-window", "give-up"} \subseteq Steps
      /\ {"done", "compact", "create-window", "give-up"} \cap (Deciding \cup {"save"}) = {}
      /\ "create-window" # "recheck" /\ "done" # "recheck"
  BY DEF Steps, Deciding
<1>1. UNCHANGED <<disk, queue, running, epoch, revision>> /\ job.at # "save"
      /\ epoch \in [Tabs -> Nat] /\ revision \in Nat /\ mem \in State /\ job \in Job
  BY DEF Stop, Record, OpenChecks, Compact, WindowRefused, ChooseApplies, Reserve, Release,
         Outside, volatile, At, IInv, TypeOK
<1>2. ASSUME Finish, UNCHANGED mem PROVE GInv'
  <2>1. /\ \A i \in DOMAIN queue' : HeardBefore(queue[i])'
        /\ \A h \in running' : HeardBefore(h)'
    BY <1>1 DEF GInv, Stamped, HeardBefore
  <2>2. epoch' \in [Tabs -> Nat] /\ revision' \in Nat
    BY <1>1
  <2> QED BY <1>1, <1>2, <2>1, <2>2, EndFollows
<1>3. ASSUME NEW step \in {"compact", "create-window", "give-up"}, Go(step), UNCHANGED mem, UNCHANGED Outside
      PROVE  GInv'
  <2>1. step \in Steps /\ step \notin Deciding \cup {"save"}
    BY <1>0
  <2> QED BY <1>1, <1>3, <2>1, GoFollows
<1>4. CASE Stop
  <2>1. UNCHANGED Outside /\ (CancelThen(req.id, "done") \/ (Finish /\ UNCHANGED mem))
    BY <1>4 DEF Stop
  <2> QED BY <1>1, <1>2, <2>1, CancelFollows
<1>5. CASE Record
  <2>1. /\ UNCHANGED Outside
        /\ \/ CancelThen(req.id, "done")
           \/ Finish /\ UNCHANGED mem
           \/ SaveThen(Registering(req.id, req.stage), "done", "done")
    BY <1>5 DEF Record
  <2>2. CASE SaveThen(Registering(req.id, req.stage), "done", "done")
    <3>1. "done" \in Steps /\ {"done", "done"} \cap Deciding = {} /\ "done" # "recheck"
      BY <1>0
    <3> QED BY <1>1, <2>2, <3>1, SaveFollows
  <2> QED BY <1>1, <1>2, <2>1, <2>2, CancelFollows
<1>6. CASE OpenChecks
  <2>1. UNCHANGED Outside /\ UNCHANGED mem /\ (Finish \/ Go("compact"))
    BY <1>6 DEF OpenChecks
  <2> QED BY <1>2, <1>3, <2>1
<1>7. CASE WindowRefused
  BY <1>3, <1>7 DEF WindowRefused
<1>8. CASE ChooseApplies
  <2>1. UNCHANGED Outside /\ UNCHANGED mem /\ (Finish \/ Go("give-up"))
    BY <1>8 DEF ChooseApplies
  <2> QED BY <1>2, <1>3, <2>1
<1>9. CASE Reserve \/ Release
  <2>1. Finish /\ UNCHANGED mem
    BY <1>9 DEF Reserve, Release
  <2> QED BY <1>2, <2>1
<1>10. CASE Compact
  <2>1. \/ \E state : SaveThen(state, "done", "create-window")
        \/ mem' = DropSurfaces(mem, Registered) /\ Go("create-window")
    BY <1>10 DEF Compact
  <2>2. CASE \E state : SaveThen(state, "done", "create-window")
    <3>1. /\ "done" \in Steps /\ "create-window" \in Steps
          /\ {"done", "create-window"} \cap Deciding = {} /\ "create-window" # "recheck"
      BY <1>0
    <3> QED BY <1>1, <2>2, <3>1, SaveFollows
  <2>3. CASE mem' = DropSurfaces(mem, Registered) /\ Go("create-window")
    <3>1. job' = [job EXCEPT !.at = "create-window"]
      BY <2>3 DEF Go
    <3>2. /\ job'.at = "create-window" /\ job'.onSaved = job.onSaved
          /\ job'.onFailed = job.onFailed /\ job'.req = job.req /\ job'.revision = job.revision
      BY <1>1, <3>1 DEF Job
    <3>3. VerdictsAreJudged'
      BY <3>2 DEF GInv, VerdictsAreJudged, Heading
    <3>4. Stamped'
      BY <1>1, <3>2, StampedKept DEF GInv, req
    <3>5. GrantsAreDurable'
      <4>1. mem'.ops = mem.ops /\ mem'.intents = mem.intents /\ disk' = disk
        BY <1>1, <2>3, SurfacesApart
      <4> QED BY <1>1, <4>1 DEF GInv, GrantsAreDurable, Intents
    <3> QED BY <3>2, <3>3, <3>4, <3>5, Undecided DEF Deciding
  <2> QED BY <2>1, <2>2, <2>3
<1> QED BY <1>4, <1>5, <1>6, <1>7, <1>8, <1>9, <1>10

\* What is passed on within the worker is stamped anew.
LEMMA ForwardStamped ==
    ASSUME TypeOK, Stamped, NEW kind, Forward(kind), UNCHANGED <<epoch, revision>>
    PROVE  \A i \in DOMAIN queue' : HeardBefore(queue[i])'
<1> DEFINE r == [req EXCEPT !.kind = kind, !.epoch = epoch[req.tab], !.revision = revision]
<1>1. r.epoch = epoch[req.tab] /\ r.revision = revision /\ r.tab = req.tab
  BY RequestsAreTyped DEF Request, Message
<1>2. epoch[req.tab] \in Nat /\ revision \in Nat /\ queue \in Seq(Request)
  BY RequestsAreTyped DEF TypeOK
<1>3. queue' = Append(queue, r)
  BY DEF Forward
<1> HIDE DEF r
<1>4. HeardBefore(r)
  BY <1>1, <1>2 DEF HeardBefore
<1>5. ASSUME NEW i \in DOMAIN queue' PROVE queue'[i] = r \/ (i \in DOMAIN queue /\ queue'[i] = queue[i])
  BY <1>2, <1>3
<1> QED BY <1>4, <1>5 DEF Stamped, HeardBefore

\* What is done on a verdict.
LEMMA VerdictsFollow ==
    ASSUME IInv, GInv,
           AuthorizeGrants \/ AuthorizeRefuses \/ CommitDispatches \/ WorkerCleansUp
    PROVE  GInv'
<1>0. /\ job.at # "save" /\ Finish
      /\ UNCHANGED <<mem, disk, epoch, revision>>
      /\ epoch' \in [Tabs -> Nat] /\ revision' \in Nat /\ req \in Message
  BY RequestsAreTyped
  DEF AuthorizeGrants, AuthorizeRefuses, CommitDispatches, WorkerCleansUp, Outside, browser,
      volatile, At, IInv, TypeOK, Request
<1>1. ASSUME UNCHANGED queue PROVE \A i \in DOMAIN queue' : HeardBefore(queue[i])'
  BY <1>0, <1>1 DEF GInv, Stamped, HeardBefore
<1>2. ASSUME UNCHANGED running PROVE \A h \in running' : HeardBefore(h)'
  BY <1>0, <1>2 DEF GInv, Stamped, HeardBefore
<1>3. ASSUME NEW kind, Forward(kind) PROVE \A i \in DOMAIN queue' : HeardBefore(queue[i])'
  BY <1>0, <1>3, ForwardStamped DEF GInv, IInv
<1>4. ASSUME NEW r, running' = running \cup {r}, r.tab = req.tab, r.epoch = req.epoch,
             r.revision = req.revision
      PROVE  \A h \in running' : HeardBefore(h)'
  BY <1>0, <1>4 DEF GInv, Stamped, HeardBefore
<1>5. CASE AuthorizeGrants
  <2>1. \/ UNCHANGED <<queue, running>>
        \/ running' = running \cup {req} /\ UNCHANGED queue
        \/ (\E s \in Stages : running' = running \cup {[req EXCEPT !.stage = s]}) /\ UNCHANGED queue
        \/ Forward("commit") /\ UNCHANGED running
    BY <1>5 DEF AuthorizeGrants
  <2>2. \A s \in Stages :
           /\ [req EXCEPT !.stage = s].tab = req.tab /\ [req EXCEPT !.stage = s].epoch = req.epoch
           /\ [req EXCEPT !.stage = s].revision = req.revision
    BY <1>0 DEF Message
  <2> QED BY <1>0, <1>1, <1>2, <1>3, <1>4, <2>1, <2>2, EndFollows
<1>6. CASE AuthorizeRefuses
  <2>1. (Forward("take") \/ UNCHANGED queue) /\ UNCHANGED running
    BY <1>6 DEF AuthorizeRefuses
  <2> QED BY <1>0, <1>1, <1>2, <1>3, <2>1, EndFollows
<1>7. CASE CommitDispatches \/ WorkerCleansUp
  <2>1. UNCHANGED <<queue, running>>
    BY <1>7 DEF CommitDispatches, WorkerCleansUp, Outside, volatile
  <2> QED BY <1>0, <1>1, <1>2, <2>1, EndFollows
<1> QED BY <1>5, <1>6, <1>7

\* Every step of a job.
LEMMA JobStepsFollow == ASSUME IInv, GInv, JobSteps PROVE GInv'
<1>1. CASE StartChecks \/ ClaimChecks \/ OfferChecks \/ ChooseChecks \/ CommitChecks
  BY <1>1, ChecksFollow
<1>2. CASE AuthorizeChecks \/ AuthorizeJudges
  BY <1>2, AuthorizationFollows
<1>3. CASE AuthorizeAdmits
  BY <1>3, AuthorizeAdmitsFollows
<1>4. CASE Rechecks
  BY <1>4, RechecksFollows
<1>5. CASE CommitAdmits \/ CommitJudges \/ CommitRejudges
  BY <1>5, CommitFollows
<1>6. CASE \/ StartAdmits \/ ClaimAdmits \/ Unstart \/ ChooseValidates \/ Complete \/ TakeChecks
           \/ Released \/ Sweep \/ WindowCreated \/ GiveUp
  BY <1>6, SavingsFollow
<1>7. CASE OfferAdmits
  BY <1>7, OfferFollows
<1>8. CASE \/ Stop \/ Record \/ OpenChecks \/ Compact \/ WindowRefused \/ ChooseApplies
           \/ Reserve \/ Release
  BY <1>8, OthersFollow
<1>9. CASE AuthorizeGrants \/ AuthorizeRefuses \/ CommitDispatches \/ WorkerCleansUp
  BY <1>9, VerdictsFollow
<1> QED
  BY <1>1, <1>2, <1>3, <1>4, <1>5, <1>6, <1>7, <1>8, <1>9 DEF JobSteps

-----------------------------------------------------------------------------
(* The lock and the storage.                                               *)

\* Pruning changes no intent and no operation that stays pending or live.
LEMMA PrunedKeepsLive ==
    ASSUME NEW s \in State
    PROVE  /\ \A o \in OpIds : Live(Pruned(s).ops[o]) => Pruned(s).ops[o] = s.ops[o]
           /\ \A i \in IntentIds : Pruned(s).intents[i].there => Pruned(s).intents[i] = s.intents[i]
  BY DEF Pruned, State, Live, Operation, NoOperation, NoIntent

\* Whoever takes the lock finds what is stored, or saves what it repaired.
LEMMA AcquireFollows == ASSUME IInv, GInv, Acquire PROVE GInv'
<1> DEFINE taken == [NoJob EXCEPT !.req = Head(queue)]
<1>1. /\ mem \in State /\ queue \in Seq(Request) /\ queue # <<>> /\ job.at = "idle"
      /\ queue' = Tail(queue) /\ UNCHANGED <<disk, running, epoch, revision>>
      /\ epoch \in [Tabs -> Nat] /\ revision \in Nat
      /\ \/ job' = [taken EXCEPT !.at = "save", !.onSaved = "enter"]
         \/ mem' = Pruned(mem) /\ job' = [taken EXCEPT !.at = "enter"]
  BY DEF IInv, TypeOK, Acquire
<1>2. /\ job'.at \in {"save", "enter"} /\ job'.onSaved \in {"done", "enter"}
      /\ job'.onFailed = "done" /\ job'.req = Head(queue) /\ job'.revision = 0
      /\ job'.at = "enter" => mem' = Pruned(mem)
  BY <1>1 DEF NoJob
<1>3. VerdictsAreJudged'
  BY <1>2 DEF VerdictsAreJudged, Heading
<1>4. Stamped'
  <2>1. /\ Head(queue) = queue[1] /\ 1 \in DOMAIN queue
        /\ \A i \in DOMAIN queue' : i + 1 \in DOMAIN queue /\ queue'[i] = queue[i + 1]
    BY <1>1
  <2>2. \A i \in DOMAIN queue' : HeardBefore(queue[i])'
    BY <1>1, <2>1 DEF GInv, Stamped, HeardBefore
  <2>3. HeardBefore(req)'
    BY <1>1, <1>2, <2>1 DEF GInv, Stamped, HeardBefore, req
  <2>4. \A h \in running' : HeardBefore(h)'
    BY <1>1 DEF GInv, Stamped, HeardBefore
  <2> QED BY <1>1, <1>2, <2>2, <2>3, <2>4 DEF Stamped
<1>5. GrantsAreDurable'
  <2>1. CASE job'.at = "save"
    BY <2>1 DEF GrantsAreDurable
  <2>2. CASE job'.at = "enter"
    <3>1. /\ \A o \in OpIds : Live(mem.ops[o]) => disk.ops[o] = mem.ops[o]
          /\ \A i \in IntentIds : mem.intents[i].there => disk.intents[i] = mem.intents[i]
      BY <1>1 DEF GInv, GrantsAreDurable, Intents
    <3>2. /\ \A o \in OpIds : Live(mem'.ops[o]) => mem'.ops[o] = mem.ops[o]
          /\ \A i \in IntentIds : mem'.intents[i].there => mem'.intents[i] = mem.intents[i]
      BY <1>1, <1>2, <2>2, PrunedKeepsLive
    <3>3. \A o \in OpIds : Live(mem'.ops[o]) => disk'.ops[o] = mem'.ops[o]
      BY <1>1, <3>1, <3>2
    <3>4. \A i \in IntentIds : mem'.intents[i].there => disk'.intents[i] = mem'.intents[i]
      BY <1>1, <3>1, <3>2
    <3> QED BY <3>3, <3>4 DEF GrantsAreDurable, Intents
  <2> QED BY <1>2, <2>1, <2>2
<1> QED BY <1>2, <1>3, <1>4, <1>5, Undecided DEF Deciding

\* A job whose save was acknowledged goes on with what it knew before.
LEMMA SavedFollows == ASSUME IInv, GInv, Saved PROVE GInv'
<1>0. /\ job.at = "save" /\ disk' = mem /\ Go(job.onSaved) /\ job \in Job
      /\ UNCHANGED <<tabs, settings, events, mem, queue, running, epoch, revision>>
      /\ epoch \in [Tabs -> Nat] /\ revision \in Nat
  BY DEF Saved, browser, volatile, IInv, TypeOK
<1>1. job.onSaved \notin {"settings", "admit", "save", "final", "granted"}
  BY DEF IInv, StepsFit, GInv, VerdictsAreJudged
<1>2. GrantsAreDurable'
  BY <1>0 DEF GrantsAreDurable
<1>3. CASE job.onSaved = "done"
  <2>1. /\ job'.at = "idle" /\ job'.onSaved = "done" /\ job'.onFailed = "done"
        /\ job'.revision = 0 /\ job'.req = Ask("settings")
    BY <1>0, <1>3 DEF Go, Finish, NoJob
  <2>2. /\ Ask("settings").epoch = 0 /\ Ask("settings").revision = 0
        /\ Ask("settings").tab \in Tabs
    BY ParametersAreSane DEF Ask, AnyTab
  <2>3. Stamped'
    BY <1>0, <2>1, <2>2 DEF GInv, Stamped, HeardBefore, req
  <2>4. VerdictsAreJudged'
    BY <2>1 DEF VerdictsAreJudged, Heading
  <2> QED BY <1>2, <2>1, <2>3, <2>4, Undecided DEF Deciding
<1>4. CASE job.onSaved # "done"
  <2>1. job' = [job EXCEPT !.at = job.onSaved]
    BY <1>0, <1>4 DEF Go
  <2>2. /\ job'.at = job.onSaved /\ job'.onSaved = job.onSaved /\ job'.onFailed = job.onFailed
        /\ job'.req = job.req /\ job'.revision = job.revision /\ job'.settings = job.settings
    BY <1>0, <2>1 DEF Job
  <2>3. req' = req /\ theOp' = theOp
    BY <1>0, <2>2 DEF req, theOp
  <2>4. VerdictsAreJudged'
    BY <1>0, <1>1, <2>2, <2>3 DEF GInv, VerdictsAreJudged, Heading
  <2>5. Stamped'
    BY <1>0, <2>2, StampedKept DEF GInv, req
  <2>6. SettingsFollow'
    BY <1>0, <1>1, <2>2, <2>3 DEF GInv, SettingsFollow, Heading, SettingsAgree, SettingsTold
  <2>7. TabFollows' /\ GrantIsFresh'
    BY <1>1, <2>2 DEF TabFollows, GrantIsFresh, Granted
  <2> QED BY <1>2, <2>4, <2>5, <2>6, <2>7 DEF GInv
<1> QED BY <1>3, <1>4

\* A refused save leaves nothing that could be granted.
LEMMA SaveFailedFollows == ASSUME IInv, GInv, SaveFailed PROVE GInv'
<1>0. /\ job.at = "save" /\ mem' = EmptyState /\ Go(job.onFailed) /\ job \in Job
      /\ UNCHANGED <<queue, running, epoch, revision>>
      /\ epoch \in [Tabs -> Nat] /\ revision \in Nat
  BY DEF SaveFailed, AfterRefusedSave, volatile, IInv, TypeOK
<1>1. job.onFailed \notin Deciding \cup {"save"}
  BY DEF IInv, StepsFit, GInv, VerdictsAreJudged, Deciding
<1>2. GrantsAreDurable'
  <2>1. /\ \A i \in IntentIds : ~EmptyState.intents[i].there
        /\ \A o \in OpIds : ~Live(EmptyState.ops[o])
    BY DEF EmptyState, NoIntent, NoOperation, Live
  <2> QED BY <1>0, <2>1 DEF GrantsAreDurable, Intents
<1>3. CASE job.onFailed = "done"
  <2>1. /\ job'.at = "idle" /\ job'.onSaved = "done" /\ job'.onFailed = "done"
        /\ job'.revision = 0 /\ job'.req = Ask("settings")
    BY <1>0, <1>3 DEF Go, Finish, NoJob
  <2>2. /\ Ask("settings").epoch = 0 /\ Ask("settings").revision = 0
        /\ Ask("settings").tab \in Tabs
    BY ParametersAreSane DEF Ask, AnyTab
  <2>3. Stamped'
    BY <1>0, <2>1, <2>2 DEF GInv, Stamped, HeardBefore, req
  <2>4. VerdictsAreJudged'
    BY <2>1 DEF VerdictsAreJudged, Heading
  <2> QED BY <1>2, <2>1, <2>3, <2>4, Undecided DEF Deciding
<1>4. CASE job.onFailed # "done"
  <2>1. job' = [job EXCEPT !.at = job.onFailed]
    BY <1>0, <1>4 DEF Go
  <2>2. /\ job'.at = job.onFailed /\ job'.onSaved = job.onSaved /\ job'.onFailed = job.onFailed
        /\ job'.req = job.req /\ job'.revision = job.revision
    BY <1>0, <2>1 DEF Job
  <2>3. VerdictsAreJudged'
    BY <1>1, <2>2 DEF GInv, VerdictsAreJudged, Heading, Deciding
  <2>4. Stamped'
    BY <1>0, <2>2, StampedKept DEF GInv, req
  <2> QED BY <1>1, <1>2, <2>2, <2>3, <2>4, Undecided
<1> QED BY <1>3, <1>4

\* A new worker starts from what is stored, and has heard nothing.
LEMMA RestartsFollow == ASSUME IInv, GInv, Restarts PROVE GInv'
<1>1. /\ mem' \in {disk, EmptyState} /\ disk' = disk /\ job' = NoJob
      /\ queue' = <<>> /\ running' = {} /\ epoch' = [t \in Tabs |-> 0] /\ revision' = 0
  BY DEF Restarts, Hydrate
<1>2. /\ job'.at = "idle" /\ job'.onSaved = "done" /\ job'.onFailed = "done"
      /\ job'.revision = 0 /\ job'.req = Ask("settings")
  BY <1>1 DEF NoJob
<1>3. /\ Ask("settings").epoch = 0 /\ Ask("settings").revision = 0
      /\ Ask("settings").tab \in Tabs
  BY ParametersAreSane DEF Ask, AnyTab
<1>4. Stamped'
  BY <1>1, <1>2, <1>3 DEF Stamped, HeardBefore, req
<1>5. VerdictsAreJudged'
  BY <1>2 DEF VerdictsAreJudged, Heading
<1>6. GrantsAreDurable'
  <2>1. /\ \A i \in IntentIds : ~EmptyState.intents[i].there
        /\ \A o \in OpIds : ~Live(EmptyState.ops[o])
    BY DEF EmptyState, NoIntent, NoOperation, Live
  <2> QED BY <1>1, <2>1 DEF GrantsAreDurable, Intents
<1> QED BY <1>2, <1>4, <1>5, <1>6, Undecided DEF Deciding

-----------------------------------------------------------------------------
(* The environment.                                                        *)

\* What the browser and the listeners may do to a decision: an agreement is only
\* broken together with a notification, or with the epoch that stands for it.
TabsKept ==
    \A t \in Tabs : \A r \in Routes :
        epoch'[t] = epoch[t] /\ TabAgrees(t, r) => TabAgrees(t, r)'
SettingsKept == revision' = revision => \A v \in Settings : SettingsAgree(v) => SettingsAgree(v)'

EpochsGrow ==
    /\ epoch' \in [Tabs -> Nat] /\ revision' \in Nat
    /\ \A t \in Tabs : epoch[t] <= epoch'[t]
    /\ revision <= revision'

LEMMA EnvironmentFollows ==
    ASSUME IInv, GInv, Idle, UNCHANGED <<job, mem, disk>>, EpochsGrow, TabsKept, SettingsKept,
           \A i \in DOMAIN queue' : HeardBefore(queue[i])', running' \subseteq running
    PROVE  GInv'
<1>1. /\ job \in Job /\ req \in Request /\ mem \in State /\ epoch \in [Tabs -> Nat]
      /\ revision \in Nat /\ running \subseteq Request
      /\ req' = req /\ theOp' = theOp
  BY DEF IInv, TypeOK, Job, req, theOp
<1>2. VerdictsAreJudged'
  BY <1>1 DEF GInv, VerdictsAreJudged, Heading
<1>3. ASSUME NEW r \in Request, HeardBefore(r) PROVE HeardBefore(r)'
  <2>1. r.tab \in Tabs /\ r.epoch \in Nat /\ r.revision \in Nat
    BY DEF Request, Message
  <2>2. epoch[r.tab] \in Nat /\ epoch'[r.tab] \in Nat /\ epoch[r.tab] <= epoch'[r.tab]
    BY <1>1, <2>1 DEF EpochsGrow
  <2>3. r.epoch <= epoch[r.tab] /\ r.revision <= revision
    BY <1>3 DEF HeardBefore
  <2>4. r.epoch <= epoch'[r.tab]
    BY <2>1, <2>2, <2>3
  <2>5. r.revision <= revision'
    BY <1>1, <2>1, <2>3 DEF EpochsGrow
  <2> QED BY <2>4, <2>5 DEF HeardBefore
<1>4. Stamped'
  <2>1. job.revision <= revision'
    <3>1. job.revision \in Nat /\ job.revision <= revision
      BY <1>1 DEF GInv, Stamped, Job
    <3> QED BY <1>1, <3>1 DEF EpochsGrow
  <2>2. HeardBefore(req)'
    BY <1>1, <1>3 DEF GInv, Stamped, HeardBefore
  <2>3. \A h \in running' : HeardBefore(h)'
    BY <1>1, <1>3 DEF GInv, Stamped
  <2> QED BY <2>1, <2>2, <2>3 DEF Stamped
<1>5. job.revision = revision' => revision' = revision
  <2>1. job.revision \in Nat /\ job.revision <= revision /\ revision <= revision'
    BY <1>1 DEF GInv, Stamped, Job, EpochsGrow
  <2> QED BY <1>1, <2>1 DEF EpochsGrow
<1>6. SettingsFollow'
  <2>1. job.settings \in Settings
    BY <1>1 DEF Job
  <2>2. Heading({"admit", "recheck", "final"})' /\ job'.revision = revision' =>
            SettingsAgree(job.settings)'
    BY <1>5, <2>1 DEF GInv, SettingsFollow, Heading, SettingsKept
  <2>3. Heading({"settings", "admit", "recheck", "final"})' => req'.revision <= job'.revision
    BY <1>1 DEF GInv, SettingsFollow, Heading
  <2>4. Heading({"recheck", "final"})' => job'.settings = theOp'.settings
    <3>1. Heading({"recheck", "final"})' => Heading({"recheck", "final"})
      BY DEF Heading
    <3>2. Heading({"recheck", "final"}) => job.settings = theOp.settings
      BY DEF GInv, SettingsFollow
    <3> QED BY <1>1, <3>1, <3>2
  <2> QED BY <2>2, <2>3, <2>4 DEF SettingsFollow
<1>7. TabFollows'
  <2> SUFFICES ASSUME job.at = "final", job.current, req.tab = theOp.tab,
                      epoch'[req.tab] = req.epoch
               PROVE  TabAgrees(theOp.tab, theOp.route)'
    BY <1>1 DEF TabFollows
  <2>1. req.id \in OpIds
    BY RequestsAreTyped DEF GInv, VerdictsAreJudged, Heading, IInv, ByOperation
  <2>2. theOp.tab \in Tabs /\ theOp.route \in Routes
    BY <1>1, <2>1 DEF theOp, State, Operation
  <2>3. epoch'[req.tab] = epoch[req.tab]
    <3>1. /\ req.tab \in Tabs /\ req.epoch <= epoch[req.tab] /\ epoch[req.tab] \in Nat
          /\ req.epoch \in Nat /\ epoch[req.tab] <= epoch'[req.tab]
      BY <1>1 DEF Request, Message, GInv, Stamped, HeardBefore, EpochsGrow
    <3> QED BY <3>1
  <2>4. TabAgrees(theOp.tab, theOp.route)
    BY <2>3 DEF GInv, TabFollows
  <2>5. ASSUME NEW t \in Tabs, NEW r \in Routes, t = theOp.tab, r = theOp.route
        PROVE  TabAgrees(t, r)'
    BY <2>3, <2>4, <2>5 DEF TabsKept
  <2>6. ASSUME NEW t \in Tabs, NEW r \in Routes, t = theOp.tab, r = theOp.route
        PROVE  TabAgrees(theOp.tab, theOp.route)'
    BY <1>1, <2>5, <2>6 DEF TabAgrees, TabTold, Current
  <2> QED BY <2>2, <2>6
<1>8. GrantIsFresh'
  BY DEF Idle, GrantIsFresh, Granted
<1>9. GrantsAreDurable'
  BY DEF GInv, GrantsAreDurable, Intents
<1> QED BY <1>2, <1>4, <1>6, <1>7, <1>8, <1>9 DEF GInv

\* Where the browser and the epochs stay as they are, a decision does too.
LEMMA NothingHappens ==
    ASSUME TypeOK, UNCHANGED <<tabs, settings, events, epoch, revision>>
    PROVE  EpochsGrow /\ TabsKept /\ SettingsKept
  BY DEF TypeOK, EpochsGrow, TabsKept, SettingsKept, TabAgrees, TabTold, SettingsAgree,
         SettingsTold, Current

\* A request that carries the epochs of its arrival.
LEMMA SendFollows ==
    ASSUME IInv, GInv, NEW r \in Request, HeardBefore(r), Send(r) PROVE GInv'
<1>1. /\ Idle /\ queue' = Append(queue, r)
      /\ UNCHANGED <<tabs, settings, events, job, mem, disk, epoch, revision, running>>
  BY DEF Send, browser
<1>2. queue \in Seq(Request)
  BY DEF IInv, TypeOK
<1>3. \A i \in DOMAIN queue' : HeardBefore(queue[i])'
  <2>1. ASSUME NEW i \in DOMAIN queue'
        PROVE  queue'[i] = r \/ (i \in DOMAIN queue /\ queue'[i] = queue[i])
    BY <1>1, <1>2
  <2> QED BY <1>1, <2>1 DEF GInv, Stamped, HeardBefore
<1> QED BY <1>1, <1>3, NothingHappens, EnvironmentFollows DEF IInv

\* A message that only asks carries no epochs, one of a document those of its tab.
LEMMA EpochsOfRequests ==
    ASSUME TypeOK
    PROVE  /\ \A kind \in Kinds : /\ Ask(kind).epoch = 0 /\ Ask(kind).revision = 0
                                  /\ Ask(kind) \in Message
           /\ \A kind \in Kinds, t \in OpenTabs :
                 /\ From(t, kind).epoch = epoch[t] /\ From(t, kind).revision = revision
                 /\ From(t, kind).tab = t /\ From(t, kind) \in Message
<1>1. \A kind \in Kinds : Ask(kind).epoch = 0 /\ Ask(kind).revision = 0 /\ Ask(kind) \in Message
  BY AskTyped DEF Ask
<1>2. ASSUME NEW kind \in Kinds, NEW t \in OpenTabs
      PROVE  /\ From(t, kind).epoch = epoch[t] /\ From(t, kind).revision = revision
             /\ From(t, kind).tab = t /\ From(t, kind) \in Message
  <2>1. From(t, kind) \in Message
    BY FromTyped
  <2> DEFINE r == Ask(kind)
  <2>2. r \in Message
    BY <1>1
  <2>3. From(t, kind) = [r EXCEPT !.tab = t, !.route = tabs[t].route, !.doc = tabs[t].doc,
                                  !.epoch = epoch[t], !.revision = revision]
    BY DEF From
  <2> HIDE DEF r
  <2> QED BY <2>1, <2>2, <2>3 DEF Message
<1> QED BY <1>1, <1>2

\* What users and documents send carries the epochs of its arrival or none.
LEMMA RequestsFollow == ASSUME IInv, GInv, Requests PROVE GInv'
<1>0. TypeOK /\ epoch \in [Tabs -> Nat] /\ revision \in Nat
  BY DEF IInv, TypeOK
<1>1. ASSUME NEW r, r.epoch = 0, r.revision = 0, r.tab \in Tabs PROVE HeardBefore(r)
  BY <1>0, <1>1 DEF HeardBefore
<1>2. ASSUME NEW r, NEW t \in OpenTabs, r.epoch = epoch[t], r.revision = revision, r.tab = t
      PROVE  HeardBefore(r)
  BY <1>0, <1>2 DEF HeardBefore, OpenTabs
<1>3. {"start", "unstart", "claim", "offer", "complete", "popup", "choose", "stop", "reserve",
       "release", "authorize"} \subseteq Kinds
  BY DEF Kinds
<1>4. ASSUME NEW r, Send(r), HeardBefore(r) PROVE GInv'
  <2>1. queue' = Append(queue, r)
    BY <1>4 DEF Send
  <2>2. IInv'
    BY RequestsKeep
  <2>3. r \in Request
    <3>1. queue \in Seq(Request) /\ queue' \in Seq(Request)
      BY <2>2 DEF IInv, TypeOK
    <3>2. queue'[Len(queue) + 1] = r /\ Len(queue) + 1 \in DOMAIN queue'
      BY <2>1, <3>1
    <3> QED BY <3>1, <3>2
  <2> QED BY <1>4, <2>3, SendFollows
<1>5. CASE UserStarts
  <2>1. PICK t \in OpenTabs, m \in Modes, u \in {0} \cup windows :
          Send([Ask("start") EXCEPT !.tab = t, !.route = tabs[t].route, !.mode = m, !.ui = u])
    BY <1>5 DEF UserStarts
  <2> DEFINE x == [Ask("start") EXCEPT !.tab = t, !.route = tabs[t].route, !.mode = m, !.ui = u]
  <2>2. x.epoch = 0 /\ x.revision = 0 /\ x.tab \in Tabs
    BY <1>0, <1>3, EpochsOfRequests DEF Message, OpenTabs
  <2> HIDE DEF x
  <2> QED BY <1>1, <1>4, <2>1, <2>2 DEF x
<1>6. CASE InvitationFails
  <2>1. PICK i \in Intents(mem) : Send([Ask("unstart") EXCEPT !.id = i])
    BY <1>6 DEF InvitationFails
  <2> DEFINE x == [Ask("unstart") EXCEPT !.id = i]
  <2>2. x.epoch = 0 /\ x.revision = 0 /\ x.tab \in Tabs
    BY <1>0, <1>3, EpochsOfRequests DEF Message
  <2> HIDE DEF x
  <2> QED BY <1>1, <1>4, <2>1, <2>2 DEF x
<1>7. CASE DocumentClaims
  <2>1. PICK t \in OpenTabs, i \in Intents(mem) : Send([From(t, "claim") EXCEPT !.id = i])
    BY <1>7 DEF DocumentClaims
  <2> DEFINE x == [From(t, "claim") EXCEPT !.id = i]
  <2>2. x.epoch = epoch[t] /\ x.revision = revision /\ x.tab = t
    BY <1>0, <1>3, EpochsOfRequests DEF Message
  <2> HIDE DEF x
  <2> QED BY <1>2, <1>4, <2>1, <2>2 DEF x
<1>8. CASE DocumentReports
  <2>1. PICK t \in OpenTabs, o \in Operations(mem), kind \in {"offer", "complete"} :
          Send([From(t, kind) EXCEPT !.id = o])
    BY <1>8 DEF DocumentReports
  <2> DEFINE x == [From(t, kind) EXCEPT !.id = o]
  <2>2. x.epoch = epoch[t] /\ x.revision = revision /\ x.tab = t
    BY <1>0, <1>3, EpochsOfRequests DEF Message
  <2> HIDE DEF x
  <2> QED BY <1>2, <1>4, <2>1, <2>2 DEF x
<1>9. CASE DocumentOpensPopup
  <2>1. PICK t \in OpenTabs : Send(From(t, "popup"))
    BY <1>9 DEF DocumentOpensPopup
  <2>2. /\ From(t, "popup").epoch = epoch[t] /\ From(t, "popup").revision = revision
        /\ From(t, "popup").tab = t
    BY <1>0, <1>3, EpochsOfRequests
  <2> QED BY <1>2, <1>4, <2>1, <2>2
<1>10. CASE UserDecides
  <2>1. PICK o \in Operations(mem), u \in {0} \cup windows, kind \in {"choose", "stop"} :
          Send([Ask(kind) EXCEPT !.id = o, !.ui = u])
    BY <1>10 DEF UserDecides
  <2> DEFINE x == [Ask(kind) EXCEPT !.id = o, !.ui = u]
  <2>2. x.epoch = 0 /\ x.revision = 0 /\ x.tab \in Tabs
    BY <1>0, <1>3, EpochsOfRequests DEF Message
  <2> HIDE DEF x
  <2> QED BY <1>1, <1>4, <2>1, <2>2 DEF x
<1>11. CASE PreviewReserves
  <2>1. PICK t \in Tabs, kind \in {"reserve", "release"} : Send([Ask(kind) EXCEPT !.tab = t])
    BY <1>11 DEF PreviewReserves
  <2> DEFINE x == [Ask(kind) EXCEPT !.tab = t]
  <2>2. x.epoch = 0 /\ x.revision = 0 /\ x.tab \in Tabs
    BY <1>0, <1>3, EpochsOfRequests DEF Message
  <2> HIDE DEF x
  <2> QED BY <1>1, <1>4, <2>1, <2>2 DEF x
<1>12. CASE DocumentWorks
  <2>1. PICK t \in OpenTabs, o \in Operations(mem), p \in {"prepare", "persist", "open"} :
          Send([From(t, "authorize") EXCEPT !.id = o, !.purpose = p])
    BY <1>12 DEF DocumentWorks
  <2> DEFINE x == [From(t, "authorize") EXCEPT !.id = o, !.purpose = p]
  <2>2. x.epoch = epoch[t] /\ x.revision = revision /\ x.tab = t
    BY <1>0, <1>3, EpochsOfRequests DEF Message
  <2> HIDE DEF x
  <2> QED BY <1>2, <1>4, <2>1, <2>2 DEF x
<1>13. CASE DocumentStages
  <2>1. PICK t \in OpenTabs, o \in Operations(mem), s \in Stages,
             p \in {"begin", "use", "commit", "abort"} :
          Send([From(t, "authorize") EXCEPT !.id = o, !.purpose = p, !.stage = s])
    BY <1>13 DEF DocumentStages
  <2> DEFINE x == [From(t, "authorize") EXCEPT !.id = o, !.purpose = p, !.stage = s]
  <2>2. x.epoch = epoch[t] /\ x.revision = revision /\ x.tab = t
    BY <1>0, <1>3, EpochsOfRequests DEF Message
  <2> HIDE DEF x
  <2> QED BY <1>2, <1>4, <2>1, <2>2 DEF x
<1> QED
  BY <1>5, <1>6, <1>7, <1>8, <1>9, <1>10, <1>11, <1>12, <1>13 DEF Requests

\* What is announced is told until it is delivered.
LEMMA DisturbTells ==
    ASSUME TypeOK, NEW what, NEW e \in Event, Disturb(what, e)
    PROVE  /\ Idle /\ UNCHANGED <<job, mem, disk, queue, running, epoch, revision>>
           /\ \A t \in Tabs : TabTold(t) => TabTold(t)'
           /\ e.kind \in {"changed", "removed"} => TabTold(e.tab)'
           /\ SettingsTold => SettingsTold'
           /\ e.kind = "settings" => SettingsTold'
<1>1. events \in Seq(Event) /\ events' = Append(events, e)
  BY DEF TypeOK, Disturb
<1>2. /\ \A i \in DOMAIN events : i \in DOMAIN events' /\ events'[i] = events[i]
      /\ Len(events) + 1 \in DOMAIN events' /\ events'[Len(events) + 1] = e
  BY <1>1
<1>3. \A t \in Tabs : TabTold(t) => TabTold(t)'
  BY <1>2 DEF TabTold
<1>4. e.kind \in {"changed", "removed"} => TabTold(e.tab)'
  BY <1>2 DEF TabTold
<1>5. (SettingsTold => SettingsTold') /\ (e.kind = "settings" => SettingsTold')
  BY <1>2 DEF SettingsTold
<1>6. Idle /\ UNCHANGED <<job, mem, disk, queue, running, epoch, revision>>
  BY DEF Disturb, volatile
<1> QED BY <1>3, <1>4, <1>5, <1>6

\* A change of one tab, of an export window or of the settings that is announced.
LEMMA DisturbFollows ==
    ASSUME IInv, GInv, NEW what, NEW e \in Event, Disturb(what, e),
           \A t \in Tabs : tabs'[t] = tabs[t] \/ (e.kind \in {"changed", "removed"} /\ e.tab = t),
           settings' = settings \/ e.kind = "settings"
    PROVE  GInv'
<1>0. TypeOK /\ epoch \in [Tabs -> Nat] /\ revision \in Nat
  BY DEF IInv, TypeOK
<1>1. /\ Idle /\ UNCHANGED <<job, mem, disk, queue, running, epoch, revision>>
      /\ \A t \in Tabs : TabTold(t) => TabTold(t)'
      /\ e.kind \in {"changed", "removed"} => TabTold(e.tab)'
      /\ SettingsTold => SettingsTold'
      /\ e.kind = "settings" => SettingsTold'
  BY <1>0, DisturbTells
<1>2. TabsKept
  <2> SUFFICES ASSUME NEW t \in Tabs, NEW r \in Routes, TabAgrees(t, r) PROVE TabAgrees(t, r)'
    BY DEF TabsKept
  <2>1. CASE tabs'[t] = tabs[t]
    BY <1>1, <2>1 DEF TabAgrees, Current
  <2>2. CASE e.kind \in {"changed", "removed"} /\ e.tab = t
    BY <1>1, <2>2 DEF TabAgrees, TabTold
  <2> QED BY <2>1, <2>2
<1>3. SettingsKept
  BY <1>1 DEF SettingsKept, SettingsAgree
<1>4. EpochsGrow
  BY <1>0, <1>1 DEF EpochsGrow
<1>5. (\A i \in DOMAIN queue' : HeardBefore(queue[i])') /\ running' \subseteq running
  BY <1>1 DEF GInv, Stamped, HeardBefore
<1> QED BY <1>1, <1>2, <1>3, <1>4, <1>5, EnvironmentFollows

\* The kind and the tab of a notification.
LEMMA NoticeFields ==
    ASSUME NEW kind, NEW t, NEW r, NEW u
    PROVE  Notice(kind, t, r, u).kind = kind /\ Notice(kind, t, r, u).tab = t
  BY DEF Notice

\* What happens to tabs, windows and settings.
LEMMA BrowserFollows ==
    ASSUME IInv, GInv,
           \/ Navigates \/ Reloads \/ Settles \/ TabCloses \/ WindowCloses \/ SettingsWritten
    PROVE  GInv'
<1> DEFINE Tab == [route: Routes \cup {Closed}, loading: BOOLEAN, doc: Nat]
<1>0. TypeOK /\ tabs \in [Tabs -> Tab] /\ windows \subseteq SurfaceIds
  BY DEF IInv, TypeOK
<1>1. \A r \in Routes : r # Loading
  BY ParametersAreSane
<1> USE DefaultsInRange
<1>2. CASE Navigates
  <2>1. PICK t \in OpenTabs, r \in Routes :
          /\ tabs' = [tabs EXCEPT ![t].route = r]
          /\ Disturb("browser", Notice("changed", t, r, 0))
          /\ UNCHANGED <<windows, settings>>
    BY <1>2 DEF Navigates
  <2>2. t \in Tabs /\ \A x \in Tabs : tabs'[x] = tabs[x] \/ x = t
    BY <1>0, <2>1 DEF OpenTabs
  <2>3. Notice("changed", t, r, 0) \in Event
    BY <1>1, <2>2, NoticeTyped
  <2> QED BY <2>1, <2>2, <2>3, NoticeFields, DisturbFollows
<1>3. CASE Reloads
  <2>1. PICK t \in OpenTabs, r \in Routes :
          /\ tabs' = [tabs EXCEPT ![t] = [route |-> r, loading |-> TRUE, doc |-> @.doc + 1]]
          /\ Disturb("browser", Notice("changed", t, Loading, 0))
          /\ UNCHANGED <<windows, settings>>
    BY <1>3 DEF Reloads
  <2>2. t \in Tabs /\ \A x \in Tabs : tabs'[x] = tabs[x] \/ x = t
    BY <1>0, <2>1 DEF OpenTabs
  <2>3. Notice("changed", t, Loading, 0) \in Event
    BY <2>2, NoticeTyped
  <2> QED BY <2>1, <2>2, <2>3, NoticeFields, DisturbFollows
<1>4. CASE Settles
  <2>1. PICK t \in Tabs : tabs' = [tabs EXCEPT ![t].loading = FALSE]
    BY <1>4 DEF Settles
  <2>2. /\ Idle
        /\ UNCHANGED <<settings, events, job, mem, disk, queue, running, epoch, revision>>
    BY <1>4 DEF Settles, volatile
  <2>3. TabsKept
    <3> SUFFICES ASSUME NEW x \in Tabs, NEW r \in Routes, TabAgrees(x, r) PROVE TabAgrees(x, r)'
      BY DEF TabsKept
    <3>1. tabs'[x].route = tabs[x].route /\ (~tabs[x].loading => ~tabs'[x].loading)
      BY <1>0, <2>1
    <3> QED BY <2>2, <3>1 DEF TabAgrees, TabTold, Current
  <2>4. SettingsKept /\ EpochsGrow
    BY <2>2 DEF SettingsKept, SettingsAgree, SettingsTold, EpochsGrow, IInv, TypeOK
  <2>5. (\A i \in DOMAIN queue' : HeardBefore(queue[i])') /\ running' \subseteq running
    BY <2>2 DEF GInv, Stamped, HeardBefore
  <2> QED BY <2>2, <2>3, <2>4, <2>5, EnvironmentFollows
<1>5. CASE TabCloses
  <2>1. PICK t \in OpenTabs :
          /\ tabs' = [tabs EXCEPT ![t].route = Closed, ![t].loading = FALSE]
          /\ Disturb("browser", Notice("removed", t, AnyRoute, 0))
          /\ UNCHANGED <<windows, settings>>
    BY <1>5 DEF TabCloses
  <2>2. t \in Tabs /\ \A x \in Tabs : tabs'[x] = tabs[x] \/ x = t
    BY <1>0, <2>1 DEF OpenTabs
  <2> DEFINE e == Notice("removed", t, AnyRoute, 0)
  <2>3. e \in Event
    BY <2>2, NoticeTyped
  <2>4. e.kind = "removed" /\ e.tab = t
    BY NoticeFields
  <2>5. Disturb("browser", e) /\ settings' = settings
    BY <2>1
  <2> HIDE DEF e
  <2> QED BY <2>2, <2>3, <2>4, <2>5, DisturbFollows
<1>6. CASE WindowCloses
  <2>1. PICK u \in windows :
          /\ Disturb("browser", Notice("window-closed", AnyTab, AnyRoute, u))
          /\ UNCHANGED <<tabs, settings>>
    BY <1>6 DEF WindowCloses
  <2>2. u \in 0 .. MaxSurfaces
    BY <1>0, ParametersAreSane DEF SurfaceIds
  <2>3. Notice("window-closed", AnyTab, AnyRoute, u) \in Event
    BY <2>2, NoticeTyped
  <2> QED BY <2>1, <2>3, DisturbFollows
<1>7. CASE SettingsWritten
  <2>1. /\ Disturb("settings", Notice("settings", AnyTab, AnyRoute, 0))
        /\ UNCHANGED <<tabs, windows>>
    BY <1>7 DEF SettingsWritten
  <2>2. Notice("settings", AnyTab, AnyRoute, 0) \in Event
    BY NoticeTyped
  <2> QED BY <2>1, <2>2, NoticeFields, DisturbFollows
<1> QED BY <1>2, <1>3, <1>4, <1>5, <1>6, <1>7

\* The listeners move the epoch that a notification is about.
LEMMA RevokeMoves ==
    ASSUME IInv, GInv, NEW e \in Event, Revoke(e)
    PROVE  /\ EpochsGrow /\ \A i \in DOMAIN queue' : HeardBefore(queue[i])'
           /\ e.kind \in {"changed", "removed"} => epoch'[e.tab] # epoch[e.tab]
           /\ e.kind = "settings" => revision' # revision
<1>0. TypeOK /\ epoch \in [Tabs -> Nat] /\ revision \in Nat /\ queue \in Seq(Request)
      /\ e.tab \in Tabs /\ e.kind \in Kinds
  BY DEF IInv, TypeOK, Event, Notification, Kinds
<1>1. epoch' \in [Tabs -> Nat] /\ revision' \in Nat
  BY <1>0, RevokeTyped
<1>2. /\ \A t \in Tabs : epoch[t] <= epoch'[t]
      /\ e.kind \in {"changed", "removed"} => epoch'[e.tab] # epoch[e.tab]
  <2>1. CASE e.kind \in {"changed", "removed"}
    <3>1. epoch' = [epoch EXCEPT ![e.tab] = @ + 1]
      BY <2>1 DEF Revoke
    <3>2. \A t \in Tabs : epoch'[t] = epoch[t] \/ epoch'[t] = epoch[t] + 1
      BY <1>0, <3>1
    <3>3. epoch'[e.tab] = epoch[e.tab] + 1 /\ epoch[e.tab] \in Nat
      BY <1>0, <3>1
    <3>4. ASSUME NEW t \in Tabs PROVE epoch[t] <= epoch'[t]
      <4>1. epoch[t] \in Nat
        BY <1>0
      <4> QED BY <3>2, <4>1
    <3>5. epoch'[e.tab] # epoch[e.tab]
      BY <3>3
    <3> QED BY <3>4, <3>5
  <2>2. CASE e.kind \notin {"changed", "removed"}
    <3>1. epoch' = epoch
      BY <2>2 DEF Revoke
    <3> QED BY <1>0, <2>2, <3>1
  <2> QED BY <2>1, <2>2
<1>3. revision <= revision' /\ (e.kind = "settings" => revision' # revision)
  BY <1>0 DEF Revoke
<1>4. EpochsGrow
  BY <1>1, <1>2, <1>3 DEF EpochsGrow
<1> DEFINE a == Ask(e.kind)
           r == [a EXCEPT !.tab = e.tab, !.route = e.route, !.ui = e.ui]
<1>5. a.epoch = 0 /\ a.revision = 0 /\ a \in Message
  BY <1>0, EpochsOfRequests
<1> HIDE DEF a
<1>6. r.epoch = 0 /\ r.revision = 0 /\ r.tab = e.tab
  BY <1>5 DEF Message
<1>7. queue' = Append(queue, r)
  BY DEF Revoke, a
<1> HIDE DEF r
<1>8. ASSUME NEW i \in DOMAIN queue'
      PROVE  queue'[i] = r \/ (i \in DOMAIN queue /\ queue'[i] \in Request /\ queue'[i] = queue[i])
  BY <1>0, <1>7
<1>9. \A i \in DOMAIN queue' : HeardBefore(queue[i])'
  <2> SUFFICES ASSUME NEW i \in DOMAIN queue' PROVE HeardBefore(queue[i])'
    OBVIOUS
  <2>1. CASE queue'[i] = r
    BY <1>0, <1>1, <1>6, <2>1 DEF HeardBefore
  <2>2. CASE i \in DOMAIN queue /\ queue'[i] \in Request /\ queue'[i] = queue[i]
    <3>1. /\ queue[i].tab \in Tabs /\ queue[i].epoch \in Nat /\ queue[i].revision \in Nat
          /\ queue[i].epoch <= epoch[queue[i].tab] /\ queue[i].revision <= revision
      BY <2>2 DEF Request, Message, GInv, Stamped, HeardBefore
    <3>2. queue[i].epoch <= epoch'[queue[i].tab] /\ queue[i].revision <= revision'
      BY <1>0, <1>4, <3>1 DEF EpochsGrow
    <3> QED BY <2>2, <3>2 DEF HeardBefore
  <2> QED BY <1>8, <2>1, <2>2
<1> QED BY <1>2, <1>3, <1>4, <1>9

\* Notifications reach the worker, handlers return, time passes.
LEMMA ArrivalsFollow ==
    ASSUME IInv, GInv, Deliver \/ UserSavesSettings \/ HandlerReturns \/ TimePasses
    PROVE  GInv'
<1>0. TypeOK /\ events \in Seq(Event) /\ queue \in Seq(Request)
  BY DEF IInv, TypeOK
<1>1. CASE Deliver
  <2> DEFINE e == Head(events)
  <2>1. /\ Idle /\ events # <<>> /\ events' = Tail(events) /\ Revoke(e)
        /\ UNCHANGED <<tabs, settings, disk, mem, job, running>>
    BY <1>1 DEF Deliver
  <2>2. e \in Event /\ e = events[1]
    BY <1>0, <2>1
  <2>3. \A i \in DOMAIN events : i = 1 \/ (i - 1 \in DOMAIN events' /\ events'[i - 1] = events[i])
    BY <1>0, <2>1
  <2> HIDE DEF e
  <2>4. /\ EpochsGrow /\ \A i \in DOMAIN queue' : HeardBefore(queue[i])'
        /\ e.kind \in {"changed", "removed"} => epoch'[e.tab] # epoch[e.tab]
        /\ e.kind = "settings" => revision' # revision
    BY <2>1, <2>2, RevokeMoves
  <2>5. TabsKept
    <3> SUFFICES ASSUME NEW t \in Tabs, NEW r \in Routes, epoch'[t] = epoch[t], TabAgrees(t, r)
                 PROVE  TabAgrees(t, r)'
      BY DEF TabsKept
    <3>1. CASE Current(t, r)
      BY <2>1, <3>1 DEF TabAgrees, Current
    <3>2. CASE TabTold(t)
      <4>1. PICK i \in DOMAIN events : events[i].kind \in {"changed", "removed"} /\ events[i].tab = t
        BY <3>2 DEF TabTold
      <4>2. i # 1
        BY <2>2, <2>4, <4>1
      <4> QED BY <2>3, <4>1, <4>2 DEF TabAgrees, TabTold
    <3> QED BY <3>1, <3>2 DEF TabAgrees
  <2>6. SettingsKept
    <3> SUFFICES ASSUME NEW v \in Settings, revision' = revision, SettingsAgree(v)
                 PROVE  SettingsAgree(v)'
      BY DEF SettingsKept
    <3>1. CASE settings = v
      BY <2>1, <3>1 DEF SettingsAgree
    <3>2. CASE SettingsTold
      <4>1. PICK i \in DOMAIN events : events[i].kind = "settings"
        BY <3>2 DEF SettingsTold
      <4>2. i # 1
        BY <2>2, <2>4, <4>1
      <4> QED BY <2>3, <4>1, <4>2 DEF SettingsAgree, SettingsTold
    <3> QED BY <3>1, <3>2 DEF SettingsAgree
  <2> QED BY <2>1, <2>4, <2>5, <2>6, EnvironmentFollows
<1>2. CASE UserSavesSettings
  <2>1. /\ Idle /\ Revoke(Notice("settings", AnyTab, AnyRoute, 0))
        /\ UNCHANGED <<tabs, events, disk, mem, job, running>>
    BY <1>2 DEF UserSavesSettings
  <2>2. Notice("settings", AnyTab, AnyRoute, 0) \in Event
    BY DefaultsInRange, NoticeTyped
  <2>3. EpochsGrow /\ (\A i \in DOMAIN queue' : HeardBefore(queue[i])') /\ revision' # revision
    BY <2>1, <2>2, NoticeFields, RevokeMoves
  <2>4. TabsKept /\ SettingsKept
    BY <2>1, <2>3 DEF TabsKept, TabAgrees, TabTold, Current, SettingsKept
  <2> QED BY <2>1, <2>3, <2>4, EnvironmentFollows
<1>3. CASE HandlerReturns
  <2>1. /\ Idle
        /\ UNCHANGED <<tabs, settings, events, disk, mem, job, epoch, revision>>
    BY <1>3 DEF HandlerReturns, browser
  <2>2. PICK h \in running :
          /\ running' = running \ {h}
          /\ \/ UNCHANGED queue
             \/ queue' = Append(queue, [h EXCEPT !.kind = "record"])
             \/ queue' = Append(queue, [h EXCEPT !.kind = "released"])
    BY <1>3 DEF HandlerReturns
  <2>3. h \in Message /\ HeardBefore(h)
    BY <1>0, <2>2 DEF TypeOK, Request, GInv, Stamped
  <2>4. ASSUME NEW kind, queue' = Append(queue, [h EXCEPT !.kind = kind])
        PROVE  \A i \in DOMAIN queue' : HeardBefore(queue[i])'
    <3> DEFINE x == [h EXCEPT !.kind = kind]
    <3>1. x.tab = h.tab /\ x.epoch = h.epoch /\ x.revision = h.revision
      BY <2>3 DEF Message
    <3>2. queue' = Append(queue, x)
      BY <2>4
    <3> HIDE DEF x
    <3>3. ASSUME NEW i \in DOMAIN queue'
          PROVE  queue'[i] = x \/ (i \in DOMAIN queue /\ queue'[i] = queue[i])
      BY <1>0, <3>2
    <3> QED BY <2>1, <2>3, <3>1, <3>3 DEF GInv, Stamped, HeardBefore
  <2>5. UNCHANGED queue => \A i \in DOMAIN queue' : HeardBefore(queue[i])'
    BY <2>1 DEF GInv, Stamped, HeardBefore
  <2>6. \A i \in DOMAIN queue' : HeardBefore(queue[i])'
    BY <2>2, <2>4, <2>5
  <2>7. running' \subseteq running
    BY <2>2
  <2> QED BY <1>0, <2>1, <2>6, <2>7, NothingHappens, EnvironmentFollows
<1>4. CASE TimePasses
  <2>1. /\ Idle
        /\ UNCHANGED <<tabs, settings, events, disk, mem, job, queue, running, epoch, revision>>
    BY <1>4 DEF TimePasses, browser, volatile
  <2>2. (\A i \in DOMAIN queue' : HeardBefore(queue[i])') /\ running' \subseteq running
    BY <2>1 DEF GInv, Stamped, HeardBefore
  <2> QED BY <1>0, <2>1, <2>2, NothingHappens, EnvironmentFollows
<1> QED BY <1>1, <1>2, <1>3, <1>4

\* A worker that starts has heard nothing and judged nothing.
LEMMA InitFollows == Init => GInv
<1> SUFFICES ASSUME Init PROVE GInv
  OBVIOUS
<1>1. /\ mem \in {disk, EmptyState} /\ job = NoJob /\ queue = <<>> /\ running = {}
      /\ epoch = [t \in Tabs |-> 0] /\ revision = 0
  BY DEF Init, Hydrate
<1>2. /\ job.at = "idle" /\ job.onSaved = "done" /\ job.onFailed = "done"
      /\ job.revision = 0 /\ job.req = Ask("settings")
  BY <1>1 DEF NoJob
<1>3. /\ Ask("settings").epoch = 0 /\ Ask("settings").revision = 0
      /\ Ask("settings").tab \in Tabs
  BY ParametersAreSane DEF Ask, AnyTab
<1>4. Stamped
  BY <1>1, <1>2, <1>3 DEF Stamped, HeardBefore, req
<1>5. VerdictsAreJudged
  BY <1>2 DEF VerdictsAreJudged, Heading
<1>6. GrantsAreDurable
  <2>1. /\ \A i \in IntentIds : ~EmptyState.intents[i].there
        /\ \A o \in OpIds : ~Live(EmptyState.ops[o])
    BY DEF EmptyState, NoIntent, NoOperation, Live
  <2> QED BY <1>1, <2>1 DEF GrantsAreDurable, Intents
<1>7. SettingsFollow /\ TabFollows /\ GrantIsFresh
  BY <1>2 DEF SettingsFollow, TabFollows, GrantIsFresh, Granted, Heading
<1> QED BY <1>4, <1>5, <1>6, <1>7 DEF GInv

\* Every step keeps what a decision relies on.
LEMMA NextFollows == IInv /\ GInv /\ [Next]_vars => GInv'
<1> SUFFICES ASSUME IInv, GInv, [Next]_vars PROVE GInv'
  OBVIOUS
<1>1. CASE Acquire
  BY <1>1, AcquireFollows
<1>2. CASE Saved
  BY <1>2, SavedFollows
<1>3. CASE SettingsArrive
  BY <1>3, SettingsArriveFollows
<1>4. CASE JobSteps
  BY <1>4, JobStepsFollow
<1>5. CASE Requests
  BY <1>5, RequestsFollow
<1>6. CASE Deliver \/ UserSavesSettings \/ HandlerReturns \/ TimePasses
  BY <1>6, ArrivalsFollow
<1>7. CASE \/ Navigates \/ Reloads \/ Settles \/ TabCloses \/ WindowCloses \/ SettingsWritten
  BY <1>7, BrowserFollows
<1>8. CASE SaveFailed
  BY <1>8, SaveFailedFollows
<1>9. CASE Restarts
  BY <1>9, RestartsFollow
<1>10. CASE UNCHANGED vars
  <2>1. UNCHANGED <<tabs, settings, events, disk, mem, job, queue, epoch, revision, running>>
    BY <1>10 DEF vars, browser, volatile
  <2>2. req' = req /\ theOp' = theOp
    BY <2>1 DEF req, theOp
  <2>3. VerdictsAreJudged' /\ Stamped' /\ GrantsAreDurable'
    BY <2>1, <2>2 DEF GInv, VerdictsAreJudged, Heading, Stamped, HeardBefore, GrantsAreDurable,
                      Intents
  <2>4. SettingsFollow' /\ TabFollows'
    BY <2>1, <2>2
    DEF GInv, SettingsFollow, TabFollows, Heading, SettingsAgree, SettingsTold, TabAgrees,
        TabTold, Current
  <2>5. GrantIsFresh'
    BY <2>1, <2>2 DEF GInv, GrantIsFresh, Granted, Current
  <2> QED BY <2>3, <2>4, <2>5 DEF GInv
<1> QED
  BY <1>1, <1>2, <1>3, <1>4, <1>5, <1>6, <1>7, <1>8, <1>9, <1>10 DEF Next, Worker, World

\* A grant would survive the worker, and what it admits agrees with the browser
\* but for notifications that the worker has not yet received, whatever falls
\* between the awaits of the decision.
THEOREM GrantsHold == Spec => []GrantsAreSound
<1>1. Init => IInv /\ GInv
  BY InitFits, InitFollows
<1>2. (IInv /\ GInv) /\ [Next]_vars => (IInv /\ GInv)'
  BY NextKeeps, NextFollows
<1>3. IInv /\ GInv => GrantsAreSound
  BY DEF GInv, GrantsAreSound
<1> QED BY <1>1, <1>2, <1>3, PTL DEF Spec

-----------------------------------------------------------------------------
(* No grant after a revocation.                                            *)

\* A notification that ends record `x` holds the lock, or waits for it.
Sweeping(x) == Heading({"enter", "sweep"}) /\ Ends(req, x)
Waiting(x) == \E k \in DOMAIN queue : Ends(queue[k], x)
Coming(x) == Sweeping(x) \/ Waiting(x)

\* What was revoked and is not ended yet has its end coming.
EndsAreComing ==
    /\ \A o \in OpIds :
          Live(mem.ops[o]) /\ <<"operation", o>> \in revoked => Coming(mem.ops[o])
    /\ \A i \in IntentIds :
          mem.intents[i].there /\ <<"intent", i>> \in revoked => Coming(mem.intents[i])

\* The epochs of request `r` have moved with notification `n`.
Outdated(r, n) ==
    /\ n.kind = "settings" => r.revision < revision
    /\ n.kind \in {"removed", "changed"} /\ r.tab = n.tab => r.epoch < epoch[r.tab]

\* The lock is taken in the order of arrival: the notifications that wait behind
\* a request were delivered after it.
QueueInOrder ==
    /\ \A j, k \in DOMAIN queue : j < k => Outdated(queue[j], queue[k])
    /\ job.at # "idle" => \A k \in DOMAIN queue : Outdated(req, queue[k])

\* The identities not yet given were not revoked.
Unheard ==
    /\ \A o \in OpIds : o >= next.op => <<"operation", o>> \notin revoked
    /\ \A i \in IntentIds :
          i >= next.intent => <<"intent", i>> \notin revoked /\ ~mem.intents[i].there

\* Until the worker is lost, these hold together.
CInv == EndsAreComing /\ QueueInOrder /\ Unheard

\* A change that leaves the conversation of what stays pending.
PendingKept ==
    /\ \A o \in OpIds :
          Live(mem'.ops[o]) =>
              /\ Live(mem.ops[o])
              /\ mem'.ops[o].tab = mem.ops[o].tab /\ mem'.ops[o].route = mem.ops[o].route
    /\ IntentsKept(mem, mem')

\* Whether a record is ended depends on its conversation alone.
LEMMA ComingAlike ==
    ASSUME NEW x, NEW y, x.tab = y.tab, x.route = y.route
    PROVE  /\ Coming(x) <=> Coming(y)
           /\ Coming(x)' <=> Coming(y)'
  BY DEF Coming, Sweeping, Waiting, Ends

\* What is coming for a record comes for whatever the record becomes.
LEMMA ComingFollows ==
    ASSUME EndsAreComing, PendingKept, revoked' = revoked,
           \A x : Coming(x) => Coming(x)'
    PROVE  EndsAreComing'
<1>1. ASSUME NEW o \in OpIds, Live(mem'.ops[o]), <<"operation", o>> \in revoked
      PROVE  Coming(mem.ops[o])'
  <2>1. PICK x, y : x = mem.ops[o] /\ y = mem'.ops[o]
    OBVIOUS
  <2>2. Coming(x) /\ x.tab = y.tab /\ x.route = y.route
    BY <1>1, <2>1 DEF EndsAreComing, PendingKept
  <2>3. Coming(y)'
    BY <2>2, ComingAlike
  <2> QED BY <2>1, <2>3 DEF Coming, Sweeping, Waiting
<1>2. ASSUME NEW i \in IntentIds, mem'.intents[i].there, <<"intent", i>> \in revoked
      PROVE  Coming(mem.intents[i])'
  <2>1. PICK x : x = mem.intents[i] /\ x = mem'.intents[i]
    BY <1>2 DEF PendingKept, IntentsKept
  <2>2. Coming(x)'
    BY <1>2, <2>1 DEF EndsAreComing
  <2> QED BY <2>1, <2>2 DEF Coming, Sweeping, Waiting
<1> QED BY <1>1, <1>2 DEF EndsAreComing

\* An arrival joins the queue at its end.
LEMMA QueueGrows ==
    ASSUME NEW q \in Seq(Request), NEW n \in Request, NEW p, p = Append(q, n)
    PROVE  /\ \A k \in DOMAIN q : k \in DOMAIN p /\ p[k] = q[k] /\ k < Len(q) + 1
           /\ \A k \in DOMAIN p : k \in DOMAIN q \/ k = Len(q) + 1
           /\ Len(q) + 1 \in DOMAIN p /\ p[Len(q) + 1] = n
           /\ \A k \in DOMAIN q : ~(Len(q) + 1 < k)
  OBVIOUS

\* What waits goes on waiting.
LEMMA WaitingFollows ==
    ASSUME queue \in Seq(Request),
           queue' = queue \/ \E n \in Request : queue' = Append(queue, n)
    PROVE  \A x : Waiting(x) => Waiting(x)'
<1>1. CASE queue' = queue
  BY <1>1 DEF Waiting
<1>2. CASE \E n \in Request : queue' = Append(queue, n)
  <2>1. \A k \in DOMAIN queue : k \in DOMAIN queue' /\ queue'[k] = queue[k]
    BY <1>2, QueueGrows
  <2> QED BY <2>1 DEF Waiting
<1> QED BY <1>1, <1>2

\* Epochs that have moved do not return.
LEMMA OutdatedFollows ==
    ASSUME TypeOK, EpochsGrow, NEW r \in Request, NEW n, Outdated(r, n) PROVE Outdated(r, n)'
<1>1. /\ r.tab \in Tabs /\ r.epoch \in Nat /\ r.revision \in Nat
      /\ epoch \in [Tabs -> Nat] /\ revision \in Nat
  BY DEF Request, Message, TypeOK
<1>2. /\ epoch[r.tab] \in Nat /\ epoch'[r.tab] \in Nat /\ epoch[r.tab] <= epoch'[r.tab]
      /\ revision' \in Nat /\ revision <= revision'
  BY <1>1 DEF EpochsGrow
<1> QED BY <1>1, <1>2 DEF Outdated

\* The message that holds the lock keeps the epochs of its arrival.
SameMessage ==
    \/ job'.at = "idle"
    \/ /\ job.at # "idle" /\ job'.req.tab = req.tab
       /\ job'.req.epoch = req.epoch /\ job'.req.revision = req.revision

\* Requests already in their order stay in it.
LEMMA OrderFollows ==
    ASSUME TypeOK, Stamped, QueueInOrder, EpochsGrow, SameMessage,
           \/ queue' = queue
           \/ \E n \in Request :
                 /\ queue' = Append(queue, n)
                 /\ \A r \in Request : HeardBefore(r) => Outdated(r, n)'
    PROVE  QueueInOrder'
<1>0. queue \in Seq(Request) /\ req \in Request
  BY DEF TypeOK, Job, req
<1>1. \A k \in DOMAIN queue : queue[k] \in Request
  BY <1>0
<1>2. ASSUME NEW n, NEW k \in DOMAIN queue', queue'[k] = n, job'.at # "idle",
             NEW r \in Request, r = req, Outdated(r, n)'
      PROVE  Outdated(req, queue[k])'
  BY <1>2 DEF Outdated, SameMessage, req
<1>3. CASE queue' = queue
  <2>1. ASSUME NEW j \in DOMAIN queue, NEW k \in DOMAIN queue, j < k
        PROVE  Outdated(queue[j], queue[k])'
    <3>1. PICK r \in Request, n \in Request : r = queue[j] /\ n = queue[k]
      BY <1>1
    <3>2. Outdated(r, n)'
      BY <2>1, <3>1, OutdatedFollows DEF QueueInOrder
    <3> QED BY <1>3, <3>1, <3>2 DEF Outdated
  <2>2. ASSUME NEW k \in DOMAIN queue, job'.at # "idle" PROVE Outdated(req, queue[k])'
    <3>1. PICK r \in Request, n \in Request : r = req /\ n = queue[k]
      BY <1>0, <1>1
    <3>2. Outdated(r, n)'
      BY <2>2, <3>1, OutdatedFollows DEF QueueInOrder, SameMessage
    <3> QED BY <1>2, <1>3, <2>2, <3>1, <3>2
  <2> QED BY <1>3, <2>1, <2>2 DEF QueueInOrder
<1>4. ASSUME NEW n \in Request, queue' = Append(queue, n),
             \A r \in Request : HeardBefore(r) => Outdated(r, n)'
      PROVE  QueueInOrder'
  <2> DEFINE last == Len(queue) + 1
  <2>0. /\ \A k \in DOMAIN queue : k \in DOMAIN queue' /\ queue'[k] = queue[k] /\ k < last
        /\ \A k \in DOMAIN queue' : k \in DOMAIN queue \/ k = last
        /\ last \in DOMAIN queue' /\ queue'[last] = n
        /\ \A k \in DOMAIN queue : ~(last < k)
        /\ ~(last < last)
    BY <1>0, <1>4, QueueGrows
  <2> HIDE DEF last
  <2>1. ASSUME NEW j \in DOMAIN queue', NEW k \in DOMAIN queue', j < k
        PROVE  Outdated(queue[j], queue[k])'
    <3>1. j \in DOMAIN queue
      BY <2>0, <2>1
    <3>2. PICK r \in Request, m \in Request : r = queue[j] /\ m = queue'[k]
      BY <1>1, <2>0, <3>1
    <3>3. Outdated(r, m)'
      <4>1. CASE k = last
        <5>1. HeardBefore(r) /\ m = n
          BY <2>0, <3>1, <3>2, <4>1 DEF Stamped
        <5> QED BY <1>4, <5>1
      <4>2. CASE k \in DOMAIN queue
        <5>1. Outdated(r, m)
          BY <2>0, <2>1, <3>1, <3>2, <4>2 DEF QueueInOrder
        <5> QED BY <5>1, OutdatedFollows
      <4> QED BY <2>0, <4>1, <4>2
    <3> QED BY <2>0, <3>1, <3>2, <3>3 DEF Outdated
  <2>2. ASSUME NEW k \in DOMAIN queue', job'.at # "idle" PROVE Outdated(req, queue[k])'
    <3>1. PICK r \in Request, m \in Request : r = req /\ m = queue'[k]
      BY <1>0, <1>1, <2>0
    <3>2. Outdated(r, m)'
      <4>1. CASE k = last
        <5>1. HeardBefore(r) /\ m = n
          BY <2>0, <3>1, <4>1 DEF Stamped
        <5> QED BY <1>4, <5>1
      <4>2. CASE k \in DOMAIN queue
        <5>1. Outdated(r, m)
          BY <2>0, <2>2, <3>1, <4>2 DEF QueueInOrder, SameMessage
        <5> QED BY <5>1, OutdatedFollows
      <4> QED BY <2>0, <4>1, <4>2
    <3> QED BY <1>2, <2>2, <3>1, <3>2
  <2> QED BY <2>1, <2>2 DEF QueueInOrder
<1> QED BY <1>3, <1>4

-----------------------------------------------------------------------------
(* How a step of a job leaves the job.                                     *)

\* A step of a job ends it, looks at something, saves, or passes it on; only the
\* last comparison, and the admission of an abort, grant.
Onward == Steps \ {"granted", "enter", "idle", "save"}
JobForms ==
    \/ Finish \/ ReadSettings \/ Rechecks \/ CommitJudges \/ OfferAdmits
    \/ \E step \in Onward : Go(step)
    \/ \E onSaved, onFailed \in Onward : \E state : SaveThen(state, onSaved, onFailed)
    \/ job.at = "final" /\ AdmissionStillCurrent /\ Go("granted") /\ UNCHANGED mem
    \/ job.at = "enter" /\ req.purpose = "abort" /\ Go("granted")

\* Every step of a job has one of these forms.
LEMMA JobTakesForm == ASSUME JobSteps PROVE JobForms
<1>0. {"compact", "create-window", "give-up", "refused", "recheck", "done", "apply", "sweep"}
         \subseteq Onward
  BY DEF Onward, Steps
<1>1. ASSUME NEW o, NEW step \in {"refused", "done"}, CancelThen(o, step) PROVE JobForms
  BY <1>0, <1>1 DEF CancelThen, JobForms
<1>2. ASSUME NEW kind, NEW admissible, Check(kind, admissible) PROVE JobForms
  BY <1>2 DEF Check, JobForms
<1>3. CASE StartChecks \/ ClaimChecks \/ OfferChecks \/ ChooseChecks \/ CommitChecks
  BY <1>2, <1>3 DEF StartChecks, ClaimChecks, OfferChecks, ChooseChecks, CommitChecks
<1>4. CASE StartAdmits
  BY <1>0, <1>4 DEF StartAdmits, JobForms
<1>5. CASE ClaimAdmits
  BY <1>0, <1>5 DEF ClaimAdmits, JobForms
<1>6. CASE OfferAdmits
  BY <1>6 DEF JobForms
<1>7. CASE OpenChecks \/ WindowRefused \/ GiveUp
  BY <1>0, <1>7 DEF OpenChecks, WindowRefused, GiveUp, JobForms
<1>8. CASE Compact \/ WindowCreated
  BY <1>0, <1>8 DEF Compact, WindowCreated, JobForms
<1>9. CASE Unstart \/ ChooseValidates \/ ChooseApplies \/ Complete
  BY <1>0, <1>9 DEF Unstart, ChooseValidates, ChooseApplies, Complete, JobForms
<1>10. CASE Stop
  BY <1>0, <1>1, <1>10 DEF Stop, JobForms
<1>11. CASE AuthorizeChecks
  BY <1>0, <1>1, <1>11 DEF AuthorizeChecks, At, JobForms
<1>12. CASE AuthorizeAdmits
  BY <1>0, <1>1, <1>12 DEF AuthorizeAdmits, JobForms
<1>13. CASE AuthorizeJudges
  BY <1>0, <1>1, <1>13 DEF AuthorizeJudges, At, JobForms
<1>14. CASE \/ Rechecks \/ AuthorizeGrants \/ AuthorizeRefuses \/ CommitJudges
            \/ CommitDispatches \/ WorkerCleansUp \/ Reserve \/ Release
  BY <1>14
  DEF AuthorizeGrants, AuthorizeRefuses, CommitDispatches, WorkerCleansUp, Reserve, Release,
      JobForms
<1>15. CASE CommitAdmits \/ TakeChecks \/ Released
  BY <1>0, <1>15 DEF CommitAdmits, TakeChecks, Released, RelinquishThen, JobForms
<1>16. CASE CommitRejudges
  BY <1>0, <1>16 DEF CommitRejudges, At, JobForms
<1>17. CASE Record
  BY <1>0, <1>1, <1>17 DEF Record, JobForms
<1>18. CASE Sweep
  BY <1>0, <1>18 DEF Sweep, JobForms
<1> QED
  BY <1>3, <1>4, <1>5, <1>6, <1>7, <1>8, <1>9, <1>10, <1>11, <1>12, <1>13, <1>14, <1>15, <1>16,
     <1>17, <1>18 DEF JobSteps

\* So the message stays the same until the job ends.
LEMMA MessageStays == ASSUME TypeOK, JobSteps PROVE SameMessage
<1>0. job \in Job /\ job.at # "idle" /\ JobForms
  BY JobStepsHold, JobTakesForm DEF TypeOK
<1>1. CASE Finish
  BY <1>1 DEF Finish, NoJob, SameMessage
<1>2. CASE job' = [job EXCEPT !.req.route = theOp.route, !.at = "save", !.onSaved = "compact",
                              !.onFailed = "done"]
  <2>1. job'.req = [job.req EXCEPT !.route = theOp.route]
    BY <1>0, <1>2 DEF Job
  <2>2. /\ job'.req.tab = req.tab /\ job'.req.epoch = req.epoch
        /\ job'.req.revision = req.revision
    BY <1>0, <2>1 DEF req, Job, Request, Message
  <2> QED BY <1>0, <2>2 DEF SameMessage
<1>3. ASSUME job'.req = job.req PROVE SameMessage
  BY <1>0, <1>3 DEF SameMessage, req
<1>4. CASE ReadSettings \/ Rechecks \/ CommitJudges
  <2>1. job'.req = job.req
    BY <1>0, <1>4 DEF ReadSettings, Rechecks, CommitJudges, Job
  <2> QED BY <1>3, <2>1
<1>5. ASSUME NEW step, Go(step) PROVE SameMessage
  <2>1. CASE step = "done"
    BY <1>1, <1>5, <2>1 DEF Go
  <2>2. CASE step # "done"
    <3>1. job' = [job EXCEPT !.at = step]
      BY <1>5, <2>2 DEF Go
    <3>2. job'.req = job.req
      BY <1>0, <3>1 DEF Job
    <3> QED BY <1>3, <3>2
  <2> QED BY <2>1, <2>2
<1>6. ASSUME NEW state, NEW onSaved, NEW onFailed, SaveThen(state, onSaved, onFailed)
      PROVE  SameMessage
  <2>1. job' = [job EXCEPT !.at = "save", !.onSaved = onSaved, !.onFailed = onFailed]
    BY <1>6 DEF SaveThen
  <2>2. job'.req = job.req
    BY <1>0, <2>1 DEF Job
  <2> QED BY <1>3, <2>2
<1> QED BY <1>0, <1>1, <1>2, <1>4, <1>5, <1>6 DEF JobForms, OfferAdmits

\* What every step of a job leaves to others; a verdict is passed on through the
\* queue, which moves no epoch.
LEMMA JobStepsLeave ==
    ASSUME IInv, JobSteps
    PROVE  /\ UNCHANGED <<epoch, revision>> /\ (ClaimAdmits \/ revoked' = revoked)
           /\ \/ queue' = queue
              \/ \E n \in Request : queue' = Append(queue, n) /\ n.kind \in {"commit", "take"}
<1>1. /\ UNCHANGED <<epoch, revision>> /\ (ClaimAdmits \/ revoked' = revoked)
      /\ queue' = queue \/ Forward("commit") \/ Forward("take")
  BY DEF JobSteps, Outside, volatile, browser, history, Check, StartChecks, StartAdmits, Unstart,
         ClaimChecks, ClaimAdmits, OfferChecks, OfferAdmits, OpenChecks, Compact, WindowCreated,
         WindowRefused, GiveUp, ChooseChecks, ChooseValidates, ChooseApplies, Stop, Complete,
         AuthorizeChecks, AuthorizeAdmits, Rechecks, AuthorizeJudges, AuthorizeGrants,
         AuthorizeRefuses, CommitChecks, CommitAdmits, CommitJudges, CommitRejudges,
         CommitDispatches, TakeChecks, WorkerCleansUp, Record, Released, Sweep, Reserve, Release
<1>2. ASSUME NEW kind \in {"commit", "take"}, Forward(kind)
      PROVE  \E n \in Request : queue' = Append(queue, n) /\ n.kind \in {"commit", "take"}
  <2> DEFINE n == [req EXCEPT !.kind = kind, !.epoch = epoch[req.tab], !.revision = revision]
  <2>1. queue' = Append(queue, n) /\ n.kind = kind
    BY <1>2, RequestsAreTyped DEF Forward, IInv, Request, Message
  <2>2. queue \in Seq(Request) /\ queue' \in Seq(Request)
    BY JobStepsKeep DEF IInv, TypeOK
  <2> HIDE DEF n
  <2>3. queue'[Len(queue) + 1] = n /\ Len(queue) + 1 \in DOMAIN queue'
    BY <2>1, <2>2
  <2>4. n \in Request
    BY <2>2, <2>3
  <2> QED BY <2>1, <2>4
<1> QED BY <1>1, <1>2

-----------------------------------------------------------------------------
(* The end that is coming stays so until it has come.                      *)

\* The kinds of the notifications.
Told == {"settings", "removed", "changed"}

\* A record that no job at work will end has its end in the queue.
LEMMA WaitingEnds ==
    ASSUME EndsAreComing, PendingKept, revoked' = revoked,
           \A x : Waiting(x) => Waiting(x)',
           \A o \in OpIds : Live(mem'.ops[o]) => ~Sweeping(mem.ops[o]),
           \A i \in IntentIds : mem'.intents[i].there => ~Sweeping(mem.intents[i])
    PROVE  EndsAreComing'
<1>1. ASSUME NEW o \in OpIds, Live(mem'.ops[o]), <<"operation", o>> \in revoked
      PROVE  Coming(mem.ops[o])'
  <2>1. PICK x, y : x = mem.ops[o] /\ y = mem'.ops[o]
    OBVIOUS
  <2>2. Waiting(x) /\ x.tab = y.tab /\ x.route = y.route
    BY <1>1, <2>1 DEF EndsAreComing, PendingKept, Coming
  <2>3. Coming(x)'
    BY <2>2 DEF Coming
  <2>4. Coming(y)'
    BY <2>2, <2>3, ComingAlike
  <2> QED BY <2>1, <2>4 DEF Coming, Sweeping, Waiting
<1>2. ASSUME NEW i \in IntentIds, mem'.intents[i].there, <<"intent", i>> \in revoked
      PROVE  Coming(mem.intents[i])'
  <2>1. PICK x : x = mem.intents[i] /\ x = mem'.intents[i]
    BY <1>2 DEF PendingKept, IntentsKept
  <2>2. Waiting(x)
    BY <1>2, <2>1 DEF EndsAreComing, Coming
  <2>3. Coming(x)'
    BY <2>2 DEF Coming
  <2> QED BY <2>1, <2>3 DEF Coming, Sweeping, Waiting
<1> QED BY <1>1, <1>2 DEF EndsAreComing

\* Records left alone keep their conversation, and so do those that only progress.
LEMMA SamePending == ASSUME mem' = mem PROVE PendingKept
  BY DEF PendingKept, IntentsKept

LEMMA ProgressPends == ASSUME Progress(mem, mem') PROVE PendingKept
  BY DEF Progress, OpsMoved, Moved, PendingKept

\* Nothing is revoked of what is yet to come.
LEMMA UnheardFollows ==
    ASSUME Unheard, PendingKept, revoked' = revoked, next'.op = next.op, next'.intent = next.intent
    PROVE  Unheard'
  BY DEF Unheard, PendingKept, IntentsKept

\* No message but a notification outdates another.
LEMMA MessagesOutdateNothing ==
    ASSUME NEW n, n.kind \notin Told PROVE \A r : Outdated(r, n)'
  BY DEF Outdated, Told

\* Epochs left alone do not return.
LEMMA SameEpochsGrow == ASSUME TypeOK, UNCHANGED <<epoch, revision>> PROVE EpochsGrow
  BY NothingHappens DEF TypeOK, EpochsGrow

\* A repair forgets operations and changes none.
LEMMA RecoveredKeeps ==
    ASSUME NEW s \in State
    PROVE  \A o \in OpIds : Recovered(s).ops[o] \in {s.ops[o], NoOperation}
<1> DEFINE gone == Oldest(Reclaimable(s), Reserved(s) - ReservationLimit)
           kept == Without(s, gone)
<1>1. \E some : Recovered(s) = DropIntents(kept, some)
  BY DEF Recovered
<1>2. \A some : DropIntents(kept, some).ops = kept.ops
  <2>1. kept \in State
    BY WithoutWeaker DEF Weaker, GrantsKept
  <2> HIDE DEF kept
  <2> QED BY <2>1 DEF DropIntents, State
<1> HIDE DEF gone
<1>3. \A o \in OpIds : kept.ops[o] = IF o \in gone THEN NoOperation ELSE s.ops[o]
  BY DEF Without, State
<1> HIDE DEF kept
<1> QED BY <1>1, <1>2, <1>3

\* Whoever takes the lock is the oldest of the queue.
LEMMA AcquireComes == ASSUME IInv, GInv, CInv, Acquire PROVE CInv'
<1> DEFINE pruned == Pruned(mem)
           taken == [NoJob EXCEPT !.req = Head(queue)]
<1>0. /\ TypeOK /\ mem \in State /\ queue \in Seq(Request) /\ queue # <<>> /\ job.at = "idle"
      /\ queue' = Tail(queue) /\ UNCHANGED <<epoch, revision, revoked, next>>
      /\ mem' = pruned \/ mem' = Recovered(pruned)
      /\ \/ job' = [taken EXCEPT !.at = "save", !.onSaved = "enter"]
         \/ job' = [taken EXCEPT !.at = "enter"]
  BY DEF IInv, TypeOK, Acquire, history
<1>1. /\ job'.at = "enter" \/ (job'.at = "save" /\ job'.onSaved = "enter")
      /\ job'.req = Head(queue)
  BY <1>0 DEF NoJob
<1> HIDE DEF taken
<1>2. /\ Head(queue) = queue[1] /\ 1 \in DOMAIN queue
      /\ \A k \in DOMAIN queue : k = 1 \/ (k - 1 \in DOMAIN queue' /\ queue'[k - 1] = queue[k])
      /\ \A k \in DOMAIN queue' : /\ k + 1 \in DOMAIN queue /\ queue'[k] = queue[k + 1]
                                  /\ 1 < k + 1 /\ \A j \in DOMAIN queue' : j < k => j + 1 < k + 1
  BY <1>0
<1>3. PendingKept
  <2>1. /\ \A o \in OpIds : Live(pruned.ops[o]) => pruned.ops[o] = mem.ops[o]
        /\ IntentsKept(mem, pruned) /\ pruned \in State
    BY <1>0, PrunedKeepsLive, PrunedWeaker DEF IntentsKept, Weaker, GrantsKept
  <2> HIDE DEF pruned
  <2>2. IntentsKept(pruned, Recovered(pruned))
    BY <2>1, RecoveredWeaker DEF Weaker, GrantsKept
  <2>3. \A o \in OpIds : Recovered(pruned).ops[o] \in {pruned.ops[o], NoOperation}
    BY <2>1, RecoveredKeeps
  <2>4. ~Live(NoOperation)
    BY DEF Live, NoOperation
  <2> QED BY <1>0, <2>1, <2>2, <2>3, <2>4 DEF PendingKept, IntentsKept
<1>4. EndsAreComing'
  <2>1. ASSUME NEW x, Coming(x) PROVE Coming(x)'
    <3>1. PICK k \in DOMAIN queue : Ends(queue[k], x)
      BY <1>0, <2>1 DEF Coming, Sweeping, Heading, Waiting
    <3>2. CASE k = 1
      BY <1>1, <1>2, <3>1, <3>2 DEF Coming, Sweeping, Heading, req
    <3>3. CASE k # 1
      BY <1>2, <3>1, <3>3 DEF Coming, Waiting
    <3> QED BY <3>2, <3>3
  <2> QED BY <1>0, <1>3, <2>1, ComingFollows DEF CInv
<1>5. QueueInOrder'
  <2>1. \A j, k \in DOMAIN queue' : j < k => Outdated(queue[j], queue[k])'
    BY <1>0, <1>2 DEF CInv, QueueInOrder, Outdated
  <2>2. \A k \in DOMAIN queue' : Outdated(req, queue[k])'
    BY <1>0, <1>1, <1>2 DEF CInv, QueueInOrder, Outdated, req
  <2> QED BY <2>1, <2>2 DEF QueueInOrder
<1>6. Unheard'
  BY <1>0, <1>3, UnheardFollows DEF CInv
<1> QED BY <1>4, <1>5, <1>6 DEF CInv

\* A job that saved goes on with its sweep; one that could not has nothing to end.
LEMMA SavesCome == ASSUME IInv, GInv, CInv, Saved \/ SaveFailed PROVE CInv'
<1>0. /\ TypeOK /\ job \in Job /\ job.at = "save"
      /\ UNCHANGED <<queue, epoch, revision, revoked, next>>
  BY DEF IInv, TypeOK, Saved, SaveFailed, volatile, history
<1>1. ASSUME NEW step, Go(step)
      PROVE  job'.at = "idle" \/ (job'.at = step /\ job'.req = job.req)
  <2>1. job' = NoJob \/ job' = [job EXCEPT !.at = step]
    BY <1>1 DEF Go, Finish
  <2> QED BY <1>0, <2>1 DEF NoJob, Job
<1>2. SameMessage
  <2>1. Go(job.onSaved) \/ Go(job.onFailed)
    BY DEF Saved, SaveFailed
  <2> QED BY <1>0, <1>1, <2>1 DEF SameMessage, req
<1>3. QueueInOrder'
  BY <1>0, <1>2, SameEpochsGrow, OrderFollows DEF GInv, CInv
<1>4. CASE Saved
  <2>1. mem' = mem /\ Go(job.onSaved)
    BY <1>4 DEF Saved
  <2>2. ASSUME NEW x, Coming(x) PROVE Coming(x)'
    <3>1. CASE Waiting(x)
      BY <1>0, <3>1 DEF Coming, Waiting
    <3>2. CASE Sweeping(x)
      <4>1. job.onSaved \in {"enter", "sweep"} /\ Ends(req, x)
        BY <1>0, <3>2 DEF Sweeping, Heading
      <4>2. job' = [job EXCEPT !.at = job.onSaved]
        BY <2>1, <4>1 DEF Go
      <4>3. job'.at = job.onSaved /\ job'.req = job.req
        BY <1>0, <4>2 DEF Job
      <4> QED BY <4>1, <4>3 DEF Coming, Sweeping, Heading, req
    <3> QED BY <2>2, <3>1, <3>2 DEF Coming
  <2>3. EndsAreComing' /\ Unheard'
    BY <1>0, <2>1, <2>2, SamePending, ComingFollows, UnheardFollows DEF CInv
  <2> QED BY <1>3, <2>3 DEF CInv
<1>5. CASE SaveFailed
  <2>1. /\ mem' = EmptyState /\ \A o \in OpIds : ~Live(EmptyState.ops[o])
        /\ \A i \in IntentIds : ~EmptyState.intents[i].there
    BY <1>5 DEF SaveFailed, AfterRefusedSave, EmptyState, NoOperation, NoIntent, Live
  <2>2. PendingKept
    BY <2>1 DEF PendingKept, IntentsKept
  <2>3. EndsAreComing'
    BY <2>1 DEF EndsAreComing
  <2>4. Unheard'
    BY <1>0, <2>2, UnheardFollows DEF CInv
  <2> QED BY <1>3, <2>3, <2>4 DEF CInv
<1> QED BY <1>4, <1>5

\* Only a sweep ends records, and it stops when nothing is left to end.
LEMMA OnlySweeps == ASSUME JobSteps, ~Sweep PROVE \A x : ~Sweeping(x)
<1>1. job.at \in {"enter", "sweep"} => req.kind \notin Told
  BY DEF Told, Revocations, JobSteps, At, Check, StartChecks, StartAdmits, Unstart,
         ClaimChecks, ClaimAdmits, OfferChecks, OfferAdmits, OpenChecks, Compact, WindowCreated,
         WindowRefused, GiveUp, ChooseChecks, ChooseValidates, ChooseApplies, Stop, Complete,
         AuthorizeChecks, AuthorizeAdmits, Rechecks, AuthorizeJudges, AuthorizeGrants,
         AuthorizeRefuses, CommitChecks, CommitAdmits, CommitJudges, CommitRejudges,
         CommitDispatches, TakeChecks, WorkerCleansUp, Record, Released, Sweep, Reserve, Release
<1>2. job.at # "save"
  BY JobStepsHold
<1> QED BY <1>1, <1>2 DEF Sweeping, Heading, Ends, Told

\* A sweep takes its records to their end, and the rest stays as it came.
LEMMA SweepComes ==
    ASSUME IInv, CInv, Sweep, revoked' = revoked, queue' = queue, PendingKept
    PROVE  EndsAreComing'
<1> DEFINE base == IF req.kind = "settings" THEN DropIntents(mem, Intents(mem)) ELSE mem
           dropped == DropIntents(base, RevokedIntents)
           last == DropSurfaces(dropped, IF req.kind = "window-closed" THEN {req.ui} ELSE {})
<1>0. mem \in State /\ job \in Job /\ job.at \in {"enter", "sweep"}
  BY DEF IInv, TypeOK, Sweep
<1>1. \/ \E o \in Oldest(Doomed, 1) : SaveThen(Cancelled(base, o), "sweep", "done")
      \/ Doomed = {} /\ mem' = last
  BY DEF Sweep, SaveThen
<1>2. CASE \E o \in Oldest(Doomed, 1) : SaveThen(Cancelled(base, o), "sweep", "done")
  <2>1. job' = [job EXCEPT !.at = "save", !.onSaved = "sweep", !.onFailed = "done"]
    BY <1>2 DEF SaveThen
  <2>2. job'.at = "save" /\ job'.onSaved = "sweep" /\ job'.req = job.req
    BY <1>0, <2>1 DEF Job
  <2>3. \A x : Coming(x) => Coming(x)'
    BY <2>2 DEF Coming, Sweeping, Waiting, Heading, req
  <2> QED BY <2>3, ComingFollows DEF CInv
<1>3. CASE Doomed = {} /\ mem' = last
  <2>1. ASSUME NEW o \in OpIds, Live(mem'.ops[o]) PROVE ~Sweeping(mem.ops[o])
    <3>1. Live(mem.ops[o])
      BY <2>1 DEF PendingKept
    <3> QED BY <1>3, <3>1 DEF Doomed, Sweeping
  <2>2. base \in State /\ dropped \in State /\ last.intents = dropped.intents
    <3>1. base \in State
      BY <1>0, DropIntentsWeaker DEF Weaker, GrantsKept
    <3> HIDE DEF base
    <3>2. dropped \in State
      BY <3>1, DropIntentsWeaker DEF Weaker, GrantsKept
    <3> HIDE DEF dropped
    <3> QED BY <3>1, <3>2, SurfacesApart
  <2>3. /\ \A i \in IntentIds : i \in RevokedIntents => ~dropped.intents[i].there
        /\ \A i \in IntentIds : ~base.intents[i].there => ~dropped.intents[i].there
    <3> HIDE DEF base
    <3>1. dropped.intents = [i \in IntentIds |-> IF i \in RevokedIntents THEN NoIntent
                                                ELSE base.intents[i]]
      BY <2>2 DEF DropIntents, State
    <3> QED BY <3>1 DEF NoIntent
  <2>4. req.kind = "settings" => \A i \in IntentIds : ~base.intents[i].there
    <3> SUFFICES ASSUME req.kind = "settings", NEW i \in IntentIds
                 PROVE  ~base.intents[i].there
      OBVIOUS
    <3>1. base.intents = [x \in IntentIds |-> IF x \in Intents(mem) THEN NoIntent
                                             ELSE mem.intents[x]]
      BY <1>0 DEF DropIntents, State
    <3> HIDE DEF base
    <3>2. mem.intents[i].there \in BOOLEAN
      BY <1>0 DEF State, Intent
    <3> QED BY <3>1, <3>2 DEF Intents, NoIntent
  <2> HIDE DEF base, dropped, last
  <2>5. ASSUME NEW i \in IntentIds, mem'.intents[i].there PROVE ~Sweeping(mem.intents[i])
    <3>1. mem'.intents[i] = mem.intents[i] /\ i \in Intents(mem)
      BY <2>5 DEF PendingKept, IntentsKept, Intents
    <3>2. dropped.intents[i].there
      BY <1>3, <2>2, <2>5
    <3>3. i \notin RevokedIntents /\ req.kind # "settings"
      BY <2>3, <2>4, <3>2
    <3> QED BY <3>1, <3>3 DEF RevokedIntents, Sweeping, Ends
  <2>6. \A x : Waiting(x) => Waiting(x)'
    BY DEF Waiting
  <2> QED BY <2>1, <2>5, <2>6, WaitingEnds DEF CInv
<1> QED BY <1>1, <1>2, <1>3

\* A click that is claimed hands what is coming for it to its operation.
LEMMA ClaimComes ==
    ASSUME IInv, CInv, ClaimAdmits, \A x : Waiting(x) => Waiting(x)'
    PROVE  EndsAreComing' /\ Unheard'
<1> DEFINE i == req.id
           o == next.op
<1>0. /\ \A x : ~Sweeping(x)
      /\ next \in [intent: 1 .. MaxIntents + 1, op: 1 .. MaxOps + 1, surface: 1 .. MaxSurfaces + 1]
  <2>1. JobSteps /\ ~Sweep
    BY DEF JobSteps, ClaimAdmits, At, Sweep
  <2> QED BY <2>1, OnlySweeps DEF IInv, TypeOK
<1>1. \/ UNCHANGED <<mem, next, revoked>>
      \/ /\ o \in OpIds /\ i \in IntentIds /\ mem.intents[i].there
         /\ next'.op = next.op + 1 /\ next'.intent = next.intent
         /\ mem'.ops[o].tab = mem.intents[i].tab /\ mem'.ops[o].route = mem.intents[i].route
         /\ \A x \in IntentIds : mem'.intents[x].there <=> (x # i /\ mem.intents[x].there)
         /\ \A x \in IntentIds \ {i} : mem'.intents[x] = mem.intents[x]
         /\ \A x \in OpIds \ {o} : mem'.ops[x] = mem.ops[x]
         /\ revoked' = revoked \cup
               (IF <<"intent", i>> \in revoked THEN {<<"operation", o>>} ELSE {})
  <2>1. \/ UNCHANGED <<mem, next, revoked>>
        \/ /\ next' = [next EXCEPT !.op = @ + 1]
           /\ revoked' = revoked \cup
                 (IF <<"intent", i>> \in revoked THEN {<<"operation", o>>} ELSE {})
    BY DEF ClaimAdmits
  <2>2. next' = [next EXCEPT !.op = @ + 1] => ~(UNCHANGED <<mem, next>>)
    BY <1>0
  <2> QED BY <2>1, <2>2, ClaimChanges
<1>2. CASE UNCHANGED <<mem, next, revoked>>
  <2>1. EndsAreComing'
    BY <1>0, <1>2, SamePending, WaitingEnds DEF CInv
  <2>2. Unheard'
    BY <1>2, SamePending, UnheardFollows DEF CInv
  <2> QED BY <2>1, <2>2
<1>3. CASE /\ o \in OpIds /\ i \in IntentIds /\ mem.intents[i].there
           /\ next'.op = next.op + 1 /\ next'.intent = next.intent
           /\ mem'.ops[o].tab = mem.intents[i].tab /\ mem'.ops[o].route = mem.intents[i].route
           /\ \A x \in IntentIds : mem'.intents[x].there <=> (x # i /\ mem.intents[x].there)
           /\ \A x \in IntentIds \ {i} : mem'.intents[x] = mem.intents[x]
           /\ \A x \in OpIds \ {o} : mem'.ops[x] = mem.ops[x]
           /\ revoked' = revoked \cup
                 (IF <<"intent", i>> \in revoked THEN {<<"operation", o>>} ELSE {})
  <2>0. o \in Nat /\ \A x \in OpIds : x \in Nat /\ (x >= o + 1 => x # o /\ x >= o)
    BY <1>0 DEF OpIds
  <2> HIDE DEF i, o
  <2>1. <<"operation", o>> \in revoked' => <<"intent", i>> \in revoked
    <3>1. o >= next.op
      BY <2>0 DEF o
    <3> QED BY <1>3, <3>1 DEF CInv, Unheard
  <2>2. \A x \in OpIds \ {o} : <<"operation", x>> \in revoked' => <<"operation", x>> \in revoked
    BY <1>3
  <2>3. \A x : <<"intent", x>> \in revoked' => <<"intent", x>> \in revoked
    BY <1>3
  <2>4. ASSUME NEW y, NEW x, Coming(x), x.tab = y.tab, x.route = y.route PROVE Coming(y)'
    BY <1>0, <2>4, ComingAlike DEF Coming
  <2>5. ASSUME NEW p \in OpIds, Live(mem'.ops[p]), <<"operation", p>> \in revoked'
        PROVE  Coming(mem.ops[p])'
    <3>1. CASE p = o
      <4>1. PICK x, y : x = mem.intents[i] /\ y = mem'.ops[p]
        OBVIOUS
      <4>2. Coming(x) /\ x.tab = y.tab /\ x.route = y.route
        BY <1>3, <2>1, <2>5, <3>1, <4>1 DEF CInv, EndsAreComing
      <4>3. Coming(y)'
        BY <2>4, <4>2
      <4> QED BY <4>1, <4>3 DEF Coming, Sweeping, Waiting
    <3>2. CASE p # o
      <4>1. PICK x : x = mem.ops[p] /\ x = mem'.ops[p]
        BY <1>3, <3>2
      <4>2. Coming(x)
        BY <2>2, <2>5, <3>2, <4>1 DEF CInv, EndsAreComing
      <4>3. Coming(x)'
        BY <2>4, <4>2
      <4> QED BY <4>1, <4>3 DEF Coming, Sweeping, Waiting
    <3> QED BY <3>1, <3>2
  <2>6. ASSUME NEW p \in IntentIds, mem'.intents[p].there, <<"intent", p>> \in revoked'
        PROVE  Coming(mem.intents[p])'
    <3>1. PICK x : x = mem.intents[p] /\ x = mem'.intents[p]
      BY <1>3, <2>6
    <3>2. Coming(x)
      BY <1>3, <2>3, <2>6, <3>1 DEF CInv, EndsAreComing
    <3>3. Coming(x)'
      BY <2>4, <3>2
    <3> QED BY <3>1, <3>3 DEF Coming, Sweeping, Waiting
  <2>7. EndsAreComing'
    BY <2>5, <2>6 DEF EndsAreComing
  <2>8. Unheard'
    <3>1. \A x \in OpIds : x >= next'.op => x # o /\ x >= next.op
      BY <1>3, <2>0 DEF o
    <3>2. \A x \in OpIds : x >= next'.op => <<"operation", x>> \notin revoked'
      BY <2>2, <3>1 DEF CInv, Unheard
    <3>3. \A x \in IntentIds :
             x >= next'.intent => <<"intent", x>> \notin revoked' /\ ~mem'.intents[x].there
      BY <1>3, <2>3 DEF CInv, Unheard
    <3> QED BY <3>2, <3>3 DEF Unheard
  <2> QED BY <2>7, <2>8
<1> QED BY <1>1, <1>2, <1>3

\* A new click was never revoked.
LEMMA StartComes ==
    ASSUME IInv, CInv, StartAdmits, revoked' = revoked, \A x : Waiting(x) => Waiting(x)'
    PROVE  EndsAreComing' /\ Unheard'
<1> DEFINE n == next.intent
<1>0. /\ \A x : ~Sweeping(x)
      /\ next \in [intent: 1 .. MaxIntents + 1, op: 1 .. MaxOps + 1, surface: 1 .. MaxSurfaces + 1]
  <2>1. JobSteps /\ ~Sweep
    BY DEF JobSteps, StartAdmits, At, Sweep
  <2> QED BY <2>1, OnlySweeps DEF IInv, TypeOK
<1>1. /\ n \in IntentIds /\ next'.op = next.op /\ next'.intent = next.intent + 1
      /\ \A i \in IntentIds : mem'.intents[i].there <=> (i = n \/ mem.intents[i].there)
      /\ \A i \in IntentIds \ {n} : mem'.intents[i] = mem.intents[i]
      /\ \A o \in OpIds : mem'.ops[o] \in {mem.ops[o], NoOperation}
  BY StartChanges
<1>2. n \in Nat /\ \A x \in IntentIds : x \in Nat /\ (x >= n + 1 => x # n /\ x >= n)
  BY <1>0 DEF IntentIds
<1>3. <<"intent", n>> \notin revoked
  <2>1. n >= next.intent
    BY <1>2
  <2> QED BY <1>1, <2>1 DEF CInv, Unheard
<1>4. \A x : Coming(x) => Coming(x)'
  BY <1>0 DEF Coming
<1>5. ASSUME NEW o \in OpIds, Live(mem'.ops[o]), <<"operation", o>> \in revoked
      PROVE  Coming(mem.ops[o])'
  <2>1. ~Live(NoOperation)
    BY DEF Live, NoOperation
  <2>2. PICK x : x = mem.ops[o] /\ x = mem'.ops[o]
    BY <1>1, <1>5, <2>1
  <2>3. Coming(x)'
    BY <1>4, <1>5, <2>2 DEF CInv, EndsAreComing
  <2> QED BY <2>2, <2>3 DEF Coming, Sweeping, Waiting
<1>6. ASSUME NEW i \in IntentIds, mem'.intents[i].there, <<"intent", i>> \in revoked
      PROVE  Coming(mem.intents[i])'
  <2>1. i # n
    BY <1>3, <1>6
  <2>2. PICK x : x = mem.intents[i] /\ x = mem'.intents[i]
    BY <1>1, <2>1
  <2>3. Coming(x)'
    BY <1>4, <1>6, <2>2 DEF CInv, EndsAreComing
  <2> QED BY <2>2, <2>3 DEF Coming, Sweeping, Waiting
<1>7. EndsAreComing'
  BY <1>5, <1>6 DEF EndsAreComing
<1>8. Unheard'
  BY <1>1, <1>2 DEF CInv, Unheard
<1> QED BY <1>7, <1>8

\* Every step of a job keeps what is coming.
LEMMA JobStepsCome == ASSUME IInv, GInv, CInv, JobSteps PROVE CInv'
<1>0. /\ TypeOK /\ queue \in Seq(Request)
      /\ UNCHANGED <<epoch, revision>> /\ (ClaimAdmits \/ revoked' = revoked)
      /\ \/ queue' = queue
         \/ \E n \in Request : queue' = Append(queue, n) /\ n.kind \in {"commit", "take"}
  BY JobStepsLeave DEF IInv, TypeOK
<1>1. \A x : Waiting(x) => Waiting(x)'
  BY <1>0, WaitingFollows
<1>2. QueueInOrder'
  <2>1. \A n : n.kind \in {"commit", "take"} => n.kind \notin Told
    BY DEF Told
  <2>2. \/ queue' = queue
        \/ \E n \in Request : queue' = Append(queue, n) /\ \A r : Outdated(r, n)'
    BY <1>0, <2>1, MessagesOutdateNothing
  <2> QED BY <1>0, <2>2, MessageStays, SameEpochsGrow, OrderFollows DEF GInv, CInv
<1>3. CASE ClaimAdmits
  BY <1>1, <1>2, <1>3, ClaimComes DEF CInv
<1>4. CASE StartAdmits
  <2>1. revoked' = revoked
    BY <1>4 DEF StartAdmits, history
  <2> QED BY <1>1, <1>2, <1>4, <2>1, StartComes DEF CInv
<1>5. CASE ~ClaimAdmits /\ ~StartAdmits
  <2>1. PendingKept
    BY <1>5, JobStepsProgress, ProgressPends
  <2>2. Unheard'
    BY <1>0, <1>5, <2>1, IdentitiesKept, UnheardFollows DEF CInv
  <2>3. CASE Sweep
    <3>1. queue' = queue
      BY <2>3 DEF Sweep, Outside, volatile
    <3> QED BY <1>0, <1>2, <1>5, <2>1, <2>2, <2>3, <3>1, SweepComes DEF CInv
  <2>4. CASE ~Sweep
    <3>1. \A x : ~Sweeping(x)
      BY <2>4, OnlySweeps
    <3>2. EndsAreComing'
      BY <1>0, <1>1, <1>5, <2>1, <3>1, WaitingEnds DEF CInv
    <3> QED BY <1>2, <2>2, <3>2 DEF CInv
  <2> QED BY <2>3, <2>4
<1> QED BY <1>3, <1>4, <1>5

\* A notification is queued with the end of everything that it revokes, and every
\* request that came before it is outdated by it.
LEMMA RevokeComes ==
    ASSUME IInv, GInv, TInv, CInv, NEW e \in Event, Revoke(e), UNCHANGED <<mem, job, next>>
    PROVE  CInv'
<1> DEFINE a == Ask(e.kind)
           n == [a EXCEPT !.tab = e.tab, !.route = e.route, !.ui = e.ui]
<1>0. /\ TypeOK /\ epoch \in [Tabs -> Nat] /\ revision \in Nat /\ queue \in Seq(Request)
      /\ e.tab \in Tabs /\ e.kind \in Kinds /\ queue' \in Seq(Request) /\ EpochsGrow
      /\ next \in [intent: 1 .. MaxIntents + 1, op: 1 .. MaxOps + 1, surface: 1 .. MaxSurfaces + 1]
  BY RevokeTyped, RevokeMoves DEF IInv, TypeOK, Event, Notification, Kinds
<1>1. a \in Message /\ a.kind = e.kind
  BY <1>0, AskTyped DEF Ask
<1>2. queue' = Append(queue, n) /\ revoked' = revoked \cup Ended(e)
  BY DEF Revoke
<1> HIDE DEF a
<1>3. n.kind = e.kind /\ n.tab = e.tab /\ n.route = e.route
  BY <1>1 DEF Message
<1> HIDE DEF n
<1>4. n \in Request /\ Len(queue) + 1 \in DOMAIN queue' /\ queue'[Len(queue) + 1] = n
  <2>1. Len(queue) + 1 \in DOMAIN queue' /\ queue'[Len(queue) + 1] = n
    BY <1>0, <1>2
  <2> QED BY <1>0, <2>1
<1>5. ASSUME NEW x, Coming(x) PROVE Coming(x)'
  <2>1. Waiting(x) => Waiting(x)'
    BY <1>0, <1>2, <1>4, WaitingFollows
  <2>2. Sweeping(x) => Sweeping(x)'
    BY DEF Sweeping, Heading, req
  <2> QED BY <1>5, <2>1, <2>2 DEF Coming
<1>6. ASSUME NEW x, Ends(e, x) PROVE Coming(x)'
  <2>1. Ends(n, x)
    BY <1>3, <1>6 DEF Ends
  <2> QED BY <1>4, <2>1 DEF Coming, Waiting
<1>7. EndsAreComing'
  <2>1. ASSUME NEW o \in OpIds, Live(mem.ops[o]), <<"operation", o>> \in revoked'
        PROVE  Coming(mem.ops[o])'
    <3>1. PICK x : x = mem.ops[o]
      OBVIOUS
    <3>2. Coming(x) \/ Ends(e, x)
      BY <1>2, <2>1, <3>1 DEF CInv, EndsAreComing, Ended
    <3>3. Coming(x)'
      BY <1>5, <1>6, <3>2
    <3> QED BY <3>1, <3>3 DEF Coming, Sweeping, Waiting
  <2>2. ASSUME NEW i \in IntentIds, mem.intents[i].there, <<"intent", i>> \in revoked'
        PROVE  Coming(mem.intents[i])'
    <3>1. PICK x : x = mem.intents[i]
      OBVIOUS
    <3>2. Coming(x) \/ Ends(e, x)
      BY <1>2, <2>2, <3>1 DEF CInv, EndsAreComing, Ended
    <3>3. Coming(x)'
      BY <1>5, <1>6, <3>2
    <3> QED BY <3>1, <3>3 DEF Coming, Sweeping, Waiting
  <2> QED BY <2>1, <2>2 DEF EndsAreComing
<1>8. QueueInOrder'
  <2>1. ASSUME NEW r \in Request, HeardBefore(r) PROVE Outdated(r, n)'
    <3>1. /\ r.tab \in Tabs /\ r.epoch \in Nat /\ r.revision \in Nat
          /\ r.epoch <= epoch[r.tab] /\ r.revision <= revision
      BY <2>1 DEF Request, Message, HeardBefore
    <3>2. CASE n.kind = "settings"
      <4>1. revision' = revision + 1
        BY <1>3, <3>2 DEF Revoke
      <4>2. r.revision < revision'
        BY <1>0, <3>1, <4>1
      <4> QED BY <3>2, <4>2 DEF Outdated
    <3>3. CASE n.kind \in {"removed", "changed"} /\ r.tab = n.tab
      <4>1. epoch' = [epoch EXCEPT ![e.tab] = @ + 1]
        BY <1>3, <3>3 DEF Revoke
      <4>2. epoch'[r.tab] = epoch[r.tab] + 1 /\ epoch[r.tab] \in Nat
        BY <1>0, <1>3, <3>1, <3>3, <4>1
      <4>3. r.epoch < epoch'[r.tab]
        BY <3>1, <4>2
      <4> QED BY <3>3, <4>3 DEF Outdated
    <3> QED BY <3>2, <3>3 DEF Outdated
  <2>2. SameMessage
    BY DEF SameMessage, req
  <2> QED BY <1>0, <1>2, <1>4, <2>1, <2>2, OrderFollows DEF GInv, CInv
<1>9. Unheard'
  <2>1. \A o \in OpIds : <<"operation", o>> \in Ended(e) => Live(mem.ops[o])
    BY DEF Ended
  <2>2. \A i \in IntentIds : <<"intent", i>> \in Ended(e) => mem.intents[i].there
    BY DEF Ended, Intents
  <2>3. \A o \in OpIds : o >= next.op => <<"operation", o>> \notin Ended(e)
    BY <2>1 DEF TInv, Ahead, Live, Exists
  <2>4. \A i \in IntentIds : i >= next.intent => <<"intent", i>> \notin Ended(e)
    BY <2>2 DEF CInv, Unheard
  <2> QED BY <1>2, <2>3, <2>4 DEF CInv, Unheard
<1> QED BY <1>7, <1>8, <1>9 DEF CInv

\* Messages that are not notifications change nothing of what is coming.
LEMMA MessagesCome ==
    ASSUME IInv, GInv, CInv, UNCHANGED <<mem, job, next, revoked, epoch, revision>>,
           queue' \in Seq(Request),
           queue' = queue \/ \E n : queue' = Append(queue, n) /\ n.kind \notin Told
    PROVE  CInv'
<1>0. TypeOK /\ queue \in Seq(Request)
  BY DEF IInv, TypeOK
<1>1. queue' = queue \/ \E n \in Request : queue' = Append(queue, n) /\ n.kind \notin Told
  <2> SUFFICES ASSUME NEW n, queue' = Append(queue, n) PROVE n \in Request
    OBVIOUS
  <2>1. queue'[Len(queue) + 1] = n /\ Len(queue) + 1 \in DOMAIN queue'
    BY <1>0
  <2> QED BY <2>1
<1>2. ASSUME NEW x, Coming(x) PROVE Coming(x)'
  <2>1. Waiting(x) => Waiting(x)'
    BY <1>0, <1>1, WaitingFollows
  <2>2. Sweeping(x) => Sweeping(x)'
    BY DEF Sweeping, Heading, req
  <2> QED BY <1>2, <2>1, <2>2 DEF Coming
<1>3. EndsAreComing' /\ Unheard'
  BY <1>2, SamePending, ComingFollows, UnheardFollows DEF CInv
<1>4. QueueInOrder'
  <2>1. \/ queue' = queue
        \/ \E n \in Request : queue' = Append(queue, n) /\ \A r : Outdated(r, n)'
    BY <1>1, MessagesOutdateNothing
  <2>2. SameMessage
    BY DEF SameMessage, req
  <2> QED BY <1>0, <2>1, <2>2, SameEpochsGrow, OrderFollows DEF GInv, CInv
<1> QED BY <1>3, <1>4 DEF CInv

\* What users and documents send is no notification.
LEMMA SentMessages ==
    ASSUME TypeOK, Requests PROVE \E r : Send(r) /\ r.kind \notin Told
<1>0. \A kind \in {"start", "unstart", "claim", "offer", "complete", "popup", "choose", "stop",
                  "reserve", "release", "authorize"} : kind \in Kinds /\ kind \notin Told
  BY DEF Kinds, Told
<1>1. \A kind \in Kinds : Ask(kind) \in Message /\ Ask(kind).kind = kind
  BY AskTyped DEF Ask
<1>2. ASSUME NEW kind \in Kinds, NEW t \in OpenTabs
      PROVE  From(t, kind) \in Message /\ From(t, kind).kind = kind
  <2> DEFINE a == Ask(kind)
  <2>1. a \in Message /\ a.kind = kind /\ From(t, kind) \in Message
    BY <1>1, EpochsOfRequests
  <2>2. From(t, kind) = [a EXCEPT !.tab = t, !.route = tabs[t].route, !.doc = tabs[t].doc,
                                  !.epoch = epoch[t], !.revision = revision]
    BY DEF From
  <2> HIDE DEF a
  <2> QED BY <2>1, <2>2 DEF Message
<1>3. CASE UserStarts
  <2>1. PICK t \in OpenTabs, m \in Modes, u \in {0} \cup windows :
          Send([Ask("start") EXCEPT !.tab = t, !.route = tabs[t].route, !.mode = m, !.ui = u])
    BY <1>3 DEF UserStarts
  <2>2. [Ask("start") EXCEPT !.tab = t, !.route = tabs[t].route, !.mode = m, !.ui = u].kind = "start"
    BY <1>0, <1>1 DEF Message
  <2> QED BY <1>0, <2>1, <2>2
<1>4. CASE InvitationFails
  <2>1. PICK i \in Intents(mem) : Send([Ask("unstart") EXCEPT !.id = i])
    BY <1>4 DEF InvitationFails
  <2>2. [Ask("unstart") EXCEPT !.id = i].kind = "unstart"
    BY <1>0, <1>1 DEF Message
  <2> QED BY <1>0, <2>1, <2>2
<1>5. CASE DocumentClaims
  <2>1. PICK t \in OpenTabs, i \in Intents(mem) : Send([From(t, "claim") EXCEPT !.id = i])
    BY <1>5 DEF DocumentClaims
  <2>2. [From(t, "claim") EXCEPT !.id = i].kind = "claim"
    BY <1>0, <1>2 DEF Message
  <2> QED BY <1>0, <2>1, <2>2
<1>6. CASE DocumentReports
  <2>1. PICK t \in OpenTabs, o \in Operations(mem), kind \in {"offer", "complete"} :
          Send([From(t, kind) EXCEPT !.id = o])
    BY <1>6 DEF DocumentReports
  <2>2. [From(t, kind) EXCEPT !.id = o].kind = kind
    BY <1>0, <1>2 DEF Message
  <2> QED BY <1>0, <2>1, <2>2
<1>7. CASE DocumentOpensPopup
  <2>1. PICK t \in OpenTabs : Send(From(t, "popup"))
    BY <1>7 DEF DocumentOpensPopup
  <2> QED BY <1>0, <1>2, <2>1
<1>8. CASE UserDecides
  <2>1. PICK o \in Operations(mem), u \in {0} \cup windows, kind \in {"choose", "stop"} :
          Send([Ask(kind) EXCEPT !.id = o, !.ui = u])
    BY <1>8 DEF UserDecides
  <2>2. [Ask(kind) EXCEPT !.id = o, !.ui = u].kind = kind
    BY <1>0, <1>1 DEF Message
  <2> QED BY <1>0, <2>1, <2>2
<1>9. CASE PreviewReserves
  <2>1. PICK t \in Tabs, kind \in {"reserve", "release"} : Send([Ask(kind) EXCEPT !.tab = t])
    BY <1>9 DEF PreviewReserves
  <2>2. [Ask(kind) EXCEPT !.tab = t].kind = kind
    BY <1>0, <1>1 DEF Message
  <2> QED BY <1>0, <2>1, <2>2
<1>10. CASE DocumentWorks
  <2>1. PICK t \in OpenTabs, o \in Operations(mem), p \in {"prepare", "persist", "open"} :
          Send([From(t, "authorize") EXCEPT !.id = o, !.purpose = p])
    BY <1>10 DEF DocumentWorks
  <2>2. [From(t, "authorize") EXCEPT !.id = o, !.purpose = p].kind = "authorize"
    BY <1>0, <1>2 DEF Message
  <2> QED BY <1>0, <2>1, <2>2
<1>11. CASE DocumentStages
  <2>1. PICK t \in OpenTabs, o \in Operations(mem), s \in Stages,
             p \in {"begin", "use", "commit", "abort"} :
          Send([From(t, "authorize") EXCEPT !.id = o, !.purpose = p, !.stage = s])
    BY <1>11 DEF DocumentStages
  <2>2. [From(t, "authorize") EXCEPT !.id = o, !.purpose = p, !.stage = s].kind = "authorize"
    BY <1>0, <1>2 DEF Message
  <2> QED BY <1>0, <2>1, <2>2
<1> QED BY <1>3, <1>4, <1>5, <1>6, <1>7, <1>8, <1>9, <1>10, <1>11 DEF Requests

\* Nothing outside a job takes back what is coming.
LEMMA QuietlyComes == ASSUME IInv, GInv, TInv, CInv, Quietly, IInv' PROVE CInv'
<1>0. /\ TypeOK /\ job \in Job /\ events \in Seq(Event) /\ queue' \in Seq(Request)
      /\ running \subseteq Request
  BY DEF IInv, TypeOK
<1>1. CASE SettingsArrive
  <2>1. /\ UNCHANGED <<mem, queue, epoch, revision, next, revoked>> /\ job.at = "settings"
        /\ job' = [job EXCEPT !.at = "admit", !.settings = settings]
    BY <1>1 DEF SettingsArrive, Outside, volatile, history
  <2>2. job'.req = job.req
    BY <1>0, <2>1 DEF Job
  <2>3. (\A x : ~Sweeping(x)) /\ SameMessage
    BY <2>1, <2>2 DEF Sweeping, Heading, SameMessage, req
  <2>4. \A x : Waiting(x) => Waiting(x)'
    BY <2>1 DEF Waiting
  <2>5. EndsAreComing' /\ Unheard'
    BY <2>1, <2>3, <2>4, SamePending, WaitingEnds, UnheardFollows DEF CInv
  <2>6. QueueInOrder'
    BY <1>0, <2>1, <2>3, SameEpochsGrow, OrderFollows DEF GInv, CInv
  <2> QED BY <2>5, <2>6 DEF CInv
<1>2. CASE Requests
  <2>1. PICK r : Send(r) /\ r.kind \notin Told
    BY <1>0, <1>2, SentMessages
  <2>2. /\ UNCHANGED <<mem, job, next, revoked, epoch, revision>> /\ queue' = Append(queue, r)
    BY <2>1 DEF Send, history
  <2> QED BY <1>0, <2>1, <2>2, MessagesCome
<1>3. CASE Deliver
  <2>1. events # <<>> /\ Revoke(Head(events)) /\ UNCHANGED <<mem, job, next>>
    BY <1>3 DEF Deliver
  <2>2. Head(events) \in Event
    BY <1>0, <2>1
  <2> QED BY <2>1, <2>2, RevokeComes
<1>4. CASE UserSavesSettings
  <2>1. Revoke(Notice("settings", AnyTab, AnyRoute, 0)) /\ UNCHANGED <<mem, job, next>>
    BY <1>4 DEF UserSavesSettings
  <2>2. Notice("settings", AnyTab, AnyRoute, 0) \in Event
    BY DefaultsInRange, NoticeTyped
  <2> QED BY <2>1, <2>2, RevokeComes
<1>5. CASE HandlerReturns
  <2>1. UNCHANGED <<mem, job, next, revoked, epoch, revision>>
    BY <1>5 DEF HandlerReturns, history
  <2>2. PICK h \in running, kind \in {"record", "released"} :
          queue' = queue \/ queue' = Append(queue, [h EXCEPT !.kind = kind])
    BY <1>5 DEF HandlerReturns
  <2>3. [h EXCEPT !.kind = kind].kind = kind /\ kind \notin Told
    BY <1>0, <2>2 DEF Request, Message, Told
  <2> QED BY <1>0, <2>1, <2>2, <2>3, MessagesCome
<1>6. CASE \/ TimePasses \/ Navigates \/ Reloads \/ Settles \/ TabCloses \/ WindowCloses
           \/ SettingsWritten
  <2>1. UNCHANGED <<mem, job, next, revoked, epoch, revision, queue>>
    BY <1>6
    DEF TimePasses, Navigates, Reloads, Settles, TabCloses, WindowCloses, SettingsWritten,
        Disturb, volatile, history
  <2> QED BY <1>0, <2>1, MessagesCome
<1> QED BY <1>1, <1>2, <1>3, <1>4, <1>5, <1>6 DEF Quietly

\* Every step but the loss of the worker keeps what is coming.
LEMMA NextComes ==
    IInv /\ GInv /\ TInv /\ CInv /\ [Next]_vars /\ spent'["restart"] = 0
    /\ spent["restart"] = 0 => CInv'
<1> SUFFICES ASSUME IInv, GInv, TInv, CInv, [Next]_vars, spent'["restart"] = 0,
                    spent["restart"] = 0
             PROVE  CInv'
  OBVIOUS
<1>1. CASE UNCHANGED vars
  <2>1. /\ UNCHANGED <<mem, job, next, revoked, epoch, revision, queue>>
        /\ queue \in Seq(Request)
    BY <1>1 DEF vars, volatile, history, IInv, TypeOK
  <2> QED BY <2>1, MessagesCome
<1>2. CASE Acquire
  BY <1>2, AcquireComes
<1>3. CASE Saved \/ SaveFailed
  BY <1>3, SavesCome
<1>4. CASE Restarts
  <2>1. spent' = [spent EXCEPT !["restart"] = @ + 1]
    BY <1>4 DEF Restarts, Spend
  <2>2. spent \in [Disturbances -> Nat] /\ "restart" \in Disturbances
    BY DEF IInv, TypeOK, Disturbances
  <2>3. spent'["restart"] = 1
    BY <2>1, <2>2
  <2> QED BY <2>3
<1>5. CASE JobSteps
  BY <1>5, JobStepsCome
<1>6. CASE Quietly
  BY <1>6, QuietlyComes, NextKeeps
<1> QED BY <1>1, <1>2, <1>3, <1>4, <1>5, <1>6, NextCases

\* A worker starts without a notification.
LEMMA InitComes == Init => CInv
<1> SUFFICES ASSUME Init PROVE CInv
  OBVIOUS
<1>1. /\ disk \in UNION {sc.disks : sc \in Scenarios} /\ mem \in {disk, EmptyState}
      /\ next.intent = 1 + Cardinality(Intents(disk))
      /\ queue = <<>> /\ job.at = "idle" /\ revoked = {}
  BY DEF Init, Hydrate, NoJob
<1>2. EndsAreComing /\ QueueInOrder
  BY <1>1 DEF EndsAreComing, QueueInOrder
<1>3. ASSUME NEW i \in IntentIds, i >= next.intent PROVE ~disk.intents[i].there
  <2>1. Intents(disk) \subseteq 1 .. Cardinality(Intents(disk))
        /\ Cardinality(Intents(disk)) \in Nat
    BY <1>1, StoredStates, RecordsFinite
  <2>2. i \in Nat
    BY DEF IntentIds
  <2>3. i \notin 1 .. Cardinality(Intents(disk))
    BY <1>1, <1>3, <2>1, <2>2
  <2> QED BY <2>1, <2>3 DEF Intents
<1>4. \A i \in IntentIds : ~EmptyState.intents[i].there
  BY DEF EmptyState, NoIntent
<1>5. Unheard
  BY <1>1, <1>3, <1>4 DEF Unheard
<1> QED BY <1>2, <1>5 DEF CInv

\* Nothing but the last comparison begins a grant, of an operation that is live.
LEMMA GrantsAreJudged ==
    ASSUME IInv, GInv, [Next]_vars, Granted', ~Granted
    PROVE  job.at = "final" /\ AdmissionStillCurrent
<1>0. TypeOK /\ job \in Job /\ job'.at = "granted" /\ job'.req.purpose # "abort"
  BY DEF IInv, TypeOK, Granted, req
<1>1. CASE job' = job
  BY <1>1 DEF Granted, req
<1>2. CASE Acquire
  BY <1>0, <1>2 DEF Acquire, NoJob
<1>3. ASSUME NEW step, Go(step) PROVE step = "granted" /\ job'.req = job.req
  <2>1. job' = NoJob \/ job' = [job EXCEPT !.at = step]
    BY <1>3 DEF Go, Finish
  <2> QED BY <1>0, <2>1 DEF NoJob, Job
<1>4. CASE Saved \/ SaveFailed
  <2>1. Go(job.onSaved) \/ Go(job.onFailed)
    BY <1>4 DEF Saved, SaveFailed
  <2>2. job.onSaved # "granted" /\ job.onFailed # "granted"
    BY DEF GInv, VerdictsAreJudged
  <2> QED BY <1>3, <2>1, <2>2
<1>5. ~(Restarts \/ Finish)
  BY <1>0 DEF Restarts, Finish, NoJob
<1>6. CASE JobSteps
  <2>1. ~(ReadSettings \/ Rechecks \/ CommitJudges \/ OfferAdmits)
    <3>1. ~(ReadSettings \/ Rechecks)
      BY <1>0 DEF ReadSettings, Rechecks, Job
    <3>2. ~CommitJudges
      <4>1. CommitJudges => job'.at = "save"
        BY <1>0 DEF CommitJudges, Job
      <4> QED BY <1>0, <4>1
    <3>3. ~OfferAdmits
      <4>1. ASSUME OfferAdmits, SettingsMatch(theOp) PROVE job'.at = "save"
        BY <1>0, <4>1 DEF OfferAdmits, Job
      <4>2. OfferAdmits /\ ~SettingsMatch(theOp) => Finish
        BY DEF OfferAdmits
      <4> QED BY <1>0, <1>5, <4>1, <4>2
    <3> QED BY <3>1, <3>2, <3>3
  <2>2. ASSUME NEW state, NEW onSaved, NEW onFailed, SaveThen(state, onSaved, onFailed) PROVE FALSE
    <3>1. job' = [job EXCEPT !.at = "save", !.onSaved = onSaved, !.onFailed = onFailed]
      BY <2>2 DEF SaveThen
    <3> QED BY <1>0, <3>1 DEF Job
  <2>3. ASSUME NEW step \in Onward PROVE ~Go(step)
    <3>1. step # "granted"
      BY DEF Onward
    <3> QED BY <1>3, <3>1
  <2>4. ~(req.purpose = "abort" /\ Go("granted"))
    BY <1>0, <1>3 DEF req
  <2> QED BY <1>5, <1>6, <2>1, <2>2, <2>3, <2>4, JobTakesForm DEF JobForms
<1>7. CASE Quietly
  <2>1. job' = job \/ job' = [job EXCEPT !.at = "admit", !.settings = settings]
    BY <1>7
    DEF Quietly, SettingsArrive, Requests, UserStarts, InvitationFails, DocumentClaims,
        DocumentReports, DocumentOpensPopup, UserDecides, PreviewReserves, DocumentWorks,
        DocumentStages, Send, Deliver, HandlerReturns, TimePasses, Navigates, Reloads, Settles,
        TabCloses, WindowCloses, SettingsWritten, UserSavesSettings, Disturb
  <2> QED BY <1>0, <1>1, <2>1 DEF Job
<1>8. CASE UNCHANGED vars
  BY <1>1, <1>8 DEF vars
<1> QED BY <1>2, <1>4, <1>5, <1>6, <1>7, <1>8, NextCases

\* A notification that revoked the operation waits behind the message, so that an
\* epoch has moved since the message arrived.
LEMMA JudgedIsNotRevoked ==
    ASSUME IInv, GInv, CInv, job.at = "final", AdmissionStillCurrent
    PROVE  <<"operation", req.id>> \notin revoked \cup elapsed
<1>0. /\ req \in Request /\ req.id \in OpIds /\ theOp = mem.ops[req.id]
      /\ epoch \in [Tabs -> Nat] /\ revision \in Nat
      /\ req.epoch \in Nat /\ req.revision \in Nat
  <2>1. req.kind \in {"authorize", "commit"}
    BY DEF GInv, VerdictsAreJudged, Heading
  <2> QED BY <2>1, RequestsAreTyped DEF IInv, TypeOK, ByOperation, theOp, Request, Message
<1>1. /\ epoch[theOp.tab] = req.epoch /\ revision = req.revision /\ req.tab = theOp.tab
      /\ Live(theOp) /\ <<"operation", req.id>> \notin elapsed
  BY DEF AdmissionStillCurrent, NothingSince, Owns
<1>2. ASSUME <<"operation", req.id>> \in revoked PROVE FALSE
  <2>1. Coming(theOp)
    BY <1>0, <1>1, <1>2 DEF CInv, EndsAreComing
  <2>2. PICK k \in DOMAIN queue : Ends(queue[k], theOp)
    BY <2>1 DEF Coming, Sweeping, Waiting, Heading
  <2>3. Outdated(req, queue[k])
    BY <2>2 DEF CInv, QueueInOrder
  <2>4. CASE queue[k].kind = "settings"
    BY <1>0, <1>1, <2>3, <2>4 DEF Outdated
  <2>5. CASE queue[k].kind \in {"removed", "changed"} /\ queue[k].tab = theOp.tab
    <3>1. req.epoch < epoch[req.tab]
      BY <1>1, <2>3, <2>5 DEF Outdated
    <3> QED BY <1>0, <1>1, <3>1
  <2> QED BY <2>2, <2>4, <2>5 DEF Ends
<1> QED BY <1>1, <1>2

\* The worker has not been lost.
Lives == spent["restart"] = 0

\* As long as the worker lives, nothing is admitted for an operation of whose end
\* it was notified or whose two hours are over, wherever the notification found
\* the message.  A worker that is lost forgets its queue, and with it the end of
\* what it had stored.
THEOREM RevokedIsNotGranted == Spec /\ []Lives => NoGrantAfterRevocation
<1>1. Init => IInv /\ GInv /\ TInv /\ CInv
  BY InitFits, InitFollows, InitTerminal, InitComes
<1>2. /\ IInv /\ GInv /\ TInv /\ CInv /\ [Next]_vars
      /\ Lives /\ Lives'
      => (IInv /\ GInv /\ TInv /\ CInv)'
  BY NextKeeps, NextFollows, NextKeepsTerminal, NextComes DEF Lives
<1>3. IInv /\ GInv /\ CInv /\ [Next]_vars =>
        [Granted' /\ ~Granted => <<"operation", req.id>> \notin revoked \cup elapsed]_vars
  BY GrantsAreJudged, JudgedIsNotRevoked
<1> QED
  BY <1>1, <1>2, <1>3, PTL DEF Spec, NoGrantAfterRevocation

-----------------------------------------------------------------------------
(* Stages: the inductive invariant.                                        *)

\* Nobody owns stage s in a state; nothing may be done with its bytes any more,
\* unless a removal was refused and storage brings its owner back.
Unowned(st, s) == \A o \in OpIds : s \notin st.ops[o].stages
Settled(s) ==
    \/ fate[s] = "handed-to-commit"
    \/ fate[s] = "aborted-by-worker" /\ spent["removal-failure"] = 0

\* Two messages on their way are about different stages, unless one of them is a
\* begin that asks for a name which is taken.
Apart(a, b) ==
    \/ a.stage # b.stage \/ a.stage = NoStage
    \/ "begin" \in {a.purpose, b.purpose} /\ {a.purpose, b.purpose} \cap {"commit", "open"} = {}

OneAbout(q, r, m) ==
    /\ \A i, j \in DOMAIN q : i # j => Apart(q[i], q[j])
    /\ \A g, h \in r : g # h => Apart(g, h)
    /\ \A i \in DOMAIN q, h \in r : Apart(q[i], h)
    /\ \A i \in DOMAIN q : Apart(m, q[i])
    /\ \A h \in r : Apart(m, h)

OneAboutAStage == OneAbout(queue, running, req)

\* A message agrees with the fate of its stage.
Sound(m) ==
    /\ m.kind \in {"commit", "take"} => m.purpose = "commit"
    /\ m.kind = "record" => m.purpose = "open"
    /\ m.kind = "released" => m.purpose = "abort"
    /\ m.stage \in Stages =>
          /\ m.purpose = "commit" => fate[m.stage] \notin {"unused", "aborted-by-document"}
          /\ m.purpose = "open" => fate[m.stage] = "begun"
          /\ m.purpose = "begin" => ~Settled(m.stage)

\* A stage that was opened has no owner before it is recorded; one that was
\* aborted stays with the operation that did it.
Opened(m) == m.purpose = "open" => Unowned(mem, m.stage) /\ Unowned(disk, m.stage)
Freed(m) ==
    /\ m.id < next.op
    /\ Exists(mem.ops[m.id]) => m.stage \in mem.ops[m.id].stages
    /\ m.stage \in mem.ops[m.id].stages => fate[m.stage] # "begun"

Entering == job.at = "enter" \/ (job.at = "save" /\ job.onSaved = "enter")

MessagesFit ==
    /\ \A i \in DOMAIN queue :
          Sound(queue[i]) /\ Opened(queue[i]) /\ (queue[i].kind = "released" => Freed(queue[i]))
    /\ \A h \in running : Sound(h) /\ Opened(h) /\ (h.purpose = "abort" => Freed(h))
    /\ Sound(req)
    /\ Entering => Opened(req) /\ (req.kind = "released" => Freed(req)) 

SettledGone == \A s \in Stages : Settled(s) => Unowned(mem, s) /\ Unowned(disk, s)
Once == spent["removal-failure"] = 0 => \A s \in Stages : fate[s] # "consumed-twice"

BeginsOwned ==
    Heading({"recheck", "final", "granted"}) /\ req.kind = "authorize" /\ req.purpose = "begin" =>
        /\ req.stage \in theOp.stages
        /\ \A h \in running : h.purpose = "abort" /\ h.stage = req.stage => h.id # req.id
        /\ \A i \in DOMAIN queue :
              queue[i].kind = "released" /\ queue[i].stage = req.stage => queue[i].id # req.id

AbortsOwned ==
    req.kind = "authorize" /\ req.purpose = "abort" =>
        /\ ~Heading({"settings", "admit", "recheck", "final"})
        /\ job.at = "granted" => req.stage \in theOp.stages

\* The stage has left its operation and its fate is about to be settled.
HandOffs == req.kind \in {"commit", "take"}
Handing ==
    HandOffs /\ (job.permitted \/ job.at = "refused" \/ (job.at = "save" /\ job.onFailed = "refused"))

JobsFit ==
    /\ {job.onSaved, job.onFailed} \cap {"idle"} = {} /\ job.onFailed # "enter"
    /\ Entering \/ job.at = "idle" => ~job.permitted
    /\ HandOffs /\ job.at = "save" =>
          \/ job.onSaved = "enter" /\ job.onFailed = "done"
          \/ job.onFailed = "refused" /\ (job.onSaved = "refused" \/ (job.onSaved = "recheck" /\ job.permitted))
    /\ At("granted", "commit") => job.permitted
    /\ req.kind = "commit" /\ job.at \in {"settings", "admit", "recheck", "final"} /\ ~job.permitted =>
          OwnedStage(req)

HandsOver ==
    Handing =>
        /\ ~Settled(req.stage) /\ Unowned(mem, req.stage)
        /\ job.at # "save" =>
              Unowned(disk, req.stage) \/ (job.at = "refused" /\ spent["removal-failure"] > 0)

SInv ==
    /\ OneAboutAStage /\ MessagesFit /\ SettledGone /\ Once
    /\ BeginsOwned /\ AbortsOwned /\ JobsFit /\ HandsOver

\* Identities not yet given are in nobody's hands; while a save is under way
\* memory differs from storage by grants that were given up or are fresh.
IntentsAhead == \A i \in IntentIds : i >= next.intent => ~mem.intents[i].there /\ ~disk.intents[i].there
SavePending ==
    job.at = "save" =>
        /\ \A o \in OpIds : Live(mem.ops[o]) =>
              IF Live(disk.ops[o]) THEN disk.ops[o].tab = mem.ops[o].tab
              ELSE IntentsOn(disk, mem.ops[o].tab) # {}
        /\ \A i \in Intents(mem) \cap Intents(disk) : mem.intents[i] = disk.intents[i]

\* What is counted is a natural number.
LEMMA IdentitiesAreNatural ==
    \A n \in [intent: 1 .. MaxIntents + 1, op: 1 .. MaxOps + 1, surface: 1 .. MaxSurfaces + 1] :
        n.op \in Nat /\ n.intent \in Nat
<1>1. MaxIntents \in Nat /\ MaxOps \in Nat
  BY ParametersAreSane
<1> QED BY <1>1

LEMMA CountersAreNatural ==
    ASSUME TypeOK
    PROVE  /\ next.op \in Nat /\ next.intent \in Nat
           /\ spent["removal-failure"] \in Nat /\ spent["restart"] \in Nat
<1>1. /\ next \in [intent: 1 .. MaxIntents + 1, op: 1 .. MaxOps + 1, surface: 1 .. MaxSurfaces + 1]
      /\ spent \in [Disturbances -> Nat]
  BY DEF TypeOK
<1>2. "removal-failure" \in Disturbances /\ "restart" \in Disturbances
  BY DEF Disturbances
<1> QED BY <1>1, <1>2, IdentitiesAreNatural

-----------------------------------------------------------------------------
(* Messages about a stage.                                                 *)

\* What Apart looks at.
Alike(a, b) == a.stage = b.stage /\ a.purpose = b.purpose

LEMMA ApartEitherWay == \A a, b : Apart(a, b) => Apart(b, a)
  BY DEF Apart

LEMMA AlikeApart ==
    ASSUME NEW a, NEW b, NEW c, Alike(a, c) \/ c.stage = NoStage, Apart(a, b)
    PROVE  Apart(c, b)
  BY DEF Alike, Apart

LEMMA OthersStayApart ==
    ASSUME NEW q, NEW r, NEW m, NEW n, OneAbout(q, r, m), Alike(m, n) \/ n.stage = NoStage
    PROVE  OneAbout(q, r, n)
  BY AlikeApart DEF OneAbout

\* A message of the queue is one of those before it, or the last.
LEMMA Appended ==
    ASSUME NEW S, NEW q \in Seq(S), NEW n \in S
    PROVE  /\ DOMAIN Append(q, n) = DOMAIN q \cup {Len(q) + 1}
           /\ \A i \in DOMAIN q : Append(q, n)[i] = q[i] /\ i # Len(q) + 1
           /\ Append(q, n)[Len(q) + 1] = n
  OBVIOUS

LEMMA OneMoreWaits ==
    ASSUME NEW S, NEW q \in Seq(S), NEW r, NEW m, NEW n \in S, OneAbout(q, r, m),
           \A i \in DOMAIN q : Apart(n, q[i]), \A h \in r : Apart(n, h), Apart(n, m)
    PROVE  OneAbout(Append(q, n), r, m)
<1> DEFINE z == Append(q, n)
<1>1. /\ DOMAIN z = DOMAIN q \cup {Len(q) + 1}
      /\ \A i \in DOMAIN q : z[i] = q[i] /\ i # Len(q) + 1
      /\ z[Len(q) + 1] = n
  BY Appended
<1> HIDE DEF z
<1>2. \A i, j \in DOMAIN z : i # j => Apart(z[i], z[j])
  BY <1>1, ApartEitherWay DEF OneAbout
<1>3. \A i \in DOMAIN z, h \in r : Apart(z[i], h)
  BY <1>1 DEF OneAbout
<1>4. \A i \in DOMAIN z : Apart(m, z[i])
  BY <1>1, ApartEitherWay DEF OneAbout
<1> QED BY <1>2, <1>3, <1>4 DEF OneAbout, z

LEMMA OneIsTaken ==
    ASSUME NEW S, NEW q \in Seq(S), q # <<>>, NEW r, NEW m, OneAbout(q, r, m)
    PROVE  OneAbout(Tail(q), r, Head(q))
<1>1. /\ \A i \in DOMAIN Tail(q) : i + 1 \in DOMAIN q /\ Tail(q)[i] = q[i + 1] /\ i + 1 # 1
      /\ \A i, j \in DOMAIN Tail(q) : i # j => i + 1 # j + 1
      /\ 1 \in DOMAIN q /\ Head(q) = q[1]
  OBVIOUS
<1> QED BY <1>1 DEF OneAbout

LEMMA OneMoreRuns ==
    ASSUME NEW q, NEW r, NEW m, NEW n, NEW k, OneAbout(q, r, m),
           \A i \in DOMAIN q : Apart(n, q[i]), \A h \in r : Apart(n, h), k.stage = NoStage
    PROVE  OneAbout(q, r \cup {n}, k)
<1>1. \A b : Apart(k, b)
  BY DEF Apart
<1> QED BY <1>1, ApartEitherWay DEF OneAbout

LEMMA OneReturns ==
    ASSUME NEW q, NEW r, NEW m, NEW h \in r, OneAbout(q, r, m)
    PROVE  /\ OneAbout(q, r \ {h}, m)
           /\ \A i \in DOMAIN q : Apart(h, q[i])
           /\ \A g \in r \ {h} : Apart(h, g)
           /\ Apart(h, m)
  BY ApartEitherWay DEF OneAbout

-----------------------------------------------------------------------------
(* What a step leaves of what the messages rely on.                        *)

\* The operations keep all stages but some; a new operation has none of them.
HeldBut(s, z, some) ==
    \A o \in OpIds :
        /\ z.ops[o].stages \subseteq s.ops[o].stages \cup some
        /\ Exists(z.ops[o]) /\ Exists(s.ops[o]) =>
               s.ops[o].stages \subseteq z.ops[o].stages \cup some
        /\ Exists(z.ops[o]) => Exists(s.ops[o]) \/ o >= next.op

LEMMA SameHeld == \A s, some : HeldBut(s, s, some)
  BY DEF HeldBut

LEMMA UnownedKept ==
    ASSUME NEW s, NEW z, NEW some, NEW y, y \notin some, HeldBut(s, z, some),
           Unowned(s, y)
    PROVE  Unowned(z, y)
  BY DEF HeldBut, Unowned

\* Removals that were refused are only counted up, identities too.
CountsGrow ==
    /\ spent'["removal-failure"] = 0 => spent["removal-failure"] = 0
    /\ next'.op \in Nat /\ next.op <= next'.op

\* What a message is entitled to outlasts a step.
Stays(m) ==
    /\ Sound(m) => Sound(m)'
    /\ Opened(m) => Opened(m)'
    /\ m.purpose = "abort" /\ m.kind \in ByOperation /\ Freed(m) => Freed(m)'

LEMMA SoundStays ==
    ASSUME NEW m, Sound(m), CountsGrow, m.stage \in Stages => fate'[m.stage] = fate[m.stage]
    PROVE  Sound(m)'
  BY DEF Sound, Settled, CountsGrow

LEMMA FreedStays ==
    ASSUME TypeOK, CountsGrow, NEW m \in Request, m.kind \in ByOperation, Freed(m), NEW some,
           m.stage \notin some, HeldBut(mem, mem', some),
           fate'[m.stage] = "begun" => fate[m.stage] = "begun"
    PROVE  Freed(m)'
<1>1. m.id \in OpIds /\ m.id \in Nat /\ next.op \in Nat
  BY CountersAreNatural DEF Request, OpIds
<1>2. m.id < next'.op
  BY <1>1 DEF Freed, CountsGrow
<1>3. Exists(mem'.ops[m.id]) => Exists(mem.ops[m.id])
  BY <1>1 DEF Freed, HeldBut
<1>4. Exists(mem'.ops[m.id]) => m.stage \in mem'.ops[m.id].stages
  BY <1>1, <1>3 DEF Freed, HeldBut
<1>5. m.stage \in mem'.ops[m.id].stages => fate'[m.stage] # "begun"
  BY <1>1 DEF Freed, HeldBut
<1> QED BY <1>2, <1>4, <1>5 DEF Freed

\* The records change for some stages alone, and so does nobody's fate.
LEMMA MessageStaysFit ==
    ASSUME TypeOK, CountsGrow, UNCHANGED <<disk, fate>>, NEW some,
           HeldBut(mem, mem', some), NEW m \in Request,
           m.purpose \in {"open", "abort"} => m.stage \notin some
    PROVE  Stays(m)
<1>1. Sound(m) => Sound(m)'
  BY SoundStays
<1>2. Opened(m) => Opened(m)'
  BY UnownedKept DEF Opened, Unowned
<1>3. m.purpose = "abort" /\ m.kind \in ByOperation /\ Freed(m) => Freed(m)'
  BY FreedStays
<1> QED BY <1>1, <1>2, <1>3 DEF Stays

\* The message of the job stays the same, or the job has ended.
SameRequest ==
    \/ Finish
    \/ /\ job'.at # "idle" /\ job'.req.kind = req.kind /\ job'.req.stage = req.stage
       /\ job'.req.purpose = req.purpose /\ job'.req.id = req.id

LEMMA SoundAlike ==
    ASSUME NEW a, NEW b, a.kind = b.kind, a.stage = b.stage, a.purpose = b.purpose, Sound(a)
    PROVE  Sound(b)
  BY DEF Sound

JInv == BeginsOwned /\ AbortsOwned /\ JobsFit /\ HandsOver

\* An idle job is about no stage.
LEMMA IdleFits ==
    ASSUME Finish
    PROVE  /\ job'.req.stage = NoStage /\ job'.req.purpose = "none" /\ job'.req.kind = "settings"
           /\ Sound(req)' /\ ~Entering' /\ JInv'
<1>1. /\ job'.req.stage = NoStage /\ job'.req.purpose = "none" /\ job'.req.kind = "settings"
      /\ job'.at = "idle" /\ job'.onSaved = "done" /\ job'.onFailed = "done"
      /\ job'.permitted = FALSE
  BY DEF Finish, NoJob, Ask
<1>2. NoStage \notin Stages
  BY ParametersAreSane
<1>3. Sound(req)' /\ ~Entering'
  BY <1>1, <1>2 DEF Sound, Entering, req
<1>4. JInv'
  BY <1>1 DEF JInv, BeginsOwned, AbortsOwned, JobsFit, HandsOver, Handing, HandOffs, Heading, At,
              Entering, req
<1> QED BY <1>1, <1>3, <1>4

\* Every step of a job goes on with its message, never to its beginning.
LEMMA JobGoesOn ==
    ASSUME TypeOK, JobsFit, JobSteps
    PROVE  /\ SameRequest /\ ~Entering'
           /\ {job'.onSaved, job'.onFailed} \cap {"idle"} = {} /\ job'.onFailed # "enter"
<1>0. job \in Job /\ job.at \notin {"idle", "save"} /\ JobForms
  BY JobStepsHold, JobTakesForm DEF TypeOK
<1> DEFINE Goal == /\ SameRequest /\ ~Entering'
                   /\ {job'.onSaved, job'.onFailed} \cap {"idle"} = {} /\ job'.onFailed # "enter"
<1>1. CASE Finish
  BY <1>1, IdleFits DEF SameRequest, Finish, NoJob
<1>2. ASSUME NEW step, job' = [job EXCEPT !.at = step], step \notin {"enter", "idle", "save"}
      PROVE  Goal
  <2>1. /\ job'.at = step /\ job'.req = job.req /\ job'.onSaved = job.onSaved
        /\ job'.onFailed = job.onFailed
    BY <1>0, <1>2 DEF Job
  <2> QED BY <1>2, <2>1 DEF SameRequest, Entering, JobsFit, req
<1>3. ASSUME NEW step, Go(step), step \notin {"enter", "idle", "save"} PROVE Goal
  BY <1>1, <1>2, <1>3 DEF Go
<1>4. ASSUME NEW onSaved \in Onward, NEW onFailed \in Onward, NEW state,
             SaveThen(state, onSaved, onFailed)
      PROVE  Goal
  <2>1. job' = [job EXCEPT !.at = "save", !.onSaved = onSaved, !.onFailed = onFailed]
    BY <1>4 DEF SaveThen
  <2>2. /\ job'.at = "save" /\ job'.req = job.req /\ job'.onSaved = onSaved
        /\ job'.onFailed = onFailed
    BY <1>0, <2>1 DEF Job
  <2> QED BY <2>2 DEF SameRequest, Entering, Onward, req
<1>5. CASE ReadSettings \/ Rechecks
  <2>1. /\ job'.at \in {"settings", "final"} /\ job'.req = job.req /\ job'.onSaved = job.onSaved
        /\ job'.onFailed = job.onFailed
    BY <1>0, <1>5 DEF ReadSettings, Rechecks, Job
  <2> QED BY <2>1 DEF SameRequest, Entering, JobsFit, req
<1>6. CASE CommitJudges
  <2>1. /\ job'.at = "save" /\ job'.req = job.req /\ job'.onSaved \in {"recheck", "refused"}
        /\ job'.onFailed = "refused"
    BY <1>0, <1>6 DEF CommitJudges, Job
  <2> QED BY <2>1 DEF SameRequest, Entering, req
<1>7. CASE OfferAdmits /\ ~Finish
  <2>1. job' = [job EXCEPT !.req.route = theOp.route, !.at = "save", !.onSaved = "compact",
                           !.onFailed = "done"]
    BY <1>7 DEF OfferAdmits
  <2>2. /\ job'.at = "save" /\ job'.req = [job.req EXCEPT !.route = theOp.route]
        /\ job'.onSaved = "compact" /\ job'.onFailed = "done"
    BY <1>0, <2>1 DEF Job
  <2>3. /\ job'.req.kind = req.kind /\ job'.req.stage = req.stage
        /\ job'.req.purpose = req.purpose /\ job'.req.id = req.id
    BY <1>0, <2>2 DEF req, Job, Request, Message
  <2> QED BY <2>2, <2>3 DEF SameRequest, Entering
<1> QED BY <1>0, <1>1, <1>3, <1>4, <1>5, <1>6, <1>7 DEF JobForms, Onward

-----------------------------------------------------------------------------
(* The stages of the operations, step by step.                             *)

SameStages(s, z) == \A o \in OpIds : z.ops[o].stages = s.ops[o].stages

LEMMA OperationStages ==
    ASSUME NEW s \in State, NEW o \in OpIds, NEW op, op.stages = s.ops[o].stages
    PROVE  SameStages(s, [s EXCEPT !.ops[o] = op])
<1> DEFINE z == [s EXCEPT !.ops[o] = op]
<1>1. \A x \in OpIds : z.ops[x] = IF x = o THEN op ELSE s.ops[x]
  BY DEF State
<1> HIDE DEF z
<1> QED BY <1>1 DEF SameStages, z

LEMMA CancelledStages ==
    ASSUME NEW s \in State, NEW o \in OpIds PROVE SameStages(s, Cancelled(s, o))
<1> DEFINE op == [s.ops[o] EXCEPT !.phase = "cancelled"]
<1>1. op.stages = s.ops[o].stages
  BY DEF State, Operation
<1>2. [s EXCEPT !.ops[o].phase = "cancelled"] = [s EXCEPT !.ops[o] = op]
  BY DEF State
<1> HIDE DEF op
<1>3. SameStages(s, [s EXCEPT !.ops[o] = op])
  BY <1>1, OperationStages
<1>4. SameStages(s, s)
  BY DEF SameStages
<1> QED BY <1>2, <1>3, <1>4 DEF Cancelled

LEMMA CancelStages ==
    ASSUME mem \in State, NEW o \in OpIds, NEW step, CancelThen(o, step)
    PROVE  SameStages(mem, mem')
<1>1. mem' = mem \/ mem' = Cancelled(mem, o)
  BY DEF CancelThen, SaveThen
<1> QED BY <1>1, CancelledStages DEF SameStages

LEMMA DroppedStages ==
    ASSUME NEW s \in State, NEW gone
    PROVE  SameStages(s, DropIntents(s, gone)) /\ SameStages(s, DropSurfaces(s, gone))
<1>1. DropIntents(s, gone).ops = s.ops
  BY DEF DropIntents, State
<1>2. DropSurfaces(s, gone).ops = s.ops
  BY DEF DropSurfaces, State
<1> QED BY <1>1, <1>2 DEF SameStages

\* One operation gains or loses one stage.
LEMMA RegisteredStages ==
    ASSUME mem \in State, NEW o \in OpIds, NEW x, mem' = Registering(o, x)
    PROVE  \A y \in OpIds : mem'.ops[y].stages =
              IF y = o THEN mem.ops[y].stages \cup {x} ELSE mem.ops[y].stages
<1> DEFINE op == [mem.ops[o] EXCEPT !.stages = @ \cup {x}]
<1>1. op.stages = mem.ops[o].stages \cup {x}
  BY DEF State, Operation
<1>2. mem' = [mem EXCEPT !.ops[o] = op]
  BY DEF State, Registering
<1> HIDE DEF op
<1>3. \A y \in OpIds : mem'.ops[y] = IF y = o THEN op ELSE mem.ops[y]
  BY <1>2 DEF State
<1> QED BY <1>1, <1>3

LEMMA RelinquishedStages ==
    ASSUME mem \in State, NEW o \in OpIds, NEW x, mem' = Relinquishing(o, x)
    PROVE  \A y \in OpIds : mem'.ops[y].stages =
              IF y = o THEN mem.ops[y].stages \ {x} ELSE mem.ops[y].stages
<1> DEFINE op == [mem.ops[o] EXCEPT !.stages = @ \ {x}]
<1>1. op.stages = mem.ops[o].stages \ {x}
  BY DEF State, Operation
<1>2. mem' = [mem EXCEPT !.ops[o] = op]
  BY DEF State, Relinquishing
<1> HIDE DEF op
<1>3. \A y \in OpIds : mem'.ops[y] = IF y = o THEN op ELSE mem.ops[y]
  BY <1>2 DEF State
<1> QED BY <1>1, <1>3

\* The steps that register a stage, or give one up.
Registers ==
    /\ (At("admit", "authorize") /\ req.purpose = "begin") \/ At("enter", "record")
    /\ req.id \in OpIds /\ req.stage \in Stages /\ Exists(theOp) /\ Owners(req.stage) = {}
    /\ mem' = Registering(req.id, req.stage)
Relinquishes ==
    /\ CommitAdmits \/ CommitJudges \/ TakeChecks \/ Released
    /\ req.id \in OpIds /\ req.stage \in mem.ops[req.id].stages
    /\ mem' = Relinquishing(req.id, req.stage)

Starting == StartAdmits \/ ClaimAdmits

LEMMA ChoiceStages ==
    ASSUME IInv, OfferAdmits \/ ChooseValidates \/ Complete PROVE SameStages(mem, mem')
<1>0. mem \in State /\ req.id \in OpIds /\ (mem' = mem => SameStages(mem, mem'))
  BY RequestsAreTyped
  DEF IInv, TypeOK, OfferAdmits, ChooseValidates, Complete, At, ByOperation, SameStages
<1>1. theOp \in Operation /\ theOp = mem.ops[req.id]
  BY <1>0 DEF theOp, State
<1>2. ASSUME NEW op, mem' = [mem EXCEPT !.ops[req.id] = op], op.stages = theOp.stages
      PROVE  SameStages(mem, mem')
  BY <1>0, <1>1, <1>2, OperationStages
<1>3. CASE OfferAdmits
  <2> DEFINE op == [theOp EXCEPT !.phase = "awaiting-selection", !.branch = "offered"]
  <2>1. mem' = mem \/ mem' = [mem EXCEPT !.ops[req.id] = op]
    <3>1. \/ mem' = mem
          \/ mem' = [mem EXCEPT !.ops[req.id].phase = "awaiting-selection",
                               !.ops[req.id].branch = "offered"]
      BY <1>3 DEF OfferAdmits
    <3>2. [mem EXCEPT !.ops[req.id].phase = "awaiting-selection",
                      !.ops[req.id].branch = "offered"] = [mem EXCEPT !.ops[req.id] = op]
      BY <1>0, <1>1 DEF State, Operation
    <3> QED BY <3>1, <3>2
  <2>2. op.stages = theOp.stages
    BY <1>1 DEF Operation
  <2> HIDE DEF op
  <2> QED BY <1>0, <1>2, <2>1, <2>2
<1>4. CASE ChooseValidates
  <2> DEFINE op == [theOp EXCEPT !.phase = "exporting", !.branch = "chosen"]
  <2>1. mem' = mem \/ mem' = [mem EXCEPT !.ops[req.id] = op]
    BY ZenonT(40), <1>0, <1>1, <1>4 DEF ChooseValidates, SaveThen, State, Operation
  <2>2. op.stages = theOp.stages
    BY <1>1 DEF Operation
  <2> HIDE DEF op
  <2> QED BY <1>0, <1>2, <2>1, <2>2
<1>5. CASE Complete
  <2> DEFINE op == Completed(theOp)
  <2>1. mem' = mem \/ mem' = [mem EXCEPT !.ops[req.id] = op]
    BY <1>0, <1>1, <1>5 DEF Complete, SaveThen, State
  <2>2. op.stages = theOp.stages
    <3>1. \A v, w : [theOp EXCEPT !.phase = v, !.outcome = w].stages = theOp.stages
      BY <1>1 DEF Operation
    <3> QED BY <3>1 DEF Completed
  <2> HIDE DEF op
  <2> QED BY <1>0, <1>2, <2>1, <2>2
<1> QED BY <1>3, <1>4, <1>5

LEMMA WindowStages ==
    ASSUME IInv, Compact \/ WindowCreated PROVE SameStages(mem, mem')
<1>0. mem \in State
  BY DEF IInv, TypeOK
<1>1. \A z : [mem EXCEPT !.surfaces = z].ops = mem.ops
  BY <1>0 DEF State
<1>2. mem'.ops = mem.ops \/ mem' = DropSurfaces(mem, Registered)
  BY <1>1 DEF Compact, WindowCreated, SaveThen
<1> QED BY <1>0, <1>2, DroppedStages DEF SameStages

LEMMA EndingStages ==
    ASSUME IInv, Unstart \/ GiveUp \/ Stop \/ AuthorizeChecks \/ AuthorizeJudges \/ Sweep
    PROVE  SameStages(mem, mem')
<1>0. TypeOK /\ StepsFit /\ mem \in State /\ (mem' = mem => SameStages(mem, mem'))
  BY DEF IInv, TypeOK, SameStages
<1>1. CASE Unstart
  <2>1. mem' = DropIntents(mem, {req.id})
    BY <1>1 DEF Unstart, SaveThen
  <2> QED BY <1>0, <2>1, DroppedStages
<1>2. CASE GiveUp
  <2>1. req.kind \in {"popup", "offer", "choose"}
    BY <1>0, <1>2 DEF GiveUp, StepsFit, WindowSteps
  <2>2. mem' = mem \/ (req.id \in OpIds /\ mem' = Cancelled(mem, req.id))
    BY <1>0, <1>2, <2>1, RequestsAreTyped DEF GiveUp, SaveThen, ByOperation
  <2> QED BY <1>0, <2>2, CancelledStages
<1>3. CASE Stop \/ AuthorizeChecks \/ AuthorizeJudges
  <2>1. req.id \in OpIds
    BY <1>0, <1>3, RequestsAreTyped DEF Stop, AuthorizeChecks, AuthorizeJudges, At, ByOperation
  <2>2. mem' = mem \/ CancelThen(req.id, "done") \/ CancelThen(req.id, "refused")
    BY <1>3 DEF Stop, AuthorizeChecks, AuthorizeJudges
  <2> QED BY <1>0, <2>1, <2>2, CancelStages
<1>4. CASE Sweep
  <2> DEFINE base == IF req.kind = "settings" THEN DropIntents(mem, Intents(mem)) ELSE mem
             most == DropIntents(base, RevokedIntents)
             last == DropSurfaces(most, IF req.kind = "window-closed" THEN {req.ui} ELSE {})
  <2>1. base \in State /\ SameStages(mem, base)
    <3>1. DropIntents(mem, Intents(mem)) \in State
      BY <1>0, DropIntentsWeaker DEF Weaker, GrantsKept
    <3> QED BY <1>0, <3>1, DroppedStages DEF SameStages
  <2>2. (\E o \in Oldest(Doomed, 1) : mem' = Cancelled(base, o)) \/ mem' = last
    BY <1>4 DEF Sweep, SaveThen
  <2> HIDE DEF base
  <2>3. Oldest(Doomed, 1) \subseteq OpIds
    BY DEF Oldest, Doomed
  <2>4. most \in State /\ SameStages(base, most)
    BY <2>1, DroppedStages, DropIntentsWeaker DEF Weaker, GrantsKept
  <2> HIDE DEF most
  <2>5. SameStages(most, last)
    BY <2>4, DroppedStages
  <2> HIDE DEF last
  <2> QED BY <2>1, <2>2, <2>3, <2>4, <2>5, CancelledStages DEF SameStages
<1> QED BY <1>1, <1>2, <1>3, <1>4

\* Every step of a job registers a stage, gives one up, or leaves all in place.
LEMMA JobStages ==
    ASSUME IInv, JobSteps
    PROVE  Starting \/ Registers \/ Relinquishes \/ SameStages(mem, mem')
<1>0. TypeOK /\ mem \in State /\ (mem' = mem => SameStages(mem, mem'))
  BY DEF IInv, TypeOK, SameStages
<1>1. CASE \/ StartChecks \/ ClaimChecks \/ OfferChecks \/ ChooseChecks \/ CommitChecks
           \/ OpenChecks \/ WindowRefused \/ ChooseApplies \/ Rechecks \/ Reserve \/ Release
           \/ AuthorizeGrants \/ AuthorizeRefuses \/ CommitDispatches \/ WorkerCleansUp
           \/ CommitRejudges
  <2>1. mem' = mem
    BY <1>1
    DEF StartChecks, ClaimChecks, OfferChecks, ChooseChecks, CommitChecks, Check, OpenChecks,
        WindowRefused, ChooseApplies, Rechecks, Reserve, Release, AuthorizeGrants,
        AuthorizeRefuses, CommitDispatches, WorkerCleansUp, CommitRejudges
  <2> QED BY <1>0, <2>1
<1>2. CASE CommitAdmits \/ CommitJudges \/ TakeChecks \/ Released
  <2>1. req.id \in OpIds
    BY <1>0, <1>2, RequestsAreTyped
    DEF CommitAdmits, CommitJudges, TakeChecks, Released, At, ByOperation
  <2>2. mem' = mem \/ mem' = Relinquishing(req.id, req.stage)
    BY <1>2 DEF CommitAdmits, CommitJudges, TakeChecks, Released, RelinquishThen, SaveThen
  <2>3. ASSUME req.stage \notin mem.ops[req.id].stages, mem' = Relinquishing(req.id, req.stage)
        PROVE  SameStages(mem, mem')
    <3>1. \A y \in OpIds : mem'.ops[y].stages =
             IF y = req.id THEN mem.ops[y].stages \ {req.stage} ELSE mem.ops[y].stages
      BY <1>0, <2>1, <2>3, RelinquishedStages
    <3> QED BY <2>3, <3>1 DEF SameStages
  <2> QED BY <1>0, <1>2, <2>1, <2>2, <2>3 DEF Relinquishes
<1>3. CASE AuthorizeAdmits \/ Record
  <2>1. req.id \in OpIds
    BY <1>0, <1>3, RequestsAreTyped DEF AuthorizeAdmits, Record, At, ByOperation
  <2>2. \/ mem' = mem
        \/ CancelThen(req.id, "refused") \/ CancelThen(req.id, "done")
        \/ /\ req.stage \in Stages /\ Exists(theOp) /\ Owners(req.stage) = {}
           /\ (At("admit", "authorize") /\ req.purpose = "begin") \/ At("enter", "record")
           /\ mem' = Registering(req.id, req.stage)
    <3>1. CASE AuthorizeAdmits
      <4>1. Exists(theOp)
        BY <3>1 DEF AuthorizeAdmits, At, IInv, CheckHolds, Checked, Live, Exists
      <4>2. req.purpose = "begin" => req.stage \in Stages
        BY <1>0, RequestsAreTyped
      <4> QED BY <3>1, <4>1, <4>2 DEF AuthorizeAdmits, SaveThen
    <3>2. CASE Record
      BY <1>0, <3>2, RequestsAreTyped DEF Record, SaveThen, At
    <3> QED BY <1>3, <3>1, <3>2
  <2> QED BY <1>0, <2>1, <2>2, CancelStages DEF Registers
<1>4. CASE OfferAdmits \/ ChooseValidates \/ Complete
  BY <1>4, ChoiceStages
<1>5. CASE Compact \/ WindowCreated
  BY <1>5, WindowStages
<1>6. CASE Unstart \/ GiveUp \/ Stop \/ AuthorizeChecks \/ AuthorizeJudges \/ Sweep
  BY <1>6, EndingStages
<1> QED BY <1>1, <1>2, <1>3, <1>4, <1>5, <1>6 DEF JobSteps, Starting

-----------------------------------------------------------------------------
(* The steps of a job that leave the messages alone.                       *)

Handovers == AuthorizeGrants \/ AuthorizeRefuses \/ CommitDispatches \/ WorkerCleansUp

LEMMA JobStepsAlone ==
    ASSUME JobSteps
    PROVE  spent' = spent /\ (Handovers \/ UNCHANGED <<queue, running, fate>>)
  BY DEF JobSteps, Handovers, Outside, volatile, browser, history, Check, StartChecks, StartAdmits,
         Unstart, ClaimChecks, ClaimAdmits, OfferChecks, OfferAdmits, OpenChecks, Compact,
         WindowCreated, WindowRefused, GiveUp, ChooseChecks, ChooseValidates, ChooseApplies, Stop,
         Complete, AuthorizeChecks, AuthorizeAdmits, Rechecks, AuthorizeJudges, AuthorizeGrants,
         AuthorizeRefuses, CommitChecks, CommitAdmits, CommitJudges, CommitRejudges,
         CommitDispatches, TakeChecks, WorkerCleansUp, Record, Released, Sweep, Reserve, Release

LEMMA StartHeld == ASSUME IInv, TInv, Starting PROVE HeldBut(mem, mem', {})
<1>0. ~Exists(NoOperation) /\ NoOperation.stages = {}
  BY DEF Exists, NoOperation
<1>1. CASE StartAdmits
  <2>1. \A o \in OpIds : mem'.ops[o] \in {mem.ops[o], NoOperation}
    BY <1>1, StartChanges
  <2> QED BY <1>0, <2>1 DEF HeldBut
<1>2. CASE ClaimAdmits
  <2>1. CASE mem' = mem
    BY <2>1, SameHeld
  <2>2. CASE /\ next.op \in OpIds /\ NewOperation(mem'.ops[next.op])
             /\ \A o \in OpIds \ {next.op} : mem'.ops[o] = mem.ops[o]
    <3>1. mem'.ops[next.op].stages = {} /\ next.op >= next.op
      BY <2>2, ParametersAreSane DEF NewOperation, OpIds
    <3>2. ASSUME NEW o \in OpIds, o # next.op
          PROVE  /\ mem'.ops[o].stages \subseteq mem.ops[o].stages \cup {}
                 /\ mem.ops[o].stages \subseteq mem'.ops[o].stages \cup {}
                 /\ Exists(mem'.ops[o]) => Exists(mem.ops[o])
      BY <2>2, <3>2
    <3>3. ~Exists(mem.ops[next.op])
      BY <2>2, <3>1 DEF TInv, Ahead
    <3> QED BY <3>1, <3>2, <3>3 DEF HeldBut
  <2> QED BY <1>2, <2>1, <2>2, ClaimChanges
<1> QED BY <1>1, <1>2 DEF Starting

\* What a step of a job does to the stages, on every operation.
LEMMA JobHeld ==
    ASSUME IInv, TInv, JobSteps
    PROVE  \/ HeldBut(mem, mem', {})
           \/ (Registers \/ Relinquishes) /\ HeldBut(mem, mem', {req.stage})
<1>0. mem \in State
  BY DEF IInv, TypeOK
<1>1. ASSUME ~Starting PROVE \A o \in OpIds : Exists(mem'.ops[o]) => Exists(mem.ops[o])
  BY <1>1, JobStepsProgress DEF Starting, Progress, OpsMoved, Moved
<1>2. CASE Starting
  BY <1>2, StartHeld
<1>3. CASE ~Starting /\ SameStages(mem, mem')
  BY <1>1, <1>3 DEF SameStages, HeldBut
<1>4. CASE ~Starting /\ Registers
  <2>1. \A o \in OpIds : mem'.ops[o].stages =
           IF o = req.id THEN mem.ops[o].stages \cup {req.stage} ELSE mem.ops[o].stages
    BY <1>0, <1>4, RegisteredStages DEF Registers
  <2> QED BY <1>1, <1>4, <2>1 DEF HeldBut
<1>5. CASE ~Starting /\ Relinquishes
  <2>1. \A o \in OpIds : mem'.ops[o].stages =
           IF o = req.id THEN mem.ops[o].stages \ {req.stage} ELSE mem.ops[o].stages
    BY <1>0, <1>5, RelinquishedStages DEF Relinquishes
  <2> QED BY <1>1, <1>5, <2>1 DEF HeldBut
<1> QED BY <1>2, <1>3, <1>4, <1>5, JobStages

LEMMA JobCounts == ASSUME IInv, JobSteps PROVE CountsGrow
<1>1. next'.op = next.op \/ next'.op = next.op + 1
  BY StartChanges, ClaimChanges, IdentitiesKept
<1>2. next.op \in Nat
  BY CountersAreNatural DEF IInv
<1> QED BY <1>1, <1>2, JobStepsAlone DEF CountsGrow

\* The messages of others are as good as before, and so is that of the job.
LEMMA MessagesStay ==
    ASSUME TypeOK, RunningFit, OneAboutAStage, MessagesFit, UNCHANGED <<queue, running, fate>>,
           CountsGrow, SameRequest, ~Entering',
           \A m \in Request : Apart(req, m) => Stays(m)
    PROVE  OneAboutAStage' /\ MessagesFit'
<1>0. /\ queue \in Seq(Request) /\ running \subseteq Request /\ req \in Request
      /\ \A i \in DOMAIN queue : queue[i] \in Request
  BY RequestsAreTyped DEF TypeOK
<1>1. OneAboutAStage'
  <2>1. OneAbout(queue, running, job'.req)
    BY IdleFits, OthersStayApart DEF OneAboutAStage, SameRequest, Alike
  <2> QED BY <2>1 DEF OneAboutAStage, req
<1>2. ASSUME NEW i \in DOMAIN queue
      PROVE  (Sound(queue[i]) /\ Opened(queue[i]) /\ (queue[i].kind = "released" => Freed(queue[i])))'
  <2>1. PICK m \in Request : m = queue[i]
    BY <1>0
  <2>2. Stays(m) /\ Sound(m) /\ Opened(m) /\ (m.kind = "released" => Freed(m))
    BY <2>1 DEF OneAboutAStage, OneAbout, MessagesFit
  <2>3. m.kind = "released" => m.purpose = "abort" /\ m.kind \in ByOperation
    BY <2>2 DEF Sound, ByOperation
  <2>4. (Sound(m) /\ Opened(m) /\ (m.kind = "released" => Freed(m)))'
    BY <2>2, <2>3 DEF Stays
  <2> QED BY <2>1, <2>4
<1>3. ASSUME NEW h \in running
      PROVE  (Sound(h) /\ Opened(h) /\ (h.purpose = "abort" => Freed(h)))'
  <2>1. PICK m \in Request : m = h
    BY <1>0
  <2>2. Stays(m) /\ Sound(m) /\ Opened(m) /\ (m.purpose = "abort" => Freed(m))
    BY <2>1 DEF OneAboutAStage, OneAbout, MessagesFit
  <2>3. m.kind \in ByOperation
    BY <2>1 DEF RunningFit, ByOperation
  <2>4. (Sound(m) /\ Opened(m) /\ (m.purpose = "abort" => Freed(m)))'
    BY <2>2, <2>3 DEF Stays
  <2> QED BY <2>1, <2>4
<1>4. Sound(req)'
  <2>1. CASE Finish
    BY <2>1, IdleFits
  <2>2. CASE ~Finish
    <3>1. PICK m \in Request : m = req
      BY <1>0
    <3>2. Sound(m)'
      BY <3>1, SoundStays DEF MessagesFit
    <3>3. /\ job'.req.kind = m.kind /\ job'.req.stage = m.stage /\ job'.req.purpose = m.purpose
      BY <2>2, <3>1 DEF SameRequest
    <3> QED BY <3>2, <3>3 DEF Sound, Settled, req
  <2> QED BY <2>1, <2>2
<1> QED BY <1>1, <1>2, <1>3, <1>4 DEF MessagesFit

LEMMA FatesStay ==
    ASSUME SettledGone, Once, CountsGrow, UNCHANGED <<fate, disk>>, NEW some,
           HeldBut(mem, mem', some), \A s \in some \cap Stages : ~Settled(s)
    PROVE  SettledGone' /\ Once'
<1>1. ASSUME NEW s \in Stages, Settled(s)' PROVE Unowned(mem', s) /\ Unowned(disk', s)
  <2>1. Settled(s)
    BY <1>1 DEF Settled, CountsGrow
  <2> QED BY <2>1, UnownedKept DEF SettledGone
<1>2. Once'
  BY DEF Once, CountsGrow
<1> QED BY <1>1, <1>2 DEF SettledGone

\* Only a begin shares its stage with others, and it registers a stage that
\* nobody owns.
LEMMA JobLeavesMessages ==
    ASSUME IInv, TInv, SInv, JobSteps, UNCHANGED <<queue, running, fate>>
    PROVE  OneAboutAStage' /\ MessagesFit' /\ SettledGone' /\ Once'
<1>0. /\ TypeOK /\ RunningFit /\ CountsGrow /\ UNCHANGED disk /\ SameRequest /\ ~Entering'
      /\ req \in Request
  BY JobCounts, JobStepsHold, JobGoesOn, RequestsAreTyped DEF IInv, SInv
<1>1. CASE HeldBut(mem, mem', {})
  <2>1. \A m \in Request : Stays(m)
    BY <1>0, <1>1, MessageStaysFit
  <2> QED BY <1>0, <1>1, <2>1, MessagesStay, FatesStay DEF SInv
<1>2. CASE (Registers \/ Relinquishes) /\ HeldBut(mem, mem', {req.stage})
  <2>1. req.stage \in Stages /\ ~Settled(req.stage)
    <3>1. CASE Registers
      BY <3>1 DEF Registers, At, Entering, SInv, MessagesFit, Sound, Settled
    <3>2. CASE Relinquishes
      BY <1>0, <3>2, RequestsAreTyped
      DEF Relinquishes, SInv, SettledGone, Unowned, CommitAdmits, CommitJudges, TakeChecks,
          Released, At
    <3> QED BY <1>2, <3>1, <3>2
  <2>2. req.stage # NoStage
    BY <2>1, ParametersAreSane
  <2>3. ASSUME NEW m \in Request, Apart(req, m) PROVE Stays(m)
    <3>1. CASE m.purpose \in {"open", "abort"} => m.stage # req.stage
      BY <1>0, <1>2, <3>1, MessageStaysFit
    <3>2. CASE m.purpose = "abort" /\ m.stage = req.stage
      <4>1. req.purpose = "begin"
        BY <2>2, <2>3, <3>2 DEF Apart
      <4>2. Registers
        <5>1. Sound(req)
          BY DEF SInv, MessagesFit
        <5> QED BY <1>2, <4>1, <5>1
                DEF Relinquishes, CommitAdmits, CommitJudges, TakeChecks, Released, At, Sound
      <4>3. Sound(m) => Sound(m)'
        BY <1>0, SoundStays
      <4>4. Opened(m)'
        BY <3>2 DEF Opened
      <4>5. ASSUME Freed(m), m.kind \in ByOperation PROVE Freed(m)'
        <5>1. m.id \in OpIds /\ m.id \in Nat /\ next.op \in Nat
          BY <1>0, <4>5, CountersAreNatural DEF Request, OpIds
        <5>2. ~Exists(mem.ops[m.id]) /\ m.stage \notin mem.ops[m.id].stages
          BY <3>2, <4>2, <4>5, <5>1 DEF Registers, Owners, Freed
        <5>3. m.id # req.id
          BY <4>2, <5>2 DEF Registers, theOp
        <5>4. mem'.ops[m.id].stages = mem.ops[m.id].stages
          BY <1>0, <4>2, <5>1, <5>3, RegisteredStages DEF Registers, TypeOK
        <5>5. ~Exists(mem'.ops[m.id])
          BY <1>0, <1>2, <4>5, <5>1, <5>2 DEF HeldBut, Freed
        <5>6. m.id < next'.op
          BY <1>0, <4>5, <5>1 DEF Freed, CountsGrow
        <5> QED BY <5>2, <5>4, <5>5, <5>6 DEF Freed
      <4> QED BY <4>3, <4>4, <4>5 DEF Stays
    <3>3. CASE m.purpose = "open" /\ m.stage = req.stage
      BY <2>2, <2>3, <3>3 DEF Apart
    <3> QED BY <3>1, <3>2, <3>3
  <2>4. OneAboutAStage' /\ MessagesFit'
    BY <1>0, <2>3, MessagesStay DEF SInv
  <2>5. SettledGone' /\ Once'
    BY <1>0, <1>2, <2>1, FatesStay DEF SInv
  <2> QED BY <2>4, <2>5
<1> QED BY <1>1, <1>2, JobHeld

-----------------------------------------------------------------------------
(* The hand-off of a stage, as the job goes on.                            *)

\* The message, the verdict and the ways out of a save stay with the job.
JobCarries == job'.req = job.req /\ job'.permitted = job.permitted

LEMMA Goes ==
    ASSUME job \in Job, NEW step, Go(step), step # "done"
    PROVE  JobCarries /\ job'.at = step /\ UNCHANGED <<job.onSaved, job.onFailed>>
  BY DEF Go, Job, JobCarries

LEMMA Reads ==
    ASSUME job \in Job, ReadSettings
    PROVE  JobCarries /\ job'.at = "settings" /\ UNCHANGED <<job.onSaved, job.onFailed>>
  BY DEF ReadSettings, Job, JobCarries

LEMMA Saves ==
    ASSUME job \in Job, NEW state, NEW onSaved, NEW onFailed, SaveThen(state, onSaved, onFailed)
    PROVE  JobCarries /\ job'.at = "save" /\ job'.onSaved = onSaved /\ job'.onFailed = onFailed
           /\ mem' = state
  BY DEF SaveThen, Job, JobCarries

LEMMA Cancels ==
    ASSUME job \in Job, NEW o, CancelThen(o, "refused")
    PROVE  /\ JobCarries
           /\ \/ job'.at = "refused" /\ mem' = mem
              \/ job'.at = "save" /\ job'.onSaved = "refused" /\ job'.onFailed = "done"
<1>1. CASE Live(mem.ops[o])
  BY <1>1, Saves DEF CancelThen
<1>2. CASE ~Live(mem.ops[o])
  BY <1>2, Goes DEF CancelThen
<1> QED BY <1>1, <1>2

LEMMA StepsOfKinds ==
    ASSUME IInv, GInv, JobSteps
    PROVE  /\ req.kind = "authorize" =>
                 \/ AuthorizeChecks \/ AuthorizeAdmits \/ Rechecks \/ AuthorizeJudges
                 \/ AuthorizeGrants \/ AuthorizeRefuses
           /\ req.kind = "commit" =>
                 \/ CommitChecks \/ CommitAdmits \/ Rechecks \/ CommitJudges \/ CommitRejudges
                 \/ CommitDispatches \/ WorkerCleansUp
           /\ req.kind = "take" => TakeChecks \/ WorkerCleansUp
  BY DEF IInv, GInv, VerdictsAreJudged, Heading, StepsFit, WindowSteps, JobSteps, Check,
         StartChecks, StartAdmits, Unstart, ClaimChecks, ClaimAdmits, OfferChecks, OfferAdmits,
         OpenChecks, Compact, WindowCreated, WindowRefused, GiveUp, ChooseChecks, ChooseValidates,
         ChooseApplies, Stop, Complete, AuthorizeChecks, AuthorizeAdmits, Rechecks,
         AuthorizeJudges, AuthorizeGrants, AuthorizeRefuses, CommitChecks, CommitAdmits,
         CommitJudges, CommitRejudges, CommitDispatches, TakeChecks, WorkerCleansUp, Record,
         Released, Sweep, Revocations, Reserve, Release, At

\* The owner of a stage is alone, so nobody is left when it gives the stage up.
LEMMA RelinquishedUnowned ==
    ASSUME TypeOK, Owned, SettledGone, req.id \in OpIds, req.stage \in Stages,
           req.stage \in theOp.stages, mem' = Relinquishing(req.id, req.stage)
    PROVE  Unowned(mem', req.stage) /\ ~Settled(req.stage)
<1>1. \A o \in OpIds : mem'.ops[o].stages =
         IF o = req.id THEN mem.ops[o].stages \ {req.stage} ELSE mem.ops[o].stages
  BY RelinquishedStages DEF TypeOK
<1>2. ASSUME NEW o \in OpIds, req.stage \in mem.ops[o].stages PROVE o = req.id
  <2>1. req.stage \in mem.ops[o].stages \cap mem.ops[req.id].stages
    BY <1>2 DEF theOp
  <2> QED BY <2>1 DEF Owned, OneOwner
<1> QED BY <1>1, <1>2 DEF Unowned, SettledGone, theOp

\* A job about no stage that is given away.
LEMMA NotHandingOver ==
    ASSUME job'.at # "idle", ~Entering', {job'.onSaved, job'.onFailed} \cap {"idle"} = {},
           job'.onFailed # "enter", job'.req.kind \notin {"commit", "take"}
    PROVE  JobsFit' /\ HandsOver'
  BY DEF JobsFit, HandsOver, Handing, HandOffs, At, req

LEMMA AuthorizationOwns ==
    ASSUME IInv, GInv, SInv, JobSteps, req.kind = "authorize", ~Finish,
           UNCHANGED <<queue, running, fate>>
    PROVE  BeginsOwned' /\ AbortsOwned'
<1>0. /\ TypeOK /\ job \in Job /\ MessagesFit /\ BeginsOwned /\ AbortsOwned
      /\ req.id \in OpIds /\ mem \in State
  BY RequestsAreTyped DEF IInv, SInv, TypeOK, ByOperation
<1> DEFINE Goal == BeginsOwned' /\ AbortsOwned'
<1>1. ASSUME JobCarries, ~Heading({"settings", "admit", "recheck", "final", "granted"})' PROVE Goal
  BY <1>1 DEF JobCarries, BeginsOwned, AbortsOwned, Heading, req
<1>2. ASSUME CancelThen(req.id, "refused") PROVE Goal
  BY <1>0, <1>1, <1>2, Cancels DEF Heading
<1>3. ASSUME Go("refused") PROVE Goal
  BY <1>0, <1>1, <1>3, Goes DEF Heading
<1>4. CASE AuthorizeChecks
  <2>1. ASSUME req.purpose = "abort", StageRequirement, Go("granted"), mem' = mem PROVE Goal
    BY <1>0, <2>1, Goes
    DEF JobCarries, BeginsOwned, AbortsOwned, Heading, StageRequirement, req, theOp
  <2>2. ASSUME req.purpose # "abort", ReadSettings PROVE Goal
    BY <1>0, <2>2, Reads DEF JobCarries, BeginsOwned, AbortsOwned, Heading, req
  <2> QED BY <1>2, <1>3, <1>4, <2>1, <2>2 DEF AuthorizeChecks
<1>5. CASE AuthorizeAdmits
  <2>0. req.purpose # "abort" /\ Exists(theOp)
    BY <1>0, <1>5 DEF AuthorizeAdmits, At, AbortsOwned, Heading, IInv, CheckHolds, Checked, Live,
                      Exists
  <2>1. ASSUME req.purpose # "begin", Go("recheck") PROVE Goal
    BY <1>0, <2>0, <2>1, Goes DEF JobCarries, BeginsOwned, AbortsOwned, Heading, req
  <2>2. ASSUME Owners(req.stage) = {}, SaveThen(Registering(req.id, req.stage), "recheck", "done")
        PROVE  Goal
    <3>1. JobCarries /\ job'.at = "save" /\ mem' = Registering(req.id, req.stage)
      BY <1>0, <2>2, Saves
    <3>2. req.stage \in mem'.ops[req.id].stages
      <4>1. \A y \in OpIds : mem'.ops[y].stages =
               IF y = req.id THEN mem.ops[y].stages \cup {req.stage} ELSE mem.ops[y].stages
        BY <1>0, <3>1, RegisteredStages
      <4> QED BY <1>0, <4>1
    <3>3. ASSUME NEW m \in Request, Freed(m), m.kind \in ByOperation, m.stage = req.stage
          PROVE  m.id # req.id
      BY <1>0, <2>0, <2>2, <3>3 DEF Freed, Owners, theOp, Request
    <3>4. ASSUME NEW h \in running, h.purpose = "abort", h.stage = req.stage PROVE h.id # req.id
      <4>1. PICK m \in Request : m = h
        BY <1>0 DEF TypeOK
      <4>2. Freed(m) /\ m.kind \in ByOperation
        BY <1>0, <3>4, <4>1 DEF MessagesFit, IInv, RunningFit, ByOperation
      <4> QED BY <3>3, <3>4, <4>1, <4>2
    <3>5. ASSUME NEW i \in DOMAIN queue, queue[i].kind = "released", queue[i].stage = req.stage
          PROVE  queue[i].id # req.id
      <4>1. PICK m \in Request : m = queue[i]
        BY <1>0 DEF TypeOK
      <4>2. Freed(m) /\ m.kind \in ByOperation
        BY <1>0, <3>5, <4>1 DEF MessagesFit, ByOperation
      <4> QED BY <3>3, <3>5, <4>1, <4>2
    <3>6. BeginsOwned'
      BY <3>1, <3>2, <3>4, <3>5 DEF BeginsOwned, JobCarries, req, theOp
    <3>7. AbortsOwned'
      BY <2>0, <3>1 DEF AbortsOwned, JobCarries, req
    <3> QED BY <3>6, <3>7
  <2> QED BY <1>2, <1>3, <1>5, <2>1, <2>2 DEF AuthorizeAdmits
<1>6. CASE Rechecks
  <2>1. job'.req = job.req /\ job'.at = "final" /\ mem' = mem /\ job.at = "recheck"
    BY <1>0, <1>6 DEF Rechecks, Job
  <2> QED BY <1>0, <2>1 DEF BeginsOwned, AbortsOwned, Heading, req, theOp
<1>7. CASE AuthorizeJudges
  <2>1. ASSUME Go("granted"), mem' = mem, job.at = "final" PROVE Goal
    BY <1>0, <2>1, Goes DEF JobCarries, BeginsOwned, AbortsOwned, Heading, req, theOp
  <2> QED BY <1>2, <1>7, <2>1 DEF AuthorizeJudges, At
<1>8. ~(AuthorizeGrants \/ AuthorizeRefuses)
  BY DEF AuthorizeGrants, AuthorizeRefuses
<1> QED BY <1>4, <1>5, <1>6, <1>7, <1>8, StepsOfKinds

LEMMA HandOffGoesOn ==
    ASSUME IInv, GInv, SInv, JobSteps, HandOffs, ~Finish, UNCHANGED <<queue, running, fate>>
    PROVE  JobsFit' /\ HandsOver'
<1>0. /\ TypeOK /\ job \in Job /\ JobsFit /\ HandsOver /\ SettledGone /\ Owned
      /\ req.id \in OpIds /\ req.stage \in Stages /\ mem \in State /\ job.at # "save"
      /\ UNCHANGED <<disk, spent>>
  BY RequestsAreTyped, JobStepsHold, JobStepsAlone DEF IInv, SInv, TypeOK, HandOffs, ByOperation
<1>1. /\ job'.at # "idle" /\ ~Entering' /\ {job'.onSaved, job'.onFailed} \cap {"idle"} = {}
      /\ job'.onFailed # "enter"
  BY <1>0, JobGoesOn DEF SameRequest
\* The message goes on as it is, over nothing that changes memory.
<1>2. ASSUME JobCarries, mem' = mem, job'.at # "save", job.at # "refused",
             job'.at = "refused" => job.permitted,
             job'.at = "granted" => job.permitted,
             req.kind = "commit" /\ ~job.permitted => OwnedStage(req)
      PROVE  JobsFit' /\ HandsOver'
  <2>1. HandOffs' => HandOffs
    BY <1>2 DEF HandOffs, JobCarries, req
  <2>2. JobsFit'
    BY <1>1, <1>2, <2>1 DEF JobsFit, Entering, At, JobCarries, OwnedStage, Owns, HandOffs, req
  <2>3. HandsOver'
    <3>1. ASSUME Handing' PROVE job.permitted
      BY <1>2, <3>1 DEF Handing, JobCarries
    <3>2. Handing' => /\ ~Settled(req.stage) /\ Unowned(mem, req.stage)
                      /\ Unowned(disk, req.stage) \/ (job.at = "refused" /\ spent["removal-failure"] > 0)
      BY <1>0, <3>1 DEF HandsOver, Handing
    <3> QED BY <1>0, <1>2, <3>2 DEF HandsOver, JobCarries, Settled, Unowned, req
  <2> QED BY <2>2, <2>3
\* Or the stage leaves its operation, and the save is under way.
<1>3. ASSUME job'.req = job.req, mem' = Relinquishing(req.id, req.stage), job'.at = "save",
             job'.onFailed = "refused",
             job'.onSaved = "refused" \/ (job'.onSaved = "recheck" /\ job'.permitted),
             OwnedStage(req) \/ (Unowned(mem, req.stage) /\ ~Settled(req.stage))
      PROVE  JobsFit' /\ HandsOver'
  <2>1. JobsFit'
    BY <1>1, <1>3 DEF JobsFit, Entering, At, HandOffs, req
  <2>2. Unowned(mem', req.stage) /\ ~Settled(req.stage)
    <3>1. CASE OwnedStage(req)
      BY <1>0, <1>3, <3>1, RelinquishedUnowned DEF OwnedStage, theOp
    <3>2. CASE Unowned(mem, req.stage) /\ ~Settled(req.stage)
      BY <1>0, <1>3, <3>2, RelinquishedStages DEF Unowned
    <3> QED BY <1>3, <3>1, <3>2
  <2>3. HandsOver'
    BY <1>0, <1>3, <2>2 DEF HandsOver, Handing, Settled, Unowned, req
  <2> QED BY <2>1, <2>3
<1>4. CASE CommitChecks
  BY <1>0, <1>2, <1>4, Reads DEF CommitChecks, Check, At
<1>5. CASE CommitAdmits
  <2>1. CASE MatchingSettings(theOp)
    BY <1>0, <1>2, <1>5, <2>1, Goes DEF CommitAdmits, JobsFit, At
  <2>2. CASE ~MatchingSettings(theOp)
    <3>1. SaveThen(Relinquishing(req.id, req.stage), "refused", "refused")
      BY <1>5, <2>2 DEF CommitAdmits, RelinquishThen
    <3>2. OwnedStage(req) \/ (Unowned(mem, req.stage) /\ ~Settled(req.stage))
      BY <1>0, <1>5 DEF CommitAdmits, At, JobsFit, HandsOver, Handing, HandOffs
    <3> QED BY <1>0, <1>3, <3>1, <3>2, Saves DEF JobCarries
  <2> QED BY <2>1, <2>2
<1>6. CASE Rechecks
  <2>1. JobCarries /\ job'.at = "final" /\ mem' = mem /\ job.at = "recheck"
    BY <1>0, <1>6 DEF Rechecks, Job, JobCarries
  <2> QED BY <1>0, <1>2, <2>1 DEF JobsFit
<1>7. CASE CommitJudges
  <2>1. /\ job'.req = job.req /\ mem' = Relinquishing(req.id, req.stage) /\ job'.at = "save"
        /\ job'.onFailed = "refused"
        /\ job'.onSaved = "refused" \/ (job'.onSaved = "recheck" /\ job'.permitted)
    <3>1. job' = [job EXCEPT !.at = "save", !.onFailed = "refused",
                             !.permitted = AdmissionStillCurrent,
                             !.onSaved = IF AdmissionStillCurrent THEN "recheck" ELSE "refused"]
      BY <1>7 DEF CommitJudges
    <3>2. PICK yes \in BOOLEAN : yes <=> AdmissionStillCurrent
      OBVIOUS
    <3>3. AdmissionStillCurrent \in BOOLEAN
      BY DEF AdmissionStillCurrent
    <3>4. yes = AdmissionStillCurrent
      BY <3>2, <3>3
    <3> HIDE DEF AdmissionStillCurrent
    <3>5. /\ job'.req = job.req /\ job'.at = "save" /\ job'.onFailed = "refused"
          /\ job'.permitted = yes /\ job'.onSaved = IF yes THEN "recheck" ELSE "refused"
      BY <1>0, <3>1, <3>4 DEF Job
    <3> QED BY <1>7, <3>5 DEF CommitJudges
  <2>2. OwnedStage(req)
    BY <1>0, <1>7 DEF CommitJudges, At, JobsFit
  <2> QED BY <1>3, <2>1, <2>2
<1>8. CASE CommitRejudges
  <2>1. mem' = mem /\ job.permitted /\ job.at = "final" /\ (Go("granted") \/ Go("refused"))
    BY <1>8 DEF CommitRejudges, At
  <2> QED BY <1>0, <1>2, <2>1, Goes
<1>9. CASE TakeChecks
  <2>1. OwnedStage(req) /\ SaveThen(Relinquishing(req.id, req.stage), "refused", "refused")
    BY <1>9 DEF TakeChecks, RelinquishThen
  <2>2. JobCarries
    BY <1>0, <2>1, Saves
  <2> QED BY <1>0, <1>3, <2>1, <2>2, Saves DEF JobCarries
<1>10. ~(CommitDispatches \/ WorkerCleansUp)
  BY DEF CommitDispatches, WorkerCleansUp
<1> QED BY <1>4, <1>5, <1>6, <1>7, <1>8, <1>9, <1>10, StepsOfKinds DEF HandOffs

LEMMA JobFitsOn ==
    ASSUME IInv, GInv, SInv, JobSteps, UNCHANGED <<queue, running, fate>>
    PROVE  JInv'
<1>0. TypeOK /\ JobsFit
  BY DEF IInv, SInv
<1>1. CASE Finish
  BY <1>1, IdleFits
<1>2. CASE ~Finish
  <2>1. /\ job'.at # "idle" /\ job'.req.kind = req.kind /\ ~Entering'
        /\ {job'.onSaved, job'.onFailed} \cap {"idle"} = {} /\ job'.onFailed # "enter"
    BY <1>0, <1>2, JobGoesOn DEF SameRequest
  <2>2. CASE req.kind = "authorize"
    BY <1>2, <2>1, <2>2, AuthorizationOwns, NotHandingOver DEF JInv
  <2>3. CASE HandOffs
    <3>1. BeginsOwned' /\ AbortsOwned'
      BY <2>1, <2>3 DEF BeginsOwned, AbortsOwned, HandOffs, req
    <3> QED BY <1>2, <2>3, <3>1, HandOffGoesOn DEF JInv
  <2>4. CASE req.kind \notin {"authorize", "commit", "take"}
    <3>1. BeginsOwned' /\ AbortsOwned'
      BY <2>1, <2>4 DEF BeginsOwned, AbortsOwned, req
    <3> QED BY <2>1, <2>4, <3>1, NotHandingOver DEF JInv
  <2> QED BY <2>2, <2>3, <2>4 DEF HandOffs
<1> QED BY <1>1, <1>2

-----------------------------------------------------------------------------
(* The messages when one is added.                                         *)

Waits(m) == Sound(m) /\ Opened(m) /\ (m.kind = "released" => Freed(m))
Runs(m) == Sound(m) /\ Opened(m) /\ (m.purpose = "abort" => Freed(m))
Enters == Sound(req) /\ (Entering => Opened(req) /\ (req.kind = "released" => Freed(req)))

LEMMA FitInParts ==
    MessagesFit <=> /\ \A i \in DOMAIN queue : Waits(queue[i])
                    /\ \A h \in running : Runs(h)
                    /\ Enters
  BY DEF MessagesFit, Waits, Runs, Enters

\* What stays with a message is enough for it.
LEMMA StaysWell ==
    ASSUME RunningFit, NEW m \in Request, Stays(m)
    PROVE  /\ Waits(m) => Waits(m)'
           /\ m \in running /\ Runs(m) => Runs(m)'
<1>1. ASSUME Waits(m) PROVE Waits(m)'
  <2>1. m.kind = "released" => m.purpose = "abort" /\ m.kind \in ByOperation
    BY <1>1 DEF Waits, Sound, ByOperation
  <2> QED BY <1>1, <2>1 DEF Waits, Stays
<1>2. ASSUME m \in running, Runs(m) PROVE Runs(m)'
  <2>1. m.kind \in ByOperation
    BY <1>2 DEF RunningFit, ByOperation
  <2> QED BY <1>2, <2>1 DEF Runs, Stays
<1> QED BY <1>1, <1>2

LEMMA FitOn ==
    ASSUME TypeOK, MessagesFit, Enters',
           \A m \in Request : (\E i \in DOMAIN queue : queue[i] = m) /\ Waits(m) => Waits(m)',
           \A m \in Request : m \in running \cap running' /\ Runs(m) => Runs(m)',
           \A i \in DOMAIN queue' : \/ \E j \in DOMAIN queue : queue'[i] = queue[j]
                                    \/ \E n \in Request : queue'[i] = n /\ Waits(n)',
           \A h \in running' : h \in running \/ \E n \in Request : h = n /\ Runs(n)'
    PROVE  MessagesFit'
<1>1. ASSUME NEW i \in DOMAIN queue' PROVE Waits(queue[i])'
  <2>1. PICK n \in Request : queue'[i] = n /\ Waits(n)'
    <3>1. ASSUME NEW j \in DOMAIN queue, queue'[i] = queue[j]
          PROVE  \E n \in Request : queue'[i] = n /\ Waits(n)'
      <4>1. PICK m \in Request : m = queue[j]
        BY DEF TypeOK
      <4>2. Waits(m)
        BY <4>1, FitInParts
      <4> QED BY <3>1, <4>1, <4>2
    <3> QED BY <3>1
  <2> QED BY <2>1 DEF Waits, Sound, Opened, Freed
<1>2. ASSUME NEW h \in running' PROVE Runs(h)'
  <2>1. PICK n \in Request : h = n /\ Runs(n)'
    <3>1. ASSUME h \in running PROVE \E n \in Request : h = n /\ Runs(n)'
      <4>1. PICK m \in Request : m = h
        BY <3>1 DEF TypeOK
      <4>2. Runs(m)
        BY <3>1, <4>1, FitInParts
      <4> QED BY <1>2, <3>1, <4>1, <4>2
    <3> QED BY <1>2, <3>1
  <2> QED BY <2>1 DEF Runs, Sound, Opened, Freed
<1> QED BY <1>1, <1>2 DEF MessagesFit, Waits, Runs, Enters

LEMMA LastOfQueue ==
    ASSUME queue \in Seq(Request), NEW n \in Request, queue' = Append(queue, n)
    PROVE  \A i \in DOMAIN queue' : (\E j \in DOMAIN queue : queue'[i] = queue[j]) \/ queue'[i] = n
  BY Appended

\* The fate of one stage changes and nothing else.
LEMMA OthersStay ==
    ASSUME TypeOK, UNCHANGED <<mem, disk, next, spent>>, NEW s,
           \A x \in Stages \ {s} : fate'[x] = fate[x], NEW m \in Request, m.stage # s
    PROVE  Stays(m)
<1>0. CountsGrow
  BY ParametersAreSane DEF CountsGrow, TypeOK
<1>1. Sound(m) => Sound(m)'
  BY <1>0, SoundStays
<1>2. Opened(m) => Opened(m)'
  BY DEF Opened, Unowned
<1>3. m.purpose = "abort" /\ Freed(m) => Freed(m)'
  BY DEF Freed, Request
<1> QED BY <1>1, <1>2, <1>3 DEF Stays

\* A verdict that ends its job, in what it leaves to the messages.
LEMMA VerdictLeaves ==
    ASSUME TypeOK, SInv, Finish,
           OneAboutAStage', SettledGone', Once',
           \A m \in Request : (\E i \in DOMAIN queue : queue[i] = m) /\ Waits(m) => Waits(m)',
           \A m \in Request : m \in running /\ Runs(m) => Runs(m)',
           \A i \in DOMAIN queue' : \/ \E j \in DOMAIN queue : queue'[i] = queue[j]
                                    \/ \E n \in Request : queue'[i] = n /\ Waits(n)',
           \A h \in running' : h \in running \/ \E n \in Request : h = n /\ Runs(n)'
    PROVE  SInv'
<1>1. Enters' /\ JInv'
  BY IdleFits DEF Enters
<1>2. MessagesFit'
  BY <1>1, FitOn DEF SInv
<1> QED BY <1>1, <1>2 DEF SInv, JInv

LEMMA BeginHandsOver ==
    ASSUME IInv, TInv, SInv, At("granted", "authorize"), req.purpose = "begin", Finish,
           running' = running \cup {req}, fate' = [fate EXCEPT ![req.stage] = "begun"],
           UNCHANGED <<queue, mem, disk, next, spent>>
    PROVE  SInv'
<1>0. /\ TypeOK /\ RunningFit /\ req \in Request /\ req.stage \in Stages /\ req.stage # NoStage
      /\ job'.req.stage = NoStage /\ fate \in [Stages -> Fates]
  BY RequestsAreTyped, IdleFits, ParametersAreSane DEF IInv, TypeOK
<1>1. fate'[req.stage] = "begun" /\ \A x \in Stages \ {req.stage} : fate'[x] = fate[x]
  BY <1>0
<1>2. OneAboutAStage'
  <2>1. OneAbout(queue, running, req)
    BY DEF SInv, OneAboutAStage
  <2>2. (\A i \in DOMAIN queue : Apart(req, queue[i])) /\ (\A h \in running : Apart(req, h))
    BY <2>1 DEF OneAbout
  <2>3. OneAbout(queue, running \cup {req}, job'.req)
    BY <1>0, <2>1, <2>2, OneMoreRuns
  <2> QED BY <2>3 DEF OneAboutAStage, req
<1>3. SettledGone' /\ Once'
  <2>1. ASSUME NEW s \in Stages, Settled(s)' PROVE s # req.stage /\ Settled(s)
    BY <1>1, <2>1 DEF Settled
  <2>2. SettledGone'
    BY <2>1 DEF SInv, SettledGone, Unowned
  <2>3. Once'
    BY <1>1 DEF SInv, Once
  <2> QED BY <2>2, <2>3
<1>4. ASSUME NEW m \in Request, m.stage = req.stage
      PROVE  /\ Sound(m) => Sound(m)'
             /\ Opened(m) => Opened(m)'
             /\ m.kind \in ByOperation /\ m.id # req.id /\ Freed(m) => Freed(m)'
  <2>1. Sound(m) => Sound(m)'
    BY <1>0, <1>1, <1>4 DEF Sound, Settled
  <2>2. Opened(m) => Opened(m)'
    BY DEF Opened, Unowned
  <2>3. ASSUME m.kind \in ByOperation, m.id # req.id, Freed(m) PROVE Freed(m)'
    <3>1. m.id \in OpIds /\ req.id \in OpIds
      BY <1>0, <2>3, RequestsAreTyped DEF Request, At, ByOperation
    <3>2. req.stage \in mem.ops[req.id].stages
      BY DEF SInv, BeginsOwned, Heading, At, theOp
    <3>3. m.stage \notin mem.ops[m.id].stages
      BY <1>4, <2>3, <3>1, <3>2 DEF IInv, Owned, OneOwner
    <3> QED BY <2>3, <3>3 DEF Freed
  <2> QED BY <2>1, <2>2, <2>3
<1>5. ASSUME NEW m \in Request, m.stage # req.stage
      PROVE  (Waits(m) => Waits(m)') /\ (m \in running /\ Runs(m) => Runs(m)')
  BY <1>0, <1>1, <1>5, OthersStay, StaysWell
<1>6. ASSUME NEW m \in Request, NEW i \in DOMAIN queue, queue[i] = m, Waits(m), m.stage = req.stage
      PROVE  Waits(m)'
  <2>1. m.kind = "released" => m.kind \in ByOperation /\ m.id # req.id
    BY <1>6 DEF SInv, BeginsOwned, Heading, At, ByOperation
  <2> QED BY <1>4, <1>6, <2>1 DEF Waits
<1>7. ASSUME NEW m \in Request, m \in running, Runs(m), m.stage = req.stage PROVE Runs(m)'
  <2>1. m.kind \in ByOperation /\ (m.purpose = "abort" => m.id # req.id)
    BY <1>0, <1>7 DEF SInv, BeginsOwned, Heading, At, ByOperation, RunningFit
  <2> QED BY <1>4, <1>7, <2>1 DEF Runs
<1>8. PICK n \in Request : n = req
  BY <1>0
<1>9. Runs(n)'
  BY <1>0, <1>1, <1>8 DEF Runs, Sound, Opened, Settled, At
<1>10. \A h \in running' : h \in running \/ \E x \in Request : h = x /\ Runs(x)'
  BY <1>8, <1>9
<1> QED BY <1>0, <1>2, <1>3, <1>5, <1>6, <1>7, <1>10, VerdictLeaves

LEMMA AbortHandsOver ==
    ASSUME IInv, TInv, NothingUnowned, SInv, At("granted", "authorize"), req.purpose = "abort",
           Finish, running' = running \cup {req},
           fate' = Consume(req.stage, "aborted-by-document"),
           UNCHANGED <<queue, mem, disk, next, spent>>
    PROVE  SInv'
<1>0. /\ TypeOK /\ RunningFit /\ req \in Request /\ req.stage \in Stages /\ req.stage # NoStage
      /\ job'.req.stage = NoStage /\ fate \in [Stages -> Fates] /\ req.id \in OpIds
      /\ spent["removal-failure"] \in Nat
  BY RequestsAreTyped, IdleFits, ParametersAreSane
  DEF IInv, TypeOK, At, ByOperation, Disturbances
<1>1. /\ \A x \in Stages \ {req.stage} : fate'[x] = fate[x]
      /\ fate'[req.stage] = IF fate[req.stage] \in {"unused", "begun", "aborted-by-document"}
                            THEN "aborted-by-document" ELSE "consumed-twice"
  BY <1>0 DEF Consume
<1>2. req.stage \in theOp.stages
  BY DEF SInv, AbortsOwned, At
<1>3. ~Settled(req.stage)
  BY <1>0, <1>2 DEF SInv, SettledGone, Unowned, theOp
<1>4. OneAboutAStage'
  <2>1. OneAbout(queue, running, req)
    BY DEF SInv, OneAboutAStage
  <2>2. (\A i \in DOMAIN queue : Apart(req, queue[i])) /\ (\A h \in running : Apart(req, h))
    BY <2>1 DEF OneAbout
  <2>3. OneAbout(queue, running \cup {req}, job'.req)
    BY <1>0, <2>1, <2>2, OneMoreRuns
  <2> QED BY <2>3 DEF OneAboutAStage, req
<1>5. SettledGone' /\ Once'
  <2>1. ASSUME NEW s \in Stages, Settled(s)' PROVE Settled(s)
    BY <1>1, <2>1 DEF Settled
  <2>2. SettledGone'
    BY <2>1 DEF SInv, SettledGone, Unowned
  <2>3. ASSUME spent["removal-failure"] = 0 PROVE fate'[req.stage] # "consumed-twice"
    BY <1>0, <1>1, <1>3, <2>3 DEF SInv, Once, Settled, Fates
  <2>4. Once'
    BY <1>1, <2>3 DEF SInv, Once
  <2> QED BY <2>2, <2>4
<1>6. ASSUME NEW m \in Request, Apart(req, m) PROVE Stays(m)
  <2>1. CASE m.stage # req.stage
    BY <1>0, <1>1, <2>1, OthersStay
  <2>2. CASE m.stage = req.stage
    <3>1. m.purpose = "begin"
      BY <1>0, <1>6, <2>2 DEF Apart
    <3>2. Sound(m) => Sound(m)'
      BY <1>1, <2>2, <3>1 DEF Sound, Settled
    <3>3. Opened(m)'
      BY <3>1 DEF Opened
    <3> QED BY <3>1, <3>2, <3>3 DEF Stays
  <2> QED BY <2>1, <2>2
<1>7. ASSUME NEW m \in Request
      PROVE  /\ (\E i \in DOMAIN queue : queue[i] = m) /\ Waits(m) => Waits(m)'
             /\ m \in running /\ Runs(m) => Runs(m)'
  BY <1>0, <1>6, StaysWell DEF SInv, OneAboutAStage, OneAbout
<1>8. PICK n \in Request : n = req
  BY <1>0
<1>9. Freed(n)'
  <2>1. n.id \in Nat /\ next.op \in Nat /\ next' = next
    BY <1>0, <1>8, CountersAreNatural DEF OpIds
  <2>2. Exists(mem.ops[n.id])
    BY <1>0, <1>2, <1>8 DEF NothingUnowned, theOp
  <2>3. n.id < next.op
    BY <1>0, <1>8, <2>1, <2>2 DEF TInv, Ahead
  <2> QED BY <1>1, <1>2, <1>8, <2>1, <2>3 DEF Freed, theOp
<1>10. Runs(n)'
  BY <1>0, <1>8, <1>9 DEF Runs, Sound, Opened, At
<1>11. \A h \in running' : h \in running \/ \E x \in Request : h = x /\ Runs(x)'
  BY <1>8, <1>10
<1> QED BY <1>0, <1>4, <1>5, <1>7, <1>11, VerdictLeaves

\* The store opens a stage under a name that nobody has used.
LEMMA OpenHandsOver ==
    ASSUME IInv, TInv, SInv, At("granted", "authorize"), req.purpose = "open", Finish,
           NEW s \in Stages, Fresh(s),
           running' = running \cup {[req EXCEPT !.stage = s]}, fate' = [fate EXCEPT ![s] = "begun"],
           UNCHANGED <<queue, mem, disk, next, spent>>
    PROVE  SInv'
<1>0. /\ TypeOK /\ RunningFit /\ req \in Request /\ s # NoStage
      /\ job'.req.stage = NoStage /\ fate \in [Stages -> Fates]
  BY RequestsAreTyped, IdleFits, ParametersAreSane DEF IInv, TypeOK
<1>1. fate'[s] = "begun" /\ \A x \in Stages \ {s} : fate'[x] = fate[x]
  BY <1>0
<1>2. PICK n : n = [req EXCEPT !.stage = s]
  OBVIOUS
<1>3. n \in Request /\ n.stage = s /\ n.purpose = "open" /\ n.kind = "authorize"
  BY <1>0, <1>2 DEF Request, Message, At
<1>4. (\A i \in DOMAIN queue : queue[i].stage # s) /\ (\A h \in running : h.stage # s)
  BY DEF Fresh, Quiet
<1>5. OneAboutAStage'
  <2>1. OneAbout(queue, running, req)
    BY DEF SInv, OneAboutAStage
  <2>2. (\A i \in DOMAIN queue : Apart(n, queue[i])) /\ (\A h \in running : Apart(n, h))
    BY <1>3, <1>4 DEF Apart
  <2>3. OneAbout(queue, running \cup {n}, job'.req)
    BY <1>0, <2>1, <2>2, OneMoreRuns
  <2> QED BY <1>2, <2>3 DEF OneAboutAStage, req
<1>6. SettledGone' /\ Once'
  <2>1. ASSUME NEW x \in Stages, Settled(x)' PROVE Settled(x)
    BY <1>1, <2>1 DEF Settled
  <2>2. SettledGone'
    BY <2>1 DEF SInv, SettledGone, Unowned
  <2>3. Once'
    BY <1>1 DEF SInv, Once
  <2> QED BY <2>2, <2>3
<1>7. ASSUME NEW m \in Request
      PROVE  /\ (\E i \in DOMAIN queue : queue[i] = m) /\ Waits(m) => Waits(m)'
             /\ m \in running /\ Runs(m) => Runs(m)'
  BY <1>0, <1>1, <1>4, OthersStay, StaysWell
<1>8. Runs(n)'
  <2>1. Unowned(mem, s) /\ Unowned(disk, s)
    BY DEF Fresh, Unowned
  <2> QED BY <1>1, <1>3, <2>1 DEF Runs, Sound, Opened, Unowned
<1>9. \A h \in running' : h \in running \/ \E x \in Request : h = x /\ Runs(x)'
  BY <1>2, <1>3, <1>8
<1> QED BY <1>0, <1>5, <1>6, <1>7, <1>9, VerdictLeaves

LEMMA ForwardHandsOver ==
    ASSUME IInv, TInv, SInv, req.kind = "authorize", req.purpose = "commit", Finish,
           NEW kind \in {"commit", "take"}, Forward(kind),
           UNCHANGED <<running, fate, mem, disk, next, spent>>
    PROVE  SInv'
<1>0. /\ TypeOK /\ RunningFit /\ req \in Request /\ queue \in Seq(Request)
      /\ req.stage \in Stages /\ job'.req.stage = NoStage /\ CountsGrow /\ MessagesFit
      /\ HeldBut(mem, mem', {})
  <2>0. TypeOK
    BY DEF IInv
  <2>1. TypeOK /\ RunningFit /\ queue \in Seq(Request) /\ MessagesFit /\ next.op \in Nat
    BY <2>0, CountersAreNatural DEF IInv, TypeOK, SInv
  <2>2. CountsGrow
    BY <2>1 DEF CountsGrow
  <2>3. HeldBut(mem, mem', {})
    BY SameHeld
  <2> QED BY <2>1, <2>2, <2>3, RequestsAreTyped, IdleFits
<1>1. PICK n : n = [req EXCEPT !.kind = kind, !.epoch = epoch[req.tab], !.revision = revision]
  OBVIOUS
<1>2. n \in Request
  <2>1. epoch[req.tab] \in Nat /\ revision \in Nat /\ req \in Message
    BY <1>0, RequestsAreTyped DEF TypeOK, Request
  <2>2. n \in Message /\ n.route = req.route /\ n.id = req.id /\ n.stage = req.stage
        /\ n.kind = kind /\ n.purpose = req.purpose
    BY <1>1, <2>1 DEF Message, Kinds
  <2>3. req.route # Loading /\ req.id \in OpIds
    BY <1>0, RequestsAreTyped DEF Request, ByOperation
  <2> QED BY <1>0, <2>2, <2>3 DEF Request, ByOperation
<1>3. n.stage = req.stage /\ n.purpose = "commit" /\ n.kind = kind /\ queue' = Append(queue, n)
  BY <1>0, <1>1 DEF Request, Message, Forward
<1>4. \A m \in Request : Stays(m)
  BY <1>0, MessageStaysFit
<1>5. OneAboutAStage'
  <2>1. OneAbout(queue, running, req) /\ OneAbout(queue, running, job'.req)
    BY <1>0, OthersStayApart DEF SInv, OneAboutAStage
  <2>2. (\A i \in DOMAIN queue : Apart(n, queue[i])) /\ (\A h \in running : Apart(n, h))
    BY <1>3, <2>1, AlikeApart DEF OneAbout, Alike
  <2>3. Apart(n, job'.req)
    BY <1>0, <1>3, ParametersAreSane DEF Apart
  <2>4. OneAbout(Append(queue, n), running, job'.req)
    BY <1>0, <1>2, <2>1, <2>2, <2>3, OneMoreWaits
  <2> QED BY <1>3, <2>4 DEF OneAboutAStage, req
<1>6. SettledGone' /\ Once'
  BY <1>0, FatesStay DEF SInv
<1>7. ASSUME NEW m \in Request
      PROVE  /\ (\E i \in DOMAIN queue : queue[i] = m) /\ Waits(m) => Waits(m)'
             /\ m \in running /\ Runs(m) => Runs(m)'
  BY <1>0, <1>4, StaysWell
<1>8. Waits(n)'
  BY <1>0, <1>3 DEF Waits, Sound, Opened, MessagesFit, Settled
<1>9. \A i \in DOMAIN queue' : \/ \E j \in DOMAIN queue : queue'[i] = queue[j]
                               \/ \E x \in Request : queue'[i] = x /\ Waits(x)'
  BY <1>0, <1>2, <1>3, <1>8, LastOfQueue
<1> QED BY <1>0, <1>5, <1>6, <1>7, <1>9, VerdictLeaves

\* The bytes of a stage are given away.
LEMMA ConsumedOnce ==
    ASSUME IInv, TInv, SInv, HandOffs, job.at \in {"granted", "refused"},
           At("granted", "commit") \/ job.at = "refused", Finish,
           NEW how \in {"handed-to-commit", "aborted-by-worker"},
           how = "handed-to-commit" => job.at = "granted",
           fate' = Consume(req.stage, how),
           UNCHANGED <<queue, running, mem, disk, next, spent>>
    PROVE  SInv'
<1>0. /\ TypeOK /\ RunningFit /\ req \in Request /\ req.stage \in Stages /\ req.stage # NoStage
      /\ job'.req.stage = NoStage /\ fate \in [Stages -> Fates] /\ Sound(req)
      /\ spent["removal-failure"] \in Nat
  BY RequestsAreTyped, IdleFits, ParametersAreSane
  DEF IInv, TypeOK, HandOffs, Disturbances, SInv, MessagesFit
<1>1. /\ \A x \in Stages \ {req.stage} : fate'[x] = fate[x]
      /\ fate'[req.stage] = IF fate[req.stage] \in {"unused", "begun"} THEN how
                            ELSE "consumed-twice"
  BY <1>0 DEF Consume
<1>2. /\ ~Settled(req.stage) /\ Unowned(mem, req.stage)
      /\ Unowned(disk, req.stage) \/ (job.at = "refused" /\ spent["removal-failure"] > 0)
  <2>1. Handing
    BY DEF Handing, SInv, JobsFit
  <2> QED BY <2>1 DEF SInv, HandsOver
<1>3. req.purpose = "commit" /\ fate[req.stage] \notin {"unused", "aborted-by-document"}
  BY <1>0 DEF Sound, HandOffs
<1>4. OneAboutAStage'
  <2>1. OneAbout(queue, running, req)
    BY DEF SInv, OneAboutAStage
  <2>2. OneAbout(queue, running, job'.req)
    BY <1>0, <2>1, OthersStayApart
  <2> QED BY <2>2 DEF OneAboutAStage, req
<1>5. SettledGone' /\ Once'
  <2>1. ASSUME NEW s \in Stages, Settled(s)' PROVE Unowned(mem, s) /\ Unowned(disk, s)
    <3>1. CASE s # req.stage
      BY <1>1, <2>1, <3>1 DEF Settled, SInv, SettledGone
    <3>2. CASE s = req.stage
      BY <1>0, <1>1, <1>2, <2>1, <3>2 DEF Settled
    <3> QED BY <3>1, <3>2
  <2>2. SettledGone'
    BY <2>1 DEF SettledGone, Unowned
  <2>3. ASSUME spent["removal-failure"] = 0 PROVE fate'[req.stage] # "consumed-twice"
    BY <1>0, <1>1, <1>2, <1>3, <2>3 DEF SInv, Once, Settled, Fates
  <2>4. Once'
    BY <1>1, <2>3 DEF SInv, Once
  <2> QED BY <2>2, <2>4
<1>6. ASSUME NEW m \in Request, Apart(req, m) PROVE Stays(m)
  <2>1. m.stage # req.stage
    BY <1>0, <1>3, <1>6 DEF Apart
  <2> QED BY <1>0, <1>1, <2>1, OthersStay
<1>7. ASSUME NEW m \in Request
      PROVE  /\ (\E i \in DOMAIN queue : queue[i] = m) /\ Waits(m) => Waits(m)'
             /\ m \in running /\ Runs(m) => Runs(m)'
  BY <1>0, <1>6, StaysWell DEF SInv, OneAboutAStage, OneAbout
<1> QED BY <1>0, <1>4, <1>5, <1>7, VerdictLeaves

LEMMA HandoversKeep ==
    ASSUME IInv, TInv, NothingUnowned, GInv, SInv, Handovers
    PROVE  SInv'
<1>0. Finish /\ UNCHANGED <<mem, disk, next, spent>>
  BY DEF Handovers, AuthorizeGrants, AuthorizeRefuses, CommitDispatches, WorkerCleansUp, Outside,
         browser
<1>1. ASSUME UNCHANGED <<queue, running, fate>> PROVE SInv'
  <2>1. TypeOK /\ CountsGrow /\ RunningFit
    BY <1>0, ParametersAreSane DEF CountsGrow, IInv, TypeOK
  <2>0. HeldBut(mem, mem', {})
    BY <1>0, SameHeld
  <2>2. \A m \in Request : Stays(m)
    BY <1>0, <1>1, <2>0, <2>1, MessageStaysFit
  <2>3. OneAboutAStage' /\ MessagesFit'
    BY <1>0, <1>1, <2>1, <2>2, IdleFits, MessagesStay DEF SInv, SameRequest
  <2>4. SettledGone' /\ Once'
    BY <1>0, <1>1, <2>0, <2>1, FatesStay DEF SInv
  <2>5. JInv'
    BY <1>0, IdleFits
  <2> QED BY <2>3, <2>4, <2>5 DEF SInv, JInv
<1>2. CASE AuthorizeGrants
  <2>1. At("granted", "authorize")
    BY <1>2 DEF AuthorizeGrants
  <2>2. CASE req.purpose = "begin"
    BY <1>0, <1>2, <2>1, <2>2, BeginHandsOver DEF AuthorizeGrants
  <2>3. CASE req.purpose = "abort"
    BY <1>0, <1>2, <2>1, <2>3, AbortHandsOver DEF AuthorizeGrants
  <2>4. CASE req.purpose = "open"
    BY <1>0, <1>2, <2>1, <2>4, OpenHandsOver DEF AuthorizeGrants
  <2>5. CASE req.purpose = "commit"
    BY <1>0, <1>2, <2>1, <2>5, ForwardHandsOver DEF AuthorizeGrants, At
  <2>6. CASE req.purpose \in {"prepare", "persist", "use"}
    BY <1>0, <1>1, <1>2, <2>1, <2>6 DEF AuthorizeGrants
  <2> QED BY <1>2, <2>2, <2>3, <2>4, <2>5, <2>6 DEF AuthorizeGrants
<1>3. CASE AuthorizeRefuses
  BY <1>0, <1>1, <1>3, ForwardHandsOver DEF AuthorizeRefuses, At, history
<1>4. CASE CommitDispatches
  BY <1>0, <1>4, ConsumedOnce DEF CommitDispatches, At, HandOffs, Outside, volatile
<1>5. CASE WorkerCleansUp
  BY <1>0, <1>5, ConsumedOnce DEF WorkerCleansUp, HandOffs, Outside, volatile
<1> QED BY <1>2, <1>3, <1>4, <1>5 DEF Handovers

LEMMA JobStepsOwn ==
    ASSUME IInv, TInv, NothingUnowned, GInv, SInv, JobSteps
    PROVE  SInv'
<1>1. CASE Handovers
  BY <1>1, HandoversKeep
<1>2. CASE UNCHANGED <<queue, running, fate>>
  BY <1>2, JobLeavesMessages, JobFitsOn DEF SInv, JInv
<1> QED BY <1>1, <1>2, JobStepsAlone

-----------------------------------------------------------------------------
(* The lock, the storage and the loss of the worker.                       *)

LEMMA AcquireHeld == ASSUME IInv, Acquire PROVE HeldBut(mem, mem', {})
<1>0. mem \in State /\ NoOperation.stages = {} /\ ~Exists(NoOperation)
  BY DEF IInv, TypeOK, NoOperation, Exists
<1>1. ASSUME NEW o \in OpIds
      PROVE  LET z == Pruned(mem).ops[o] IN
             z = NoOperation \/ (z.stages = mem.ops[o].stages /\ (Exists(z) => Exists(mem.ops[o])))
  <2>1. Pruned(mem).ops[o] = IF <<"grace", o>> \in elapsed THEN NoOperation
                             ELSE IF <<"operation", o>> \in elapsed /\ Live(mem.ops[o])
                                  THEN [mem.ops[o] EXCEPT !.phase = "cancelled"]
                                  ELSE mem.ops[o]
    BY DEF Pruned
  <2>2. [mem.ops[o] EXCEPT !.phase = "cancelled"].stages = mem.ops[o].stages
    BY <1>0 DEF State, Operation
  <2>3. Live(mem.ops[o]) => Exists(mem.ops[o])
    BY DEF Live, Exists
  <2> QED BY <2>1, <2>2, <2>3
<1>2. Pruned(mem) \in State
  BY <1>0, PrunedWeaker DEF Weaker, GrantsKept
<1>3. \A o \in OpIds : Recovered(Pruned(mem)).ops[o] \in {Pruned(mem).ops[o], NoOperation}
  BY <1>2, RecoveredKeeps
<1>4. mem' = Pruned(mem) \/ mem' = Recovered(Pruned(mem))
  BY DEF Acquire
<1>5. ASSUME NEW o \in OpIds
      PROVE  mem'.ops[o] = NoOperation
             \/ (/\ mem'.ops[o].stages = mem.ops[o].stages
                 /\ Exists(mem'.ops[o]) => Exists(mem.ops[o]))
  BY <1>1, <1>3, <1>4
<1> QED BY <1>0, <1>5 DEF HeldBut

\* A job that has just taken the lock.
LEMMA TakenFits ==
    ASSUME job'.at = "enter" \/ (job'.at = "save" /\ job'.onSaved = "enter"),
           ~job'.permitted, job'.onFailed = "done", job'.onSaved \in {"enter", "done"}
    PROVE  JInv'
  BY DEF JInv, BeginsOwned, AbortsOwned, JobsFit, HandsOver, Handing, HandOffs, Heading, At,
         Entering, req

LEMMA AcquireOwns == ASSUME IInv, TInv, GInv, SInv, Acquire PROVE SInv'
<1>0. /\ TypeOK /\ MessagesFit /\ CountsGrow /\ RunningFit
      /\ UNCHANGED <<disk, fate, running, spent>> /\ queue \in Seq(Request) /\ queue # <<>>
      /\ queue' = Tail(queue)
  <2>0. TypeOK
    BY DEF IInv
  <2>1. TypeOK /\ MessagesFit /\ RunningFit /\ queue \in Seq(Request) /\ next.op \in Nat
    BY <2>0, CountersAreNatural DEF IInv, TypeOK, SInv
  <2>2. /\ UNCHANGED <<disk, fate, running, spent, next>> /\ queue # <<>>
        /\ queue' = Tail(queue)
    BY DEF Acquire, history
  <2> QED BY <2>1, <2>2 DEF CountsGrow
<1>1. PICK n \in Request : n = Head(queue)
  BY <1>0
<1>2. /\ 1 \in DOMAIN queue /\ n = queue[1]
      /\ \A i \in DOMAIN queue' : i + 1 \in DOMAIN queue /\ queue'[i] = queue[i + 1]
  BY <1>0, <1>1
<1>3. /\ job'.req = n /\ ~job'.permitted /\ job'.onFailed = "done"
      /\ job'.onSaved \in {"enter", "done"}
      /\ job'.at = "enter" \/ (job'.at = "save" /\ job'.onSaved = "enter")
  BY <1>1 DEF Acquire, NoJob
<1>4. ASSUME NEW m \in Request
      PROVE  (Waits(m) => Waits(m)') /\ (m \in running /\ Runs(m) => Runs(m)')
  <2>1. Stays(m)
    BY <1>0, AcquireHeld, MessageStaysFit
  <2> QED BY <1>0, <2>1, StaysWell
<1>5. OneAboutAStage'
  <2>1. OneAbout(Tail(queue), running, Head(queue))
    BY <1>0, OneIsTaken DEF SInv, OneAboutAStage
  <2> QED BY <1>0, <1>1, <1>3, <2>1 DEF OneAboutAStage, req
<1>6. Enters'
  <2>1. Waits(n)
    BY <1>0, <1>2, FitInParts
  <2>2. Waits(n)'
    BY <1>4, <2>1
  <2> QED BY <1>3, <2>2 DEF Waits, Enters, Sound, Opened, Freed, req
<1>7. MessagesFit'
  BY <1>0, <1>2, <1>4, <1>6, FitOn
<1>8. SettledGone' /\ Once'
  BY <1>0, AcquireHeld, FatesStay DEF SInv
<1>9. JInv'
  BY <1>3, TakenFits
<1> QED BY <1>5, <1>7, <1>8, <1>9 DEF SInv, JInv

\* A save ends: the job goes on, or it is over.
LEMMA AfterSave ==
    ASSUME IInv, GInv, JobsFit, job.at = "save", NEW step, Go(step),
           step \in {job.onSaved, job.onFailed}
    PROVE  \/ Finish
           \/ /\ JobCarries /\ job'.at = step /\ UNCHANGED <<job.onSaved, job.onFailed>>
              /\ step \notin {"idle", "settings", "admit", "save", "final", "granted"}
<1>1. job \in Job
  BY DEF IInv, TypeOK
<1>2. step \notin {"idle", "settings", "admit", "save", "final", "granted"}
  BY DEF JobsFit, IInv, StepsFit, GInv, VerdictsAreJudged
<1>3. CASE step = "done"
  BY <1>3 DEF Go
<1>4. CASE step # "done"
  BY <1>1, <1>2, <1>4, Goes
<1> QED BY <1>3, <1>4

LEMMA SavedOwns == ASSUME IInv, TInv, GInv, SInv, Saved PROVE SInv'
<1>0. /\ TypeOK /\ RunningFit /\ JobsFit /\ MessagesFit
      /\ disk' = mem /\ UNCHANGED <<mem, queue, running, fate, spent, next>>
      /\ job.at = "save" /\ Go(job.onSaved)
  BY DEF IInv, SInv, Saved, volatile, history
<1>1. \/ Finish
      \/ /\ JobCarries /\ job'.at = job.onSaved /\ UNCHANGED <<job.onSaved, job.onFailed>>
         /\ job.onSaved \notin {"idle", "settings", "admit", "save", "final", "granted"}
  BY <1>0, AfterSave
<1>2. OneAboutAStage'
  <2>1. OneAbout(queue, running, job'.req)
    BY <1>1, IdleFits, OthersStayApart DEF SInv, OneAboutAStage, JobCarries, Alike, req
  <2> QED BY <1>0, <2>1 DEF OneAboutAStage, req
<1>3. SettledGone' /\ Once'
  BY <1>0 DEF SInv, SettledGone, Once, Settled, Unowned
<1>4. ASSUME NEW m \in Request PROVE Stays(m)
  BY <1>0 DEF Stays, Sound, Settled, Opened, Unowned, Freed
<1>5. Enters'
  <2>1. CASE Finish
    BY <2>1, IdleFits DEF Enters
  <2>2. CASE ~Finish
    <3>1. PICK m \in Request : m = req
      BY <1>0, RequestsAreTyped
    <3>2. Stays(m) /\ Sound(m) /\ req' = m
      BY <1>0, <1>1, <1>4, <2>2, <3>1 DEF JobCarries, MessagesFit, req
    <3>3. Entering' => Entering
      BY <1>0, <1>1, <2>2 DEF Entering
    <3>4. Entering => Opened(m) /\ (m.kind = "released" => Freed(m))
      BY <1>0, <3>1 DEF MessagesFit
    <3>5. m.kind = "released" => m.purpose = "abort" /\ m.kind \in ByOperation
      BY <3>2 DEF Sound, ByOperation
    <3>6. Sound(m)' /\ (Entering' => Opened(m)' /\ (m.kind = "released" => Freed(m)'))
      BY <3>2, <3>3, <3>4, <3>5 DEF Stays
    <3> QED BY <3>2, <3>6 DEF Enters, Sound, Opened, Freed
  <2> QED BY <2>1, <2>2
<1>6. MessagesFit'
  BY <1>0, <1>4, <1>5, StaysWell, FitOn
<1>7. JInv'
  <2>1. CASE Finish
    BY <2>1, IdleFits
  <2>2. CASE ~Finish
    <3>0. /\ job'.req = job.req /\ job'.permitted = job.permitted /\ job'.at = job.onSaved
          /\ job'.onSaved = job.onSaved /\ job'.onFailed = job.onFailed
          /\ job.onSaved \notin {"idle", "settings", "admit", "save", "final", "granted"}
      BY <1>1, <2>2 DEF JobCarries
    <3>1. BeginsOwned' /\ AbortsOwned'
      BY <1>0, <3>0 DEF SInv, BeginsOwned, AbortsOwned, Heading, req, theOp
    <3>2. JobsFit'
      BY <1>0, <3>0 DEF JobsFit, Entering, HandOffs, At, req
    <3>3. Handing' => Handing
      BY <1>0, <3>0 DEF JobsFit, Handing, HandOffs, req
    <3>4. HandsOver'
      BY <1>0, <3>0, <3>3 DEF SInv, HandsOver, Settled, Unowned, req
    <3> QED BY <3>1, <3>2, <3>4 DEF JInv
  <2> QED BY <2>1, <2>2
<1> QED BY <1>2, <1>3, <1>6, <1>7 DEF SInv, JInv

LEMMA EmptyHolds ==
    \A o \in OpIds : EmptyState.ops[o].stages = {} /\ ~Exists(EmptyState.ops[o])
  BY DEF EmptyState, NoOperation, Exists

LEMMA SaveFailedOwns == ASSUME IInv, TInv, GInv, SInv, SaveFailed PROVE SInv'
<1>0. /\ TypeOK /\ RunningFit /\ JobsFit /\ MessagesFit
      /\ mem' = EmptyState /\ UNCHANGED <<queue, running, fate, next>>
      /\ job.at = "save" /\ Go(job.onFailed)
  BY DEF IInv, SInv, SaveFailed, AfterRefusedSave, volatile, history
<1>1. \/ disk' = EmptyState /\ spent'["removal-failure"] = spent["removal-failure"]
      \/ disk' = disk /\ spent'["removal-failure"] = spent["removal-failure"] + 1
  <2>1. spent \in [Disturbances -> Nat]
    BY <1>0 DEF TypeOK
  <2> QED BY <2>1 DEF SaveFailed, Spend, Disturbances
<1>2. CountsGrow /\ spent["removal-failure"] \in Nat
  <2>1. next.op \in Nat /\ spent["removal-failure"] \in Nat
    BY <1>0, CountersAreNatural
  <2> QED BY <1>0, <1>1, <2>1 DEF CountsGrow
<1>3. \/ Finish
      \/ /\ JobCarries /\ job'.at = job.onFailed /\ UNCHANGED <<job.onSaved, job.onFailed>>
         /\ job.onFailed \notin {"idle", "settings", "admit", "save", "final", "granted"}
  BY <1>0, AfterSave
<1>4. HeldBut(mem, mem', {})
  BY <1>0, EmptyHolds DEF HeldBut
<1>5. \A s : Unowned(mem', s) /\ (Unowned(disk, s) => Unowned(disk', s))
  BY <1>0, <1>1, EmptyHolds DEF Unowned
<1>6. OneAboutAStage'
  <2>1. OneAbout(queue, running, job'.req)
    BY <1>3, IdleFits, OthersStayApart DEF SInv, OneAboutAStage, JobCarries, Alike, req
  <2> QED BY <1>0, <2>1 DEF OneAboutAStage, req
<1>7. SettledGone' /\ Once'
  <2>1. ASSUME NEW s \in Stages, Settled(s)' PROVE Settled(s)
    BY <1>0, <1>2, <2>1 DEF Settled, CountsGrow
  <2>2. SettledGone'
    BY <1>5, <2>1 DEF SInv, SettledGone, Unowned
  <2>3. Once'
    BY <1>0, <1>2 DEF SInv, Once, CountsGrow
  <2> QED BY <2>2, <2>3
<1>8. ASSUME NEW m \in Request PROVE Stays(m)
  <2>1. Sound(m) => Sound(m)'
    BY <1>0, <1>2, SoundStays
  <2>2. Opened(m) => Opened(m)'
    BY <1>5 DEF Opened, Unowned
  <2>3. m.kind \in ByOperation /\ Freed(m) => Freed(m)'
    BY <1>0, <1>2, <1>4, FreedStays
  <2> QED BY <2>1, <2>2, <2>3 DEF Stays
<1>9. Enters'
  <2>1. CASE Finish
    BY <2>1, IdleFits DEF Enters
  <2>2. CASE ~Finish
    <3>1. PICK m \in Request : m = req
      BY <1>0, RequestsAreTyped
    <3>2. Sound(m)' /\ req' = m
      BY <1>0, <1>3, <1>8, <2>2, <3>1 DEF JobCarries, MessagesFit, Stays, req
    <3>3. ~Entering'
      BY <1>0, <1>3, <2>2 DEF Entering, JobsFit
    <3> QED BY <3>2, <3>3 DEF Enters, Sound
  <2> QED BY <2>1, <2>2
<1>10. MessagesFit'
  BY <1>0, <1>8, <1>9, StaysWell, FitOn
<1>11. JInv'
  <2>1. CASE Finish
    BY <2>1, IdleFits
  <2>2. CASE ~Finish
    <3>0. /\ job'.req = job.req /\ job'.permitted = job.permitted /\ job'.at = job.onFailed
          /\ job'.onSaved = job.onSaved /\ job'.onFailed = job.onFailed
          /\ job.onFailed \notin {"idle", "settings", "admit", "save", "final", "granted", "recheck"}
      BY <1>3, <2>2 DEF JobCarries, GInv, VerdictsAreJudged
    <3>1. BeginsOwned' /\ AbortsOwned'
      BY <3>0 DEF BeginsOwned, AbortsOwned, Heading, req
    <3>2. JobsFit'
      BY <1>0, <3>0 DEF JobsFit, Entering, HandOffs, At, req
    <3>3. ASSUME Handing' PROVE Handing /\ job'.at = "refused"
      <4>1. job.onFailed = "done" => Finish
        BY <1>0 DEF Go
      <4> QED BY <1>0, <2>2, <3>0, <3>3, <4>1 DEF JobsFit, Handing, HandOffs, req
    <3>4. ASSUME Handing' PROVE ~Settled(req.stage)'
      <4>1. ~Settled(req.stage)
        BY <3>3, <3>4 DEF SInv, HandsOver
      <4> QED BY <1>0, <1>2, <3>0, <4>1 DEF Settled, CountsGrow, req
    <3>5. disk' = EmptyState => \A s : Unowned(disk', s)
      BY EmptyHolds DEF Unowned
    <3>6. HandsOver'
      BY <1>1, <1>2, <1>5, <3>3, <3>4, <3>5 DEF HandsOver, Unowned, req
    <3> QED BY <3>1, <3>2, <3>6 DEF JInv
  <2> QED BY <2>1, <2>2
<1> QED BY <1>6, <1>7, <1>10, <1>11 DEF SInv, JInv

LEMMA RestartsOwn == ASSUME IInv, TInv, GInv, SInv, Restarts PROVE SInv'
<1>0. /\ mem' = Hydrate(disk) /\ Finish /\ queue' = <<>> /\ running' = {}
      /\ UNCHANGED <<disk, fate, next>>
      /\ spent'["removal-failure"] = spent["removal-failure"]
  <2>1. spent \in [Disturbances -> Nat]
    BY DEF IInv, TypeOK
  <2> QED BY <2>1 DEF Restarts, Spend, Finish, Disturbances, history
<1>1. DOMAIN <<>> = {}
  OBVIOUS
<1>2. OneAboutAStage'
  BY <1>0, <1>1 DEF OneAboutAStage, OneAbout
<1>3. MessagesFit'
  BY <1>0, <1>1, IdleFits DEF MessagesFit
<1>4. SettledGone' /\ Once'
  <2>1. \A s : Unowned(disk, s) => Unowned(mem', s)
    BY <1>0, EmptyHolds DEF Hydrate, Unowned
  <2> QED BY <1>0, <2>1 DEF SInv, SettledGone, Once, Settled, Unowned
<1> QED BY <1>0, <1>2, <1>3, <1>4, IdleFits DEF SInv, JInv

LEMMA SettingsArriveOwns == ASSUME IInv, TInv, GInv, SInv, SettingsArrive PROVE SInv'
<1>0. /\ TypeOK /\ RunningFit /\ JobsFit /\ MessagesFit /\ job \in Job /\ job.at = "settings"
      /\ UNCHANGED <<mem, disk, queue, running, fate, spent, next>> /\ next.op \in Nat
  <2>1. TypeOK /\ RunningFit /\ JobsFit /\ MessagesFit
    BY DEF IInv, SInv
  <2>2. job \in Job /\ next.op \in Nat
    BY <2>1, CountersAreNatural DEF TypeOK
  <2>3. job.at = "settings" /\ UNCHANGED <<mem, disk, queue, running, fate, spent, next>>
    BY DEF SettingsArrive, Outside, browser, volatile, history
  <2> QED BY <2>1, <2>2, <2>3
<1>1. /\ job'.req = job.req /\ job'.permitted = job.permitted /\ job'.at = "admit"
      /\ job'.onSaved = job.onSaved /\ job'.onFailed = job.onFailed
  BY <1>0 DEF SettingsArrive, Job
<1>2. SameRequest /\ ~Entering' /\ CountsGrow
  BY <1>0, <1>1 DEF SameRequest, Entering, CountsGrow, req
<1>3. HeldBut(mem, mem', {})
  BY <1>0, SameHeld
<1>4. \A m \in Request : Stays(m)
  BY <1>0, <1>2, <1>3, MessageStaysFit
<1>5. OneAboutAStage' /\ MessagesFit'
  BY <1>0, <1>2, <1>4, MessagesStay DEF SInv
<1>6. SettledGone' /\ Once'
  BY <1>0, <1>2, <1>3, FatesStay DEF SInv
<1>7. BeginsOwned' /\ AbortsOwned'
  BY <1>0, <1>1 DEF SInv, BeginsOwned, AbortsOwned, Heading, req
<1>8. JobsFit'
  BY <1>0, <1>1 DEF JobsFit, Entering, HandOffs, At, OwnedStage, Owns, req
<1>9. HandsOver'
  BY <1>0, <1>1 DEF SInv, HandsOver, Handing, HandOffs, Settled, Unowned, req
<1> QED BY <1>5, <1>6, <1>7, <1>8, <1>9 DEF SInv

-----------------------------------------------------------------------------
(* The messages that arrive.                                               *)

AboutNoStage(r) == r.stage = NoStage /\ r.kind \notin {"commit", "take", "record", "released"}

\* A document asks for the stages that nobody has used, or that are quiet.
AsksAbout(r) ==
    /\ r.kind = "authorize" /\ r.purpose \in {"begin", "use", "commit", "abort"} /\ r.stage \in Stages
    /\ IF r.purpose = "begin" THEN fate[r.stage] = "unused"
       ELSE (fate[r.stage] # "unused" \/ r.purpose = "abort") /\ Quiet(r.stage)
    /\ r.purpose = "commit" => fate[r.stage] # "aborted-by-document"

LEMMA SentAbout ==
    ASSUME TypeOK, Requests PROVE \E r : Send(r) /\ (AboutNoStage(r) \/ AsksAbout(r))
<1>0. \A kind \in {"start", "unstart", "claim", "offer", "complete", "popup", "choose", "stop",
                  "reserve", "release", "authorize"} :
         kind \in Kinds /\ kind \notin {"commit", "take", "record", "released"}
  BY DEF Kinds
<1>1. \A kind \in Kinds : Ask(kind) \in Message /\ Ask(kind).kind = kind /\ Ask(kind).stage = NoStage
  BY AskTyped DEF Ask
<1>2. ASSUME NEW kind \in Kinds, NEW t \in OpenTabs
      PROVE  /\ From(t, kind) \in Message /\ From(t, kind).kind = kind
             /\ From(t, kind).stage = NoStage
  <2> DEFINE a == Ask(kind)
  <2>1. a \in Message /\ a.kind = kind /\ a.stage = NoStage /\ From(t, kind) \in Message
    BY <1>1, EpochsOfRequests
  <2>2. From(t, kind) = [a EXCEPT !.tab = t, !.route = tabs[t].route, !.doc = tabs[t].doc,
                                  !.epoch = epoch[t], !.revision = revision]
    BY DEF From
  <2> HIDE DEF a
  <2> QED BY <2>1, <2>2 DEF Message
<1>3. CASE UserStarts
  <2>1. PICK t \in OpenTabs, m \in Modes, u \in {0} \cup windows :
          Send([Ask("start") EXCEPT !.tab = t, !.route = tabs[t].route, !.mode = m, !.ui = u])
    BY <1>3 DEF UserStarts
  <2>2. AboutNoStage([Ask("start") EXCEPT !.tab = t, !.route = tabs[t].route, !.mode = m, !.ui = u])
    BY <1>0, <1>1 DEF AboutNoStage, Message
  <2> QED BY <2>1, <2>2
<1>4. CASE InvitationFails
  <2>1. PICK i \in Intents(mem) : Send([Ask("unstart") EXCEPT !.id = i])
    BY <1>4 DEF InvitationFails
  <2>2. AboutNoStage([Ask("unstart") EXCEPT !.id = i])
    BY <1>0, <1>1 DEF AboutNoStage, Message
  <2> QED BY <2>1, <2>2
<1>5. CASE DocumentClaims
  <2>1. PICK t \in OpenTabs, i \in Intents(mem) : Send([From(t, "claim") EXCEPT !.id = i])
    BY <1>5 DEF DocumentClaims
  <2>2. AboutNoStage([From(t, "claim") EXCEPT !.id = i])
    BY <1>0, <1>2 DEF AboutNoStage, Message
  <2> QED BY <2>1, <2>2
<1>6. CASE DocumentReports
  <2>1. PICK t \in OpenTabs, o \in Operations(mem), kind \in {"offer", "complete"} :
          Send([From(t, kind) EXCEPT !.id = o])
    BY <1>6 DEF DocumentReports
  <2>2. AboutNoStage([From(t, kind) EXCEPT !.id = o])
    BY <1>0, <1>2 DEF AboutNoStage, Message
  <2> QED BY <2>1, <2>2
<1>7. CASE DocumentOpensPopup
  <2>1. PICK t \in OpenTabs : Send(From(t, "popup"))
    BY <1>7 DEF DocumentOpensPopup
  <2>2. AboutNoStage(From(t, "popup"))
    BY <1>0, <1>2 DEF AboutNoStage
  <2> QED BY <2>1, <2>2
<1>8. CASE UserDecides
  <2>1. PICK o \in Operations(mem), u \in {0} \cup windows, kind \in {"choose", "stop"} :
          Send([Ask(kind) EXCEPT !.id = o, !.ui = u])
    BY <1>8 DEF UserDecides
  <2>2. AboutNoStage([Ask(kind) EXCEPT !.id = o, !.ui = u])
    BY <1>0, <1>1 DEF AboutNoStage, Message
  <2> QED BY <2>1, <2>2
<1>9. CASE PreviewReserves
  <2>1. PICK t \in Tabs, kind \in {"reserve", "release"} : Send([Ask(kind) EXCEPT !.tab = t])
    BY <1>9 DEF PreviewReserves
  <2>2. AboutNoStage([Ask(kind) EXCEPT !.tab = t])
    BY <1>0, <1>1 DEF AboutNoStage, Message
  <2> QED BY <2>1, <2>2
<1>10. CASE DocumentWorks
  <2>1. PICK t \in OpenTabs, o \in Operations(mem), p \in {"prepare", "persist", "open"} :
          Send([From(t, "authorize") EXCEPT !.id = o, !.purpose = p])
    BY <1>10 DEF DocumentWorks
  <2>2. AboutNoStage([From(t, "authorize") EXCEPT !.id = o, !.purpose = p])
    BY <1>0, <1>2 DEF AboutNoStage, Message
  <2> QED BY <2>1, <2>2
<1>11. CASE DocumentStages
  <2>1. PICK t \in OpenTabs, o \in Operations(mem), s \in Stages,
             p \in {"begin", "use", "commit", "abort"} :
          /\ IF p = "begin" THEN fate[s] = "unused"
             ELSE (fate[s] # "unused" \/ p = "abort") /\ Quiet(s)
          /\ p = "commit" => fate[s] # "aborted-by-document"
          /\ Send([From(t, "authorize") EXCEPT !.id = o, !.purpose = p, !.stage = s])
    BY <1>11 DEF DocumentStages
  <2> DEFINE r == [From(t, "authorize") EXCEPT !.id = o, !.purpose = p, !.stage = s]
  <2>2. r.kind = "authorize" /\ r.purpose = p /\ r.stage = s
    BY <1>0, <1>2 DEF Message
  <2> HIDE DEF r
  <2>3. AsksAbout(r)
    BY <2>1, <2>2 DEF AsksAbout
  <2> QED BY <2>1, <2>3 DEF r
<1> QED BY <1>3, <1>4, <1>5, <1>6, <1>7, <1>8, <1>9, <1>10, <1>11 DEF Requests

\* The environment leaves the job, the records and the fate of its stage.
LEMMA WorldLeaves ==
    ASSUME TypeOK, SInv, UNCHANGED <<job, mem, disk, next>>,
           spent'["removal-failure"] = spent["removal-failure"],
           OneAboutAStage', SettledGone', Once',
           req.stage \in Stages => fate'[req.stage] = fate[req.stage],
           \A m \in Request : (\E i \in DOMAIN queue : queue[i] = m) /\ Waits(m) => Waits(m)',
           \A m \in Request : m \in running \cap running' /\ Runs(m) => Runs(m)',
           \A i \in DOMAIN queue' : \/ \E j \in DOMAIN queue : queue'[i] = queue[j]
                                    \/ \E n \in Request : queue'[i] = n /\ Waits(n)',
           running' \subseteq running,
           \A i \in DOMAIN queue' :
               queue'[i].kind = "released" =>
                   \/ \E j \in DOMAIN queue : queue'[i] = queue[j]
                   \/ \E h \in running : /\ h.purpose = "abort" /\ h.stage = queue'[i].stage
                                         /\ h.id = queue'[i].id
    PROVE  SInv'
<1>1. Enters'
  <2>1. PICK m \in Request : m = req
    BY RequestsAreTyped
  <2>2. req' = m /\ (m.stage \in Stages => fate'[m.stage] = fate[m.stage]) /\ (Entering' <=> Entering)
    BY <2>1 DEF req, Entering
  <2>3. Sound(m) /\ (Entering => Opened(m) /\ (m.kind = "released" => Freed(m)))
    BY <2>1 DEF SInv, MessagesFit
  <2>4. Sound(m)'
    BY <2>2, <2>3 DEF Sound, Settled
  <2>5. Opened(m) => Opened(m)'
    BY DEF Opened, Unowned
  <2>6. m.kind = "released" /\ Freed(m) => Freed(m)'
    BY <2>2 DEF Freed, Request
  <2> QED BY <2>2, <2>3, <2>4, <2>5, <2>6 DEF Enters, Sound, Opened, Freed
<1>2. MessagesFit'
  BY <1>1, FitOn DEF SInv
<1>3. BeginsOwned' /\ AbortsOwned'
  BY DEF SInv, BeginsOwned, AbortsOwned, Heading, req, theOp
<1>4. JobsFit'
  BY DEF SInv, JobsFit, Entering, HandOffs, At, OwnedStage, Owns, req
<1>5. HandsOver'
  <2>1. Handing' => Handing
    BY DEF Handing, HandOffs, req
  <2>2. Handing => req.stage \in Stages
    BY RequestsAreTyped DEF Handing, HandOffs
  <2> QED BY <2>1, <2>2 DEF SInv, HandsOver, Settled, Unowned, req
<1> QED BY <1>2, <1>3, <1>4, <1>5 DEF SInv

\* Nothing but the queue changes, and the message that came is one of those two.
LEMMA ArrivalOwns ==
    ASSUME TypeOK, RunningFit, SInv, UNCHANGED <<job, mem, disk, next, running, fate>>,
           spent'["removal-failure"] = spent["removal-failure"],
           NEW r, AboutNoStage(r) \/ AsksAbout(r), queue' = Append(queue, r),
           queue' \in Seq(Request)
    PROVE  SInv'
<1>0. queue \in Seq(Request) /\ req \in Request /\ running \subseteq Request /\ MessagesFit
  BY RequestsAreTyped DEF TypeOK, SInv
<1>1. r \in Request
  <2>1. Append(queue, r)[Len(queue) + 1] = r /\ Len(queue) + 1 \in DOMAIN Append(queue, r)
    BY <1>0
  <2>2. \A i \in DOMAIN queue' : queue'[i] \in Request
    OBVIOUS
  <2> QED BY <2>1, <2>2
<1>2. ASSUME NEW m \in Request PROVE Stays(m)
  <2>1. next.op \in Nat
    BY CountersAreNatural
  <2>2. HeldBut(mem, mem', {}) /\ CountsGrow
    BY <2>1, SameHeld DEF CountsGrow
  <2> QED BY <2>2, MessageStaysFit
<1>3. ASSUME NEW m \in Request, Sound(m), m = req \/ m \in running \/ \E i \in DOMAIN queue : queue[i] = m
      PROVE  Apart(r, m)
  <2>1. CASE r.stage = NoStage
    BY <2>1 DEF Apart
  <2>2. CASE AsksAbout(r) /\ r.purpose = "begin"
    <3>1. ASSUME m.stage = r.stage PROVE m.purpose \notin {"commit", "open"}
      BY <1>3, <2>2, <3>1 DEF AsksAbout, Sound
    <3> QED BY <2>2, <3>1 DEF Apart
  <2>3. CASE AsksAbout(r) /\ r.purpose # "begin"
    BY <1>3, <2>3 DEF AsksAbout, Quiet, Apart
  <2> QED BY <2>1, <2>2, <2>3 DEF AboutNoStage
<1>4. OneAboutAStage'
  <2>1. ASSUME NEW i \in DOMAIN queue PROVE Apart(r, queue[i])
    <3>1. PICK m \in Request : m = queue[i]
      BY <1>0
    <3> QED BY <1>0, <1>3, <3>1 DEF MessagesFit
  <2>2. ASSUME NEW h \in running PROVE Apart(r, h)
    <3>1. PICK m \in Request : m = h
      BY <1>0
    <3> QED BY <1>0, <1>3, <3>1 DEF MessagesFit
  <2>3. Apart(r, req)
    <3>1. PICK m \in Request : m = req
      BY <1>0
    <3> QED BY <1>0, <1>3, <3>1 DEF MessagesFit
  <2>4. OneAbout(queue, running, req)
    BY DEF SInv, OneAboutAStage
  <2>5. OneAbout(Append(queue, r), running, req)
    BY <1>0, <1>1, <2>1, <2>2, <2>3, <2>4, OneMoreWaits
  <2> QED BY <2>5 DEF OneAboutAStage, req
<1>5. SettledGone' /\ Once'
  BY DEF SInv, SettledGone, Once, Settled, Unowned
<1>6. Waits(r)'
  <2>1. CASE AboutNoStage(r)
    <3>1. NoStage \notin Stages /\ \A o \in OpIds : NoStage \notin mem.ops[o].stages \cup disk.ops[o].stages
      BY ParametersAreSane DEF TypeOK, State, Operation
    <3> QED BY <2>1, <3>1 DEF AboutNoStage, Waits, Sound, Opened, Unowned
  <2>2. CASE AsksAbout(r)
    BY <2>2 DEF AsksAbout, Waits, Sound, Opened, Settled
  <2> QED BY <2>1, <2>2
<1>7. \A i \in DOMAIN queue' : (\E j \in DOMAIN queue : queue'[i] = queue[j]) \/ queue'[i] = r
  BY <1>0, <1>1, LastOfQueue
<1>8. r.kind # "released"
  BY DEF AboutNoStage, AsksAbout
<1> QED BY <1>0, <1>1, <1>2, <1>4, <1>5, <1>6, <1>7, <1>8, StaysWell, WorldLeaves

\* A handler answers: its message is gone, and its report may wait instead.
LEMMA HandlerOwns == ASSUME IInv, SInv, HandlerReturns PROVE SInv'
<1>0. /\ TypeOK /\ RunningFit /\ MessagesFit /\ queue \in Seq(Request) /\ req \in Request
      /\ running \subseteq Request /\ fate \in [Stages -> Fates]
  BY RequestsAreTyped DEF IInv, TypeOK, SInv
<1>1. UNCHANGED <<job, mem, disk, next, spent>> /\ next.op \in Nat
  BY <1>0, CountersAreNatural DEF HandlerReturns
<1>2. PICK h \in running :
          /\ running' = running \ {h}
          /\ \/ UNCHANGED <<queue, fate>>
             \/ h.purpose = "open" /\ fate' = Consume(h.stage, "aborted-by-worker") /\ UNCHANGED queue
             \/ \E kind \in {"record", "released"} :
                   /\ h.purpose = IF kind = "record" THEN "open" ELSE "abort"
                   /\ queue' = Append(queue, [h EXCEPT !.kind = kind]) /\ UNCHANGED fate
  BY DEF HandlerReturns
<1>3. h \in Request /\ Runs(h) /\ h.stage \in Stages /\ h.stage # NoStage
  BY <1>0, <1>2, FitInParts, ParametersAreSane DEF RunningFit
<1>4. /\ OneAbout(queue, running \ {h}, req)
      /\ \A i \in DOMAIN queue : Apart(h, queue[i])
      /\ \A g \in running \ {h} : Apart(h, g)
      /\ Apart(h, req)
  BY <1>2, OneReturns DEF SInv, OneAboutAStage
<1>5. CountsGrow /\ HeldBut(mem, mem', {})
  BY <1>1, SameHeld DEF CountsGrow
<1>6. CASE UNCHANGED fate
  <2>1. \A m \in Request : Stays(m)
    BY <1>0, <1>1, <1>5, <1>6, MessageStaysFit
  <2>2. SettledGone' /\ Once'
    BY <1>1, <1>5, <1>6, FatesStay DEF SInv
  <2>3. CASE UNCHANGED queue
    <3>1. OneAboutAStage'
      BY <1>1, <1>2, <1>4, <2>3 DEF OneAboutAStage, req
    <3> QED BY <1>0, <1>1, <1>2, <1>6, <2>1, <2>2, <2>3, <3>1, StaysWell, WorldLeaves
  <2>4. CASE \E kind \in {"record", "released"} :
                   /\ h.purpose = IF kind = "record" THEN "open" ELSE "abort"
                   /\ queue' = Append(queue, [h EXCEPT !.kind = kind])
    <3>1. PICK kind \in {"record", "released"} :
                   /\ h.purpose = IF kind = "record" THEN "open" ELSE "abort"
                   /\ queue' = Append(queue, [h EXCEPT !.kind = kind])
      BY <2>4
    <3>2. PICK n : n = [h EXCEPT !.kind = kind]
      OBVIOUS
    <3>3. n.kind = kind /\ n.purpose = h.purpose /\ n.stage = h.stage /\ n.id = h.id
      BY <1>3, <3>2 DEF Request, Message
    <3>4. n \in Request
      <4>1. h.kind = "authorize" /\ h \in Message /\ h.id \in OpIds /\ h.route # Loading
        BY <1>0, <1>2, <1>3 DEF RunningFit, Request, ByOperation
      <4>2. n \in Message /\ n.route = h.route
        BY <3>1, <3>2, <4>1 DEF Message, Kinds
      <4> QED BY <1>3, <3>1, <3>3, <4>1, <4>2 DEF Request
    <3>5. Waits(n)'
      <4>1. Sound(n)'
        BY <1>3, <1>1, <1>6, <3>1, <3>3 DEF Runs, Sound, Settled
      <4>2. Opened(n)'
        BY <1>3, <1>1, <3>3 DEF Runs, Opened, Unowned
      <4>3. n.kind = "released" => Freed(n)'
        BY <1>3, <1>1, <1>6, <3>1, <3>3 DEF Runs, Freed
      <4> QED BY <4>1, <4>2, <4>3 DEF Waits
    <3>6. OneAboutAStage'
      <4>1. Alike(h, n)
        BY <3>3 DEF Alike
      <4>2. /\ \A i \in DOMAIN queue : Apart(n, queue[i])
            /\ \A g \in running \ {h} : Apart(n, g)
            /\ Apart(n, req)
        BY <1>4, <4>1, AlikeApart
      <4>3. OneAbout(Append(queue, n), running \ {h}, req)
        BY <1>0, <1>4, <3>4, <4>2, OneMoreWaits
      <4> QED BY <1>1, <1>2, <3>1, <3>2, <4>3 DEF OneAboutAStage, req
    <3>7. \A i \in DOMAIN queue' : (\E j \in DOMAIN queue : queue'[i] = queue[j]) \/ queue'[i] = n
      BY <1>0, <3>1, <3>2, <3>4, LastOfQueue
    <3>8. n.kind = "released" => h.purpose = "abort"
      BY <3>1, <3>3
    <3> QED BY <1>0, <1>1, <1>2, <1>6, <2>1, <2>2, <3>3, <3>4, <3>5, <3>6, <3>7, <3>8, StaysWell,
               WorldLeaves
  <2> QED BY <1>2, <2>3, <2>4
<1>7. CASE h.purpose = "open" /\ fate' = Consume(h.stage, "aborted-by-worker") /\ UNCHANGED queue
  <2>1. fate[h.stage] = "begun" /\ Unowned(mem, h.stage) /\ Unowned(disk, h.stage)
    BY <1>3, <1>7 DEF Runs, Sound, Opened
  <2>2. fate'[h.stage] = "aborted-by-worker" /\ \A x \in Stages \ {h.stage} : fate'[x] = fate[x]
    BY <1>0, <1>3, <1>7, <2>1 DEF Consume
  <2>3. ASSUME NEW m \in Request, Apart(h, m)
        PROVE  (Waits(m) => Waits(m)') /\ (m \in running /\ Runs(m) => Runs(m)')
    <3>1. m.stage # h.stage
      BY <1>3, <1>7, <2>3 DEF Apart
    <3> QED BY <1>0, <1>1, <2>2, <3>1, OthersStay, StaysWell
  <2>4. SettledGone' /\ Once'
    <3>1. ASSUME NEW s \in Stages, Settled(s)' PROVE Settled(s) \/ s = h.stage
      BY <1>1, <2>2, <3>1 DEF Settled
    <3>2. SettledGone'
      BY <1>1, <2>1, <3>1 DEF SInv, SettledGone, Unowned
    <3>3. Once'
      BY <1>1, <2>2 DEF SInv, Once
    <3> QED BY <3>2, <3>3
  <2>5. OneAboutAStage'
    BY <1>1, <1>2, <1>4, <1>7 DEF OneAboutAStage, req
  <2>6. req.stage # h.stage
    BY <1>3, <1>4, <1>7 DEF Apart
  <2>7. ASSUME NEW m \in Request
        PROVE  /\ (\E i \in DOMAIN queue : queue[i] = m) /\ Waits(m) => Waits(m)'
               /\ m \in running \cap running' /\ Runs(m) => Runs(m)'
    BY <1>2, <1>4, <2>3
  <2> QED BY <1>0, <1>1, <1>2, <1>7, <2>2, <2>4, <2>5, <2>6, <2>7, WorldLeaves
<1> QED BY <1>2, <1>6, <1>7

LEMMA NothingArrives ==
    ASSUME TypeOK, SInv, UNCHANGED <<job, mem, disk, next, queue, running, fate>>,
           spent'["removal-failure"] = spent["removal-failure"]
    PROVE  SInv'
<1>1. OneAboutAStage' /\ SettledGone' /\ Once'
  BY DEF SInv, OneAboutAStage, SettledGone, Once, Settled, Unowned, req
<1>2. ASSUME NEW m \in Request PROVE (Waits(m) => Waits(m)') /\ (Runs(m) => Runs(m)')
  BY DEF Waits, Runs, Sound, Settled, Opened, Unowned, Freed
<1> QED BY <1>1, <1>2, WorldLeaves

LEMMA QuietlyOwns == ASSUME IInv, TInv, GInv, SInv, Quietly, IInv' PROVE SInv'
<1>0. TypeOK /\ RunningFit /\ queue' \in Seq(Request) /\ spent \in [Disturbances -> Nat]
      /\ "settings" # "removal-failure" /\ events \in Seq(Event)
  BY DEF IInv, TypeOK
<1>1. CASE SettingsArrive
  BY <1>1, SettingsArriveOwns
<1>2. CASE Requests
  <2>1. PICK r : Send(r) /\ (AboutNoStage(r) \/ AsksAbout(r))
    BY <1>0, <1>2, SentAbout
  <2>2. /\ UNCHANGED <<job, mem, disk, next, running, fate, spent>> /\ queue' = Append(queue, r)
    BY <2>1 DEF Send, history
  <2> QED BY <1>0, <2>1, <2>2, ArrivalOwns
<1>3. ASSUME NEW e, Revoke(e), e.kind \in Revocations, UNCHANGED <<job, mem, disk, next, running, fate>>,
             spent'["removal-failure"] = spent["removal-failure"]
      PROVE  SInv'
  <2>1. PICK r : r = [Ask(e.kind) EXCEPT !.tab = e.tab, !.route = e.route, !.ui = e.ui]
    OBVIOUS
  <2>2. queue' = Append(queue, r)
    BY <1>3, <2>1 DEF Revoke
  <2>3. AboutNoStage(r)
    BY <1>3, <2>1 DEF AboutNoStage, Ask, Revocations
  <2> QED BY <1>0, <1>3, <2>2, <2>3, ArrivalOwns
<1>4. CASE Deliver
  <2>1. PICK e \in Event : e = Head(events)
    BY <1>0, <1>4 DEF Deliver
  <2>2. Revoke(e) /\ UNCHANGED <<job, mem, disk, next, running, fate, spent>>
    BY <1>4, <2>1 DEF Deliver
  <2>3. e.kind \in Revocations
    BY <2>1 DEF Event, Notification, Revocations
  <2> QED BY <1>3, <2>2, <2>3
<1>5. CASE UserSavesSettings
  <2>1. Revoke(Notice("settings", AnyTab, AnyRoute, 0))
        /\ UNCHANGED <<job, mem, disk, next, running, fate>> /\ Spend("settings")
    BY <1>5 DEF UserSavesSettings
  <2>2. Notice("settings", AnyTab, AnyRoute, 0).kind \in Revocations
    BY DEF Notice, Revocations
  <2>3. spent'["removal-failure"] = spent["removal-failure"]
    BY <1>0, <2>1 DEF Spend, Disturbances
  <2> QED BY <1>3, <2>1, <2>2, <2>3
<1>6. CASE HandlerReturns
  BY <1>6, HandlerOwns
<1>7. CASE \/ TimePasses \/ Navigates \/ Reloads \/ Settles \/ TabCloses \/ WindowCloses
           \/ SettingsWritten
  <2>1. UNCHANGED <<job, mem, disk, next, queue, running, fate>>
    BY <1>7
    DEF TimePasses, Navigates, Reloads, Settles, TabCloses, WindowCloses, SettingsWritten,
        Disturb, volatile, history
  <2>2. spent'["removal-failure"] = spent["removal-failure"]
    <3>1. ASSUME NEW what \in {"expiry", "browser", "settings"}, Spend(what)
          PROVE  spent'["removal-failure"] = spent["removal-failure"]
      BY <1>0, <3>1 DEF Spend, Disturbances
    <3> QED BY <1>7, <3>1
        DEF TimePasses, Navigates, Reloads, Settles, TabCloses, WindowCloses, SettingsWritten,
            Disturb
  <2> QED BY <1>0, <2>1, <2>2, NothingArrives
<1> QED BY <1>1, <1>2, <1>4, <1>5, <1>6, <1>7 DEF Quietly

LEMMA NextOwns ==
    IInv /\ TInv /\ NothingUnowned /\ GInv /\ SInv /\ [Next]_vars => SInv'
<1> SUFFICES ASSUME IInv, TInv, NothingUnowned, GInv, SInv, [Next]_vars PROVE SInv'
  OBVIOUS
<1>1. CASE UNCHANGED vars
  <2>1. UNCHANGED <<job, mem, disk, next, queue, running, fate, spent>> /\ TypeOK
    BY <1>1 DEF vars, volatile, history, IInv
  <2> QED BY <2>1, NothingArrives
<1>2. CASE Next
  <2>1. IInv'
    BY NextKeeps
  <2> QED BY <1>2, <2>1, NextCases, AcquireOwns, SavedOwns, SaveFailedOwns, RestartsOwn,
             JobStepsOwn, QuietlyOwns
<1> QED BY <1>1, <1>2

LEMMA InitOwns == Init => SInv
<1> SUFFICES ASSUME Init PROVE SInv
  OBVIOUS
<1>1. /\ queue = <<>> /\ job = NoJob /\ running = {} /\ fate = [s \in Stages |-> "unused"]
      /\ DOMAIN <<>> = {}
  BY DEF Init
<1>2. OneAboutAStage
  BY <1>1 DEF OneAboutAStage, OneAbout
<1>3. req.stage = NoStage /\ req.purpose = "none" /\ req.kind = "settings" /\ NoStage \notin Stages
  BY <1>1, ParametersAreSane DEF req, NoJob, Ask
<1>4. MessagesFit
  BY <1>1, <1>3 DEF MessagesFit, Sound, Entering, NoJob
<1>5. SettledGone /\ Once
  BY <1>1 DEF SettledGone, Once, Settled
<1>6. BeginsOwned /\ AbortsOwned /\ HandsOver
  BY <1>3 DEF BeginsOwned, AbortsOwned, HandsOver, Handing, HandOffs
<1>7. JobsFit
  BY <1>1, <1>3 DEF JobsFit, NoJob, HandOffs, At
<1> QED BY <1>2, <1>4, <1>5, <1>6, <1>7 DEF SInv

-----------------------------------------------------------------------------
(* Somebody answers for the bytes of a stage.                              *)

AInv == IInv /\ TInv /\ NothingUnowned /\ GInv /\ SInv

LEMMA NextAccounts == AInv /\ [Next]_vars => AInv'
  BY NextKeeps, NextKeepsTerminal, NextRetains, NextFollows, NextOwns DEF AInv

LEMMA InitAccounts == Init => AInv
  BY InitFits, InitTerminal, InitUnowned, InitFollows, InitOwns DEF AInv

\* A stage whose bytes are still to be given away keeps somebody who answers.
Answered(s) ==
    fate'[s] = "begun" /\ (fate[s] = "begun" => InHand(s)) => InHand(s)' \/ LeftToSweep(s)

\* The parts of InHand, so that a step need only say which of them it moves.
ByHandler(s) == \E h \in running : h.purpose = "open" /\ h.stage = s
ByReport(s) == \E i \in DOMAIN queue : queue[i].kind = "record" /\ queue[i].stage = s
ByRecord(s) == req.kind = "record" /\ req.stage = s /\ Entering
ByHandOff(s) == req.stage = s /\ Handing

LEMMA HandsOf ==
    ASSUME NEW s
    PROVE  /\ InHand(s) <=>
                \/ Owners(s) # {} \/ ByHandler(s) \/ ByReport(s) \/ ByRecord(s) \/ ByHandOff(s)
           /\ InHand(s)' <=>
                \/ Owners(s)' # {} \/ ByHandler(s)' \/ ByReport(s)' \/ ByRecord(s)' \/ ByHandOff(s)'
<1>1. ByRecord(s) <=> /\ req.kind = "record" /\ req.stage = s
                      /\ job.at = "enter" \/ (job.at = "save" /\ job.onSaved = "enter")
  BY DEF ByRecord, Entering
<1>2. ByHandOff(s) <=> /\ req.kind \in {"commit", "take"} /\ req.stage = s
                       /\ job.permitted \/ job.at = "refused" \/ (job.at = "save" /\ job.onFailed = "refused")
  BY DEF ByHandOff, Handing, HandOffs
<1>3. ByRecord(s)' <=> /\ req'.kind = "record" /\ req'.stage = s
                       /\ job'.at = "enter" \/ (job'.at = "save" /\ job'.onSaved = "enter")
  BY DEF ByRecord, Entering
<1>4. ByHandOff(s)' <=>
          /\ req'.kind \in {"commit", "take"} /\ req'.stage = s
          /\ job'.permitted \/ job'.at = "refused" \/ (job'.at = "save" /\ job'.onFailed = "refused")
  BY DEF ByHandOff, Handing, HandOffs
<1>5. InHand(s) <=>
                \/ Owners(s) # {} \/ ByHandler(s) \/ ByReport(s) \/ ByRecord(s) \/ ByHandOff(s)
  BY <1>1, <1>2, Zenon DEF InHand, ByHandler, ByReport
<1>6. InHand(s)' <=>
                \/ Owners(s)' # {} \/ ByHandler(s)' \/ ByReport(s)' \/ ByRecord(s)' \/ ByHandOff(s)'
  BY <1>3, <1>4, Zenon DEF InHand, ByHandler, ByReport
<1> QED
  BY <1>5, <1>6

\* What owns a stage owns it after a step, unless its grace is over.
LEMMA OwnersAnswer ==
    ASSUME NothingUnowned, Evicts(mem, mem'), NEW some, HeldBut(mem, mem', some),
           NEW s, s \notin some, Owners(s) # {}
    PROVE  Owners(s)' # {} \/ LeftToSweep(s)
<1>1. PICK o \in OpIds : s \in mem.ops[o].stages
  BY DEF Owners
<1>2. Exists(mem.ops[o])
  BY <1>1 DEF NothingUnowned
<1>3. CASE Exists(mem'.ops[o])
  <2>1. s \in mem'.ops[o].stages
    BY <1>1, <1>2, <1>3 DEF HeldBut
  <2> QED
    BY <2>1 DEF Owners
<1>4. CASE ~Exists(mem'.ops[o])
  <2>1. <<"grace", o>> \in elapsed
    BY <1>1, <1>2, <1>4 DEF Evicts
  <2>2. o \in Owners(s)
    BY <1>1 DEF Owners
  <2> QED
    BY <2>1, <2>2 DEF LeftToSweep
<1> QED
  BY <1>3, <1>4

LEMMA OwnersSame ==
    ASSUME SameStages(mem, mem'), NEW s PROVE Owners(s)' = Owners(s)
  BY DEF SameStages, Owners

\* A queue that grows keeps its reports.
LEMMA ReportsRemain ==
    ASSUME queue \in Seq(Request), NEW s, ByReport(s),
           queue' = queue \/ \E n : queue' = Append(queue, n)
    PROVE  ByReport(s)'
<1>1. PICK i \in DOMAIN queue : queue[i].kind = "record" /\ queue[i].stage = s
  BY DEF ByReport
<1>2. i \in DOMAIN queue' /\ queue'[i] = queue[i]
  BY <1>1
<1> QED
  BY <1>1, <1>2 DEF ByReport

\* A step that changes no fate to begun and leaves memory, handlers and reports
\* in place, but for the job.
LEMMA JobAnswers ==
    ASSUME TypeOK, NEW s \in Stages, fate[s] = "begun" \/ fate'[s] # "begun",
           Owners(s) # {} => Owners(s)' # {} \/ LeftToSweep(s),
           ByHandler(s) => ByHandler(s)', ByReport(s) => ByReport(s)',
           fate'[s] = "begun" /\ ByRecord(s) => InHand(s)' \/ LeftToSweep(s),
           fate'[s] = "begun" /\ ByHandOff(s) => InHand(s)' \/ LeftToSweep(s)
    PROVE  Answered(s)
  BY HandsOf DEF Answered

LEMMA SavedAnswers == ASSUME AInv, Saved, NEW s \in Stages PROVE Answered(s)
<1>1. /\ job.at = "save" /\ Go(job.onSaved) /\ UNCHANGED <<mem, queue, running, fate>>
  BY DEF Saved, volatile, history
<1>2. TypeOK /\ IInv /\ GInv /\ JobsFit /\ job.onSaved \in Steps
  BY DEF AInv, IInv, SInv, TypeOK, Job
<1>3. \/ Finish
      \/ JobCarries /\ job'.at = job.onSaved
  BY <1>1, <1>2, AfterSave
<1>4. ByRecord(s) => ByRecord(s)'
  <2> HAVE ByRecord(s)
  <2>1. job.onSaved = "enter"
    BY <1>1 DEF ByRecord, Entering
  <2>2. JobCarries /\ job'.at = "enter"
    BY <1>1, <1>2, <2>1, Goes DEF TypeOK
  <2> QED
    BY <2>2 DEF ByRecord, Entering, JobCarries, req
<1>5. ByHandOff(s) => ByHandOff(s)'
  <2> HAVE ByHandOff(s)
  <2>1. job.onSaved = "refused" \/ (job.onSaved = "recheck" /\ job.permitted)
    BY <1>1, <1>2 DEF ByHandOff, Handing, JobsFit, Entering
  <2>2. JobCarries /\ job'.at = job.onSaved
    BY <1>1, <1>2, <2>1, Goes DEF TypeOK
  <2> QED
    BY <2>1, <2>2 DEF ByHandOff, Handing, HandOffs, JobCarries, req
<1>6. Owners(s)' = Owners(s) /\ (ByHandler(s) => ByHandler(s)') /\ (ByReport(s) => ByReport(s)')
  BY <1>1 DEF Owners, ByHandler, ByReport
<1> QED
  BY <1>1, <1>2, <1>4, <1>5, <1>6, JobAnswers, HandsOf

LEMMA AcquireAnswers == ASSUME AInv, Acquire, NEW s \in Stages PROVE Answered(s)
<1>1. /\ job.at = "idle" /\ queue # <<>> /\ queue' = Tail(queue) /\ UNCHANGED <<running, fate>>
      /\ job'.req = Head(queue)
      /\ job'.at = "enter" \/ (job'.at = "save" /\ job'.onSaved = "enter")
  BY DEF Acquire, history, NoJob
<1>2. TypeOK /\ IInv /\ NothingUnowned /\ JobsFit
  BY DEF AInv, IInv, SInv
<1>3. Owners(s) # {} => Owners(s)' # {} \/ LeftToSweep(s)
  BY <1>2, AcquireEvicts, AcquireHeld, OwnersAnswer
<1>4. ByReport(s) => ByReport(s)' \/ ByRecord(s)'
  <2> HAVE ByReport(s)
  <2>1. queue \in Seq(Request)
    BY <1>2 DEF TypeOK
  <2>2. PICK i \in DOMAIN queue : queue[i].kind = "record" /\ queue[i].stage = s
    BY DEF ByReport
  <2>3. CASE i = 1
    <3>1. Head(queue) = queue[1]
      BY <2>1, <1>1
    <3>2. job'.req.kind = "record" /\ job'.req.stage = s
      BY <1>1, <2>2, <2>3, <3>1
    <3> QED
      BY <1>1, <3>2 DEF ByRecord, Entering, req
  <2>4. CASE i # 1
    <3>1. i - 1 \in DOMAIN Tail(queue) /\ Tail(queue)[i - 1] = queue[i]
      BY <2>1, <2>4, <1>1
    <3> QED
      BY <1>1, <2>2, <3>1 DEF ByReport
  <2> QED
    BY <2>3, <2>4
<1>5. ~ByRecord(s) /\ ~ByHandOff(s)
  BY <1>1, <1>2 DEF ByRecord, Entering, ByHandOff, Handing, JobsFit
<1>6. ByHandler(s) => ByHandler(s)'
  BY <1>1 DEF ByHandler
<1> QED
  BY <1>1, <1>3, <1>4, <1>5, <1>6, HandsOf DEF Answered

LEMMA LossesAnswer ==
    ASSUME TypeOK, SaveFailed \/ Restarts, NEW s \in Stages PROVE Answered(s)
<1>1. CASE SaveFailed
  BY <1>1 DEF SaveFailed, AfterRefusedSave, Answered, LeftToSweep
<1>2. CASE Restarts
  <2>1. spent'["restart"] = spent["restart"] + 1
    BY <1>2 DEF Restarts, Spend, TypeOK, Disturbances
  <2>2. spent["restart"] \in Nat
    BY CountersAreNatural
  <2> QED
    BY <2>1, <2>2 DEF Answered, LeftToSweep
<1> QED
  BY <1>1, <1>2

\* A handler that returns reports what it opened or throws it away.
LEMMA HandlerAnswers ==
    ASSUME AInv, HandlerReturns, NEW s \in Stages PROVE Answered(s)
<1>1. TypeOK
  BY DEF AInv, IInv
<1>2. PICK h \in running :
        /\ running' = running \ {h}
        /\ \/ h.purpose # "open" /\ UNCHANGED fate
           \/ h.purpose = "open" /\ fate' = Consume(h.stage, "aborted-by-worker")
           \/ h.purpose = "open" /\ queue' = Append(queue, [h EXCEPT !.kind = "record"]) /\ UNCHANGED fate
        /\ \/ UNCHANGED queue
           \/ h.purpose = "open" /\ queue' = Append(queue, [h EXCEPT !.kind = "record"])
           \/ h.purpose = "abort" /\ queue' = Append(queue, [h EXCEPT !.kind = "released"])
  BY DEF HandlerReturns
<1>3. UNCHANGED <<mem, job>>
  BY DEF HandlerReturns
<1>4. h \in Request /\ h \in [kind: Kinds, tab: Tabs, route: Routes \cup {Loading}, doc: Nat, id: Nat,
           mode: {"current", "selected"}, ui: 0 .. MaxSurfaces, purpose: Purposes,
           stage: Stages \cup {NoStage}, epoch: Nat, revision: Nat]
  BY <1>1 DEF TypeOK, Request, Message
<1>5. RunningFit
  BY DEF AInv, IInv
<1>6. h.kind = "authorize" /\ h.stage \in Stages
  BY <1>5 DEF RunningFit
<1>7. \A kind \in Kinds : /\ [h EXCEPT !.kind = kind].kind = kind
                          /\ [h EXCEPT !.kind = kind].stage = h.stage
  BY <1>4
<1>8. ByReport(s) => ByReport(s)'
  <2> HAVE ByReport(s)
  <2>1. PICK i \in DOMAIN queue : queue[i].kind = "record" /\ queue[i].stage = s
    BY DEF ByReport
  <2>2. queue \in Seq(Request)
    BY <1>1 DEF TypeOK
  <2>3. i \in DOMAIN queue' /\ queue'[i] = queue[i]
    BY <1>2, <2>1, <2>2
  <2> QED
    BY <2>1, <2>3 DEF ByReport
<1>9. fate'[s] = "begun" /\ ByHandler(s) => ByHandler(s)' \/ ByReport(s)'
  <2> HAVE fate'[s] = "begun" /\ ByHandler(s)
  <2>1. PICK g \in running : g.purpose = "open" /\ g.stage = s
    BY DEF ByHandler
  <2>2. CASE g # h
    BY <1>2, <2>1, <2>2 DEF ByHandler
  <2>3. CASE g = h
    <3>1. ~(fate' = Consume(h.stage, "aborted-by-worker"))
      BY <1>1, <2>1, <2>3 DEF Consume, TypeOK
    <3>2. queue' = Append(queue, [h EXCEPT !.kind = "record"])
      BY <1>2, <2>1, <2>3, <3>1
    <3>3. queue \in Seq(Request) /\ "record" \in Kinds
      BY <1>1 DEF TypeOK, Kinds
    <3>4. queue'[Len(queue) + 1] = [h EXCEPT !.kind = "record"] /\ Len(queue) + 1 \in DOMAIN queue'
      BY <3>2, <3>3
    <3> QED
      BY <1>7, <2>1, <2>3, <3>3, <3>4 DEF ByReport
  <2> QED
    BY <2>2, <2>3
<1>10. fate'[s] = "begun" => fate[s] = "begun"
  BY <1>1, <1>2, <1>6 DEF Consume, TypeOK
<1>11. Owners(s)' = Owners(s) /\ (ByRecord(s) <=> ByRecord(s)') /\ (ByHandOff(s) <=> ByHandOff(s)')
  BY <1>3 DEF Owners, ByRecord, Entering, ByHandOff, Handing, HandOffs, req
<1> QED
  BY <1>8, <1>9, <1>10, <1>11, HandsOf DEF Answered

\* Nothing that happens around the controller takes a stage out of a hand.
LEMMA WorldAnswers ==
    ASSUME TypeOK, UNCHANGED <<mem, job, running, fate>>,
           queue' = queue \/ \E n : queue' = Append(queue, n), NEW s \in Stages
    PROVE  Answered(s)
<1>1. Owners(s)' = Owners(s) /\ (ByRecord(s) <=> ByRecord(s)') /\ (ByHandOff(s) <=> ByHandOff(s)')
  BY DEF Owners, ByRecord, Entering, ByHandOff, Handing, HandOffs, req
<1>2. (ByHandler(s) <=> ByHandler(s)') /\ (ByReport(s) => ByReport(s)')
  BY ReportsRemain DEF ByHandler, TypeOK
<1> QED
  BY <1>1, <1>2, HandsOf DEF Answered

LEMMA QuietlyAnswers ==
    ASSUME AInv, Quietly, NEW s \in Stages PROVE Answered(s)
<1>1. TypeOK
  BY DEF AInv, IInv
<1>2. CASE SettingsArrive
  <2>1. /\ job.at = "settings" /\ job'.at = "admit" /\ job'.req = job.req
        /\ UNCHANGED <<mem, queue, running, fate, job.permitted>>
    BY <1>1, <1>2 DEF SettingsArrive, Outside, volatile, history, TypeOK, Job
  <2>2. Owners(s)' = Owners(s) /\ ~ByRecord(s) /\ (ByHandOff(s) => ByHandOff(s)')
    BY <2>1 DEF Owners, ByRecord, Entering, ByHandOff, Handing, HandOffs, req
  <2>3. (ByHandler(s) <=> ByHandler(s)') /\ (ByReport(s) <=> ByReport(s)')
    BY <2>1 DEF ByHandler, ByReport
  <2> QED
    BY <2>1, <2>2, <2>3, HandsOf DEF Answered
<1>3. CASE HandlerReturns
  BY <1>3, HandlerAnswers
<1>4. CASE Requests
  <2>1. PICK r : Send(r)
    BY <1>1, <1>4, SentAbout
  <2>2. queue' = Append(queue, r) /\ UNCHANGED <<mem, job, running, fate>>
    BY <2>1 DEF Send, history
  <2> QED
    BY <1>1, <2>2, WorldAnswers
<1>5. CASE Deliver \/ UserSavesSettings
  <2>1. UNCHANGED <<mem, job, running, fate>> /\ \E n : queue' = Append(queue, n)
    BY <1>5 DEF Deliver, UserSavesSettings, Revoke
  <2> QED
    BY <1>1, <2>1, WorldAnswers
<1>6. CASE TimePasses \/ Settles
  BY <1>1, <1>6, WorldAnswers DEF TimePasses, Settles, volatile, history
<1>7. CASE Navigates \/ Reloads \/ TabCloses \/ WindowCloses \/ SettingsWritten
  <2>1. UNCHANGED <<mem, job, running, fate, queue>>
    BY <1>7 DEF Navigates, Reloads, TabCloses, WindowCloses, SettingsWritten, Disturb, volatile, history
  <2> QED
    BY <1>1, <2>1, WorldAnswers
<1> QED
  BY <1>2, <1>3, <1>4, <1>5, <1>6, <1>7, Zenon DEF Quietly

LEMMA HandoversAnswer == ASSUME AInv, Handovers, NEW s \in Stages PROVE Answered(s)
<1>1. /\ TypeOK /\ BeginsOwned /\ RunningFit
      /\ UNCHANGED mem /\ Owners(s)' = Owners(s)
  BY DEF AInv, IInv, SInv, Handovers, AuthorizeGrants, AuthorizeRefuses, CommitDispatches,
         WorkerCleansUp, Owners
<1>2. CASE AuthorizeGrants
  <2>1. req.kind = "authorize" /\ job.at = "granted"
    BY <1>2 DEF AuthorizeGrants, At
  <2>2. ~ByRecord(s) /\ ~ByHandOff(s)
    BY <2>1 DEF ByRecord, ByHandOff, Handing, HandOffs
  <2>3. running \subseteq running'
    BY <1>2 DEF AuthorizeGrants
  <2>4. ByHandler(s) => ByHandler(s)'
    BY <2>3 DEF ByHandler
  <2>5. ByReport(s) => ByReport(s)'
    <3>1. queue' = queue \/ \E n : queue' = Append(queue, n)
      BY <1>2 DEF AuthorizeGrants, Forward
    <3> QED
      BY <1>1, <3>1, ReportsRemain DEF TypeOK
  <2>6. fate'[s] = "begun" /\ fate[s] # "begun" => Owners(s) # {} \/ ByHandler(s)'
    <3> HAVE fate'[s] = "begun" /\ fate[s] # "begun"
    <3>1. CASE req.purpose = "begin"
      <4>1. fate' = [fate EXCEPT ![req.stage] = "begun"]
        BY <1>2, <3>1 DEF AuthorizeGrants
      <4>2. req.stage = s
        BY <1>1, <4>1 DEF TypeOK
      <4>3. req.stage \in theOp.stages /\ req.id \in OpIds
        BY <1>1, <2>1, <3>1, RequestsAreTyped DEF BeginsOwned, Heading, ByOperation
      <4> QED
        BY <4>2, <4>3 DEF Owners, theOp
    <3>2. CASE req.purpose = "abort"
      <4>1. fate' = Consume(req.stage, "aborted-by-document")
        BY <1>2, <3>2 DEF AuthorizeGrants
      <4> QED
        BY <1>1, <4>1 DEF TypeOK, Consume
    <3>3. CASE req.purpose = "open"
      <4>1. PICK x \in Stages : /\ running' = running \cup {[req EXCEPT !.stage = x]}
                                /\ fate' = [fate EXCEPT ![x] = "begun"]
        BY <1>2, <3>3 DEF AuthorizeGrants
      <4>2. x = s
        BY <1>1, <4>1 DEF TypeOK
      <4>3. req \in Message
        BY <1>1, RequestsAreTyped DEF Request
      <4>4. [req EXCEPT !.stage = s].stage = s /\ [req EXCEPT !.stage = s].purpose = "open"
        BY <3>3, <4>3 DEF Message
      <4> QED
        BY <4>1, <4>2, <4>4 DEF ByHandler
    <3>4. CASE req.purpose \notin {"begin", "abort", "open"}
      BY <1>2, <3>4 DEF AuthorizeGrants
    <3> QED
      BY <3>1, <3>2, <3>3, <3>4
  <2> QED
    BY <1>1, <2>2, <2>4, <2>5, <2>6, HandsOf DEF Answered
<1>3. CASE AuthorizeRefuses
  <2>1. /\ req.kind = "authorize" /\ UNCHANGED <<running, fate>>
        /\ queue' = queue \/ \E n : queue' = Append(queue, n)
    BY <1>3 DEF AuthorizeRefuses, At, history, Forward
  <2>2. ~ByRecord(s) /\ ~ByHandOff(s)
    BY <2>1 DEF ByRecord, ByHandOff, Handing, HandOffs
  <2>3. (ByHandler(s) => ByHandler(s)') /\ (ByReport(s) => ByReport(s)')
    BY <1>1, <2>1, ReportsRemain DEF ByHandler, TypeOK
  <2> QED
    BY <1>1, <2>1, <2>2, <2>3, HandsOf DEF Answered
<1>4. CASE CommitDispatches \/ WorkerCleansUp
  <2>1. PICK how \in {"handed-to-commit", "aborted-by-worker"} :
          /\ fate' = Consume(req.stage, how) /\ UNCHANGED <<queue, running>>
          /\ req.kind \in {"commit", "take"}
    BY <1>4 DEF CommitDispatches, WorkerCleansUp, At, Outside, volatile
  <2>2. fate'[s] = "begun" => fate[s] = "begun" /\ req.stage # s
    BY <1>1, <2>1 DEF TypeOK, Consume
  <2>3. (ByHandler(s) <=> ByHandler(s)') /\ (ByReport(s) <=> ByReport(s)') /\ ~ByRecord(s)
    BY <2>1 DEF ByHandler, ByReport, ByRecord
  <2> QED
    BY <1>1, <2>2, <2>3, HandsOf DEF Answered, ByHandOff
<1> QED
  BY <1>2, <1>3, <1>4 DEF Handovers

\* Taking a stage from its owner is a change; a stage that is registered has one.
LEMMA RelinquishedMoves ==
    ASSUME mem \in State, req.id \in OpIds, req.stage \in mem.ops[req.id].stages,
           mem' = Relinquishing(req.id, req.stage)
    PROVE  mem' # mem
<1>1. PICK o \in OpIds, x \in mem.ops[req.id].stages : o = req.id /\ x = req.stage
  OBVIOUS
<1>2. mem' = Relinquishing(o, x) /\ x \in mem.ops[o].stages
  BY <1>1
<1>3. mem'.ops[o].stages = mem.ops[o].stages \ {x}
  BY <1>2, RelinquishedStages
<1> QED
  BY <1>2, <1>3

LEMMA RegisteredOwns ==
    ASSUME mem \in State, req.id \in OpIds, mem' = Registering(req.id, req.stage),
           NEW s, req.stage = s
    PROVE  Owners(s)' # {}
<1>1. PICK o \in OpIds : o = req.id
  OBVIOUS
<1>2. mem' = Registering(o, s)
  BY <1>1
<1>3. \A y \in OpIds : mem'.ops[y].stages =
              IF y = o THEN mem.ops[y].stages \cup {s} ELSE mem.ops[y].stages
  BY <1>2, RegisteredStages
<1>4. s \in mem'.ops[o].stages
  BY <1>3
<1> QED
  BY <1>4 DEF Owners

LEMMA RecordsAreRecorded ==
    ASSUME JobSteps, At("enter", "record") PROVE Record
  BY DEF JobSteps, At, StartChecks, StartAdmits, Unstart, ClaimChecks, ClaimAdmits, OfferChecks,
         OfferAdmits, OpenChecks, Compact, WindowCreated, WindowRefused, GiveUp, ChooseChecks,
         ChooseValidates, ChooseApplies, Stop, Complete, AuthorizeChecks, AuthorizeAdmits, Rechecks,
         AuthorizeJudges, AuthorizeGrants, AuthorizeRefuses, CommitChecks, CommitAdmits,
         CommitJudges, CommitRejudges, CommitDispatches, TakeChecks, WorkerCleansUp, Released,
         Sweep, Revocations, Reserve, Release, Check

\* An operation that loses a stage to the worker hands it to the job at work; one
\* that releases it has aborted it.
LEMMA RelinquishedAnswers ==
    ASSUME AInv, JobSteps, Relinquishes, NEW s \in Stages, req.stage = s, UNCHANGED fate
    PROVE  Answered(s)
<1>1. job \in Job /\ MessagesFit
  BY DEF AInv, IInv, TypeOK, SInv
<1>2. CASE Released
  <2>1. Entering /\ req.kind = "released" /\ req.stage \in mem.ops[req.id].stages
    BY <1>2 DEF Released, At, Entering, Relinquishes
  <2>2. fate[s] # "begun"
    BY <1>1, <2>1 DEF MessagesFit, Freed
  <2> QED
    BY <2>2 DEF Answered
<1>3. CASE CommitAdmits \/ TakeChecks
  <2>1. req.kind \in {"commit", "take"}
    BY <1>3 DEF CommitAdmits, TakeChecks, At
  <2>2. mem' # mem
    BY RelinquishedMoves DEF AInv, IInv, TypeOK, Relinquishes
  <2>3. SaveThen(Relinquishing(req.id, req.stage), "refused", "refused")
    BY <1>3, <2>2 DEF CommitAdmits, TakeChecks, RelinquishThen
  <2>4. JobCarries /\ job'.at = "save" /\ job'.onFailed = "refused"
    BY <1>1, <2>3, Saves
  <2>5. ByHandOff(s)'
    BY <2>1, <2>4 DEF ByHandOff, Handing, HandOffs, JobCarries, req
  <2> QED
    BY <2>5, HandsOf DEF Answered
<1>4. CASE CommitJudges
  <2>1. req.kind = "commit"
    BY <1>4 DEF CommitJudges, At
  <2>2. job'.req = job.req /\ job'.at = "save" /\ job'.onFailed = "refused"
    BY <1>1, <1>4 DEF CommitJudges, Job
  <2>3. ByHandOff(s)'
    BY <2>1, <2>2 DEF ByHandOff, Handing, HandOffs, req
  <2> QED
    BY <2>3, HandsOf DEF Answered
<1> QED
  BY <1>2, <1>3, <1>4 DEF Relinquishes

\* A report leaves the stage to its operation, unless that is forgotten or full.
LEMMA RecordAnswers ==
    ASSUME AInv, Record, NEW s \in Stages, req.stage = s
    PROVE  Owners(s)' # {} \/ LeftToSweep(s)
<1>1. mem \in State /\ req.id \in OpIds /\ At("enter", "record")
  BY RequestsAreTyped DEF AInv, IInv, TypeOK, Record, At, ByOperation
<1>2. CASE ~Exists(theOp) \/ Full(theOp)
  BY <1>1, <1>2 DEF LeftToSweep
<1>3. CASE Owners(s) # {} /\ ~(~Exists(theOp) \/ Full(theOp))
  <2>1. SameStages(mem, mem')
    <3>1. mem' = mem \/ CancelThen(req.id, "done")
      BY <1>3 DEF Record
    <3> QED
      BY <1>1, <3>1, CancelStages DEF SameStages
  <2> QED
    BY <1>3, <2>1, OwnersSame
<1>4. CASE Owners(s) = {} /\ ~(~Exists(theOp) \/ Full(theOp))
  <2>1. req.stage \notin theOp.stages
    BY <1>1, <1>4 DEF Owners, theOp
  <2>2. mem' = Registering(req.id, req.stage)
    BY <1>4, <2>1 DEF Record, SaveThen
  <2> QED
    BY <1>1, <2>2, RegisteredOwns
<1> QED
  BY <1>2, <1>3, <1>4

\* A job that has taken a stage from its operation keeps it until it gives it away.
LEMMA HandOffStays ==
    ASSUME AInv, JobSteps, ~Handovers, NEW s, ByHandOff(s)
    PROVE  ByHandOff(s)'
<1>1. job \in Job /\ JobsFit /\ IInv /\ GInv
  BY DEF AInv, IInv, TypeOK, SInv
<1>2. HandOffs /\ req.stage = s
  BY DEF ByHandOff, Handing
<1>3. job.at \notin {"idle", "save"}
  BY JobStepsHold
<1>4. \/ CommitChecks \/ CommitAdmits \/ Rechecks \/ CommitJudges \/ CommitRejudges \/ TakeChecks
  BY <1>1, <1>2, StepsOfKinds DEF HandOffs, Handovers
<1>5. job.at # "refused"
  BY <1>4 DEF CommitChecks, Check, CommitAdmits, Rechecks, CommitJudges, CommitRejudges,
              TakeChecks, At
<1>6. job.permitted
  BY <1>3, <1>5 DEF ByHandOff, Handing
<1>7. job.at # "enter"
  BY <1>1, <1>6 DEF JobsFit, Entering
<1>8. CommitAdmits \/ Rechecks \/ CommitRejudges
  BY <1>4, <1>6, <1>7 DEF CommitChecks, Check, CommitJudges, TakeChecks, At
<1>9. job'.req = job.req /\ job'.permitted = job.permitted
  <2>1. CASE CommitAdmits
    <3>1. \/ Go("recheck") \/ SaveThen(Relinquishing(req.id, req.stage), "refused", "refused")
      BY <2>1 DEF CommitAdmits, RelinquishThen
    <3> QED
      BY <1>1, <3>1, Goes, Saves DEF JobCarries
  <2>2. CASE Rechecks
    BY <1>1, <2>2 DEF Rechecks, Job
  <2>3. CASE CommitRejudges
    <3>1. Go("granted") \/ Go("refused")
      BY <2>3 DEF CommitRejudges
    <3>2. "granted" \in Steps /\ "refused" \in Steps
      BY DEF Steps
    <3> QED
      BY <1>1, <3>1, <3>2, Goes DEF JobCarries
  <2> QED
    BY <1>8, <2>1, <2>2, <2>3
<1> QED
  BY <1>2, <1>6, <1>9 DEF ByHandOff, Handing, HandOffs, req

LEMMA JobStepsAnswer == ASSUME AInv, JobSteps, NEW s \in Stages PROVE Answered(s)
<1>1. CASE Handovers
  BY <1>1, HandoversAnswer
<1>2. CASE ~Handovers
  <2>1. IInv /\ TInv /\ TypeOK /\ NothingUnowned /\ UNCHANGED <<queue, running, fate>>
    BY <1>2, JobStepsAlone DEF AInv, IInv
  <2>2. ByHandler(s) <=> ByHandler(s)'
    BY <2>1 DEF ByHandler
  <2>3. ByReport(s) <=> ByReport(s)'
    BY <2>1 DEF ByReport
  <2>4. ByHandOff(s) => ByHandOff(s)'
    BY <1>2, HandOffStays
  <2>5. ByRecord(s) => Owners(s)' # {} \/ LeftToSweep(s)
    <3> HAVE ByRecord(s)
    <3>1. At("enter", "record") /\ req.stage = s
      BY JobStepsHold DEF ByRecord, Entering, At
    <3>2. Record
      BY <3>1, RecordsAreRecorded
    <3> QED
      BY <3>1, <3>2, RecordAnswers
  <2>6. CASE HeldBut(mem, mem', {}) \/ req.stage # s
    <3>1. Owners(s) # {} => Owners(s)' # {} \/ LeftToSweep(s)
      BY <2>1, <2>6, JobHeld, JobStepsEvict, OwnersAnswer
    <3> QED
      BY <2>1, <2>2, <2>3, <2>4, <2>5, <3>1, HandsOf DEF Answered
  <2>7. CASE Registers /\ req.stage = s
    <3>1. Owners(s)' # {}
      BY <2>1, <2>7, RegisteredOwns DEF Registers, TypeOK
    <3> QED
      BY <3>1, HandsOf DEF Answered
  <2>8. CASE Relinquishes /\ req.stage = s
    BY <2>1, <2>8, RelinquishedAnswers
  <2> QED
    BY <2>1, <2>6, <2>7, <2>8, JobHeld
<1> QED
  BY <1>1, <1>2

\* The bytes of a stage are given away once, unless a refused removal brought a
\* capability back, and until then somebody in memory answers for them, but for
\* what the store sweeps (`authorize`, `recordResult`, `dispatchStageCommit`,
\* `takeStageForCleanup`).
THEOREM StagesAreAccountedFor == Spec => StageIsAccountedFor
<1> DEFINE Accounted ==
        \A s \in Stages :
            /\ spent'["removal-failure"] = 0 => fate'[s] # "consumed-twice"
            /\ fate'[s] = "begun" /\ (fate[s] = "begun" => InHand(s)) =>
                   InHand(s)' \/ LeftToSweep(s)
<1>1. AInv /\ [Next]_vars => [Accounted]_vars
  <2> SUFFICES ASSUME AInv, Next, NEW s \in Stages
      PROVE  /\ spent'["removal-failure"] = 0 => fate'[s] # "consumed-twice"
             /\ fate'[s] = "begun" /\ (fate[s] = "begun" => InHand(s)) =>
                    InHand(s)' \/ LeftToSweep(s)
    OBVIOUS
  <2>1. Once'
    BY NextAccounts DEF AInv, SInv
  <2>2. Answered(s)
    <3>1. TypeOK
      BY DEF AInv, IInv
    <3>2. Acquire \/ Saved \/ SaveFailed \/ Restarts \/ JobSteps \/ Quietly
      BY NextCases
    <3> QED
      BY <3>1, <3>2, AcquireAnswers, SavedAnswers, LossesAnswer, JobStepsAnswer, QuietlyAnswers
  <2> QED
    BY <2>1, <2>2 DEF Once, Answered
<1> QED
  BY <1>1, InitAccounts, NextAccounts, PTL DEF Spec, StageIsAccountedFor

-----------------------------------------------------------------------------
(* The controller implements ExportAuthority: what a save may add to the   *)
(* storage.                                                                *)

Pending == IntentsAhead /\ SavePending

\* A change to memory that makes nothing live, or what was not stored before.
Unsaved ==
    /\ \A o \in OpIds : Live(mem'.ops[o]) =>
          \/ Live(mem.ops[o]) /\ mem'.ops[o].tab = mem.ops[o].tab
          \/ ~Live(disk.ops[o]) /\ IntentsOn(disk, mem'.ops[o].tab) # {}
    /\ \A i \in IntentIds : mem'.intents[i].there =>
          mem'.intents[i] = mem.intents[i] \/ ~disk.intents[i].there

LEMMA UnsavedPends ==
    ASSUME GrantsAreDurable, job.at # "save", Unsaved, disk' = disk
    PROVE  SavePending'
<1>1. ASSUME NEW o \in OpIds, Live(mem'.ops[o])
      PROVE  IF Live(disk.ops[o]) THEN disk.ops[o].tab = mem'.ops[o].tab
             ELSE IntentsOn(disk, mem'.ops[o].tab) # {}
  <2>1. CASE Live(mem.ops[o]) /\ mem'.ops[o].tab = mem.ops[o].tab
    <3>1. disk.ops[o] = mem.ops[o]
      BY <2>1 DEF GrantsAreDurable
    <3> QED
      BY <2>1, <3>1
  <2>2. CASE ~Live(disk.ops[o]) /\ IntentsOn(disk, mem'.ops[o].tab) # {}
    BY <2>2
  <2> QED
    BY <1>1, <2>1, <2>2 DEF Unsaved
<1>2. ASSUME NEW i \in IntentIds, mem'.intents[i].there, disk.intents[i].there
      PROVE  mem'.intents[i] = disk.intents[i]
  <2>1. mem'.intents[i] = mem.intents[i]
    BY <1>2 DEF Unsaved
  <2> QED
    BY <1>2, <2>1 DEF GrantsAreDurable, Intents
<1>3. \A o \in OpIds : Live(mem'.ops[o]) =>
              IF Live(disk'.ops[o]) THEN disk'.ops[o].tab = mem'.ops[o].tab
              ELSE IntentsOn(disk', mem'.ops[o].tab) # {}
  BY <1>1
<1>4. \A i \in Intents(mem') \cap Intents(disk') : mem'.intents[i] = disk'.intents[i]
  BY <1>2 DEF Intents
<1> QED
  BY <1>3, <1>4 DEF SavePending

LEMMA KeptIsUnsaved == ASSUME GrantsKept(mem, mem') PROVE Unsaved
  BY DEF GrantsKept, LiveKept, IntentsKept, Unsaved

LEMMA ProgressIsUnsaved == ASSUME Progress(mem, mem') PROVE Unsaved
  BY DEF Progress, OpsMoved, Moved, IntentsKept, Unsaved

LEMMA AcquireWeakens == ASSUME IInv, Acquire PROVE GrantsKept(mem, mem') /\ UNCHANGED <<disk, next>>
<1>1. mem \in State /\ UNCHANGED <<disk, next>>
  BY DEF IInv, TypeOK, Acquire
<1>2. Weaker(mem, Pruned(mem))
  BY <1>1, PrunedWeaker
<1>3. Pruned(mem) \in State
  BY <1>2 DEF Weaker, GrantsKept
<1>4. Weaker(Pruned(mem), Recovered(Pruned(mem)))
  BY <1>3, RecoveredWeaker
<1>5. Weaker(mem, Recovered(Pruned(mem)))
  BY <1>2, <1>4, WeakerTransitive
<1>6. mem' \in {Pruned(mem), Recovered(Pruned(mem))}
  BY DEF Acquire
<1> QED
  BY <1>1, <1>2, <1>5, <1>6 DEF Weaker

\* Grants are given by StartAdmits and ClaimAdmits, under fresh identities.
LEMMA JobStepsUnsaved ==
    ASSUME IInv, TInv, GInv, IntentsAhead, JobSteps
    PROVE  /\ Unsaved
           /\ \A i \in IntentIds : mem'.intents[i].there => mem.intents[i].there \/ i = next.intent
           /\ \A o \in OpIds : Live(mem'.ops[o]) => Live(mem.ops[o]) \/ o = next.op
           /\ next'.op \in {next.op, next.op + 1} /\ next'.intent \in {next.intent, next.intent + 1}
           /\ \A i \in IntentIds : i = next.intent /\ mem'.intents[i].there => next'.intent = i + 1
<1>0. job.at # "save" /\ disk' = disk /\ GrantsAreDurable /\ TypeOK /\ Ahead
  BY JobStepsHold DEF GInv, IInv, TInv
<1>1. CASE StartAdmits
  <2>1. /\ next.intent \in IntentIds /\ next'.op = next.op /\ next'.intent = next.intent + 1
        /\ \A i \in IntentIds : mem'.intents[i].there <=> (i = next.intent \/ mem.intents[i].there)
        /\ \A i \in IntentIds \ {next.intent} : mem'.intents[i] = mem.intents[i]
        /\ \A o \in OpIds : mem'.ops[o] = IF o \in Oldest(Reclaimable(mem), SlotsNeeded)
                                          THEN NoOperation ELSE mem.ops[o]
    BY <1>1, StartChanges
  <2>2. ~Live(NoOperation)
    BY DEF Live, NoOperation
  <2>3. \A o \in OpIds : Live(mem'.ops[o]) => mem'.ops[o] = mem.ops[o]
    BY <2>1, <2>2
  <2>4. ~disk.intents[next.intent].there
    BY <2>1 DEF IntentsAhead, IntentIds
  <2>5. Unsaved
    BY <2>1, <2>3, <2>4 DEF Unsaved
  <2> QED
    BY <2>1, <2>3, <2>5
<1>2. CASE ClaimAdmits
  <2>1. CASE UNCHANGED <<mem, next>>
    <3>1. ASSUME NEW i \in IntentIds, i = next.intent PROVE ~mem.intents[i].there
      BY <3>1 DEF IntentsAhead, IntentIds
    <3> QED
      BY <2>1, <3>1 DEF Unsaved
  <2>2. CASE ~UNCHANGED <<mem, next>>
    <3>1. /\ next.op \in OpIds /\ next'.op = next.op + 1 /\ next'.intent = next.intent
          /\ req.id \in IntentIds /\ mem.intents[req.id].there
          /\ mem'.ops[next.op].tab = mem.intents[req.id].tab
          /\ \A i \in IntentIds : mem'.intents[i].there <=> (i # req.id /\ mem.intents[i].there)
          /\ \A i \in IntentIds \ {req.id} : mem'.intents[i] = mem.intents[i]
          /\ \A o \in OpIds \ {next.op} : mem'.ops[o] = mem.ops[o]
      BY <1>2, <2>2, ClaimChanges
    <3>2. disk.intents[req.id] = mem.intents[req.id]
      BY <1>0, <3>1 DEF GrantsAreDurable, Intents
    <3>3. req.id \in IntentsOn(disk, mem'.ops[next.op].tab)
      BY <3>1, <3>2 DEF IntentsOn, Intents
    <3>4. ~Live(disk.ops[next.op])
      BY <1>0, <3>1 DEF Ahead, Exists, Live, OpIds
    <3>5. Unsaved
      BY <3>1, <3>3, <3>4 DEF Unsaved
    <3>6. ASSUME NEW i \in IntentIds, i = next.intent PROVE ~mem.intents[i].there
      BY <3>6 DEF IntentsAhead, IntentIds
    <3> QED
      BY <3>1, <3>5, <3>6
  <2> QED
    BY <2>1, <2>2
<1>3. CASE ~StartAdmits /\ ~ClaimAdmits
  <2>1. Progress(mem, mem') /\ next'.op = next.op /\ next'.intent = next.intent
    BY <1>3, JobStepsProgress, IdentitiesKept
  <2>2. ASSUME NEW i \in IntentIds, i = next.intent PROVE ~mem.intents[i].there
    BY <2>2 DEF IntentsAhead, IntentIds
  <2>3. \A i \in IntentIds : mem'.intents[i].there => mem.intents[i].there
    BY <2>1 DEF Progress, IntentsKept
  <2>4. \A o \in OpIds : Live(mem'.ops[o]) => Live(mem.ops[o])
    BY <2>1 DEF Progress, OpsMoved, Moved
  <2> QED
    BY <2>1, <2>2, <2>3, <2>4, ProgressIsUnsaved
<1> QED
  BY <1>1, <1>2, <1>3

LEMMA QuietlyWorks ==
    ASSUME TypeOK, Quietly PROVE job' = job \/ job'.at = "admit"
<1>1. CASE SettingsArrive
  BY <1>1 DEF SettingsArrive, TypeOK, Job
<1>2. CASE Requests
  <2>1. \E r : Send(r)
    BY <1>2, SentAbout
  <2> QED
    BY <2>1 DEF Send
<1>3. CASE ~SettingsArrive /\ ~Requests
  BY <1>3 DEF Quietly, Deliver, HandlerReturns, TimePasses, Navigates, Reloads, Settles, TabCloses,
              WindowCloses, SettingsWritten, UserSavesSettings, Disturb
<1> QED
  BY <1>1, <1>2, <1>3

LEMMA JobStepsPend ==
    ASSUME IInv, TInv, GInv, Pending, JobSteps PROVE Pending'
<1>1. TypeOK /\ job.at # "save" /\ disk' = disk /\ GrantsAreDurable
  BY JobStepsHold DEF IInv, GInv
<1>2. SavePending'
  BY <1>1, JobStepsUnsaved, UnsavedPends DEF Pending
<1>3. ASSUME NEW i \in IntentIds, i >= next'.intent
      PROVE  ~mem'.intents[i].there /\ ~disk'.intents[i].there
  <2>1. i \in Nat /\ next.intent \in Nat
    BY <1>1, CountersAreNatural DEF IntentIds
  <2>2. next'.intent \in {next.intent, next.intent + 1}
        /\ (mem'.intents[i].there => mem.intents[i].there \/ i = next.intent)
        /\ (i = next.intent /\ mem'.intents[i].there => next'.intent = i + 1)
    BY JobStepsUnsaved DEF Pending
  <2>3. i >= next.intent
    BY <1>3, <2>1, <2>2
  <2>4. ~mem.intents[i].there /\ ~disk.intents[i].there
    BY <2>3 DEF Pending, IntentsAhead
  <2> QED
    BY <1>1, <1>3, <2>1, <2>2, <2>4
<1>4. IntentsAhead'
  BY <1>3 DEF IntentsAhead
<1> QED
  BY <1>2, <1>4 DEF Pending

LEMMA NextPends == IInv /\ TInv /\ GInv /\ Pending /\ [Next]_vars => Pending'
<1> SUFFICES ASSUME IInv, TInv, GInv, Pending, [Next]_vars PROVE Pending'
  OBVIOUS
<1>0. TypeOK /\ StepsFit /\ job \in Job
  BY DEF IInv, TypeOK
<1>1. CASE UNCHANGED vars
  BY <1>1 DEF vars, Pending, IntentsAhead, SavePending
<1>2. CASE Acquire
  <2>1. GrantsKept(mem, mem') /\ UNCHANGED <<disk, next>> /\ job.at # "save" /\ GrantsAreDurable
    BY <1>2, AcquireWeakens DEF Acquire, GInv
  <2>2. SavePending'
    BY <2>1, KeptIsUnsaved, UnsavedPends
  <2>3. IntentsAhead'
    BY <2>1 DEF Pending, IntentsAhead, GrantsKept, IntentsKept
  <2> QED
    BY <2>2, <2>3 DEF Pending
<1>3. CASE Saved \/ SaveFailed
  <2>1. /\ mem' \in {mem, EmptyState} /\ disk' \in {disk, mem, EmptyState} /\ next' = next
        /\ \E step \in {job.onSaved, job.onFailed} : Go(step)
    BY <1>3 DEF Saved, SaveFailed, AfterRefusedSave
  <2>2. job'.at # "save"
    <3>1. PICK step \in {job.onSaved, job.onFailed} : Go(step)
      BY <2>1
    <3>2. step # "save"
      BY <1>0 DEF StepsFit
    <3>3. CASE step = "done"
      BY <3>1, <3>3 DEF Go, Finish, NoJob
    <3>4. CASE step # "done"
      BY <1>0, <3>1, <3>2, <3>4 DEF Go, Job
    <3> QED
      BY <3>3, <3>4
  <2>3. \A i \in IntentIds : ~EmptyState.intents[i].there
    BY DEF EmptyState, NoIntent
  <2>4. IntentsAhead'
    BY <2>1, <2>3 DEF Pending, IntentsAhead
  <2> QED
    BY <2>2, <2>4 DEF Pending, SavePending
<1>4. CASE Restarts
  <2>1. mem' \in {disk, EmptyState} /\ UNCHANGED <<disk, next>> /\ job'.at # "save"
    BY <1>4 DEF Restarts, Hydrate, NoJob
  <2>2. \A i \in IntentIds : ~EmptyState.intents[i].there
    BY DEF EmptyState, NoIntent
  <2>3. IntentsAhead'
    BY <2>1, <2>2 DEF Pending, IntentsAhead
  <2> QED
    BY <2>1, <2>3 DEF Pending, SavePending
<1>5. CASE JobSteps
  BY <1>5, JobStepsPend
<1>6. CASE Quietly
  <2>1. UNCHANGED <<mem, disk, next>> /\ (job' = job \/ job'.at = "admit")
    BY <1>0, <1>6, QuietlyKeeps, QuietlyWorks
  <2> QED
    BY <2>1 DEF Pending, IntentsAhead, SavePending
<1> QED
  BY <1>1, <1>2, <1>3, <1>4, <1>5, <1>6, NextCases

LEMMA InitPends == Init => Pending
<1> SUFFICES ASSUME Init PROVE Pending
  OBVIOUS
<1>1. /\ disk \in UNION {sc.disks : sc \in Scenarios} /\ mem \in {disk, EmptyState}
      /\ next.intent = 1 + Cardinality(Intents(disk)) /\ job.at # "save"
  BY DEF Init, Hydrate, NoJob
<1>2. ASSUME NEW i \in IntentIds, i >= next.intent PROVE ~disk.intents[i].there
  <2>1. Intents(disk) \subseteq 1 .. Cardinality(Intents(disk))
        /\ Cardinality(Intents(disk)) \in Nat
    BY <1>1, StoredStates, RecordsFinite
  <2>2. i \in Nat
    BY DEF IntentIds
  <2>3. i \notin 1 .. Cardinality(Intents(disk))
    BY <1>1, <1>2, <2>1, <2>2
  <2> QED
    BY <2>1, <2>3 DEF Intents
<1>3. \A i \in IntentIds : ~EmptyState.intents[i].there
  BY DEF EmptyState, NoIntent
<1> QED
  BY <1>1, <1>2, <1>3 DEF Pending, IntentsAhead, SavePending

-----------------------------------------------------------------------------
(* The stored state as ExportAuthority sees it.                            *)

HolderIn(s, t) == IF Holders(s, t) = {} THEN Nobody ELSE CHOOSE h \in Holders(s, t) : TRUE
Numbered(s, n) == /\ \A i \in IntentIds : i >= n.intent => ~s.intents[i].there
                  /\ \A o \in OpIds : o >= n.op => ~Exists(s.ops[o])

LEMMA StoredHolderIn ==
    ASSUME NEW t PROVE StoredHolder(t) = HolderIn(disk, t) /\ StoredHolder(t)' = HolderIn(disk', t)
  BY DEF StoredHolder, HolderIn

LEMMA HolderHolds ==
    ASSUME NEW s, NEW t \in Tabs
    PROVE  /\ Holders(s, t) = {} => HolderIn(s, t) = Nobody
           /\ Holders(s, t) # {} => HolderIn(s, t) \in Holders(s, t)
           /\ OneHolder(s) => \A h \in Holders(s, t) : HolderIn(s, t) = h
<1>1. Holders(s, t) # {} => HolderIn(s, t) \in Holders(s, t)
  BY DEF HolderIn
<1> QED
  BY <1>1 DEF HolderIn, OneHolder

LEMMA HoldersAre ==
    ASSUME NEW s, NEW t, NEW h
    PROVE  h \in Holders(s, t) <=>
              \/ \E i \in IntentIds :
                    h = <<"intent", i>> /\ s.intents[i].there /\ s.intents[i].tab = t
              \/ \E o \in OpIds : h = <<"operation", o>> /\ Live(s.ops[o]) /\ s.ops[o].tab = t
  BY DEF Holders, IntentsOn, Intents, LiveOn

LEMMA GrantsAre ==
    ASSUME NEW s, NEW g
    PROVE  g \in GrantsIn(s) <=>
              \/ \E i \in IntentIds : g = <<"intent", i>> /\ s.intents[i].there
              \/ \E o \in OpIds : g = <<"operation", o>> /\ Live(s.ops[o])
  BY DEF GrantsIn, Intents

LEMMA HoldersAreGrants ==
    ASSUME NEW s, NEW t PROVE Holders(s, t) \subseteq GrantsIn(s)
  BY DEF Holders, GrantsIn, IntentsOn, LiveOn

\* A grant holds one tab, and nobody is no grant.
LEMMA HoldersApart ==
    ASSUME NEW s, NEW t, NEW u, NEW h, h \in Holders(s, t), h \in Holders(s, u)
    PROVE  t = u
  BY HoldersAre

LEMMA NobodyHolds == ASSUME NEW s, NEW t PROVE Nobody \notin Holders(s, t)
  BY HoldersAre DEF Nobody

Issued(n) == ({"intent"} \X {i \in IntentIds : i < n.intent})
                \cup ({"operation"} \X {o \in OpIds : o < n.op})

LEMMA NumberedIsIssued ==
    ASSUME NEW s, NEW n, n.intent \in Nat, n.op \in Nat, Numbered(s, n)
    PROVE  GrantsIn(s) \subseteq Issued(n)
<1> SUFFICES ASSUME NEW g \in GrantsIn(s) PROVE g \in Issued(n)
  OBVIOUS
<1>1. ASSUME NEW i \in IntentIds, g = <<"intent", i>>, s.intents[i].there PROVE g \in Issued(n)
  <2>1. i < n.intent
    BY <1>1 DEF Numbered, IntentIds
  <2> QED
    BY <1>1, <2>1 DEF Issued
<1>2. ASSUME NEW o \in OpIds, g = <<"operation", o>>, Live(s.ops[o]) PROVE g \in Issued(n)
  <2>1. o < n.op
    BY <1>2 DEF Numbered, OpIds, Live, Exists
  <2> QED
    BY <1>2, <2>1 DEF Issued
<1> QED
  BY <1>1, <1>2, GrantsAre

\* A grant that was given stays given, and what is stored has been given.
LEMMA GivenGrows ==
    ASSUME IInv, TInv, GInv, Pending, [Next]_vars, NEW g \in Given PROVE g \in Given'
<1>0. /\ TypeOK /\ job.at \in Steps /\ next.intent \in Nat /\ next.op \in Nat
      /\ next'.intent \in Nat /\ next'.op \in Nat
  <2>1. TypeOK /\ TypeOK'
    BY NextKeeps DEF IInv
  <2>2. next'.intent \in Nat /\ next'.op \in Nat
    BY <2>1, IdentitiesAreNatural DEF TypeOK
  <2> QED
    BY <2>1, <2>2, CountersAreNatural DEF TypeOK, Job
<1>1. g \in Issued(next) /\ ~(g \in GrantsIn(mem) /\ g \notin GrantsIn(disk))
  BY DEF Given, Issued
<1>2. /\ next.intent <= next'.intent /\ next.op <= next'.op
      /\ ~(g \in GrantsIn(mem') /\ g \notin GrantsIn(disk'))
  <2>1. CASE UNCHANGED <<mem, disk, next>>
    BY <1>0, <1>1, <2>1
  <2>2. CASE Saved
    BY <1>0, <2>2 DEF Saved
  <2>3. CASE Acquire
    <3>1. GrantsKept(mem, mem') /\ UNCHANGED <<disk, next>>
      BY <2>3, AcquireWeakens
    <3>2. g \in GrantsIn(mem') => g \in GrantsIn(mem)
      BY <3>1, GrantsAre DEF GrantsKept, IntentsKept, LiveKept
    <3> QED
      BY <1>0, <1>1, <3>1, <3>2
  <2>4. CASE SaveFailed
    <3>1. mem' = EmptyState /\ next' = next
      BY <2>4 DEF SaveFailed, AfterRefusedSave
    <3>2. g \notin GrantsIn(EmptyState)
      BY GrantsAre DEF EmptyState, NoIntent, NoOperation, Live
    <3> QED
      BY <1>0, <3>1, <3>2
  <2>5. CASE Restarts
    <3>1. mem' \in {disk, EmptyState} /\ UNCHANGED <<disk, next>>
      BY <2>5 DEF Restarts, Hydrate
    <3>2. g \notin GrantsIn(EmptyState)
      BY GrantsAre DEF EmptyState, NoIntent, NoOperation, Live
    <3> QED
      BY <1>0, <3>1, <3>2
  <2>6. CASE JobSteps
    <3>1. /\ \A i \in IntentIds : mem'.intents[i].there => mem.intents[i].there \/ i = next.intent
          /\ \A o \in OpIds : Live(mem'.ops[o]) => Live(mem.ops[o]) \/ o = next.op
          /\ next'.op \in {next.op, next.op + 1} /\ next'.intent \in {next.intent, next.intent + 1}
      BY <2>6, JobStepsUnsaved DEF Pending
    <3>2. disk' = disk
      BY <2>6, JobStepsHold
    <3>3. ASSUME NEW i \in IntentIds, g = <<"intent", i>>, mem'.intents[i].there
          PROVE  g \in GrantsIn(mem)
      <4>1. i < next.intent
        BY <1>1, <3>3 DEF Issued
      <4>2. mem.intents[i].there
        BY <1>0, <3>1, <3>3, <4>1
      <4> QED
        BY <3>3, <4>2, GrantsAre
    <3>4. ASSUME NEW o \in OpIds, g = <<"operation", o>>, Live(mem'.ops[o])
          PROVE  g \in GrantsIn(mem)
      <4>1. o < next.op
        BY <1>1, <3>4 DEF Issued
      <4>2. Live(mem.ops[o])
        BY <1>0, <3>1, <3>4, <4>1
      <4> QED
        BY <3>4, <4>2, GrantsAre
    <3>5. g \in GrantsIn(mem') => g \in GrantsIn(mem)
      BY <3>3, <3>4, GrantsAre
    <3> QED
      BY <1>0, <1>1, <3>1, <3>2, <3>5
  <2>7. CASE Quietly
    BY <1>0, <2>1, <2>7, QuietlyKeeps
  <2>8. CASE UNCHANGED vars
    BY <2>1, <2>8 DEF vars
  <2> QED
    BY <2>2, <2>3, <2>4, <2>5, <2>6, <2>7, <2>8, NextCases
<1>3. g \in Issued(next')
  <2>1. ASSUME NEW i \in IntentIds, g = <<"intent", i>>, i < next.intent
        PROVE  g \in {"intent"} \X {j \in IntentIds : j < next'.intent}
    BY <1>0, <1>2, <2>1 DEF IntentIds
  <2>2. ASSUME NEW o \in OpIds, g = <<"operation", o>>, o < next.op
        PROVE  g \in {"operation"} \X {x \in OpIds : x < next'.op}
    BY <1>0, <1>2, <2>2 DEF OpIds
  <2> QED
    BY <1>1, <2>1, <2>2 DEF Issued
<1> QED
  BY <1>2, <1>3 DEF Given, Issued

\* A tab falls free, is given to a fresh click, or passes from a click to a fresh
\* operation.
Follows(old, new) ==
    \/ new \in {old, Nobody}
    \/ new \in ({"intent"} \X IntentIds) \ Given
    \/ new \in ({"operation"} \X OpIds) \ Given /\ old \in {"intent"} \X IntentIds

\* The write of a save stores what was given in memory.
LEMMA SavedFollow ==
    ASSUME IInv, Pending, job.at = "save", NEW t \in Tabs
    PROVE  Follows(HolderIn(disk, t), HolderIn(mem, t))
<1>1. OneHolder(disk)
  BY DEF IInv, Grants
<1>2. CASE Holders(mem, t) = {}
  BY <1>2, HolderHolds DEF Follows
<1>3. ASSUME NEW i \in IntentIds, HolderIn(mem, t) = <<"intent", i>>,
             mem.intents[i].there, mem.intents[i].tab = t
      PROVE  Follows(HolderIn(disk, t), HolderIn(mem, t))
  <2>1. CASE disk.intents[i].there
    <3>1. disk.intents[i].tab = t
      BY <1>3, <2>1 DEF Pending, SavePending, Intents
    <3>2. <<"intent", i>> \in Holders(disk, t)
      BY <2>1, <3>1, HoldersAre
    <3>3. HolderIn(disk, t) = <<"intent", i>>
      BY <1>1, <3>2, HolderHolds
    <3> QED
      BY <1>3, <3>3 DEF Follows
  <2>2. CASE ~disk.intents[i].there
    <3>1. <<"intent", i>> \in GrantsIn(mem) /\ <<"intent", i>> \notin GrantsIn(disk)
      BY <1>3, <2>2, GrantsAre
    <3>2. <<"intent", i>> \notin Given
      BY <3>1 DEF Given
    <3> QED
      BY <1>3, <3>2 DEF Follows
  <2> QED
    BY <2>1, <2>2
<1>4. ASSUME NEW o \in OpIds, HolderIn(mem, t) = <<"operation", o>>,
             Live(mem.ops[o]), mem.ops[o].tab = t
      PROVE  Follows(HolderIn(disk, t), HolderIn(mem, t))
  <2>1. CASE Live(disk.ops[o])
    <3>1. disk.ops[o].tab = t
      BY <1>4, <2>1 DEF Pending, SavePending
    <3>2. <<"operation", o>> \in Holders(disk, t)
      BY <2>1, <3>1, HoldersAre
    <3>3. HolderIn(disk, t) = <<"operation", o>>
      BY <1>1, <3>2, HolderHolds
    <3> QED
      BY <1>4, <3>3 DEF Follows
  <2>2. CASE ~Live(disk.ops[o])
    <3>1. <<"operation", o>> \in GrantsIn(mem) /\ <<"operation", o>> \notin GrantsIn(disk)
      BY <1>4, <2>2, GrantsAre
    <3>2. <<"operation", o>> \notin Given
      BY <3>1 DEF Given
    <3>3. IntentsOn(disk, t) # {}
      BY <1>4, <2>2 DEF Pending, SavePending
    <3>4. PICK i \in IntentIds : disk.intents[i].there /\ disk.intents[i].tab = t
      BY <3>3 DEF IntentsOn, Intents
    <3>5. <<"intent", i>> \in Holders(disk, t)
      BY <3>4, HoldersAre
    <3>6. HolderIn(disk, t) = <<"intent", i>>
      BY <1>1, <3>5, HolderHolds
    <3> QED
      BY <1>4, <3>2, <3>6 DEF Follows
  <2> QED
    BY <2>1, <2>2
<1>5. CASE Holders(mem, t) # {}
  <2>1. HolderIn(mem, t) \in Holders(mem, t)
    BY <1>5, HolderHolds
  <2> QED
    BY <2>1, <1>3, <1>4, HoldersAre
<1> QED
  BY <1>2, <1>5

LEMMA HoldersFollow ==
    ASSUME IInv, Pending, [Next]_vars, NEW t \in Tabs
    PROVE  Follows(HolderIn(disk, t), HolderIn(disk', t))
<1>1. TypeOK
  BY DEF IInv
<1>2. CASE Saved
  BY <1>2, SavedFollow DEF Saved
<1>3. CASE disk' = EmptyState
  BY <1>3, EmptyStateFits, HolderHolds DEF Follows
<1>4. CASE disk' = disk
  BY <1>4 DEF Follows
<1>5. disk' \in {disk, EmptyState} \/ Saved
  <2>1. CASE UNCHANGED vars
    BY <2>1 DEF vars
  <2>2. CASE Acquire \/ SaveFailed \/ Restarts
    BY <2>2 DEF Acquire, SaveFailed, Restarts
  <2>3. CASE JobSteps
    BY <2>3, JobStepsHold
  <2>4. CASE Quietly
    BY <1>1, <2>4, QuietlyKeeps
  <2> QED
    BY <2>1, <2>2, <2>3, <2>4, NextCases
<1> QED
  BY <1>2, <1>3, <1>4, <1>5

\* What is handed to a commit stays so, and only a dispatch hands anything over.
LEMMA HandedStays ==
    ASSUME AInv, [Next]_vars, NEW s \in Stages
    PROVE  \/ fate[s] = "handed-to-commit" <=> fate'[s] = "handed-to-commit"
           \/ CommitDispatches /\ req.stage = s
<1>0. TypeOK /\ IInv /\ SInv /\ fate \in [Stages -> Fates]
  BY DEF AInv, IInv, TypeOK
<1>1. CASE fate' = fate
  BY <1>1
<1>2. CASE AuthorizeGrants /\ fate' # fate
  <2>0. req.kind = "authorize" /\ job.at = "granted"
    BY <1>2 DEF AuthorizeGrants, At
  <2>1. CASE req.purpose = "begin"
    <3>1. fate' = [fate EXCEPT ![req.stage] = "begun"]
      BY <1>2, <2>1 DEF AuthorizeGrants
    <3>2. req.stage \in Stages => fate[req.stage] # "handed-to-commit"
      BY <1>0, <2>1 DEF SInv, MessagesFit, Sound, Settled
    <3> QED
      BY <1>0, <3>1, <3>2
  <2>2. CASE req.purpose = "abort"
    <3>1. fate' = Consume(req.stage, "aborted-by-document")
      BY <1>2, <2>2 DEF AuthorizeGrants
    <3>2. req.stage \in theOp.stages /\ req.id \in OpIds /\ req.stage \in Stages
      BY <1>0, <2>0, <2>2, RequestsAreTyped DEF SInv, AbortsOwned, ByOperation
    <3>3. ~Unowned(mem, req.stage)
      BY <3>2 DEF Unowned, theOp
    <3>4. fate[req.stage] # "handed-to-commit"
      BY <1>0, <3>2, <3>3 DEF SInv, SettledGone, Settled
    <3> QED
      BY <1>0, <3>1, <3>4 DEF Consume
  <2>3. CASE req.purpose = "open"
    <3>1. PICK x \in Stages : Fresh(x) /\ fate' = [fate EXCEPT ![x] = "begun"]
      BY <1>2, <2>3 DEF AuthorizeGrants
    <3> QED
      BY <1>0, <3>1 DEF Fresh
  <2> QED
    BY <1>2, <2>1, <2>2, <2>3 DEF AuthorizeGrants
<1>3. CASE WorkerCleansUp
  <2>1. fate' = Consume(req.stage, "aborted-by-worker") /\ req.kind \in {"commit", "take"}
        /\ job.at = "refused"
    BY <1>3 DEF WorkerCleansUp
  <2>2. ~Settled(req.stage)
    BY <1>0, <2>1 DEF SInv, HandsOver, Handing, HandOffs
  <2>3. fate[req.stage] # "handed-to-commit"
    BY <2>2 DEF Settled
  <2> QED
    BY <1>0, <2>1, <2>3 DEF Consume
<1>4. CASE HandlerReturns /\ fate' # fate
  <2>1. PICK h \in running : h.purpose = "open" /\ fate' = Consume(h.stage, "aborted-by-worker")
    BY <1>4 DEF HandlerReturns
  <2>2. Sound(h) /\ h.stage \in Stages
    BY <1>0, <2>1 DEF SInv, MessagesFit, IInv, RunningFit
  <2>3. fate[h.stage] = "begun"
    BY <2>1, <2>2 DEF Sound
  <2> QED
    BY <1>0, <2>1, <2>3 DEF Consume
<1>5. CASE CommitDispatches
  <2>1. fate' = Consume(req.stage, "handed-to-commit")
    BY <1>5 DEF CommitDispatches
  <2> QED
    BY <1>0, <1>5, <2>1 DEF Consume
<1>6. \/ fate' = fate \/ AuthorizeGrants \/ WorkerCleansUp \/ HandlerReturns \/ CommitDispatches
  <2>1. CASE UNCHANGED vars
    BY <2>1 DEF vars, history
  <2>2. CASE Acquire \/ Saved \/ SaveFailed \/ Restarts
    BY <2>2 DEF Acquire, Saved, SaveFailed, Restarts, history
  <2>3. CASE JobSteps
    BY <2>3, JobStepsAlone DEF Handovers, AuthorizeRefuses, history
  <2>4. CASE Quietly
    <3>1. CASE Requests
      <4>1. \E r : Send(r)
        BY <1>0, <3>1, SentAbout
      <4> QED
        BY <4>1 DEF Send, history
    <3>2. CASE ~Requests /\ ~HandlerReturns
      BY <2>4, <3>2 DEF Quietly, SettingsArrive, Deliver, TimePasses, Navigates, Reloads, Settles,
                        TabCloses, WindowCloses, SettingsWritten, UserSavesSettings, Disturb, history
    <3> QED
      BY <3>1, <3>2
  <2> QED
    BY <2>1, <2>2, <2>3, <2>4, NextCases
<1> QED
  BY <1>1, <1>2, <1>3, <1>4, <1>5, <1>6

\* Every step but the dispatch of a commit is one durable write, or none.
LEMMA WritesImplement ==
    ASSUME AInv, Pending, [Next]_vars,
           \A s \in Stages : fate[s] = "handed-to-commit" <=> fate'[s] = "handed-to-commit"
    PROVE  Authority!Write
<1>0. /\ IInv /\ TInv /\ GInv /\ TypeOK /\ TypeOK' /\ IInv' /\ TInv' /\ IntentsAhead'
  BY NextAccounts, NextPends DEF AInv, IInv, Pending
<1> DEFINE old == [t \in Tabs |-> StoredHolder(t)]
           new == [t \in Tabs |-> HolderIn(disk', t)]
           kept == [s \in Stages |-> Custody(s)]
<1>1. old' = new /\ \A t \in Tabs : old[t] = HolderIn(disk, t) /\ new[t] = HolderIn(disk', t)
  BY StoredHolderIn DEF StoredHolder, HolderIn
<1>2. ASSUME NEW t \in Tabs
      PROVE  new[t] = Nobody \/ (new[t] \in Holders(disk', t) /\ new[t] \in GrantsIn(disk'))
  BY HolderHolds, HoldersAreGrants
<1>3. ASSUME NEW t \in Tabs PROVE new[t] \in ({"intent"} \X IntentIds) \cup ({"operation"} \X OpIds) \cup {Nobody}
  BY <1>2, GrantsAre
<1>4. ASSUME NEW t \in Tabs PROVE Follows(old[t], new[t])
  BY <1>0, <1>1, HoldersFollow DEF AInv
<1>5. ASSUME NEW t \in Tabs, NEW u \in Tabs, new[t] = new[u] PROVE t = u \/ new[t] = Nobody
  BY <1>2, <1>5, HoldersApart
<1>6. ASSUME NEW t \in Tabs PROVE new[t] \in Given' \cup {Nobody}
  <2>1. Numbered(disk', next')
    BY <1>0 DEF Numbered, TInv, Ahead, IntentsAhead
  <2>2. next'.intent \in Nat /\ next'.op \in Nat
    BY <1>0, IdentitiesAreNatural DEF TypeOK
  <2>3. new[t] \in GrantsIn(disk') => new[t] \in Issued(next')
    BY <2>1, <2>2, NumberedIsIssued
  <2>4. new[t] \in GrantsIn(disk') => new[t] \in Given'
    BY <2>3 DEF Given, Issued
  <2> QED
    BY <1>2, <2>4
<1>7. Given \subseteq Given'
  BY <1>0, GivenGrows
<1>8. Given' \subseteq ({"intent"} \X IntentIds) \cup ({"operation"} \X OpIds)
  BY DEF Given
<1>9. /\ kept' \in [Stages -> {"free", "held", "handed"}]
      /\ \A s \in Stages : kept[s] = "handed" <=> kept'[s] = "handed"
  BY DEF Custody
<1> QED
  BY <1>1, <1>3, <1>4, <1>5, <1>6, <1>7, <1>8, <1>9
  DEF Authority!Write, Authority!MayFollow, Authority!Holder, Follows

\* The dispatch of a commit gives away a stage that no stored operation holds.
LEMMA DispatchImplements ==
    ASSUME AInv, CommitDispatches, fate'[req.stage] = "handed-to-commit", req.stage \in Stages,
           fate[req.stage] # "handed-to-commit"
    PROVE  \E s \in Stages : Authority!HandOver(s)
<1>0. TypeOK /\ SInv /\ fate \in [Stages -> Fates]
  BY DEF AInv, IInv, TypeOK
<1>1. /\ job.at = "granted" /\ req.kind = "commit" /\ UNCHANGED <<disk, mem, next>>
      /\ fate' = Consume(req.stage, "handed-to-commit")
  BY DEF CommitDispatches, At, Outside
<1>2. Unowned(disk, req.stage)
  BY <1>0, <1>1 DEF SInv, JobsFit, At, HandsOver, Handing, HandOffs
<1>3. PICK x \in Stages : x = req.stage
  OBVIOUS
<1>4. Custody(x) = "free" /\ Custody(x)' = "handed"
  BY <1>2, <1>3 DEF Custody, Unowned
<1>5. ASSUME NEW s \in Stages, s # x PROVE Custody(s)' = Custody(s)
  <2>1. fate'[s] = fate[s]
    BY <1>0, <1>1, <1>3, <1>5 DEF Consume
  <2> QED
    BY <1>1, <2>1 DEF Custody
<1>6. \A t \in Tabs : StoredHolder(t)' = StoredHolder(t)
  BY <1>1 DEF StoredHolder
<1>7. Given' = Given
  BY <1>1 DEF Given
<1>8. [t \in Tabs |-> StoredHolder(t)]' = [t \in Tabs |-> StoredHolder(t)]
  BY <1>6
<1>9. [s \in Stages |-> Custody(s)]' = [[s \in Stages |-> Custody(s)] EXCEPT ![x] = "handed"]
  BY <1>4, <1>5
<1>10. Authority!HandOver(x)
  BY <1>4, <1>7, <1>8, <1>9 DEF Authority!HandOver
<1> QED
  BY <1>10

LEMMA InitImplements == ASSUME Init, AInv, Pending PROVE Authority!Init
<1>0. TypeOK /\ TInv /\ IntentsAhead
  BY DEF AInv, IInv, Pending
<1> DEFINE old == [t \in Tabs |-> StoredHolder(t)]
<1>1. /\ mem \in {disk, EmptyState} /\ fate = [s \in Stages |-> "unused"]
  BY DEF Init, Hydrate
<1>2. GrantsIn(mem) \subseteq GrantsIn(disk)
  BY <1>1, GrantsAre DEF EmptyState, NoIntent, NoOperation, Live
<1>3. Given = Issued(next)
  BY <1>2 DEF Given, Issued
<1>4. ASSUME NEW t \in Tabs
      PROVE  /\ old[t] \in Given \cup {Nobody}
             /\ old[t] \in ({"intent"} \X IntentIds) \cup ({"operation"} \X OpIds) \cup {Nobody}
  <2>1. old[t] = Nobody \/ old[t] \in GrantsIn(disk)
    BY StoredHolderIn, HolderHolds, HoldersAreGrants
  <2>2. Numbered(disk, next) /\ next.intent \in Nat /\ next.op \in Nat
    BY <1>0, CountersAreNatural DEF Numbered, TInv, Ahead, IntentsAhead
  <2>3. GrantsIn(disk) \subseteq Issued(next)
    BY <2>2, NumberedIsIssued
  <2> QED
    BY <1>3, <2>1, <2>3, GrantsAre
<1>5. Given \subseteq ({"intent"} \X IntentIds) \cup ({"operation"} \X OpIds)
  BY DEF Given
<1>6. [s \in Stages |-> Custody(s)] \in [Stages -> {"free", "held"}]
  BY <1>1 DEF Custody
<1> QED
  BY <1>4, <1>5, <1>6 DEF Authority!Init, Authority!Holder

\* The controller implements ExportAuthority: whatever a lost worker leaves in
\* the storage, a tab serves one export, an export begins with a fresh click, a
\* grant that was given up never returns, and a stage is handed to its commit
\* once, after no stored operation holds it.
THEOREM AuthorityIsImplemented == Spec => ImplementsAuthority
<1>1. Init => AInv /\ Pending /\ Authority!Init
  BY InitAccounts, InitPends, InitImplements
<1>2. AInv /\ Pending /\ [Next]_vars => (AInv /\ Pending)'
  BY NextAccounts, NextPends DEF AInv
<1>3. AInv /\ Pending /\ [Next]_vars => [Authority!Next]_Authority!vars
  <2> SUFFICES ASSUME AInv, Pending, [Next]_vars PROVE Authority!Next
    OBVIOUS
  <2>1. CASE \A s \in Stages : fate[s] = "handed-to-commit" <=> fate'[s] = "handed-to-commit"
    BY <2>1, WritesImplement DEF Authority!Next
  <2>2. CASE ~\A s \in Stages : fate[s] = "handed-to-commit" <=> fate'[s] = "handed-to-commit"
    <3>1. PICK s \in Stages : ~(fate[s] = "handed-to-commit" <=> fate'[s] = "handed-to-commit")
      BY <2>2
    <3>2. CommitDispatches /\ req.stage = s
      BY <3>1, HandedStays
    <3>3. fate[s] # "handed-to-commit" /\ fate'[s] = "handed-to-commit"
      <4>1. fate' = Consume(req.stage, "handed-to-commit") /\ ~Settled(s)
        BY <3>2 DEF CommitDispatches, At, AInv, SInv, JobsFit, HandsOver, Handing, HandOffs
      <4> QED
        BY <3>1, <4>1 DEF Settled
    <3> QED
      BY <3>2, <3>3, DispatchImplements DEF Authority!Next
  <2> QED
    BY <2>1, <2>2
<1> QED
  BY <1>1, <1>2, <1>3, PTL DEF Spec, ImplementsAuthority, Authority!Spec
=============================================================================

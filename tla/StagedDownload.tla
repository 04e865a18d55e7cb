--------------------------- MODULE StagedDownload ---------------------------
(***************************************************************************)
(* The commit of a sealed temporary stage to its destinations, from the    *)
(* Blob URL to the removal of the stage's files:                           *)
(*   background/archive-stage-handlers.ts, binary-asset-handlers.ts        *)
(*   background/archive-stage-download-recovery.ts,                        *)
(*   background/binary-download-recovery.ts                                *)
(*   background/output-handlers.ts (downloadArchiveBlob, leases)           *)
(*   offscreen/offscreen.ts (Blob URLs)                                    *)
(*                                                                         *)
(* A download may outlive its worker, so the ownership of the stage is     *)
(* recorded in storage.local before the download is asked for, and a later *)
(* worker reconciles the records with the browser's downloads.  The two    *)
(* kinds of stages share the design and differ in a few rules (`Kind`).    *)
(*                                                                         *)
(* One step is the code between two awaits; a mutation of the registry,    *)
(* which runs in a queue of its own, is one step.                          *)
(***************************************************************************)
EXTENDS Naturals

CONSTANTS
    Stages,          \* sealed stages that are committed, once each
    Kinds,           \* the kinds of stages: "archive", "binary"
    Mixes            \* bound: how often disturbances happen, in each of some mixtures

Disturbances ==
    {"crash", "browser restart", "storage failure", "message failure", "lookup failure",
     "lease failure", "other work"}

ASSUME StagedDownloadParameters ==
    /\ Stages # {} /\ "recovery" \notin Stages
    /\ Kinds \subseteq {"archive", "binary"}
    /\ \A mix \in Mixes : \A d \in Disturbances : mix[d] \in Nat

VARIABLES
    kind,       \* the kind of the stages
    bytes,      \* OPFS: stages whose files exist
    urls,       \* offscreen document: stages with a valid Blob URL
    document,   \* browser: whether the offscreen document is open
    download,   \* browser: the download of each stage
    erased,     \* browser: downloads the user removed from the list
    notices,    \* browser: terminal states not yet announced to the extension
    registry,   \* storage.local: the record of each stage
    aged,       \* stages whose record is more than a day old
    leases,     \* who holds a lease on the offscreen document
    timer,      \* whether the document is due to be closed
    active,     \* activeOwnedStageIds
    told,       \* terminal states announced to this worker's observers
    task,       \* the commit of each stage in this worker
    recovery,   \* reconcileRecoveryRegistry in this worker
    spent       \* bound: disturbances so far

browser == <<document, download, erased, notices>>
worker == <<leases, timer, active, told, task, recovery>>
vars == <<kind, bytes, urls, browser, registry, aged, worker, spent>>

\* What a step that only moves a commit on leaves alone.
beyondTask == <<kind, bytes, urls, browser, registry, aged, leases, timer, active, told, recovery>>

-----------------------------------------------------------------------------
(* The worker's state.                                                     *)

\* A record without the id of its download is provisional.
Records == {"none", "provisional", "assigned"}

\* `watch` is the life of downloadArchiveBlob: the promise for its caller may be
\* settled long before its observer is done.  `terminal` is downloadTerminal,
\* `record` recoveryRecord; `cleanup` follows releaseWhenOwned.
Task ==
    [at: {"idle", "opening", "undoing", "outputs", "returned", "over", "lost"},
     obsidian: {"none", "reading", "done"},
     watch: {"none", "remembering", "asking", "assigning", "inspecting", "watching", "over"},
     settled: BOOLEAN, terminal: BOOLEAN,
     cleanup: {"none", "releasing", "aborting", "forgetting", "over"},
     record: Records,
     result: {"none", "not dispatched", "unknown", "confirmed"}]

NoTask ==
    [at |-> "idle", obsidian |-> "none", watch |-> "none", settled |-> FALSE, terminal |-> FALSE,
     cleanup |-> "none", record |-> "none", result |-> "none"]

LostTask == [NoTask EXCEPT !.at = "lost"]

Recovery ==
    [at: {"idle", "reading", "next", "searching", "releasing", "aborting", "forgetting"},
     left: [Stages -> Records], seen: Records, on: Stages]

AnyStage == CHOOSE s \in Stages : TRUE
NothingLeft == [s \in Stages |-> "none"]
NoRecovery == [at |-> "idle", left |-> NothingLeft, seen |-> "none", on |-> AnyStage]

Terminal(s) == download[s] \in {"complete", "interrupted"}

Spend(what) ==
    /\ spent' = [spent EXCEPT ![what] = @ + 1]
    /\ \E mix \in Mixes : \A d \in Disturbances : spent'[d] <= mix[d]

\* acquireOffscreenLease cancels the timer and opens the document if need be;
\* the last release starts the timer.
Lend(who) == leases' = leases \cup {who} /\ timer' = FALSE /\ document' = TRUE
\* Mutant: a release that is forgotten.
KeepLease(who) == UNCHANGED <<leases, timer>>

GiveBack(who) ==
    /\ leases' = leases \ {who}
    /\ timer' = (timer \/ leases \subseteq {who})

\* `releaseWhenOwned`: the destinations are through and no download reads the
\* Blob any more.
Owned(t) == t.at = "returned" /\ t.terminal /\ t.cleanup = "none"

\* Mutant: the late end of a download does not start the cleanup.
NeverCleaned(t) == t

Cleaned(t) == IF Owned(t) THEN [t EXCEPT !.cleanup = "releasing"] ELSE t

-----------------------------------------------------------------------------
(* A commit: the Blob URL, then all destinations at once.                  *)

Outputs == SUBSET {"file", "obsidian"} \ {{}}

\* `commitStagedArchiveCompanion`: the lease, then the request for a Blob URL.
Begin(s) ==
    /\ task[s].at = "idle"
    /\ \E outputs \in Outputs :
          task' = [task EXCEPT ![s].at = "opening", ![s].terminal = "file" \notin outputs,
                       ![s].obsidian = IF "obsidian" \in outputs THEN "reading" ELSE "done",
                       ![s].watch = IF "file" \in outputs THEN "remembering" ELSE "none"]
    /\ Lend(s)
    /\ UNCHANGED <<kind, bytes, urls, download, erased, notices, registry, aged, active, told, recovery,
                   spent>>

\* Mutant: a report the caller does not know.
UndispatchedAsFailed(t, at) == [t EXCEPT !.at = at, !.obsidian = "done", !.result = "failed"]

\* Nothing was dispatched; the destinations are left alone.
Undispatched(t, at) ==
    [t EXCEPT !.at = at, !.obsidian = "done", !.watch = "none", !.result = "not dispatched"]

\* The document could not be opened.  An archive stage is then left to the
\* 24-hour sweep of its store, a binary one is aborted first.
BeginFails(s) ==
    /\ task[s].at = "idle"
    /\ Spend("lease failure")
    /\ task' = [task EXCEPT ![s] = Undispatched(@, "over")]
    /\ \/ timer' = FALSE /\ UNCHANGED <<bytes, document>>
       \/ /\ kind = "binary"
          /\ bytes' = bytes \ {s} /\ document' = TRUE /\ timer' = (leases = {})
    /\ UNCHANGED <<kind, urls, download, erased, notices, registry, aged, leases, active, told,
                   recovery>>

\* Both outputs start in the turn of the answer; a binary stage is marked
\* active before its record is written, an archive one after.
Opens(s) ==
    /\ task[s].at = "opening" /\ s \in bytes
    /\ urls' = urls \cup {s}
    /\ task' = [task EXCEPT ![s].at = "outputs"]
    /\ active' = IF kind = "binary" /\ task[s].watch = "remembering"
                 THEN active \cup {s} ELSE active
    /\ UNCHANGED <<kind, bytes, browser, registry, aged, leases, timer, told, recovery, spent>>

\* The answer is lost or late, whatever the document did.
OpenFails(s) ==
    /\ task[s].at = "opening"
    /\ Spend("message failure")
    /\ urls' \in {urls, urls \cup (bytes \cap {s})}
    /\ task' = [task EXCEPT ![s] = Undispatched(@, "undoing")]
    /\ UNCHANGED <<kind, bytes, browser, registry, aged, leases, timer, active, told, recovery>>

Undoes(s) ==
    /\ task[s].at = "undoing"
    /\ \/ bytes' = bytes \ {s} /\ UNCHANGED spent
       \/ bytes' \in {bytes, bytes \ {s}} /\ Spend("message failure")
    /\ task' = [task EXCEPT ![s].at = "over"]
    /\ GiveBack(s)
    /\ UNCHANGED <<kind, urls, browser, registry, aged, active, told, recovery>>

\* abortArchiveStage takes a lease of its own; if that is refused the commit
\* ends in its catch clause, where there is no URL and so no release.
UndoFails(s) ==
    /\ task[s].at = "undoing" /\ kind = "archive"
    /\ Spend("lease failure")
    /\ task' = [task EXCEPT ![s].at = "returned"]
    /\ timer' = FALSE
    /\ UNCHANGED <<kind, bytes, urls, browser, registry, aged, leases, active, told, recovery>>

ObsidianEnds(s) ==
    /\ task[s].at = "outputs" /\ task[s].obsidian = "reading"
    /\ task' = [task EXCEPT ![s].obsidian = "done"]
    /\ UNCHANGED <<beyondTask, spent>>

\* All destinations have settled.
Returns(s) ==
    /\ task[s].at = "outputs" /\ task[s].obsidian = "done"
    /\ task[s].watch = "none" \/ task[s].settled
    /\ task' = [task EXCEPT ![s] = Cleaned([@ EXCEPT !.at = "returned"])]
    /\ UNCHANGED <<beyondTask, spent>>

-----------------------------------------------------------------------------
(* The file destination.                                                   *)

\* The record is stored, then the browser is asked for the download.
Remembers(s) ==
    /\ task[s].at = "outputs" /\ task[s].watch = "remembering"
    /\ registry' = [registry EXCEPT ![s] = "provisional"]
    /\ active' = active \cup {s}
    /\ download' = [download EXCEPT ![s] = "asked"]
    /\ task' = [task EXCEPT ![s].watch = "asking", ![s].record = "provisional"]
    /\ UNCHANGED <<kind, bytes, urls, document, erased, notices, aged, leases, timer, told,
                   recovery, spent>>

\* Mutant: an archive stage is downloaded without a record, like a binary one.
DownloadAnyway(s) ==
    /\ download' = [download EXCEPT ![s] = "asked"]
    /\ task' = [task EXCEPT ![s].watch = "asking"]

\* Without a record an archive stage is not downloaded; a binary one is, and
\* its cleanup is reported as deferred.
WithoutRecord(s) ==
    IF kind = "archive"
    THEN /\ task' = [task EXCEPT ![s].watch = "over", ![s].settled = TRUE, ![s].terminal = TRUE,
                                 ![s].result = "not dispatched"]
         /\ UNCHANGED download
    ELSE DownloadAnyway(s)

\* The registry may be full of the records of other stages, 20 or 32 of them, or
\* its storage may fail.
RememberRefused(s) ==
    /\ task[s].at = "outputs" /\ task[s].watch = "remembering"
    /\ active' = active \ {s}
    /\ WithoutRecord(s)
    /\ UNCHANGED <<kind, bytes, urls, document, erased, notices, registry, aged, leases, timer, told,
                   recovery, spent>>

Observing(s) == task[s].watch \in {"asking", "assigning", "inspecting", "watching"}

\* The observer knows the end of the download: it settles the caller, or lets a
\* caller that gave up earlier go on to its cleanup (onLateTerminal).
Ended(t, result) ==
    IF t.settled THEN Cleaned([t EXCEPT !.watch = "over", !.terminal = TRUE])
    ELSE [t EXCEPT !.watch = "over", !.settled = TRUE, !.terminal = TRUE, !.result = result]

\* Mutant: the end of the download is taken for a success.
ResultsAtTheEnd(s) == {"confirmed", "unknown"}

\* A complete download counts if its path is the one that was asked for.
Results(s) ==
    IF download[s] = "complete" /\ s \notin erased THEN {"confirmed", "unknown"} ELSE {"unknown"}

Ends(s) == \E result \in Results(s) : task' = [task EXCEPT ![s] = Ended(@, result)]

\* Chrome's callback names the download ...
CallbackArrives(s) ==
    /\ task[s].watch = "asking"
    /\ download[s] \in {"running", "complete", "interrupted"}
    /\ task' = [task EXCEPT ![s].watch = IF task[s].record = "provisional"
                                         THEN "assigning" ELSE "inspecting"]
    /\ UNCHANGED <<beyondTask, spent>>

\* ... or says that there will be none.
DownloadRefused(s) ==
    /\ download[s] = "asked"
    /\ download' = [download EXCEPT ![s] = "none"]
    /\ IF task[s].watch = "asking"
       THEN task' = [task EXCEPT ![s] = Ended(@, "not dispatched")]
       ELSE UNCHANGED task
    /\ UNCHANGED <<kind, bytes, urls, document, erased, notices, registry, aged, leases, timer, active,
                   told, recovery, spent>>

\* assign...RecoveryId: the exact provisional record gets the id, or nothing
\* changes; the stage is marked active either way.
Assigns(s) ==
    /\ task[s].watch = "assigning"
    /\ \/ /\ registry[s] = "provisional"
          /\ registry' = [registry EXCEPT ![s] = "assigned"]
          /\ task' = [task EXCEPT ![s].watch = "inspecting", ![s].record = "assigned"]
          /\ UNCHANGED spent
       \/ /\ \/ Spend("storage failure")
             \/ registry[s] # "provisional" /\ UNCHANGED spent
          /\ task' = [task EXCEPT ![s].watch = "inspecting"]
          /\ UNCHANGED registry
    /\ active' = active \cup {s}
    /\ UNCHANGED <<kind, bytes, urls, browser, aged, leases, timer, told, recovery>>

\* The list of downloads tells the end of this one.
Listed(s) == Terminal(s) /\ s \notin erased

\* reconcileDownloadState after the callback: an announcement that came before
\* it, or the list of downloads, may already tell the end.
Inspects(s) ==
    /\ task[s].watch = "inspecting"
    /\ \/ (s \in told \/ Listed(s)) /\ Ends(s)
       \/ s \notin told /\ task' = [task EXCEPT ![s].watch = "watching"]
    /\ UNCHANGED <<beyondTask, spent>>

\* onChanged, once the continuation of the callback is through, or the inspection
\* when the time is over.
Notices(s) ==
    /\ task[s].watch = "watching"
    /\ s \in told \/ (Listed(s) /\ ~task[s].settled)
    /\ Ends(s)
    /\ UNCHANGED <<beyondTask, spent>>

\* Thirty seconds are over: the download is cancelled ...
Cancels(s) ==
    /\ task[s].watch = "watching" /\ ~task[s].settled
    /\ download[s] = "running"
    /\ download' = [download EXCEPT ![s] = "interrupted"]
    /\ notices' = notices \cup {s}
    /\ UNCHANGED <<kind, bytes, urls, document, erased, registry, aged, worker, spent>>

\* ... and without a confirmation the caller goes on, the observer stays.
GivesUp(s) ==
    /\ task[s].watch \in {"asking", "watching"} /\ ~task[s].settled
    /\ task' = [task EXCEPT ![s].settled = TRUE, ![s].result = "unknown"]
    /\ UNCHANGED <<beyondTask, spent>>

-----------------------------------------------------------------------------
(* Cleanup by the commit itself.                                           *)

\* The document refuses a URL it does not know; an answer may also be lost, or the
\* removal of the files fail.
ReleaseRefused(s) ==
    \/ s \notin urls /\ UNCHANGED <<urls, bytes, spent>>
    \/ /\ Spend("message failure")
       /\ urls' \in {urls, urls \ {s}}
       /\ bytes' \in IF urls' = urls THEN {bytes} ELSE {bytes, bytes \ {s}}

\* `archiveStageRelease` revokes the URL and removes the files.
Releases(s) ==
    /\ task[s].cleanup = "releasing"
    /\ \/ /\ s \in urls
          /\ urls' = urls \ {s} /\ bytes' = bytes \ {s}
          /\ GiveBack(s)
          /\ task' = [task EXCEPT ![s].cleanup = "forgetting"]
          /\ UNCHANGED spent
       \/ /\ ReleaseRefused(s)
          /\ task' = [task EXCEPT ![s].cleanup = "aborting"]
          /\ UNCHANGED <<leases, timer>>
    /\ UNCHANGED <<kind, browser, registry, aged, active, told, recovery>>

\* The fallback; without a confirmation the record is left to recovery.
Aborts(s) ==
    /\ task[s].cleanup = "aborting"
    /\ \/ /\ bytes' = bytes \ {s}
          /\ task' = [task EXCEPT ![s].cleanup = "forgetting"]
          /\ UNCHANGED <<active, spent>>
       \/ /\ Spend("message failure")
          /\ bytes' \in {bytes, bytes \ {s}}
          /\ task' = [task EXCEPT ![s].cleanup = "over"]
          /\ active' = IF task[s].record # "none" THEN active \ {s} ELSE active
    /\ GiveBack(s)
    /\ UNCHANGED <<kind, urls, browser, registry, aged, told, recovery>>

\* Only the exact record goes.
Without(record, s) == IF registry[s] = record THEN [registry EXCEPT ![s] = "none"] ELSE registry

Forgets(s) ==
    /\ task[s].cleanup = "forgetting"
    /\ IF task[s].record = "none" THEN UNCHANGED <<registry, active, spent>>
       ELSE /\ active' = active \ {s}
            /\ \/ registry' = Without(task[s].record, s) /\ UNCHANGED spent
               \/ Spend("storage failure") /\ UNCHANGED registry
    /\ task' = [task EXCEPT ![s].cleanup = "over"]
    /\ UNCHANGED <<kind, bytes, urls, browser, aged, leases, timer, told, recovery>>

-----------------------------------------------------------------------------
(* Recovery: the records of this and of earlier workers.                   *)

OnlyRecovery == UNCHANGED <<kind, download, erased, notices, aged, told, task>>

RecoveryReads ==
    /\ recovery.at = "reading"
    /\ \/ recovery' = [recovery EXCEPT !.at = "next", !.left = registry] /\ UNCHANGED spent
       \/ recovery' = NoRecovery /\ Spend("storage failure")
    /\ OnlyRecovery
    /\ UNCHANGED <<bytes, urls, document, registry, leases, timer, active>>

\* Mutants: a provisional record is taken for lost; a live handler is overlooked.
OrphanWithoutId(record, s) == s \notin active
OrphanOfAnyone(record, s) == record = "provisional" => kind = "binary"

\* A record that no handler of this worker answers for; without the id of its
\* download an archive stage is quarantined, a binary one is released.
Orphan(record, s) == s \notin active /\ (record = "provisional" => kind = "binary")

\* Mutant: a quarantined record never comes of age.
DueWithoutAge(record, s) == Orphan(record, s) /\ (s \in aged \/ record = "provisional")

\* After a day everything is released.
Due(record, s) == s \in aged \/ (Orphan(record, s) /\ record = "provisional")

NextRecord == [recovery EXCEPT !.at = "next", !.seen = "none", !.on = AnyStage]

\* withRecoveryLease: without the document the record waits for a later worker.
StartsRelease(release, later) ==
    \/ recovery' = release /\ Lend("recovery") /\ UNCHANGED spent
    \/ /\ recovery' = later
       /\ Spend("lease failure") /\ timer' = FALSE /\ UNCHANGED <<leases, document>>

\* downloadReachedTerminalOrIsMissing, up to its search.
RecoveryJudges(s) ==
    /\ recovery.at = "next" /\ recovery.left[s] # "none"
    /\ LET record == recovery.left[s]
           skip == [recovery EXCEPT !.left[s] = "none"]
           go(step) == [skip EXCEPT !.at = step, !.seen = record, !.on = s]
       IN  \/ Due(record, s) /\ StartsRelease(go("releasing"), skip)
           \/ /\ ~Due(record, s)
              /\ recovery' = IF Orphan(record, s) THEN go("searching") ELSE skip
              /\ UNCHANGED <<leases, timer, document, spent>>
    /\ OnlyRecovery
    /\ UNCHANGED <<bytes, urls, registry, active>>

\* A download that has ended or is not listed any more is read by nobody.
RecoverySearches ==
    /\ recovery.at = "searching"
    /\ \/ /\ Terminal(recovery.on) \/ recovery.on \in erased
          /\ StartsRelease([recovery EXCEPT !.at = "releasing"], NextRecord)
       \/ /\ recovery' = NextRecord
          /\ \/ download[recovery.on] = "running" /\ UNCHANGED spent
             \/ Spend("lookup failure")
          /\ UNCHANGED <<leases, timer, document>>
    /\ OnlyRecovery
    /\ UNCHANGED <<bytes, urls, registry, active>>

RecoveryReleases ==
    /\ recovery.at = "releasing"
    /\ \/ /\ recovery.on \in urls
          /\ urls' = urls \ {recovery.on} /\ bytes' = bytes \ {recovery.on}
          /\ GiveBack("recovery")
          /\ recovery' = [recovery EXCEPT !.at = "forgetting"]
          /\ UNCHANGED spent
       \/ /\ ReleaseRefused(recovery.on)
          /\ recovery' = [recovery EXCEPT !.at = "aborting"]
          /\ UNCHANGED <<leases, timer>>
    /\ OnlyRecovery
    /\ UNCHANGED <<document, registry, active>>

\* What was not confirmed stays recorded for a later worker.
RecoveryAborts ==
    /\ recovery.at = "aborting"
    /\ \/ /\ bytes' = bytes \ {recovery.on}
          /\ recovery' = [recovery EXCEPT !.at = "forgetting"]
          /\ UNCHANGED spent
       \/ /\ Spend("message failure")
          /\ bytes' \in {bytes, bytes \ {recovery.on}}
          /\ recovery' = NextRecord
    /\ GiveBack("recovery")
    /\ OnlyRecovery
    /\ UNCHANGED <<urls, document, registry, active>>

RecoveryForgets ==
    /\ recovery.at = "forgetting"
    /\ \/ registry' = Without(recovery.seen, recovery.on) /\ UNCHANGED spent
       \/ Spend("storage failure") /\ UNCHANGED registry
    /\ active' = active \ {recovery.on}
    /\ recovery' = NextRecord
    /\ OnlyRecovery
    /\ UNCHANGED <<bytes, urls, document, leases, timer>>

RecoveryEnds ==
    /\ recovery.at = "next" /\ recovery.left = NothingLeft
    /\ recovery' = NoRecovery
    /\ OnlyRecovery
    /\ UNCHANGED <<bytes, urls, document, registry, leases, timer, active, spent>>

\* One reconciliation at a time; a request during one is the one under way.
Reconciling == IF recovery.at = "idle" THEN [NoRecovery EXCEPT !.at = "reading"] ELSE recovery

-----------------------------------------------------------------------------
(* The browser, its user, and time.                                        *)

OnlyBrowser == UNCHANGED <<kind, bytes, urls, registry, aged, worker, spent>>

DownloadStarts(s) ==
    /\ download[s] = "asked"
    /\ download' = [download EXCEPT ![s] = "running"]
    /\ UNCHANGED <<document, erased, notices>> /\ OnlyBrowser

\* Only a Blob that can be read is downloaded completely.
DownloadEnds(s) ==
    /\ download[s] = "running"
    /\ \E end \in {"complete", "interrupted"} :
          /\ end = "complete" => s \in urls \cap bytes
          /\ download' = [download EXCEPT ![s] = end]
    /\ notices' = notices \cup {s}
    /\ UNCHANGED <<document, erased>> /\ OnlyBrowser

Erases(s) ==
    /\ Terminal(s) /\ s \notin erased
    /\ erased' = erased \cup {s}
    /\ UNCHANGED <<document, download, notices>> /\ OnlyBrowser

\* The announcement reaches the observer of the download and the recovery.
Announces(s) ==
    /\ s \in notices
    /\ notices' = notices \ {s}
    /\ told' = told \cup {s}
    /\ recovery' = Reconciling
    /\ UNCHANGED <<kind, bytes, urls, document, download, erased, registry, aged, leases, timer, active,
                   task, spent>>

Ages(s) ==
    /\ registry[s] # "none" /\ s \notin aged
    /\ aged' = aged \cup {s}
    /\ UNCHANGED <<kind, bytes, urls, browser, registry, worker, spent>>

\* Five seconds without a lease.
DocumentCloses ==
    /\ timer /\ leases = {}
    /\ document' = FALSE /\ urls' = {} /\ timer' = FALSE
    /\ UNCHANGED <<kind, bytes, download, erased, notices, registry, aged, leases, active, told, task,
                   recovery, spent>>

\* Any other user of the document, the clipboard say, from lease to release.
OtherWork ==
    /\ Spend("other work")
    /\ document' = TRUE
    /\ timer' = (leases = {})
    /\ UNCHANGED <<kind, bytes, urls, download, erased, notices, registry, aged, leases, active, told,
                   task, recovery>>

\* A fresh worker has no handlers, no leases and no marks, and reconciles.
FreshWorker ==
    /\ leases' = {} /\ timer' = FALSE /\ active' = {} /\ told' = {}
    /\ task' = [s \in Stages |-> IF task[s].at = "idle" THEN task[s] ELSE LostTask]
    /\ recovery' = [NoRecovery EXCEPT !.at = "reading"]

\* The worker is lost at any moment ...
Crashes ==
    /\ Spend("crash")
    /\ FreshWorker
    /\ UNCHANGED <<kind, bytes, urls, browser, registry, aged>>

\* ... or is stopped when it has been idle, however many downloads it observes.
Waiting(s) ==
    \/ task[s].at \in {"idle", "over", "lost"}
    \/ /\ task[s].at = "returned" /\ task[s].cleanup \in {"none", "over"}
       /\ task[s].watch \in {"none", "asking", "watching", "over"}

Sleeps ==
    /\ \A s \in Stages : Waiting(s)
    /\ recovery.at = "idle"
    /\ FreshWorker
    /\ UNCHANGED <<kind, bytes, urls, browser, registry, aged, spent>>

\* The browser takes downloads, documents and Blob URLs with it.
BrowserRestarts ==
    /\ Spend("browser restart")
    /\ FreshWorker
    /\ document' = FALSE /\ urls' = {} /\ notices' = {}
    /\ download' = [s \in Stages |->
          CASE download[s] = "asked" -> "none"
            [] download[s] = "running" -> "interrupted"
            [] OTHER -> download[s]]
    /\ UNCHANGED <<kind, bytes, erased, registry, aged>>

-----------------------------------------------------------------------------
(* The specification.                                                      *)

Init ==
    /\ kind \in Kinds
    /\ bytes = Stages /\ urls = {}
    /\ document = FALSE
    /\ download = [s \in Stages |-> "none"] /\ erased = {} /\ notices = {}
    /\ registry = [s \in Stages |-> "none"] /\ aged = {}
    /\ leases = {} /\ timer = FALSE /\ active = {} /\ told = {}
    /\ task = [s \in Stages |-> NoTask]
    /\ recovery = NoRecovery
    /\ spent = [d \in Disturbances |-> 0]

Handler(s) ==
    \/ Opens(s) \/ OpenFails(s) \/ Undoes(s) \/ UndoFails(s) \/ ObsidianEnds(s)
    \/ Returns(s) \/ Remembers(s) \/ RememberRefused(s) \/ CallbackArrives(s) \/ Assigns(s)
    \/ Inspects(s) \/ Notices(s) \/ GivesUp(s) \/ Releases(s) \/ Aborts(s) \/ Forgets(s)

Recover ==
    \/ RecoveryReads \/ RecoverySearches \/ RecoveryReleases \/ RecoveryAborts
    \/ RecoveryForgets \/ RecoveryEnds
    \/ \E s \in Stages : RecoveryJudges(s)

Download(s) ==
    DownloadStarts(s) \/ DownloadRefused(s) \/ DownloadEnds(s) \/ Announces(s) \/ Erases(s)

Next ==
    \/ \E s \in Stages :
          \/ Begin(s) \/ BeginFails(s) \/ Handler(s) \/ Cancels(s)
          \/ Download(s) \/ Ages(s)
    \/ Recover \/ DocumentCloses \/ OtherWork \/ Crashes \/ Sleeps \/ BrowserRestarts

Spec == Init /\ [][Next]_vars

\* The browser answers what the worker awaits and its timers fire, a day passes,
\* and a worker that has nothing to do is stopped and at some time started again.
\* Nothing is assumed of the downloads: one may never end.
FairSpec ==
    /\ Spec
    /\ \A s \in Stages : WF_vars(Handler(s)) /\ WF_vars(Ages(s))
    /\ WF_vars(Recover) /\ WF_vars(Sleeps)

-----------------------------------------------------------------------------
(* What must hold.                                                         *)

\* Every variable keeps the shape the code gives it.
TypeOK ==
    /\ kind \in {"archive", "binary"}
    /\ bytes \subseteq Stages /\ urls \subseteq Stages /\ document \in BOOLEAN
    /\ download \in [Stages -> {"none", "asked", "running", "complete", "interrupted"}]
    /\ erased \subseteq Stages /\ notices \subseteq Stages
    /\ registry \in [Stages -> Records] /\ aged \subseteq Stages
    /\ leases \subseteq Stages \cup {"recovery"} /\ timer \in BOOLEAN
    /\ active \subseteq Stages /\ told \subseteq Stages
    /\ task \in [Stages -> Task] /\ recovery \in Recovery
    /\ spent \in [Disturbances -> Nat]

\* "Blob may be released only after Downloads has reached a terminal state": the
\* files of a stage stay until no download can read them any more, whoever cleans
\* up and however many workers were lost, but for records of more than a day.
BytesOutliveDownload ==
    \A s \in Stages : download[s] \in {"asked", "running"} /\ s \notin aged => s \in bytes

\* The same for archive stages, whose records without an id are quarantined; and
\* the Obsidian destination reads the same Blob: recovery never takes it away
\* from a handler that is still at work, whatever the download has come to.
BytesOutliveReaders ==
    /\ kind = "archive" => BytesOutliveDownload
    /\ \A s \in Stages :
        task[s].at = "outputs" /\ task[s].obsidian = "reading" /\ s \notin aged => s \in bytes \cap urls

\* What the caller is told of the file is true: a confirmed write is complete,
\* and what was not dispatched never reaches the browser.
ReportIsHonest ==
    \A s \in Stages :
        /\ task[s].result = "confirmed" => download[s] = "complete"
        /\ task[s].result = "not dispatched" => download[s] = "none"

\* "Persist only the exact ownership needed to finish future OPFS cleanup",
\* "remove a record only after its exact stage cleanup has been confirmed": a
\* stage with a download is recorded from before the download until its files
\* are gone, whatever fails and whenever the worker is lost.  (A binary stage is
\* downloaded without a record rather than not at all.)
Recorded == kind = "archive" => \A s \in Stages : download[s] # "none" /\ s \in bytes => registry[s] # "none"

\* "Keeps the exact stage lease until a nonterminal download reports its late
\* terminal callback": a lease whose handler has returned is held by somebody
\* who will give it back, an observer or a cleanup under way, as long as the
\* document can be opened.
Leased ==
    \A s \in leases \cap Stages :
        task[s].at = "returned" /\ spent["lease failure"] = 0 =>
            Observing(s) \/ task[s].cleanup \in {"releasing", "aborting"}

\* Nothing a commit leaves behind is forgotten: neither the files of a download
\* (ArchiveStageDownloadRecovery) nor a lease on the document (downloadArchiveBlob).
CleanupIsAssured == Recorded /\ Leased

\* The files of a stage that was downloaded are removed at last, if need be by a
\* later worker.
DownloadIsCleanedUp ==
    \A s \in Stages : kind = "archive" /\ download[s] # "none" ~> s \notin bytes
=============================================================================

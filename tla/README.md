# A formal model of Liska Threadkeeper

Liska is a Manifest V3 browser extension (TypeScript, `src/src` in this tree)
that saves AI conversations to files, the clipboard or an Obsidian vault. This
directory holds TLA+ models of the parts of it that carry its own logic, the TLC
configurations that check them on small instances, and theorems about them that
the TLA+ proof system checks for every value of their constants. Source paths
below are relative to the extension's source directory, unless they name a
module here.

## Reading order

| file | what it is |
| --- | --- |
| `ExportOperation.tla` | the worker-owned authority for exports: `background/export-operation-controller.ts` as `background/service-worker.ts` drives it |
| `ExportAuthority.tla` | what that authority promises, seen in storage alone |
| `ExportRefinement.tla` | the first implements the second |
| `ExportOperationProofs.tla` | its types, exclusive exports, owners of stages; that what ended stays ended, nothing is evicted early, a click finds room, and what is written can be read back |
| `ExportGrantsProofs.tla` | that what it grants is stored, agrees with the browser and was not revoked; that the bytes of a stage are given away once and answered for until then; and that it implements `ExportAuthority` |
| `MCExportOperation.tla`, `Admission`, `Recovery`, `Selection`, `Stages`, `LostRevocation` (`.cfg`) | instances for TLC |
| `StagedDownload.tla` | the commit of a temporary stage, its download and the recovery of both |
| `StagedDownloadProofs.tla` | theorems about it |
| `MCStagedDownload.tla`, `Download`, `LostBinary` (`.cfg`) | instances for TLC |
| `StageStore.tla` | how a temporary stage is filled, sealed, aborted and swept |
| `StageStoreProofs.tla` | theorems about it |
| `MCStageStore.tla`, `StageStore.cfg` | an instance for TLC |
| `InlineOutput.tla` | what is written without a stage, and the life of the offscreen document: `background/output-handlers.ts` |
| `InlineOutputProofs.tla` | theorems about it |
| `MCInlineOutput.tla`, `InlineOutput.cfg` | an instance for TLC |
| `SettingsStorage.tla` | how settings are edited, stored and used: `popup/app.ts`, `lib/storage.ts` |
| `SettingsStorageProofs.tla` | theorems about it |
| `MCSettingsStorage.tla`, `SettingsStorage.cfg` | an instance for TLC |
| `PageCapture.tla` | the temporary tab in which ChatGPT's page is observed: `TemporaryTab.tla` (the tab and the worker that owns it), with `ResolverQueue.tla` (a queue of requests the worker commands) and `CaptureStaging.tla` (a conversation and its transfer to a stage) over it |
| `TextPreview.tla` | the controller of the text preview: `background/text-preview-controller.ts`; `TextPreviewParties.tla` has those who take part around it |
| `Captures.tla` | the two ways of having a conversation read, `PageCapture` and `TextPreviewParties`, in one specification |
| `CapturesProofs.tla` | theorems about both |
| `MCCaptures.tla`, `Captures.cfg` | an instance for TLC |
| `BaselinePlan.tla` | what a baseline stores, and what each command makes of it: `resumability-journal/baseline-plan`, `baseline-owner/envelope.ts` |
| `BaselineOwner.tla` | the durable owner of a baseline with its handles and transactions: `resumability-journal/baseline-owner` |
| `BaselineExecution.tla` | one-shot executions on it: `resumability-journal/execution-coordinator` |
| `BaselineProofs.tla` | theorems about the three |
| `MCBaseline.tla`, `Baseline.cfg` | an instance for TLC |

`PROJECT.json` lists the components, the runs, a mutant for every property, the
source lines of every definition, the hazards and the theorems.

## The system

A click in the popup starts an export in a tab. The content script of that tab
reads the page, builds files and asks the service worker to write them; large
files travel in pieces to an offscreen document, which keeps them as *stages* in
the origin-private file system (OPFS) and makes Blob URLs of them; the worker
asks the browser to download those URLs, or sends the bytes to Obsidian. The
worker may be stopped by the browser whenever it is idle, and is lost with the
browser at any time. What survives it is `chrome.storage.session` (until the
browser is closed), `chrome.storage.local`, `chrome.storage.sync` and OPFS.

```
popup/export window --request--> service worker <--privileged message-- content script
                                  |  admission: ExportOperationController (lock, session storage)
                                  |  handlers: archive stage, binary asset, output, Obsidian
                                  |--lease, message--> offscreen document (stage stores, Blob URLs)
                                  |--download, events-> browser
                                  '--recovery registries (local storage) at start and after events
```

### Inventory

For every component: its state, its operations, what makes it hard, and what
makes it correct. "Model" names the module, or the place in the plan.

**Export operation controller** (`background/export-operation-controller.ts`,
`lib/export-operation-contract.ts`). State: intents, operations with their
registered stages, and export windows, in memory and in session storage; epochs
of tabs and of the settings, in memory only; reservations by text previews.
Operations: `start`, `claim`, `offer`, `openPopup`, `choose`, `stop`, `complete`,
`authorize`, `dispatchStageCommit`, `takeStageForCleanup`, `recordResult`,
`tabChanged`, `tabRemoved`, `settingsChanged`, `reservePreviewSource` and its
release, `hydrate`, `prune`. Hard: one promise queue serialises the jobs, yet a
job awaits the browser several times, so that navigation, settings writes and
expiry fall between any two of its steps; a refused save drops every grant; a new
worker hydrates whatever its predecessor had stored. Correct: one export per tab;
no message is admitted for a revoked generation; a stage has one owner and is
given away once; what ended stays ended; what is stored can be hydrated. Model:
`ExportOperation`.

**Service worker** (`background/service-worker.ts`). State: the settings revision
and the output override in memory. Operations: message dispatch, the listeners of
tabs, windows, storage and downloads, `settings` writes. Hard: listeners only
queue a cancellation; settings saves may overtake each other. Model: in
`ExportOperation` as far as it drives the controller, in `SettingsStorage` its
writes of settings, and the revision a message is checked against.

**Content export client and popup** (`content/export-operation-client.ts`,
`popup/export.ts`). State: the active operation, a claim under way, the selection
under way; the popup's busy flag and its last status. Operations: begin, offer,
accept a choice, complete, cancel; start, choose, stop, refresh every second.
Hard: the answer of a claim and a cancel command cross; status answers arrive out
of order. Model: the environment of `ExportOperation`; a module of its own is
planned (`ExportClient`).

**Archive stage handlers, binary asset handlers** (`background/archive-stage-handlers.ts`,
`background/binary-asset-handlers.ts`, `content/archive-stage.ts`,
`content/staged-binary-persistence.ts`). State: per commit, the URL, the lease,
the record of the download. Operations: begin, append, seal, read, commit, abort,
with a ten-second limit on every message to the document. Hard: several
destinations read one Blob, one may end long after the caller was answered. Correct:
the files stay while they are read, and are then removed; the lease is given back;
the report is true; a late answer strands nothing. Model: the commit in
`StagedDownload`, the rest in `StageStore`.

**Download recovery** (`background/archive-stage-download-recovery.ts`,
`background/binary-download-recovery.ts`). State: a registry in local storage, the
set of stages with a live handler in memory. Operations: remember, assign, forget,
relinquish, reconcile. Hard: the download, its record and its files outlive the
worker, each on its own. Correct: a download is recorded from before it exists
until its files are gone. Model: `StagedDownload`.

**Output handlers** (`background/output-handlers.ts`). State: leases on the
offscreen document, its close timer, the promise of its creation, observers of
downloads. Operations: acquire, release, `downloadArchiveBlob`, inline downloads,
clipboard. Hard: the document is closed by a timer while it is being asked for; a
download ends before, during or long after its callback. Correct: the document
lives while it is leased and is then closed; what is reported is so; a strict
download waits for the one before. Model: the observer of a staged download in
`StagedDownload`, everything else in `InlineOutput`.

**Offscreen document and stage stores** (`offscreen/offscreen.ts`,
`offscreen/archive-stage-store.ts`, `offscreen/binary-stage-store.ts`). State: a data
file and a metadata file per stage, Blob URLs. Operations: begin, append, seal,
read, release, abort, prune of stale stages. Hard: two files are written one
after the other; requests overlap after a timeout. Correct: what was acknowledged is
stored, what was aborted goes, and what was stranded goes with the sweep. Model:
`StageStore`; URLs and release in `StagedDownload`.

**Obsidian handlers** (`background/obsidian-handlers.ts`, `obsidian-append-images.ts`,
`lib/obsidian-api.ts`, `lib/append-utils.ts`). No state but the vault. Hard: read, merge
and write of a note race its other writers; collisions of attachments. Planned.

**Operation write ledger** (`lib/operation-write-ledger.ts`). State: up to 8192
attempts. Operations: issue, observe, invalidate, snapshot. Hard: duplicates and
contradicting observations. Correct: the first outcome wins, a contradiction
invalidates the ledger, what was never issued is not dispatched. Planned:
`WriteLedger`.

**Resumability journal** (`resumability-journal/core`, `idb`, `purpose`,
`purpose-persistence-v2`, `-v3`). State: records in IndexedDB with a revision.
Operations: transitions by compare-and-set, recovery after a restart. Hard: two
pages hold the same revision; a transaction fails after the write. Planned:
`ResumabilityJournal`.

**Baseline owner and execution coordinator** (`resumability-journal/baseline-owner`,
`baseline-plan`, `execution-coordinator`). State: a checkpoint and the operation records
in two stores of one database; per handle a session, whether it has recovered and may
dispatch, and the unspent tokens of its claims; per execution what it did and learned.
Operations: create, controls, reserve, recover, and of an execution port claim, consume,
mark, evidence; close. Hard: every method decides outside of its transactions, several
handles do so at once, a commit may end without anyone hearing of it, and histories are
bounded. Correct: an item is asked for at most once and never after a stop; what is told
of a commit is so; what is stored can be read, stopped and concluded. Model:
`BaselinePlan`, `BaselineOwner`, `BaselineExecution`.

**Text preview** (`background/text-preview-controller.ts`, `content/text-preview-client.ts`,
`text-preview/page.ts`, `text-preview/popup.ts`). State: sessions by source tab and
tombstones for late stages, in memory, under a lock; in the document an active capture
with its scope, in the preview window what it shows. Operations: start, claim, selection
and choice, lease, publication, status, take, acknowledge, invalidate; the authorization
and the record of stages; the listeners of tabs; `prune`. Hard: the source navigates while
it is read and between any two awaits; nothing wakes the worker when a deadline passes; a
stage may come after its session has gone. Correct: the source tab is reserved while it
is needed, and then given back; no stage is nobody's; what was revoked is not published;
what is over is not on display. Model: `TextPreview`, `TextPreviewParties`.

**Settings storage and migration, settings form** (`lib/storage.ts`,
`lib/settings-schema.ts`, `popup/app.ts`). State: two storage areas written one after
the other, a queue of mutations, an override of the outputs, a form per popup. Hard:
a migration or a second save between the two areas; a form that is older than what
is stored; a refused write. Correct: no key is lost or replaced by one nobody chose;
the newest switch wins. Model: `SettingsStorage`.

**ChatGPT capture** (`background/chatgpt-*.ts`) and **document-start runtime**
(`content/capture/chatgpt-document-start.ts`). State: per procedure a temporary tab, a
deadline and perhaps a pinned document; per document a hook with its timers, its
queue and its result. Operations: capture, opaque replay, opaque observation,
active and interpreter resolvers. Hard: the page belongs to the provider, moves,
loads again and answers late; the worker reads it by polling and moves large bodies
in chunks. Correct: requests go out only from the document and the URL they are
meant for; outcomes stand at their place; what is handed over is whole; tab and
stage are removed. Model: `PageCapture`. The parsers beside it (`content/capture`) are
conversions.

**Scroll manager** (`lib/scroll-manager.ts`), **content bootstrap**
(`content/bootstrap.ts`): loops over a page that is not the program's own. Their stop
conditions are planned last.

**Not planned**: provider extractors, the archive model, update discovery, message
validation, text utilities and the local pages (`snapshot-analysis`,
`snapshot-catalog`, `reconcile`) are sequential conversions of data. The branch
traversal of the archive model and the inventory classification of update
discovery are candidates for checks over bounded inputs.

## ExportOperation

One step is the code between two awaits. `queue` is the promise chain of `locked`,
`job` the job that holds the lock: `job.at` names the await it stands at, and
`SaveThen`, `Go` and `Finish` move it. Every operation of the controller is a group of
actions, in the order of the code:

| code | actions |
| --- | --- |
| `locked`, `save` | `Acquire`, `Saved`, `SaveFailed` |
| reading and hashing the settings | `SettingsArrive` |
| `start` | `StartChecks`, `StartAdmits`, `Unstart` |
| `claim` | `ClaimChecks`, `ClaimAdmits` |
| `offer`, `openPopup`, `compact` | `OfferChecks`, `OfferAdmits`, `OpenChecks`, `Compact`, `WindowCreated`, `WindowRefused`, `GiveUp` |
| `choose` | `ChooseChecks`, `ChooseValidates`, `ChooseApplies` |
| `stop`, `complete` | `Stop`, `Complete` |
| `authorize`, `admissionStillCurrent` | `AuthorizeChecks`, `AuthorizeAdmits`, `Rechecks`, `AuthorizeJudges`, `AuthorizeGrants`, `AuthorizeRefuses` |
| `dispatchStageCommit` | `CommitChecks`, `CommitAdmits`, `CommitJudges`, `CommitRejudges`, `CommitDispatches` |
| `takeStageForCleanup`, `rejectChangedSettings` | `TakeChecks`, `WorkerCleansUp` |
| `recordResult` | `Record`, `Released` |
| `tabChanged`, `tabRemoved`, `settingsChanged` | `Deliver` (the epochs, at once), `Sweep` (the queued cancellation) |
| `reservePreviewSource` | `Reserve`, `Release` |
| `hydrate` | `Restarts`, `Init` |

The browser changes first and notifies the worker later (`events`); documents and
users send the requests that the present state of the browser lets them send. A
verdict of `authorize` is acted upon in the same turn of the event loop: `Idle` keeps the
environment out between a verdict and its use.

`revoked` and `fate` are history: which generations the worker was told to revoke,
and what became of each stage. `spent` counts disturbances for the bounds.

Abstractions: a conversation, a settings value and a stage are model values; the
two parts of a choice of branch (offer and choice) are one field; an identity is
a number given in creation order, as the code's insertion order is all it uses;
of the 64, 32, 32 and 4096 limits the runs use 1 to 3; deadlines pass in any
order, one per `TimePasses`. Denials that depend on the message alone (malformed
output sets, foreign senders) are left out, for they change nothing. Left out too:
the settings override of the popup, which a restart forgets (the values it stands for
are those of `settings`), the end of the browser session, which empties session
storage, and jobs that only read (`status`). The service worker compares the
settings revision once more before it starts a handler; as nothing is awaited since the
verdict, the comparison is part of `AdmissionStillCurrent`.

### Properties and runs

| run | instance | what it shows |
| --- | --- | --- |
| `admission` | one tab, two routes, two settings, two waiting jobs; two navigations, reloads or closings and an expiry, or two settings writes | `TypeOK`; `NoGrantAfterRevocation`: no message is admitted for a generation after the worker was told of its end, wherever the notification found the message; with fairness, `RevocationTakesEffect`: a revoked operation is at last not live |
| `recovery` | one tab, two routes, two settings, two clicks and two operations; a lost worker with a refused save and a navigation, with a refused save and a refused removal, or with a settings write | `OneExportPerTab` in memory and in storage; `GrantsAreSound`: no grant lives in memory alone (`GrantsAreDurable`), and what is admitted agrees with the browser, but for notifications on their way (`GrantIsFresh`) |
| `selection` | branch choice with two export windows, a navigation or closing and a lost worker; and an operation that may own one stage and is asked to take two, with a refused save and a lost worker | `DiskIsHydratable`: nothing the controller writes is refused by its own `hydrate`, which would drop all grants and cleanup capabilities; `TerminalIsFinal` |
| `stages` | one stage, two generations in turn; a navigation, or a refused save, a refused removal and a lost worker | `StageHasOneOwner`; `StageIsAccountedFor`: its bytes are given away once, and until then somebody answers for them; `ImplementsAuthority` |
| the same | two tabs, limit 2, three or four clicks and operations, an expiry; from stored states that exceed the limit | `ClaimHasRoom`, `PreviewIsExclusive`, `CapabilitiesAreRetained` |
| `lost_revocation` | `admission` with a lost worker | violated: see Findings |

The bounds. A tab, its routes and one operation are enough for what concerns one
generation, because `authorize` reads nothing of other tabs and operations but
their stages and their number; of the scenarios of `stages` one has two generations for
the stages, the others two tabs for the number. Two disturbances of the browser let a tab leave its
conversation and return, two settings writes let the settings change and return:
these are the ways in which a check of present values is fooled. Two stages and a limit of one
let a stage be admitted (`authorize`) or reported (`recordResult`) when the operation is full: loosened,
either guard alone would store what `hydrate` refuses. One waiting job
beside the running one puts a notification before, behind and into every await of
a message; `admission` has two, so that a cancellation also stands between two
messages. More than one lost worker adds nothing: a worker keeps no memory of how
often it was started. A run has scenarios (`Scenarios`), of which a behaviour draws one when
it begins: the tabs that are open, the stored state the worker starts from, the number of
clicks, the requests it is about (`traffic`; between them the runs send every kind), and the
mixtures that bound how often each disturbance happens (`mixes`).
Deadlock is not checked in these runs: with its bounds used up the model stops,
as the worker does when nobody asks it for anything.

`StageIsAccountedFor` is an action property: a step after which nobody answers for the bytes of
a stage that was begun is one of those after which the code itself leaves them to the 24-hour
sweep of their store (`LeftToSweep`): a lost worker, a refused save, the end of the grace of an
operation that ended, a report that finds its operation forgotten or full. The bytes may
be given away twice only after the removal of the stored key was refused as well.

Fairness (`FairSpec`): the browser answers what the worker awaits (storage, tabs,
windows, messages to documents, which `content/export-operation-client.ts` answers
synchronously), and delivers its events. Nothing is assumed of users and documents.

### Refinement

`ExportAuthority` has three variables: who holds a tab, which grants were ever given,
and in whose custody a stage is. A tab falls free, passes to a fresh click, or from
a click to a fresh export; a stage goes to a commit only when no operation holds it,
and is then out of reach. `ExportRefinement` reads these off what is *stored*, so
that the loss of the worker is a stutter; the run `stages` checks it, with a lost worker, a refused
save and a refused removal, and `ExportGrantsProofs` proves it.

### Theorems

The theorems hold for every value of the constants that satisfies `ParametersAreSane`,
`StagesAreFinite` (a browser session names finitely many stages) and `StoredStates`.
`StoredStates` says of the session storage the first worker finds
that it is a state, that its records are numbered from 1 and are records or
`NoOperation`, that it has one export per tab and one owner per stage. It says nothing
about the limits: an earlier version may have stored more than they allow.

`ExportOperationProofs`:

- `Invariance`: `Spec => []IInv`, the inductive invariant;
- `TypeCorrectness`: `Spec => []TypeOK`;
- `ExportsAreExclusive`: `Spec => []OneExportPerTab`;
- `PreviewsAreExclusive`: `Spec => []PreviewIsExclusive`;
- `StagesHaveOneOwner`: `Spec => []StageHasOneOwner`.

The properties are not inductive. Between the check of a start, a claim or a begin
and the write that gives the grant lies the await of the settings, and in that
state of the model nothing but the position of the job says that the tab is free.
`IInv` therefore adds to `TypeOK`, `OneExportPerTab`, `PreviewIsExclusive` and
`StageHasOneOwner` (parts `Grants` and `Owned`): `CheckHolds`, that what a job checked
before it read the settings still holds when they arrive, since only the holder of
the lock changes the controller's state; `StepsFit`, which jobs can stand at which
step, so that a step finds the kind of request it expects; and `RunningFit`, what a
running stage handler is about. The lemmas of the first section say of each operator on
the state that it gives nothing (`Weaker`: no intent appears or is altered, no
operation becomes live, moves or returns from its end, no stage is gained); most
actions preserve the invariant by them and `JobStepKeeps` alone. What is left are
the few steps that give: `StartAdmits`, `ClaimAdmits`, `AuthorizeAdmits`, `Record`,
`Reserve` and the steps of a choice.

The second part of the module is about records:

- `EndsAreFinal`: `Spec => TerminalIsFinal`;
- `CapabilitiesStay`: `Spec => CapabilitiesAreRetained`;
- `RoomLasts`: `Spec => []ClaimHasRoom`;
- `WritesAreReadable`: every write of `disk` satisfies `Hydratable`, the limits on clicks,
  operations, windows and the stages of each operation included, whatever the first worker found;
- `SuccessorsHydrate`: `Spec /\ Hydratable(disk) => []DiskIsHydratable`. The hypothesis is
  about the stored state of the first worker: one that cannot be hydrated stays unreadable until
  something is written.

One lemma says what any step of a job may make of an operation (`Moved`): it neither
appears nor vanishes nor returns from its end, while it is live it keeps its tab and
route, and if it could be read back it still can; a stage is only registered with an operation
that is not full. The four results follow from it and from a
close look at the steps that add or evict a record: `Acquire` (which prunes), `StartAdmits` and
`ClaimAdmits`. `RoomLasts` is the one that
counts: what makes room at a start is still room at the claim, as between the two only the holder
of the lock changes the records. The proof of `CapabilitiesAreRetained` found that its first
wording was wrong. In a state with more operations than the limit, which an earlier
version may leave, `prune` ends an operation whose two hours are over and evicts it in the
same turn. The property now speaks of operations that are within their deadline or own a
stage, as the code means it.

`ExportGrantsProofs`:

- `GrantsHold`: `Spec => []GrantsAreSound`, of two parts: `GrantsAreDurable`, that outside
  a save no grant lives in memory alone, and `GrantIsFresh`, that what is admitted agrees
  with tab and settings but for notifications on their way.

The argument follows the job that decides. At each of its steps one of three things
holds: what it has read so far agrees with the browser; or the notification that says
otherwise is not delivered yet; or it is, and then an epoch or the revision has moved, and
the last comparison, made in the step of the verdict, refuses. `GInv` writes this down for
the settings (`SettingsFollow`) and the tab (`TabFollows`), with the epochs of a message
never ahead of the worker's (`Stamped`) and a verdict reached only through the question to
the browser (`VerdictsAreJudged`). `Undecided` disposes of all jobs that decide nothing.

- `RevokedIsNotGranted`: `Spec /\ []Lives => NoGrantAfterRevocation`, where `Lives` says that
  the worker has not been lost. The hypothesis cannot be dropped: a lost worker forgets its queue
  and with it the end of what it had stored (run `lost_revocation`, see Findings).

Its invariant `CInv` follows the notification from its delivery on: what it revokes and has not
ended yet has its end coming, in the queue or from the job that holds the lock
(`EndsAreComing`); every message is outdated by each notification that stands behind it, by
the epoch of its tab or the revision (`QueueInOrder`); identities not given yet are not revoked
(`Unheard`). So a message that is judged while its operation is revoked and still live must
have arrived before the notification, and the last comparison refuses it. The proof needs that
an operation keeps its tab and route while it is live, as the notification looks for it by
these (`Moved`, below), and that a claim takes both from the click, whose end may be
coming already.

Its second part is about stages and storage:

- `StagesAreAccountedFor`: `Spec => StageIsAccountedFor`;
- `AuthorityIsImplemented`: `Spec => ImplementsAuthority`.

A stage is not in one variable: its name is in the records of an operation, in memory and in
storage, in messages that wait, in the handlers that run and in the job of the moment. The
invariant `SInv` follows the messages about it. Two of them never speak of the same stage,
unless one is a `begin` that asks for a name already taken (`OneAboutAStage`); each agrees with
what has become of the bytes, a commit with bytes that were begun, a report with bytes just
opened and owned by nobody (`MessagesFit`); and the job that gives bytes away took the stage from
its operation first, in memory and, unless the storage refused, in the storage
(`Settled`, `Unowned`). So a second commit, or a cleanup after a commit, finds no owner and is
refused before it reaches the bytes. The second half needs no more than a close look at each step
that ends an answer: it begins another, gives the bytes away, or is one of `LeftToSweep`.

The refinement has each step of the controller map to a step of `ExportAuthority` or to a
stutter. What is stored changes in three places only: at the end of a save, when the
stored key is removed after a refused one, and not at all otherwise. So the argument is
about what memory holds while a save is awaited (`Pending`): identities not yet given are in nobody's
hands (`IntentsAhead`); an operation live in memory is live in storage, on the same tab, or a
click on its tab is stored; and a click known to both is the same in both (`SavePending`). From these a holder of a tab in memory follows the
one in storage by a free tab, a fresh click or the export of that click (`HoldersFollow`), identities that
were given stay given (`GivenGrows`), and a stage handed over is owned by nobody
(`HandedStays`).

Every safety property of this part is proved, the refinement included.

## StagedDownload

The commit of a sealed stage to a file, to Obsidian or to both; the observer of the
download; the registry in local storage; the recovery by this and by later workers;
the offscreen document with its leases; the browser's downloads. The archive and the
binary commits share the design and differ in a few rules; `kind`, chosen at the
start, selects between them:

| rule | archive | binary |
| --- | --- | --- |
| the registry refuses a record | no download | download without a record |
| a stage is marked active | after its record is written | before |
| no document for the commit | the stage is left to its store's sweep | the stage is aborted first |
| a record without a download id, and no handler in this worker | quarantined for a day | taken for lost and released |

| code | actions |
| --- | --- |
| `commitStagedArchiveCompanion`, `commitStagedBinaryAsset` | `Begin`, `BeginFails`, `Opens`, `OpenFails`, `Undoes`, `UndoFails`, `ObsidianEnds`, `Returns` |
| `remember…Recovery`, `assign…RecoveryId` | `Remembers`, `RememberRefused`, `Assigns` |
| `downloadArchiveBlob` | `CallbackArrives`, `DownloadRefused`, `Inspects`, `Notices`, `Cancels`, `GivesUp` |
| `releaseWhenOwned` and what follows it | `Cleaned`, `Releases`, `Aborts`, `Forgets` |
| `reconcileRecoveryRegistry` | `RecoveryReads`, `RecoveryJudges`, `RecoverySearches`, `RecoveryReleases`, `RecoveryAborts`, `RecoveryForgets`, `RecoveryEnds` |
| leases and the close timer | `Lend`, `GiveBack`, `DocumentCloses`, `OtherWork` |
| the browser, its user and time | `DownloadStarts`, `DownloadEnds`, `Erases`, `Announces`, `Ages`, `Crashes`, `Sleeps`, `BrowserRestarts` |

| run | instance | what it shows |
| --- | --- | --- |
| `download` | one stage of either kind; five mixtures of a lost worker (once or twice), a browser restart, lost answers, refused storage, a failed lookup, a refused lease and other work of the document | `BytesOutliveReaders`: neither the files of an archive stage under its download nor the Blob under the Obsidian destination are taken away; `CleanupIsAssured`: what is left of a stage is recorded, or a handler has it in hand, and so has every lease an owner; `ReportIsHonest`; with fairness, `DownloadIsCleanedUp` |
| `lost_binary` | one binary stage, no failure at all | violated: see Findings |

One stage is enough for these: two commits share only the count of leases, the timer,
the limit of the registry and the queue of the recovery. Of these `OtherWork` is the other
holder of a lease, `RememberRefused` the full registry, and a recovery that is late for
a record is one that has not started. A sleeping worker costs nothing, so workers
are replaced as often as one likes; crashes in the middle of a handler are bounded
by two. Deadlock is checked.

Fairness: the browser answers what the worker awaits and its timers fire; a worker
with nothing to do is stopped, and another started by the next event; a day passes.
Nothing is assumed of the downloads, which may run for ever, nor that events are
announced.

Abstractions: a mutation of the registry runs in a queue of its own and is one step;
Chrome's two event sources (the terminal event, the list of downloads) are `told` and
`Listed`; a cancellation is an end of the download; the document holds valid URLs in
`urls` and loses all of them when it is closed. The abort of a stage by its document's
own request while it is committed is kept away by the controller (a commit takes the
capability first) and not modelled here.

Two behaviours of the code are in the model and forbidden by no property:

- Leases are counted in the memory of the worker (`background/output-handlers.ts:96`).
  When the worker that observes a download is stopped, its successor counts from
  zero: the first lease that is given back (of the clipboard, say) closes the document
  after five seconds, and with it the Blob URL of a download that is still reading.
- `commitStagedArchiveCompanion` awaits `abortArchiveStage` when the URL is refused; the
  abort takes a lease of its own, and if that is rejected the commit ends in its catch
  clause, without a URL, where `releaseWhenOwned` returns at once: its own lease is not
  given back while the worker lives. The part of `CleanupIsAssured` about leases is stated
  without refused leases.

### Theorems

`StagedDownloadProofs` proves `TypesHold` (`TypeOK`), `BytesAreKept` (`BytesOutliveReaders`),
`CleanupsAreAssured` (`CleanupIsAssured`) and `ReportsAreTrue` (`ReportIsHonest`) for any set of
stages, so that one stage in the run is enough for these, and any number of losses. The
only assumption that is not about bounds is `"recovery" \notin Stages`, since leases are held
by stages and by the recovery.

`IInv` says the same of each stage. `ProgressOf`: the observer, the cleanup and the caller of a
commit are over in a fixed order. `Unasked`: before the browser is asked nobody but the commit
knows the stage. `Known`: what was announced, told or removed from the list has ended, and a report
is backed by the download. `Held`: the lease lasts from the first message to the cleanup,
the bytes as long as an output may read them, and an archive stage with a download and files
has a record. `Recoverable`: a record that is not marked active belongs to a commit that
is over, which is what entitles the recovery to it, unless the record is more than a day old.
The recovery reads the registry once and judges it later, so this is said of what it has read
(`recovery.left`) as well. `FrameKeeps` disposes of every stage that a step does not concern.

## StageStore

A content script fills its stages one after the other; each of its requests goes
through the worker, which waits ten seconds, to the document, which runs requests as
tasks of their own. `client` is the content script's place in `stageArchiveArtifactBytes` or
`stageOneAsset`; `call` is the worker's `Promise.race`, with "late" for a request it no
longer waits for; `task` is how far the document has come, one step per await; `data`
and `meta` are the two files. `kind`, chosen at the start, selects between the stores:

| rule | archive | binary |
| --- | --- | --- |
| who names a stage | the worker; a content script whose begin failed does not know it | the content script, which aborts a begin that failed |
| an answer after its timeout | the worker aborts the stage once more | nobody attends to it |
| append | compares the size of the data file as well | compares the metadata only |
| the end | seal marks the metadata | finalize verifies, and the commit aborts what fails |
| a sweep looks at | twenty stages | twenty files |

| code | actions |
| --- | --- |
| the content scripts | `ClientBegins`, `ClientAppends`, `ClientSeals`, `ClientReleases` |
| `sendOffscreen`, `sendStageMessage`, `finalizeBinaryStage` | `Answers`, `TimesOut` |
| `begin` with `pruneStale` and its catch clause | `BeginPrunes`, `BeginCreates`, `BeginUndoes`, `MakesEntry`, `Records` |
| `append`, `seal`, `finalize`, `writeMetadata` | `AppendChecks`, `AppendWrites`, `SealChecks`, `MakesEntry`, `Records` |
| `abort`, `removeExact` | `RemovesData`, `RemovesMetadata` |
| what fails, is lost or grows old | `NotServed`, `WorkerLost`, `DocumentLost`, `DocumentCloses`, `TabCloses`, `Ages`, `OthersBegin` |

| run | instance | what it shows |
| --- | --- | --- |
| `stage_store` | two stages of either kind, two chunks, a sweep that looks at one entry; each disturbance alone, and a timeout with a refused operation or a lost document | `AcknowledgedIsStored`, `NothingIsStranded`; with fairness, `StagesAreSwept` |

`NothingIsStranded` is the promise of the late handlers of archive stages. It is about
overlap: after a timeout the abort runs beside the request it is to undo, which may
write either file after its removal or, since the browser does not remove a file that
is being written, make the removal fail. The second abort, which follows the late
answer, is what keeps the promise. It is not kept, and not claimed, when the worker is
lost with its handler, when an abort itself fails or is lost, and when the document is
lost before the timeout: `sendOffscreen` then takes its catch clause, which undoes
nothing, and the content script never learned the name of an archive stage that was
being begun. For these, and for every late binary request, `StagesAreSwept` has the
sweep.

Bounds: stages meet only in the sweep, for which two, and a limit of one, are the
smallest case of a stage that hides another. Two chunks make an append follow an
append. A file ages when nothing is under way; a day under a content script that is not
done is a disturbance. Deadlock is not checked: when the stages are gone the model stops.

Fairness: content scripts and the document go on with what they do, as one (any stage
whose next step is possible makes some step possible, and every stage takes a bounded
number of them); a day passes for a stage nobody uses; exports go on to be begun, which
is what runs the sweep. In the code a sweep needs a begin of the same kind of stage.

Abstractions: the size of a file in chunks; a file is replaced when its writer is closed;
a sweep is one step, since what it takes has not been written for a day; the hash and
the descriptor, which content scripts do not change, always agree. A repeated append
or seal, which the archive store would acknowledge again, is sent by nobody.

### Theorems

`StageStoreProofs` proves `TypesHold` (`TypeOK`), `AcknowledgedStays` (`AcknowledgedIsStored`) and
`NothingStranded` (`NothingIsStranded`) for any number of stages and chunks and any limit of
the sweep.

`AcknowledgedIsStored` needs, step by step, what both files hold while a stage is filled
(`Unswept`), and that no second request of the content script is under way (`OneRequest`), as
each would invalidate what the other has checked. `NothingIsStranded` is the harder one. At
any time after its content script has done with an archive stage there is either a request that
is late, so that a second abort will follow its answer (`LateIsAttended`), or everything that is
left of the stage is about to be removed by an abort that has not come to it yet (`Removed`);
both, and that a stage that could not be begun is not there (`BegunOrGone`), only while no
abort has failed and nobody was lost (`Calm`), which are the exceptions the property names.

## InlineOutput

Artifacts that are small enough travel in the message itself. The worker has the
offscreen document make a Blob URL, downloads it, looks up where the file landed and
revokes the URL; a presentation is followed by a receipt, once it is confirmed at its
path. The clipboard needs the document as well. A strict Markdown download uses a
data URL and a gate, which lets one download of the worker pass at a time.

`stage` is how far the handler of a job has come, `request` its message to the document;
`calls` are the calls to the offscreen API that the browser has yet to answer, in
order; `holders` are the leases. `Acquire` and `Release` are the two operations on
leases, `Release` arming the timer that `TimerFires` turns into a call to close.

| code | actions |
| --- | --- |
| `acquireOffscreenLease`, `ensureOffscreenDocument` | `Begins`, `DocumentFound`, `DocumentMissing`, `DocumentCreated`, `DocumentRefused` |
| `scheduleOffscreenClose` | `TimerFires`, `DocumentClosed` |
| `createArchiveBlobUrl`, `revokeArchiveBlobUrl` | `DocumentServes`, `BlobArrives`, `BlobFails`, `BlobIsLate`, `AttendsToLate`, `Cleaned` |
| `handleVerifiedInlineDownload`, `confirmArchiveDownloadPath` | `DownloadEnds`, `DownloadIsSlow`, `LateEnd`, `PathIsLookedUp` |
| `downloadStrictMarkdown` | `BeginsStrict` and the same |
| `handleCopyToClipboard` | `Copied` |
| the browser | `DownloadMoves`, `WorkerLost` |

| run | instance | what it shows |
| --- | --- | --- |
| `inline_output` | two jobs of every kind; every disturbance beside a slow download or a slow document | `TypeOK`, which also says that whoever counts as a user of the document or holds the gate is at work; `TransfersAreProtected`: no lease without a document, no close beside a lease, no URL revoked under its download, one strict download at a time; `OutcomeIsHonest`: reports and receipts agree with what was downloaded; with fairness, `EverythingIsReleased`: gate and document |

Two jobs are the least that share a document, a creation or the gate; a third adds no
new relation, as everyone who awaits the document is served together. Assumed of the
browser: it answers the calls about the document in order, each within the five
seconds of the timer (`waits`). Without that a close that is in flight could meet a new
lease, which the code does not guard against.

What `downloadArchiveBlob` makes of callbacks, events and lookups is in `StagedDownload`;
here a download ends, fails or outlasts its caller. The bytes of an artifact, which are
verified before it is written, and downloads that never use the document or the gate
are left out. `EverythingIsReleased` excludes a lost worker: its leases are lost with it.
Fairness: the worker goes on, the document and the browser answer, timers fire.
Deadlock is not checked, as the model stops when the jobs are done.

### Theorems

`InlineOutputProofs` proves `TypesHold` (`TypeOK`), `TransfersHold` (`TransfersAreProtected`) and
`OutcomesAreTrue` (`OutcomeIsHonest`) for any finite set of jobs of any kinds; nothing is assumed
but that `Nobody` is not a job.

That a document is not closed under a lease depends on all calls that the browser has not
answered. `DocumentStays` says that only five queues of calls ever occur, that while a lease is
held or the timer runs the calls under way only look for the document, and that the
timer has waited for each of them; the assumption on the browser (`waits`) enters there. The other parts
of `IoInv` speak of one job (`JobSound`): at which stages exactly it holds its lease and the
gate, which `TypeOK` needs, its URL, and what its stage says of its download. In two actions (`DownloadEnds`, `PathIsLookedUp`) alternatives that
overlapped were made exclusive so that they could be reasoned about.

## SettingsStorage

A form keeps the key it was filled with (`saved`) and whether a save of it is in doubt
(`uncertain`), and sends the key only if it was edited or is in doubt. In the worker
`queue` is the chain of `enqueueSettingsMutation`, `override` the outputs that are used
before they are stored, `requests` the counters that tell newer from older. A mutation
writes the key to the local area and reads it back, then reads, merges and writes the
synced area. All that is set but the key is known by the number of its request.

| code | actions |
| --- | --- |
| `initPopup`, the key field | `Opens`, `Types`, `Closes` |
| `handleSave`, `handleTest`, the output switches | `Saves`, `Tests`, `Switches` |
| `saveSettings` | `KeyIsSet`, `KeyIsLookedUp`, `SyncIsRead`, `SyncIsWritten` |
| `migrateSettings` | `Migrates`, then `SyncIsRead`, `SyncIsWritten` |
| `handleMessage` | `MessageArrives`, `MessageReads`, `MessageDecided`, `MessageDone` |
| what else may happen | refusals in each step, `WorkerLost` |

| run | instance | what it shows |
| --- | --- | --- |
| `settings` | two forms, one new key and one left by an earlier version; five mixtures of up to three requests with edits, messages, refused writes, a lost worker or a closed form | `AcknowledgedIsStored`: what was reported as saved is stored until a later request replaces it; `ChoicesAreNotUndone`: a key is never in neither area, nor replaced by one nobody chose (`KeyIsKept`); outputs never fall back, and nothing is dispatched to outputs that a switch has replaced (`NewestOutputsWin`) |

Bounds: three requests are an older save, a switch and a newer save; two forms are the
least that can disagree. Deadlock is not checked.

The properties leave two things open. A switch takes effect at once, a save when it is
stored: a message that reads the settings while a save is being written goes to the
settings of before. And `handleTest` saves whatever key its form shows, so that a form
that has been open while another one saved a key brings back the older one when it is
tested, although nobody edited it there; the model counts a test as a choice of its user
(`tried`).

### Theorems

`SettingsStorageProofs` proves `TypesHold` (`TypeOK`), `SavedIsStored` (`AcknowledgedIsStored`) and
`NothingIsUndone` (`ChoicesAreNotUndone`) for any number of popups, keys, requests and
messages, assuming that `"none"` is not a popup and that the names for no key are not keys.

`SInv` has the order of the queue (`Ordered`: what is stored is older than what waits, what waits
is in the order of the requests), that only its first mutation is under way and has read
the synced area as it still is (`OneAtATime`), that a form sends a key exactly if its user
chose it (`KeysAreChosen`) and is in doubt exactly while a key of its user may or may not be
stored (`FormsAreCertain`), and that a message whose revision is the worker's has read outputs
no older than the newest switch (`SwitchesHold`). A key is kept because the mutation that
removes the one in the synced area has either written its own or found one in the local area.

## PageCapture

To read what ChatGPT's own page loads, the worker opens a temporary tab at the URL of
the conversation with a marker; the document is hooked before the page's code runs
(`startChatGptDocumentStartCapture`). Five procedures work this way; `mode` selects one
of them, as `service-worker.ts` starts each for itself:

| `mode` | worker | what its hook does |
| --- | --- | --- |
| `capture` | `chatgpt-capture.ts` | reads the page's own answer, and watches its requests for files for two seconds |
| `replay` | `chatgpt-opaque-replay.ts` | sends the page's request once more and reads that answer |
| `observe` | `chatgpt-opaque-resolver.ts` | only watches the requests for files |
| `active`, `interpreter` | `chatgpt-active-resolver.ts`, `chatgpt-interpreter-resolver.ts` | on command, asks for a list of items, one after the other |

`TemporaryTab` has the tab, the documents in it and the worker that opened it, which is
what the five have in common; `ResolverQueue` adds the last two, `CaptureStaging` the first
three with their chunks and stage; `PageCapture` puts them together.

| code | actions |
| --- | --- |
| `tabs.create` and `removeTemporaryTab` in all five | `Asks`, `TabOpens`, `TabRefused`, `TabIsLate`, `Ends` |
| `waitForTemporaryTarget` | `TargetIsReady`, `PageIsReady`, `RouteIsReady`, `Confirmed` |
| `run…Resolvers`, `resolveChatGptInterpreterAssets` | `FirstRead`, `Rechecks`, `CommandAnswered`, `Polls`, `RunsOut` |
| `arm…Resolver`, `dispatch…Queue`, `complete…Item` and the timers in the page | `SourceClaimed`, `SourceAnswers`, `CommandRuns`, `ItemAnswers`, `ItemRead`, `ItemTimesOut`, `HookTimesOut` |
| `createWrappedFetch`, `captureNativeResponse`, `beginResolverDiscovery`, `armResolverDiscoveryWindow` and their twins | `ConversationClaimed`, `ConversationAnswers`, `ConversationRead`, `LookupSent`, `LookupAnswers`, `LookupRead`, `WindowExpires`, `HookGivesUp` |
| `dispatchOpaqueReplay`, `captureOpaqueReplayResponse`, the reader of chunks | `ReplayAnswers`, `ReplayRead`, `ReaderExpires` |
| `waitForCapturedResult`, `waitForReplayResult` | `HookRead` |
| `stageHookCapture`, `stageReplayCapture`, `materializeCapturedResult` | `StageBegun`, `ChunkRead`, `ChunkAppended`, `StageSealed`, `ResultReread`, `Confirmed`, `Aborts`, `CaptureRunsOut`, `LateAnswer` |
| the store (see `StageStore`) | `BeginServed`, `CallChecked`, `CallWritten`, `CallRefused` |
| the page, its user, the browser | `Loads`, `Moves`, `Reloads`, `UserCloses`, `TabRemoved`, `WorkerLost` |

| run | instance | what it shows |
| --- | --- | --- |
| `captures` | the five procedures; three items, two chunks, two requests for files; five mixtures of navigations, a reload, unfit answers, a refused store, a closed or refused tab and a lost worker; and for previews see the next section | `ResultsAreTrue`: what an item got stands at its place, whatever arrives late, and who was not asked for is not blamed (`OutcomesAreFaithful`); a stage that is handed over has all bytes of one document, one that is not is gone (`WholeOrNothing`); `DispatchIsGuarded`: a request goes out only from the document and the URL it was armed for, one at a time, and what was found is not lost to a timer or changed when it is out; with fairness, `CapturesEnd`: the tab is removed, the hook comes to a result |

Bounds. Three items are one that is over, one under way and one not asked for. Two
chunks let the page load again between them. Two requests for files let one be read when
the window ends and one arrive after it. Three navigations let the page leave its URL, come
back and leave again. Deadlock is not checked: when the tab is gone the model stops.

Fairness: the browser opens and removes tabs, a deadline passes, the store answers, the
timers of the page fire and the worker goes on. The page, its answers and the user are
free. In mode `active` and `interpreter` `CapturesEnd` speaks of the tab only: the page's
common timer is the worker's deadline by another clock.

Abstractions: the URL of the tab is exact, elsewhere or loading; every document has other
bytes of the same length, so that its number stands for them and a wrong mixture shows only
in the hash; what a page may do to the built-ins the hook captured, the parsing of
requests, and the validation of what the hook tells are left out, and an unfit answer is a
disturbance. The three checks of the URL in `captureOpaqueReplayResponse` are one per await.
The store answers within its own ten seconds here. The probe (`chatgpt-opaque-probe.ts`) only
inspects the page and keeps no state of this kind.

Some behaviours of the code are in the model and forbidden by no property:

- A capture does not attend to an answer of the store that comes after its deadline: if
  a begin is under way then, the stage stays until the sweep (`left` in `WholeOrNothing`). A
  replay is told the name of its stage beforehand and aborts it once more.
- A temporary tab whose worker is lost stays open. `CapturesEnd` excludes it.
- The abort of a stage of the tab is taken to succeed: a store that refuses it would
  leave the stage to the sweep.
- The singular dispatch of a replay is counted per document. A page that loads again at its
  marked URL before the worker has met it sends the request once more.

## TextPreview

`TextPreview` is the controller. A job is a function given to `locked`; those that wait are
in `queue`, in the order of their calls, and `holder` is the job that holds the lock across
an await, with `at` naming the await, `gen` and `rev` the epoch and the revision read when
the job began, and `seen` what the browser or the document answered. The rest of a call up
to the next await is one step. `prune`, which precedes every job, is a step of its own when
it has something to abort. `TextPreviewParties` adds the requests of the capture about a
stage, the start, which opens and navigates the window without the lock, and the
listeners, documents and windows around it.

| code | actions |
| --- | --- |
| `locked`, `prune`, `cleanupTombstone` | `Prune`, `job` |
| `claim`, `awaitSelection`, `checkCaptureLease`, `publish` | `Claim`, `AwaitSelection`, `CaptureLease`, `Publish` |
| `choose`, `ownedCommand` | `Choose`, `DocumentAnswers`, `CancelArrives` |
| `status`, `take`, `ack`, `invalidate` | `Status`, `Take`, `Ack`, `Invalidate` |
| `invalidateSession`, `removeSession`, `releaseSource`, `retainCleanupTombstone` | `Invalidated`, `Removed`, `StillReserved`, `Retained`, put together in `TakesOut` |
| `authorizeCaptureAction`, `recordCaptureResult` and the handler between them | `Authorize`, `OpRuns`, `Record` |
| `startTextPreview` | `Start`, `Create`, `WindowOpens`, `WindowNavigates`, `NavigationConfirmed`, `Register`, `DocumentBegins`, `BeginIsLost`, `StartConcludes`, `Settle`, `Remove`, `WindowRemoved` |
| `tabRemoved`, `tabChanged` | `Announced` (the epoch, at once), `TabEvent` (the job) |
| the source document | `ClientBeginsStage`, `ClientSelects`, `ClientChecks`, `ClientDiscards`, `ClientPublishes`, `ClientGivesUp`, `ClientStops`, `CaptureExpires` |
| the preview window | `PageRequests`, `AnswerIsLost`, `PageExpires`, `PageClears`, `WindowGoes` |
| users, tabs, settings, exports, time | `UserChooses`, `SourceReloads`, `SourceLoads`, `SourceWanders`, `SourceCloses`, `Elsewhere`, `DeadlinePasses` |

Its properties are checked in `captures`, by nine mixtures of starts, a stage, a refused
abort, a reload, a wandering or closed source, a closed, cleared or reloaded window, a late
answer, a settings write, an export and deadlines:

- `ResourcesAreOwned`, of two parts. `SourceIsReserved`: a preview that waits or captures holds the reservation of its tab,
  no other holds it, and no export starts beside it. The end of a preview gives up only
  what that preview holds, although the next one may already be under way in the tab.
  `StagesAreOwned`: a stage that exists is in a session, in a tombstone, or named by a
  request that is yet to be recorded, until the tombstone expires.
- `RevokedIsWithdrawn`: a preview whose tab was seen to leave the conversation does not
  become readable, whatever the holder of the lock does then, and is withdrawn by the
  job that waits.
- `CapturesEnd`: the reservation is given back and what is over disappears, although a
  deadline is looked at only when a message takes the lock.

Bounds. Two previews are a preview and the next one of the same tab; a start is answered
before the next, as the popup is busy until then. One stage, and a limit of one, have a
stage that comes in time, one that comes late and a list that is full. A mixture with a
selection has a deadline, since a user who never chooses is waited for until then. Polls of
the window that would learn nothing new are left out. A mixture combines
few happenings, as the theorems below cover safety under all of them. The browser tells of the
loading before it confirms a navigation. `tabs.get` answers what was so when it was asked or
what is so now.

Fairness: the worker, the browser, the documents that live and the clock go on. Nothing
in a preview repeats itself, so fairness of their disjunction is enough: it leaves any one
step undone only as long as others are taken, and of those there are finitely many.

Abstractions: all previews are of one source tab, and those of other tabs only
exhaust the leases (`other-leases`); deadlines are flags; the handler of a stage hands it
over whole or not at all, which is what `WholeOrNothing` says of a stage in the mode
`capture`; the settings are known by their revision. Left out: the content of a capture
and of the preview, the files made of it (`docx`, `pdf`), what the popup renders, and the deadline
by which the page stops to wait for its registration (`registrationDeadline`).
The worker's loss ends every preview, as nothing of one is stored; it is left out too.

`Captures` composes the two ways in which a conversation is read for the worker. They
share the stage store, in which no name occurs twice, so that neither can disturb the
other there: a behaviour has one of them (`way`), and the other stays in one initial state.

### Theorems

`CapturesProofs` proves `CaptureTypes` (`TypeOK`); of the temporary tab `ReportedResultsAreTrue`
(`ResultsAreTrue`) and `DispatchesAreGuarded` (`DispatchIsGuarded`); of the preview
`PreviewResourcesAreOwned` (`ResourcesAreOwned`) and `RevokedPreviewsAreWithdrawn`
(`RevokedIsWithdrawn`). They hold for any number of items, chunks, previews and stages, any
limit on stages and any mixtures of disturbances; assumed is that there is an item and a
chunk and that previews are numbered from 1, as `SourceTab` is 0. The two ways share no
variable, so each has an inductive invariant of its own, which TLC checked on the instance first.

`PageInv` says of the tab which document it may hold (`TabFits`). Of a queue (`QueueFits`)
it says that its outcomes stand at their places, that the item whose answer is awaited is
the one after them, and that a command is only ever carried out in the document it was sent to;
that an answer which the worker reports is what the hook then holds needs the last of these.
Of a stage (`CaptureFits`) it says, for each place of the worker, which call may be under way
and what the stage then holds: `CallFits` excludes a call of another kind, `EndFits` says
whose call is left behind when the worker has given up. `WholeOrNothing` follows at the two ends.

`PreviewInv` has five ideas.

- A session, its tombstone and its start agree (`LedgerFits`, `StartFits`): one that waits or
  captures holds its tab, and what is gone holds nothing.
- One preview at most is the owner of the reservation (`SourceIsReserved`). A release by a late job
  is harmless because `releaseSource` asks for the flag of its own session, and no two sessions have it.
- A stage that exists was begun by its own capture (`StoredFits`), and a request about
  it that the store has carried out but nobody has recorded names it (`OpsFit`). Since a
  preview has one such request at a time, no stage is forgotten when the list is full.
- The holder of the lock and those who wait are one line (`Line`). For each job in it `JobFits`
  says what still holds when its turn comes, although others went first; of jobs that create,
  register, authorize or record there is one for a preview at most (`SingleFits`).
- When the source of a preview is lost, either the job that withdraws it stands in the line
  before any job that could publish its capture, or that job will be refused, because the
  preview was claimed in an older epoch than the current one (`LossFits`) or, if the job already
  holds the lock, because the job began in one (`HolderFits`). That is why `publish` compares
  epochs when it has the lock and again after each of its awaits: the epoch changes at once, in the
  listener, the withdrawal only under the lock.

`CapturesEnd` is liveness and stays with TLC.

## Baseline

A baseline is a plan of conversations to be captured one by one, by many pages and
across restarts. `BaselinePlan` has its data: a checkpoint, which counts its revisions and
observations and charges every reservation to a budget window, and an operation record for
each item that was reserved. Everything in it is a function of an inventory of the two
stores: what a command requires (`CanReduce`, `CanObserve`, `Candidates`), what it makes
(`Reduced`, `Observed`), and what a read admits (`Admissible`, `HasHeadroom`).

`BaselineOwner` is the class of that name. A call is modelled in three steps, between which
anything else may happen: it reads the stores and decides (`Read`), it replaces them if they
are as it has read them (`Transact`), and its page learns that the transaction is complete
(`Report`), or never does (`EndUnknown`). A handle is what a page keeps in memory; `current`
of a call says whether its session is still that of its handle. `BaselineExecution` adds the
executions: their claim, the token they spend at the request to the provider, the capture,
the files, and the evidence or the mark.

| code | actions |
| --- | --- |
| `create`, `applyControl`, `reserveNextChatGpt`, `recoverAfterRestart` | `Request`, then `CallStep` |
| `createExecutionPort`, `#claim`, `#consume`, `#mark`, `#evidence` | `PortCall`, then `CallStep` |
| `#snapshot`, `validateInventory`, `boundRecord` | `Read`, `Admits`, `Bound` |
| `#commit`, `assertUnchanged`, `assertExecutionHeadroom` | `Transact`, `StoresAsRead`, `HasHeadroom` |
| `#invalidate`, `#mutationReady`, `#sessionCurrent`, `#dispatchReady` | `Stale` and `Burnt`, `MutationReady`, `SessionCurrent`, `DispatchReady` |
| `TransactionSession.complete` | `Report`, `EndUnknown` |
| `execute` | `Claim`, `Consume`, `CaptureFails`, `Write`, `Written`, `ProducerFails` |
| `mark`, `persistEvidence` | `Mark`, `RecordEvidence`, `SkipEvidence` |
| the signal of the caller | `Stop` |
| `close`, a lost page | `Close`, `LosePage` |

| run | instance | what it shows |
| --- | --- | --- |
| `baseline` | two handles, two executions, two items; any two events of operators, stops, closes, reloads, failed writes, lost ends and bad clocks | `AskedAtMostOnce`: the provider is asked once for an item at most, and only after the stored record says so; `NoEffectAfterStop`: it is asked only while the operator's last word was go, and never by an execution that was told to stop, wherever in its calls the word has fallen; `OutcomesAreHonest`: an execution that ended says what is stored; `StoredIsUsable`: what is stored is admitted by every later read, and an effect in flight can still be paused, recovered, marked and concluded |

Bounds. Two handles are two pages, or one that was loaded again beside one that was not.
Two executions of two items let both claim one reservation, or the second item be reserved
when the first is concluded. A behaviour begins without a baseline, with a new one, or with a
reservation that a page has left behind (`LeftBehind`), of which the handles may be new or
at work; two events then reach an activation that crosses a pause, a reload between a
claim and its request, or a reservation that meets the last revision. `MaxRevision` and
`MaxObservations` are chosen so that a second operation just fits after the first, and does
not when an event has cost a revision in between. Handles and executions are
interchangeable, so the run uses their symmetry; it checks no liveness. Deadlock is not
checked: an operator who asks for nothing is no error.

Abstractions. The limit of 64 KiB on the encoded checkpoint is taken as its number of
observations; a cooldown is set or not, and `warm` whether it is over; the identities of an
operation are those of its item; the expected revision of an operator may or may not fit.
Catalog, plan and their digests, which nothing changes, are left out, and so is the
opening of the database. `set-cooldown`, `clear-cooldown` and `roll-budget-window` are in
the modules but not asked for in the run (`Controls`): they cost a revision as an
activation does. Nothing in the owner abandons an operation. An execution takes the
transport `inline` or `staged`, which differ here in what is begun after a stop; the
leases under which a staged execution keeps stages (`stages.ts`), and the acquisition of
attachments (`ordinary-direct-png.ts`), are planned.

No liveness is claimed: no module of the extension calls the owner yet, so that nothing
in the code says who goes on with an execution.

### Theorems

`BaselineProofs` proves `TypesHold` (`TypeOK`), `EffectsAreSingle` (`AskedAtMostOnce`),
`StopsHold` (`NoEffectAfterStop`), `EndsAreHonest` (`OutcomesAreHonest`) and `NothingIsLockedOut`
(`StoredIsUsable`) for any number of handles, executions, items, revisions, observations,
windows and slots, of either transport. Assumed is that an execution is not an operator's caller, and
that `MaxRevision` (6) and `MaxObservations` (4) leave room for a first operation; the code has
far more of both.

In `BInv`, `IsStored` ties an execution to the inventory: what it was told, or will be told by the
call it awaits, has happened to the record of its item, although others may have written since.
It is kept because the phases of a record have an order that no command reverses, and
because a transaction replaces exactly what its call has read. `ClaimsDiffer` makes the claim
of an item exclusive, from which `AskedAtMostOnce` follows; `WordsFollow` says that whatever can
still enable a handle was asked for by the operator's last word, from which `NoEffectAfterStop`
follows. `StoredIsUsable` is arithmetic: a reservation is admitted only with revisions and
observations left for everything that must still be possible (`HasHeadroom`), and no
command takes more than it reserved; the counts of items use the library's theorems on finite
sets. The alternatives of `AfterConsume` overlapped and were made exclusive.

## Findings

`lost_revocation` (`doc_code_divergence`). ITH-009 says a generation "is revoked by
Stop/navigation/settings changes, and cannot be borrowed by a stale continuation". A
revocation lives in memory until its job has the lock and saves. If the worker is
lost in between, the next one hydrates the live operation, and once the tab is back on
its conversation the operation is admitted again.

`lost_binary` (`doc_code_divergence`). `background/output-handlers.ts:391` says "Blob may be
released only after Downloads has reached a terminal state". A binary commit that gave
up before the callback of its download leaves a record without an id; when its worker is
stopped, the next one takes the record for lost and removes the files, although the
download may still begin or be under way. Archive stages quarantine such a record.

## Hazards without a property

If a save and the removal after it are both refused and the worker is then lost, the
previous grant is hydrated again, although the failed job may have treated its stage
as its own; `recovery` and `stages` have the two refusals and the loss, and their properties hold, but
that a stage is given away once (`StageIsAccountedFor`) is not claimed there. At 4096 stages `recordResult` cancels an
operation without entering the stage it was told of, which is left to the sweep of its
store. A commit whose URL is refused while the abort of its stage fails keeps its lease (see
StagedDownload). The order in which a popup shows the answers of overlapping refreshes
(`popup/export.ts:152`) belongs to a planned module.

## Plan

The next modules, in order of the weight of what they guard. A run asks one question
of one part; small modules that follow from one source of hazards share an MC module
and a run.

1. `WriteLedger` and `ResumabilityJournal`: the ledger as a pure module against a
   reference definition of an attempt's outcome; the journal's transitions under
   compare-and-set by two pages, refining a sequential journal. To be proved: revisions
   never repeat, a terminal record stays.
2. The leases on stages of a staged execution, with `BaselineExecution` and `StageStore`;
   `BaselineOwner` as a refinement of a sequential owner, whose methods are one step each.
3. `ExportClient` composed with `ExportOperation`: the document's `active`, `claiming` and
   `selection` against the worker's verdicts; the popup's refreshes.
4. Obsidian append, scroll manager; `TextPreview` composed with `ExportOperation`, whose
   reservations of a tab each of them has an abstraction of.

## What is proved, and what is not

Every invariant and every action property that a passing run checks is stated by a theorem
for all values of the constants, and so is the refinement. Liveness under fairness and
ENABLED are beyond the proof system's reach, as is induction over data:
`RevocationTakesEffect`, `DownloadIsCleanedUp`, `StagesAreSwept`, `EverythingIsReleased` and
`CapturesEnd` are checked by TLC on their instances only. The theorems are about the models;
that these follow the code is by reading, definition by definition, from the lines that
`PROJECT.json` names.

---------------------------- MODULE InlineOutput ----------------------------
(***************************************************************************)
(* What the worker writes without a stage, and the offscreen document the  *)
(* writes share:                                                           *)
(*   background/output-handlers.ts, offscreen/offscreen.ts                 *)
(*                                                                         *)
(* An inline artifact becomes a Blob URL of the offscreen document and is  *)
(* downloaded from there; a presentation is followed by a receipt, only if *)
(* it arrived at its exact path.  The clipboard uses the document as well. *)
(* A strict Markdown download is a data URL and passes a gate instead.     *)
(*                                                                         *)
(* The document is opened by the first lease and closed five seconds after *)
(* the last one.  One step is the code between two awaits.  What           *)
(* downloadArchiveBlob makes of callbacks, events and lookups is in        *)
(* StagedDownload; here it ends, fails, or its caller gives up waiting.    *)
(***************************************************************************)
EXTENDS Integers, Sequences, FiniteSets

CONSTANTS
    Jobs,        \* messages that ask for an output
    Kinds,       \* what they ask for: "companion", "presentation", "clipboard", "markdown"
    Mixes        \* bound: how often disturbances happen, in each of some mixtures

Disturbances ==
    {"no-document", "slow-document", "refused-Blob", "lost-revocation", "slow-download",
     "failed-download", "moved-file", "lost-lookup", "worker-lost"}

Nobody == "nobody"

ASSUME InlineOutputParameters ==
    /\ IsFiniteSet(Jobs) /\ Nobody \notin Jobs
    /\ Kinds \subseteq {"companion", "presentation", "clipboard", "markdown"}
    /\ \A mix \in Mixes : \A d \in Disturbances : mix[d] \in Nat

VARIABLES
    kind,      \* what each job asks for
    part,      \* what it is writing: the artifact or the receipt for it
    stage,     \* worker: how far the handler of each job has come
    request,   \* the message of each job to the document
    outcome,   \* worker: what it reports about each part
    holders,   \* worker: the jobs that hold a lease (offscreenLeaseCount)
    timer,     \* worker: offscreenCloseTimer
    waits,     \* calls sent before the timer was armed that are not answered yet
    calls,     \* calls of the worker to the offscreen API, in their order
    gate,      \* worker: the owner of the strict download gate, or Nobody
    document,  \* browser: whether the offscreen document is open
    urls,      \* document: the parts that have a Blob URL
    download,  \* browser: the download of each part
    spent      \* bound: disturbances so far

lifecycle == <<holders, timer, waits, calls>>
vars == <<kind, part, stage, request, outcome, lifecycle, gate, document, urls, download, spent>>

Parts == {"artifact", "receipt"}

Stages ==
    {"idle", "acquiring", "creating", "writing", "downloading", "confirming", "cleaning",
     "creating-late", "watching", "over", "lost"}
Requests == {"none", "sent", "made", "refused", "revoking", "revoked"}
Outcomes ==
    {"none", "confirmed", "unknown", "not-dispatched", "failed", "unconfirmed", "blocked"}

UsesBlob(j) == kind[j] \in {"companion", "presentation"}
Part(j) == <<j, part[j]>>
Download(j) == download[j][part[j]]

\* A download that Chrome will not change any more (isTerminalDownloadState, or never begun).
Terminal == {"complete", "elsewhere", "interrupted", "refused"}
InTransfer == {"asked", "running"}

Spend(what) ==
    /\ spent' = [spent EXCEPT ![what] = @ + 1]
    /\ \E mix \in Mixes : \A d \in Disturbances : spent'[d] <= mix[d]

Reported(j, what) == outcome' = [outcome EXCEPT ![j][part[j]] = what]

-----------------------------------------------------------------------------
(* The lifecycle of the offscreen document.                                *)

\* offscreenCreationPromise is pending: later callers await the same promise.
Creating == \E i \in DOMAIN calls : calls[i] \in {"contexts", "create"}

\* Mutant: the scheduled close is not cancelled.
AcquireAnyway ==
    /\ calls' = IF Creating THEN calls ELSE Append(calls, "contexts")
    /\ UNCHANGED <<holders, timer, waits>>

\* acquireOffscreenLease up to its await; the lease is counted when it resumes.
Acquire ==
    /\ timer' = "none" /\ waits' = 0
    /\ calls' = IF Creating THEN calls ELSE Append(calls, "contexts")
    /\ UNCHANGED holders

\* The last release arms the timer.
Release(j) ==
    /\ holders' = holders \ {j}
    /\ IF holders \subseteq {j} THEN timer' = "armed" /\ waits' = Len(calls)
       ELSE UNCHANGED <<timer, waits>>
    /\ UNCHANGED calls

\* Five seconds later.  Calls are answered within that time, so those sent
\* before the timer was armed have been.
TimerFires ==
    /\ timer = "armed" /\ waits = 0
    /\ \/ /\ holders # {}
          /\ timer' = "none" /\ UNCHANGED calls
       \/ /\ holders = {}
          /\ timer' = "fired" /\ calls' = Append(calls, "close")
    /\ UNCHANGED <<kind, part, stage, request, outcome, holders, waits, gate, document, urls,
                   download, spent>>

AnsweredOne == calls' = Tail(calls) /\ waits' = IF waits > 0 THEN waits - 1 ELSE 0

Acquiring == {j \in Jobs : stage[j] = "acquiring"}

\* Everyone who awaited the document gets a lease and sends a message to it.
LeasesGranted ==
    /\ holders' = holders \cup Acquiring
    /\ stage' = [j \in Jobs |->
                    IF j \notin Acquiring THEN stage[j]
                    ELSE IF UsesBlob(j) THEN "creating" ELSE "writing"]
    /\ request' = [j \in Jobs |-> IF j \in Acquiring THEN "sent" ELSE request[j]]
    /\ UNCHANGED <<timer, outcome>>

DocumentFound ==
    /\ calls # <<>> /\ Head(calls) = "contexts" /\ document
    /\ AnsweredOne /\ LeasesGranted
    /\ UNCHANGED <<kind, part, gate, document, urls, download, spent>>

DocumentMissing ==
    /\ calls # <<>> /\ Head(calls) = "contexts" /\ ~document
    /\ calls' = Append(Tail(calls), "create")
    /\ waits' = IF waits > 0 THEN waits - 1 ELSE 0
    /\ UNCHANGED <<kind, part, stage, request, outcome, holders, timer, gate, document, urls,
                   download, spent>>

DocumentCreated ==
    /\ calls # <<>> /\ Head(calls) = "create"
    /\ document' = TRUE
    /\ AnsweredOne /\ LeasesGranted
    /\ UNCHANGED <<kind, part, gate, urls, download, spent>>

\* Mutant: a lease is counted before the document is there.
RefusedAfterLease ==
    /\ calls # <<>> /\ Head(calls) = "create"
    /\ Spend("no-document")
    /\ AnsweredOne
    /\ holders' = holders \cup Acquiring
    /\ stage' = [j \in Jobs |-> IF j \in Acquiring THEN "over" ELSE stage[j]]
    /\ outcome' = [j \in Jobs |->
                      IF j \notin Acquiring THEN outcome[j]
                      ELSE [outcome[j] EXCEPT ![part[j]] =
                               IF UsesBlob(j) THEN "not-dispatched" ELSE "failed"]]
    /\ UNCHANGED <<kind, part, request, timer, gate, document, urls, download>>

\* Everyone who awaited it fails in its catch clause, without a lease.
DocumentRefused ==
    /\ calls # <<>> /\ Head(calls) = "create"
    /\ Spend("no-document")
    /\ AnsweredOne
    /\ stage' = [j \in Jobs |-> IF j \in Acquiring THEN "over" ELSE stage[j]]
    /\ outcome' = [j \in Jobs |->
                      IF j \notin Acquiring THEN outcome[j]
                      ELSE [outcome[j] EXCEPT ![part[j]] =
                               IF UsesBlob(j) THEN "not-dispatched" ELSE "failed"]]
    /\ UNCHANGED <<kind, part, request, holders, timer, gate, document, urls, download>>

\* What is lost with the document: its URLs, and the messages it was to answer.
DocumentGone ==
    /\ document' = FALSE /\ urls' = {}
    /\ request' = [j \in Jobs |->
                      CASE request[j] = "sent" -> "refused"
                        [] request[j] = "revoking" -> "revoked"
                        [] OTHER -> request[j]]

\* closeDocument has been awaited; the variable is reset, whatever it names now.
DocumentClosed ==
    /\ calls # <<>> /\ Head(calls) = "close"
    /\ AnsweredOne /\ DocumentGone
    /\ timer' = "none"
    /\ UNCHANGED <<kind, part, stage, outcome, holders, gate, download, spent>>

-----------------------------------------------------------------------------
(* Handlers of messages.                                                   *)

\* A companion, a presentation or its receipt, or a copy to the clipboard.
Begins(j) ==
    /\ stage[j] = "idle" /\ kind[j] # "markdown"
    /\ stage' = [stage EXCEPT ![j] = "acquiring"]
    /\ Acquire
    /\ UNCHANGED <<kind, part, request, outcome, gate, document, urls, download, spent>>

\* Mutant: a gate that is always open.
OpenGate == TRUE
GateIsOpen == gate = Nobody

\* downloadStrictMarkdown
BeginsStrict(j) ==
    /\ stage[j] = "idle" /\ kind[j] = "markdown"
    /\ \/ /\ GateIsOpen
          /\ gate' = j
          /\ stage' = [stage EXCEPT ![j] = "downloading"]
          /\ download' = [download EXCEPT ![j][part[j]] = "asked"]
          /\ UNCHANGED outcome
       \/ /\ ~GateIsOpen
          /\ Reported(j, "blocked")
          /\ stage' = [stage EXCEPT ![j] = "over"]
          /\ UNCHANGED <<gate, download>>
    /\ UNCHANGED <<kind, part, request, lifecycle, document, urls, spent>>

\* handleArchiveBlobMessage, handleClipboardMessage
DocumentServes(j) ==
    /\ document
    /\ \/ /\ request[j] = "sent"
          /\ \/ /\ request' = [request EXCEPT ![j] = "made"]
                /\ urls' = IF UsesBlob(j) THEN urls \cup {Part(j)} ELSE urls
                /\ UNCHANGED spent
             \/ /\ request' = [request EXCEPT ![j] = "refused"]
                /\ Spend("refused-Blob")
                /\ UNCHANGED urls
       \/ /\ request[j] = "revoking"
          /\ request' = [request EXCEPT ![j] = "revoked"]
          /\ urls' = urls \ {Part(j)}
          /\ UNCHANGED spent
    /\ UNCHANGED <<kind, part, stage, outcome, lifecycle, gate, document, download>>

\* The Blob URL exists: state 'unknown' from here on, and the download begins.
BlobArrives(j) ==
    /\ stage[j] = "creating" /\ request[j] = "made"
    /\ stage' = [stage EXCEPT ![j] = "downloading"]
    /\ download' = [download EXCEPT ![j][part[j]] = "asked"]
    /\ UNCHANGED <<kind, part, request, outcome, lifecycle, gate, document, urls, spent>>

BlobFails(j) ==
    /\ stage[j] = "creating" /\ request[j] = "refused"
    /\ stage' = [stage EXCEPT ![j] = "over"]
    /\ Reported(j, "not-dispatched")
    /\ Release(j)
    /\ UNCHANGED <<kind, part, request, gate, document, urls, download, spent>>

\* After five seconds the caller goes, and `lateCleanup` keeps the lease.
BlobIsLate(j) ==
    /\ stage[j] = "creating"
    /\ Spend("slow-document")
    /\ stage' = [stage EXCEPT ![j] = "creating-late"]
    /\ Reported(j, "not-dispatched")
    /\ UNCHANGED <<kind, part, request, lifecycle, gate, document, urls, download>>

\* Mutant: a URL that arrives late is forgotten.
ForgetsLate(j) ==
    /\ stage[j] = "creating-late" /\ request[j] \in {"made", "refused"}
    /\ stage' = [stage EXCEPT ![j] = "over"]
    /\ UNCHANGED <<holders, timer, waits, calls, request>>
    /\ UNCHANGED <<kind, part, outcome, gate, document, urls, download, spent>>

\* The late answer: a URL is revoked, then the lease released.
AttendsToLate(j) ==
    /\ stage[j] = "creating-late"
    /\ \/ /\ request[j] = "made"
          /\ stage' = [stage EXCEPT ![j] = "cleaning"]
          /\ request' = [request EXCEPT ![j] = "revoking"]
          /\ UNCHANGED lifecycle
       \/ /\ request[j] = "refused"
          /\ stage' = [stage EXCEPT ![j] = "over"]
          /\ Release(j)
          /\ UNCHANGED request
    /\ UNCHANGED <<kind, part, outcome, gate, document, urls, download, spent>>

\* handleCopyToClipboard: answered, or given up after five seconds.
Copied(j) ==
    /\ stage[j] = "writing"
    /\ \/ request[j] = "made" /\ Reported(j, "confirmed") /\ UNCHANGED spent
       \/ request[j] = "refused" /\ Reported(j, "failed") /\ UNCHANGED spent
       \/ Spend("slow-document") /\ Reported(j, "unconfirmed")
    /\ stage' = [stage EXCEPT ![j] = "over"]
    /\ Release(j)
    /\ UNCHANGED <<kind, part, request, gate, document, urls, download>>

\* Chrome begins a download, or does not; it ends where it should, elsewhere
\* because the name was taken, or not at all.
DownloadMoves(j, p) ==
    /\ \/ /\ download[j][p] = "asked"
          /\ \/ download' = [download EXCEPT ![j][p] = "running"] /\ UNCHANGED spent
             \/ download' = [download EXCEPT ![j][p] = "refused"] /\ Spend("failed-download")
       \/ /\ download[j][p] = "running"
          /\ \/ download' = [download EXCEPT ![j][p] = "complete"] /\ UNCHANGED spent
             \/ download' = [download EXCEPT ![j][p] = "elsewhere"] /\ Spend("moved-file")
             \/ download' = [download EXCEPT ![j][p] = "interrupted"] /\ Spend("failed-download")
    /\ UNCHANGED <<kind, part, stage, request, outcome, lifecycle, gate, document, urls>>

\* Mutant: the gate is released by the caller only.
GateKept(j) == gate
\* releaseStrictFileDownload compares the owner.
GateAfter(j) == IF gate = j THEN Nobody ELSE gate

\* What follows the end of a download: a Blob URL has to be revoked first.
CleansUp(j) ==
    IF UsesBlob(j)
    THEN stage' = [stage EXCEPT ![j] = "cleaning"] /\ request' = [request EXCEPT ![j] = "revoking"]
    ELSE stage' = [stage EXCEPT ![j] = "over"] /\ UNCHANGED request

\* downloadArchiveBlob resolves with a terminal outcome.
DownloadEnds(j) ==
    /\ stage[j] = "downloading" /\ Download(j) \in Terminal
    /\ gate' = IF UsesBlob(j) THEN gate ELSE GateAfter(j)
    /\ \/ /\ Download(j) \in {"refused", "interrupted"}
          /\ Reported(j, IF kind[j] = "markdown" THEN "failed"
                         ELSE IF Download(j) = "refused" THEN "not-dispatched" ELSE "unknown")
          /\ CleansUp(j)
       \/ /\ Download(j) \in {"complete", "elsewhere"}
          /\ stage' = [stage EXCEPT ![j] = "confirming"]
          /\ UNCHANGED <<outcome, request>>
    /\ UNCHANGED <<kind, part, lifecycle, document, urls, download, spent>>

\* Mutant: a caller that goes takes its lease and its gate along.
SlowAndReleased(j) ==
    /\ stage[j] = "downloading"
    /\ Spend("slow-download")
    /\ Reported(j, IF kind[j] = "markdown" THEN "unconfirmed" ELSE "unknown")
    /\ stage' = [stage EXCEPT ![j] = "watching"]
    /\ IF UsesBlob(j) THEN Release(j) ELSE UNCHANGED lifecycle
    /\ gate' = GateAfter(j)
    /\ UNCHANGED <<kind, part, request, document, urls, download>>

\* After thirty seconds it is cancelled, or the caller goes and the observer stays.
DownloadIsSlow(j) ==
    /\ stage[j] = "downloading"
    /\ Spend("slow-download")
    /\ \/ /\ Download(j) = "running"
          /\ download' = [download EXCEPT ![j][part[j]] = "interrupted"]
          /\ UNCHANGED <<stage, outcome>>
       \/ /\ Reported(j, IF kind[j] = "markdown" THEN "unconfirmed" ELSE "unknown")
          /\ stage' = [stage EXCEPT ![j] = "watching"]
          /\ UNCHANGED download
    /\ UNCHANGED <<kind, part, request, lifecycle, gate, document, urls>>

\* `onLateTerminal`
LateEnd(j) ==
    /\ stage[j] = "watching" /\ Download(j) \in Terminal
    /\ gate' = IF UsesBlob(j) THEN gate ELSE GateAfter(j)
    /\ CleansUp(j)
    /\ UNCHANGED <<kind, part, outcome, lifecycle, document, urls, download, spent>>

\* Mutant: any complete download will do.
AnyPath(j) == "confirmed"
\* What a lookup of the file name tells about a download that is complete.
PathStatus(j) == IF Download(j) = "complete" THEN "confirmed" ELSE "mismatch"

\* confirmArchiveDownloadPath
PathIsLookedUp(j) ==
    /\ stage[j] = "confirming"
    /\ \/ /\ UNCHANGED spent
          /\ Reported(j, IF PathStatus(j) = "confirmed" THEN "confirmed"
                         ELSE IF kind[j] = "markdown" THEN "failed" ELSE "unknown")
       \/ /\ Spend("lost-lookup")
          /\ Reported(j, IF kind[j] = "markdown" THEN "unconfirmed" ELSE "unknown")
    /\ CleansUp(j)
    /\ UNCHANGED <<kind, part, lifecycle, gate, document, urls, download>>

\* Mutant: a receipt for whatever was written.
AnyReceiptIsDue(j) == kind[j] = "presentation" /\ part[j] = "artifact"
ReceiptIsDue(j) ==
    kind[j] = "presentation" /\ part[j] = "artifact" /\ outcome[j]["artifact"] = "confirmed"

\* The URL is revoked, or the document does not say so in time; then the lease goes.
Cleaned(j) ==
    /\ stage[j] = "cleaning"
    /\ \/ request[j] = "revoked" /\ UNCHANGED <<urls, spent>>
       \/ /\ request[j] = "revoking"
          /\ Spend("lost-revocation")
          /\ urls' \in {urls, urls \ {Part(j)}}
    /\ request' = [request EXCEPT ![j] = "none"]
    /\ Release(j)
    /\ IF ReceiptIsDue(j)
       THEN stage' = [stage EXCEPT ![j] = "idle"] /\ part' = [part EXCEPT ![j] = "receipt"]
       ELSE stage' = [stage EXCEPT ![j] = "over"] /\ UNCHANGED part
    /\ UNCHANGED <<kind, outcome, gate, document, download>>

\* Chrome ends the worker: what it counted and awaited is gone, the document stays.
WorkerLost ==
    /\ Spend("worker-lost")
    /\ stage' = [j \in Jobs |->
                    IF stage[j] = "over" \/ (stage[j] = "idle" /\ part[j] = "artifact")
                    THEN stage[j] ELSE "lost"]
    /\ holders' = {} /\ timer' = "none" /\ waits' = 0 /\ calls' = <<>>
    /\ gate' = Nobody
    /\ \/ UNCHANGED <<document, urls, request>>
       \/ /\ \E i \in DOMAIN calls : calls[i] = "create"
          /\ document' = TRUE /\ UNCHANGED <<urls, request>>
       \/ /\ \E i \in DOMAIN calls : calls[i] = "close"
          /\ DocumentGone
    /\ UNCHANGED <<kind, part, outcome, download>>

Init ==
    /\ kind \in [Jobs -> Kinds]
    /\ part = [j \in Jobs |-> "artifact"]
    /\ stage = [j \in Jobs |-> "idle"]
    /\ request = [j \in Jobs |-> "none"]
    /\ outcome = [j \in Jobs |-> [p \in Parts |-> "none"]]
    /\ holders = {} /\ timer = "none" /\ waits = 0 /\ calls = <<>>
    /\ gate = Nobody
    /\ document = FALSE /\ urls = {}
    /\ download = [j \in Jobs |-> [p \in Parts |-> "none"]]
    /\ spent = [d \in Disturbances |-> 0]

\* The handlers of a job, but for its beginning.
Handler(j) ==
    \/ BlobArrives(j) \/ BlobFails(j) \/ BlobIsLate(j) \/ AttendsToLate(j) \/ Copied(j)
    \/ DownloadEnds(j) \/ DownloadIsSlow(j) \/ LateEnd(j) \/ PathIsLookedUp(j) \/ Cleaned(j)

Lifecycle ==
    \/ TimerFires \/ DocumentFound \/ DocumentMissing \/ DocumentCreated \/ DocumentRefused
    \/ DocumentClosed

Next ==
    \/ \E j \in Jobs :
        \/ Begins(j) \/ BeginsStrict(j) \/ Handler(j) \/ DocumentServes(j)
        \/ \E p \in Parts : DownloadMoves(j, p)
    \/ Lifecycle
    \/ WorkerLost

Spec == Init /\ [][Next]_vars

\* The worker goes on, the browser answers and timers fire.  Nobody has to ask
\* for an output, and no download has to end.
FairSpec ==
    /\ Spec
    /\ WF_vars(Lifecycle)
    /\ \A j \in Jobs : WF_vars(Handler(j)) /\ WF_vars(DocumentServes(j))
    /\ \A j \in Jobs : WF_vars(stage[j] = "idle" /\ part[j] = "receipt" /\ Begins(j))

-----------------------------------------------------------------------------
(* Properties.                                                             *)

Shapes ==
    /\ kind \in [Jobs -> Kinds]
    /\ part \in [Jobs -> Parts]
    /\ stage \in [Jobs -> Stages]
    /\ request \in [Jobs -> Requests]
    /\ outcome \in [Jobs -> [Parts -> Outcomes]]
    /\ holders \subseteq Jobs
    /\ timer \in {"none", "armed", "fired"}
    /\ waits \in Nat
    /\ calls \in Seq({"contexts", "create", "close"})
    /\ gate \in Jobs \cup {Nobody}
    /\ document \in BOOLEAN
    /\ urls \subseteq Jobs \X Parts
    /\ download \in [Jobs -> [Parts -> {"none"} \cup InTransfer \cup Terminal]]
    /\ spent \in [Disturbances -> Nat]

\* Every variable keeps its shape, and what is counted as taken is taken by a handler
\* that is at work with it: a lease from the answer of acquireOffscreenLease to its
\* release, the gate from the start of a strict download to its end.
TypeOK ==
    /\ Shapes
    /\ \A j \in holders : kind[j] # "markdown" /\ stage[j] \notin {"idle", "acquiring", "over", "lost"}
    /\ gate # Nobody => kind[gate] = "markdown" /\ stage[gate] \in {"downloading", "watching"}

\* While a lease is held the document is open and nobody is closing it, and a
\* close that is awaited finds no timer but its own when it resets the
\* variable; the Blob URL of a download lives until the worker knows its end,
\* also after the caller of downloadArchiveBlob went; and two strict downloads of
\* one worker are never under way together: acquireOffscreenLease,
\* scheduleOffscreenClose, handleVerifiedInlineDownload, strictFileDownloadOwner.
TransfersAreProtected ==
    /\ holders # {} \/ timer = "armed" => "close" \notin {calls[i] : i \in DOMAIN calls}
    /\ holders # {} => document
    /\ \A j \in Jobs :
        UsesBlob(j) /\ stage[j] \in {"downloading", "watching"} /\ Download(j) \in InTransfer
            => Part(j) \in urls
    /\ \A j, k \in Jobs :
        /\ kind[j] = "markdown" /\ stage[j] \notin {"over", "lost"} /\ Download(j) \in InTransfer
        /\ kind[k] = "markdown" /\ stage[k] \notin {"over", "lost"} /\ Download(k) \in InTransfer
        => j = k

\* What is reported as confirmed is there, what is reported as not dispatched
\* or failed is not, and nothing that may still arrive is reported as either; a
\* receipt is written only for a presentation that is complete at its path:
\* handleVerifiedInlineDownload, handlePersistDerivedHtmlPresentation.
OutcomeIsHonest ==
    \A j \in Jobs, p \in Parts :
        /\ download[j]["receipt"] # "none" => download[j]["artifact"] = "complete"
        /\ outcome[j][p] = "confirmed" /\ kind[j] # "clipboard" => download[j][p] = "complete"
        /\ outcome[j][p] \in {"not-dispatched", "blocked"} => download[j][p] \in {"none", "refused"}
        /\ outcome[j][p] = "failed" /\ kind[j] = "markdown"
            => download[j][p] \in Terminal \ {"complete"}

\* Nothing stays taken: the gate does not stay shut behind a download that ended
\* (releaseStrictFileDownload), and when every output is through the document is
\* closed in the end, unless the worker that counted its leases is lost before
\* (scheduleOffscreenClose).
EverythingIsReleased ==
    /\ \A j \in Jobs : (gate = j /\ Download(j) \in Terminal) ~> gate # j
    /\ (\A j \in Jobs : stage[j] = "over") ~> (~document \/ spent["worker-lost"] > 0)
=============================================================================

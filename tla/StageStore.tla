----------------------------- MODULE StageStore -----------------------------
(***************************************************************************)
(* How a temporary stage is filled, sealed, thrown away and swept:         *)
(*   offscreen/archive-stage-store.ts, binary-stage-store.ts, offscreen.ts *)
(*   background/archive-stage-handlers.ts, binary-asset-handlers.ts        *)
(*   content/archive-stage.ts, staged-binary-persistence.ts                *)
(*                                                                         *)
(* A content script asks the worker, which asks the offscreen document and *)
(* waits ten seconds.  The document keeps a data and a metadata file per   *)
(* stage in OPFS and writes one after the other; its tasks are not         *)
(* serialised, so an abort overlaps the request that timed out before it.  *)
(*                                                                         *)
(* One step is the code between two awaits; a file is replaced when its    *)
(* writer is closed.  The size of a file is counted in chunks.             *)
(***************************************************************************)
EXTENDS Integers, FiniteSets

CONSTANTS
    StageIds,        \* numbers of stages, in the order of their directory entries
    Kinds,           \* the kinds of stages: "archive", "binary"
    Chunks,          \* chunks of an artifact
    PruneLimit,      \* entries a sweep looks at, 20 in the code
    Mixes            \* bound: how often disturbances happen, in each of some mixtures

Disturbances ==
    {"timeout", "failure", "abort-timeout", "abort-failure",
     "worker-lost", "document-lost", "tab-closed", "idle-day"}

ASSUME StageStoreParameters ==
    /\ StageIds \subseteq Nat
    /\ Kinds \subseteq {"archive", "binary"}
    /\ Chunks \in Nat /\ PruneLimit \in Nat \ {0}
    /\ \A mix \in Mixes : \A d \in Disturbances : mix[d] \in Nat

VARIABLES
    kind,      \* the kind of the stages
    data,      \* OPFS: chunks in the data file of each stage, or Absent
    meta,      \* OPFS: the metadata file of each stage
    old,       \* stages whose files were last written more than a day ago
    task,      \* document: how far each request about a stage has come
    call,      \* worker: the requests it waits for, or has given up waiting for
    client,    \* content script: what it does with each stage
    acked,     \* content script: chunks it knows to be stored
    swept,     \* history: stages that were swept
    spent      \* bound: disturbances so far

files == <<data, meta, old, swept>>
vars == <<kind, files, task, call, client, acked, spent>>

Absent == -1

\* "undo" is the abort the worker sends when an answer comes too late.
Requests == {"begin", "append", "seal", "abort", "undo"}
Filling == {"begin", "append", "seal"}

\* A metadata file is created empty, and then written.
NoMetadata == [state |-> "absent", size |-> 0]
Metadata == [state: {"absent", "empty", "open", "sealed"}, size: 0 .. Chunks]

Steps ==
    {"none", "pruning", "creating", "checking", "writing", "entry", "recording", "undoing",
     "removing", "removing-data", "removing-metadata", "done", "failed"}

Stored(s) == data[s] # Absent \/ meta[s].state # "absent"

Spend(what) ==
    /\ spent' = [spent EXCEPT ![what] = @ + 1]
    /\ \E mix \in Mixes : \A d \in Disturbances : spent'[d] <= mix[d]

-----------------------------------------------------------------------------
(* Messages between the content script, the worker and the document.       *)

FirstStep(r) ==
    CASE r = "begin" -> "pruning"
      [] r \in {"append", "seal"} -> "checking"
      [] OTHER -> "removing"

\* A message reaches the document through the worker, which awaits the answer.
Send(s, r, tasks, calls) ==
    /\ task' = [tasks EXCEPT ![s][r] = FirstStep(r)]
    /\ call' = [calls EXCEPT ![s][r] = "waiting"]

\* A content script fills its stages one after the other.
ClientBegins(s) ==
    /\ client[s] = "idle"
    /\ \A t \in StageIds \ {s} : client[t] \in {"idle", "sealed", "over"}
    /\ client' = [client EXCEPT ![s] = "beginning"]
    /\ Send(s, "begin", task, call)
    /\ UNCHANGED <<kind, files, acked, spent>>

\* Mutant: one chunk too many.
AppendsOnceMore(s) ==
    /\ client[s] = "open" /\ acked[s] <= Chunks
    /\ client' = [client EXCEPT ![s] = "appending"]
    /\ Send(s, "append", task, call)
    /\ UNCHANGED <<kind, files, acked, spent>>

ClientAppends(s) ==
    /\ client[s] = "open" /\ acked[s] < Chunks
    /\ client' = [client EXCEPT ![s] = "appending"]
    /\ Send(s, "append", task, call)
    /\ UNCHANGED <<kind, files, acked, spent>>

\* `sealArchiveStage`, or the finalize with which a binary commit begins.
ClientSeals(s) ==
    /\ client[s] = "open" /\ acked[s] = Chunks
    /\ client' = [client EXCEPT ![s] = "sealing"]
    /\ Send(s, "seal", task, call)
    /\ UNCHANGED <<kind, files, acked, spent>>

\* A sealed stage goes in the end, whether it was committed or left unclaimed.
ClientReleases(s) ==
    /\ client[s] = "sealed"
    /\ client' = [client EXCEPT ![s] = "aborting"]
    /\ Send(s, "abort", task, call)
    /\ UNCHANGED <<kind, files, acked, spent>>

\* What the content script is waiting for.
Awaits(s, r) ==
    <<client[s], r>> \in {<<"beginning", "begin">>, <<"appending", "append">>,
                          <<"sealing", "seal">>, <<"aborting", "abort">>}

Succeeds(s, r) ==
    /\ client' = [client EXCEPT ![s] =
          CASE r \in {"begin", "append"} -> "open" [] r = "seal" -> "sealed" [] OTHER -> "over"]
    /\ acked' = [acked EXCEPT ![s] = IF r = "append" THEN @ + 1 ELSE @]

\* A content script aborts what it could not fill; it does not know the name of
\* an archive stage that was not begun, and leaves the failure of a finalize to the
\* commit in the worker.
ClientAborts(r) == r = "append" \/ r = (IF kind = "archive" THEN "seal" ELSE "begin")
AbortsAfter(r) == ClientAborts(r) \/ r = "seal"

\* The request fails for the content script, with what is then in the document.
Fails(s, r, tasks, calls) ==
    /\ UNCHANGED acked
    /\ IF AbortsAfter(r)
       THEN client' = [client EXCEPT ![s] = "aborting"] /\ Send(s, "abort", tasks, calls)
       ELSE client' = [client EXCEPT ![s] = "over"] /\ task' = tasks /\ call' = calls

\* Mutant: the late answer is not attended to.
IgnoresLate(r) == FALSE

\* `onLateResponse`, for an answer as for the loss of the document.
AttendsToLate(r) == kind = "archive" /\ r \in Filling

Answered(s, r) == [task EXCEPT ![s][r] = "none"]
NotWaiting(s, r) == [call EXCEPT ![s][r] = "none"]

Answers(s, r) ==
    /\ task[s][r] \in {"done", "failed"}
    /\ \/ /\ call[s][r] = "waiting" /\ Awaits(s, r)
          /\ IF task[s][r] = "done"
             THEN Succeeds(s, r) /\ task' = Answered(s, r) /\ call' = NotWaiting(s, r)
             ELSE Fails(s, r, Answered(s, r), NotWaiting(s, r))
       \/ /\ call[s][r] = "late" /\ AttendsToLate(r)
          /\ Send(s, "undo", Answered(s, r), NotWaiting(s, r))
          /\ UNCHANGED <<client, acked>>
       \/ /\ \/ call[s][r] = "none"
             \/ call[s][r] = "late" /\ ~AttendsToLate(r)
             \/ call[s][r] = "waiting" /\ ~Awaits(s, r)
          /\ task' = Answered(s, r) /\ call' = NotWaiting(s, r)
          /\ UNCHANGED <<client, acked>>
    /\ UNCHANGED <<kind, files, spent>>

\* Ten seconds are over.
TimesOut(s, r) ==
    /\ call[s][r] = "waiting"
    /\ Spend(IF r \in Filling THEN "timeout" ELSE "abort-timeout")
    /\ IF Awaits(s, r) THEN Fails(s, r, task, [call EXCEPT ![s][r] = "late"])
       ELSE call' = [call EXCEPT ![s][r] = "late"] /\ UNCHANGED <<task, client, acked>>
    /\ UNCHANGED <<kind, files>>

-----------------------------------------------------------------------------
(* The document and its store.                                             *)

Moves(s, r, step) == task' = [task EXCEPT ![s][r] = step]
OnlyStore == UNCHANGED <<kind, call, client, acked>>

\* A file operation of the browser is refused.
Refused(s, r, step) == Spend("failure") /\ Moves(s, r, step) /\ UNCHANGED files

\* The document cannot be made or reached, or the first operation is refused.
NotServed(s, r) ==
    /\ task[s][r] = FirstStep(r)
    /\ Spend(IF r \in Filling THEN "failure" ELSE "abort-failure")
    /\ Moves(s, r, "failed")
    /\ UNCHANGED files /\ OnlyStore

\* The sweep takes the entries in their order, and looks at PruneLimit of them:
\* stages of archives, or single files.
Weight(s) ==
    IF ~Stored(s) THEN 0
    ELSE IF kind = "archive" \/ data[s] = Absent \/ meta[s].state = "absent" THEN 1 ELSE 2

Before(s) == {t \in StageIds : t < s /\ Stored(t)}

Entries(S) == Cardinality(S) + Cardinality({s \in S : Weight(s) = 2})
Inspected == {s \in StageIds : Entries(Before(s)) < PruneLimit}

\* Mutant: what has no readable metadata is not stale.
StaleWithMetadata == {s \in Inspected : meta[s].state \in {"open", "sealed"} /\ s \in old}

Stale == {s \in Inspected : Stored(s) /\ s \in old}

\* One step, since nobody writes what is a day old.
Pruned ==
    /\ data' = [s \in StageIds |-> IF s \in Stale THEN Absent ELSE data[s]]
    /\ meta' = [s \in StageIds |-> IF s \in Stale THEN NoMetadata ELSE meta[s]]
    /\ old' = old \ Stale
    /\ swept' = swept \cup Stale

\* `begin` sweeps, refuses a name in use, and makes both files.
BeginPrunes(s) ==
    /\ task[s]["begin"] = "pruning"
    /\ Pruned
    /\ Moves(s, "begin", "creating")
    /\ UNCHANGED spent /\ OnlyStore

BeginCreates(s) ==
    /\ task[s]["begin"] = "creating"
    /\ \/ /\ kind = "archive" /\ Stored(s)
          /\ Moves(s, "begin", "failed") /\ UNCHANGED <<files, spent>>
       \/ /\ ~(kind = "archive" /\ Stored(s))
          /\ data' = [data EXCEPT ![s] = 0] /\ old' = old \ {s}
          /\ Moves(s, "begin", "entry") /\ UNCHANGED <<meta, swept, spent>>
       \/ Refused(s, "begin", "undoing")
    /\ OnlyStore

\* Its catch clause.
BeginUndoes(s) ==
    /\ task[s]["begin"] = "undoing"
    /\ \/ /\ data' = [data EXCEPT ![s] = Absent] /\ meta' = [meta EXCEPT ![s] = NoMetadata]
          /\ old' = old \ {s} /\ UNCHANGED <<swept, spent>>
       \/ Spend("abort-failure") /\ UNCHANGED files
    /\ Moves(s, "begin", "failed")
    /\ OnlyStore

\* `append` reads the metadata and compares; an archive stage also compares the
\* size of its data.  The offset is the number of chunks the client knows of.
Appendable(s) ==
    /\ meta[s] = [state |-> "open", size |-> acked[s]]
    /\ kind = "archive" => data[s] = acked[s]

AppendChecks(s) ==
    /\ task[s]["append"] = "checking"
    /\ Moves(s, "append", IF Appendable(s) THEN "writing" ELSE "failed")
    /\ UNCHANGED <<files, spent>> /\ OnlyStore

\* Mutant: a chunk is acknowledged when its data are written.
DoneWhenWritten == "done"

AfterWriting == "entry"

\* The data are written unless their file is gone.
AppendWrites(s) ==
    /\ task[s]["append"] = "writing"
    /\ \/ /\ data[s] # Absent
          /\ data' = [data EXCEPT ![s] = acked[s] + 1] /\ old' = old \ {s}
          /\ Moves(s, "append", AfterWriting) /\ UNCHANGED <<meta, swept, spent>>
       \/ /\ data[s] = Absent
          /\ Moves(s, "append", "failed") /\ UNCHANGED <<files, spent>>
       \/ Refused(s, "append", "failed")
    /\ OnlyStore

\* `seal` and `finalize` verify both files; a binary stage is not marked.
Sealable(s) == meta[s] = [state |-> "open", size |-> Chunks] /\ data[s] = Chunks

SealChecks(s) ==
    /\ task[s]["seal"] = "checking"
    /\ Moves(s, "seal", IF ~Sealable(s) THEN "failed"
                        ELSE IF kind = "archive" THEN "entry" ELSE "done")
    /\ UNCHANGED <<files, spent>> /\ OnlyStore

\* `writeMetadata`: the entry is made if it is not there ...
MakesEntry(s, r) ==
    /\ task[s][r] = "entry"
    /\ \/ /\ IF meta[s].state = "absent"
             THEN meta' = [meta EXCEPT ![s].state = "empty"] /\ old' = old \ {s}
             ELSE UNCHANGED <<meta, old>>
          /\ Moves(s, r, "recording")
          /\ UNCHANGED <<data, swept, spent>>
       \/ Refused(s, r, IF r = "begin" THEN "undoing" ELSE "failed")
    /\ OnlyStore

\* ... and what was read before is written with its change, if it still is.
Recorded(s, r) ==
    CASE r = "begin" -> [state |-> "open", size |-> 0]
      [] r = "append" -> [state |-> "open", size |-> acked[s] + 1]
      [] r = "seal" -> [state |-> "sealed", size |-> Chunks]

Records(s, r) ==
    /\ task[s][r] = "recording"
    /\ \/ /\ meta[s].state # "absent"
          /\ meta' = [meta EXCEPT ![s] = Recorded(s, r)] /\ old' = old \ {s}
          /\ Moves(s, r, "done")
          /\ UNCHANGED <<data, swept, spent>>
       \/ /\ meta[s].state = "absent"
          /\ Moves(s, r, IF r = "begin" THEN "undoing" ELSE "failed")
          /\ UNCHANGED <<files, spent>>
       \/ Refused(s, r, IF r = "begin" THEN "undoing" ELSE "failed")
    /\ OnlyStore

\* The browser refuses to remove a file, for one while it is being written.
RemovalRefused(s) ==
    IF \E r \in Filling : task[s][r] \in {"writing", "recording"} THEN UNCHANGED spent
    ELSE Spend("abort-failure")

\* `abort` removes both files at once, in either order; nobody minds its answer.
RemovesData(s, r) ==
    /\ task[s][r] \in {"removing", "removing-data"}
    /\ \/ data' = [data EXCEPT ![s] = Absent] /\ UNCHANGED spent
       \/ RemovalRefused(s) /\ UNCHANGED data
    /\ Moves(s, r, IF task[s][r] = "removing" THEN "removing-metadata" ELSE "done")
    /\ UNCHANGED <<meta, old, swept>> /\ OnlyStore

RemovesMetadata(s, r) ==
    /\ task[s][r] \in {"removing", "removing-metadata"}
    /\ \/ meta' = [meta EXCEPT ![s] = NoMetadata] /\ UNCHANGED spent
       \/ RemovalRefused(s) /\ UNCHANGED meta
    /\ Moves(s, r, IF task[s][r] = "removing" THEN "removing-data" ELSE "done")
    /\ UNCHANGED <<data, old, swept>> /\ OnlyStore

Document(s) ==
    \/ BeginPrunes(s) \/ BeginCreates(s) \/ BeginUndoes(s)
    \/ AppendChecks(s) \/ AppendWrites(s) \/ SealChecks(s)
    \/ \E r \in Filling : MakesEntry(s, r) \/ Records(s, r)
    \/ \E r \in {"abort", "undo"} : RemovesData(s, r) \/ RemovesMetadata(s, r)
    \/ \E r \in Requests : NotServed(s, r)

-----------------------------------------------------------------------------
(* Losses, and time.                                                       *)

NoTasks == [s \in StageIds |-> [r \in Requests |-> "none"]]

Waits(s) == {r \in Requests \ {"undo"} : call[s][r] = "waiting" /\ Awaits(s, r)}

\* Those who wait learn of the loss, and abort what they began.
Learn(s, aborted) ==
    IF Waits(s) = {} THEN client[s]
    ELSE IF Waits(s) \cap aborted # {} THEN "aborting" ELSE "over"

NowAborts(s) == client'[s] = "aborting" /\ client[s] # "aborting"

\* The worker is lost, and the commit of a binary stage with it; the document goes
\* on with what it was asked for.
WorkerLost ==
    /\ Spend("worker-lost")
    /\ client' = [s \in StageIds |->
                     IF kind = "binary" /\ client[s] = "sealed" THEN "over"
                     ELSE Learn(s, {r \in Requests : ClientAborts(r)})]
    /\ task' = [s \in StageIds |->
                   IF NowAborts(s) THEN [task[s] EXCEPT !["abort"] = FirstStep("abort")]
                   ELSE task[s]]
    /\ call' = [s \in StageIds |-> [r \in Requests |->
                   IF NowAborts(s) /\ r = "abort" THEN "waiting" ELSE "none"]]
    /\ UNCHANGED <<kind, files, acked>>

Undoes(s) == \E r \in Filling : call[s][r] = "late" /\ AttendsToLate(r)

\* Without the document the pending messages fail, late ones too; the aborts that
\* follow open another one.
DocumentGone ==
    LET Goes(s, r) == (r = "abort" /\ NowAborts(s)) \/ (r = "undo" /\ Undoes(s)) IN
    /\ client' = [s \in StageIds |-> Learn(s, {r \in Requests : AbortsAfter(r)})]
    /\ task' = [s \in StageIds |-> [r \in Requests |->
                   IF Goes(s, r) THEN FirstStep(r) ELSE "none"]]
    /\ call' = [s \in StageIds |-> [r \in Requests |->
                   IF Goes(s, r) THEN "waiting" ELSE "none"]]
    /\ UNCHANGED <<kind, files, acked>>

DocumentLost == Spend("document-lost") /\ DocumentGone

\* The last lease was released with the last call that was waited for.
DocumentCloses ==
    /\ task # NoTasks
    /\ \A s \in StageIds, r \in Requests : call[s][r] # "waiting"
    /\ DocumentGone
    /\ UNCHANGED spent

\* The tab goes, and nobody aborts; a commit goes on without it.
TabCloses(s) ==
    /\ client[s] \notin {"idle", "over"}
    /\ kind = "archive" \/ client[s] \notin {"sealing", "sealed"}
    /\ Spend("tab-closed")
    /\ client' = [client EXCEPT ![s] = "over"]
    /\ UNCHANGED <<kind, files, task, call, acked>>

\* No request takes a day, and seldom does a content script.
Ages(s) ==
    /\ Stored(s) /\ s \notin old
    /\ task[s] = [r \in Requests |-> "none"]
    /\ IF client[s] = "over" THEN UNCHANGED spent ELSE Spend("idle-day")
    /\ old' = old \cup {s}
    /\ UNCHANGED <<kind, data, meta, swept, task, call, client, acked>>

\* A stage of another export is begun.
OthersBegin ==
    /\ Stale # {}
    /\ Pruned
    /\ UNCHANGED <<kind, task, call, client, acked, spent>>

-----------------------------------------------------------------------------
(* The specification.                                                      *)

Init ==
    /\ kind \in Kinds
    /\ data = [s \in StageIds |-> Absent] /\ meta = [s \in StageIds |-> NoMetadata]
    /\ old = {} /\ swept = {}
    /\ task = NoTasks
    /\ call = [s \in StageIds |-> [r \in Requests |-> "none"]]
    /\ client = [s \in StageIds |-> "idle"] /\ acked = [s \in StageIds |-> 0]
    /\ spent = [d \in Disturbances |-> 0]

Client(s) == ClientBegins(s) \/ ClientAppends(s) \/ ClientSeals(s) \/ ClientReleases(s)

Next ==
    \/ \E s \in StageIds :
          \/ Client(s) \/ Document(s) \/ TabCloses(s) \/ Ages(s)
          \/ \E r \in Requests : Answers(s, r) \/ TimesOut(s, r)
    \/ WorkerLost \/ DocumentLost \/ DocumentCloses \/ OthersBegin

Spec == Init /\ [][Next]_vars

\* Content scripts and the document go on with what they do, days pass for what is
\* left, and exports are begun.
FairSpec ==
    /\ Spec
    /\ WF_vars(\E s \in StageIds : Client(s) \/ Document(s) \/ \E r \in Requests : Answers(s, r))
    /\ WF_vars(\E s \in StageIds : Ages(s))
    /\ WF_vars(OthersBegin)

-----------------------------------------------------------------------------
(* What must hold.                                                         *)

\* Every variable keeps the shape the code gives it.
TypeOK ==
    /\ kind \in {"archive", "binary"}
    /\ data \in [StageIds -> {Absent} \cup 0 .. Chunks]
    /\ meta \in [StageIds -> Metadata]
    /\ old \subseteq StageIds /\ swept \subseteq StageIds
    /\ task \in [StageIds -> [Requests -> Steps]]
    /\ call \in [StageIds -> [Requests -> {"none", "waiting", "late"}]]
    /\ client \in [StageIds -> {"idle", "beginning", "open", "appending", "sealing", "sealed",
                                "aborting", "over"}]
    /\ acked \in [StageIds -> 0 .. Chunks]
    /\ spent \in [Disturbances -> Nat]

\* What a content script was told is stored is there, in both files, so that the
\* next chunk is accepted and the seal finds the whole, whatever failed, was late
\* or was lost before.  Only a sweep takes a stage from under its content script,
\* when it has been idle for a day.
AcknowledgedIsStored ==
    \A s \in StageIds :
        client[s] \in {"open", "sealed"} /\ s \notin swept =>
            /\ data[s] = acked[s]
            /\ meta[s].size = acked[s]
            /\ meta[s].state = IF client[s] = "sealed" /\ kind = "archive" THEN "sealed" ELSE "open"

Undisturbed(what) == \A d \in what : spent[d] = 0

\* "A timed-out acknowledgement must not strand a stage that the offscreen document
\* created after background relinquished it" (archive-stage-handlers.ts): when
\* nothing is under way any more and the content script has done with an archive
\* stage, its files are gone, however the late request overlapped the abort.  It
\* takes a worker that lives, a tab that stays and aborts that work; and a
\* document that is lost before the time is over is not attended to.
NothingIsStranded ==
    Undisturbed({"abort-timeout", "abort-failure", "worker-lost", "document-lost", "tab-closed"}) =>
        \A s \in StageIds :
            /\ kind = "archive" /\ client[s] = "over"
            /\ \A r \in Requests : task[s][r] = "none" /\ call[s][r] = "none"
            => ~Stored(s)

\* "A later bounded stale-stage sweep retains cleanup ownership" (content/
\* archive-stage.ts): the files of a stage its content script has done with are
\* removed at last, whatever was lost, although a sweep looks at few entries only.
StagesAreSwept == \A s \in StageIds : client[s] = "over" ~> ~Stored(s)
=============================================================================

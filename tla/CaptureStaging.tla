--------------------------- MODULE CaptureStaging ---------------------------
(***************************************************************************)
(* Three ways to get at what ChatGPT's own page loads:                     *)
(*   content/capture/chatgpt-document-start.ts                             *)
(*   background/chatgpt-capture.ts          ("capture")                    *)
(*   background/chatgpt-opaque-replay.ts    ("replay", with staged chunks) *)
(*   background/chatgpt-opaque-resolver.ts  ("observe")                    *)
(*                                                                         *)
(* The hook claims the page's first request for the conversation.  A       *)
(* capture reads the answer, and meanwhile watches the requests for files  *)
(* in a window of two seconds; a replay sends the request once more by     *)
(* itself; an observer only watches.  The worker polls the hook, and moves *)
(* a large body in chunks to a stage of the offscreen store, against a     *)
(* deadline of its own.  What StageStore says of that store is not         *)
(* repeated: its calls answer in time here, or refuse.                     *)
(*                                                                         *)
(* Every document loads other bytes of the same length, so the number of   *)
(* the document stands for them.                                           *)
(***************************************************************************)
EXTENDS TemporaryTab, Sequences

CONSTANTS
    Resolvers,    \* requests of the page for files
    Chunks        \* chunks of a large body

ASSUME CaptureStagingParameters == Chunks \in Nat \ {0}

VARIABLES
    size,     \* chunks of the body, 0 for a small one
    page,     \* page: the state of the hook
    wire,     \* worker: the document whose result it took, or 0
    stage,    \* offscreen: the stage
    call,     \* worker: its call about the stage
    left      \* history: the deadline passed while a call was under way

captureVars == <<size, page, wire, stage, call, left>>

\* `source` is the request for the conversation, `window` the two seconds of the
\* watch over `lookups`; `reader` whether the chunks can be read.
FreshPage ==
    [source |-> "none", window |-> "none", lookups |-> [r \in Resolvers |-> "none"], seen |-> {},
     replay |-> "none", result |-> "ready", reader |-> FALSE]

NoStage == [exists |-> FALSE, chunks |-> <<>>, sealed |-> FALSE]
NoCall == [op |-> "none", at |-> "none", of |-> 0]

Call(op, of) == [op |-> op, at |-> "asked", of |-> of]

-----------------------------------------------------------------------------
(* The hook.                                                               *)

Waiting == page.result = "ready"

OnPage(step) == InPage(step) /\ UNCHANGED <<size, wire, stage, call, left>>

\* Mutant: the watch goes on when the result is out.
FinishedOpen(p, result) == [p EXCEPT !.result = result, !.reader = result = "captured" /\ size > 0]

\* finishCapture, finishOpaqueResolver, finishOpaqueReplay
Finished(p, result) ==
    [p EXCEPT
        !.result = result,
        !.window = IF @ = "open" THEN "closed" ELSE @,
        !.seen = IF mode = "observe" /\ result = "error" THEN {} ELSE @,
        !.reader = result = "captured" /\ size > 0]

\* The request, the answer or the body is refused, or not what it should be.
Unfit == page' = Finished(page, "error") /\ Spend("bad-page")

\* wrappedFetch; an observer watches from here on.
ConversationClaimed ==
    OnPage(
        /\ Waiting /\ page.source = "none"
        /\ \/ /\ page' = [page EXCEPT !.source = "asked",
                                      !.window = IF mode = "observe" THEN "open" ELSE @]
              /\ UNCHANGED spent
           \/ Unfit)

\* Mutant: the replay is sent from wherever the page is.
RouteIgnored(p) == p
\* opaqueReplayTargetStillExact
RouteStillExact(p) == IF route = "exact" THEN p ELSE Finished(page, "error")

\* captureNativeResponse: the watch begins before the body is read.  An observer
\* does not read it, a replay dispatches its own request.
ConversationAnswers ==
    OnPage(
        /\ Waiting /\ page.source = "asked"
        /\ \/ /\ mode = "capture"
              /\ \E window \in {"open", "closed"} :
                  page' = [page EXCEPT !.source = "reading", !.window = window]
              /\ UNCHANGED spent
           \/ /\ mode = "observe"
              /\ LET held == [page EXCEPT !.source = "held"]
                 IN  page' = IF page.window = "closed" THEN Finished(held, "captured") ELSE held
              /\ UNCHANGED spent
           \/ /\ mode = "replay"
              /\ page' = RouteStillExact([page EXCEPT !.source = "held", !.replay = "fetching"])
              /\ UNCHANGED spent
           \/ Unfit)

\* Mutant: the capture waits for its window, also when there is none.
HeldForWindow(p) == p
\* beginResolverDiscovery: a capture that is not watching is complete.
Held(p) == IF p.window = "open" THEN p ELSE Finished(p, "captured")

ConversationRead ==
    OnPage(
        /\ Waiting /\ mode = "capture" /\ page.source = "reading"
        /\ \/ page' = Held([page EXCEPT !.source = "held"]) /\ UNCHANGED spent
           \/ Unfit)

ReplayAnswers ==
    OnPage(
        /\ Waiting /\ page.replay = "fetching"
        /\ \/ page' = RouteStillExact([page EXCEPT !.replay = "reading"]) /\ UNCHANGED spent
           \/ Unfit)

\* captureOpaqueReplayResponse: body and hash.
ReplayRead ==
    OnPage(
        /\ Waiting /\ page.replay = "reading"
        /\ \/ page' = RouteStillExact(Finished(page, "captured")) /\ UNCHANGED spent
           \/ Unfit)

\* wrappedFetch claims a request for a file while it watches.
LookupSent(r) ==
    OnPage(
        /\ Waiting /\ page.window = "open" /\ page.lookups[r] = "none"
        /\ page' = [page EXCEPT !.lookups[r] = "fetching"]
        /\ UNCHANGED spent)

\* captureResolverResponse; whatever goes wrong is passed over.
LookupAnswers(r) ==
    OnPage(
        /\ page.lookups[r] = "fetching"
        /\ \E next \in {"reading", "over"} :
            /\ next = "reading" => page.window = "open"
            /\ page' = [page EXCEPT !.lookups[r] = next]
        /\ UNCHANGED spent)

\* Mutant: the watch is looked at only when the answer comes.
CountsAlways == TRUE
\* Body and hash took their time.
StillCounts == page.window = "open"

LookupRead(r) ==
    OnPage(
        /\ page.lookups[r] = "reading"
        /\ page' = [page EXCEPT !.lookups[r] = "over",
                                !.seen = IF StillCounts THEN @ \cup {r} ELSE @]
        /\ UNCHANGED spent)

\* Mutant: the end of the window only ends the watch.
WindowClosed(p) == p
\* A capture, or an observer, that has been waiting for it is complete.
WindowOver(p) == IF p.source = "held" THEN Finished(p, "captured") ELSE p

WindowExpires ==
    OnPage(
        /\ Waiting /\ page.window = "open"
        /\ page' = WindowOver([page EXCEPT !.window = "closed"])
        /\ UNCHANGED spent)

\* Mutant: the timer runs on while a held capture waits for its window.
TimerAlways == TRUE
\* The timer of a capture is cleared when it is held, that of the others at the end.
TimerRuns == mode = "capture" => page.source # "held"

HookGivesUp ==
    OnPage(
        /\ Waiting /\ TimerRuns
        /\ page' = Finished(page, "error")
        /\ UNCHANGED spent)

\* stagedReaderExpiryTimeoutId
ReaderExpires ==
    OnPage(
        /\ mode = "replay" /\ page.reader
        /\ page' = [page EXCEPT !.reader = FALSE]
        /\ UNCHANGED spent)

-----------------------------------------------------------------------------
(* The worker.                                                             *)

\* All but a large body ends with the tab, and with the worker's answer.
GivesUp ==
    IF size > 0 /\ wire # 0 THEN worker' = "aborting" /\ UNCHANGED <<tab, report>> ELSE Fails

\* waitForTemporaryTarget; the place after it.
ReadyFor(at, next) ==
    AtWork(at,
        /\ \/ AtTarget /\ worker' = next /\ UNCHANGED <<tab, report>>
           \/ AstrayNow /\ GivesUp
        /\ UNCHANGED <<pinned, captureVars>>)

\* Before every read; the observer waits only once.
PageIsReady == ReadyFor("waiting", "reading")

\* A capture without a hook, or with one at work, is waited for again.
LooksAgain ==
    IF mode = "observe" THEN UNCHANGED <<worker, tab, report>>
    ELSE worker' = "waiting" /\ UNCHANGED <<tab, report>>

\* The body is with the result, or moved to a stage.
Taken ==
    IF mode = "observe" THEN Ends("success") /\ UNCHANGED <<wire, call>>
    ELSE /\ UNCHANGED <<tab, report>>
         /\ wire' = doc
         /\ IF size = 0 THEN worker' = "confirming" /\ UNCHANGED call
            ELSE worker' = "beginning" /\ call' = Call("begin", 0)

\* readHookState; a replay stays with the first document it has met.
HookRead ==
    AtWork("reading",
        /\ IF pinned # 0 /\ ~(tab = "open" /\ doc = pinned)
           THEN Fails /\ UNCHANGED <<pinned, wire, call>>
           ELSE /\ ScriptRuns
                /\ pinned' = IF mode = "replay" /\ tab = "open" THEN doc ELSE pinned
                /\ IF ~HookIsThere \/ Waiting
                   THEN LooksAgain /\ UNCHANGED <<wire, call>>
                   ELSE IF page.result = "error" THEN Fails /\ UNCHANGED <<wire, call>>
                   ELSE Taken
        /\ UNCHANGED <<size, page, stage, left>>)

\* The answer of the store, and the place and the call after it.
StageAnswers(at, next, after) ==
    AtWork(at,
        /\ call.at \in {"granted", "refused"}
        /\ IF call.at = "granted" THEN worker' = next /\ call' = after
           ELSE worker' = "aborting" /\ call' = NoCall
        /\ UNCHANGED <<tab, report, pinned, size, page, wire, stage, left>>)

NextChunk ==
    IF Len(stage.chunks) = size THEN "sealing" ELSE IF mode = "replay" THEN "checking" ELSE "fetching"

\* A begin that is refused leaves nothing to abort.
StageBegun == StageAnswers("beginning", NextChunk, NoCall)
ChunkAppended ==
    StageAnswers("appending", NextChunk,
                 IF Len(stage.chunks) = size THEN Call("seal", 0) ELSE NoCall)
StageSealed ==
    StageAnswers("sealing", IF mode = "replay" THEN "revisiting" ELSE "confirming", NoCall)

\* A replay looks at the route before each chunk, and after the last.
RouteIsReady == ReadyFor("checking", "fetching") \/ ReadyFor("revisiting", "rereading")

\* readHookChunk: from any document, readPinnedReplayChunk: from the one it is about.
ChunkIsThere == HookIsThere /\ page.reader /\ (mode = "replay" => doc = pinned)

ChunkRead ==
    AtWork("fetching",
        /\ ScriptRuns \/ (mode = "replay" /\ doc # pinned)
        /\ IF ChunkIsThere THEN worker' = "appending" /\ call' = Call("append", doc)
           ELSE worker' = "aborting" /\ UNCHANGED call
        /\ UNCHANGED <<tab, report, pinned, size, page, wire, stage, left>>)

\* stageReplayCapture: the same document still tells the same.
Reread == HookIsThere /\ doc = pinned /\ page.result = "captured"

\* releasePinnedReplayChunks
Released == [page EXCEPT !.reader = IF Alive /\ doc = pinned THEN FALSE ELSE @]

ResultReread ==
    AtWork("rereading",
        /\ ScriptRuns \/ doc # pinned
        /\ IF Reread THEN worker' = "confirming" /\ page' = Released
           ELSE worker' = "aborting" /\ UNCHANGED page
        /\ UNCHANGED <<tab, report, pinned, size, wire, stage, call, left>>)

\* The route once more: only then the result is handed over.
Confirmed ==
    AtWork("confirming",
        /\ \/ AtTarget /\ Ends("success")
           \/ AstrayNow /\ GivesUp
        /\ UNCHANGED <<pinned, captureVars>>)

\* archiveStage.abort, after the release of the chunks.
Aborts ==
    AtWork("aborting",
        /\ stage' = NoStage
        /\ page' = IF mode = "replay" THEN Released ELSE page
        /\ Fails
        /\ UNCHANGED <<pinned, size, wire, call, left>>)

\* Mutant: a failed confirmation only removes the tab.
AbortsNothing == FALSE
\* A capture does not know the stage before it is begun; a replay is told its name.
KnowsStage ==
    \/ worker \in {"checking", "fetching", "appending", "sealing", "revisiting", "rereading"}
    \/ worker = "confirming" /\ size > 0
    \/ worker = "beginning" /\ mode = "replay"

CaptureRunsOut ==
    /\ expired /\ worker \notin {"idle", "creating", "aborting"} \cup Ended
    /\ IF KnowsStage THEN worker' = "aborting" /\ UNCHANGED <<tab, report>> ELSE Fails
    /\ left' = (call.op # "none")
    /\ UNCHANGED <<mode, pinned, expired, route, doc, hooked, spent, size, page, wire, stage, call>>

-----------------------------------------------------------------------------
(* The offscreen store.                                                    *)

Serves(answer) ==
    /\ call' = [call EXCEPT !.at = answer]
    /\ UNCHANGED <<tabVars, size, page, wire, left>>

CallRefused ==
    /\ call.at = "asked"
    /\ Spend("refused-store")
    /\ call' = [call EXCEPT !.at = "refused"]
    /\ UNCHANGED <<mode, pinned, worker, report, expired, browser, size, page, wire, stage, left>>

BeginServed ==
    /\ call.op = "begin" /\ call.at = "asked"
    /\ stage' = [NoStage EXCEPT !.exists = TRUE]
    /\ Serves("granted")

\* append and seal look at the stage, and write later.
CallChecked ==
    /\ call.op \in {"append", "seal"} /\ call.at = "asked"
    /\ UNCHANGED stage
    /\ Serves(IF stage.exists THEN "writing" ELSE "refused")

\* Mutant: the bytes of a sealed stage are not looked at.
SealableAnyway == TRUE
\* seal compares the digest with that of the descriptor.
Sealable == \A k \in DOMAIN stage.chunks : stage.chunks[k] = wire

\* If the stage is aborted in between, a part of it may be written again.
CallWritten ==
    /\ call.at = "writing"
    /\ \/ /\ stage.exists /\ call.op = "append"
          /\ stage' = [stage EXCEPT !.chunks = Append(@, call.of)]
          /\ Serves("granted")
       \/ /\ stage.exists /\ call.op = "seal"
          /\ stage' = [stage EXCEPT !.sealed = Sealable]
          /\ Serves(IF Sealable THEN "granted" ELSE "refused")
       \/ /\ ~stage.exists
          /\ stage' \in {stage, [stage EXCEPT !.exists = TRUE]}
          /\ Serves("refused")

\* Mutant: nobody attends to an answer after the deadline.
LateIsLeft == stage
\* stageReplayCapture aborts once more; stageHookCapture does not.
LateStage == IF mode = "replay" THEN NoStage ELSE stage

LateAnswer ==
    /\ call.at \in {"granted", "refused"}
    /\ worker \in {"aborting", "over"}
    /\ call' = NoCall
    /\ stage' = LateStage
    /\ UNCHANGED <<tabVars, size, page, wire, left>>

-----------------------------------------------------------------------------
CaptureInit ==
    /\ size \in {0, Chunks} /\ (size > 0 => mode \in {"capture", "replay"})
    /\ page = FreshPage /\ wire = 0 /\ stage = NoStage /\ call = NoCall /\ left = FALSE

Hooking ==
    \/ ConversationClaimed \/ ConversationAnswers \/ ConversationRead
    \/ ReplayAnswers \/ ReplayRead \/ HookGivesUp \/ WindowExpires \/ ReaderExpires
    \/ \E r \in Resolvers : LookupSent(r) \/ LookupAnswers(r) \/ LookupRead(r)

CaptureWorker ==
    \/ PageIsReady \/ HookRead \/ StageBegun \/ ChunkAppended \/ StageSealed \/ RouteIsReady
    \/ ChunkRead \/ ResultReread \/ Confirmed \/ Aborts \/ CaptureRunsOut

Store == CallRefused \/ BeginServed \/ CallChecked \/ CallWritten \/ LateAnswer

CaptureNext ==
    \/ TabSteps /\ UNCHANGED captureVars
    \/ Reloads /\ page' = FreshPage /\ UNCHANGED <<size, wire, stage, call, left>>
    \/ Hooking \/ CaptureWorker \/ Store

-----------------------------------------------------------------------------
(* Properties.                                                             *)

\* The values of this module's variables.
CaptureTypeOK ==
    /\ size \in {0, Chunks}
    /\ page \in [source: {"none", "asked", "reading", "held"},
                 window: {"none", "open", "closed"},
                 lookups: [Resolvers -> {"none", "fetching", "reading", "over"}],
                 seen: SUBSET Resolvers,
                 replay: {"none", "fetching", "reading"},
                 result: {"ready", "error", "captured"},
                 reader: BOOLEAN]
    /\ wire \in Nat
    /\ stage \in [exists: BOOLEAN, chunks: Seq(Nat), sealed: BOOLEAN]
    /\ call \in [op: {"none", "begin", "append", "seal"},
                 at: {"none", "asked", "writing", "granted", "refused"}, of: Nat]
    /\ left \in BOOLEAN

\* What is handed over is a sealed stage with the bytes of one document, the one
\* whose result was read, although the page may load again between two chunks.
\* A capture or a replay that fails leaves no stage behind, whenever its deadline
\* falls; a replay not even by a call that is answered after it:
\* stageHookCapture, materializeCapturedResult, stageReplayCapture.
WholeOrNothing ==
    /\ report = "success" /\ size > 0 =>
        /\ stage.exists /\ stage.sealed
        /\ stage.chunks = [k \in 1 .. size |-> wire]
        /\ mode = "replay" => wire = pinned
    /\ worker = "over" /\ report = "failure" /\ call.op = "none" /\ stage.exists =>
        mode = "capture" /\ left

\* A conversation that was read and hashed is not lost to a timer, and a result
\* that is out does not change any more while late answers for files arrive.
ResultIsFinal ==
    /\ mode = "capture" /\ page.source = "held" => page'.result # "error"
    /\ page.result # "ready" /\ doc' = doc =>
        page'.result = page.result /\ page'.seen = page.seen

\* The replayed request goes out once per document, at the URL it was armed at,
\* after the page's own was answered.
ReplayIsGuarded ==
    page.replay = "none" /\ page'.replay = "fetching" =>
        route = "exact" /\ page.source = "asked" /\ mode = "replay"
=============================================================================

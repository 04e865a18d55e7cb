---------------------------- MODULE PageCapture ----------------------------
(***************************************************************************)
(* The five procedures of the temporary tab, with what the hook of each    *)
(* does in the page: ResolverQueue and CaptureStaging over TemporaryTab.   *)
(* service-worker.ts starts each of them for itself.                       *)
(***************************************************************************)
EXTENDS ResolverQueue, CaptureStaging

pageVars == <<tabVars, queueVars, captureVars>>

PageInit == TabInit /\ QueueInit /\ CaptureInit

Queueing(step) == Commanded /\ step /\ UNCHANGED captureVars
Capturing(step) == ~Commanded /\ step /\ UNCHANGED queueVars

PageNext ==
    \/ Commanded /\ QueueNext /\ UNCHANGED captureVars
    \/ ~Commanded /\ CaptureNext /\ UNCHANGED queueVars

\* The state of the tab, of either kind of hook and of the worker.
PageTypeOK == TabTypeOK /\ QueueTypeOK /\ CaptureTypeOK

\* What a procedure tells its caller is so: the outcomes of the items stand at their
\* places, and a conversation that is handed over is whole, one that failed is gone,
\* with answers, loads and deadlines in any order: completeActiveResolverItem,
\* stageHookCapture, materializeCapturedResult, stageReplayCapture.
ResultsAreTrue == OutcomesAreFaithful /\ WholeOrNothing

\* A request of the extension goes out only from the document it is about, while
\* that is at the URL it was armed at, one at a time; and what a hook found out
\* stays, a conversation that was read and hashed too: dispatchActiveResolverQueue,
\* dispatchInterpreterResolverQueue, dispatchOpaqueReplay, completeConversation,
\* captureResolverResponse.
DispatchIsGuarded == [][QueueDispatchIsGuarded /\ ReplayIsGuarded /\ ResultIsFinal]_pageVars

\* The tab the worker asked for is there or may still come, or a hook whose document
\* lives has no result.  A worker that is lost removes nothing.
TabUnfinished ==
    \/ worker # "lost" /\ (worker \notin {"idle", "over"} \/ tab \in {"asked", "open", "removing"})
    \/ ~Commanded /\ Alive /\ page.result = "ready"
=============================================================================

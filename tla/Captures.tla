------------------------------ MODULE Captures ------------------------------
(***************************************************************************)
(* The two ways in which the worker has a conversation read that is shown  *)
(* in a page: from a temporary tab (PageCapture), and from the tab of the  *)
(* user, by its content script, for a preview (TextPreview).               *)
(*                                                                         *)
(* They share only the stage store, by names none of which occurs twice.   *)
(* A behaviour has one of them.                                            *)
(***************************************************************************)
EXTENDS PageCapture, TextPreviewParties

VARIABLE way    \* bound: which of the two is under way

vars == <<pageVars, previewVars, way>>

\* The other one is idle for good, in one of its initial states.
Init ==
    /\ PageInit /\ PreviewInit
    /\ \/ way = "temporary-tab" /\ allowance = CHOOSE some \in Allowances : TRUE
       \/ way = "preview" /\ mode = "capture" /\ size = 0

InTemporaryTab == way = "temporary-tab" /\ PageNext /\ UNCHANGED <<previewVars, way>>
InPreview == way = "preview" /\ PreviewNext /\ UNCHANGED <<pageVars, way>>

Next == InTemporaryTab \/ InPreview

InTab(step) == way = "temporary-tab" /\ step

\* The browser does what it is asked, the store answers, timers fire and the
\* worker goes on; the page, its answers and the user are free.  In a preview
\* nothing repeats itself: to go on is to let each of its steps be taken at last.
Fairness ==
    /\ WF_tabVars(InTab(TabOpens)) /\ WF_tabVars(InTab(TabRemoved))
    /\ WF_tabVars(InTab(TabIsLate)) /\ WF_tabVars(InTab(Expires))
    /\ WF_pageVars(InTab(Queueing(QueueWorker))) /\ WF_pageVars(InTab(Queueing(RunsOut)))
    /\ WF_pageVars(InTab(Queueing(CommandRuns)))
    /\ WF_pageVars(InTab(Capturing(CaptureWorker))) /\ WF_pageVars(InTab(Capturing(CaptureRunsOut)))
    /\ WF_pageVars(InTab(Capturing(Store)))
    /\ WF_pageVars(InTab(Capturing(WindowExpires))) /\ WF_pageVars(InTab(Capturing(HookGivesUp)))
    /\ WF_previewVars(way = "preview" /\ PreviewProgress)

Spec == Init /\ [][Next]_vars /\ Fairness

\* The state of either part, and none in the part that is idle.
TypeOK == PageTypeOK /\ PreviewTypeOK

Unfinished == TabUnfinished \/ PreviewUnfinished

\* Whatever the page, the user or the clock does, the worker removes the tab it asked
\* for, also one that opens after it gave up, and a hook whose document lives comes to
\* a result, although a capture clears its timer before the window is over.  A preview
\* gives its source tab back, although only a message makes the worker look at its
\* deadlines, and what it displays is erased when its session is over:
\* removeTemporaryTab, armResolverDiscoveryWindow, prune, scheduleLease.
CapturesEnd == Unfinished ~> ~Unfinished
=============================================================================

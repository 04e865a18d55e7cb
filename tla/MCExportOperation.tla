------------------------- MODULE MCExportOperation -------------------------
(***************************************************************************)
(* Instances of ExportOperation for TLC.                                   *)
(***************************************************************************)
EXTENDS ExportRefinement, TLC

\* Terminal records that own nothing, one that still owns a stage, and more
\* reservations than the limit: what an earlier version could leave behind.
Finished(owned) ==
    [NoOperation EXCEPT !.phase = "completed", !.outcome = "ended", !.doc = 1, !.stages = owned]

LegacyDisk(owned) ==
    [EmptyState EXCEPT !.ops = [o \in OpIds |-> IF o = 1 THEN Finished(owned) ELSE NoOperation],
                       !.intents = [i \in IntentIds |->
                           IF i <= 2 THEN [NoIntent EXCEPT !.there = TRUE,
                                               !.tab = IF i = 1 THEN AnyTab
                                                       ELSE CHOOSE t \in Tabs : t # AnyTab]
                           ELSE NoIntent]]

\* How often each disturbance happens.
Mix(few) == [d \in Disturbances |-> IF d \in DOMAIN few THEN few[d] ELSE 0]

\* One tab, and a browser session in which nothing is stored yet.
Scenario(traffic, mixes) ==
    [tabs |-> {AnyTab}, disks |-> {EmptyState}, traffic |-> traffic, clicks |-> MaxIntents,
     mixes |-> mixes]

Exports == {"start", "claim", "authorize", "persist"}

\* A click, its claim and privileged messages: the browser tells of two changes or
\* of two settings writes, and a deadline passes.
AdmissionScenarios ==
    {Scenario(Exports, {Mix([browser |-> 2, expiry |-> 1]), Mix([settings |-> 2])})}

\* ... and a restart, so late that a notification is lost with the worker.
LossScenarios == {Scenario(Exports, {Mix([browser |-> 2, restart |-> 1])})}

RecoveryScenarios ==
    {Scenario(Exports \cup {"unstart", "stop", "complete"},
              {Mix([browser |-> 1, restart |-> 1] @@ ("save-failure" :> 1)),
               Mix([restart |-> 1] @@ ("save-failure" :> 1) @@ ("removal-failure" :> 1)),
               Mix([settings |-> 1, restart |-> 1])})}

\* A branch is offered, chosen and exported; and an operation is asked to take more
\* stages than it may own, named by the document or opened by the store.
SelectionScenarios ==
    {Scenario(Exports \cup {"offer", "popup", "choose", "stop", "complete", "prepare"},
              {Mix([browser |-> 1, restart |-> 1])}),
     Scenario({"start", "claim", "authorize", "begin", "open"},
              {Mix([restart |-> 1] @@ ("save-failure" :> 1))})}

\* Two tabs with text previews, where an earlier version has left two clicks and a
\* record of an export, which is more than the limits allow.
Crowded(owned, clicks) ==
    [Scenario({"start", "claim", "complete", "reserve", "release"}, {Mix([expiry |-> 1])})
        EXCEPT !.tabs = Tabs, !.disks = {LegacyDisk(owned)}, !.clicks = clicks]

\* The life of a stage, over two clicks in one tab; and up to four clicks, the two
\* included, in two tabs.
StageScenarios ==
    {[Scenario({"start", "claim", "stop", "authorize", "begin", "use", "commit", "abort", "open"},
               {Mix([browser |-> 1]),
               Mix([restart |-> 1] @@ ("save-failure" :> 1) @@ ("removal-failure" :> 1))})
        EXCEPT !.clicks = 2],
     Crowded({}, 3), Crowded(Stages, 4)}
=============================================================================

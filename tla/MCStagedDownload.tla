-------------------------- MODULE MCStagedDownload --------------------------
(***************************************************************************)
(* Instances of StagedDownload for TLC.                                    *)
(***************************************************************************)
EXTENDS StagedDownload, TLC

\* How often each disturbance happens in the runs.
Mix(few) == [d \in Disturbances |-> IF d \in DOMAIN few THEN few[d] ELSE 0]

NoFailures == {Mix(<<>>)}

LossesAndFailures ==
    {Mix([crash |-> 1] @@ ("message failure" :> 2) @@ ("storage failure" :> 1)),
     Mix([crash |-> 2] @@ ("lookup failure" :> 1) @@ ("storage failure" :> 1)),
     Mix(("browser restart" :> 1) @@ ("message failure" :> 1) @@ ("lookup failure" :> 1)),
     Mix([crash |-> 1] @@ ("lease failure" :> 1) @@ ("message failure" :> 1)),
     Mix([crash |-> 1] @@ ("other work" :> 1) @@ ("message failure" :> 1))}
=============================================================================

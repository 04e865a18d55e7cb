---------------------------- MODULE MCStageStore ----------------------------
(* The values with which TLC checks StageStore: stages of both kinds, and    *)
(* every disturbance in some mixture.                                        *)
EXTENDS StageStore

Calm == [d \in Disturbances |-> 0]

McStageIds == 1 .. 2
McKinds == {"archive", "binary"}

McMixes ==
    {[Calm EXCEPT ![d] = 1] : d \in Disturbances}
    \cup {[Calm EXCEPT !["timeout"] = 1, ![d] = 1] : d \in {"failure", "document-lost"}}
=============================================================================

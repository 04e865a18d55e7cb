--------------------------- MODULE MCInlineOutput ---------------------------
(* The values with which TLC checks InlineOutput: jobs of every kind, and    *)
(* every disturbance alone and with a slow download or document.             *)
EXTENDS InlineOutput

Calm == [d \in Disturbances |-> 0]

McKinds == {"companion", "presentation", "clipboard", "markdown"}
McMixes ==
    {[Calm EXCEPT ![d] = 1, ![e] = 1] : d \in {"slow-download", "slow-document"}, e \in Disturbances}
    \cup {[Calm EXCEPT !["slow-download"] = 2]}
=============================================================================

-------------------------- MODULE ExportAuthority --------------------------
(***************************************************************************)
(* What the export controller promises, seen in its durable state alone:   *)
(* who may export from a tab, and who may dispose of a temporary stage.    *)
(* ExportRefinement shows that ExportOperation implements it.              *)
(***************************************************************************)
CONSTANTS
    Tabs,         \* browser tabs
    Stages,       \* temporary stages
    Clicks,       \* pending clicks (intents)
    Exports,      \* claimed exports
    Nobody        \* the holder of a tab that serves no export

Holder == Clicks \cup Exports \cup {Nobody}

VARIABLES
    holder,    \* the click or the operation a tab serves
    used,      \* grants that have been given and never come back
    custody    \* stages: in nobody's hands, held by an operation, handed to a commit

vars == <<holder, used, custody>>

Init ==
    /\ holder \in [Tabs -> Holder]
    /\ used \subseteq Clicks \cup Exports
    /\ \A t \in Tabs : holder[t] \in used \cup {Nobody}
    /\ custody \in [Stages -> {"free", "held"}]

\* A tab falls free, is given to a fresh click, or passes from a click to a
\* fresh operation.
MayFollow(old, new) ==
    \/ new \in {old, Nobody}
    \/ new \in Clicks \ used
    \/ new \in Exports \ used /\ old \in Clicks

\* One durable write may settle several tabs and stages.  A stage that was
\* handed to a commit is out of reach for ever.
Write ==
    /\ holder' \in [Tabs -> Holder]
    /\ \A t \in Tabs : MayFollow(holder[t], holder'[t])
    /\ \A t, u \in Tabs : holder'[t] = holder'[u] => t = u \/ holder'[t] = Nobody
    /\ used \cup {holder'[t] : t \in Tabs} \subseteq used' \cup {Nobody}
    /\ used' \subseteq Clicks \cup Exports
    /\ custody' \in [Stages -> {"free", "held", "handed"}]
    /\ \A s \in Stages : custody[s] = "handed" <=> custody'[s] = "handed"

\* The bytes go to a commit only after no operation holds them durably.
HandOver(s) ==
    /\ custody[s] = "free"
    /\ custody' = [custody EXCEPT ![s] = "handed"]
    /\ UNCHANGED <<holder, used>>

Next == Write \/ \E s \in Stages : HandOver(s)

Spec == Init /\ [][Next]_vars
=============================================================================

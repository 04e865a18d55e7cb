-------------------------- MODULE ExportRefinement --------------------------
(***************************************************************************)
(* ExportOperation implements ExportAuthority.  The abstract state is read *)
(* off what is stored, so a worker that is lost takes nothing with it.     *)
(***************************************************************************)
EXTENDS ExportOperation

\* The pending clicks and the live operations of a stored or remembered state.
GrantsIn(s) ==
    ({"intent"} \X Intents(s)) \cup ({"operation"} \X {o \in OpIds : Live(s.ops[o])})

Nobody == <<"nobody", 0>>

StoredHolder(t) ==
    IF Holders(disk, t) = {} THEN Nobody ELSE CHOOSE h \in Holders(disk, t) : TRUE

\* A grant counts as given when it has been stored, or can no longer be.
Given ==
    (({"intent"} \X {i \in IntentIds : i < next.intent})
        \cup ({"operation"} \X {o \in OpIds : o < next.op}))
    \ (GrantsIn(mem) \ GrantsIn(disk))

Custody(s) ==
    IF fate[s] = "handed-to-commit" THEN "handed"
    ELSE IF \E o \in OpIds : s \in disk.ops[o].stages THEN "held" ELSE "free"

Authority ==
    INSTANCE ExportAuthority WITH
        Clicks <- {"intent"} \X IntentIds,
        Exports <- {"operation"} \X OpIds,
        holder <- [t \in Tabs |-> StoredHolder(t)],
        used <- Given,
        custody <- [s \in Stages |-> Custody(s)]

\* The controller keeps the promises of ExportAuthority in everything a crash of
\* the worker can leave behind: a tab serves one export, an export begins only
\* with a fresh click, a grant that was given up never returns, and the durable
\* hand-off of a stage precedes its commit and is final.
ImplementsAuthority == Authority!Spec
=============================================================================

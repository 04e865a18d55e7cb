----------------------------- MODULE BaselineOwner -----------------------------
(***************************************************************************)
(* The durable owner of a baseline (baseline-owner/index.ts,               *)
(* transaction.ts, inventory.ts, execution.ts).                            *)
(*                                                                         *)
(* Several handles, in one page or in several, work on one database.  Each *)
(* method reads both stores, computes what they should become outside of   *)
(* any transaction, and replaces them in a second transaction that first   *)
(* compares them with what was read.  What a handle may do beyond reading  *)
(* is kept in memory: whether it has recovered, whether it may dispatch,   *)
(* and the tokens of its claims.                                           *)
(*                                                                         *)
(* A call is modelled in three steps: its read, its second transaction     *)
(* (which either changes the database or leaves it), and the delivery of   *)
(* the transaction's end to the page, before which the page may do other   *)
(* things and which may never come.                                        *)
(***************************************************************************)
EXTENDS BaselinePlan

CONSTANTS
    Handles,            \* handles (`createBaselineOwner`) on the database
    Executions,         \* one-shot executions, each with its execution port
    Controls,           \* the kinds of `applyControl` that are asked for
    MaxEvents           \* bound: calls of the operators, stops of executions, closes and
                        \* restarts of pages, failed writes, lost answers and bad clocks

\* At most one stop (pause, recovery) and one other call of an operator are in
\* progress at a handle, and one call of each execution.
Lanes == {"plan", "stop"}

ASSUME OwnerBounds ==
    /\ Executions \cap (Handles \X Lanes) = {}
    /\ Controls \subseteq PlanCommands \ {"recover-after-restart"}
    /\ MaxEvents \in Nat

VARIABLES
    disk,               \* the two stores of the database
    handle,             \* what each handle keeps in memory
    call,               \* the calls in progress
    port,               \* the handle and item each execution port is bound to
    token,              \* the unspent dispatch token of each execution, by its image
    lastWord,           \* (history) whether "go" or "stop" was last asked of a handle
    spent               \* events so far

ownerVars == <<disk, handle, call, port, token, lastWord, spent>>

Callers == (Handles \X Lanes) \cup Executions

StopKinds == {"pause", "recover"}
PlanKinds == {"create", "reserve"} \cup (Controls \ {"pause"})
PortKinds == {"claim", "consume", "mark", "evidence"}

Outcomes == {"not-attempted", "committed", "failed", "outcome-unknown"}

NoHandle == "none"
NoPort == [handle |-> NoHandle, item |-> 1]
NoToken == NothingStored
NoCall == [kind |-> "none", at |-> "idle", item |-> 1, revision |-> 0, base |-> NothingStored,
           current |-> FALSE, outcome |-> "not-attempted"]

NewHandle == [open |-> TRUE, recovered |-> FALSE, enabled |-> FALSE, unknown |-> FALSE]
AtWork(inv) ==
    [NewHandle EXCEPT !.recovered = TRUE, !.enabled = inv.control = "active"]

HandleOf(c) == IF c \in Executions THEN port[c].handle ELSE c[1]

\* The shape of the stores, of what a handle keeps and of the calls in progress.
OwnerTypeOK ==
    /\ disk \in Inventory
    /\ handle \in [Handles -> [open : BOOLEAN, recovered : BOOLEAN, enabled : BOOLEAN,
                               unknown : BOOLEAN]]
    /\ call \in [Callers -> [kind : {"none"} \cup StopKinds \cup PlanKinds \cup PortKinds,
                            at : {"idle", "read", "ready", "ended"}, item : Items,
                            revision : 0..MaxRevision, base : Inventory, current : BOOLEAN,
                            outcome : Outcomes]]
    /\ port \in [Executions -> [handle : Handles \cup {NoHandle}, item : Items]]
    /\ token \in [Executions -> Inventory]
    /\ lastWord \in [Handles -> {"go", "stop"}]
    /\ spent \in 0..MaxEvents

\* The first page creates the baseline; or pages have been at work on it, of which
\* some may have been loaded anew since.
OwnerInit ==
    /\ \/ disk = NothingStored /\ handle = [h \in Handles |-> NewHandle]
       \/ /\ disk \in {NewCheckpoint, LeftBehind}
          /\ handle \in [Handles -> {NewHandle, AtWork(disk)}]
    /\ call = [c \in Callers |-> NoCall]
    /\ port = [x \in Executions |-> NoPort]
    /\ token = [x \in Executions |-> NoToken]
    /\ lastWord = [h \in Handles |-> IF handle[h].enabled THEN "go" ELSE "stop"]
    /\ spent = 0

Event == spent < MaxEvents /\ spent' = spent + 1

(***************************************************************************)
(* What a method makes of the inventory it has read, and when it goes on.  *)
(***************************************************************************)
\* A pause or a restart also interrupts the operation in flight.
Halted(inv, command, action) ==
    LET paused == Reduced(inv, command)
        flying == InPhase(inv, {"in-flight"})
    IN  IF flying = {} THEN paused
        ELSE LET i == CHOOSE i \in flying : TRUE
             IN  Observed(paused, i, Controlled(inv.records[i], action))

CanHalt(inv, command, action) ==
    /\ CanReduce(inv, command)
    /\ \A i \in InPhase(inv, {"in-flight"}) :
          CanObserve(Reduced(inv, command), i, Controlled(inv.records[i], action))

\* An already paused plan needs no other transition: the revision is kept for
\* late evidence.
Preserves(inv) == inv.control = "paused" /\ InPhase(inv, {"in-flight"}) = {}

After(kind, i, inv) ==
    CASE kind = "create" -> NewCheckpoint
      [] kind = "reserve" -> Observed(inv, i, ReservedRecord)
      [] kind = "recover" ->
            IF Preserves(inv) THEN inv ELSE Halted(inv, "recover-after-restart", "restart")
      [] kind = "pause" -> Halted(inv, "pause", "pause")
      [] kind = "claim" -> Observed(inv, i, Revised(inv.records[i], "in-flight"))
      [] kind = "consume" -> inv
      [] kind = "mark" -> Observed(Reduced(inv, "pause"), i, Interrupted(inv.records[i]))
      [] kind = "evidence" -> Observed(inv, i, Revised(inv.records[i], "awaiting-resolution"))
      [] OTHER -> Reduced(inv, kind)

\* `#claim`: nothing else owns the boundary to the provider.
MayClaim(inv, i) ==
    /\ inv.control = "active"
    /\ inv.records[i].phase = "reserved" /\ inv.records[i].control = "active"
    /\ Pending(inv) = {i}

Allows(kind, i, inv) ==
    CASE kind = "create" -> ~inv.there
      [] kind = "reserve" ->
            /\ inv.there /\ (\E warm \in BOOLEAN : i \in Candidates(inv, warm))
            /\ CanObserve(inv, i, ReservedRecord)
      [] kind = "recover" ->
            inv.there /\ (Preserves(inv) \/ CanHalt(inv, "recover-after-restart", "restart"))
      [] kind = "pause" -> inv.there /\ CanHalt(inv, "pause", "pause")
      [] kind = "claim" ->
            MayClaim(inv, i) /\ CanObserve(inv, i, Revised(inv.records[i], "in-flight"))
      [] kind = "consume" -> inv.charged[i] # 0
      [] kind = "mark" ->
            /\ inv.records[i].phase = "in-flight" /\ CanReduce(inv, "pause")
            /\ CanObserve(Reduced(inv, "pause"), i, Interrupted(inv.records[i]))
      [] kind = "evidence" ->
            /\ inv.records[i].phase \in {"in-flight", "unknown"}
            /\ CanObserve(inv, i, Revised(inv.records[i], "awaiting-resolution"))
      [] OTHER -> inv.there /\ CanReduce(inv, kind)

\* The whole decision between the two transactions: the inventory is valid, the
\* transition is allowed, and its result keeps the headroom.
Admits(kind, i, inv) ==
    /\ Admissible(inv)
    /\ Allows(kind, i, inv)
    /\ kind # "consume" => HasHeadroom(After(kind, i, inv))

(***************************************************************************)
(* The fences in memory.                                                   *)
(***************************************************************************)
\* `#mutationReady`
MutationReady(h) == handle[h].open /\ handle[h].recovered /\ ~handle[h].unknown

\* Mutant: a call of an older session counts as well.
OfAnySession(c) == TRUE
OfThisSession(c) == call[c].current

\* `#sessionCurrent` and `#dispatchReady` of the session a call began with.
SessionCurrent(c) ==
    LET h == HandleOf(c)
    IN  /\ OfThisSession(c) /\ handle[h].open /\ ~handle[h].unknown
        /\ call[c].kind # "recover" => handle[h].recovered

DispatchReady(c) == SessionCurrent(c) /\ handle[HandleOf(c)].enabled

\* `#invalidate` begins a new session: the calls in progress at the handle belong
\* to an old one, and its tokens are gone.
Stale(h) ==
    [c \in Callers |-> IF HandleOf(c) = h THEN [call[c] EXCEPT !.current = FALSE] ELSE call[c]]

Burnt(h) == [x \in Executions |-> IF port[x].handle = h THEN NoToken ELSE token[x]]

Begun(kind, i, revision, base) ==
    [kind |-> kind, at |-> "read", item |-> i, revision |-> revision, base |-> base,
     current |-> TRUE, outcome |-> "not-attempted"]

\* How a call ends; an execution is told, and `BaselineExecution` goes on.
Ended(c, outcome) ==
    IF c \in Executions THEN [NoCall EXCEPT !.outcome = outcome] ELSE NoCall

End(c, outcome) ==
    /\ call' = [call EXCEPT ![c] = Ended(c, outcome)]
    /\ UNCHANGED <<handle, token, lastWord>>

\* Mutant: an end nobody has heard of is taken for a failure.
EndAsFailed(c) == Event /\ End(c, "failed")

\* The end of a transaction is never heard of: the handle is fenced for good.
EndUnknown(c) ==
    LET h == HandleOf(c)
    IN  /\ Event
        /\ handle' = [handle EXCEPT ![h].unknown = TRUE, ![h].enabled = FALSE]
        /\ call' = [Stale(h) EXCEPT ![c] = Ended(c, "outcome-unknown")]
        /\ token' = Burnt(h)
        /\ UNCHANGED lastWord

(***************************************************************************)
(* The calls of an operator.                                               *)
(***************************************************************************)
Request(h, kind) ==
    LET stops == kind \in StopKinds
        c == <<h, IF stops THEN "stop" ELSE "plan">>
    IN  /\ Event /\ call[c].kind = "none"
        /\ kind \in {"create", "recover"} => handle[h].open
        /\ kind \notin {"create", "recover"} => MutationReady(h)
        /\ call' = [(IF stops THEN Stale(h) ELSE call)
                       EXCEPT ![c] = Begun(kind, 1, 0, NothingStored)]
        /\ token' = IF stops THEN Burnt(h) ELSE token
        /\ handle' = [handle EXCEPT
                         ![h].enabled = @ /\ ~stops,
                         ![h].recovered = @ /\ kind # "recover"]
        /\ lastWord' = [lastWord EXCEPT
                           ![h] = IF stops THEN "stop" ELSE IF kind = "activate" THEN "go" ELSE @]
        /\ UNCHANGED <<disk, port>>

(***************************************************************************)
(* The calls of an execution port.  A clock that goes backwards ends the   *)
(* session (`now` in `createExecutionPort`).                               *)
(***************************************************************************)
StopSession(h, x) ==
    /\ handle' = [handle EXCEPT ![h].enabled = FALSE]
    /\ call' = [Stale(h) EXCEPT ![x] = Ended(x, "failed")]
    /\ token' = Burnt(h)
    /\ lastWord' = [lastWord EXCEPT ![h] = "stop"]

\* `#mark` ends the session before anything else; `#consume` spends the token.
PortCall(x, h, i, kind, revision) ==
    /\ call[x].kind = "none"
    /\ \/ kind = "claim" /\ UNCHANGED spent
          /\ IF MutationReady(h) /\ handle[h].enabled
             THEN /\ call' = [call EXCEPT ![x] = Begun(kind, i, revision, NothingStored)]
                  /\ UNCHANGED <<handle, token, lastWord>>
             ELSE End(x, "failed")
       \/ kind = "consume" /\ UNCHANGED <<handle, lastWord, spent>>
          /\ token' = [token EXCEPT ![x] = NoToken]
          /\ call' = [call EXCEPT ![x] =
                        IF MutationReady(h) /\ handle[h].enabled /\ token[x] # NoToken
                        THEN Begun(kind, i, revision, token[x]) ELSE Ended(x, "failed")]
       \/ kind = "mark" /\ UNCHANGED spent
          /\ IF MutationReady(h)
             THEN /\ call' = [Stale(h) EXCEPT ![x] = Begun(kind, i, revision, NothingStored)]
                  /\ handle' = [handle EXCEPT ![h].enabled = FALSE]
                  /\ token' = Burnt(h)
                  /\ lastWord' = [lastWord EXCEPT ![h] = "stop"]
             ELSE StopSession(h, x)
       \/ kind = "evidence" /\ UNCHANGED spent
          /\ IF MutationReady(h)
             THEN /\ call' = [call EXCEPT ![x] = Begun(kind, i, revision, NothingStored)]
                  /\ UNCHANGED <<handle, token, lastWord>>
             ELSE End(x, "failed")
       \/ kind # "consume" /\ Event /\ StopSession(h, x)
    /\ UNCHANGED disk

BoundCall(x, kind, revision) ==
    PortCall(x, port[x].handle, port[x].item, kind, revision) /\ UNCHANGED port

(***************************************************************************)
(* The steps of a call.                                                    *)
(***************************************************************************)
\* `boundRecord` checks the revision that the execution has read.
Bound(c, inv) ==
    c \in Executions /\ call[c].kind # "consume" =>
        inv.records[call[c].item].revision = call[c].revision

\* The first transaction reads both stores; the session and the caller's
\* revision (an operator's may be stale) are checked against them.
Read(c) ==
    LET h == HandleOf(c)
        kind == call[c].kind
        items == IF kind = "reserve" THEN InPhase(disk, {"untouched"}) ELSE {call[c].item}
        admitted(i) ==
            /\ handle[h].open /\ Admits(kind, i, disk) /\ Bound(c, disk)
            /\ kind = "consume" => call[c].base = disk
    IN  /\ call[c].at = "read"
        /\ \/ \E i \in items :
                 /\ admitted(i)
                 /\ call' = [call EXCEPT ![c].at = "ready", ![c].base = disk, ![c].item = i]
                 /\ UNCHANGED <<handle, token, lastWord, spent>>
           \/ /\ c \notin Executions \/ (\A i \in items : ~admitted(i))
              /\ End(c, "failed") /\ UNCHANGED spent
           \/ EndUnknown(c)
        /\ UNCHANGED <<disk, port>>

\* Mutant: the stores are not compared with what the call has read.
StoresMoved(c) == TRUE
StoresAsRead(c) == disk = call[c].base

\* The second transaction: nothing has changed, in the stores or in memory.
Transact(c) ==
    LET kind == call[c].kind
        unchanged ==
            /\ handle[HandleOf(c)].open /\ ~handle[HandleOf(c)].unknown
            /\ StoresAsRead(c)
            /\ kind # "create" => SessionCurrent(c)
            /\ kind = "consume" => DispatchReady(c)
    IN  /\ call[c].at = "ready"
        /\ \/ /\ unchanged
              /\ disk' = After(kind, call[c].item, call[c].base)
              /\ call' = [call EXCEPT ![c].at = "ended",
                             ![c].base = IF kind = "claim" THEN disk' ELSE NothingStored]
              /\ UNCHANGED <<handle, token, lastWord, spent>>
           \/ ~unchanged /\ End(c, "failed") /\ UNCHANGED <<disk, spent>>
           \/ unchanged /\ Event /\ End(c, "failed") /\ UNCHANGED disk
           \/ EndUnknown(c) /\ UNCHANGED disk
        /\ UNCHANGED port

\* The page learns that the transaction is complete.  A claim or a consumption
\* still has to be of the handle's session.
Report(c) ==
    LET h == HandleOf(c)
        kind == call[c].kind
        live == handle[h].open /\ OfThisSession(c)
        dispatched == kind \in {"claim", "consume"} => DispatchReady(c)
    IN  /\ call[c].at = "ended"
        /\ \/ /\ handle' = [handle EXCEPT
                    ![h].recovered = @ \/ (kind = "create" /\ handle[h].open)
                                       \/ (kind = "recover" /\ live),
                    ![h].enabled = @ \/ (kind = "activate" /\ live)]
              /\ token' = IF kind = "claim" /\ dispatched
                          THEN [token EXCEPT ![c] = call[c].base]
                          ELSE token
              /\ call' = [call EXCEPT ![c] = Ended(c, IF dispatched THEN "committed" ELSE "failed")]
              /\ UNCHANGED <<lastWord, spent>>
           \/ EndUnknown(c)
        /\ UNCHANGED <<disk, port>>

CallStep(c) == Read(c) \/ Transact(c) \/ Report(c)

(***************************************************************************)
(* `close`, an upgrade by another page or a lost connection end a handle;  *)
(* a restarted page has a new one.                                         *)
(***************************************************************************)
Close(h) ==
    /\ Event /\ handle[h].open
    /\ handle' = [handle EXCEPT ![h].open = FALSE, ![h].recovered = FALSE, ![h].enabled = FALSE]
    /\ call' = Stale(h)
    /\ token' = Burnt(h)
    /\ lastWord' = [lastWord EXCEPT ![h] = "stop"]
    /\ UNCHANGED <<disk, port>>

Restart(h) ==
    /\ Event
    /\ handle' = [handle EXCEPT ![h] = NewHandle]
    /\ call' = [c \in Callers |-> IF HandleOf(c) = h THEN NoCall ELSE call[c]]
    /\ port' = [x \in Executions |->
                   IF port[x].handle = h THEN [port[x] EXCEPT !.handle = NoHandle] ELSE port[x]]
    /\ token' = Burnt(h)
    /\ lastWord' = [lastWord EXCEPT ![h] = "stop"]
    /\ UNCHANGED disk

\* `createExecutionPort` binds one reservation to a handle that is ready, and
\* changes nothing; when the port is used, the handle may no longer be.
CanBind(h, i) == handle[h].open /\ Admissible(disk) /\ disk.charged[i] # 0

(***************************************************************************)
(* Properties of the stored inventory.                                     *)
(***************************************************************************)
\* What a commit stores is never refused by a later read: the owner cannot lock
\* itself out of its own database ("corrupt-owner", `validateInventory`).
\* And what a pending operation may still need has been reserved for it: an
\* effect in flight can be paused, interrupted or recovered, whatever happened
\* before, and its evidence can be recorded after that (`assertExecutionHeadroom`).
StoredIsUsable ==
    /\ Admissible(disk)
    /\ \A i \in InPhase(disk, {"in-flight"}) :
          \A kind \in {"pause", "recover", "mark"} :
             /\ Admits(kind, i, disk)
             /\ Admits("evidence", i, After(kind, i, disk))
    /\ \A i \in InPhase(disk, {"in-flight", "unknown"}) : Admits("evidence", i, disk)
    /\ \A i \in InPhase(disk, {"reserved"}) : MayClaim(disk, i) => Admits("claim", i, disk)
=============================================================================

----------------------------- MODULE BaselinePlan -----------------------------
(***************************************************************************)
(* The data of a baseline: a plan of items, the checkpoint that counts and *)
(* charges what was done about them, and one operation record for each     *)
(* item that was reserved (baseline-plan/*.ts,                             *)
(* purpose-persistence-v2/core/*.ts, baseline-owner/envelope.ts).          *)
(*                                                                         *)
(* Everything here is a function of a stored inventory: what a command may *)
(* do to it, what it then is, and whether it may be read back.  The module *)
(* BaselineOwner says when the inventory is read and written.              *)
(***************************************************************************)
EXTENDS Naturals, FiniteSets

CONSTANTS
    ItemCount,          \* items of the plan, in the order of the catalog
    MaxRevision,        \* the last safe revision (Number.MAX_SAFE_INTEGER)
    MaxObservations,    \* observations a checkpoint can hold (128)
    MaxReservationSlots,\* reservations charged to one budget window (1 to 16)
    MaxWindows          \* budget windows a checkpoint can hold (64)

ASSUME PlanBounds ==
    /\ ItemCount \in Nat \ {0}
    /\ MaxRevision \in Nat /\ MaxRevision >= 6          \* what a first operation needs
    /\ MaxObservations \in Nat /\ MaxObservations >= 4
    /\ MaxReservationSlots \in Nat \ {0} /\ MaxWindows \in Nat \ {0}

Items == 1..ItemCount

(***************************************************************************)
(* Operation records.  Nothing in the owner abandons an operation, and the *)
(* reason of an interruption is only kept.                                 *)
(***************************************************************************)
Phases == {"untouched", "reserved", "in-flight", "unknown", "awaiting-resolution"}

Record == [phase : Phases, control : {"active", "paused"}, revision : 0..MaxRevision]

NoRecord == [phase |-> "untouched", control |-> "active", revision |-> 0]

ReservedRecord == [NoRecord EXCEPT !.phase = "reserved"]

Revised(record, phase) == [record EXCEPT !.phase = phase, !.revision = @ + 1]

\* The executor says that it does not know what its effect did.
Interrupted(record) == Revised(record, "unknown")

\* An operator's pause, or the recovery after a restart, of an effect in flight.
Controlled(record, action) ==
    [Revised(record, "unknown") EXCEPT
        !.control = IF action = "pause" THEN "paused" ELSE @]

(***************************************************************************)
(* The inventory of the two stores: the checkpoint of the owner's envelope *)
(* and the operation records.  `charged` is an item's link, `seen` the     *)
(* revision of its latest observation plus one.                            *)
(***************************************************************************)
Inventory ==
    [there : BOOLEAN, revision : 0..MaxRevision, control : {"active", "paused"},
     cooldown : BOOLEAN, windows : 1..MaxWindows, charged : [Items -> 0..MaxWindows],
     seen : [Items -> 0..MaxRevision + 1], observations : 0..MaxObservations,
     records : [Items -> Record]]

NewCheckpoint ==
    [there |-> TRUE, revision |-> 0, control |-> "paused", cooldown |-> FALSE, windows |-> 1,
     charged |-> [i \in Items |-> 0], seen |-> [i \in Items |-> 0], observations |-> 0,
     records |-> [i \in Items |-> NoRecord]]

NothingStored == [NewCheckpoint EXCEPT !.there = FALSE]

InPhase(inv, phases) == {i \in Items : inv.records[i].phase \in phases}

Pending(inv) == InPhase(inv, {"reserved", "in-flight", "unknown"})

WindowCharges(inv, w) == Cardinality({i \in Items : inv.charged[i] = w})

(***************************************************************************)
(* `assertExecutionHeadroom`: an inventory is only stored, and only read,  *)
(* if what must still be possible for the one pending operation fits: to   *)
(* claim it, to pause, restart or interrupt it, and to record late         *)
(* evidence.  The limit of 64 KiB on the encoded checkpoint is taken as    *)
(* its number of observations.                                             *)
(***************************************************************************)
\* Mutant: what an active plan must still be able to do is reckoned without a pause.
RevisionCostWithoutPause(inv, record) ==
    CASE record.phase = "reserved" ->
            IF inv.control = "active" /\ record.control = "active" THEN 3 ELSE 0
      [] record.phase = "in-flight" -> 2
      [] record.phase = "unknown" -> 1
      [] OTHER -> 0

RevisionCost(inv, record) ==
    CASE record.phase = "reserved" ->
            IF inv.control = "active" /\ record.control = "active" THEN 4 ELSE 0
      [] record.phase = "in-flight" -> 3
      [] record.phase = "unknown" -> IF inv.control = "active" THEN 2 ELSE 1
      [] OTHER -> 0

ObservationCost(inv, record) ==
    CASE record.phase = "reserved" ->
            IF inv.control = "active" /\ record.control = "active" THEN 3 ELSE 0
      [] record.phase = "in-flight" -> 2
      [] record.phase = "unknown" -> 1
      [] OTHER -> 0

HasHeadroom(inv) ==
    /\ inv.control = "active" => inv.revision < MaxRevision
    /\ Cardinality(Pending(inv)) <= 1
    /\ \A i \in Pending(inv) :
          /\ inv.revision + RevisionCost(inv, inv.records[i]) <= MaxRevision
          /\ inv.observations + ObservationCost(inv, inv.records[i]) <= MaxObservations

\* `validateInventory`: what a read of the stores admits; anything else is
\* "corrupt-owner", and no method of the owner works on it any more.
Admissible(inv) ==
    inv.there =>
        /\ \A i \in Items :
              /\ inv.records[i].phase # "untouched" <=> inv.charged[i] # 0
              /\ inv.records[i].phase # "untouched" => inv.seen[i] = inv.records[i].revision + 1
              /\ inv.records[i].phase = "in-flight" => inv.records[i].control = "active"
        /\ \A w \in 1..inv.windows : WindowCharges(inv, w) <= MaxReservationSlots
        /\ HasHeadroom(inv)

(***************************************************************************)
(* `reduceBaselineCheckpoint`: a command costs one revision.               *)
(***************************************************************************)
PlanCommands ==
    {"activate", "pause", "recover-after-restart", "set-cooldown", "clear-cooldown",
     "roll-budget-window"}

CanReduce(inv, command) ==
    /\ inv.revision < MaxRevision
    /\ command = "roll-budget-window" => inv.windows < MaxWindows

Reduced(inv, command) ==
    [inv EXCEPT
        !.revision = @ + 1,
        !.control = CASE command = "activate" -> "active"
                      [] command \in {"pause", "recover-after-restart"} -> "paused"
                      [] OTHER -> @,
        !.cooldown = CASE command = "set-cooldown" -> TRUE
                       [] command = "clear-cooldown" -> FALSE
                       [] OTHER -> @,
        !.windows = IF command = "roll-budget-window" THEN @ + 1 ELSE @]

\* The command "observe-operation": the record of an item has a new revision.
CanObserve(inv, i, record) ==
    /\ inv.revision < MaxRevision
    /\ record.revision + 1 > inv.seen[i]
    /\ inv.charged[i] = 0 => WindowCharges(inv, inv.windows) < MaxReservationSlots
    /\ inv.observations < MaxObservations

\* Mutant: the reservation is charged to the window after the last.
ObservedAhead(inv, i, record) ==
    [inv EXCEPT
        !.revision = @ + 1,
        !.charged[i] = IF @ = 0 THEN inv.windows + 1 ELSE @,
        !.seen[i] = record.revision + 1,
        !.observations = @ + 1,
        !.records[i] = record]

Observed(inv, i, record) ==
    [inv EXCEPT
        !.revision = @ + 1,
        !.charged[i] = IF @ = 0 THEN inv.windows ELSE @,
        !.seen[i] = record.revision + 1,
        !.observations = @ + 1,
        !.records[i] = record]

\* What a page that is gone has left behind: the first item reserved.
LeftBehind == Observed(Reduced(NewCheckpoint, "activate"), 1, ReservedRecord)

\* `nextBaselineDecision`: the items that may be reserved now, at most one.
\* `warm` says that the caller's time is past the end of a cooldown.
Candidates(inv, warm) ==
    {i \in InPhase(inv, {"untouched"}) :
        /\ inv.control = "active"
        /\ InPhase(inv, {"in-flight", "unknown"}) = {}
        /\ \A j \in InPhase(inv, {"reserved"}) : inv.records[j].control = "paused"
        /\ inv.cooldown => warm
        /\ \A j \in InPhase(inv, {"untouched"}) : i <= j
        /\ WindowCharges(inv, inv.windows) < MaxReservationSlots
        /\ inv.observations < MaxObservations}
=============================================================================

----------------------------- MODULE BaselineProofs -----------------------------
(***************************************************************************)
(* BaselineExecution, proved for any number of items, handles and          *)
(* executions: what is stored stays usable, the provider is asked at most  *)
(* once about an item and never after a stop, and what an execution says   *)
(* when it ends is true.                                                   *)
(***************************************************************************)
EXTENDS BaselineExecution, TLAPS, FiniteSetTheorems

Phase(inv, i) == inv.records[i].phase

\* Revisions and charges never pass those of the checkpoint, and where there is no
\* baseline nothing has been done.
Grown(inv) ==
    /\ \A i \in Items : inv.records[i].revision <= inv.revision /\ inv.charged[i] <= inv.windows
    /\ ~inv.there => \A i \in Items : Phase(inv, i) = "untouched"

\* A call that is ready has checked what it read.
Prepared(c) ==
    /\ call[c].at = "idle" <=> call[c].kind = "none"
    /\ call[c].at = "ready" => Admits(call[c].kind, call[c].item, call[c].base)
    /\ c \notin Executions => call[c].kind \notin PortKinds

\* The call of an execution is the one its step awaits.
OwnCall(x) ==
    /\ call[x].kind # "none" =>
        call[x].kind \in PortKinds /\ call[x].kind = run[x].at /\ call[x].item = port[x].item
    /\ run[x].at \notin {"none", "done", "lost"} => port[x].handle \in Handles

CallEnded(x, kind) == call[x].kind = kind /\ call[x].at = "ended"

\* What an execution has done by each step.
InOrder(x) ==
    LET r == run[x]
    IN  /\ r.at = "none" => r = NoRun
        /\ r.at \in {"none", "claim", "lost"} => r.claim = "not-attempted"
        /\ r.at \in {"capture", "consume", "request", "write", "mark", "evidence"} =>
            r.claim = "committed"
        /\ r.claim # "committed" =>
            r.evidence = "not-attempted" /\ r.uncertainty = "not-attempted"
        /\ r.effect => r.claim = "committed" \/ r.at = "lost"
        /\ r.at \in {"capture", "consume", "request", "write", "evidence"}
              \/ (r.at = "mark" /\ r.then = "evidence") => r.evidence = "not-attempted"
        /\ r.at = "done" /\ r.claim = "committed" =>
            \/ r.consumption \in {"failed", "outcome-unknown"}
            \/ r.evidence # "not-attempted" \/ r.uncertainty # "not-attempted"

Claimed(x) == run[x].claim = "committed" \/ CallEnded(x, "claim")

\* What an execution has done about its item is stored.
Owned(x) == Claimed(x) \/ run[x].effect

IsStored(x) ==
    LET phase == Phase(disk, port[x].item)
    IN  /\ Owned(x) => phase \notin {"untouched", "reserved"}
        /\ run[x].evidence = "committed" \/ CallEnded(x, "evidence") =>
            phase = "awaiting-resolution"
        /\ Claimed(x) /\ run[x].evidence \in {"failed", "not-attempted"}
              /\ ~CallEnded(x, "evidence") => phase # "awaiting-resolution"
        /\ run[x].uncertainty = "committed" \/ CallEnded(x, "mark") =>
            phase \in {"unknown", "awaiting-resolution"}

\* One execution has claimed an item.
ClaimsDiffer ==
    \A x, y \in Executions : Owned(x) /\ Owned(y) /\ port[x].item = port[y].item => x = y

\* Only a handle that was told to go dispatches, or is about to.
WordsFollow ==
    /\ \A h \in Handles : handle[h].enabled => lastWord[h] = "go"
    /\ \A c \in Callers \ Executions :
          call[c].kind = "activate" /\ call[c].current => lastWord[c[1]] = "go"

RunSound(x) == OwnCall(x) /\ InOrder(x) /\ IsStored(x)

BInv ==
    /\ TypeOK /\ Grown(disk) /\ Admissible(disk) /\ WordsFollow /\ ClaimsDiffer
    /\ \A c \in Callers : Prepared(c)
    /\ \A x \in Executions : RunSound(x)

-----------------------------------------------------------------------------
(* What a command does to an inventory.                                    *)

LEMMA OneIsSet ==
    ASSUME NEW S, NEW X, NEW f \in [S -> X], NEW s \in S, NEW v \in X,
           NEW g, g = [f EXCEPT ![s] = v]
    PROVE  g \in [S -> X] /\ g[s] = v /\ \A t \in S : t # s => g[t] = f[t]
  OBVIOUS

LEMMA Limits ==
    /\ MaxRevision \in Nat /\ MaxRevision >= 6 /\ MaxObservations \in Nat /\ MaxObservations >= 4
    /\ MaxWindows \in Nat /\ MaxWindows >= 1 /\ MaxReservationSlots \in Nat
    /\ MaxReservationSlots >= 1 /\ 1 \in Items /\ IsFiniteSet(Items)
  <1>1. IsFiniteSet(Items)
    BY PlanBounds, FS_Interval DEF PlanBounds, Items
  <1> QED BY <1>1, PlanBounds DEF PlanBounds, Items

LEMMA InventoryFields ==
    ASSUME NEW inv \in Inventory
    PROVE  /\ inv.there \in BOOLEAN /\ inv.revision \in Nat /\ inv.revision <= MaxRevision
           /\ inv.control \in {"active", "paused"} /\ inv.windows \in Nat /\ inv.windows >= 1
           /\ inv.windows <= MaxWindows /\ inv.observations \in Nat
           /\ inv.observations <= MaxObservations
           /\ inv.charged \in [Items -> 0..MaxWindows]
           /\ inv.seen \in [Items -> 0..(MaxRevision + 1)]
           /\ inv.records \in [Items -> Record] /\ inv.cooldown \in BOOLEAN
           /\ \A i \in Items : /\ inv.charged[i] \in Nat /\ inv.seen[i] \in Nat
                               /\ inv.records[i] \in Record /\ Phase(inv, i) \in Phases
                               /\ inv.records[i].revision \in Nat
                               /\ inv.records[i].control \in {"active", "paused"}
  BY Limits DEF Inventory, Record, Phase

\* The new inventory is another one, with the same items.
SameItems(inv, new) ==
    /\ (new.there <=> inv.there) /\ new.records = inv.records /\ new.charged = inv.charged
    /\ new.seen = inv.seen /\ new.observations = inv.observations

LEMMA ReducedIs ==
    ASSUME NEW inv \in Inventory, Grown(inv), NEW command \in PlanCommands,
           CanReduce(inv, command), NEW new, new = Reduced(inv, command)
    PROVE  /\ new \in Inventory /\ Grown(new) /\ SameItems(inv, new)
           /\ new.revision = inv.revision + 1
           /\ command \in {"pause", "recover-after-restart"} => new.control = "paused"
           /\ new.windows = inv.windows \/ new.windows = inv.windows + 1
           /\ command # "roll-budget-window" => new.windows = inv.windows
  <1>1. /\ inv.revision \in Nat /\ inv.revision < MaxRevision /\ inv.windows \in Nat
        /\ command = "roll-budget-window" => inv.windows < MaxWindows
        /\ inv.windows >= 1 /\ inv.windows <= MaxWindows
    BY InventoryFields DEF CanReduce
  <1>2. new = [inv EXCEPT !.revision = inv.revision + 1,
                          !.control = IF command = "activate" THEN "active"
                                      ELSE IF command \in {"pause", "recover-after-restart"}
                                      THEN "paused" ELSE inv.control,
                          !.cooldown = IF command = "set-cooldown" THEN TRUE
                                       ELSE IF command = "clear-cooldown" THEN FALSE
                                       ELSE inv.cooldown,
                          !.windows = IF command = "roll-budget-window" THEN inv.windows + 1
                                      ELSE inv.windows]
    BY DEF Reduced, PlanCommands
  <1>3. /\ (new.there <=> inv.there) /\ new.records = inv.records /\ new.charged = inv.charged
        /\ new.seen = inv.seen /\ new.observations = inv.observations
        /\ new.revision = inv.revision + 1
        /\ new.windows = IF command = "roll-budget-window" THEN inv.windows + 1 ELSE inv.windows
        /\ command \in {"pause", "recover-after-restart"} => new.control = "paused"
    BY <1>2 DEF Inventory
  <1>4. new \in Inventory
    <2>1. /\ inv.revision + 1 \in 0..MaxRevision
          /\ (IF command = "roll-budget-window" THEN inv.windows + 1 ELSE inv.windows)
                \in 1..MaxWindows
      BY <1>1, Limits
    <2>2. /\ (IF command = "activate" THEN "active"
              ELSE IF command \in {"pause", "recover-after-restart"} THEN "paused" ELSE inv.control)
                \in {"active", "paused"}
          /\ (IF command = "set-cooldown" THEN TRUE ELSE IF command = "clear-cooldown" THEN FALSE
              ELSE inv.cooldown) \in BOOLEAN
      BY InventoryFields
    <2> QED BY <1>2, <2>1, <2>2 DEF Inventory
  <1>5. Grown(new)
    BY <1>1, <1>3, InventoryFields DEF Grown, Phase
  <1> QED BY <1>1, <1>3, <1>4, <1>5 DEF SameItems

LEMMA ObservedIs ==
    ASSUME NEW inv \in Inventory, Grown(inv), inv.there, NEW i \in Items, NEW record \in Record,
           record.revision <= inv.revision + 1, record.revision <= MaxRevision,
           CanObserve(inv, i, record), NEW new, new = Observed(inv, i, record)
    PROVE  /\ new \in Inventory /\ Grown(new) /\ (new.there <=> inv.there)
           /\ new.revision = inv.revision + 1 /\ new.observations = inv.observations + 1
           /\ new.control = inv.control /\ new.windows = inv.windows
           /\ new.records[i] = record /\ new.seen[i] = record.revision + 1
           /\ new.charged[i] = IF inv.charged[i] = 0 THEN inv.windows ELSE inv.charged[i]
           /\ \A k \in Items : k # i => /\ new.records[k] = inv.records[k]
                                        /\ new.seen[k] = inv.seen[k]
                                        /\ new.charged[k] = inv.charged[k]
  <1> DEFINE charge == IF inv.charged[i] = 0 THEN inv.windows ELSE inv.charged[i]
  <1>1. /\ inv.revision \in Nat /\ inv.revision < MaxRevision
        /\ inv.observations \in Nat /\ inv.observations < MaxObservations
    BY InventoryFields DEF CanObserve
  <1>2. record.revision \in Nat /\ record.revision + 1 \in 0..(MaxRevision + 1)
    BY Limits DEF Record
  <1>3. charge \in 0..MaxWindows /\ charge <= inv.windows
    BY InventoryFields, Limits DEF Grown
  <1>4. PICK charged : charged = [inv.charged EXCEPT ![i] = charge]
    OBVIOUS
  <1>5. PICK seen : seen = [inv.seen EXCEPT ![i] = record.revision + 1]
    OBVIOUS
  <1>6. PICK records : records = [inv.records EXCEPT ![i] = record]
    OBVIOUS
  <1>7. /\ charged \in [Items -> 0..MaxWindows] /\ charged[i] = charge
        /\ \A k \in Items : k # i => charged[k] = inv.charged[k]
    BY <1>3, <1>4, InventoryFields, OneIsSet
  <1>8. /\ seen \in [Items -> 0..(MaxRevision + 1)] /\ seen[i] = record.revision + 1
        /\ \A k \in Items : k # i => seen[k] = inv.seen[k]
    BY <1>2, <1>5, InventoryFields, OneIsSet
  <1>9. /\ records \in [Items -> Record] /\ records[i] = record
        /\ \A k \in Items : k # i => records[k] = inv.records[k]
    BY <1>6, InventoryFields, OneIsSet
  <1>10. new = [inv EXCEPT !.revision = inv.revision + 1, !.charged = charged, !.seen = seen,
                           !.observations = inv.observations + 1, !.records = records]
    BY <1>4, <1>5, <1>6 DEF Observed, Inventory
  <1>11. /\ new.revision = inv.revision + 1 /\ new.observations = inv.observations + 1
         /\ new.control = inv.control /\ new.windows = inv.windows /\ (new.there <=> inv.there)
         /\ new.charged = charged /\ new.seen = seen /\ new.records = records
    BY <1>10 DEF Inventory
  <1>12. new \in Inventory
    <2>1. inv.revision + 1 \in 0..MaxRevision /\ inv.observations + 1 \in 0..MaxObservations
      BY <1>1, Limits
    <2> QED BY <2>1, <1>7, <1>8, <1>9, <1>10 DEF Inventory
  <1>13. Grown(new)
    <2> SUFFICES ASSUME NEW k \in Items
                 PROVE  new.records[k].revision <= new.revision /\ new.charged[k] <= new.windows
      BY <1>11 DEF Grown
    <2>1. inv.records[k].revision <= inv.revision /\ inv.charged[k] <= inv.windows
      BY DEF Grown
    <2>2. inv.records[k].revision \in Nat
      BY InventoryFields
    <2> QED BY <1>1, <1>3, <1>7, <1>9, <1>11, <2>1, <2>2
  <1> QED BY <1>7, <1>8, <1>9, <1>11, <1>12, <1>13

LEMMA NothingIsInventory == NothingStored \in Inventory /\ NewCheckpoint \in Inventory
  <1>1. NoRecord \in Record
    BY Limits DEF NoRecord, Record, Phases
  <1>2. PICK nothing : nothing = [k \in Items |-> 0]
    OBVIOUS
  <1>3. PICK records : records = [k \in Items |-> NoRecord]
    OBVIOUS
  <1>4. nothing \in [Items -> 0..MaxWindows] /\ nothing \in [Items -> 0..(MaxRevision + 1)]
    BY <1>2, Limits
  <1>5. records \in [Items -> Record]
    BY <1>1, <1>3
  <1>6. 0 \in 0..MaxRevision /\ 1 \in 1..MaxWindows /\ 0 \in 0..MaxObservations
    BY Limits
  <1>7. PICK yes \in BOOLEAN, no \in BOOLEAN : yes = TRUE /\ no = FALSE
    OBVIOUS
  <1>8. NewCheckpoint = [there |-> yes, revision |-> 0, control |-> "paused", cooldown |-> no,
                         windows |-> 1, charged |-> nothing, seen |-> nothing,
                         observations |-> 0, records |-> records]
    BY <1>2, <1>3, <1>7 DEF NewCheckpoint
  <1>9. NewCheckpoint \in Inventory
    BY <1>4, <1>5, <1>6, <1>8 DEF Inventory
  <1>10. NothingStored = [NewCheckpoint EXCEPT !.there = no]
    BY <1>7 DEF NothingStored
  <1> QED BY <1>9, <1>10 DEF Inventory

\* What is observed of an operation is one revision later than its record.
Later(inv, i, record, phase) ==
    /\ record \in Record /\ record.phase = phase
    /\ record.revision = inv.records[i].revision + 1 /\ record.revision <= MaxRevision

LEMMA RevisedIsLater ==
    ASSUME NEW inv \in Inventory, Grown(inv), inv.revision < MaxRevision, NEW i \in Items,
           NEW phase \in Phases
    PROVE  /\ Later(inv, i, Revised(inv.records[i], phase), phase)
           /\ Revised(inv.records[i], phase).control = inv.records[i].control
  <1>1. /\ inv.records[i] \in Record /\ inv.records[i].revision \in Nat
        /\ inv.records[i].revision + 1 \in 0..MaxRevision
    BY InventoryFields, Limits DEF Grown
  <1>2. PICK r : r = inv.records[i]
    OBVIOUS
  <1>3. PICK new : new = [r EXCEPT !.phase = phase, !.revision = r.revision + 1]
    OBVIOUS
  <1>4. /\ new \in Record /\ new.phase = phase /\ new.revision = r.revision + 1
        /\ new.control = r.control
    BY <1>1, <1>2, <1>3 DEF Record
  <1>5. new = Revised(inv.records[i], phase)
    BY <1>2, <1>3 DEF Revised
  <1> QED BY <1>1, <1>2, <1>4, <1>5, Limits DEF Later

LEMMA ControlledIsLater ==
    ASSUME NEW inv \in Inventory, Grown(inv), inv.revision < MaxRevision, NEW i \in Items,
           NEW action
    PROVE  Later(inv, i, Controlled(inv.records[i], action), "unknown")
  <1> DEFINE r == Revised(inv.records[i], "unknown")
  <1>1. Later(inv, i, r, "unknown")
    BY RevisedIsLater DEF Phases
  <1>2. Controlled(inv.records[i], action) =
            [r EXCEPT !.control = IF action = "pause" THEN "paused" ELSE r.control]
    BY DEF Controlled
  <1> HIDE DEF r
  <1> QED BY <1>1, <1>2 DEF Later, Record

\* What each kind of call does to the operations.
PhasesFollow(kind, i, inv, new) ==
    /\ \A k \in Items :
        /\ Phase(inv, k) \notin {"untouched", "reserved"} =>
            Phase(new, k) \notin {"untouched", "reserved"}
        /\ Phase(inv, k) = "unknown" => Phase(new, k) \in {"unknown", "awaiting-resolution"}
        /\ Phase(inv, k) = "awaiting-resolution" => Phase(new, k) = "awaiting-resolution"
        /\ Phase(new, k) = "awaiting-resolution" =>
            Phase(inv, k) = "awaiting-resolution" \/ (kind = "evidence" /\ k = i)
    /\ kind = "claim" => Phase(inv, i) = "reserved" /\ Phase(new, i) = "in-flight"
    /\ kind = "mark" => Phase(new, i) = "unknown"
    /\ kind = "evidence" => Phase(new, i) = "awaiting-resolution"

\* Where the records and the charges of the items agree.
ItemFits(inv, i) ==
    /\ Phase(inv, i) # "untouched" <=> inv.charged[i] # 0
    /\ Phase(inv, i) # "untouched" => inv.seen[i] = inv.records[i].revision + 1
    /\ Phase(inv, i) = "in-flight" => inv.records[i].control = "active"

ChargesFit(inv) == \A w \in 1..inv.windows : WindowCharges(inv, w) <= MaxReservationSlots

LEMMA AdmissibleParts ==
    ASSUME NEW inv, inv.there
    PROVE  Admissible(inv) <=> /\ \A i \in Items : ItemFits(inv, i)
                               /\ ChargesFit(inv) /\ HasHeadroom(inv)
  BY DEF Admissible, ItemFits, ChargesFit, Phase

\* An operation that was observed fits.
LEMMA ObservedFits ==
    ASSUME NEW inv \in Inventory, Grown(inv), inv.there, \A k \in Items : ItemFits(inv, k),
           ChargesFit(inv), NEW i \in Items, NEW record \in Record,
           record.revision <= inv.revision + 1, record.revision <= MaxRevision,
           record.phase # "untouched", record.phase = "in-flight" => record.control = "active",
           CanObserve(inv, i, record), NEW new, new = Observed(inv, i, record)
    PROVE  /\ \A k \in Items : ItemFits(new, k)
           /\ ChargesFit(new) /\ new \in Inventory /\ Grown(new) /\ (new.there <=> inv.there)
           /\ new.records[i] = record
           /\ \A k \in Items : k # i => new.records[k] = inv.records[k]
  <1>1. /\ new \in Inventory /\ new.windows = inv.windows /\ Grown(new) /\ (new.there <=> inv.there)
        /\ new.records[i] = record /\ new.seen[i] = record.revision + 1
        /\ new.charged[i] = IF inv.charged[i] = 0 THEN inv.windows ELSE inv.charged[i]
        /\ \A k \in Items : k # i => /\ new.records[k] = inv.records[k]
                                     /\ new.seen[k] = inv.seen[k]
                                     /\ new.charged[k] = inv.charged[k]
    BY ObservedIs
  <1>2. inv.windows \in Nat /\ inv.windows >= 1
    BY InventoryFields
  <1>3. ASSUME NEW k \in Items PROVE ItemFits(new, k)
    <2>1. CASE k = i
      BY <1>1, <1>2, <2>1 DEF ItemFits, Phase
    <2>2. CASE k # i
      BY <1>1, <2>2 DEF ItemFits, Phase
    <2> QED BY <2>1, <2>2
  <1>4. ASSUME NEW w \in 1..new.windows PROVE WindowCharges(new, w) <= MaxReservationSlots
    <2> DEFINE old == {k \in Items : inv.charged[k] = w}
               now == {k \in Items : new.charged[k] = w}
    <2>1. WindowCharges(inv, w) = Cardinality(old) /\ WindowCharges(new, w) = Cardinality(now)
      BY DEF WindowCharges
    <2>2. w \in 1..inv.windows /\ w # 0
      BY <1>1, <1>2
    <2>3. Cardinality(old) <= MaxReservationSlots
      BY <2>1, <2>2 DEF ChargesFit
    <2>4. CASE inv.charged[i] # 0 \/ w # inv.windows
      <3>1. now = old
        <4>1. (new.charged[i] = w) <=> (inv.charged[i] = w)
          BY <1>1, <2>2, <2>4
        <4> QED BY <1>1, <4>1
      <3> QED BY <2>1, <2>3, <3>1
    <2>5. CASE inv.charged[i] = 0 /\ w = inv.windows
      <3>1. now = old \cup {i} /\ i \notin old
        BY <1>1, <2>2, <2>5
      <3>2. IsFiniteSet(old)
        BY Limits, FS_Subset
      <3>3. Cardinality(now) = Cardinality(old) + 1
        BY <3>1, <3>2, FS_AddElement
      <3>4. Cardinality(old) < MaxReservationSlots
        BY <2>1, <2>5 DEF CanObserve
      <3>5. Cardinality(old) \in Nat
        BY <3>2, FS_CardinalityType
      <3> HIDE DEF old, now
      <3> QED BY <2>1, <3>3, <3>4, <3>5, Limits
    <2> QED BY <2>4, <2>5
  <1> QED BY <1>1, <1>3, <1>4 DEF ChargesFit

\* A command moves no item.
LEMMA ReducedFits ==
    ASSUME NEW inv \in Inventory, Grown(inv), \A k \in Items : ItemFits(inv, k), ChargesFit(inv),
           NEW command \in PlanCommands, CanReduce(inv, command),
           NEW new, new = Reduced(inv, command)
    PROVE  (\A k \in Items : ItemFits(new, k)) /\ ChargesFit(new)
  <1>1. /\ SameItems(inv, new) /\ new.windows \in {inv.windows, inv.windows + 1}
    BY ReducedIs
  <1>2. ASSUME NEW k \in Items PROVE ItemFits(new, k)
    BY <1>1 DEF SameItems, ItemFits, Phase
  <1>3. ASSUME NEW w \in 1..new.windows PROVE WindowCharges(new, w) <= MaxReservationSlots
    <2> DEFINE now == {k \in Items : new.charged[k] = w}
    <2>1. WindowCharges(new, w) = WindowCharges(inv, w) /\ WindowCharges(new, w) = Cardinality(now)
      BY <1>1 DEF WindowCharges, SameItems
    <2>2. inv.windows \in Nat /\ inv.windows >= 1
      BY InventoryFields
    <2>3. CASE w \in 1..inv.windows
      BY <2>1, <2>3 DEF ChargesFit
    <2>4. CASE w \notin 1..inv.windows
      <3>1. w = inv.windows + 1
        BY <1>1, <2>2, <2>4
      <3>2. ASSUME NEW k \in Items PROVE new.charged[k] # w
        <4>1. inv.charged[k] \in Nat /\ inv.charged[k] <= inv.windows
          BY InventoryFields DEF Grown
        <4> QED BY <1>1, <2>2, <3>1, <4>1 DEF SameItems
      <3>3. now = {}
        BY <3>2
      <3>4. Cardinality(now) = 0
        BY <3>3, FS_EmptySet
      <3> HIDE DEF now
      <3> QED BY <2>1, <3>4, Limits
    <2> QED BY <2>3, <2>4
  <1> QED BY <1>2, <1>3 DEF ChargesFit

\* The kinds of calls that change what is stored, and what they make of it.
Writes ==
    {"create", "reserve", "claim", "mark", "evidence"} \cup StopKinds \cup (Controls \ {"pause"})

Good(kind, i, inv, new) ==
    /\ new \in Inventory /\ Grown(new) /\ Admissible(new) /\ PhasesFollow(kind, i, inv, new)

\* The parts of what an inventory admits.
LEMMA AdmitsParts ==
    ASSUME NEW inv \in Inventory, NEW i \in Items, NEW kind, Admits(kind, i, inv)
    PROVE  /\ Admissible(inv) /\ Allows(kind, i, inv)
           /\ kind # "consume" => HasHeadroom(After(kind, i, inv))
  BY DEF Admits

\* Only these items move, to these phases.
LEMMA OneMoves ==
    ASSUME NEW inv \in Inventory, Grown(inv), inv.there, Admissible(inv),
           NEW base \in Inventory, Grown(base), base.there, SameItems(inv, base),
           \A k \in Items : ItemFits(base, k), ChargesFit(base),
           base.revision >= inv.revision,
           NEW i \in Items, NEW phase \in Phases, NEW record, Later(inv, i, record, phase),
           phase # "untouched", phase = "in-flight" => record.control = "active",
           CanObserve(base, i, record), NEW new, new = Observed(base, i, record), HasHeadroom(new)
    PROVE  /\ new \in Inventory /\ Grown(new) /\ Admissible(new) /\ new.there
           /\ Phase(new, i) = phase /\ \A k \in Items : k # i => Phase(new, k) = Phase(inv, k)
  <1>1. /\ inv.records[i].revision \in Nat /\ inv.records[i].revision <= inv.revision
        /\ base.revision \in Nat /\ inv.revision \in Nat
    BY InventoryFields DEF Grown
  <1>2. /\ record \in Record /\ record.phase = phase /\ record.revision <= base.revision + 1
        /\ record.revision <= MaxRevision
    BY <1>1 DEF Later
  <1>3. /\ \A k \in Items : ItemFits(new, k)
        /\ ChargesFit(new) /\ new \in Inventory /\ Grown(new) /\ (new.there <=> base.there)
        /\ new.records[i] = record
        /\ \A k \in Items : k # i => new.records[k] = base.records[k]
    BY <1>2, ObservedFits
  <1>5. Admissible(new)
    BY <1>3, AdmissibleParts
  <1> QED BY <1>2, <1>3, <1>5 DEF SameItems, Phase

LEMMA HaltIsGood ==
    ASSUME NEW inv \in Inventory, Grown(inv), inv.there, Admissible(inv),
           NEW command \in {"pause", "recover-after-restart"}, NEW action,
           CanHalt(inv, command, action), NEW new, new = Halted(inv, command, action),
           HasHeadroom(new), NEW kind \in StopKinds, NEW i \in Items
    PROVE  Good(kind, i, inv, new)
  <1> DEFINE flying == InPhase(inv, {"in-flight"})
             paused == Reduced(inv, command)
  <1>1. PICK base : base = paused
    OBVIOUS
  <1>2. command \in PlanCommands /\ CanReduce(inv, command) /\ inv.revision < MaxRevision
    BY DEF PlanCommands, CanHalt, CanReduce
  <1>3. /\ base \in Inventory /\ Grown(base) /\ SameItems(inv, base)
        /\ base.revision = inv.revision + 1
    BY <1>1, <1>2, ReducedIs
  <1>4. (\A k \in Items : ItemFits(inv, k)) /\ ChargesFit(inv)
    BY AdmissibleParts
  <1>5. (\A k \in Items : ItemFits(base, k)) /\ ChargesFit(base) /\ base.there
    BY <1>1, <1>2, <1>3, <1>4, ReducedFits DEF SameItems
  <1>6. CASE flying = {}
    <2>1. new = base
      BY <1>1, <1>6 DEF Halted
    <2>2. Admissible(new)
      BY <2>1, <1>5, AdmissibleParts
    <2>3. \A k \in Items : Phase(new, k) = Phase(inv, k)
      BY <2>1, <1>3 DEF SameItems, Phase
    <2>4. PhasesFollow(kind, i, inv, new)
      BY <2>3 DEF PhasesFollow, StopKinds
    <2> QED BY <1>3, <2>1, <2>2, <2>4 DEF Good
  <1>7. CASE flying # {}
    <2>1. PICK k : k = (CHOOSE j \in flying : TRUE)
      OBVIOUS
    <2>2. k \in Items /\ Phase(inv, k) = "in-flight" /\ k \in flying
      BY <1>7, <2>1 DEF InPhase, Phase
    <2>3. PICK record : record = Controlled(inv.records[k], action)
      OBVIOUS
    <2>4. new = Observed(base, k, record)
      BY <1>1, <1>7, <2>1, <2>3 DEF Halted
    <2>5. CanObserve(base, k, record)
      BY <1>1, <2>2, <2>3 DEF CanHalt
    <2>6. Later(inv, k, record, "unknown") /\ "unknown" \in Phases
      BY <1>2, <2>2, <2>3, ControlledIsLater DEF Phases
    <2>7. base.revision >= inv.revision
      BY <1>3, InventoryFields
    <2>8. /\ new \in Inventory /\ Grown(new) /\ Admissible(new) /\ Phase(new, k) = "unknown"
          /\ \A j \in Items : j # k => Phase(new, j) = Phase(inv, j)
      BY <1>3, <1>5, <2>2, <2>4, <2>5, <2>6, <2>7, OneMoves
    <2>9. PhasesFollow(kind, i, inv, new)
      BY <2>2, <2>8 DEF PhasesFollow, StopKinds
    <2> QED BY <2>8, <2>9 DEF Good
  <1> QED BY <1>6, <1>7

LEMMA CreateIsGood ==
    ASSUME NEW inv \in Inventory, Grown(inv), NEW i \in Items, Admits("create", i, inv),
           NEW new, new = After("create", i, inv)
    PROVE  Good("create", i, inv, new)
  <1>1. new = NewCheckpoint /\ ~inv.there /\ HasHeadroom(new)
    BY AdmitsParts DEF After, Allows
  <1>3. new \in Inventory
    BY <1>1, NothingIsInventory
  <1>4. /\ new.there /\ new.windows = 1 /\ new.revision = 0
        /\ \A k \in Items : new.records[k] = NoRecord /\ new.charged[k] = 0 /\ new.seen[k] = 0
    BY <1>1 DEF NewCheckpoint
  <1>5. NoRecord.phase = "untouched" /\ NoRecord.revision = 0
    BY DEF NoRecord
  <1>6. Grown(new)
    BY <1>4, <1>5 DEF Grown
  <1>7. \A k \in Items : ItemFits(new, k)
    BY <1>4, <1>5 DEF ItemFits, Phase
  <1>8. ChargesFit(new)
    <2>1. ASSUME NEW w \in 1..new.windows PROVE WindowCharges(new, w) = 0
      <3>1. {k \in Items : new.charged[k] = w} = {}
        BY <1>4
      <3> QED BY <3>1, FS_EmptySet DEF WindowCharges
    <2> QED BY <2>1, Limits DEF ChargesFit
  <1>9. Admissible(new)
    BY <1>1, <1>4, <1>7, <1>8, AdmissibleParts
  <1>10. \A k \in Items : Phase(inv, k) = "untouched" /\ Phase(new, k) = "untouched"
    BY <1>1, <1>4, <1>5 DEF Grown, Phase
  <1>11. PhasesFollow("create", i, inv, new)
    BY <1>10 DEF PhasesFollow
  <1> QED BY <1>3, <1>6, <1>9, <1>11 DEF Good

LEMMA ReserveIsGood ==
    ASSUME NEW inv \in Inventory, Grown(inv), NEW i \in Items, Admits("reserve", i, inv),
           Phase(inv, i) = "untouched", NEW new, new = After("reserve", i, inv)
    PROVE  Good("reserve", i, inv, new)
  <1>1. /\ inv.there /\ CanObserve(inv, i, ReservedRecord) /\ Admissible(inv) /\ HasHeadroom(new)
        /\ new = Observed(inv, i, ReservedRecord)
    BY AdmitsParts DEF After, Allows
  <1>2. /\ ReservedRecord \in Record /\ ReservedRecord.revision = 0
        /\ ReservedRecord.phase = "reserved"
    BY Limits DEF ReservedRecord, NoRecord, Record, Phases
  <1>3. (\A k \in Items : ItemFits(inv, k)) /\ ChargesFit(inv)
    BY <1>1, AdmissibleParts
  <1>4. inv.revision \in Nat /\ ReservedRecord.revision <= inv.revision + 1
        /\ ReservedRecord.revision <= MaxRevision
    BY <1>2, InventoryFields, Limits
  <1>5. /\ new \in Inventory /\ Grown(new) /\ new.there /\ new.records[i] = ReservedRecord
        /\ \A k \in Items : k # i => new.records[k] = inv.records[k]
    BY <1>1, <1>2, <1>4, ObservedIs
  <1>6. (\A k \in Items : ItemFits(new, k)) /\ ChargesFit(new)
    BY <1>1, <1>2, <1>3, <1>4, ObservedFits
  <1>7. Admissible(new)
    BY <1>1, <1>5, <1>6, AdmissibleParts
  <1>8. PhasesFollow("reserve", i, inv, new)
    BY <1>2, <1>5 DEF PhasesFollow, Phase
  <1> QED BY <1>5, <1>7, <1>8 DEF Good

\* A claim, or evidence.
LEMMA RevisionIsGood ==
    ASSUME NEW inv \in Inventory, Grown(inv), inv.there, NEW i \in Items,
           NEW kind \in {"claim", "evidence"},
           NEW phase, phase = IF kind = "claim" THEN "in-flight" ELSE "awaiting-resolution",
           Admissible(inv), CanObserve(inv, i, Revised(inv.records[i], phase)),
           kind = "claim" => Phase(inv, i) = "reserved" /\ inv.records[i].control = "active",
           kind = "evidence" => Phase(inv, i) \in {"in-flight", "unknown"},
           NEW new, new = Observed(inv, i, Revised(inv.records[i], phase)), HasHeadroom(new)
    PROVE  Good(kind, i, inv, new)
  <1>1. PICK record : record = Revised(inv.records[i], phase)
    OBVIOUS
  <1>2. phase \in Phases /\ phase # "untouched" /\ inv.revision < MaxRevision
    BY DEF Phases, CanObserve
  <1>3. Later(inv, i, record, phase) /\ record.control = inv.records[i].control
    BY <1>1, <1>2, RevisedIsLater
  <1>4. (\A k \in Items : ItemFits(inv, k)) /\ ChargesFit(inv)
    BY AdmissibleParts
  <1>5. SameItems(inv, inv) /\ inv.revision >= inv.revision
    BY InventoryFields DEF SameItems
  <1>6. phase = "in-flight" => record.control = "active"
    BY <1>3
  <1>7. /\ new \in Inventory /\ Grown(new) /\ Admissible(new)
        /\ Phase(new, i) = phase /\ \A k \in Items : k # i => Phase(new, k) = Phase(inv, k)
    BY <1>1, <1>2, <1>3, <1>4, <1>5, <1>6, OneMoves
  <1>8. PhasesFollow(kind, i, inv, new)
    BY <1>7 DEF PhasesFollow
  <1> QED BY <1>7, <1>8 DEF Good

LEMMA MarkIsGood ==
    ASSUME NEW inv \in Inventory, Grown(inv), inv.there, NEW i \in Items, Admits("mark", i, inv),
           NEW new, new = After("mark", i, inv)
    PROVE  Good("mark", i, inv, new)
  <1>1. PICK base : base = Reduced(inv, "pause")
    OBVIOUS
  <1>2. PICK record : record = Interrupted(inv.records[i])
    OBVIOUS
  <1>3. /\ Phase(inv, i) = "in-flight" /\ CanReduce(inv, "pause") /\ Admissible(inv)
        /\ CanObserve(base, i, record) /\ HasHeadroom(new) /\ new = Observed(base, i, record)
    BY <1>1, <1>2, AdmitsParts DEF After, Allows, Phase
  <1>4. inv.revision < MaxRevision /\ "pause" \in PlanCommands /\ "unknown" \in Phases
    BY <1>3 DEF CanReduce, PlanCommands, Phases
  <1>5. Later(inv, i, record, "unknown")
    BY <1>2, <1>4, RevisedIsLater DEF Interrupted
  <1>6. /\ base \in Inventory /\ Grown(base) /\ SameItems(inv, base)
        /\ base.revision = inv.revision + 1
    BY <1>1, <1>3, <1>4, ReducedIs
  <1>7. (\A k \in Items : ItemFits(base, k)) /\ ChargesFit(base) /\ base.there
    BY <1>1, <1>3, <1>4, <1>6, ReducedFits, AdmissibleParts DEF SameItems
  <1>8. base.revision >= inv.revision
    BY <1>6, InventoryFields
  <1>9. /\ new \in Inventory /\ Grown(new) /\ Admissible(new) /\ Phase(new, i) = "unknown"
        /\ \A k \in Items : k # i => Phase(new, k) = Phase(inv, k)
    BY <1>3, <1>4, <1>5, <1>6, <1>7, <1>8, OneMoves
  <1>10. PhasesFollow("mark", i, inv, new)
    BY <1>3, <1>9 DEF PhasesFollow
  <1> QED BY <1>9, <1>10 DEF Good

\* A command of an operator other than a pause.
LEMMA ControlIsGood ==
    ASSUME NEW inv \in Inventory, Grown(inv), NEW i \in Items, NEW kind \in Controls \ {"pause"},
           Admits(kind, i, inv), NEW new, new = After(kind, i, inv)
    PROVE  Good(kind, i, inv, new)
  <1>1. /\ kind \in PlanCommands
        /\ kind \notin {"create", "reserve", "recover", "pause", "claim", "consume", "mark",
                        "evidence"}
    BY OwnerBounds DEF OwnerBounds, PlanCommands
  <1>2. /\ inv.there /\ CanReduce(inv, kind) /\ Admissible(inv) /\ HasHeadroom(new)
        /\ new = Reduced(inv, kind)
    BY <1>1, AdmitsParts DEF After, Allows
  <1>3. new \in Inventory /\ Grown(new) /\ SameItems(inv, new)
    BY <1>1, <1>2, ReducedIs
  <1>4. (\A k \in Items : ItemFits(new, k)) /\ ChargesFit(new) /\ new.there
    BY <1>1, <1>2, <1>3, AdmissibleParts, ReducedFits DEF SameItems
  <1>5. Admissible(new)
    BY <1>2, <1>4, AdmissibleParts
  <1>6. PhasesFollow(kind, i, inv, new)
    BY <1>1, <1>3 DEF PhasesFollow, SameItems, Phase
  <1> QED BY <1>3, <1>5, <1>6 DEF Good

\* An operation that was begun is of a baseline that is there.
LEMMA BegunIsThere ==
    ASSUME NEW inv \in Inventory, Grown(inv), NEW i \in Items, Phase(inv, i) # "untouched"
    PROVE  inv.there
  BY DEF Grown

LEMMA StopIsGood ==
    ASSUME NEW inv \in Inventory, Grown(inv), NEW i \in Items, NEW kind \in StopKinds,
           Admits(kind, i, inv), NEW new, new = After(kind, i, inv)
    PROVE  Good(kind, i, inv, new)
  <1>1. Admissible(inv) /\ inv.there /\ HasHeadroom(new)
    BY AdmitsParts DEF StopKinds, Allows
  <1>2. CASE kind = "pause"
    <2>1. CanHalt(inv, "pause", "pause") /\ new = Halted(inv, "pause", "pause")
      BY <1>2, AdmitsParts DEF After, Allows
    <2> QED BY <1>1, <2>1, HaltIsGood
  <1>3. CASE kind = "recover" /\ ~Preserves(inv)
    <2>1. /\ CanHalt(inv, "recover-after-restart", "restart")
          /\ new = Halted(inv, "recover-after-restart", "restart")
      BY <1>3, AdmitsParts DEF After, Allows
    <2> QED BY <1>1, <2>1, HaltIsGood
  <1>4. CASE kind = "recover" /\ Preserves(inv)
    <2>1. new = inv
      BY <1>4 DEF After
    <2>2. PhasesFollow(kind, i, inv, new)
      BY <1>4, <2>1 DEF PhasesFollow
    <2> QED BY <1>1, <2>1, <2>2 DEF Good
  <1> QED BY <1>2, <1>3, <1>4 DEF StopKinds

\* Whatever a call stores keeps the inventory sound.
LEMMA AfterIsGood ==
    ASSUME NEW inv \in Inventory, Grown(inv), NEW i \in Items, NEW kind \in Writes,
           Admits(kind, i, inv), kind = "reserve" => Phase(inv, i) = "untouched",
           NEW new, new = After(kind, i, inv)
    PROVE  Good(kind, i, inv, new)
  <1>1. CASE kind = "create"
    BY <1>1, CreateIsGood
  <1>2. CASE kind = "reserve"
    BY <1>2, ReserveIsGood
  <1>3. CASE kind = "claim"
    <2>1. /\ Admissible(inv) /\ HasHeadroom(new) /\ Phase(inv, i) = "reserved"
          /\ inv.records[i].control = "active"
          /\ CanObserve(inv, i, Revised(inv.records[i], "in-flight"))
          /\ new = Observed(inv, i, Revised(inv.records[i], "in-flight"))
      BY <1>3, AdmitsParts DEF After, Allows, MayClaim, Phase
    <2>2. inv.there
      BY <2>1, BegunIsThere
    <2> QED BY <1>3, <2>1, <2>2, RevisionIsGood
  <1>4. CASE kind = "evidence"
    <2>1. /\ Admissible(inv) /\ HasHeadroom(new) /\ Phase(inv, i) \in {"in-flight", "unknown"}
          /\ CanObserve(inv, i, Revised(inv.records[i], "awaiting-resolution"))
          /\ new = Observed(inv, i, Revised(inv.records[i], "awaiting-resolution"))
      BY <1>4, AdmitsParts DEF After, Allows, Phase
    <2>2. inv.there
      BY <2>1, BegunIsThere
    <2> QED BY <1>4, <2>1, <2>2, RevisionIsGood
  <1>5. CASE kind = "mark"
    <2>1. Phase(inv, i) = "in-flight"
      BY <1>5, AdmitsParts DEF Allows, Phase
    <2>2. inv.there
      BY <2>1, BegunIsThere
    <2> QED BY <1>5, <2>2, MarkIsGood
  <1>6. CASE kind \in StopKinds
    BY <1>6, StopIsGood
  <1>7. CASE kind \in Controls \ {"pause"}
    BY <1>7, ControlIsGood
  <1> QED BY <1>1, <1>2, <1>3, <1>4, <1>5, <1>6, <1>7 DEF Writes

-----------------------------------------------------------------------------
(* Calls and handles.                                                      *)

Kinds == {"none"} \cup StopKinds \cup PlanKinds \cup PortKinds
CallRecord ==
    [kind : Kinds, at : {"idle", "read", "ready", "ended"}, item : Items,
     revision : 0..MaxRevision, base : Inventory, current : BOOLEAN, outcome : Outcomes]
HandleRecord == [open : BOOLEAN, recovered : BOOLEAN, enabled : BOOLEAN, unknown : BOOLEAN]

\* The call of somebody else: it may no longer be of the present session.
SameCall(a, b) ==
    /\ b.kind = a.kind /\ b.at = a.at /\ b.item = a.item /\ b.revision = a.revision
    /\ b.base = a.base /\ b.outcome = a.outcome
    /\ b.current => a.current

CallsKept(c) ==
    call' \in [Callers -> CallRecord] /\ \A d \in Callers : d # c => SameCall(call[d], call'[d])

LEMMA EndedIs ==
    ASSUME NEW c, NEW o \in Outcomes
    PROVE  /\ NoCall \in CallRecord /\ Ended(c, o) \in CallRecord
           /\ Ended(c, o).kind = "none" /\ Ended(c, o).at = "idle"
           /\ c \in Executions => Ended(c, o).outcome = o
  <1>1. PICK no \in BOOLEAN : no = FALSE
    OBVIOUS
  <1>2. NoCall = [kind |-> "none", at |-> "idle", item |-> 1, revision |-> 0,
                  base |-> NothingStored, current |-> no, outcome |-> "not-attempted"]
    BY <1>1 DEF NoCall
  <1>3. "none" \in Kinds /\ "not-attempted" \in Outcomes /\ 0 \in 0..MaxRevision
    BY Limits DEF Kinds, Outcomes
  <1>4. NoCall \in CallRecord
    BY <1>2, <1>3, Limits, NothingIsInventory DEF CallRecord
  <1>5. NoCall.kind = "none" /\ NoCall.at = "idle"
    BY <1>2
  <1>6. CASE c \in Executions
    <2>1. Ended(c, o) = [NoCall EXCEPT !.outcome = o]
      BY <1>6 DEF Ended
    <2>2. PICK n \in CallRecord : n = NoCall
      BY <1>4
    <2>3. [n EXCEPT !.outcome = o] \in CallRecord
      BY DEF CallRecord
    <2>4. /\ [n EXCEPT !.outcome = o].kind = n.kind /\ [n EXCEPT !.outcome = o].at = n.at
          /\ [n EXCEPT !.outcome = o].outcome = o
      BY DEF CallRecord
    <2> QED BY <1>4, <1>5, <2>1, <2>2, <2>3, <2>4
  <1>7. CASE c \notin Executions
    BY <1>4, <1>5, <1>7 DEF Ended
  <1> QED BY <1>6, <1>7

LEMMA BegunIs ==
    ASSUME NEW kind \in Kinds, NEW i \in Items, NEW revision \in 0..MaxRevision,
           NEW base \in Inventory
    PROVE  /\ Begun(kind, i, revision, base) \in CallRecord
           /\ Begun(kind, i, revision, base).kind = kind
           /\ Begun(kind, i, revision, base).at = "read"
           /\ Begun(kind, i, revision, base).item = i
  <1>1. PICK yes \in BOOLEAN : yes = TRUE
    OBVIOUS
  <1>2. Begun(kind, i, revision, base) =
            [kind |-> kind, at |-> "read", item |-> i, revision |-> revision, base |-> base,
             current |-> yes, outcome |-> "not-attempted"]
    BY <1>1 DEF Begun
  <1>3. "not-attempted" \in Outcomes
    BY DEF Outcomes
  <1> QED BY <1>2, <1>3 DEF CallRecord

LEMMA OwnerTypes ==
    ASSUME OwnerTypeOK
    PROVE  /\ call \in [Callers -> CallRecord] /\ handle \in [Handles -> HandleRecord]
           /\ disk \in Inventory /\ token \in [Executions -> Inventory]
           /\ port \in [Executions -> [handle : Handles \cup {NoHandle}, item : Items]]
           /\ lastWord \in [Handles -> {"go", "stop"}]
           /\ \A c \in Callers : /\ call[c] \in CallRecord /\ call[c].kind \in Kinds
                                 /\ call[c].item \in Items /\ call[c].base \in Inventory
                                 /\ call[c].outcome \in Outcomes
                                 /\ call[c].at \in {"idle", "read", "ready", "ended"}
  <1>1. call \in [Callers -> CallRecord] /\ handle \in [Handles -> HandleRecord]
    BY DEF OwnerTypeOK, CallRecord, Kinds, HandleRecord
  <1>2. \A c \in Callers : /\ call[c] \in CallRecord /\ call[c].kind \in Kinds
                           /\ call[c].item \in Items /\ call[c].base \in Inventory
                           /\ call[c].outcome \in Outcomes
                           /\ call[c].at \in {"idle", "read", "ready", "ended"}
    BY <1>1 DEF CallRecord
  <1> QED BY <1>1, <1>2 DEF OwnerTypeOK

LEMMA OwnerTypesAgain ==
    ASSUME call' \in [Callers -> CallRecord], handle' \in [Handles -> HandleRecord],
           disk' \in Inventory, token' \in [Executions -> Inventory],
           port' \in [Executions -> [handle : Handles \cup {NoHandle}, item : Items]],
           lastWord' \in [Handles -> {"go", "stop"}], spent' \in 0..MaxEvents
    PROVE  OwnerTypeOK'
  BY DEF OwnerTypeOK, CallRecord, Kinds, HandleRecord

\* The calls of a handle are no longer of the present session.
LEMMA StaleIs ==
    ASSUME OwnerTypeOK, NEW h
    PROVE  /\ Stale(h) \in [Callers -> CallRecord]
           /\ \A c \in Callers : SameCall(call[c], Stale(h)[c])
           /\ \A c \in Callers : HandleOf(c) = h => ~Stale(h)[c].current
  <1>1. ASSUME NEW c \in Callers
        PROVE  /\ Stale(h)[c] \in CallRecord /\ SameCall(call[c], Stale(h)[c])
               /\ HandleOf(c) = h => ~Stale(h)[c].current
    <2>1. PICK no \in BOOLEAN : no = FALSE
      OBVIOUS
    <2>2. PICK r \in CallRecord : r = call[c]
      BY OwnerTypes
    <2>3. Stale(h)[c] = IF HandleOf(c) = h THEN [r EXCEPT !.current = no] ELSE r
      BY <2>1, <2>2 DEF Stale
    <2>4. CASE HandleOf(c) = h
      <3>1. PICK s : s = [r EXCEPT !.current = no]
        OBVIOUS
      <3>2. s \in CallRecord /\ s.current = no /\ SameCall(r, s)
        BY <2>1, <3>1 DEF CallRecord, SameCall
      <3>3. Stale(h)[c] = s
        BY <2>3, <2>4, <3>1
      <3> QED BY <2>1, <2>2, <3>2, <3>3
    <2>5. CASE HandleOf(c) # h
      BY <2>2, <2>3, <2>5 DEF SameCall
    <2> QED BY <2>4, <2>5
  <1>2. Stale(h) = [c \in Callers |-> Stale(h)[c]]
    BY DEF Stale
  <1> QED BY <1>1, <1>2

LEMMA BurntIs ==
    ASSUME OwnerTypeOK, NEW h PROVE Burnt(h) \in [Executions -> Inventory]
  BY OwnerTypes, NothingIsInventory DEF Burnt, NoToken

LEMMA SpentIs ==
    ASSUME OwnerTypeOK, Event \/ UNCHANGED spent PROVE spent' \in 0..MaxEvents
  BY OwnerBounds DEF OwnerTypeOK, OwnerBounds, Event

\* A call is replaced and the others are kept.
LEMMA CallIsSet ==
    ASSUME NEW calls \in [Callers -> CallRecord], NEW c \in Callers, NEW v \in CallRecord,
           OwnerTypeOK, \A d \in Callers : SameCall(call[d], calls[d]),
           call' = [calls EXCEPT ![c] = v]
    PROVE  CallsKept(c) /\ call'[c] = v /\ \A d \in Callers : d # c => call'[d] = calls[d]
  <1>1. call' \in [Callers -> CallRecord] /\ call'[c] = v
        /\ \A d \in Callers : d # c => call'[d] = calls[d]
    BY OneIsSet
  <1> QED BY <1>1 DEF CallsKept

LEMMA SameCallAgain ==
    ASSUME OwnerTypeOK PROVE \A c \in Callers : SameCall(call[c], call[c])
  BY DEF SameCall

LEMMA WordsKept ==
    ASSUME OwnerTypeOK, WordsFollow, NEW c \in Callers, CallsKept(c), UNCHANGED lastWord,
           \A h \in Handles : handle'[h].enabled => handle[h].enabled,
           c \notin Executions /\ call'[c].kind = "activate" /\ call'[c].current =>
               call[c].kind = "activate" /\ call[c].current
    PROVE  WordsFollow'
  BY DEF WordsFollow, CallsKept, SameCall

\* A handle is told to stop: none of its calls counts any more.
LEMMA WordsStop ==
    ASSUME OwnerTypeOK, WordsFollow, NEW c \in Callers, NEW h \in Handles, CallsKept(c),
           lastWord' = [lastWord EXCEPT ![h] = "stop"],
           \A k \in Handles : handle'[k].enabled => k # h /\ handle[k].enabled,
           \A d \in Callers : d # c /\ HandleOf(d) = h => ~call'[d].current,
           c \notin Executions => ~(call'[c].kind = "activate" /\ call'[c].current)
    PROVE  WordsFollow' /\ lastWord' \in [Handles -> {"go", "stop"}]
  <1>1. /\ lastWord' \in [Handles -> {"go", "stop"}]
        /\ \A k \in Handles : k # h => lastWord'[k] = lastWord[k]
    BY OwnerTypes
  <1>2. \A k \in Handles : handle'[k].enabled => lastWord'[k] = "go"
    BY <1>1 DEF WordsFollow
  <1>3. ASSUME NEW d \in Callers \ Executions, call'[d].kind = "activate", call'[d].current
        PROVE  lastWord'[d[1]] = "go"
    <2>1. d # c /\ call[d].kind = "activate" /\ call[d].current
      BY <1>3 DEF CallsKept, SameCall
    <2>2. d[1] # h
      BY <1>3, <2>1 DEF HandleOf
    <2>3. d[1] \in Handles
      BY DEF Callers
    <2> QED BY <1>1, <2>1, <2>2, <2>3 DEF WordsFollow
  <1> QED BY <1>1, <1>2, <1>3 DEF WordsFollow

\* What a step of the owner leaves for everybody.
OwnerSound(c) == OwnerTypeOK' /\ WordsFollow' /\ CallsKept(c)

LEMMA EndIs ==
    ASSUME OwnerTypeOK, WordsFollow, NEW c \in Callers, NEW o \in Outcomes, End(c, o),
           UNCHANGED <<disk, port>>, Event \/ UNCHANGED spent
    PROVE  OwnerSound(c) /\ call'[c] = Ended(c, o)
  <1>1. /\ call' = [call EXCEPT ![c] = Ended(c, o)] /\ UNCHANGED <<handle, token, lastWord>>
        /\ Ended(c, o) \in CallRecord /\ Ended(c, o).kind = "none"
    BY EndedIs DEF End
  <1>2. CallsKept(c) /\ call'[c] = Ended(c, o)
    BY <1>1, OwnerTypes, SameCallAgain, CallIsSet
  <1>3. spent' \in 0..MaxEvents
    BY SpentIs
  <1>4. call' \in [Callers -> CallRecord]
    BY <1>2 DEF CallsKept
  <1>5. OwnerTypeOK'
    BY <1>1, <1>3, <1>4, OwnerTypes, OwnerTypesAgain
  <1>6. WordsFollow'
    BY <1>1, <1>2, WordsKept
  <1> QED BY <1>2, <1>5, <1>6 DEF OwnerSound

LEMMA EndUnknownIs ==
    ASSUME OwnerTypeOK, WordsFollow, NEW c \in Callers, HandleOf(c) \in Handles, EndUnknown(c),
           UNCHANGED <<disk, port>>
    PROVE  OwnerSound(c) /\ call'[c] = Ended(c, "outcome-unknown")
  <1>1. PICK h \in Handles : h = HandleOf(c)
    OBVIOUS
  <1>2. /\ Event /\ handle' = [handle EXCEPT ![h].unknown = TRUE, ![h].enabled = FALSE]
        /\ call' = [Stale(h) EXCEPT ![c] = Ended(c, "outcome-unknown")]
        /\ token' = Burnt(h) /\ UNCHANGED lastWord
    BY <1>1 DEF EndUnknown
  <1>3. "outcome-unknown" \in Outcomes
    BY DEF Outcomes
  <1>4. Ended(c, "outcome-unknown") \in CallRecord /\ Ended(c, "outcome-unknown").kind = "none"
    BY <1>3, EndedIs
  <1>5. CallsKept(c) /\ call'[c] = Ended(c, "outcome-unknown")
    BY <1>2, <1>4, StaleIs, CallIsSet
  <1>6. /\ handle' \in [Handles -> HandleRecord]
        /\ \A k \in Handles : handle'[k].enabled => handle[k].enabled
    <2>1. PICK yes \in BOOLEAN, no \in BOOLEAN : yes = TRUE /\ no = FALSE
      OBVIOUS
    <2>2. PICK r \in HandleRecord : r = handle[h]
      BY OwnerTypes
    <2>3. PICK s : s = [r EXCEPT !.unknown = yes, !.enabled = no]
      OBVIOUS
    <2>4. s \in HandleRecord /\ s.enabled = no
      BY <2>3 DEF HandleRecord
    <2>5. handle' = [handle EXCEPT ![h] = s]
      BY <1>2, <2>1, <2>2, <2>3
    <2>6. /\ handle' \in [Handles -> HandleRecord] /\ handle'[h] = s
          /\ \A k \in Handles : k # h => handle'[k] = handle[k]
      BY <2>4, <2>5, OwnerTypes, OneIsSet
    <2> QED BY <2>1, <2>4, <2>6
  <1>7. token' \in [Executions -> Inventory] /\ spent' \in 0..MaxEvents
    BY <1>2, BurntIs, SpentIs
  <1>8. call' \in [Callers -> CallRecord]
    BY <1>5 DEF CallsKept
  <1>9. OwnerTypeOK'
    BY <1>2, <1>6, <1>7, <1>8, OwnerTypes, OwnerTypesAgain
  <1>10. WordsFollow'
    BY <1>2, <1>4, <1>5, <1>6, WordsKept
  <1> QED BY <1>5, <1>9, <1>10 DEF OwnerSound

\* How a call goes on: it ends without effect, or as committed; it has read; it has stored.
CallFails(c) ==
    /\ disk' = disk
    /\ \E o \in {"failed", "outcome-unknown"} :
        /\ call'[c] = Ended(c, o)
        /\ o = "failed" /\ call[c].at = "ended" => call[c].kind \in {"claim", "consume"}
CallCommits(c) ==
    /\ disk' = disk /\ call'[c] = Ended(c, "committed") /\ call[c].at = "ended"
    /\ call[c].kind \in {"claim", "consume"} => DispatchReady(c)
CallReads(c) ==
    /\ disk' = disk /\ call[c].at = "read" /\ call'[c].at = "ready"
    /\ call'[c].kind = call[c].kind /\ (c \in Executions => call'[c].item = call[c].item)
    /\ Admits(call'[c].kind, call'[c].item, call'[c].base)
CallStores(c) ==
    /\ call[c].at = "ready" /\ call'[c].at = "ended"
    /\ call'[c].kind = call[c].kind /\ call'[c].item = call[c].item
    /\ \/ disk' = disk /\ call[c].kind = "consume"
       \/ Good(call[c].kind, call[c].item, disk, disk')
CallGoes(c) ==
    /\ UNCHANGED port /\ OwnerSound(c)
    /\ CallFails(c) \/ CallCommits(c) \/ CallReads(c) \/ CallStores(c)

LEMMA InvParts ==
    ASSUME BInv
    PROVE  /\ OwnerTypeOK /\ WordsFollow /\ Grown(disk) /\ Admissible(disk) /\ ClaimsDiffer
           /\ run \in [Executions -> Run]
           /\ \A c \in Callers : Prepared(c)
           /\ \A x \in Executions : OwnCall(x) /\ InOrder(x) /\ IsStored(x)
  BY DEF BInv, TypeOK, RunSound

\* Whoever makes a call has a handle, and an operator's call is not of a port.
LEMMA CallerIs ==
    ASSUME BInv, NEW c \in Callers, call[c].at # "idle"
    PROVE  /\ HandleOf(c) \in Handles /\ call[c].kind # "none"
           /\ c \in Executions => call[c].kind \in PortKinds /\ call[c].kind = run[c].at
           /\ c \notin Executions => HandleOf(c) = c[1] /\ call[c].kind \notin PortKinds
  <1>1. call[c].kind # "none" /\ (c \notin Executions => call[c].kind \notin PortKinds)
    BY InvParts DEF Prepared
  <1>2. CASE c \in Executions
    <2>1. call[c].kind \in PortKinds /\ call[c].kind = run[c].at /\ HandleOf(c) = port[c].handle
      BY <1>1, <1>2, InvParts DEF OwnCall, HandleOf
    <2>2. run[c].at \notin {"none", "done", "lost"}
      BY <2>1 DEF PortKinds
    <2> QED BY <1>1, <1>2, <2>1, <2>2, InvParts DEF OwnCall
  <1>3. CASE c \notin Executions
    BY <1>1, <1>3 DEF HandleOf, Callers
  <1> QED BY <1>2, <1>3

LEMMA ReadIs ==
    ASSUME BInv, NEW c \in Callers, Read(c) PROVE CallGoes(c)
  <1>1. call[c].at = "read" /\ UNCHANGED <<disk, port>>
    BY DEF Read
  <1>2. HandleOf(c) \in Handles
    BY <1>1, CallerIs
  <1>3. OwnerTypeOK /\ WordsFollow
    BY InvParts
  <1>4. CASE EndUnknown(c)
    <2>1. OwnerSound(c) /\ call'[c] = Ended(c, "outcome-unknown")
      BY <1>1, <1>2, <1>3, <1>4, EndUnknownIs
    <2>2. CallFails(c)
      BY <1>1, <2>1 DEF CallFails
    <2> QED BY <1>1, <2>1, <2>2 DEF CallGoes
  <1>5. CASE End(c, "failed") /\ UNCHANGED spent
    <2>1. "failed" \in Outcomes
      BY DEF Outcomes
    <2>2. OwnerSound(c) /\ call'[c] = Ended(c, "failed")
      BY <1>1, <1>3, <1>5, <2>1, EndIs
    <2>3. CallFails(c)
      BY <1>1, <2>2 DEF CallFails
    <2> QED BY <1>1, <2>2, <2>3 DEF CallGoes
  <1>6. ASSUME NEW i \in Items, c \in Executions => i = call[c].item,
               Admits(call[c].kind, i, disk),
               call' = [call EXCEPT ![c].at = "ready", ![c].base = disk, ![c].item = i],
               UNCHANGED <<handle, token, lastWord, spent>>
        PROVE  CallGoes(c)
    <2>1. PICK r \in CallRecord : r = call[c]
      BY <1>3, OwnerTypes
    <2>2. PICK s : s = [r EXCEPT !.at = "ready", !.base = disk, !.item = i]
      OBVIOUS
    <2>3. disk \in Inventory
      BY <1>3, OwnerTypes
    <2>4. /\ s \in CallRecord /\ s.at = "ready" /\ s.base = disk /\ s.item = i
          /\ s.kind = r.kind /\ s.current = r.current
      BY <2>2, <2>3 DEF CallRecord
    <2>5. call' = [call EXCEPT ![c] = s]
      BY <1>6, <2>1, <2>2
    <2>6. CallsKept(c) /\ call'[c] = s
      BY <1>3, <2>4, <2>5, OwnerTypes, SameCallAgain, CallIsSet
    <2>7. call' \in [Callers -> CallRecord]
      BY <2>6 DEF CallsKept
    <2>8. spent' \in 0..MaxEvents
      BY <1>3, <1>6, SpentIs
    <2>9. OwnerTypeOK'
      BY <1>1, <1>3, <1>6, <2>7, <2>8, OwnerTypes, OwnerTypesAgain
    <2>10. WordsFollow'
      BY <1>3, <1>6, <2>1, <2>4, <2>6, WordsKept
    <2>11. CallReads(c)
      BY <1>1, <1>6, <2>1, <2>4, <2>6 DEF CallReads
    <2> QED BY <1>1, <2>6, <2>9, <2>10, <2>11 DEF CallGoes, OwnerSound
  <1>7. call[c].item \in Items /\ InPhase(disk, {"untouched"}) \subseteq Items
    BY <1>3, OwnerTypes DEF InPhase
  <1>8. c \in Executions => call[c].kind # "reserve"
    BY <1>1, CallerIs DEF PortKinds
  <1>9. \/ EndUnknown(c)
        \/ End(c, "failed") /\ UNCHANGED spent
        \/ \E i \in Items :
              /\ c \in Executions => i = call[c].item
              /\ Admits(call[c].kind, i, disk)
              /\ call' = [call EXCEPT ![c].at = "ready", ![c].base = disk, ![c].item = i]
              /\ UNCHANGED <<handle, token, lastWord, spent>>
    BY <1>7, <1>8 DEF Read
  <1> QED BY <1>4, <1>5, <1>6, <1>9

LEMMA TransactIs ==
    ASSUME BInv, NEW c \in Callers, Transact(c) PROVE CallGoes(c)
  <1>1. call[c].at = "ready" /\ UNCHANGED port
    BY DEF Transact
  <1>2. HandleOf(c) \in Handles /\ call[c].kind # "none"
    BY <1>1, CallerIs
  <1>3. OwnerTypeOK /\ WordsFollow /\ Grown(disk) /\ Prepared(c)
    BY InvParts
  <1>4. CASE EndUnknown(c) /\ UNCHANGED disk
    <2>1. OwnerSound(c) /\ call'[c] = Ended(c, "outcome-unknown")
      BY <1>1, <1>2, <1>3, <1>4, EndUnknownIs
    <2>2. CallFails(c)
      BY <1>4, <2>1 DEF CallFails
    <2> QED BY <1>1, <2>1, <2>2 DEF CallGoes
  <1>5. CASE End(c, "failed") /\ UNCHANGED disk /\ (Event \/ UNCHANGED spent)
    <2>1. "failed" \in Outcomes
      BY DEF Outcomes
    <2>2. OwnerSound(c) /\ call'[c] = Ended(c, "failed")
      BY <1>1, <1>3, <1>5, <2>1, EndIs
    <2>3. CallFails(c)
      BY <1>1, <1>5, <2>2 DEF CallFails
    <2> QED BY <1>1, <2>2, <2>3 DEF CallGoes
  <1>6. CASE /\ disk = call[c].base /\ disk' = After(call[c].kind, call[c].item, call[c].base)
             /\ call' = [call EXCEPT ![c].at = "ended",
                            ![c].base = IF call[c].kind = "claim" THEN disk' ELSE NothingStored]
             /\ UNCHANGED <<handle, token, lastWord, spent>>
    <2>1. PICK r \in CallRecord : r = call[c]
      BY <1>3, OwnerTypes
    <2>2. PICK kind \in Kinds, i \in Items : kind = r.kind /\ i = r.item
      BY DEF CallRecord
    <2>3. disk \in Inventory /\ Admits(kind, i, disk)
      BY <1>1, <1>3, <1>6, <2>1, <2>2, OwnerTypes DEF Prepared
    <2>4. \/ disk' = disk /\ kind = "consume"
          \/ Good(kind, i, disk, disk')
      <3>1. CASE kind = "consume"
        BY <1>6, <2>1, <2>2, <3>1 DEF After
      <3>2. CASE kind # "consume"
        <4>1. kind \in Writes
          BY <1>2, <2>1, <2>2, <3>2 DEF Kinds, Writes, PlanKinds, PortKinds
        <4>2. kind = "reserve" => Phase(disk, i) = "untouched"
          BY <2>3, AdmitsParts DEF Allows, Candidates, InPhase, Phase
        <4>3. disk' = After(kind, i, disk)
          BY <1>6, <2>1, <2>2
        <4> QED BY <1>3, <2>3, <4>1, <4>2, <4>3, AfterIsGood
      <3> QED BY <3>1, <3>2
    <2>5. disk' \in Inventory
      BY <2>3, <2>4 DEF Good
    <2>6. PICK b \in Inventory : b = IF kind = "claim" THEN disk' ELSE NothingStored
      BY <2>5, NothingIsInventory
    <2>7. PICK s : s = [r EXCEPT !.at = "ended", !.base = b]
      OBVIOUS
    <2>8. /\ s \in CallRecord /\ s.at = "ended" /\ s.item = i /\ s.kind = kind
          /\ s.current = r.current
      BY <2>2, <2>7 DEF CallRecord
    <2>9. call' = [call EXCEPT ![c] = s]
      BY <1>6, <2>1, <2>2, <2>6, <2>7
    <2>10. CallsKept(c) /\ call'[c] = s
      BY <1>3, <2>8, <2>9, OwnerTypes, SameCallAgain, CallIsSet
    <2>11. call' \in [Callers -> CallRecord]
      BY <2>10 DEF CallsKept
    <2>12. spent' \in 0..MaxEvents
      BY <1>3, <1>6, SpentIs
    <2>13. OwnerTypeOK'
      BY <1>1, <1>3, <1>6, <2>5, <2>11, <2>12, OwnerTypes, OwnerTypesAgain
    <2>14. WordsFollow'
      BY <1>3, <1>6, <2>1, <2>2, <2>8, <2>10, WordsKept
    <2>15. CallStores(c)
      BY <1>1, <2>1, <2>2, <2>4, <2>8, <2>10 DEF CallStores
    <2> QED BY <1>1, <2>10, <2>13, <2>14, <2>15 DEF CallGoes, OwnerSound
  <1> QED BY <1>4, <1>5, <1>6 DEF Transact, StoresAsRead

LEMMA ReportIs ==
    ASSUME BInv, NEW c \in Callers, Report(c) PROVE CallGoes(c)
  <1>1. call[c].at = "ended" /\ UNCHANGED <<disk, port>>
    BY DEF Report
  <1>2. HandleOf(c) \in Handles /\ call[c].kind # "none"
    BY <1>1, CallerIs
  <1>3. OwnerTypeOK /\ WordsFollow
    BY InvParts
  <1>4. CASE EndUnknown(c)
    <2>1. OwnerSound(c) /\ call'[c] = Ended(c, "outcome-unknown")
      BY <1>1, <1>2, <1>3, <1>4, EndUnknownIs
    <2>2. CallFails(c)
      BY <1>1, <2>1 DEF CallFails
    <2> QED BY <1>1, <2>1, <2>2 DEF CallGoes
  <1>5. CASE ~EndUnknown(c)
    <2> DEFINE dispatched == call[c].kind \in {"claim", "consume"} => DispatchReady(c)
               live == handle[HandleOf(c)].open /\ OfThisSession(c)
    <2>1. PICK h \in Handles, kind \in Kinds : h = HandleOf(c) /\ kind = call[c].kind
      BY <1>2, <1>3, OwnerTypes
    <2>2. PICK o \in {"committed", "failed"} : o = IF dispatched THEN "committed" ELSE "failed"
      OBVIOUS
    <2>3. o \in Outcomes
      BY DEF Outcomes
    <2>4. PICK recovered \in BOOLEAN, enabled \in BOOLEAN :
              /\ recovered <=> \/ handle[h].recovered \/ (kind = "create" /\ handle[h].open)
                               \/ (kind = "recover" /\ live)
              /\ enabled <=> handle[h].enabled \/ (kind = "activate" /\ live)
      OBVIOUS
    <2>5. PICK r \in HandleRecord : r = handle[h]
      BY <1>3, OwnerTypes
    <2>6. PICK s : s = [r EXCEPT !.recovered = recovered, !.enabled = enabled]
      OBVIOUS
    <2>7. s \in HandleRecord /\ s.enabled = enabled
      BY <2>6 DEF HandleRecord
    <2>8. /\ call' = [call EXCEPT ![c] = Ended(c, o)] /\ UNCHANGED <<lastWord, spent>>
          /\ token' = IF kind = "claim" /\ dispatched THEN [token EXCEPT ![c] = call[c].base]
                      ELSE token
      BY <1>5, <2>1, <2>2 DEF Report
    <2>9. handle' = [handle EXCEPT ![h] = s]
      <3>1. /\ recovered = (\/ r.recovered \/ (kind = "create" /\ r.open)
                            \/ (kind = "recover" /\ live))
            /\ enabled = (r.enabled \/ (kind = "activate" /\ live))
        BY <2>4, <2>5
      <3>2. handle' = [handle EXCEPT
                          ![h].recovered = @ \/ (kind = "create" /\ handle[h].open)
                                             \/ (kind = "recover" /\ live),
                          ![h].enabled = @ \/ (kind = "activate" /\ live)]
        BY <1>5, <2>1 DEF Report
      <3> HIDE DEF live
      <3> QED BY <2>5, <2>6, <3>1, <3>2
    <2>10. Ended(c, o) \in CallRecord /\ Ended(c, o).kind = "none"
      BY <2>3, EndedIs
    <2>11. CallsKept(c) /\ call'[c] = Ended(c, o)
      BY <1>3, <2>8, <2>10, OwnerTypes, SameCallAgain, CallIsSet
    <2>12. /\ handle' \in [Handles -> HandleRecord] /\ handle'[h] = s
           /\ \A k \in Handles : k # h => handle'[k] = handle[k]
      BY <1>3, <2>7, <2>9, OwnerTypes, OneIsSet
    <2>13. call' \in [Callers -> CallRecord]
      BY <2>11 DEF CallsKept
    <2>14. spent' \in 0..MaxEvents
      BY <1>3, <2>8, SpentIs
    <2>15. token' \in [Executions -> Inventory]
      BY <1>3, <2>8, OwnerTypes
    <2>16. OwnerTypeOK'
      BY <1>1, <1>3, <2>8, <2>12, <2>13, <2>14, <2>15, OwnerTypes, OwnerTypesAgain
    <2>17. \A k \in Handles : handle'[k].enabled => lastWord[k] = "go"
      <3>1. enabled => lastWord[h] = "go"
        <4>1. kind = "activate" /\ live => c \notin Executions /\ h = c[1] /\ call[c].current
          BY <1>1, <2>1, CallerIs DEF PortKinds, OfThisSession
        <4> QED BY <1>3, <2>1, <2>4, <4>1 DEF WordsFollow
      <3> QED BY <1>3, <2>7, <2>12, <3>1 DEF WordsFollow
    <2>18. \A d \in Callers \ Executions :
              call'[d].kind = "activate" /\ call'[d].current =>
                  call[d].kind = "activate" /\ call[d].current
      BY <2>10, <2>11 DEF CallsKept, SameCall
    <2>19. WordsFollow'
      BY <1>3, <2>8, <2>17, <2>18 DEF WordsFollow
    <2>20. CallFails(c) \/ CallCommits(c)
      BY <1>1, <2>1, <2>2, <2>11 DEF CallFails, CallCommits
    <2> QED BY <1>1, <2>11, <2>16, <2>19, <2>20 DEF CallGoes, OwnerSound
  <1> QED BY <1>4, <1>5

LEMMA CallStepIs ==
    ASSUME BInv, NEW c \in Callers, CallStep(c) PROVE CallGoes(c)
  BY ReadIs, TransactIs, ReportIs DEF CallStep

Ports == [Executions -> [handle : Handles \cup {NoHandle}, item : Items]]

\* A call is made, and nothing is told to stop.
LEMMA SetIsSound ==
    ASSUME OwnerTypeOK, WordsFollow, NEW c \in Callers, NEW v \in CallRecord,
           call' = [call EXCEPT ![c] = v], UNCHANGED <<disk, handle, lastWord>>,
           token' \in [Executions -> Inventory], port' \in Ports, Event \/ UNCHANGED spent,
           c \in Executions \/ v.kind # "activate"
    PROVE  OwnerSound(c) /\ call'[c] = v
  <1>1. CallsKept(c) /\ call'[c] = v
    BY OwnerTypes, SameCallAgain, CallIsSet
  <1>2. call' \in [Callers -> CallRecord] /\ spent' \in 0..MaxEvents
    BY <1>1, SpentIs DEF CallsKept
  <1>3. OwnerTypeOK'
    BY <1>2, OwnerTypes, OwnerTypesAgain DEF Ports
  <1>4. WordsFollow'
    BY <1>1, WordsKept
  <1> QED BY <1>1, <1>3, <1>4 DEF OwnerSound

\* One field of a handle is set.
LEMMA HandleStops ==
    ASSUME OwnerTypeOK, NEW h \in Handles, NEW s \in HandleRecord, ~s.enabled,
           handle' = [handle EXCEPT ![h] = s]
    PROVE  /\ handle' \in [Handles -> HandleRecord]
           /\ \A k \in Handles : handle'[k].enabled => k # h /\ handle[k].enabled
  BY OwnerTypes, OneIsSet

\* A handle is told to stop, and perhaps a call is made.
LEMMA StopIsSound ==
    ASSUME OwnerTypeOK, WordsFollow, NEW c \in Callers, NEW h \in Handles,
           CallsKept(c), \A d \in Callers : d # c /\ HandleOf(d) = h => ~call'[d].current,
           NEW s \in HandleRecord, ~s.enabled, handle' = [handle EXCEPT ![h] = s],
           token' = Burnt(h), lastWord' = [lastWord EXCEPT ![h] = "stop"],
           UNCHANGED disk, port' \in Ports, Event \/ UNCHANGED spent,
           c \notin Executions => ~(call'[c].kind = "activate" /\ call'[c].current)
    PROVE  OwnerSound(c)
  <1>1. /\ handle' \in [Handles -> HandleRecord]
        /\ \A k \in Handles : handle'[k].enabled => k # h /\ handle[k].enabled
    BY HandleStops
  <1>2. WordsFollow' /\ lastWord' \in [Handles -> {"go", "stop"}]
    BY <1>1, WordsStop
  <1>3. /\ call' \in [Callers -> CallRecord] /\ spent' \in 0..MaxEvents
        /\ token' \in [Executions -> Inventory]
    BY SpentIs, BurntIs DEF CallsKept
  <1>4. OwnerTypeOK'
    BY <1>1, <1>2, <1>3, OwnerTypes, OwnerTypesAgain DEF Ports
  <1> QED BY <1>2, <1>4 DEF OwnerSound

LEMMA StaleCall ==
    ASSUME OwnerTypeOK, NEW c \in Callers, NEW h, NEW v \in CallRecord,
           call' = [Stale(h) EXCEPT ![c] = v]
    PROVE  /\ CallsKept(c) /\ call'[c] = v
           /\ \A d \in Callers : d # c /\ HandleOf(d) = h => ~call'[d].current
  BY StaleIs, CallIsSet

\* A port's call is made, or it fails at once.
Asks(x, i, kind) == call'[x].kind = kind /\ call'[x].at = "read" /\ call'[x].item = i
Refuses(x) == call'[x] = Ended(x, "failed")

LEMMA PortCallIs ==
    ASSUME OwnerTypeOK, WordsFollow, NEW x \in Executions, NEW h \in Handles, NEW i \in Items,
           NEW kind \in PortKinds, NEW revision \in 0..MaxRevision, port' \in Ports,
           PortCall(x, h, i, kind, revision)
    PROVE  OwnerSound(x) /\ disk' = disk /\ (Asks(x, i, kind) \/ Refuses(x))
  <1>1. x \in Callers /\ kind \in Kinds /\ "failed" \in Outcomes /\ UNCHANGED disk
    BY DEF Callers, Kinds, Outcomes, PortCall
  <1>2. PICK f \in CallRecord : f = Ended(x, "failed")
    BY <1>1, EndedIs
  <1>3. ASSUME NEW base \in Inventory
        PROVE  /\ Begun(kind, i, revision, base) \in CallRecord
               /\ Begun(kind, i, revision, base).kind = kind
               /\ Begun(kind, i, revision, base).at = "read"
               /\ Begun(kind, i, revision, base).item = i
    BY <1>1, BegunIs
  <1>4. NothingStored \in Inventory /\ token[x] \in Inventory
        /\ token \in [Executions -> Inventory]
    BY NothingIsInventory, OwnerTypes
  <1>5. ASSUME NEW v \in CallRecord, call' = [call EXCEPT ![x] = v], UNCHANGED <<handle, lastWord>>,
               token' \in [Executions -> Inventory], Event \/ UNCHANGED spent
        PROVE  OwnerSound(x) /\ call'[x] = v
    BY <1>1, <1>5, SetIsSound
  <1>6. ASSUME NEW v \in CallRecord, call' = [Stale(h) EXCEPT ![x] = v],
               handle' = [handle EXCEPT ![h].enabled = FALSE], token' = Burnt(h),
               lastWord' = [lastWord EXCEPT ![h] = "stop"], Event \/ UNCHANGED spent
        PROVE  OwnerSound(x) /\ call'[x] = v
    <2>1. PICK no \in BOOLEAN : no = FALSE
      OBVIOUS
    <2>2. PICK r \in HandleRecord : r = handle[h]
      BY OwnerTypes
    <2>3. PICK s : s = [r EXCEPT !.enabled = no]
      OBVIOUS
    <2>4. s \in HandleRecord /\ ~s.enabled
      BY <2>1, <2>3 DEF HandleRecord
    <2>5. handle' = [handle EXCEPT ![h] = s]
      BY <1>6, <2>1, <2>2, <2>3
    <2>6. /\ CallsKept(x) /\ call'[x] = v
          /\ \A d \in Callers : d # x /\ HandleOf(d) = h => ~call'[d].current
      BY <1>1, <1>6, StaleCall
    <2> QED BY <1>1, <1>6, <2>4, <2>5, <2>6, StopIsSound
  <1>7. CASE UNCHANGED <<handle, token, lastWord, spent>> /\
             call' = [call EXCEPT ![x] = Begun(kind, i, revision, NothingStored)]
    BY <1>1, <1>3, <1>4, <1>5, <1>7 DEF Asks
  <1>8. CASE End(x, "failed") /\ UNCHANGED spent
    BY <1>1, <1>2, <1>4, <1>5, <1>8 DEF End, Refuses
  <1>9. CASE /\ UNCHANGED <<handle, lastWord, spent>>
             /\ token' = [token EXCEPT ![x] = NoToken]
             /\ \/ call' = [call EXCEPT ![x] = Begun(kind, i, revision, token[x])]
                \/ call' = [call EXCEPT ![x] = Ended(x, "failed")]
    <2>1. token' \in [Executions -> Inventory]
      BY <1>4, <1>9 DEF NoToken
    <2>2. CASE call' = [call EXCEPT ![x] = Begun(kind, i, revision, token[x])]
      BY <1>1, <1>3, <1>4, <1>5, <1>9, <2>1, <2>2 DEF Asks
    <2>3. CASE call' = [call EXCEPT ![x] = Ended(x, "failed")]
      BY <1>1, <1>2, <1>5, <1>9, <2>1, <2>3 DEF Refuses
    <2> QED BY <1>9, <2>2, <2>3
  <1>10. CASE /\ UNCHANGED spent
              /\ call' = [Stale(h) EXCEPT ![x] = Begun(kind, i, revision, NothingStored)]
              /\ handle' = [handle EXCEPT ![h].enabled = FALSE] /\ token' = Burnt(h)
              /\ lastWord' = [lastWord EXCEPT ![h] = "stop"]
    BY <1>1, <1>3, <1>4, <1>6, <1>10 DEF Asks
  <1>11. CASE StopSession(h, x) /\ (Event \/ UNCHANGED spent)
    BY <1>1, <1>2, <1>6, <1>11 DEF StopSession, Refuses
  <1>12. \/ UNCHANGED <<handle, token, lastWord, spent>>
            /\ call' = [call EXCEPT ![x] = Begun(kind, i, revision, NothingStored)]
         \/ End(x, "failed") /\ UNCHANGED spent
         \/ /\ UNCHANGED <<handle, lastWord, spent>>
            /\ token' = [token EXCEPT ![x] = NoToken]
            /\ \/ call' = [call EXCEPT ![x] = Begun(kind, i, revision, token[x])]
               \/ call' = [call EXCEPT ![x] = Ended(x, "failed")]
         \/ /\ UNCHANGED spent
            /\ call' = [Stale(h) EXCEPT ![x] = Begun(kind, i, revision, NothingStored)]
            /\ handle' = [handle EXCEPT ![h].enabled = FALSE] /\ token' = Burnt(h)
            /\ lastWord' = [lastWord EXCEPT ![h] = "stop"]
         \/ StopSession(h, x) /\ (Event \/ UNCHANGED spent)
    BY DEF PortCall
  <1> QED BY <1>7, <1>8, <1>9, <1>10, <1>11, <1>12

-----------------------------------------------------------------------------
(* The steps of one caller, and everybody else.                            *)

RunKept(y) == run'[y] = run[y] /\ port'[y] = port[y]

DiskGoes(kind, i) == disk' = disk \/ Good(kind, i, disk, disk')

LEMMA PreparedKept ==
    ASSUME NEW c \in Callers, Prepared(c), SameCall(call[c], call'[c]) PROVE Prepared(c)'
  BY DEF Prepared, SameCall

LEMMA OwnedKept ==
    ASSUME NEW y \in Executions, RunKept(y), SameCall(call[y], call'[y])
    PROVE  /\ (Owned(y)' <=> Owned(y)) /\ (Claimed(y)' <=> Claimed(y))
           /\ \A kind \in PortKinds : CallEnded(y, kind)' <=> CallEnded(y, kind)
           /\ OwnCall(y) => OwnCall(y)'
           /\ InOrder(y) => InOrder(y)'
  <1>1. /\ run'[y] = run[y] /\ port'[y] = port[y] /\ call'[y].kind = call[y].kind
        /\ call'[y].at = call[y].at /\ call'[y].item = call[y].item
    BY DEF RunKept, SameCall
  <1>2. \A kind \in PortKinds : CallEnded(y, kind)' <=> CallEnded(y, kind)
    BY <1>1 DEF CallEnded
  <1>3. Claimed(y)' <=> Claimed(y)
    BY <1>1 DEF Claimed, CallEnded
  <1>4. Owned(y)' <=> Owned(y)
    BY <1>1, <1>3 DEF Owned
  <1>5. OwnCall(y) => OwnCall(y)'
    BY <1>1 DEF OwnCall
  <1>6. InOrder(y) => InOrder(y)'
    BY <1>1 DEF InOrder
  <1> QED BY <1>2, <1>3, <1>4, <1>5, <1>6

\* An execution that does nothing keeps what is stored for it.
LEMMA Bystander ==
    ASSUME BInv, NEW y \in Executions, RunKept(y), SameCall(call[y], call'[y]),
           NEW kind, NEW i \in Items, DiskGoes(kind, i),
           kind = "evidence" /\ i = port[y].item => ~Owned(y)
    PROVE  RunSound(y)'
  <1>1. OwnCall(y) /\ InOrder(y) /\ IsStored(y) /\ port[y].item \in Items
    BY InvParts, OwnerTypes
  <1>2. OwnCall(y)' /\ InOrder(y)'
    BY <1>1, OwnedKept
  <1>3. /\ (Owned(y)' <=> Owned(y)) /\ (Claimed(y)' <=> Claimed(y))
        /\ (CallEnded(y, "evidence")' <=> CallEnded(y, "evidence"))
        /\ (CallEnded(y, "mark")' <=> CallEnded(y, "mark"))
    BY OwnedKept DEF PortKinds
  <1>4. run'[y] = run[y] /\ port'[y] = port[y]
    BY DEF RunKept
  <1>5. IsStored(y)'
    <2>1. CASE disk' = disk
      BY <1>1, <1>3, <1>4, <2>1 DEF IsStored, Phase
    <2>2. CASE PhasesFollow(kind, i, disk, disk')
      <3> DEFINE k == port[y].item
      <3>1. Owned(y) => kind # "evidence" \/ k # i
        OBVIOUS
      <3>2. /\ Phase(disk, k) \notin {"untouched", "reserved"} =>
                Phase(disk', k) \notin {"untouched", "reserved"}
            /\ Phase(disk, k) = "unknown" => Phase(disk', k) \in {"unknown", "awaiting-resolution"}
            /\ Phase(disk, k) = "awaiting-resolution" => Phase(disk', k) = "awaiting-resolution"
            /\ Phase(disk', k) = "awaiting-resolution" =>
                Phase(disk, k) = "awaiting-resolution" \/ (kind = "evidence" /\ k = i)
        BY <1>1, <2>2 DEF PhasesFollow
      <3>3. Claimed(y) => Owned(y)
        BY DEF Owned
      <3> HIDE DEF k
      <3>4. /\ Owned(y) => Phase(disk', k) \notin {"untouched", "reserved"}
            /\ run[y].evidence = "committed" \/ CallEnded(y, "evidence") =>
                Phase(disk', k) = "awaiting-resolution"
            /\ Claimed(y) /\ run[y].evidence \in {"failed", "not-attempted"}
                  /\ ~CallEnded(y, "evidence") => Phase(disk', k) # "awaiting-resolution"
            /\ run[y].uncertainty = "committed" \/ CallEnded(y, "mark") =>
                Phase(disk', k) \in {"unknown", "awaiting-resolution"}
        BY <1>1, <3>1, <3>2, <3>3 DEF IsStored, k
      <3> QED BY <1>3, <1>4, <3>4 DEF IsStored, k
    <2> QED BY <2>1, <2>2 DEF DiskGoes, Good
  <1> QED BY <1>2, <1>5 DEF RunSound

\* A step of an execution.
LEMMA ExecutionStep ==
    ASSUME BInv, NEW x \in Executions, OwnerSound(x), run' \in [Executions -> Run],
           \A y \in Executions : y # x => RunKept(y), Prepared(x)', RunSound(x)',
           NEW kind, NEW i \in Items, DiskGoes(kind, i),
           kind = "evidence" => Owned(x) /\ port[x].item = i,
           Owned(x)' => \/ Owned(x) /\ port'[x].item = port[x].item
                        \/ Phase(disk, port'[x].item) = "reserved"
    PROVE  BInv'
  <1>1. TypeOK' /\ WordsFollow' /\ CallsKept(x)
    BY DEF OwnerSound, TypeOK
  <1>2. Grown(disk)' /\ Admissible(disk)'
    BY InvParts DEF DiskGoes, Good
  <1>3. \A y \in Executions : y # x => SameCall(call[y], call'[y])
    BY <1>1 DEF CallsKept, Callers
  <1>4. ASSUME NEW c \in Callers PROVE Prepared(c)'
    BY <1>1, InvParts, PreparedKept DEF CallsKept
  <1>5. ASSUME NEW y \in Executions, y # x PROVE RunSound(y)'
    <2>1. kind = "evidence" /\ i = port[y].item => ~Owned(y)
      BY <1>5, InvParts DEF ClaimsDiffer
    <2> QED BY <1>3, <1>5, <2>1, Bystander
  <1>6. ASSUME NEW y \in Executions, y # x, Owned(x)', Owned(y)', port'[x].item = port'[y].item
        PROVE  FALSE
    <2>1. Owned(y) /\ port'[y].item = port[y].item
      BY <1>3, <1>6, OwnedKept DEF RunKept
    <2>2. Phase(disk, port[y].item) \notin {"untouched", "reserved"}
      BY <2>1, InvParts DEF IsStored
    <2>3. Owned(x) /\ port'[x].item = port[x].item
      BY <1>6, <2>1, <2>2
    <2> QED BY <1>6, <2>1, <2>3, InvParts DEF ClaimsDiffer
  <1>7. ASSUME NEW y \in Executions, NEW z \in Executions, y # x, z # x, Owned(y)', Owned(z)',
               port'[y].item = port'[z].item
        PROVE  y = z
    <2>1. Owned(y) /\ Owned(z) /\ port'[y] = port[y] /\ port'[z] = port[z]
      BY <1>3, <1>7, OwnedKept DEF RunKept
    <2> QED BY <1>7, <2>1, InvParts DEF ClaimsDiffer
  <1>8. ClaimsDiffer'
    BY <1>6, <1>7 DEF ClaimsDiffer
  <1>9. \A y \in Executions : RunSound(y)'
    BY <1>5
  <1> QED BY <1>1, <1>2, <1>4, <1>8, <1>9 DEF BInv

\* A step of an operator.
LEMMA OperatorStep ==
    ASSUME BInv, NEW c \in Callers \ Executions, OwnerSound(c), UNCHANGED <<run, port>>,
           Prepared(c)', NEW kind, NEW i \in Items, DiskGoes(kind, i), kind # "evidence"
    PROVE  BInv'
  <1>1. TypeOK' /\ WordsFollow' /\ CallsKept(c)
    BY InvParts DEF OwnerSound, TypeOK
  <1>2. Grown(disk)' /\ Admissible(disk)'
    BY InvParts DEF DiskGoes, Good
  <1>3. \A y \in Executions : RunKept(y) /\ SameCall(call[y], call'[y])
    BY <1>1 DEF CallsKept, Callers, RunKept
  <1>4. ASSUME NEW d \in Callers PROVE Prepared(d)'
    BY <1>1, InvParts, PreparedKept DEF CallsKept
  <1>5. ASSUME NEW y \in Executions PROVE RunSound(y)'
    BY <1>3, Bystander
  <1>6. \A y \in Executions : Owned(y)' <=> Owned(y)
    BY <1>3, OwnedKept
  <1>7. ClaimsDiffer'
    BY <1>6, InvParts DEF ClaimsDiffer
  <1> QED BY <1>1, <1>2, <1>4, <1>5, <1>7 DEF BInv

-----------------------------------------------------------------------------
(* Executions.                                                             *)

\* What an execution keeps when it goes to another step.
Past(r, n) ==
    /\ n.claim = r.claim /\ n.consumption = r.consumption /\ n.evidence = r.evidence
    /\ n.uncertainty = r.uncertainty /\ (n.effect <=> r.effect)

LEMMA OverIs ==
    ASSUME NEW r \in Run PROVE Over(r) \in Run /\ Over(r).at = "done" /\ Past(r, Over(r))
  <1>1. PICK no \in BOOLEAN : no = FALSE
    OBVIOUS
  <1>2. PICK n : n = [r EXCEPT !.at = "done", !.staged = no, !.stopped = no, !.then = "end"]
    OBVIOUS
  <1>3. n = Over(r)
    BY <1>1, <1>2 DEF Over
  <1>4. n \in Run /\ n.at = "done" /\ Past(r, n)
    BY <1>2 DEF Run, Steps, Past
  <1> QED BY <1>3, <1>4

LEMMA MarkingIs ==
    ASSUME NEW r \in Run, NEW then \in {"end", "evidence"}
    PROVE  /\ Marking(r, then) \in Run /\ Marking(r, then).at = "mark"
           /\ Marking(r, then).then = then /\ Past(r, Marking(r, then))
  <1>1. PICK n : n = [r EXCEPT !.at = "mark", !.then = then]
    OBVIOUS
  <1>2. n \in Run /\ n.at = "mark" /\ n.then = then /\ Past(r, n)
    BY <1>1 DEF Run, Steps, Past
  <1> QED BY <1>1, <1>2 DEF Marking

Ends == {"committed", "failed", "outcome-unknown"}

LEMMA AfterClaimIs ==
    ASSUME NEW r \in Run, NEW o \in Ends, NEW n, n = AfterClaim(r, o)
    PROVE  /\ n \in Run /\ n.claim = o /\ n.consumption = r.consumption
           /\ n.evidence = r.evidence /\ n.uncertainty = r.uncertainty /\ (n.effect <=> r.effect)
           /\ o = "committed" => n.at \in {"mark", "capture"} /\ (n.at = "mark" => n.then = "end")
           /\ o # "committed" => n.at = "done"
  <1>1. PICK s : s = [r EXCEPT !.claim = o]
    OBVIOUS
  <1>2. /\ s \in Run /\ s.claim = o /\ s.consumption = r.consumption /\ s.evidence = r.evidence
        /\ s.uncertainty = r.uncertainty /\ (s.effect <=> r.effect)
    BY <1>1 DEF Run, Ends, Outcomes
  <1>3. CASE o # "committed"
    <2>1. n = Over(s)
      BY <1>1, <1>3 DEF AfterClaim
    <2> QED BY <1>2, <1>3, <2>1, OverIs DEF Past
  <1>4. CASE o = "committed" /\ r.stopped
    <2>1. n = Marking(s, "end")
      BY <1>1, <1>4 DEF AfterClaim
    <2> QED BY <1>2, <1>4, <2>1, MarkingIs DEF Past
  <1>5. CASE o = "committed" /\ ~r.stopped
    <2>1. n = [s EXCEPT !.at = "capture"]
      BY <1>1, <1>5 DEF AfterClaim
    <2>2. n \in Run /\ n.at = "capture" /\ Past(s, n)
      BY <1>2, <2>1 DEF Run, Steps, Past
    <2> QED BY <1>2, <1>5, <2>2 DEF Past
  <1> QED BY <1>3, <1>4, <1>5

LEMMA AfterConsumeIs ==
    ASSUME NEW r \in Run, NEW o \in Ends, NEW n, n = AfterConsume(r, o)
    PROVE  /\ n \in Run /\ n.claim = r.claim /\ n.consumption = o
           /\ n.evidence = r.evidence /\ n.uncertainty = r.uncertainty
           /\ n.at \in {"done", "mark", "request"} /\ (n.at = "mark" => n.then = "end")
           /\ n.at = "done" => o = "outcome-unknown"
           /\ r.effect => n.effect
           /\ n.effect => r.effect \/ (o = "committed" /\ ~r.stopped)
  <1>1. PICK s : s = [r EXCEPT !.consumption = o]
    OBVIOUS
  <1>2. /\ s \in Run /\ s.claim = r.claim /\ s.consumption = o /\ s.evidence = r.evidence
        /\ s.uncertainty = r.uncertainty /\ (s.effect <=> r.effect)
    BY <1>1 DEF Run, Ends, Outcomes
  <1>3. CASE o = "outcome-unknown"
    <2>1. n = Over(s)
      BY <1>1, <1>3 DEF AfterConsume
    <2> QED BY <1>2, <1>3, <2>1, OverIs DEF Past
  <1>4. CASE o # "outcome-unknown" /\ (o = "failed" \/ r.stopped)
    <2>1. n = Marking(s, "end")
      BY <1>1, <1>4 DEF AfterConsume
    <2> QED BY <1>2, <1>4, <2>1, MarkingIs DEF Past
  <1>5. CASE o = "committed" /\ ~r.stopped
    <2>1. PICK yes \in BOOLEAN : yes = TRUE
      OBVIOUS
    <2>2. n = [s EXCEPT !.at = "request", !.effect = yes]
      BY <1>1, <1>5, <2>1 DEF AfterConsume
    <2>3. /\ n \in Run /\ n.at = "request" /\ n.claim = s.claim /\ n.consumption = s.consumption
          /\ n.evidence = s.evidence /\ n.uncertainty = s.uncertainty /\ n.effect
      BY <1>2, <2>1, <2>2 DEF Run, Steps
    <2> QED BY <1>2, <1>5, <2>3
  <1> QED BY <1>3, <1>4, <1>5 DEF Ends

LEMMA AfterMarkIs ==
    ASSUME NEW r \in Run, NEW o \in Ends, NEW n, n = AfterMark(r, o)
    PROVE  /\ n \in Run /\ n.claim = r.claim /\ n.consumption = r.consumption
           /\ n.evidence = r.evidence /\ n.uncertainty = o /\ (n.effect <=> r.effect)
           /\ n.at \in {"done", "evidence"} /\ (n.at = "evidence" => r.then = "evidence")
  <1>1. PICK s : s = [r EXCEPT !.uncertainty = o]
    OBVIOUS
  <1>2. /\ s \in Run /\ s.claim = r.claim /\ s.consumption = r.consumption
        /\ s.evidence = r.evidence /\ s.uncertainty = o /\ (s.effect <=> r.effect)
    BY <1>1 DEF Run, Ends, Outcomes
  <1>3. CASE n = Over(s)
    BY <1>2, <1>3, OverIs DEF Past
  <1>4. CASE r.then = "evidence" /\ n = [s EXCEPT !.at = "evidence"]
    <2>1. n \in Run /\ n.at = "evidence" /\ Past(s, n)
      BY <1>2, <1>4 DEF Run, Steps, Past
    <2> QED BY <1>2, <1>4, <2>1 DEF Past
  <1> QED BY <1>1, <1>3, <1>4 DEF AfterMark

LEMMA AfterEvidenceIs ==
    ASSUME NEW r \in Run, NEW o \in Ends, NEW n, n = AfterEvidence(r, o)
    PROVE  /\ n \in Run /\ n.claim = r.claim /\ n.consumption = r.consumption
           /\ n.evidence = o /\ n.uncertainty = r.uncertainty /\ (n.effect <=> r.effect)
           /\ n.at \in {"done", "mark"} /\ (n.at = "mark" => n.then = "end")
  <1>1. PICK s : s = [r EXCEPT !.evidence = o]
    OBVIOUS
  <1>2. /\ s \in Run /\ s.claim = r.claim /\ s.consumption = r.consumption
        /\ s.evidence = o /\ s.uncertainty = r.uncertainty /\ (s.effect <=> r.effect)
    BY <1>1 DEF Run, Ends, Outcomes
  <1>3. CASE n = Over(s)
    BY <1>2, <1>3, OverIs DEF Past
  <1>4. CASE n = Marking(s, "end")
    BY <1>2, <1>4, MarkingIs DEF Past
  <1> QED BY <1>1, <1>3, <1>4 DEF AfterEvidence

LEMMA RunIsSet ==
    ASSUME BInv, NEW x \in Executions, NEW n \in Run, run' = [run EXCEPT ![x] = n]
    PROVE  /\ run' \in [Executions -> Run] /\ run'[x] = n
           /\ \A y \in Executions : y # x => run'[y] = run[y]
  BY InvParts, OneIsSet

\* A step that calls nothing.
LEMMA LocalStep ==
    ASSUME BInv, NEW x \in Executions, NEW n \in Run, run' = [run EXCEPT ![x] = n],
           UNCHANGED <<disk, handle, call, port, token, lastWord>>, Event \/ UNCHANGED spent,
           n.claim = run[x].claim, n.evidence = run[x].evidence,
           n.uncertainty = run[x].uncertainty, n.effect <=> run[x].effect,
           InOrder(x)', OwnCall(x)'
    PROVE  BInv'
  <1>1. /\ run' \in [Executions -> Run] /\ run'[x] = n
        /\ \A y \in Executions : y # x => RunKept(y)
    BY RunIsSet DEF RunKept
  <1>2. x \in Callers /\ 1 \in Items
    BY Limits DEF Callers
  <1>3. OwnerSound(x)
    <2>1. CallsKept(x) /\ call' \in [Callers -> CallRecord]
      BY InvParts, OwnerTypes DEF CallsKept, SameCall
    <2>2. spent' \in 0..MaxEvents
      BY InvParts, SpentIs
    <2>3. OwnerTypeOK'
      BY <2>1, <2>2, InvParts, OwnerTypes, OwnerTypesAgain
    <2>4. WordsFollow'
      BY InvParts DEF WordsFollow
    <2> QED BY <2>1, <2>3, <2>4 DEF OwnerSound
  <1>4. /\ (Owned(x)' <=> Owned(x)) /\ (Claimed(x)' <=> Claimed(x))
        /\ (CallEnded(x, "evidence")' <=> CallEnded(x, "evidence"))
        /\ (CallEnded(x, "mark")' <=> CallEnded(x, "mark"))
    BY <1>1 DEF Owned, Claimed, CallEnded
  <1>5. IsStored(x)'
    BY <1>1, <1>4, InvParts DEF IsStored, Phase
  <1>6. RunSound(x)'
    BY <1>5 DEF RunSound
  <1>7. Prepared(x)'
    BY <1>2, InvParts DEF Prepared
  <1>8. DiskGoes("none", 1)
    BY DEF DiskGoes
  <1> QED BY <1>1, <1>2, <1>3, <1>4, <1>6, <1>7, <1>8, ExecutionStep

-----------------------------------------------------------------------------
(* The steps of an execution.                                              *)

\* What is stored for an execution whose step has ended, by what it was.
LEMMA ContinueIs ==
    ASSUME BInv, NEW x \in Executions, NEW o \in Ends, call'[x] = Ended(x, o), disk' = disk,
           port' = port, run[x].at \in Awaiting, NEW n, n = Continued(run[x], o), run'[x] = n,
           o = "committed" => call[x].at = "ended",
           o = "failed" /\ call[x].at = "ended" => call[x].kind \in {"claim", "consume"}
    PROVE  /\ n \in Run /\ InOrder(x)' /\ IsStored(x)' /\ n.at # "none" /\ n.at # "lost"
           /\ Owned(x)' => Owned(x)
  <1>1. PICK r \in Run : r = run[x]
    BY InvParts
  <1>2. x \in Callers /\ o \in Outcomes
    BY DEF Callers, Ends, Outcomes
  <1>3. call'[x].kind = "none"
    BY <1>2, EndedIs
  <1>4. \A kind \in PortKinds : ~CallEnded(x, kind)'
    BY <1>3 DEF CallEnded, PortKinds
  <1>5. \A kind \in PortKinds : CallEnded(x, kind) <=> kind = r.at /\ call[x].at = "ended"
    BY <1>1, <1>2, InvParts DEF CallEnded, PortKinds, OwnCall, Prepared
  <1>6. "claim" \in PortKinds /\ "mark" \in PortKinds /\ "evidence" \in PortKinds
    BY DEF PortKinds
  <1>7. Claimed(x)' <=> n.claim = "committed"
    BY <1>4, <1>6 DEF Claimed
  <1>8. Claimed(x) <=> r.claim = "committed" \/ (r.at = "claim" /\ call[x].at = "ended")
    BY <1>1, <1>5, <1>6 DEF Claimed
  <1>9. /\ Owned(x)' <=> n.claim = "committed" \/ n.effect
        /\ Owned(x) <=>
            r.claim = "committed" \/ r.effect \/ (r.at = "claim" /\ call[x].at = "ended")
    BY <1>1, <1>7, <1>8 DEF Owned
  <1>10. call[x].at = "ended" => call[x].kind = r.at
    BY <1>1, <1>2, InvParts DEF OwnCall, Prepared
  <1> DEFINE phase == Phase(disk, port[x].item)
  <1>11. /\ Owned(x) => phase \notin {"untouched", "reserved"}
         /\ r.evidence = "committed" \/ CallEnded(x, "evidence") => phase = "awaiting-resolution"
         /\ Claimed(x) /\ r.evidence \in {"failed", "not-attempted"} /\ ~CallEnded(x, "evidence")
               => phase # "awaiting-resolution"
         /\ r.uncertainty = "committed" \/ CallEnded(x, "mark") =>
             phase \in {"unknown", "awaiting-resolution"}
    BY <1>1, InvParts DEF IsStored
  <1> HIDE DEF phase
  <1>12. ASSUME Owned(x)' => phase \notin {"untouched", "reserved"},
                n.evidence = "committed" => phase = "awaiting-resolution",
                Claimed(x)' /\ n.evidence \in {"failed", "not-attempted"} =>
                    phase # "awaiting-resolution",
                n.uncertainty = "committed" => phase \in {"unknown", "awaiting-resolution"}
         PROVE  IsStored(x)'
    BY <1>4, <1>6, <1>12 DEF IsStored, phase, Phase
  <1>13. InOrder(x)
    BY InvParts
  <1>14. CASE r.at = "claim"
    <2>1. n = AfterClaim(r, o)
      BY <1>1, <1>14 DEF Continued
    <2>2. /\ n \in Run /\ n.claim = o /\ n.consumption = r.consumption
          /\ n.evidence = r.evidence /\ n.uncertainty = r.uncertainty /\ (n.effect <=> r.effect)
          /\ o = "committed" => n.at \in {"mark", "capture"} /\ (n.at = "mark" => n.then = "end")
          /\ o # "committed" => n.at = "done"
      BY <2>1, AfterClaimIs
    <2>3. r.evidence = "not-attempted" /\ r.uncertainty = "not-attempted" /\ ~r.effect
      BY <1>1, <1>13, <1>14 DEF InOrder
    <2>4. InOrder(x)'
      BY <2>2, <2>3 DEF InOrder
    <2>5. IsStored(x)' /\ (Owned(x)' => Owned(x))
      BY <1>5, <1>6, <1>7, <1>8, <1>9, <1>11, <1>12, <1>14, <2>2, <2>3
    <2> QED BY <2>2, <2>4, <2>5
  <1>15. CASE r.at = "consume"
    <2>1. n = AfterConsume(r, o)
      BY <1>1, <1>15 DEF Continued
    <2>2. /\ n \in Run /\ n.claim = r.claim /\ n.consumption = o
          /\ n.evidence = r.evidence /\ n.uncertainty = r.uncertainty
          /\ n.at \in {"done", "mark", "request"} /\ (n.at = "mark" => n.then = "end")
          /\ n.at = "done" => o = "outcome-unknown"
      BY <2>1, AfterConsumeIs
    <2>3. r.claim = "committed" /\ r.evidence = "not-attempted"
      BY <1>1, <1>13, <1>15 DEF InOrder
    <2>4. InOrder(x)'
      BY <2>2, <2>3 DEF InOrder
    <2>5. IsStored(x)' /\ (Owned(x)' => Owned(x))
      BY <1>5, <1>6, <1>7, <1>8, <1>9, <1>11, <1>12, <1>15, <2>2, <2>3
    <2> QED BY <2>2, <2>4, <2>5
  <1>16. CASE r.at = "mark"
    <2>1. n = AfterMark(r, o)
      BY <1>1, <1>16 DEF Continued
    <2>2. /\ n \in Run /\ n.claim = r.claim /\ n.consumption = r.consumption
          /\ n.evidence = r.evidence /\ n.uncertainty = o /\ (n.effect <=> r.effect)
          /\ n.at \in {"done", "evidence"} /\ (n.at = "evidence" => r.then = "evidence")
      BY <2>1, AfterMarkIs
    <2>3. r.claim = "committed" /\ (r.then = "evidence" => r.evidence = "not-attempted")
      BY <1>1, <1>13, <1>16 DEF InOrder
    <2>4. InOrder(x)'
      BY <2>2, <2>3 DEF InOrder, Ends
    <2>5. IsStored(x)' /\ (Owned(x)' => Owned(x))
      BY <1>5, <1>6, <1>7, <1>8, <1>9, <1>11, <1>12, <1>16, <2>2, <2>3
    <2> QED BY <2>2, <2>4, <2>5
  <1>17. CASE r.at = "evidence"
    <2>1. n = AfterEvidence(r, o)
      BY <1>1, <1>17 DEF Continued
    <2>2. /\ n \in Run /\ n.claim = r.claim /\ n.consumption = r.consumption
          /\ n.evidence = o /\ n.uncertainty = r.uncertainty /\ (n.effect <=> r.effect)
          /\ n.at \in {"done", "mark"} /\ (n.at = "mark" => n.then = "end")
      BY <2>1, AfterEvidenceIs
    <2>3. r.claim = "committed" /\ r.evidence = "not-attempted"
      BY <1>1, <1>13, <1>17 DEF InOrder
    <2>4. InOrder(x)'
      BY <2>2, <2>3 DEF InOrder, Ends
    <2>5. o = "failed" => ~CallEnded(x, "evidence")
      BY <1>5, <1>6, <1>10, <1>17
    <2>6. IsStored(x)' /\ (Owned(x)' => Owned(x))
      BY <1>5, <1>6, <1>7, <1>8, <1>9, <1>11, <1>12, <1>17, <2>2, <2>3, <2>5 DEF Ends
    <2> QED BY <2>2, <2>4, <2>6
  <1> QED BY <1>1, <1>14, <1>15, <1>16, <1>17 DEF Awaiting

LEMMA ContinueHolds ==
    ASSUME BInv, NEW x \in Executions, NEW o \in Ends, call'[x] = Ended(x, o), disk' = disk,
           port' = port, run[x].at \in Awaiting, OwnerSound(x),
           run' = [run EXCEPT ![x] = Continued(run[x], o)],
           o = "committed" => call[x].at = "ended",
           o = "failed" /\ call[x].at = "ended" => call[x].kind \in {"claim", "consume"}
    PROVE  BInv'
  <1>1. PICK n : n = Continued(run[x], o)
    OBVIOUS
  <1>2. run'[x] = n
    BY <1>1, InvParts
  <1>3. /\ n \in Run /\ InOrder(x)' /\ IsStored(x)' /\ n.at # "none" /\ n.at # "lost"
        /\ Owned(x)' => Owned(x)
    BY <1>1, <1>2, ContinueIs
  <1>4. /\ run' \in [Executions -> Run]
        /\ \A y \in Executions : y # x => RunKept(y)
    BY <1>1, <1>3, RunIsSet DEF RunKept
  <1>5. x \in Callers /\ o \in Outcomes /\ 1 \in Items
    BY Limits DEF Callers, Ends, Outcomes
  <1>6. call'[x].kind = "none" /\ call'[x].at = "idle"
    BY <1>5, EndedIs
  <1>7. Prepared(x)'
    BY <1>6 DEF Prepared
  <1>8. port[x].handle \in Handles
    BY InvParts DEF OwnCall, Awaiting
  <1>9. OwnCall(x)'
    BY <1>6, <1>8 DEF OwnCall
  <1>10. RunSound(x)' /\ DiskGoes("none", 1)
    BY <1>3, <1>9 DEF RunSound, DiskGoes
  <1> QED BY <1>3, <1>4, <1>5, <1>7, <1>10, ExecutionStep

LEMMA ContinuedOnce ==
    ASSUME NEW x \in Executions, NEW o \in Ends, call'[x] = Ended(x, o), Continue(x)
    PROVE  run' = [run EXCEPT ![x] = Continued(run[x], o)]
  <1>1. o \in Outcomes
    BY DEF Ends, Outcomes
  <1>2. call'[x].kind = "none" /\ call'[x].outcome = o
    BY <1>1, EndedIs
  <1> QED BY <1>2 DEF Continue

\* What is stored for an execution whose call has stored.
LEMMA StoringIs ==
    ASSUME BInv, NEW x \in Executions, CallStores(x), RunKept(x)
    PROVE  /\ IsStored(x)'
           /\ Owned(x)' => Owned(x) \/ Phase(disk, port[x].item) = "reserved"
           /\ call[x].kind = "evidence" => Owned(x)
           /\ call[x].item = port[x].item
  <1>1. PICK r \in Run : r = run[x]
    BY InvParts
  <1>2. x \in Callers /\ call[x].at = "ready" /\ call'[x].at = "ended"
        /\ call'[x].kind = call[x].kind /\ run'[x] = r /\ port'[x] = port[x]
    BY <1>1 DEF CallStores, Callers, RunKept
  <1>3. call[x].kind \in PortKinds /\ call[x].kind = r.at
    BY <1>1, <1>2, CallerIs
  <1>4. PICK i \in Items : i = port[x].item
    BY InvParts, OwnerTypes
  <1>5. call[x].item = i
    BY <1>3, <1>4, InvParts DEF OwnCall, PortKinds
  <1>6. /\ InOrder(x) /\ (Owned(x) => Phase(disk, i) \notin {"untouched", "reserved"})
        /\ r.evidence = "committed" => Phase(disk, i) = "awaiting-resolution"
        /\ Claimed(x) /\ r.evidence \in {"failed", "not-attempted"} =>
              Phase(disk, i) # "awaiting-resolution"
        /\ r.uncertainty = "committed" => Phase(disk, i) \in {"unknown", "awaiting-resolution"}
    BY <1>1, <1>2, <1>4, InvParts DEF IsStored, CallEnded
  <1>7. /\ Claimed(x) <=> r.claim = "committed"
        /\ Claimed(x)' <=> r.claim = "committed" \/ r.at = "claim"
        /\ Owned(x) <=> r.claim = "committed" \/ r.effect
        /\ Owned(x)' <=> r.claim = "committed" \/ r.at = "claim" \/ r.effect
        /\ CallEnded(x, "evidence")' <=> r.at = "evidence"
        /\ CallEnded(x, "mark")' <=> r.at = "mark"
    BY <1>1, <1>2, <1>3 DEF Claimed, Owned, CallEnded
  <1>8. ASSUME Owned(x)' => Phase(disk', i) \notin {"untouched", "reserved"},
               r.evidence = "committed" \/ r.at = "evidence" =>
                   Phase(disk', i) = "awaiting-resolution",
               Claimed(x)' /\ r.evidence \in {"failed", "not-attempted"} /\ r.at # "evidence" =>
                   Phase(disk', i) # "awaiting-resolution",
               r.uncertainty = "committed" \/ r.at = "mark" =>
                   Phase(disk', i) \in {"unknown", "awaiting-resolution"}
        PROVE  IsStored(x)'
    BY <1>2, <1>4, <1>7, <1>8 DEF IsStored, Phase
  <1>9. CASE disk' = disk /\ r.at = "consume"
    BY <1>4, <1>5, <1>6, <1>7, <1>8, <1>9, <1>3
  <1>10. CASE Good(call[x].kind, i, disk, disk')
    <2>1. /\ PhasesFollow(r.at, i, disk, disk')
          /\ Phase(disk, i) \notin {"untouched", "reserved"} =>
              Phase(disk', i) \notin {"untouched", "reserved"}
          /\ Phase(disk, i) = "unknown" => Phase(disk', i) \in {"unknown", "awaiting-resolution"}
          /\ Phase(disk, i) = "awaiting-resolution" => Phase(disk', i) = "awaiting-resolution"
          /\ Phase(disk', i) = "awaiting-resolution" =>
              Phase(disk, i) = "awaiting-resolution" \/ r.at = "evidence"
          /\ r.at = "claim" => Phase(disk, i) = "reserved" /\ Phase(disk', i) = "in-flight"
          /\ r.at = "mark" => Phase(disk', i) = "unknown"
          /\ r.at = "evidence" => Phase(disk', i) = "awaiting-resolution"
      BY <1>3, <1>10 DEF Good, PhasesFollow
    <2>2. CASE r.at = "claim"
      <3>1. r.evidence = "not-attempted" /\ r.uncertainty = "not-attempted"
        BY <1>1, <1>6, <2>2 DEF InOrder
      <3> QED BY <1>3, <1>4, <1>5, <1>7, <1>8, <2>1, <2>2, <3>1
    <2>3. CASE r.at \in {"consume", "mark", "evidence"}
      <3>1. r.claim = "committed"
        BY <1>1, <1>6, <2>3 DEF InOrder
      <3> QED BY <1>3, <1>4, <1>5, <1>6, <1>7, <1>8, <2>1, <2>3, <3>1
    <2> QED BY <1>3, <2>2, <2>3 DEF PortKinds
  <1> QED BY <1>3, <1>5, <1>9, <1>10 DEF CallStores

LEMMA StoreStepHolds ==
    ASSUME BInv, NEW x \in Executions, StoreStep(x) PROVE BInv'
  <1>1. x \in Callers /\ run[x].at \in Awaiting /\ Continue(x) /\ CallGoes(x) /\ 1 \in Items
    BY CallStepIs, Limits DEF StoreStep, Callers
  <1>2. port' = port /\ OwnerSound(x)
    BY <1>1 DEF CallGoes
  <1>3. CASE CallFails(x)
    <2>1. PICK o \in {"failed", "outcome-unknown"} :
              /\ call'[x] = Ended(x, o)
              /\ o = "failed" /\ call[x].at = "ended" => call[x].kind \in {"claim", "consume"}
      BY <1>3 DEF CallFails
    <2>2. o \in Ends /\ disk' = disk
      BY <1>3 DEF Ends, CallFails
    <2>3. run' = [run EXCEPT ![x] = Continued(run[x], o)]
      BY <1>1, <2>1, <2>2, ContinuedOnce
    <2> QED BY <1>1, <1>2, <2>1, <2>2, <2>3, ContinueHolds
  <1>4. CASE CallCommits(x)
    <2>1. PICK o \in Ends : o = "committed"
      BY DEF Ends
    <2>2. call'[x] = Ended(x, o) /\ disk' = disk /\ call[x].at = "ended"
      BY <1>4, <2>1 DEF CallCommits
    <2>3. run' = [run EXCEPT ![x] = Continued(run[x], o)]
      BY <1>1, <2>2, ContinuedOnce
    <2> QED BY <1>1, <1>2, <2>1, <2>2, <2>3, ContinueHolds
  <1>5. ASSUME call[x].at # "idle", call'[x].kind = call[x].kind
        PROVE  /\ run' \in [Executions -> Run] /\ \A y \in Executions : RunKept(y)
               /\ call[x].kind # "none" /\ InOrder(x)'
    <2>1. call[x].kind # "none"
      BY <1>1, <1>5, CallerIs
    <2>2. run' = run
      BY <1>1, <1>5, <2>1 DEF Continue
    <2> QED BY <1>2, <2>1, <2>2, InvParts DEF RunKept, InOrder
  <1>6. CASE CallReads(x)
    <2>1. /\ disk' = disk /\ call[x].at = "read" /\ call'[x].at = "ready"
          /\ call'[x].kind = call[x].kind /\ call'[x].item = call[x].item
          /\ Admits(call'[x].kind, call'[x].item, call'[x].base)
      BY <1>6 DEF CallReads
    <2>2. /\ run' \in [Executions -> Run] /\ \A y \in Executions : RunKept(y)
          /\ call[x].kind # "none" /\ InOrder(x)'
      BY <1>5, <2>1
    <2>3. OwnCall(x)'
      BY <2>1, <2>2, InvParts DEF OwnCall, RunKept
    <2>4. \A kind \in PortKinds : ~CallEnded(x, kind) /\ ~CallEnded(x, kind)'
      BY <2>1 DEF CallEnded
    <2>5. (Claimed(x)' <=> Claimed(x)) /\ (Owned(x)' <=> Owned(x))
      BY <2>2, <2>4 DEF Claimed, Owned, RunKept, PortKinds
    <2>6. IsStored(x)'
      BY <2>1, <2>2, <2>4, <2>5, InvParts DEF IsStored, RunKept, PortKinds, Phase
    <2>7. Prepared(x)'
      BY <2>1, <2>2 DEF Prepared
    <2>8. RunSound(x)' /\ DiskGoes("none", 1)
      BY <2>1, <2>2, <2>3, <2>6 DEF RunSound, DiskGoes
    <2>9. port'[x].item = port[x].item
      BY <1>2
    <2> QED BY <1>1, <1>2, <2>2, <2>5, <2>7, <2>8, <2>9, ExecutionStep
  <1>7. CASE CallStores(x)
    <2>1. /\ call[x].at = "ready" /\ call'[x].at = "ended"
          /\ call'[x].kind = call[x].kind /\ call'[x].item = call[x].item
      BY <1>7 DEF CallStores
    <2>2. /\ run' \in [Executions -> Run] /\ \A y \in Executions : RunKept(y)
          /\ call[x].kind # "none" /\ InOrder(x)'
      BY <1>5, <2>1
    <2>3. OwnCall(x)'
      BY <2>1, <2>2, InvParts DEF OwnCall, RunKept
    <2>4. /\ IsStored(x)'
          /\ Owned(x)' => Owned(x) \/ Phase(disk, port[x].item) = "reserved"
          /\ call[x].kind = "evidence" => Owned(x)
          /\ call[x].item = port[x].item
      BY <1>7, <2>2, StoringIs
    <2>5. Prepared(x)'
      BY <2>1, <2>2 DEF Prepared
    <2>6. PICK kind \in Kinds, i \in Items : kind = call[x].kind /\ i = call[x].item
      BY <1>1, InvParts, OwnerTypes
    <2>7. DiskGoes(kind, i)
      BY <1>7, <2>6 DEF CallStores, DiskGoes
    <2>8. RunSound(x)'
      BY <2>2, <2>3, <2>4 DEF RunSound
    <2>9. port'[x].item = port[x].item
      BY <1>2
    <2>10. Owned(x)' => \/ Owned(x) /\ port'[x].item = port[x].item
                        \/ Phase(disk, port'[x].item) = "reserved"
      BY <2>4, <2>9
    <2>11. kind = "evidence" => Owned(x) /\ port[x].item = i
      BY <2>4, <2>6
    <2> QED BY <1>1, <1>2, <2>2, <2>5, <2>7, <2>8, <2>10, <2>11, ExecutionStep
  <1> QED BY <1>1, <1>3, <1>4, <1>6, <1>7 DEF CallGoes

\* A call of the execution's own port.
LEMMA BoundCallIs ==
    ASSUME BInv, NEW x \in Executions, run[x].at \notin {"none", "done", "lost"},
           NEW kind \in PortKinds, NEW revision \in 0..MaxRevision, BoundCall(x, kind, revision)
    PROVE  /\ OwnerSound(x) /\ disk' = disk /\ port' = port
           /\ Asks(x, port[x].item, kind) \/ Refuses(x)
  <1>1. PICK h \in Handles, i \in Items : h = port[x].handle /\ i = port[x].item
    BY InvParts, OwnerTypes DEF OwnCall
  <1>2. PortCall(x, h, i, kind, revision) /\ port' = port
    BY <1>1 DEF BoundCall
  <1>3. port' \in Ports /\ OwnerTypeOK /\ WordsFollow
    BY <1>2, InvParts, OwnerTypes DEF Ports
  <1> QED BY <1>1, <1>2, <1>3, PortCallIs

\* The execution has asked, and awaits the answer.
LEMMA AskedHolds ==
    ASSUME BInv, NEW x \in Executions, NEW kind \in PortKinds, Asks(x, port'[x].item, kind),
           OwnerSound(x), disk' = disk, NEW n \in Run, run' = [run EXCEPT ![x] = n],
           n.at = kind, port'[x].handle \in Handles,
           \A y \in Executions : y # x => port'[y] = port[y],
           n.claim = run[x].claim, n.evidence = run[x].evidence,
           n.uncertainty = run[x].uncertainty, n.effect <=> run[x].effect, call[x].kind = "none",
           InOrder(x)', Owned(x) => port'[x].item = port[x].item,
           ~Owned(x) => n.evidence # "committed" /\ n.uncertainty # "committed"
    PROVE  BInv'
  <1>1. /\ run' \in [Executions -> Run] /\ run'[x] = n
        /\ \A y \in Executions : y # x => RunKept(y)
    BY RunIsSet DEF RunKept
  <1>2. x \in Callers /\ 1 \in Items
    BY Limits DEF Callers
  <1>3. call'[x].kind = kind /\ call'[x].at = "read" /\ call'[x].item = port'[x].item
    BY DEF Asks
  <1>4. Prepared(x)' /\ OwnCall(x)'
    BY <1>1, <1>3 DEF Prepared, OwnCall, PortKinds
  <1>5. \A k \in PortKinds : ~CallEnded(x, k)' /\ ~CallEnded(x, k)
    BY <1>3 DEF CallEnded, PortKinds
  <1>6. (Claimed(x)' <=> Claimed(x)) /\ (Owned(x)' <=> Owned(x))
    BY <1>1, <1>5 DEF Claimed, Owned, PortKinds
  <1>7. IsStored(x)'
    <2>1. CASE Owned(x)
      BY <1>1, <1>5, <1>6, <2>1, InvParts DEF IsStored, PortKinds, Phase
    <2>2. CASE ~Owned(x)
      BY <1>1, <1>5, <1>6, <2>2 DEF IsStored, PortKinds, Owned
    <2> QED BY <2>1, <2>2
  <1>8. RunSound(x)' /\ DiskGoes("none", 1)
    BY <1>4, <1>7 DEF RunSound, DiskGoes
  <1>9. Owned(x)' => \/ Owned(x) /\ port'[x].item = port[x].item
                     \/ Phase(disk, port'[x].item) = "reserved"
    BY <1>6
  <1> QED BY <1>1, <1>2, <1>4, <1>8, <1>9, ExecutionStep

\* The current record is read, and the store is called.
LEMMA ReadThenCallHolds ==
    ASSUME BInv, NEW x \in Executions, NEW kind \in {"mark", "evidence"}, run[x].at = kind,
           ReadThenCall(x, kind), Continue(x)
    PROVE  BInv'
  <1>1. x \in Callers /\ kind \in PortKinds /\ kind \in Awaiting
        /\ run[x].at \notin {"none", "done", "lost"} /\ call[x].kind = "none"
    BY DEF Callers, PortKinds, Awaiting, ReadThenCall
  <1>2. call[x].at = "idle"
    BY <1>1, InvParts DEF Prepared
  <1>3. ASSUME NEW o \in {"failed", "outcome-unknown"}, OwnerSound(x), call'[x] = Ended(x, o),
               disk' = disk, port' = port
        PROVE  BInv'
    <2>1. o \in Ends
      BY DEF Ends
    <2>2. run' = [run EXCEPT ![x] = Continued(run[x], o)]
      BY <1>3, <2>1, ContinuedOnce
    <2> QED BY <1>1, <1>2, <1>3, <2>1, <2>2, ContinueHolds
  <1>4. HandleOf(x) \in Handles
    BY <1>1, InvParts DEF OwnCall, HandleOf
  <1>5. CASE EndUnknown(x) /\ UNCHANGED <<disk, port>>
    <2>1. OwnerSound(x) /\ call'[x] = Ended(x, "outcome-unknown")
      BY <1>1, <1>4, <1>5, InvParts, EndUnknownIs
    <2> QED BY <1>3, <1>5, <2>1
  <1>6. CASE End(x, "failed") /\ UNCHANGED <<disk, port, spent>>
    <2>1. "failed" \in Outcomes
      BY DEF Outcomes
    <2>2. OwnerSound(x) /\ call'[x] = Ended(x, "failed")
      BY <1>1, <1>6, <2>1, InvParts, EndIs
    <2> QED BY <1>3, <1>6, <2>2
  <1>7. CASE BoundCall(x, kind, RecordOf(x).revision)
    <2>1. RecordOf(x).revision \in 0..MaxRevision
      <3>1. disk.records[port[x].item] \in Record
        BY InvParts, OwnerTypes, InventoryFields
      <3> QED BY <3>1 DEF RecordOf, Record
    <2>2. /\ OwnerSound(x) /\ disk' = disk /\ port' = port
          /\ Asks(x, port[x].item, kind) \/ Refuses(x)
      BY <1>1, <1>7, <2>1, BoundCallIs
    <2>3. CASE Refuses(x)
      BY <1>3, <2>2, <2>3 DEF Refuses
    <2>4. CASE Asks(x, port[x].item, kind)
      <3>1. run' = run
        BY <1>1, <2>4 DEF Continue, Asks, PortKinds
      <3>2. PICK n \in Run : n = run[x]
        BY InvParts
      <3>3. run' = [run EXCEPT ![x] = n]
        BY <3>1, <3>2, InvParts
      <3>4. InOrder(x)' /\ run[x].claim = "committed" /\ Owned(x)
        BY <1>1, <3>1, InvParts DEF InOrder, Owned, Claimed
      <3>5. port'[x] = port[x] /\ port[x].handle \in Handles
        BY <1>1, <2>2, InvParts DEF OwnCall
      <3>6. Asks(x, port'[x].item, kind) /\ n.at = kind
            /\ \A y \in Executions : y # x => port'[y] = port[y]
        BY <2>2, <2>4, <3>2, <3>5
      <3> QED BY <1>1, <2>2, <3>2, <3>3, <3>4, <3>5, <3>6, AskedHolds
    <2> QED BY <2>2, <2>3, <2>4
  <1> QED BY <1>5, <1>6, <1>7 DEF ReadThenCall

LEMMA ConsumeHolds ==
    ASSUME BInv, NEW x \in Executions, Consume(x) PROVE BInv'
  <1>1. /\ x \in Callers /\ run[x].at = "capture" /\ BoundCall(x, "consume", 0)
        /\ "consume" \in PortKinds /\ 0 \in 0..MaxRevision
    BY Limits DEF Consume, Callers, PortKinds
  <1>2. /\ OwnerSound(x) /\ disk' = disk /\ port' = port
        /\ Asks(x, port[x].item, "consume") \/ Refuses(x)
    BY <1>1, BoundCallIs
  <1>3. PICK r \in Run : r = run[x]
    BY InvParts
  <1>4. r.claim = "committed" /\ r.evidence = "not-attempted"
    BY <1>1, <1>3, InvParts DEF InOrder
  <1>5. call[x].kind = "none" /\ call[x].at = "idle"
    BY <1>1, InvParts DEF OwnCall, PortKinds, Prepared
  <1>6. port'[x] = port[x] /\ port[x].handle \in Handles
        /\ \A y \in Executions : y # x => port'[y] = port[y]
    BY <1>1, <1>2, InvParts DEF OwnCall
  <1>7. CASE Asks(x, port[x].item, "consume")
    <2>1. PICK n : n = [r EXCEPT !.at = "consume"]
      OBVIOUS
    <2>2. n \in Run /\ n.at = "consume" /\ Past(r, n)
      BY <2>1 DEF Run, Steps, Past
    <2>3. run' = [run EXCEPT ![x] = n]
      BY <1>3, <1>7, <2>1 DEF Consume, Asks
    <2>4. run'[x] = n
      BY <2>2, <2>3, RunIsSet
    <2>5. InOrder(x)'
      BY <1>4, <2>2, <2>4 DEF InOrder, Past
    <2>6. Owned(x)
      BY <1>3, <1>4 DEF Owned, Claimed
    <2>7. Asks(x, port'[x].item, "consume")
      BY <1>6, <1>7
    <2> QED BY <1>1, <1>2, <1>3, <1>5, <1>6, <2>2, <2>3, <2>5, <2>6, <2>7, AskedHolds DEF Past
  <1>8. CASE Refuses(x)
    <2>1. PICK o \in Ends : o = "failed"
      BY DEF Ends
    <2>2. "failed" \in Outcomes
      BY DEF Outcomes
    <2>3. call'[x].kind = "none" /\ call'[x].at = "idle"
      BY <1>8, <2>2, EndedIs DEF Refuses
    <2>4. PICK n : n = AfterConsume(r, o)
      OBVIOUS
    <2>5. run' = [run EXCEPT ![x] = n]
      BY <1>3, <2>1, <2>3, <2>4 DEF Consume
    <2>6. /\ n \in Run /\ n.claim = r.claim /\ n.consumption = o
          /\ n.evidence = r.evidence /\ n.uncertainty = r.uncertainty
          /\ n.at \in {"done", "mark", "request"} /\ (n.at = "mark" => n.then = "end")
          /\ n.at = "done" => o = "outcome-unknown"
          /\ r.effect => n.effect
          /\ n.effect => r.effect \/ (o = "committed" /\ ~r.stopped)
      BY <2>4, AfterConsumeIs
    <2>7. /\ run' \in [Executions -> Run] /\ run'[x] = n
          /\ \A y \in Executions : y # x => RunKept(y)
      BY <1>6, <2>5, <2>6, RunIsSet DEF RunKept
    <2>8. InOrder(x)'
      BY <1>4, <2>1, <2>6, <2>7 DEF InOrder
    <2>9. \A k \in PortKinds : ~CallEnded(x, k)' /\ ~CallEnded(x, k)
      BY <1>5, <2>3 DEF CallEnded, PortKinds
    <2>10. Owned(x) /\ Owned(x)' /\ Claimed(x) /\ Claimed(x)'
      BY <1>3, <1>4, <2>6, <2>7 DEF Owned, Claimed
    <2>11. IsStored(x)'
      BY <1>2, <1>3, <1>6, <2>6, <2>7, <2>9, <2>10, InvParts DEF IsStored, PortKinds, Phase
    <2>12. OwnCall(x)' /\ Prepared(x)'
      BY <1>6, <2>3 DEF OwnCall, Prepared
    <2>13. RunSound(x)' /\ DiskGoes("none", 1) /\ 1 \in Items
      BY <1>2, <2>8, <2>11, <2>12, Limits DEF RunSound, DiskGoes
    <2> QED BY <1>2, <1>6, <2>7, <2>10, <2>12, <2>13, ExecutionStep
  <1> QED BY <1>2, <1>7, <1>8

LEMMA NoRunIs ==
    /\ NoRun \in Run /\ NoRun.at = "none" /\ NoRun.claim = "not-attempted"
    /\ NoRun.consumption = "not-attempted" /\ NoRun.evidence = "not-attempted"
    /\ NoRun.uncertainty = "not-attempted" /\ ~NoRun.effect
  <1>1. PICK no \in BOOLEAN : no = FALSE
    OBVIOUS
  <1>2. PICK n : n = [at |-> "none", staged |-> no, stopped |-> no, effect |-> no, then |-> "end",
                      claim |-> "not-attempted", consumption |-> "not-attempted",
                      evidence |-> "not-attempted", uncertainty |-> "not-attempted"]
    OBVIOUS
  <1>3. n = NoRun
    BY <1>1, <1>2 DEF NoRun
  <1>4. /\ n \in Run /\ n.at = "none" /\ n.claim = "not-attempted"
        /\ n.consumption = "not-attempted" /\ n.evidence = "not-attempted"
        /\ n.uncertainty = "not-attempted" /\ n.effect = no
    BY <1>2 DEF Run, Steps, Outcomes
  <1> QED BY <1>1, <1>3, <1>4

LEMMA ClaimHolds ==
    ASSUME BInv, NEW x \in Executions, Claim(x) PROVE BInv'
  <1>1. PICK h \in Handles, i \in Items :
            /\ port' = [port EXCEPT ![x] = [handle |-> h, item |-> i]]
            /\ PortCall(x, h, i, "claim", 0)
            /\ run' = IF call'[x].kind = "none"
                      THEN [run EXCEPT ![x] = AfterClaim(NoRun, "failed")]
                      ELSE [run EXCEPT ![x] = [NoRun EXCEPT !.at = "claim"]]
    BY DEF Claim
  <1>2. x \in Callers /\ "claim" \in PortKinds /\ 0 \in 0..MaxRevision /\ run[x] = NoRun
    BY Limits, InvParts DEF Claim, Callers, PortKinds, InOrder
  <1>3. call[x].kind = "none" /\ call[x].at = "idle" /\ ~Owned(x)
    <2>1. call[x].kind = "none" /\ call[x].at = "idle"
      BY <1>2, NoRunIs, InvParts DEF OwnCall, PortKinds, Prepared
    <2> QED BY <1>2, <2>1, NoRunIs DEF Owned, Claimed, CallEnded
  <1>4. PICK p \in [handle : Handles \cup {NoHandle}, item : Items] :
            p = [handle |-> h, item |-> i]
    OBVIOUS
  <1>5. port \in Ports
    BY InvParts, OwnerTypes DEF Ports
  <1>6. /\ port' \in Ports /\ port'[x] = p /\ \A y \in Executions : y # x => port'[y] = port[y]
    BY <1>1, <1>4, <1>5, OneIsSet DEF Ports
  <1>7. port'[x].handle = h /\ port'[x].item = i
    BY <1>4, <1>6
  <1>8. /\ OwnerSound(x) /\ disk' = disk
        /\ Asks(x, i, "claim") \/ Refuses(x)
    BY <1>1, <1>2, <1>6, InvParts, PortCallIs
  <1>9. CASE Asks(x, i, "claim")
    <2>1. PICK r \in Run : r = NoRun
      BY NoRunIs
    <2>2. PICK n : n = [r EXCEPT !.at = "claim"]
      OBVIOUS
    <2>3. n \in Run /\ n.at = "claim" /\ Past(r, n)
      BY <2>2 DEF Run, Steps, Past
    <2>4. run' = [run EXCEPT ![x] = n]
      BY <1>1, <1>9, <2>1, <2>2 DEF Asks
    <2>5. run'[x] = n
      BY <2>3, <2>4, RunIsSet
    <2>6. InOrder(x)'
      BY <2>1, <2>3, <2>5, NoRunIs DEF InOrder, Past
    <2>7. Asks(x, port'[x].item, "claim") /\ port'[x].handle \in Handles
      BY <1>7, <1>9
    <2>8. n.evidence # "committed" /\ n.uncertainty # "committed"
      BY <2>1, <2>3, NoRunIs DEF Past
    <2>9. /\ n.claim = run[x].claim /\ n.evidence = run[x].evidence
          /\ n.uncertainty = run[x].uncertainty /\ (n.effect <=> run[x].effect)
      BY <1>2, <2>1, <2>3 DEF Past
    <2> QED BY <1>2, <1>3, <1>6, <1>8, <2>3, <2>4, <2>6, <2>7, <2>8, <2>9, AskedHolds
  <1>10. CASE Refuses(x)
    <2>1. PICK o \in Ends : o = "failed"
      BY DEF Ends
    <2>2. "failed" \in Outcomes
      BY DEF Outcomes
    <2>3. call'[x].kind = "none" /\ call'[x].at = "idle"
      BY <1>10, <2>2, EndedIs DEF Refuses
    <2>4. PICK n : n = AfterClaim(NoRun, o)
      OBVIOUS
    <2>5. run' = [run EXCEPT ![x] = n]
      BY <1>1, <2>1, <2>3, <2>4
    <2>6. /\ n \in Run /\ n.claim = o
          /\ n.evidence = NoRun.evidence /\ n.uncertainty = NoRun.uncertainty
          /\ (n.effect <=> NoRun.effect) /\ (o # "committed" => n.at = "done")
      BY <2>4, AfterClaimIs, NoRunIs
    <2>7. /\ run' \in [Executions -> Run] /\ run'[x] = n
          /\ \A y \in Executions : y # x => RunKept(y)
      BY <1>6, <2>5, <2>6, RunIsSet DEF RunKept
    <2>8. InOrder(x)'
      BY <2>1, <2>6, <2>7, NoRunIs DEF InOrder
    <2>9. \A k \in PortKinds : ~CallEnded(x, k)'
      BY <2>3 DEF CallEnded, PortKinds
    <2>10. ~Owned(x)' /\ ~Claimed(x)'
      BY <2>1, <2>3, <2>6, <2>7, NoRunIs DEF Owned, Claimed, CallEnded
    <2>11. IsStored(x)'
      BY <2>1, <2>6, <2>7, <2>9, <2>10, NoRunIs DEF IsStored, PortKinds
    <2>12. OwnCall(x)' /\ Prepared(x)'
      BY <2>1, <2>3, <2>6, <2>7 DEF OwnCall, Prepared
    <2>13. RunSound(x)' /\ DiskGoes("none", 1) /\ 1 \in Items
      BY <1>8, <2>8, <2>11, <2>12, Limits DEF RunSound, DiskGoes
    <2> QED BY <1>8, <2>7, <2>10, <2>12, <2>13, ExecutionStep
  <1> QED BY <1>8, <1>9, <1>10

\* The capture or the producer goes on.
LEMMA LocalMove ==
    ASSUME BInv, NEW x \in Executions, NEW n \in Run, To(x, n), Past(run[x], n),
           run[x].at \in {"capture", "request", "write"} \/
               (run[x].at = "evidence" /\ call[x].kind = "none"),
           n.at \in {"mark", "write", "evidence"} \/
               (n.at = "done" /\ n.uncertainty # "not-attempted")
    PROVE  BInv'
  <1>1. run' = [run EXCEPT ![x] = n] /\ UNCHANGED ownerVars
    BY DEF To
  <1>2. UNCHANGED <<disk, handle, call, port, token, lastWord, spent>>
    BY <1>1 DEF ownerVars
  <1>3. run'[x] = n
    BY <1>1, RunIsSet
  <1>4. run[x].claim = "committed" /\ run[x].evidence = "not-attempted"
    BY InvParts DEF InOrder
  <1>5. InOrder(x)'
    BY <1>3, <1>4 DEF InOrder, Past
  <1>6. call[x].kind = "none" /\ port[x].handle \in Handles
    BY InvParts DEF OwnCall, PortKinds
  <1>7. OwnCall(x)'
    BY <1>2, <1>6 DEF OwnCall
  <1> QED BY <1>1, <1>2, <1>5, <1>7, LocalStep DEF Past

LEMMA ProducedIs ==
    ASSUME NEW r \in Run, NEW complete
    PROVE  /\ Produced(r, complete) \in Run /\ Past(r, Produced(r, complete))
           /\ Produced(r, complete).at \in {"mark", "evidence"}
  <1>1. CASE Produced(r, complete) = Marking(r, "evidence")
    BY <1>1, MarkingIs
  <1>2. CASE Produced(r, complete) = [r EXCEPT !.at = "evidence"]
    <2>1. PICK n : n = [r EXCEPT !.at = "evidence"]
      OBVIOUS
    <2>2. n \in Run /\ n.at = "evidence" /\ Past(r, n)
      BY <2>1 DEF Run, Steps, Past
    <2> QED BY <1>2, <2>1, <2>2
  <1> QED BY <1>1, <1>2 DEF Produced

LEMMA CaptureHolds ==
    ASSUME BInv, NEW x \in Executions,
           CaptureFails(x) \/ Write(x) \/ Written(x) \/ ProducerFails(x) \/ SkipEvidence(x)
    PROVE  BInv'
  <1>1. PICK r \in Run : r = run[x]
    BY InvParts
  <1>2. ASSUME r.at \in {"capture", "request", "write"}, To(x, Marking(r, "end")) PROVE BInv'
    BY <1>1, <1>2, MarkingIs, LocalMove
  <1>3. ASSUME r.at \in {"request", "write"}, NEW complete, To(x, Produced(r, complete)) PROVE BInv'
    BY <1>1, <1>3, ProducedIs, LocalMove
  <1>4. CASE CaptureFails(x)
    BY <1>1, <1>2, <1>4 DEF CaptureFails
  <1>5. CASE Write(x)
    <2>1. PICK n : n = [r EXCEPT !.at = "write"]
      OBVIOUS
    <2>2. n \in Run /\ n.at = "write" /\ Past(r, n)
      BY <2>1 DEF Run, Steps, Past
    <2>3. To(x, n) /\ r.at = "request"
      BY <1>1, <1>5, <2>1 DEF Write
    <2> QED BY <1>1, <2>2, <2>3, LocalMove
  <1>6. CASE Written(x)
    BY <1>1, <1>3, <1>6 DEF Written
  <1>7. CASE ProducerFails(x)
    BY <1>1, <1>2, <1>3, <1>7 DEF ProducerFails
  <1>8. CASE SkipEvidence(x)
    <2>1. r.at = "evidence" /\ call[x].kind = "none"
      BY <1>1, <1>8 DEF SkipEvidence
    <2>2. CASE To(x, Marking(r, "end"))
      BY <1>1, <2>1, <2>2, MarkingIs, LocalMove
    <2>3. CASE To(x, Over(r)) /\ r.uncertainty # "not-attempted"
      <3>1. Over(r) \in Run /\ Over(r).at = "done" /\ Past(r, Over(r))
        BY OverIs
      <3>2. Over(r).uncertainty # "not-attempted"
        BY <2>3, <3>1 DEF Past
      <3> QED BY <1>1, <2>1, <2>3, <3>1, <3>2, LocalMove
    <2> QED BY <1>1, <1>8, <2>2, <2>3 DEF SkipEvidence
  <1> QED BY <1>4, <1>5, <1>6, <1>7, <1>8

\* The latch of an execution is all that a stop sets.
LEMMA StopHolds ==
    ASSUME BInv, NEW x \in Executions, Stop(x) PROVE BInv'
  <1>1. PICK t \in Transports :
            run' = [run EXCEPT ![x].stopped = TRUE, ![x].staged = t = "staged"]
    BY DEF Stop
  <1>2. PICK yes \in BOOLEAN, staged \in BOOLEAN : yes = TRUE /\ staged = (t = "staged")
    OBVIOUS
  <1>3. PICK r \in Run : r = run[x]
    BY InvParts
  <1>4. PICK n : n = [r EXCEPT !.stopped = yes, !.staged = staged]
    OBVIOUS
  <1>5. n \in Run /\ n.at = r.at /\ n.then = r.then /\ Past(r, n)
    BY <1>4 DEF Run, Past
  <1>6. run' = [run EXCEPT ![x] = n]
    BY <1>1, <1>2, <1>3, <1>4
  <1>7. run'[x] = n /\ r.at # "none"
    BY <1>3, <1>5, <1>6, RunIsSet DEF Stop, Live
  <1>8. UNCHANGED <<disk, handle, call, port, token, lastWord>> /\ Event
    BY DEF Stop
  <1>9. InOrder(x)'
    BY <1>3, <1>5, <1>7, InvParts DEF InOrder, Past
  <1>10. OwnCall(x)'
    BY <1>3, <1>5, <1>7, <1>8, InvParts DEF OwnCall
  <1> QED BY <1>3, <1>5, <1>6, <1>8, <1>9, <1>10, LocalStep DEF Past

LEMMA ProgressHolds ==
    ASSUME BInv, NEW x \in Executions, Progress(x) PROVE BInv'
  <1>1. CASE Mark(x)
    BY <1>1, ReadThenCallHolds DEF Mark
  <1>2. CASE RecordEvidence(x)
    BY <1>2, ReadThenCallHolds DEF RecordEvidence
  <1> QED BY <1>1, <1>2, ClaimHolds, ConsumeHolds, CaptureHolds, StoreStepHolds DEF Progress

-----------------------------------------------------------------------------
(* The operators, and what happens to their pages.                         *)

LEMMA LaneIs ==
    ASSUME NEW h \in Handles, NEW lane \in Lanes
    PROVE  <<h, lane>> \in Callers \ Executions /\ HandleOf(<<h, lane>>) = h
  <1>1. <<h, lane>> \in Handles \X Lanes
    OBVIOUS
  <1>2. <<h, lane>> \notin Executions
    BY <1>1, OwnerBounds DEF OwnerBounds
  <1> QED BY <1>1, <1>2 DEF Callers, HandleOf

LEMMA OperatorKinds ==
    /\ "plan" \in Lanes /\ "stop" \in Lanes /\ "activate" \notin StopKinds
    /\ \A kind \in StopKinds \cup PlanKinds : kind \in Kinds \ PortKinds /\ kind # "none"
  BY OwnerBounds DEF OwnerBounds, Lanes, StopKinds, PlanKinds, PortKinds, Kinds, PlanCommands

LEMMA RequestHolds ==
    ASSUME BInv, NEW h \in Handles, NEW kind \in StopKinds \cup PlanKinds, Request(h, kind),
           UNCHANGED run
    PROVE  BInv'
  <1>0. PICK stops \in BOOLEAN : stops = (kind \in StopKinds)
    <2>1. (kind \in StopKinds) \in BOOLEAN
      OBVIOUS
    <2> QED BY <2>1, Zenon
  <1>1. PICK lane \in Lanes :
            stops = (kind \in StopKinds) /\ lane = IF stops THEN "stop" ELSE "plan"
    BY <1>0, OperatorKinds
  <1>2. PICK c \in Callers \ Executions : c = <<h, lane>> /\ c[1] = h
    BY LaneIs
  <1>3. /\ Event
        /\ call' = [(IF stops THEN Stale(h) ELSE call)
                       EXCEPT ![c] = Begun(kind, 1, 0, NothingStored)]
        /\ token' = IF stops THEN Burnt(h) ELSE token
        /\ handle' = [handle EXCEPT
                         ![h].enabled = @ /\ ~stops,
                         ![h].recovered = @ /\ kind # "recover"]
        /\ lastWord' = [lastWord EXCEPT
                           ![h] = IF stops THEN "stop" ELSE IF kind = "activate" THEN "go" ELSE @]
        /\ UNCHANGED <<disk, port>>
    BY <1>1, <1>2 DEF Request
  <1>4. /\ Begun(kind, 1, 0, NothingStored) \in CallRecord
        /\ Begun(kind, 1, 0, NothingStored).kind = kind
        /\ Begun(kind, 1, 0, NothingStored).at = "read"
    BY BegunIs, OperatorKinds, Limits, NothingIsInventory
  <1>5. PICK v \in CallRecord : v = Begun(kind, 1, 0, NothingStored)
    BY <1>4
  <1>6. OwnerTypeOK /\ WordsFollow
    BY InvParts
  <1>7. PICK r \in HandleRecord : r = handle[h]
    BY <1>6, OwnerTypes
  <1>8. PICK enabled \in BOOLEAN, recovered \in BOOLEAN :
            enabled = (r.enabled /\ ~stops) /\ recovered = (r.recovered /\ kind # "recover")
    OBVIOUS
  <1>9. PICK s : s = [r EXCEPT !.enabled = enabled, !.recovered = recovered]
    OBVIOUS
  <1>10. s \in HandleRecord /\ s.enabled = enabled
    BY <1>9 DEF HandleRecord
  <1>11. handle' = [handle EXCEPT ![h] = s]
    BY <1>3, <1>7, <1>8, <1>9
  <1>12. ASSUME stops PROVE OwnerSound(c) /\ call'[c] = v
    <2>1. call' = [Stale(h) EXCEPT ![c] = v]
      BY <1>3, <1>5, <1>12
    <2>2. /\ CallsKept(c) /\ call'[c] = v
          /\ \A d \in Callers : d # c /\ HandleOf(d) = h => ~call'[d].current
      BY <1>6, <2>1, StaleCall
    <2>3. ~s.enabled
      BY <1>8, <1>10, <1>12
    <2>4. token' = Burnt(h) /\ lastWord' = [lastWord EXCEPT ![h] = "stop"]
      BY <1>3, <1>12
    <2>5. call'[c].kind # "activate" /\ port' \in Ports
      BY <1>1, <1>3, <1>4, <1>5, <1>6, <1>12, <2>2, OperatorKinds, OwnerTypes DEF Ports
    <2>6. OwnerSound(c)
      BY <1>3, <1>6, <1>10, <1>11, <2>2, <2>3, <2>4, <2>5, StopIsSound
    <2> QED BY <2>2, <2>6
  <1>13. ASSUME ~stops PROVE OwnerSound(c) /\ call'[c] = v
    <2>1. call' = [call EXCEPT ![c] = v] /\ token' = token
      BY <1>3, <1>5, <1>13
    <2>2. CallsKept(c) /\ call'[c] = v /\ \A d \in Callers : d # c => call'[d] = call[d]
      BY <1>6, <2>1, OwnerTypes, SameCallAgain, CallIsSet
    <2>3. /\ handle' \in [Handles -> HandleRecord]
          /\ \A k \in Handles : handle'[k].enabled => handle[k].enabled
      <3>1. /\ handle' \in [Handles -> HandleRecord] /\ handle'[h] = s
            /\ \A k \in Handles : k # h => handle'[k] = handle[k]
        BY <1>6, <1>10, <1>11, OwnerTypes, OneIsSet
      <3> QED BY <1>7, <1>8, <1>10, <3>1
    <2>4. PICK word \in {"go", "stop"} :
              word = IF kind = "activate" THEN "go" ELSE lastWord[h]
      BY <1>6, OwnerTypes
    <2>5. lastWord' = [lastWord EXCEPT ![h] = word]
      BY <1>3, <1>13, <2>4
    <2>6. /\ lastWord' \in [Handles -> {"go", "stop"}] /\ lastWord'[h] = word
          /\ \A k \in Handles : k # h => lastWord'[k] = lastWord[k]
      BY <1>6, <2>5, OwnerTypes, OneIsSet
    <2>7. \A k \in Handles : lastWord[k] = "go" => lastWord'[k] = "go"
      BY <2>4, <2>6
    <2>8. WordsFollow'
      <3>1. \A k \in Handles : handle'[k].enabled => lastWord'[k] = "go"
        BY <1>6, <2>3, <2>7 DEF WordsFollow
      <3>2. ASSUME NEW d \in Callers \ Executions, call'[d].kind = "activate", call'[d].current
            PROVE  lastWord'[d[1]] = "go"
        <4>1. CASE d = c
          BY <1>2, <1>4, <1>5, <2>2, <2>4, <2>6, <3>2, <4>1
        <4>2. CASE d # c
          <5>1. d[1] \in Handles
            BY DEF Callers
          <5> QED BY <1>6, <2>2, <2>7, <3>2, <4>2, <5>1 DEF WordsFollow
        <4> QED BY <4>1, <4>2
      <3> QED BY <3>1, <3>2 DEF WordsFollow
    <2>9. call' \in [Callers -> CallRecord] /\ spent' \in 0..MaxEvents
      BY <1>3, <1>6, <2>2, SpentIs DEF CallsKept
    <2>10. OwnerTypeOK'
      BY <1>3, <1>6, <2>1, <2>3, <2>6, <2>9, OwnerTypes, OwnerTypesAgain
    <2> QED BY <2>2, <2>8, <2>10 DEF OwnerSound
  <1>14. OwnerSound(c) /\ call'[c] = v
    BY <1>12, <1>13
  <1>15. Prepared(c)' /\ DiskGoes("none", 1) /\ 1 \in Items
    BY <1>3, <1>4, <1>5, <1>14, OperatorKinds, Limits DEF Prepared, DiskGoes
  <1> QED BY <1>3, <1>14, <1>15, OperatorStep

LEMMA OperatorCallHolds ==
    ASSUME BInv, NEW c \in Callers \ Executions, CallStep(c), UNCHANGED run
    PROVE  BInv'
  <1>1. /\ CallGoes(c) /\ port' = port /\ OwnerSound(c) /\ 1 \in Items
    BY CallStepIs, Limits DEF CallGoes
  <1>2. CASE CallFails(c) \/ CallCommits(c)
    <2>1. PICK o \in Outcomes : call'[c] = Ended(c, o) /\ disk' = disk
      BY <1>2 DEF CallFails, CallCommits, Outcomes
    <2>2. call'[c].kind = "none" /\ call'[c].at = "idle"
      BY <2>1, EndedIs
    <2>3. Prepared(c)' /\ DiskGoes("none", 1)
      BY <2>1, <2>2 DEF Prepared, DiskGoes, PortKinds
    <2> QED BY <1>1, <2>3, OperatorStep
  <1>3. ASSUME call[c].at # "idle"
        PROVE  call[c].kind # "none" /\ call[c].kind \notin PortKinds
    BY <1>3, CallerIs
  <1>4. CASE CallReads(c)
    <2>1. /\ disk' = disk /\ call[c].at = "read" /\ call'[c].at = "ready"
          /\ call'[c].kind = call[c].kind
          /\ Admits(call'[c].kind, call'[c].item, call'[c].base)
      BY <1>4 DEF CallReads
    <2>2. Prepared(c)' /\ DiskGoes("none", 1)
      BY <1>3, <2>1 DEF Prepared, DiskGoes
    <2> QED BY <1>1, <2>2, OperatorStep
  <1>5. CASE CallStores(c)
    <2>1. /\ call[c].at = "ready" /\ call'[c].at = "ended"
          /\ call'[c].kind = call[c].kind
      BY <1>5 DEF CallStores
    <2>2. PICK kind \in Kinds, i \in Items : kind = call[c].kind /\ i = call[c].item
      BY InvParts, OwnerTypes
    <2>3. DiskGoes(kind, i)
      BY <1>5, <2>2 DEF CallStores, DiskGoes
    <2>4. Prepared(c)' /\ kind # "evidence"
      BY <1>3, <2>1, <2>2 DEF Prepared, PortKinds
    <2> QED BY <1>1, <2>3, <2>4, OperatorStep
  <1> QED BY <1>1, <1>2, <1>4, <1>5 DEF CallGoes

LEMMA CloseHolds ==
    ASSUME BInv, NEW h \in Handles, Close(h), UNCHANGED run PROVE BInv'
  <1>1. PICK c \in Callers \ Executions : HandleOf(c) = h
    BY LaneIs, OperatorKinds
  <1>2. OwnerTypeOK /\ WordsFollow
    BY InvParts
  <1>3. /\ call' = Stale(h) /\ token' = Burnt(h) /\ lastWord' = [lastWord EXCEPT ![h] = "stop"]
        /\ UNCHANGED <<disk, port>> /\ Event
    BY DEF Close
  <1>4. PICK no \in BOOLEAN : no = FALSE
    OBVIOUS
  <1>5. PICK r \in HandleRecord : r = handle[h]
    BY <1>2, OwnerTypes
  <1>6. PICK s : s = [r EXCEPT !.open = no, !.recovered = no, !.enabled = no]
    OBVIOUS
  <1>7. s \in HandleRecord /\ ~s.enabled
    BY <1>4, <1>6 DEF HandleRecord
  <1>8. handle' = [handle EXCEPT ![h] = s]
    BY <1>4, <1>5, <1>6 DEF Close
  <1>9. /\ CallsKept(c) /\ SameCall(call[c], call'[c]) /\ port' \in Ports
        /\ \A d \in Callers : HandleOf(d) = h => ~call'[d].current
    BY <1>2, <1>3, StaleIs, OwnerTypes DEF CallsKept, Ports
  <1>10. ~(call'[c].kind = "activate" /\ call'[c].current)
    BY <1>1, <1>9
  <1>11. OwnerSound(c)
    BY <1>2, <1>3, <1>7, <1>8, <1>9, <1>10, StopIsSound
  <1>12. Prepared(c)' /\ DiskGoes("none", 1) /\ 1 \in Items
    BY <1>3, <1>9, InvParts, PreparedKept, Limits DEF DiskGoes
  <1> QED BY <1>3, <1>11, <1>12, OperatorStep

LEMMA OperateHolds ==
    ASSUME BInv, NEW h \in Handles, Operate(h) PROVE BInv'
  BY LaneIs, RequestHolds, OperatorCallHolds, CloseHolds DEF Operate

\* An execution whose handle's page is lost, and one that has another handle, or none.
LEMMA LostIs ==
    ASSUME BInv, NEW h \in Handles, LosePage(h), NEW x \in Executions
    PROVE  /\ run'[x] \in Run /\ port'[x] \in [handle : Handles \cup {NoHandle}, item : Items]
           /\ RunSound(x)' /\ (Owned(x)' => Owned(x)) /\ port'[x].item = port[x].item
  <1>1. PICK r \in Run : r = run[x]
    BY InvParts
  <1>2. PICK p \in [handle : Handles \cup {NoHandle}, item : Items] : p = port[x]
    BY InvParts, OwnerTypes
  <1>3. x \in Callers /\ HandleOf(x) = p.handle
    BY <1>2 DEF Callers, HandleOf
  <1>4. /\ call'[x] = IF p.handle = h THEN NoCall ELSE call[x]
        /\ port'[x] = IF p.handle = h THEN [p EXCEPT !.handle = NoHandle] ELSE p
        /\ run'[x] = IF p.handle = h /\ r.at \notin {"none", "done", "lost"}
                     THEN [NoRun EXCEPT !.at = "lost", !.effect = r.effect] ELSE r
        /\ disk' = disk
    BY <1>1, <1>2, <1>3 DEF LosePage, Restart, Live
  <1>5. PICK q \in [handle : Handles \cup {NoHandle}, item : Items] : q = port'[x]
    BY <1>4
  <1>6. q.item = p.item /\ (p.handle # h => q = p)
    BY <1>4, <1>5
  <1>7. NoCall.kind = "none" /\ NoCall.at = "idle"
    BY DEF NoCall
  <1>8. OwnCall(x) /\ InOrder(x) /\ IsStored(x) /\ Prepared(x)
    BY <1>3, InvParts
  <1>9. CASE p.handle = h /\ r.at \notin {"none", "done", "lost"}
    <2>1. PICK z \in Run : z = NoRun
      BY NoRunIs
    <2>2. PICK n : n = [z EXCEPT !.at = "lost", !.effect = r.effect]
      OBVIOUS
    <2>3. /\ n \in Run /\ n.at = "lost" /\ (n.effect <=> r.effect) /\ n.claim = z.claim
          /\ n.evidence = z.evidence /\ n.uncertainty = z.uncertainty
      BY <2>2 DEF Run, Steps
    <2>4. run'[x] = n /\ call'[x] = NoCall
      BY <1>4, <1>9, <2>1, <2>2
    <2>5. OwnCall(x)' /\ InOrder(x)'
      BY <1>7, <2>1, <2>3, <2>4, NoRunIs DEF OwnCall, InOrder
    <2>6. /\ \A kind \in PortKinds : ~CallEnded(x, kind)'
          /\ ~Claimed(x)' /\ (Owned(x)' => Owned(x))
      BY <1>1, <1>7, <2>1, <2>3, <2>4, NoRunIs DEF CallEnded, Claimed, Owned, PortKinds
    <2>7. IsStored(x)'
      BY <1>1, <1>2, <1>4, <1>5, <1>6, <1>8, <2>1, <2>3, <2>4, <2>6, NoRunIs
         DEF IsStored, PortKinds, Phase
    <2> QED BY <1>2, <1>5, <1>6, <2>3, <2>4, <2>5, <2>6, <2>7 DEF RunSound
  <1>10. CASE ~(p.handle = h /\ r.at \notin {"none", "done", "lost"})
    <2>1. run'[x] = r
      BY <1>4, <1>10
    <2>2. call'[x].kind = call[x].kind /\ (call[x].kind # "none" => call'[x] = call[x])
      <3>1. p.handle = h => call[x].kind = "none"
        BY <1>1, <1>8, <1>10 DEF OwnCall, PortKinds
      <3> QED BY <1>4, <1>7, <3>1
    <2>3. \A kind \in PortKinds : CallEnded(x, kind)' <=> CallEnded(x, kind)
      BY <2>2 DEF CallEnded, PortKinds
    <2>4. (Claimed(x)' <=> Claimed(x)) /\ (Owned(x)' <=> Owned(x))
      BY <1>1, <2>1, <2>3 DEF Claimed, Owned, PortKinds
    <2>5. InOrder(x)'
      BY <1>1, <1>8, <2>1 DEF InOrder
    <2>6. OwnCall(x)'
      BY <1>1, <1>2, <1>5, <1>6, <1>8, <1>10, <2>1, <2>2 DEF OwnCall
    <2>7. IsStored(x)'
      BY <1>1, <1>2, <1>4, <1>5, <1>6, <1>8, <2>1, <2>3, <2>4 DEF IsStored, PortKinds, Phase
    <2> QED BY <1>2, <1>5, <1>6, <2>1, <2>4, <2>5, <2>6, <2>7 DEF RunSound
  <1> QED BY <1>9, <1>10

LEMMA LosePageHolds ==
    ASSUME BInv, NEW h \in Handles, LosePage(h) PROVE BInv'
  <1>1. OwnerTypeOK /\ WordsFollow
    BY InvParts
  <1>2. /\ Event /\ handle' = [handle EXCEPT ![h] = NewHandle]
        /\ call' = [c \in Callers |-> IF HandleOf(c) = h THEN NoCall ELSE call[c]]
        /\ token' = Burnt(h) /\ lastWord' = [lastWord EXCEPT ![h] = "stop"]
        /\ UNCHANGED disk
    BY DEF LosePage, Restart
  <1>3. NewHandle \in HandleRecord /\ ~NewHandle.enabled
    BY DEF NewHandle, HandleRecord
  <1>4. PICK s \in HandleRecord : s = NewHandle /\ ~s.enabled
    BY <1>3
  <1>5. /\ handle' \in [Handles -> HandleRecord]
        /\ \A k \in Handles : handle'[k].enabled => k # h /\ handle[k].enabled
    BY <1>1, <1>2, <1>4, HandleStops
  <1>6. /\ lastWord' \in [Handles -> {"go", "stop"}]
        /\ \A k \in Handles : k # h => lastWord'[k] = lastWord[k]
    BY <1>1, <1>2, OwnerTypes
  <1>7. "failed" \in Outcomes
    BY DEF Outcomes
  <1>8. NoCall \in CallRecord /\ NoCall.kind = "none" /\ NoCall.at = "idle"
    BY <1>7, EndedIs DEF NoCall
  <1>9. \A c \in Callers : call'[c] = IF HandleOf(c) = h THEN NoCall ELSE call[c]
    BY <1>2
  <1>10. call' \in [Callers -> CallRecord]
    BY <1>1, <1>2, <1>8, OwnerTypes
  <1>11. \A x \in Executions :
            /\ run'[x] \in Run /\ port'[x] \in [handle : Handles \cup {NoHandle}, item : Items]
            /\ RunSound(x)' /\ (Owned(x)' => Owned(x)) /\ port'[x].item = port[x].item
    BY LostIs
  <1>12. /\ port' \in [Executions -> [handle : Handles \cup {NoHandle}, item : Items]]
         /\ run' \in [Executions -> Run]
    <2>1. /\ port' = [x \in Executions |-> port'[x]]
          /\ run' = [x \in Executions |-> run'[x]]
      BY DEF LosePage, Restart
    <2> QED BY <1>11, <2>1
  <1>13. token' \in [Executions -> Inventory] /\ spent' \in 0..MaxEvents
    BY <1>1, <1>2, BurntIs, SpentIs
  <1>14. OwnerTypeOK'
    BY <1>1, <1>2, <1>5, <1>6, <1>10, <1>12, <1>13, OwnerTypes, OwnerTypesAgain
  <1>15. WordsFollow'
    <2>1. \A k \in Handles : handle'[k].enabled => lastWord'[k] = "go"
      BY <1>1, <1>5, <1>6 DEF WordsFollow
    <2>2. ASSUME NEW d \in Callers \ Executions, call'[d].kind = "activate", call'[d].current
          PROVE  lastWord'[d[1]] = "go"
      <3>1. HandleOf(d) # h /\ call'[d] = call[d]
        BY <1>8, <1>9, <2>2
      <3>2. d[1] # h /\ d[1] \in Handles
        BY <3>1 DEF HandleOf, Callers
      <3> QED BY <1>1, <1>6, <2>2, <3>1, <3>2 DEF WordsFollow
    <2> QED BY <2>1, <2>2 DEF WordsFollow
  <1>16. ClaimsDiffer'
    BY <1>11, InvParts DEF ClaimsDiffer
  <1>17. ASSUME NEW c \in Callers PROVE Prepared(c)'
    <2>1. CASE HandleOf(c) = h
      BY <1>8, <1>9, <2>1 DEF Prepared, PortKinds
    <2>2. CASE HandleOf(c) # h
      BY <1>9, <2>2, InvParts DEF Prepared
    <2> QED BY <2>1, <2>2
  <1>18. Grown(disk)' /\ Admissible(disk)'
    BY <1>2, InvParts
  <1> QED BY <1>11, <1>12, <1>14, <1>15, <1>16, <1>17, <1>18 DEF BInv, TypeOK

-----------------------------------------------------------------------------
(* What has been reserved for a pending operation suffices.                *)

LEMMA PendingIsOne ==
    ASSUME NEW inv, HasHeadroom(inv), NEW i \in Pending(inv)
    PROVE  Pending(inv) = {i}
  <1>1. Pending(inv) \subseteq Items
    BY DEF Pending, InPhase
  <1>2. IsFiniteSet(Pending(inv)) /\ Cardinality(Pending(inv)) \in Nat
    BY <1>1, Limits, FS_Subset, FS_CardinalityType
  <1>3. ASSUME NEW j \in Pending(inv), j # i PROVE FALSE
    <2>1. IsFiniteSet({j}) /\ Cardinality({j}) = 1
      BY FS_Singleton
    <2>2. Cardinality({j} \cup {i}) = 2
      BY <1>3, <2>1, FS_AddElement
    <2>3. {j} \cup {i} \in SUBSET Pending(inv)
      BY <1>3
    <2>4. 2 <= Cardinality(Pending(inv))
      BY <1>2, <2>2, <2>3, FS_Subset
    <2> QED BY <1>2, <2>4 DEF HasHeadroom
  <1> QED BY <1>3

\* What a valid inventory has kept free for the operation that is pending.
LEMMA HeadroomIs ==
    ASSUME NEW inv \in Inventory, Grown(inv), Admissible(inv), NEW i \in Items,
           Phase(inv, i) \in {"reserved", "in-flight", "unknown"}
    PROVE  /\ inv.there /\ Pending(inv) = {i} /\ ItemFits(inv, i)
           /\ Phase(inv, i) = "in-flight" =>
               inv.revision + 3 <= MaxRevision /\ inv.observations + 2 <= MaxObservations
           /\ Phase(inv, i) = "unknown" =>
               /\ inv.observations + 1 <= MaxObservations
               /\ inv.revision + (IF inv.control = "active" THEN 2 ELSE 1) <= MaxRevision
           /\ Phase(inv, i) = "reserved" /\ inv.control = "active"
                 /\ inv.records[i].control = "active" =>
               inv.revision + 4 <= MaxRevision /\ inv.observations + 3 <= MaxObservations
  <1>1. inv.there /\ Phase(inv, i) # "untouched"
    BY BegunIsThere
  <1>2. HasHeadroom(inv) /\ ItemFits(inv, i)
    BY <1>1, AdmissibleParts
  <1>3. i \in Pending(inv)
    BY DEF Pending, InPhase, Phase
  <1>4. Pending(inv) = {i}
    BY <1>2, <1>3, PendingIsOne
  <1>5. /\ inv.revision + RevisionCost(inv, inv.records[i]) <= MaxRevision
        /\ inv.observations + ObservationCost(inv, inv.records[i]) <= MaxObservations
    BY <1>2, <1>3 DEF HasHeadroom
  <1>6. CASE Phase(inv, i) = "in-flight"
    <2>1. RevisionCost(inv, inv.records[i]) = 3 /\ ObservationCost(inv, inv.records[i]) = 2
      BY <1>6 DEF RevisionCost, ObservationCost, Phase
    <2> QED BY <1>1, <1>2, <1>4, <1>5, <1>6, <2>1
  <1>7. CASE Phase(inv, i) = "unknown"
    <2>1. /\ RevisionCost(inv, inv.records[i]) = IF inv.control = "active" THEN 2 ELSE 1
          /\ ObservationCost(inv, inv.records[i]) = 1
      BY <1>7 DEF RevisionCost, ObservationCost, Phase
    <2> QED BY <1>1, <1>2, <1>4, <1>5, <1>7, <2>1
  <1>8. CASE Phase(inv, i) = "reserved"
    <2>1. inv.control = "active" /\ inv.records[i].control = "active" =>
            RevisionCost(inv, inv.records[i]) = 4 /\ ObservationCost(inv, inv.records[i]) = 3
      BY <1>8 DEF RevisionCost, ObservationCost, Phase
    <2> QED BY <1>1, <1>2, <1>4, <1>5, <1>8, <2>1
  <1> QED BY <1>6, <1>7, <1>8

\* The operation that was pending moves: the headroom of the new inventory.
LEMMA MovedHeadroom ==
    ASSUME NEW inv, NEW i \in Items, Pending(inv) = {i}, NEW new,
           \A k \in Items : k # i => new.records[k] = inv.records[k],
           new.control = "active" => new.revision < MaxRevision,
           new.records[i].phase \in {"reserved", "in-flight", "unknown"} =>
               /\ new.revision + RevisionCost(new, new.records[i]) <= MaxRevision
               /\ new.observations + ObservationCost(new, new.records[i]) <= MaxObservations
    PROVE  HasHeadroom(new)
  <1>1. Pending(new) \subseteq {i}
    BY DEF Pending, InPhase
  <1>2. Cardinality(Pending(new)) <= 1
    <2>1. IsFiniteSet({i}) /\ Cardinality({i}) = 1
      BY FS_Singleton
    <2> QED BY <1>1, <2>1, FS_Subset
  <1>3. i \in Pending(new) <=> new.records[i].phase \in {"reserved", "in-flight", "unknown"}
    BY DEF Pending, InPhase
  <1> QED BY <1>1, <1>2, <1>3 DEF HasHeadroom

\* The next revision of an operation can be observed.
LEMMA CanObserveNext ==
    ASSUME NEW inv \in Inventory, NEW base \in Inventory, NEW i \in Items, ItemFits(inv, i),
           Phase(inv, i) # "untouched", SameItems(inv, base), base.revision < MaxRevision,
           base.observations < MaxObservations, NEW record,
           record.revision = inv.records[i].revision + 1
    PROVE  CanObserve(base, i, record)
  <1>1. /\ inv.records[i].revision \in Nat /\ base.seen[i] = inv.records[i].revision + 1
        /\ base.charged[i] # 0
    BY InventoryFields DEF ItemFits, SameItems
  <1> QED BY <1>1 DEF CanObserve

\* Evidence can be recorded.
LEMMA EvidenceFits ==
    ASSUME NEW inv \in Inventory, Grown(inv), Admissible(inv), NEW i \in Items,
           Phase(inv, i) \in {"in-flight", "unknown"}
    PROVE  Admits("evidence", i, inv)
  <1>1. PICK record : record = Revised(inv.records[i], "awaiting-resolution")
    OBVIOUS
  <1>2. /\ inv.there /\ Pending(inv) = {i} /\ ItemFits(inv, i)
        /\ inv.observations + 1 <= MaxObservations
        /\ inv.revision + (IF inv.control = "active" THEN 2 ELSE 1) <= MaxRevision
    BY HeadroomIs, InventoryFields, Limits
  <1>3. inv.revision < MaxRevision /\ inv.observations < MaxObservations
    BY <1>2, InventoryFields, Limits
  <1>4. "awaiting-resolution" \in Phases
    BY DEF Phases
  <1>5. Later(inv, i, record, "awaiting-resolution")
    BY <1>1, <1>3, <1>4, RevisedIsLater
  <1>6. /\ record \in Record /\ record.phase = "awaiting-resolution"
        /\ record.revision = inv.records[i].revision + 1
        /\ record.revision <= inv.revision + 1 /\ record.revision <= MaxRevision
    BY <1>5, InventoryFields DEF Later, Grown
  <1>7. SameItems(inv, inv)
    BY DEF SameItems
  <1>8. CanObserve(inv, i, record)
    BY <1>2, <1>3, <1>6, <1>7, CanObserveNext
  <1>9. PICK new : new = Observed(inv, i, record)
    OBVIOUS
  <1>10. /\ new.revision = inv.revision + 1 /\ new.control = inv.control /\ new.records[i] = record
         /\ \A k \in Items : k # i => new.records[k] = inv.records[k]
    BY <1>2, <1>6, <1>8, <1>9, ObservedIs
  <1>11. new.control = "active" => new.revision < MaxRevision
    BY <1>2, <1>10, InventoryFields, Limits
  <1>12. HasHeadroom(new)
    BY <1>2, <1>6, <1>10, <1>11, MovedHeadroom
  <1>13. Allows("evidence", i, inv) /\ After("evidence", i, inv) = new
    BY <1>1, <1>8, <1>9 DEF Allows, After, Phase
  <1> QED BY <1>12, <1>13 DEF Admits

\* A reserved operation can be claimed.
LEMMA ClaimFits ==
    ASSUME NEW inv \in Inventory, Grown(inv), Admissible(inv), NEW i \in Items, MayClaim(inv, i)
    PROVE  Admits("claim", i, inv)
  <1>1. PICK record : record = Revised(inv.records[i], "in-flight")
    OBVIOUS
  <1>2. /\ Phase(inv, i) = "reserved" /\ inv.control = "active"
        /\ inv.records[i].control = "active"
    BY DEF MayClaim, Phase
  <1>3. /\ inv.there /\ Pending(inv) = {i} /\ ItemFits(inv, i)
        /\ inv.revision + 4 <= MaxRevision /\ inv.observations + 3 <= MaxObservations
    BY <1>2, HeadroomIs
  <1>4. inv.revision < MaxRevision /\ inv.observations < MaxObservations
    BY <1>3, InventoryFields, Limits
  <1>5. "in-flight" \in Phases
    BY DEF Phases
  <1>6. Later(inv, i, record, "in-flight")
    BY <1>1, <1>4, <1>5, RevisedIsLater
  <1>7. /\ record \in Record /\ record.phase = "in-flight"
        /\ record.revision = inv.records[i].revision + 1
        /\ record.revision <= inv.revision + 1 /\ record.revision <= MaxRevision
    BY <1>6, InventoryFields DEF Later, Grown
  <1>8. SameItems(inv, inv)
    BY DEF SameItems
  <1>9. CanObserve(inv, i, record)
    BY <1>2, <1>3, <1>4, <1>7, <1>8, CanObserveNext
  <1>10. PICK new : new = Observed(inv, i, record)
    OBVIOUS
  <1>11. /\ new.revision = inv.revision + 1 /\ new.observations = inv.observations + 1
         /\ new.records[i] = record
         /\ \A k \in Items : k # i => new.records[k] = inv.records[k]
    BY <1>3, <1>7, <1>9, <1>10, ObservedIs
  <1>12. /\ RevisionCost(new, record) = 3 /\ ObservationCost(new, record) = 2
    BY <1>7 DEF RevisionCost, ObservationCost
  <1>13. /\ new.revision < MaxRevision /\ new.revision + 3 <= MaxRevision
         /\ new.observations + 2 <= MaxObservations
    BY <1>3, <1>11, InventoryFields, Limits
  <1>14. HasHeadroom(new)
    BY <1>3, <1>11, <1>12, <1>13, MovedHeadroom
  <1>15. Allows("claim", i, inv) /\ After("claim", i, inv) = new
    BY <1>1, <1>9, <1>10 DEF Allows, After
  <1> QED BY <1>14, <1>15 DEF Admits

\* An effect in flight can be given up, by whoever does it.
LEMMA GivingUpFits ==
    ASSUME NEW inv \in Inventory, Grown(inv), Admissible(inv), NEW i \in Items,
           Phase(inv, i) = "in-flight", NEW command \in {"pause", "recover-after-restart"},
           NEW record, Later(inv, i, record, "unknown"),
           NEW base, base = Reduced(inv, command), NEW new, new = Observed(base, i, record)
    PROVE  CanReduce(inv, command) /\ CanObserve(base, i, record) /\ HasHeadroom(new)
  <1>1. /\ inv.there /\ Pending(inv) = {i} /\ ItemFits(inv, i)
        /\ inv.revision + 3 <= MaxRevision /\ inv.observations + 2 <= MaxObservations
    BY HeadroomIs
  <1>2. inv.revision \in Nat /\ inv.observations \in Nat /\ inv.revision < MaxRevision
    BY <1>1, InventoryFields, Limits
  <1>3. command \in PlanCommands /\ CanReduce(inv, command)
    BY <1>2 DEF PlanCommands, CanReduce
  <1>4. /\ base \in Inventory /\ Grown(base) /\ SameItems(inv, base)
        /\ base.revision = inv.revision + 1 /\ base.control = "paused"
    BY <1>3, ReducedIs
  <1>5. /\ base.there /\ base.observations = inv.observations /\ base.records = inv.records
    BY <1>1, <1>4 DEF SameItems
  <1>6. /\ record \in Record /\ record.phase = "unknown"
        /\ record.revision = inv.records[i].revision + 1
        /\ record.revision <= inv.revision + 1 /\ record.revision <= MaxRevision
    BY InventoryFields DEF Later, Grown
  <1>7. base.revision < MaxRevision /\ base.observations < MaxObservations
    BY <1>1, <1>2, <1>4, <1>5, Limits
  <1>8. CanObserve(base, i, record)
    BY <1>1, <1>4, <1>6, <1>7, CanObserveNext
  <1>9. record.revision \in Nat /\ record.revision <= base.revision + 1
    BY <1>2, <1>4, <1>6, Limits DEF Record
  <1>10. /\ new.revision = base.revision + 1 /\ new.observations = base.observations + 1
         /\ new.control = "paused" /\ new.records[i] = record
         /\ \A k \in Items : k # i => new.records[k] = inv.records[k]
    BY <1>4, <1>5, <1>6, <1>8, <1>9, ObservedIs
  <1>11. RevisionCost(new, record) = 1 /\ ObservationCost(new, record) = 1
    BY <1>6, <1>10 DEF RevisionCost, ObservationCost
  <1>12. /\ new.revision + 1 <= MaxRevision /\ new.observations + 1 <= MaxObservations
    BY <1>1, <1>2, <1>4, <1>5, <1>10, Limits
  <1>13. HasHeadroom(new)
    BY <1>1, <1>10, <1>11, <1>12, MovedHeadroom
  <1> QED BY <1>3, <1>8, <1>13

LEMMA InterruptionFits ==
    ASSUME NEW inv \in Inventory, Grown(inv), Admissible(inv), NEW i \in Items,
           Phase(inv, i) = "in-flight", NEW kind \in {"pause", "recover", "mark"}
    PROVE  Admits(kind, i, inv)
  <1>1. inv.there /\ Pending(inv) = {i} /\ inv.revision < MaxRevision
    BY HeadroomIs, InventoryFields, Limits
  <1>2. CASE kind = "mark"
    <2>1. "unknown" \in Phases
      BY DEF Phases
    <2>2. Later(inv, i, Interrupted(inv.records[i]), "unknown")
      BY <1>1, <2>1, RevisedIsLater DEF Interrupted
    <2>3. /\ CanReduce(inv, "pause")
          /\ CanObserve(Reduced(inv, "pause"), i, Interrupted(inv.records[i]))
          /\ HasHeadroom(Observed(Reduced(inv, "pause"), i, Interrupted(inv.records[i])))
      BY <2>2, GivingUpFits
    <2> QED BY <1>2, <2>3 DEF Admits, Allows, After, Phase
  <1>3. InPhase(inv, {"in-flight"}) = {i}
    BY <1>1 DEF Pending, InPhase, Phase
  <1>4. \A command, action :
            Halted(inv, command, action) =
                Observed(Reduced(inv, command), i, Controlled(inv.records[i], action))
    <2> SUFFICES ASSUME NEW command, NEW action
                 PROVE  Halted(inv, command, action) =
                            Observed(Reduced(inv, command), i, Controlled(inv.records[i], action))
      OBVIOUS
    <2>1. (CHOOSE j \in {i} : TRUE) = i
      OBVIOUS
    <2> QED BY <1>3, <2>1 DEF Halted
  <1>5. ~Preserves(inv)
    BY <1>3 DEF Preserves
  <1>6. ASSUME NEW command \in {"pause", "recover-after-restart"}, NEW action
        PROVE  CanHalt(inv, command, action) /\ HasHeadroom(Halted(inv, command, action))
    <2>1. Later(inv, i, Controlled(inv.records[i], action), "unknown")
      BY <1>1, ControlledIsLater
    <2>2. /\ CanReduce(inv, command)
          /\ CanObserve(Reduced(inv, command), i, Controlled(inv.records[i], action))
          /\ HasHeadroom(Observed(Reduced(inv, command), i, Controlled(inv.records[i], action)))
      BY <2>1, GivingUpFits
    <2> QED BY <1>3, <1>4, <2>2 DEF CanHalt
  <1>7. CASE kind = "pause"
    <2>1. After(kind, i, inv) = Halted(inv, "pause", "pause")
      BY <1>7 DEF After
    <2>2. CanHalt(inv, "pause", "pause") /\ HasHeadroom(Halted(inv, "pause", "pause"))
      BY <1>6
    <2> QED BY <1>1, <1>7, <2>1, <2>2 DEF Admits, Allows
  <1>8. CASE kind = "recover"
    <2>1. After(kind, i, inv) = Halted(inv, "recover-after-restart", "restart")
      BY <1>5, <1>8 DEF After
    <2>2. /\ CanHalt(inv, "recover-after-restart", "restart")
          /\ HasHeadroom(Halted(inv, "recover-after-restart", "restart"))
      BY <1>6
    <2> QED BY <1>1, <1>8, <2>1, <2>2 DEF Admits, Allows
  <1> QED BY <1>2, <1>7, <1>8

LEMMA UsableIs ==
    ASSUME BInv PROVE StoredIsUsable
  <1>1. disk \in Inventory /\ Grown(disk) /\ Admissible(disk)
    BY InvParts, OwnerTypes
  <1>2. ASSUME NEW i \in InPhase(disk, {"in-flight"}), NEW kind \in {"pause", "recover", "mark"}
        PROVE  Admits(kind, i, disk) /\ Admits("evidence", i, After(kind, i, disk))
    <2>1. i \in Items /\ Phase(disk, i) = "in-flight"
      BY DEF InPhase, Phase
    <2>2. Admits(kind, i, disk)
      BY <1>1, <2>1, InterruptionFits
    <2>3. PICK new : new = After(kind, i, disk)
      OBVIOUS
    <2>4. kind \in Writes /\ kind # "reserve" /\ kind # "evidence"
      BY DEF Writes, StopKinds
    <2>5. Good(kind, i, disk, new)
      BY <1>1, <2>1, <2>2, <2>3, <2>4, AfterIsGood
    <2>6. new \in Inventory /\ Grown(new) /\ Admissible(new) /\ PhasesFollow(kind, i, disk, new)
      BY <2>5 DEF Good
    <2>7. Phase(new, i) \in {"in-flight", "unknown"}
      <3>1. Phase(new, i) \in Phases
        BY <2>1, <2>6, InventoryFields
      <3>2. Phase(new, i) \notin {"untouched", "reserved", "awaiting-resolution"}
        BY <2>1, <2>4, <2>6 DEF PhasesFollow
      <3> QED BY <3>1, <3>2 DEF Phases
    <2>8. Admits("evidence", i, new)
      BY <2>1, <2>6, <2>7, EvidenceFits
    <2> QED BY <2>2, <2>3, <2>8
  <1>3. ASSUME NEW i \in InPhase(disk, {"in-flight", "unknown"}) PROVE Admits("evidence", i, disk)
    BY <1>1, EvidenceFits DEF InPhase, Phase
  <1>4. ASSUME NEW i \in InPhase(disk, {"reserved"}), MayClaim(disk, i)
        PROVE  Admits("claim", i, disk)
    BY <1>1, <1>4, ClaimFits DEF InPhase
  <1> QED BY <1>1, <1>2, <1>3, <1>4 DEF StoredIsUsable

-----------------------------------------------------------------------------
(* The invariant and its consequences.                                     *)

LEMMA StartDisk ==
    ASSUME NEW inv \in {NothingStored, NewCheckpoint, LeftBehind}
    PROVE  inv \in Inventory /\ Grown(inv) /\ Admissible(inv)
  <1>1. Good("create", 1, NothingStored, NewCheckpoint)
        /\ NothingStored \in Inventory /\ Grown(NothingStored) /\ ~NothingStored.there
    <2>1. PICK no \in BOOLEAN, yes \in BOOLEAN : no = FALSE /\ yes = TRUE
      OBVIOUS
    <2>2. NewCheckpoint =
            [there |-> yes, revision |-> 0, control |-> "paused", cooldown |-> no, windows |-> 1,
             charged |-> [i \in Items |-> 0], seen |-> [i \in Items |-> 0], observations |-> 0,
             records |-> [i \in Items |-> NoRecord]]
      BY <2>1 DEF NewCheckpoint
    <2>3. PICK new : new = NewCheckpoint
      OBVIOUS
    <2>4. PICK old : old = [new EXCEPT !.there = no]
      OBVIOUS
    <2>5. old = NothingStored
      BY <2>1, <2>3, <2>4 DEF NothingStored
    <2>6. old.there = no /\ old.windows = 1 /\ old.revision = 0
          /\ \A k \in Items : old.records[k] = NoRecord /\ old.charged[k] = 0
      BY <2>2, <2>3, <2>4
    <2>7. /\ new.there = yes /\ new.control = "paused"
          /\ \A k \in Items : new.records[k] = NoRecord
      BY <2>2, <2>3
    <2>8. NoRecord.phase = "untouched" /\ NoRecord.revision = 0
      BY DEF NoRecord
    <2>9. Grown(old) /\ ~old.there
      BY <2>1, <2>6, <2>8 DEF Grown, Phase
    <2>10. HasHeadroom(new)
      <3>1. Pending(new) = {}
        BY <2>7, <2>8 DEF Pending, InPhase
      <3> QED BY <2>7, <3>1, FS_EmptySet DEF HasHeadroom
    <2>11. Admits("create", 1, old)
      BY <2>3, <2>9, <2>10 DEF Admits, Admissible, Allows, After
    <2>12. new = After("create", 1, old)
      BY <2>3 DEF After
    <2>13. old \in Inventory /\ 1 \in Items
      BY <2>5, NothingIsInventory, Limits
    <2> QED BY <2>3, <2>5, <2>9, <2>11, <2>12, <2>13, CreateIsGood
  <1>2. CASE inv = NothingStored
    BY <1>1, <1>2 DEF Admissible
  <1>3. CASE inv = NewCheckpoint
    BY <1>1, <1>3 DEF Good
  <1>4. CASE inv = LeftBehind
    <2>1. /\ NewCheckpoint \in Inventory /\ Grown(NewCheckpoint) /\ Admissible(NewCheckpoint)
          /\ NewCheckpoint.there /\ NewCheckpoint.revision = 0 /\ NewCheckpoint.windows = 1
          /\ NewCheckpoint.observations = 0
          /\ \A k \in Items : /\ NewCheckpoint.records[k] = NoRecord
                              /\ NewCheckpoint.seen[k] = 0 /\ NewCheckpoint.charged[k] = 0
      BY <1>1 DEF Good, NewCheckpoint
    <2>2. (\A k \in Items : ItemFits(NewCheckpoint, k)) /\ ChargesFit(NewCheckpoint)
      BY <2>1, AdmissibleParts
    <2>3. "activate" \in PlanCommands /\ CanReduce(NewCheckpoint, "activate")
      BY <2>1, Limits DEF PlanCommands, CanReduce
    <2>4. PICK base : base = Reduced(NewCheckpoint, "activate")
      OBVIOUS
    <2>5. /\ base \in Inventory /\ Grown(base) /\ SameItems(NewCheckpoint, base)
          /\ base.revision = 1 /\ base.windows = 1
          /\ \A k \in Items : ItemFits(base, k)
          /\ ChargesFit(base)
      BY <2>1, <2>2, <2>3, <2>4, ReducedIs, ReducedFits
    <2>6. /\ base.there /\ base.observations = 0
          /\ \A k \in Items : base.seen[k] = 0 /\ base.charged[k] = 0 /\ base.records[k] = NoRecord
      BY <2>1, <2>5 DEF SameItems
    <2>7. /\ ReservedRecord \in Record /\ ReservedRecord.revision = 0
          /\ ReservedRecord.phase = "reserved" /\ NoRecord.phase = "untouched"
      BY Limits DEF ReservedRecord, NoRecord, Record, Phases
    <2>8. CanObserve(base, 1, ReservedRecord)
      <3>1. {k \in Items : base.charged[k] = 1} = {}
        BY <2>6
      <3>2. WindowCharges(base, base.windows) = 0
        BY <2>5, <3>1, FS_EmptySet DEF WindowCharges
      <3> QED BY <2>5, <2>6, <2>7, <3>2, Limits DEF CanObserve
    <2>9. inv = Observed(base, 1, ReservedRecord)
      BY <1>4, <2>4 DEF LeftBehind
    <2>10. /\ ReservedRecord.revision <= base.revision + 1
           /\ ReservedRecord.revision <= MaxRevision /\ 1 \in Items
      BY <2>5, <2>7, Limits
    <2>11. /\ \A k \in Items : ItemFits(inv, k)
           /\ ChargesFit(inv) /\ inv \in Inventory /\ Grown(inv) /\ inv.there
      BY <2>5, <2>6, <2>7, <2>8, <2>9, <2>10, ObservedFits
    <2>12. /\ inv.revision = 2 /\ inv.observations = 1 /\ inv.records[1] = ReservedRecord
           /\ \A k \in Items : k # 1 => inv.records[k] = NoRecord
      BY <2>5, <2>6, <2>7, <2>8, <2>9, <2>10, ObservedIs
    <2>13. Pending(inv) = {1}
      BY <2>7, <2>10, <2>12 DEF Pending, InPhase
    <2>14. Cardinality(Pending(inv)) = 1
      BY <2>13, FS_Singleton
    <2>15. /\ RevisionCost(inv, inv.records[1]) \in {0, 4}
           /\ ObservationCost(inv, inv.records[1]) \in {0, 3}
      BY <2>7, <2>12 DEF RevisionCost, ObservationCost
    <2>16. HasHeadroom(inv)
      BY <2>12, <2>13, <2>14, <2>15, Limits DEF HasHeadroom
    <2> QED BY <2>11, <2>16, AdmissibleParts
  <1> QED BY <1>2, <1>3, <1>4

LEMMA StartsSound ==
    ASSUME Init PROVE BInv
  <1>1. /\ disk \in {NothingStored, NewCheckpoint, LeftBehind}
        /\ call = [c \in Callers |-> NoCall] /\ port = [x \in Executions |-> NoPort]
        /\ token = [x \in Executions |-> NoToken]
        /\ lastWord = [h \in Handles |-> IF handle[h].enabled THEN "go" ELSE "stop"]
        /\ spent = 0 /\ run = [x \in Executions |-> NoRun]
    BY DEF Init, OwnerInit
  <1>2. disk \in Inventory /\ Grown(disk) /\ Admissible(disk)
    BY <1>1, StartDisk
  <1>3. NewHandle \in HandleRecord /\ AtWork(disk) \in HandleRecord
    <2>1. PICK n \in HandleRecord : n = NewHandle
      BY DEF NewHandle, HandleRecord
    <2>2. PICK yes \in BOOLEAN, enabled \in BOOLEAN :
              yes = TRUE /\ enabled = (disk.control = "active")
      OBVIOUS
    <2>3. [n EXCEPT !.recovered = yes, !.enabled = enabled] \in HandleRecord
      BY DEF HandleRecord
    <2> QED BY <2>1, <2>2, <2>3 DEF AtWork
  <1>4. handle \in [Handles -> HandleRecord]
    BY <1>3 DEF Init, OwnerInit
  <1>5. "failed" \in Outcomes
    BY DEF Outcomes
  <1>6. NoCall \in CallRecord /\ NoCall.kind = "none" /\ NoCall.at = "idle"
    BY <1>5, EndedIs DEF NoCall
  <1>7. NoPort \in [handle : Handles \cup {NoHandle}, item : Items] /\ NoToken \in Inventory
    BY Limits, NothingIsInventory DEF NoPort, NoToken
  <1>8. spent \in 0..MaxEvents
    BY <1>1, OwnerBounds DEF OwnerBounds
  <1>9. OwnerTypeOK
    BY <1>1, <1>2, <1>4, <1>6, <1>7, <1>8 DEF OwnerTypeOK, CallRecord, Kinds, HandleRecord
  <1>10. TypeOK
    BY <1>1, <1>9, NoRunIs DEF TypeOK
  <1>11. \A c \in Callers : call[c] = NoCall
    BY <1>1
  <1>12. WordsFollow
    BY <1>1, <1>6, <1>11 DEF WordsFollow
  <1>13. \A c \in Callers : Prepared(c)
    BY <1>6, <1>11 DEF Prepared, PortKinds
  <1>14. ASSUME NEW x \in Executions PROVE ~Owned(x) /\ RunSound(x)
    <2>1. run[x] = NoRun /\ call[x] = NoCall
      BY <1>1, <1>11 DEF Callers
    <2>2. ~Owned(x) /\ ~Claimed(x) /\ \A kind \in PortKinds : ~CallEnded(x, kind)
      BY <1>6, <2>1, NoRunIs DEF Owned, Claimed, CallEnded, PortKinds
    <2>3. OwnCall(x) /\ InOrder(x)
      BY <1>6, <2>1, NoRunIs DEF OwnCall, InOrder
    <2>4. IsStored(x)
      BY <2>1, <2>2, NoRunIs DEF IsStored, PortKinds
    <2> QED BY <2>2, <2>3, <2>4 DEF RunSound
  <1>15. ClaimsDiffer
    BY <1>14 DEF ClaimsDiffer
  <1> QED BY <1>2, <1>10, <1>12, <1>13, <1>14, <1>15 DEF BInv

LEMMA StepsHold ==
    ASSUME BInv, [Next]_vars PROVE BInv'
  <1>1. CASE Next
    BY <1>1, ProgressHolds, StopHolds, OperateHolds, LosePageHolds DEF Next
  <1>2. CASE UNCHANGED vars
    <2>1. UNCHANGED <<disk, handle, call, port, token, lastWord, spent, run>>
      BY <1>2 DEF vars, ownerVars
    <2>2. TypeOK' /\ WordsFollow' /\ ClaimsDiffer' /\ Grown(disk)' /\ Admissible(disk)'
      BY <2>1, InvParts DEF BInv, TypeOK, OwnerTypeOK, WordsFollow, ClaimsDiffer, Owned,
                            Claimed, CallEnded
    <2>3. \A c \in Callers : Prepared(c)'
      BY <2>1, InvParts DEF Prepared
    <2>4. \A x \in Executions : RunSound(x)'
      BY <2>1, InvParts DEF RunSound, OwnCall, InOrder, IsStored, Owned, Claimed, CallEnded, Phase
    <2> QED BY <2>2, <2>3, <2>4 DEF BInv
  <1> QED BY <1>1, <1>2

\* Only the answer to a consumed token begins an effect.
LEMMA OwnEffect ==
    ASSUME BInv, NEW x \in Executions, Progress(x), run'[x].effect, ~run[x].effect
    PROVE  /\ StoreStep(x) /\ run[x].at = "consume" /\ ~run[x].stopped
           /\ call'[x] = Ended(x, "committed") /\ DispatchReady(x)
  <1>1. PICK r \in Run : r = run[x]
    BY InvParts
  <1>2. ASSUME NEW n \in Run, run' = [run EXCEPT ![x] = n], n.effect <=> r.effect PROVE FALSE
    BY <1>1, <1>2, RunIsSet
  <1>3. ASSUME NEW n \in Run, To(x, n), Past(r, n) PROVE FALSE
    BY <1>2, <1>3 DEF To, Past
  <1>4. ~CaptureFails(x) /\ ~ProducerFails(x) /\ ~Written(x)
    BY <1>1, <1>3, MarkingIs, ProducedIs DEF CaptureFails, ProducerFails, Written
  <1>5. ~Write(x)
    <2>1. PICK n : n = [r EXCEPT !.at = "write"]
      OBVIOUS
    <2>2. n \in Run /\ Past(r, n)
      BY <2>1 DEF Run, Steps, Past
    <2> QED BY <1>1, <1>3, <2>1, <2>2 DEF Write
  <1>6. ~SkipEvidence(x)
    BY <1>1, <1>3, MarkingIs, OverIs DEF SkipEvidence
  <1>7. ~Claim(x)
    <2>1. PICK z \in Run : z = NoRun
      BY NoRunIs
    <2>2. PICK n : n = [z EXCEPT !.at = "claim"]
      OBVIOUS
    <2>3. n \in Run /\ (n.effect <=> z.effect)
      BY <2>2 DEF Run, Steps
    <2>4. PICK o \in Ends : o = "failed"
      BY DEF Ends
    <2>5. AfterClaim(z, o) \in Run /\ (AfterClaim(z, o).effect <=> z.effect)
      BY AfterClaimIs
    <2>6. \A m \in Run : run' = [run EXCEPT ![x] = m] => m.effect
      BY RunIsSet
    <2> QED BY <2>1, <2>2, <2>3, <2>4, <2>5, <2>6, NoRunIs DEF Claim
  <1>8. ASSUME NEW o \in Ends, r.at # "consume" \/ o # "committed",
               run' = [run EXCEPT ![x] = Continued(r, o)], r.at \in Awaiting
        PROVE  FALSE
    <2>1. PICK n : n = Continued(r, o)
      OBVIOUS
    <2>2. n \in Run /\ ~n.effect
      <3>1. CASE r.at = "claim"
        BY <1>1, <2>1, <3>1, AfterClaimIs DEF Continued
      <3>2. CASE r.at = "consume"
        BY <1>1, <1>8, <2>1, <3>2, AfterConsumeIs DEF Continued
      <3>3. CASE r.at = "mark"
        BY <1>1, <2>1, <3>3, AfterMarkIs DEF Continued
      <3>4. CASE r.at = "evidence"
        BY <1>1, <2>1, <3>4, AfterEvidenceIs DEF Continued
      <3> QED BY <1>8, <3>1, <3>2, <3>3, <3>4 DEF Awaiting
    <2> QED BY <1>8, <2>1, <2>2, RunIsSet
  <1>9. ~Consume(x)
    <2>1. PICK n : n = [r EXCEPT !.at = "consume"]
      OBVIOUS
    <2>2. n \in Run /\ (n.effect <=> r.effect)
      BY <2>1 DEF Run, Steps
    <2>3. PICK o \in Ends : o = "failed"
      BY DEF Ends
    <2>4. AfterConsume(r, o) \in Run /\ ~AfterConsume(r, o).effect
      BY <1>1, <2>3, AfterConsumeIs
    <2>5. \A m \in Run : run' = [run EXCEPT ![x] = m] => m.effect
      BY RunIsSet
    <2> QED BY <1>1, <2>1, <2>2, <2>3, <2>4, <2>5 DEF Consume
  <1>10. ASSUME Continue(x), r.at \in Awaiting
         PROVE  /\ call'[x].kind = "none"
                /\ run' = [run EXCEPT ![x] = Continued(r, call'[x].outcome)]
    <2>1. run' # run
      OBVIOUS
    <2> QED BY <1>1, <1>10, <2>1 DEF Continue
  <1>11. x \in Callers
    BY DEF Callers
  <1>12. ASSUME NEW kind \in {"mark", "evidence"}, r.at = kind, ReadThenCall(x, kind), Continue(x)
         PROVE  FALSE
    <2>1. r.at \in Awaiting
      BY <1>12 DEF Awaiting
    <2>2. run[x].at \notin {"none", "done", "lost"} /\ kind \in PortKinds
      BY <1>1, <1>12 DEF PortKinds
    <2>3. call'[x].kind = "none" /\ run' = [run EXCEPT ![x] = Continued(r, call'[x].outcome)]
      BY <1>10, <1>12, <2>1
    <2>4. \E o \in Ends : call'[x] = Ended(x, o)
      <3>1. HandleOf(x) \in Handles
        BY <2>2, InvParts DEF OwnCall, HandleOf
      <3>2. ASSUME EndUnknown(x), UNCHANGED <<disk, port>>
            PROVE  call'[x] = Ended(x, "outcome-unknown")
        BY <1>11, <3>1, <3>2, InvParts, EndUnknownIs
      <3>3. "failed" \in Outcomes
        BY DEF Outcomes
      <3>4. ASSUME End(x, "failed"), UNCHANGED <<disk, port, spent>>
            PROVE  call'[x] = Ended(x, "failed")
        BY <1>11, <3>3, <3>4, InvParts, EndIs
      <3>5. ASSUME BoundCall(x, kind, RecordOf(x).revision)
            PROVE  call'[x] = Ended(x, "failed")
        <4>1. RecordOf(x).revision \in 0..MaxRevision
          <5>1. disk.records[port[x].item] \in Record
            BY InvParts, OwnerTypes, InventoryFields
          <5> QED BY <5>1 DEF RecordOf, Record
        <4>2. Asks(x, port[x].item, kind) \/ Refuses(x)
          BY <2>2, <3>5, <4>1, BoundCallIs
        <4> QED BY <2>2, <2>3, <4>2 DEF Asks, Refuses, PortKinds
      <3> QED BY <1>12, <3>2, <3>4, <3>5 DEF ReadThenCall, Ends
    <2>5. PICK o \in Ends : call'[x] = Ended(x, o)
      BY <2>4
    <2>6. o \in Outcomes
      BY DEF Ends, Outcomes
    <2>7. call'[x].outcome = o
      BY <2>5, <2>6, EndedIs
    <2> QED BY <1>8, <1>12, <2>1, <2>3, <2>7
  <1>13. ~Mark(x) /\ ~RecordEvidence(x)
    BY <1>1, <1>12 DEF Mark, RecordEvidence
  <1>14. StoreStep(x)
    BY <1>4, <1>5, <1>6, <1>7, <1>9, <1>13 DEF Progress
  <1>15. /\ r.at \in Awaiting /\ Continue(x) /\ CallGoes(x)
    BY <1>1, <1>11, <1>14, CallStepIs DEF StoreStep
  <1>16. call'[x].kind = "none" /\ run' = [run EXCEPT ![x] = Continued(r, call'[x].outcome)]
    BY <1>10, <1>15
  <1>17. ~CallFails(x)
    <2>1. ASSUME NEW o \in {"failed", "outcome-unknown"}, call'[x] = Ended(x, o) PROVE FALSE
      <3>1. o \in Ends /\ o \in Outcomes
        BY DEF Ends, Outcomes
      <3>2. call'[x].outcome = o
        BY <2>1, <3>1, EndedIs
      <3> QED BY <1>8, <1>15, <1>16, <3>1, <3>2
    <2> QED BY <2>1 DEF CallFails
  <1>18. ~CallReads(x) /\ ~CallStores(x)
    <2>1. call[x].at # "idle" => call[x].kind # "none"
      BY <1>11, InvParts DEF Prepared
    <2> QED BY <1>16, <2>1 DEF CallReads, CallStores
  <1>19. CallCommits(x)
    BY <1>15, <1>17, <1>18 DEF CallGoes
  <1>20. PICK o \in Ends : o = "committed"
    BY DEF Ends
  <1>21. call'[x] = Ended(x, o) /\ call[x].at = "ended"
    BY <1>19, <1>20 DEF CallCommits
  <1>22. o \in Outcomes
    BY <1>20 DEF Outcomes
  <1>23. run' = [run EXCEPT ![x] = Continued(r, o)]
    <2>1. Ended(x, o).outcome = o
      BY <1>22, EndedIs
    <2> QED BY <1>16, <1>21, <2>1
  <1>24. r.at = "consume"
    BY <1>8, <1>15, <1>23
  <1>25. call[x].kind = "consume"
    BY <1>1, <1>11, <1>21, <1>24, CallerIs
  <1>26. DispatchReady(x)
    BY <1>19, <1>25 DEF CallCommits
  <1>27. ~r.stopped
    <2>1. PICK n : n = AfterConsume(r, o)
      OBVIOUS
    <2>2. n \in Run /\ (n.effect => r.effect \/ ~r.stopped)
      BY <2>1, AfterConsumeIs
    <2>3. run' = [run EXCEPT ![x] = n]
      BY <1>23, <1>24, <2>1 DEF Continued
    <2>4. n.effect
      BY <2>2, <2>3, RunIsSet
    <2> QED BY <1>1, <2>2, <2>4
  <1> QED BY <1>1, <1>14, <1>20, <1>21, <1>24, <1>26, <1>27

LEMMA OthersEffect ==
    ASSUME BInv, NEW x \in Executions, NEW y \in Executions, x # y, Progress(y) \/ Stop(y)
    PROVE  run'[x] = run[x]
  <1>1. ASSUME run' = run \/ \E n : run' = [run EXCEPT ![y] = n] PROVE run'[x] = run[x]
    BY <1>1, InvParts
  <1>2. CASE Claim(y) \/ Consume(y)
    <2>1. CASE Claim(y)
      BY <1>1, <2>1 DEF Claim
    <2>2. CASE Consume(y)
      BY <1>1, <2>2 DEF Consume
    <2> QED BY <1>2, <2>1, <2>2
  <1>3. CASE Mark(y) \/ RecordEvidence(y) \/ StoreStep(y)
    BY <1>1, <1>3 DEF Mark, RecordEvidence, StoreStep, Continue
  <1>4. ASSUME NEW n, To(y, n) PROVE run'[x] = run[x]
    BY <1>1, <1>4 DEF To
  <1>5. CASE CaptureFails(y) \/ Write(y) \/ Written(y) \/ ProducerFails(y) \/ SkipEvidence(y)
    BY <1>4, <1>5 DEF CaptureFails, Write, Written, ProducerFails, SkipEvidence
  <1>6. CASE Stop(y)
    <2>1. PICK t : run' = [run EXCEPT ![y].stopped = TRUE, ![y].staged = t = "staged"]
      BY <1>6 DEF Stop
    <2> QED BY <2>1, InvParts
  <1> QED BY <1>2, <1>3, <1>5, <1>6 DEF Progress

LEMMA EffectIsAllowed ==
    ASSUME BInv, [Next]_vars, NEW x \in Executions, run'[x].effect, ~run[x].effect
    PROVE  lastWord[port[x].handle] = "go" /\ ~run[x].stopped
  <1>1. ASSUME NEW y \in Executions, Progress(y) \/ Stop(y)
        PROVE  x = y /\ Progress(x)
    <2>1. x = y
      BY <1>1, OthersEffect
    <2>2. ~Stop(x)
      <3>1. ASSUME Stop(x) PROVE FALSE
        <4>1. PICK t \in Transports :
                  run' = [run EXCEPT ![x].stopped = TRUE, ![x].staged = t = "staged"]
          BY <3>1 DEF Stop
        <4>2. PICK yes \in BOOLEAN, staged \in BOOLEAN : yes = TRUE /\ staged = (t = "staged")
          OBVIOUS
        <4>3. PICK r \in Run : r = run[x]
          BY InvParts
        <4>4. PICK n : n = [r EXCEPT !.stopped = yes, !.staged = staged]
          OBVIOUS
        <4>5. n \in Run /\ (n.effect <=> r.effect)
          BY <4>4 DEF Run
        <4>6. run' = [run EXCEPT ![x] = n]
          BY <4>1, <4>2, <4>3, <4>4
        <4> QED BY <4>3, <4>5, <4>6, RunIsSet
      <3> QED BY <3>1
    <2> QED BY <1>1, <2>1, <2>2
  <1>2. ASSUME NEW h \in Handles, LosePage(h) PROVE FALSE
    <2>1. PICK z \in Run, r \in Run : z = NoRun /\ r = run[x]
      BY NoRunIs, InvParts
    <2>2. PICK n : n = [z EXCEPT !.at = "lost", !.effect = r.effect]
      OBVIOUS
    <2>3. n.effect <=> r.effect
      BY <2>2 DEF Run
    <2>4. run'[x] = n \/ run'[x] = r
      BY <1>2, <2>1, <2>2 DEF LosePage
    <2> QED BY <2>1, <2>3, <2>4
  <1>3. ASSUME NEW h \in Handles, Operate(h) PROVE FALSE
    BY <1>3 DEF Operate
  <1>4. Progress(x)
    <2>1. CASE Next
      BY <1>1, <1>2, <1>3, <2>1 DEF Next
    <2>2. CASE UNCHANGED vars
      BY <2>2 DEF vars
    <2> QED BY <2>1, <2>2
  <1>5. run[x].at = "consume" /\ ~run[x].stopped /\ DispatchReady(x)
    BY <1>4, OwnEffect
  <1>6. HandleOf(x) = port[x].handle /\ port[x].handle \in Handles
    BY <1>5, InvParts DEF HandleOf, OwnCall
  <1>7. handle[port[x].handle].enabled
    BY <1>5, <1>6 DEF DispatchReady
  <1> QED BY <1>5, <1>6, <1>7, InvParts DEF WordsFollow

\* The inductive invariant: claims are exclusive, what executions have done is stored,
\* the fences in memory follow what the operators last asked for, and the stores can
\* be read back (baseline-owner/index.ts, execution-coordinator/index.ts).
THEOREM BaselineStaysSound == Spec => []BInv
  <1>1. Init => BInv
    BY StartsSound
  <1>2. BInv /\ [Next]_vars => BInv'
    BY StepsHold
  <1> QED BY <1>1, <1>2, PTL DEF Spec

\* Stores, handles, calls and executions keep the shape the code gives them, and what
\* is stored keeps within the limits of a checkpoint (transaction.ts, envelope.ts).
THEOREM TypesHold == Spec => []TypeOK
  <1>1. BInv => TypeOK
    BY DEF BInv
  <1> QED BY <1>1, BaselineStaysSound, PTL

\* The provider is asked at most once about an item, by any number of executions of
\* any number of handles, and never before the stored record says so (`#claim` and
\* `#consume` of baseline-owner/execution.ts).
THEOREM EffectsAreSingle == Spec => []AskedAtMostOnce
  <1>1. BInv => AskedAtMostOnce
    <2> SUFFICES ASSUME BInv PROVE AskedAtMostOnce
      OBVIOUS
    <2>1. \A x \in Executions : run[x].effect => Owned(x)
      BY DEF Owned
    <2>2. \A x \in Executions :
              run[x].effect => RecordOf(x).phase \notin {"untouched", "reserved"}
      BY <2>1, InvParts DEF IsStored, RecordOf, Phase
    <2> QED BY <2>1, <2>2, InvParts DEF AskedAtMostOnce, ClaimsDiffer
  <1> QED BY <1>1, BaselineStaysSound, PTL

\* An execution that has ended told the truth about what is stored, whichever of its
\* transactions failed, was lost or ended unheard (execution-coordinator/index.ts).
THEOREM EndsAreHonest == Spec => []OutcomesAreHonest
  <1>1. BInv => OutcomesAreHonest
    <2> SUFFICES ASSUME BInv, NEW x \in Executions, run[x].at = "done"
                 PROVE  LET phase == RecordOf(x).phase
                            r == run[x]
                        IN  /\ r.evidence = "committed" => phase = "awaiting-resolution"
                            /\ r.claim = "committed" /\ r.evidence \in {"failed", "not-attempted"} =>
                                  phase # "awaiting-resolution"
                            /\ r.uncertainty = "committed" =>
                                  phase \in {"unknown", "awaiting-resolution"}
                            /\ r.claim = "committed" /\ phase = "in-flight" =>
                                  {r.consumption, r.evidence, r.uncertainty}
                                      \cap {"failed", "outcome-unknown"} # {}
                            /\ r.claim # "committed" => ~r.effect
      BY DEF OutcomesAreHonest
    <2>1. PICK r \in Run : r = run[x]
      BY InvParts
    <2>2. PICK phase : phase = RecordOf(x).phase /\ phase = Phase(disk, port[x].item)
      BY DEF RecordOf, Phase
    <2>3. InOrder(x) /\ IsStored(x)
      BY InvParts
    <2>4. call[x].kind = "none"
      BY InvParts DEF OwnCall, PortKinds
    <2>5. ~CallEnded(x, "evidence") /\ (Claimed(x) <=> r.claim = "committed")
      BY <2>1, <2>4 DEF CallEnded, Claimed
    <2>6. /\ r.evidence = "committed" => phase = "awaiting-resolution"
          /\ r.claim = "committed" /\ r.evidence \in {"failed", "not-attempted"} =>
                phase # "awaiting-resolution"
          /\ r.uncertainty = "committed" => phase \in {"unknown", "awaiting-resolution"}
      BY <2>1, <2>2, <2>3, <2>5 DEF IsStored
    <2>7. /\ r.claim = "committed" =>
               \/ r.consumption \in {"failed", "outcome-unknown"}
               \/ r.evidence # "not-attempted" \/ r.uncertainty # "not-attempted"
          /\ r.claim # "committed" => ~r.effect
      BY <2>1, <2>3 DEF InOrder
    <2>8. r.evidence \in Outcomes /\ r.uncertainty \in Outcomes
      BY DEF Run
    <2>9. r.claim = "committed" /\ phase = "in-flight" =>
              \/ r.consumption \in {"failed", "outcome-unknown"}
              \/ r.evidence \in {"failed", "outcome-unknown"}
              \/ r.uncertainty \in {"failed", "outcome-unknown"}
      BY <2>6, <2>7, <2>8 DEF Outcomes
    <2> QED BY <2>1, <2>2, <2>6, <2>7, <2>9
  <1> QED BY <1>1, BaselineStaysSound, PTL

\* What a commit stores is never refused by a later read, and what the pending
\* operation may still need fits (`validateInventory`, `assertExecutionHeadroom`).
THEOREM NothingIsLockedOut == Spec => []StoredIsUsable
  <1>1. BInv => StoredIsUsable
    BY UsableIs
  <1> QED BY <1>1, BaselineStaysSound, PTL

\* The provider is only asked through a handle whose operator last said go, and never
\* for an execution that was told to stop (the fences of baseline-owner/index.ts, and
\* the latch of the coordinator).
THEOREM StopsHold == Spec => NoEffectAfterStop
  <1>1. BInv /\ [Next]_vars =>
            [\A x \in Executions :
                run'[x].effect /\ ~run[x].effect =>
                    lastWord[port[x].handle] = "go" /\ ~run[x].stopped]_vars
    BY EffectIsAllowed
  <1> QED BY <1>1, BaselineStaysSound, PTL DEF Spec, NoEffectAfterStop
=============================================================================

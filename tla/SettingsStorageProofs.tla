------------------------ MODULE SettingsStorageProofs ------------------------
(***************************************************************************)
(* SettingsStorage, proved for any number of popups, any keys and any      *)
(* bounds on what users and browsers do: what was reported as saved is     *)
(* stored, and no choice is undone by an older one.                        *)
(***************************************************************************)
EXTENDS SettingsStorage, TLAPS

\* The numbers only grow: everything stored is older than what waits, and what
\* waits is in the order of the requests.
Ordered ==
    /\ rest <= sync.rest /\ promise.number <= rest
    /\ sync.rest <= requests /\ sync.outputs <= requests /\ override <= requests
    /\ \A i \in DOMAIN queue : queue[i].number <= requests
    /\ \A i \in DOMAIN queue : queue[i].kind # "migrate" =>
        sync.rest < queue[i].number /\ sync.outputs < queue[i].number
    /\ \A i, j \in DOMAIN queue : i < j => queue[i].number < queue[j].number

\* Only the first mutation is under way.  It has read the synced area as it is,
\* and a key it carries is stored once it is past the local area.
OneAtATime ==
    /\ \A i \in DOMAIN queue :
        /\ queue[i].at \in {"read", "write"} => i = 1
        /\ queue[i].at = "key" => queue[i].key # Absent
        /\ queue[i].at = "look" => queue[i].key = Absent
        /\ queue[i].at \in {"read", "write"} /\ queue[i].key # Absent =>
            local.key = queue[i].key /\ local.number = queue[i].number
        /\ queue[i].at = "write" => base = sync
        /\ queue[i].may => local.key # Absent
        /\ queue[i].kind = "migrate" => queue[i].key = Absent
    /\ local.key = Absent => local.number = 0

\* A key is sent exactly if its user chose it, and the form it came from knows
\* which one was sent and that nobody knows what is stored.
KeysAreChosen ==
    \A i \in DOMAIN queue :
        /\ queue[i].key # Absent <=> queue[i].edited
        /\ queue[i].kind \in {"save", "test"} /\ queue[i].popup \in Popups =>
            /\ form[queue[i].popup].open
            /\ form[queue[i].popup].sent # Absent
            /\ queue[i].key = Absent => ~form[queue[i].popup].uncertain
            /\ queue[i].key # Absent => form[queue[i].popup].sent = queue[i].key

\* A form is uncertain exactly while its user's key may or may not be stored.
FormsAreCertain ==
    \A p \in Popups :
        /\ form[p].uncertain <=> form[p].tried
        /\ form[p].uncertain \/ form[p].saved = form[p].known

\* The outputs in use are those of the newest switch, and a message that read
\* older ones has a revision that is no longer the worker's.
SwitchesHold ==
    /\ toggled <= Effective
    /\ message.at = "authorizing" /\ message.revision = requests => message.outputs >= toggled
    /\ message.revision <= requests

SInv ==
    /\ TypeOK /\ Ordered /\ OneAtATime /\ KeysAreChosen /\ FormsAreCertain /\ SwitchesHold
    /\ AcknowledgedIsStored

-----------------------------------------------------------------------------
(* The queue.                                                              *)

LEMMA Indices ==
    ASSUME NEW S, NEW s \in Seq(S)
    PROVE  /\ DOMAIN s = 1 .. Len(s) /\ Len(s) \in Nat
           /\ \A i \in DOMAIN s : s[i] \in S /\ i \in Nat /\ i >= 1
           /\ s # <<>> => 1 \in DOMAIN s /\ Head(s) = s[1] /\ Head(s) \in S
  <1>1. DOMAIN s = 1 .. Len(s) /\ Len(s) \in Nat
    OBVIOUS
  <1>2. \A i \in DOMAIN s : s[i] \in S /\ i \in Nat /\ i >= 1
    BY <1>1
  <1>3. s # <<>> => 1 \in DOMAIN s /\ Head(s) = s[1] /\ Head(s) \in S
    BY <1>1
  <1> QED BY <1>1, <1>2, <1>3

\* The first mutation is over.
LEMMA TailIsShifted ==
    ASSUME NEW S, NEW s \in Seq(S), s # <<>>
    PROVE  /\ Tail(s) \in Seq(S)
           /\ \A i \in DOMAIN Tail(s) : i + 1 \in DOMAIN s /\ Tail(s)[i] = s[i + 1]
  <1>1. Tail(s) \in Seq(S) /\ Len(Tail(s)) = Len(s) - 1 /\ Len(s) \in Nat \ {0}
    OBVIOUS
  <1>2. DOMAIN Tail(s) = 1 .. Len(s) - 1 /\ DOMAIN s = 1 .. Len(s)
    BY <1>1
  <1>3. \A i \in 1 .. Len(s) - 1 : Tail(s)[i] = s[i + 1]
    BY <1>1
  <1> QED BY <1>1, <1>2, <1>3

\* The first mutation is at its next step.
LEMMA HeadIsReplaced ==
    ASSUME NEW S, NEW s \in Seq(S), s # <<>>, NEW x \in S
    PROVE  /\ <<x>> \o Tail(s) \in Seq(S)
           /\ DOMAIN (<<x>> \o Tail(s)) = DOMAIN s
           /\ (<<x>> \o Tail(s))[1] = x
           /\ \A i \in DOMAIN s : i # 1 => (<<x>> \o Tail(s))[i] = s[i]
  <1>1. Tail(s) \in Seq(S) /\ Len(Tail(s)) = Len(s) - 1 /\ Len(s) \in Nat \ {0}
    OBVIOUS
  <1>2. <<x>> \in Seq(S) /\ Len(<<x>>) = 1 /\ <<x>>[1] = x
    OBVIOUS
  <1>3. <<x>> \o Tail(s) \in Seq(S) /\ Len(<<x>> \o Tail(s)) = Len(s)
    BY <1>1, <1>2
  <1>4. DOMAIN (<<x>> \o Tail(s)) = DOMAIN s /\ DOMAIN s = 1 .. Len(s)
    BY <1>3
  <1>5. (<<x>> \o Tail(s))[1] = x
    BY <1>1, <1>2
  <1>6. ASSUME NEW i \in DOMAIN s, i # 1 PROVE (<<x>> \o Tail(s))[i] = s[i]
    <2>1. i \in 2 .. Len(s)
      BY <1>4, <1>6
    <2>2. (<<x>> \o Tail(s))[i] = Tail(s)[i - 1]
      BY <1>1, <1>2, <2>1
    <2> QED BY <1>1, <2>1, <2>2
  <1> QED BY <1>3, <1>4, <1>5, <1>6

LEMMA LastIsAdded ==
    ASSUME NEW S, NEW s \in Seq(S), NEW x \in S
    PROVE  /\ Append(s, x) \in Seq(S)
           /\ DOMAIN Append(s, x) = DOMAIN s \cup {Len(s) + 1}
           /\ Len(s) + 1 \notin DOMAIN s
           /\ \A i \in DOMAIN s : Append(s, x)[i] = s[i]
           /\ Append(s, x)[Len(s) + 1] = x
  <1>1. Append(s, x) \in Seq(S) /\ Len(Append(s, x)) = Len(s) + 1 /\ Len(s) \in Nat
    OBVIOUS
  <1>2. DOMAIN Append(s, x) = 1 .. Len(s) + 1 /\ DOMAIN s = 1 .. Len(s)
    BY <1>1
  <1> QED BY <1>1, <1>2

LEMMA Spent ==
    ASSUME NEW what \in Disturbances, spent \in [Disturbances -> Nat], Spend(what)
    PROVE  spent' \in [Disturbances -> Nat] /\ spent'[what] = spent[what] + 1
  BY DEF Spend

LEMMA MutationFields ==
    ASSUME NEW m \in Mutation
    PROVE  /\ m.kind \in {"save", "test", "switch", "migrate"}
           /\ m.popup \in Popups \cup {"none"} /\ m.number \in Nat
           /\ m.key \in AnyKey \cup {Absent} /\ m.edited \in BOOLEAN
           /\ m.at \in {"key", "look", "read", "write"} /\ m.may \in BOOLEAN
  BY DEF Mutation

LEMMA KeysAreKeys == Absent \notin AnyKey
  BY SettingsParameters DEF AnyKey, Absent, Blank

-----------------------------------------------------------------------------
(* A step that leaves the queue, the storage and the promises alone.       *)

LEMMA Initially == Init => SInv
  <1> SUFFICES ASSUME Init PROVE SInv
    OBVIOUS
  <1>1. /\ queue = <<Migration>> /\ base = sync /\ override = NoOverride /\ requests = 0
        /\ message = NoMessage /\ form = [p \in Popups |-> Closed] /\ toggled = 0
        /\ promise = [key |-> Blank, number |-> 0] /\ rest = 0
        /\ spent = [d \in Disturbances |-> 0]
        /\ local.key \in {Absent, LegacyKey} /\ local.number = 0
        /\ sync.outputs = 0 /\ sync.rest = 0 /\ sync.legacy \in {Absent, LegacyKey}
        /\ local \in [key: {Absent, LegacyKey}, number: Nat]
        /\ sync \in [outputs: Nat, rest: Nat, legacy: {Absent, LegacyKey}]
    BY DEF Init
  <1>2. Migration \in Mutation
    BY DEF Migration, Mutation
  <1>3. queue \in Seq(Mutation) /\ DOMAIN queue = {1} /\ queue[1] = Migration
    BY <1>1, <1>2
  <1>4. TypeOK
    BY <1>1, <1>3 DEF TypeOK, AnyKey, NoOverride, NoMessage, Closed
  <1>5. Ordered
    BY <1>1, <1>3 DEF Ordered, Migration, NoOverride
  <1>6. OneAtATime
    BY <1>1, <1>3 DEF OneAtATime, Migration
  <1>7. KeysAreChosen
    BY <1>1, <1>3 DEF KeysAreChosen, Migration
  <1>8. FormsAreCertain
    BY <1>1 DEF FormsAreCertain, Closed
  <1>9. SwitchesHold
    BY <1>1 DEF SwitchesHold, NoMessage, Effective, NoOverride
  <1>10. AcknowledgedIsStored
    BY <1>1 DEF AcknowledgedIsStored
  <1> QED BY <1>4, <1>5, <1>6, <1>7, <1>8, <1>9, <1>10 DEF SInv

\* What a step must do, whichever it is.
Good == SInv' /\ KeyIsKept /\ NewestOutputsWin

LEMMA Untouched ==
    ASSUME SInv, UNCHANGED <<local, sync, override, message, toggled>>
    PROVE  KeyIsKept /\ NewestOutputsWin
  <1>1. Effective \in Int /\ sync.outputs \in Int /\ toggled \in Int
    BY DEF SInv, TypeOK, Effective, NoOverride
  <1>2. Effective' = Effective
    BY DEF Effective
  <1>3. NewestOutputsWin
    <2>1. toggled <= Effective
      BY DEF SInv, SwitchesHold
    <2>2. Effective' >= Effective /\ sync'.outputs >= sync.outputs /\ Effective' >= toggled'
      BY <1>1, <1>2, <2>1
    <2>3. ~(message.at = "authorizing" /\ message'.at = "dispatched")
      OBVIOUS
    <2> QED BY <2>2, <2>3 DEF NewestOutputsWin
  <1>4. KeyIsKept
    BY DEF KeyIsKept
  <1> QED BY <1>3, <1>4

\* A step of a user who edits a form leaves the worker and its storage alone.
LEMMA WorkerUntouched ==
    ASSUME SInv, UNCHANGED <<local, sync, queue, base, override, requests, message, toggled,
                             promise, rest>>
    PROVE  Ordered' /\ OneAtATime' /\ SwitchesHold' /\ AcknowledgedIsStored'
  BY DEF SInv, Ordered, OneAtATime, SwitchesHold, AcknowledgedIsStored, Effective

\* The records a form is.
FormRecord ==
    [open: BOOLEAN, shown: AnyKey, saved: AnyKey, uncertain: BOOLEAN,
     sent: AnyKey \cup {Absent}, known: AnyKey, tried: BOOLEAN]

LEMMA OneFormChanges ==
    ASSUME NEW p \in Popups, NEW f \in FormRecord, form \in [Popups -> FormRecord],
           form' = [form EXCEPT ![p] = f]
    PROVE  /\ form' \in [Popups -> FormRecord]
           /\ form'[p] = f
           /\ \A q \in Popups : q # p => form'[q] = form[q]
  <1>1. form' = [q \in Popups |-> IF q = p THEN f ELSE form[q]]
    OBVIOUS
  <1> QED BY <1>1

LEMMA FormFields ==
    ASSUME NEW f \in FormRecord
    PROVE  /\ f.open \in BOOLEAN /\ f.shown \in AnyKey /\ f.saved \in AnyKey
           /\ f.uncertain \in BOOLEAN /\ f.sent \in AnyKey \cup {Absent}
           /\ f.known \in AnyKey /\ f.tried \in BOOLEAN
  BY DEF FormRecord

LEMMA OpensHolds ==
    ASSUME SettingsParameters, SInv, NEW p \in Popups, Opens(p) PROVE Good
  <1> DEFINE f == [Closed EXCEPT !.open = TRUE, !.shown = LocalKey,
                                 !.saved = LocalKey, !.known = LocalKey]
  <1>1. /\ ~form[p].open /\ form' = [form EXCEPT ![p] = f]
        /\ UNCHANGED <<local, sync, queue, base, override, requests, message, toggled, promise,
                       rest, spent>>
    BY DEF Opens, storage, worker
  <1>2. TypeOK /\ form \in [Popups -> FormRecord]
    BY DEF SInv, TypeOK, FormRecord
  <1>3. LocalKey \in AnyKey
    BY <1>2 DEF TypeOK, LocalKey, AnyKey
  <1>4. /\ f.saved = f.known /\ f.uncertain = FALSE /\ f.tried = FALSE
        /\ f \in FormRecord
    BY <1>3 DEF Closed, FormRecord
  <1> HIDE DEF f
  <1>5. /\ form' \in [Popups -> FormRecord] /\ form'[p] = f
        /\ \A q \in Popups : q # p => form'[q] = form[q]
    BY <1>1, <1>2, <1>4, OneFormChanges
  <1>6. /\ UNCHANGED <<local, sync, queue, base, override, requests, message, toggled, promise,
                       rest, spent>>
        /\ ~form[p].open
    BY <1>1
  <1>7. TypeOK'
    BY <1>2, <1>5, <1>6 DEF TypeOK, FormRecord
  <1>8. KeysAreChosen'
    BY <1>5, <1>6 DEF SInv, KeysAreChosen
  <1>9. FormsAreCertain'
    BY <1>4, <1>5 DEF SInv, FormsAreCertain
  <1>10. Ordered' /\ OneAtATime' /\ SwitchesHold' /\ AcknowledgedIsStored'
    BY <1>6, WorkerUntouched
  <1>11. KeyIsKept /\ NewestOutputsWin
    BY <1>6, Untouched
  <1> QED BY <1>7, <1>8, <1>9, <1>10, <1>11 DEF Good, SInv

LEMMA TypesHolds ==
    ASSUME SettingsParameters, SInv, NEW p \in Popups, NEW k \in Keys \cup {Blank}, Types(p, k)
    PROVE  Good
  <1> DEFINE f == [form[p] EXCEPT !.shown = k]
  <1>1. /\ form' = [form EXCEPT ![p] = f] /\ Spend("typed")
        /\ UNCHANGED <<local, sync, queue, base, override, requests, message, toggled, promise,
                       rest>>
    BY DEF Types, storage, worker
  <1>2. TypeOK /\ form \in [Popups -> FormRecord]
    BY DEF SInv, TypeOK, FormRecord
  <1>3. spent' \in [Disturbances -> Nat]
    BY <1>1, <1>2, Spent DEF TypeOK, Disturbances
  <1>4. /\ f.open = form[p].open /\ f.saved = form[p].saved /\ f.known = form[p].known
        /\ f.uncertain = form[p].uncertain /\ f.sent = form[p].sent /\ f.tried = form[p].tried
        /\ f \in FormRecord
    BY <1>2 DEF FormRecord, AnyKey
  <1> HIDE DEF f
  <1>5. /\ form' \in [Popups -> FormRecord] /\ form'[p] = f
        /\ \A q \in Popups : q # p => form'[q] = form[q]
    BY <1>1, <1>2, <1>4, OneFormChanges
  <1>6. UNCHANGED <<local, sync, queue, base, override, requests, message, toggled, promise, rest>>
    BY <1>1
  <1>7. TypeOK'
    BY <1>2, <1>3, <1>5, <1>6 DEF TypeOK, FormRecord
  <1>8. KeysAreChosen'
    BY <1>4, <1>5, <1>6 DEF SInv, KeysAreChosen
  <1>9. FormsAreCertain'
    BY <1>4, <1>5 DEF SInv, FormsAreCertain
  <1>10. Ordered' /\ OneAtATime' /\ SwitchesHold' /\ AcknowledgedIsStored'
    BY <1>6, WorkerUntouched
  <1>11. KeyIsKept /\ NewestOutputsWin
    BY <1>6, Untouched
  <1> QED BY <1>7, <1>8, <1>9, <1>10, <1>11 DEF Good, SInv

LEMMA ClosesHolds ==
    ASSUME SettingsParameters, SInv, NEW p \in Popups, Closes(p) PROVE Good
  <1>1. /\ Spend("popup closed") /\ form' = [form EXCEPT ![p] = Closed]
        /\ queue' = [i \in DOMAIN queue |->
                       IF queue[i].popup = p THEN [queue[i] EXCEPT !.popup = "none"] ELSE queue[i]]
        /\ UNCHANGED <<local, sync, base, override, requests, message, toggled, promise, rest>>
    BY DEF Closes, storage
  <1>2. TypeOK /\ form \in [Popups -> FormRecord]
    BY DEF SInv, TypeOK, FormRecord
  <1>3. spent' \in [Disturbances -> Nat]
    BY <1>1, <1>2, Spent DEF TypeOK, Disturbances
  <1>4. /\ queue \in Seq(Mutation) /\ DOMAIN queue = 1 .. Len(queue) /\ Len(queue) \in Nat
        /\ \A i \in DOMAIN queue : queue[i] \in Mutation
    BY <1>2, Indices DEF TypeOK
  <1>5. DOMAIN queue' = DOMAIN queue
    BY <1>1
  <1>6. ASSUME NEW i \in DOMAIN queue
        PROVE  /\ queue'[i] \in Mutation
               /\ queue'[i].kind = queue[i].kind /\ queue'[i].number = queue[i].number
               /\ queue'[i].key = queue[i].key /\ queue'[i].edited = queue[i].edited
               /\ queue'[i].at = queue[i].at /\ queue'[i].may = queue[i].may
               /\ queue'[i].popup \in Popups => queue'[i].popup = queue[i].popup /\ queue[i].popup # p
    <2>1. queue[i] \in Mutation
      BY <1>4
    <2>2. CASE queue[i].popup = p
      <3>1. queue'[i] = [queue[i] EXCEPT !.popup = "none"]
        BY <1>1, <2>2
      <3> QED BY <2>1, <3>1, SettingsParameters DEF Mutation, SettingsParameters
    <2>3. CASE queue[i].popup # p
      <3>1. queue'[i] = queue[i]
        BY <1>1, <2>3
      <3> QED BY <2>1, <2>3, <3>1
    <2> QED BY <2>2, <2>3
  <1>7. queue' \in Seq(Mutation)
    <2>1. queue' \in [1 .. Len(queue) -> Mutation]
      BY <1>1, <1>4, <1>6
    <2> QED BY <1>4, <2>1
  <1>8. Closed \in FormRecord /\ Closed.uncertain = FALSE /\ Closed.tried = FALSE
            /\ Closed.saved = Closed.known
    BY DEF Closed, AnyKey, FormRecord
  <1>9. /\ form' \in [Popups -> FormRecord] /\ form'[p] = Closed
        /\ \A q \in Popups : q # p => form'[q] = form[q]
    BY <1>1, <1>2, <1>8, OneFormChanges
  <1>10. UNCHANGED <<local, sync, base, override, requests, message, toggled, promise, rest>>
    BY <1>1
  <1>11. TypeOK'
    BY <1>2, <1>3, <1>7, <1>9, <1>10 DEF TypeOK, FormRecord
  <1>12. KeysAreChosen'
    BY <1>5, <1>6, <1>9 DEF SInv, KeysAreChosen
  <1>13. FormsAreCertain'
    BY <1>8, <1>9 DEF SInv, FormsAreCertain
  <1>14. Ordered'
    BY <1>5, <1>6, <1>10 DEF SInv, Ordered
  <1>15. OneAtATime'
    BY <1>5, <1>6, <1>10 DEF SInv, OneAtATime
  <1>16. SwitchesHold' /\ AcknowledgedIsStored'
    BY <1>10 DEF SInv, SwitchesHold, AcknowledgedIsStored, Effective
  <1>17. KeyIsKept /\ NewestOutputsWin
    BY <1>10, Untouched
  <1> QED BY <1>11, <1>12, <1>13, <1>14, <1>15, <1>16, <1>17 DEF Good, SInv

-----------------------------------------------------------------------------
(* A request is queued.                                                    *)

\* What the queue, the counter and the form are after a request of any kind.
Requested(p, kind, key, edited) ==
    /\ requests' = requests + 1
    /\ queue' = Append(queue, [kind |-> kind, popup |-> p, number |-> requests', key |-> key,
                               edited |-> edited, at |-> IF key = Absent THEN "look" ELSE "key",
                               may |-> FALSE])
    /\ UNCHANGED <<local, sync, base, message, promise, rest>>

\* What waits then.
Queued(p, kind, key, edited) ==
    /\ queue' \in Seq(Mutation) /\ requests' \in Nat
    /\ DOMAIN queue' = DOMAIN queue \cup {Len(queue) + 1}
    /\ Len(queue) + 1 \notin DOMAIN queue
    /\ \A i \in DOMAIN queue : queue'[i] = queue[i]
    /\ queue'[Len(queue) + 1].kind = kind /\ queue'[Len(queue) + 1].popup = p
    /\ queue'[Len(queue) + 1].key = key /\ queue'[Len(queue) + 1].edited = edited
    /\ Ordered' \/ ~(override' <= requests')
    /\ OneAtATime'

LEMMA RequestsQueue ==
    ASSUME SettingsParameters, SInv, NEW p \in Popups, NEW kind \in {"save", "test", "switch"},
           NEW key \in AnyKey \cup {Absent}, NEW edited \in BOOLEAN,
           Requested(p, kind, key, edited)
    PROVE  Queued(p, kind, key, edited)
  <1> DEFINE n == Len(queue) + 1
  <1> DEFINE m == [kind |-> kind, popup |-> p, number |-> requests', key |-> key,
                   edited |-> edited, at |-> IF key = Absent THEN "look" ELSE "key",
                   may |-> FALSE]
  <1>1. /\ requests' = requests + 1 /\ queue' = Append(queue, m)
        /\ UNCHANGED <<local, sync, base, message, promise, rest>>
    BY DEF Requested
  <1>2. TypeOK /\ requests \in Nat /\ queue \in Seq(Mutation)
    BY DEF SInv, TypeOK
  <1>3. /\ m.kind = kind /\ m.popup = p /\ m.number = requests' /\ m.key = key
        /\ m.edited = edited /\ m.may = FALSE
        /\ key = Absent => m.at = "look"
        /\ key # Absent => m.at = "key"
        /\ m \in Mutation
    BY <1>1, <1>2 DEF Mutation
  <1> HIDE DEF m
  <1>4. /\ queue' \in Seq(Mutation) /\ DOMAIN queue' = DOMAIN queue \cup {n}
        /\ n \notin DOMAIN queue /\ queue'[n] = m
        /\ \A i \in DOMAIN queue : queue'[i] = queue[i]
    BY <1>1, <1>2, <1>3, LastIsAdded
  <1>5. /\ DOMAIN queue = 1 .. Len(queue) /\ Len(queue) \in Nat
        /\ \A i \in DOMAIN queue : queue[i] \in Mutation /\ queue[i].number \in Nat
    BY <1>2, Indices, MutationFields
  <1>6. \A i \in DOMAIN queue : i < n /\ queue[i].number <= requests
    BY <1>5 DEF SInv, Ordered
  <1>7. Ordered' \/ ~(override' <= requests')
    <2> SUFFICES ASSUME override' <= requests' PROVE Ordered'
      OBVIOUS
    <2>1. sync.rest \in Nat /\ sync.outputs \in Nat
      BY <1>2 DEF TypeOK
    <2>2. rest <= sync.rest /\ promise.number <= rest /\ sync.rest <= requests /\ sync.outputs <= requests
      BY DEF SInv, Ordered
    <2>3. rest' <= sync'.rest /\ promise'.number <= rest'
      BY <1>1, <2>2
    <2>4. sync'.rest <= requests' /\ sync'.outputs <= requests'
      BY <1>1, <1>2, <2>1, <2>2
    <2>5. sync'.rest < m.number /\ sync'.outputs < m.number /\ m.number <= requests'
      BY <1>1, <1>2, <1>3, <2>1, <2>2
    <2>6. \A i \in DOMAIN queue' : queue'[i].number <= requests'
      BY <1>1, <1>2, <1>4, <1>5, <1>6, <2>5
    <2>7. \A i \in DOMAIN queue' : queue'[i].kind # "migrate" =>
              sync'.rest < queue'[i].number /\ sync'.outputs < queue'[i].number
      BY <1>1, <1>4, <2>5 DEF SInv, Ordered
    <2>8. \A i, j \in DOMAIN queue' : i < j => queue'[i].number < queue'[j].number
      <3> SUFFICES ASSUME NEW i \in DOMAIN queue', NEW j \in DOMAIN queue', i < j
                   PROVE  queue'[i].number < queue'[j].number
        OBVIOUS
      <3>1. i \in DOMAIN queue
        BY <1>4, <1>5
      <3>2. CASE j = n
        BY <1>1, <1>2, <1>3, <1>4, <1>5, <1>6, <3>1, <3>2
      <3>3. CASE j # n
        BY <1>4, <3>1, <3>3 DEF SInv, Ordered
      <3> QED BY <3>2, <3>3
    <2> QED BY <2>3, <2>4, <2>6, <2>7, <2>8 DEF Ordered
  <1>8. OneAtATime'
    <2>1. UNCHANGED <<local, base, sync>>
      BY <1>1
    <2> QED BY <1>3, <1>4, <2>1 DEF SInv, OneAtATime
  <1>9. requests' \in Nat
    BY <1>1, <1>2
  <1> QED BY <1>3, <1>4, <1>7, <1>8, <1>9 DEF Queued

\* The forms after a key was sent, or the settings without one.
LEMMA Sends ==
    ASSUME SettingsParameters, SInv, NEW p \in Popups, NEW kind \in {"save", "test"},
           NEW key \in AnyKey \cup {Absent}, NEW edited \in BOOLEAN,
           Requested(p, kind, key, edited), Spend("request"), form[p].open,
           ~Waiting(p, {"save", "test", "switch"}),
           key = Absent => ~form[p].uncertain,
           key # Absent <=> edited,
           UNCHANGED <<override, toggled>>,
           NEW f \in FormRecord, form' = [form EXCEPT ![p] = f],
           f.open, f.sent = form[p].shown, f.tried <=> f.uncertain,
           f.saved = form[p].saved, f.known = form[p].known,
           key = Absent => ~f.uncertain,
           key # Absent => key = form[p].shown /\ f.uncertain,
           ~f.uncertain => ~form[p].uncertain
    PROVE  Good
  <1> DEFINE n == Len(queue) + 1
  <1>1. TypeOK /\ form \in [Popups -> FormRecord] /\ requests \in Nat
    BY DEF SInv, TypeOK, FormRecord
  <1>2. spent' \in [Disturbances -> Nat]
    BY <1>1, Spent DEF TypeOK, Disturbances
  <1>3. requests' = requests + 1 /\ UNCHANGED <<local, sync, base, message, promise, rest>>
    BY DEF Requested
  <1>4. override' <= requests'
    <2>1. override \in Int /\ override <= requests
      BY DEF SInv, Ordered, TypeOK, NoOverride
    <2> QED BY <1>1, <1>3, <2>1
  <1>5. /\ queue' \in Seq(Mutation) /\ requests' \in Nat
        /\ DOMAIN queue' = DOMAIN queue \cup {n}
        /\ n \notin DOMAIN queue
        /\ \A i \in DOMAIN queue : queue'[i] = queue[i]
        /\ queue'[n].kind = kind /\ queue'[n].popup = p
        /\ queue'[n].key = key /\ queue'[n].edited = edited
        /\ Ordered' \/ ~(override' <= requests')
        /\ OneAtATime'
    <2>1. Queued(p, kind, key, edited)
      BY RequestsQueue
    <2> QED BY <2>1 DEF Queued
  <1>6. /\ form' \in [Popups -> FormRecord] /\ form'[p] = f
        /\ \A q \in Popups : q # p => form'[q] = form[q]
    BY <1>1, OneFormChanges
  <1>7. form[p].shown # Absent
    BY <1>1, FormFields, KeysAreKeys
  <1>8. TypeOK'
    BY <1>1, <1>2, <1>3, <1>5, <1>6 DEF TypeOK, FormRecord
  <1>9. KeysAreChosen'
    <2>1. \A i \in DOMAIN queue' : queue'[i].key # Absent <=> queue'[i].edited
      BY <1>5 DEF SInv, KeysAreChosen
    <2>2. ASSUME NEW i \in DOMAIN queue', queue'[i].kind \in {"save", "test"},
                 queue'[i].popup \in Popups
          PROVE  /\ form'[queue'[i].popup].open
                 /\ form'[queue'[i].popup].sent # Absent
                 /\ queue'[i].key = Absent => ~form'[queue'[i].popup].uncertain
                 /\ queue'[i].key # Absent => form'[queue'[i].popup].sent = queue'[i].key
      <3>1. CASE i = n
        BY <1>5, <1>6, <1>7, <3>1
      <3>2. CASE i # n
        <4>1. i \in DOMAIN queue /\ queue'[i] = queue[i]
          BY <1>5, <3>2
        <4>2. queue[i].popup # p
          BY <2>2, <4>1 DEF Waiting
        <4> QED BY <1>6, <2>2, <4>1, <4>2 DEF SInv, KeysAreChosen
      <3> QED BY <3>1, <3>2
    <2> QED BY <2>1, <2>2 DEF KeysAreChosen
  <1>10. FormsAreCertain'
    BY <1>6 DEF SInv, FormsAreCertain
  <1>11. SwitchesHold'
    <2>1. message.revision \in Nat /\ message.revision <= requests
      BY <1>1 DEF TypeOK, SInv, SwitchesHold
    <2>2. message'.revision <= requests' /\ message'.revision # requests'
      BY <1>1, <1>3, <2>1
    <2>3. toggled' <= Effective'
      BY <1>3 DEF SInv, SwitchesHold, Effective
    <2> QED BY <2>2, <2>3 DEF SwitchesHold
  <1>12. AcknowledgedIsStored'
    BY <1>3 DEF SInv, AcknowledgedIsStored
  <1>13. KeyIsKept /\ NewestOutputsWin
    BY <1>3, Untouched
  <1> QED BY <1>4, <1>5, <1>8, <1>9, <1>10, <1>11, <1>12, <1>13 DEF Good, SInv

LEMMA SavesHolds ==
    ASSUME SettingsParameters, SInv, NEW p \in Popups, Saves(p) PROVE Good
  <1> DEFINE key == SentKey(p)
  <1> DEFINE f == WhileSending(p, key)
  <1>1. /\ form[p].open /\ ~Waiting(p, {"save", "test", "switch"}) /\ Spend("request")
        /\ Requested(p, "save", key, Edited(p))
        /\ form' = [form EXCEPT ![p] = f]
        /\ UNCHANGED <<override, toggled>>
    BY DEF Saves, MayAct, Enqueued, Requested, storage
  <1>2. form \in [Popups -> FormRecord]
    BY DEF SInv, TypeOK, FormRecord
  <1>3. /\ form[p] \in FormRecord /\ form[p].shown \in AnyKey /\ form[p].saved \in AnyKey
        /\ form[p].uncertain \in BOOLEAN /\ form[p].tried \in BOOLEAN
    BY <1>2, FormFields
  <1>4. Edited(p) \in BOOLEAN
    BY <1>3 DEF Edited
  <1>5. /\ form[p].uncertain <=> form[p].tried
        /\ form[p].uncertain \/ form[p].saved = form[p].known
    BY DEF SInv, FormsAreCertain
  <1>6. \/ key = Absent /\ form[p].shown = form[p].saved /\ ~form[p].uncertain
        \/ key = form[p].shown /\ key # Absent /\ (form[p].uncertain \/ form[p].shown # form[p].saved)
    BY <1>3, KeysAreKeys DEF SentKey
  <1>7. key \in AnyKey \cup {Absent} /\ (key # Absent <=> Edited(p))
    BY <1>3, <1>5, <1>6 DEF Edited
  <1> HIDE DEF key
  <1>8. /\ f.open <=> form[p].open
        /\ f.sent = form[p].shown /\ f.saved = form[p].saved /\ f.known = form[p].known
    BY <1>3 DEF WhileSending, FormRecord
  <1>9. f.tried <=> Edited(p)
    BY <1>3 DEF WhileSending, FormRecord
  <1>10. f.uncertain <=> (form[p].uncertain \/ key # Absent)
    BY <1>3 DEF WhileSending, FormRecord
  <1>11. f \in FormRecord
    BY <1>3, <1>4 DEF WhileSending, FormRecord
  <1> HIDE DEF f
  <1>12. /\ key = Absent => ~form[p].uncertain
         /\ f.tried <=> f.uncertain
         /\ key = Absent => ~f.uncertain
         /\ key # Absent => key = form[p].shown /\ f.uncertain
         /\ ~f.uncertain => ~form[p].uncertain
    BY <1>6, <1>7, <1>9, <1>10
  <1> DEFINE e == Edited(p)
  <1>13. Requested(p, "save", key, e) /\ e \in BOOLEAN /\ (key # Absent <=> e)
    BY <1>1, <1>4, <1>7
  <1> HIDE DEF e
  <1> QED BY <1>1, <1>7, <1>8, <1>11, <1>12, <1>13, Sends

LEMMA TestsHolds ==
    ASSUME SettingsParameters, SInv, NEW p \in Popups, Tests(p) PROVE Good
  <1> DEFINE key == form[p].shown
  <1> DEFINE f == [WhileSending(p, key) EXCEPT !.tried = TRUE]
  <1>1. /\ form[p].open /\ ~Waiting(p, {"save", "test", "switch"}) /\ Spend("request")
        /\ Requested(p, "test", key, TRUE)
        /\ form' = [form EXCEPT ![p] = f]
        /\ UNCHANGED <<override, toggled>>
    BY DEF Tests, MayAct, Enqueued, Requested, storage
  <1>2. form \in [Popups -> FormRecord]
    BY DEF SInv, TypeOK, FormRecord
  <1>3. /\ form[p] \in FormRecord /\ key \in AnyKey /\ key # Absent
        /\ form[p].uncertain \in BOOLEAN /\ form[p].tried \in BOOLEAN
    BY <1>2, FormFields, KeysAreKeys
  <1>4. Edited(p) \in BOOLEAN
    BY <1>3 DEF Edited
  <1>5. /\ f.open <=> form[p].open
        /\ f.sent = form[p].shown /\ f.saved = form[p].saved /\ f.known = form[p].known
        /\ f.tried = TRUE
    BY <1>3 DEF WhileSending, FormRecord
  <1>6. f.uncertain <=> TRUE
    BY <1>3 DEF WhileSending, FormRecord
  <1>7. f \in FormRecord
    BY <1>3, <1>4 DEF WhileSending, FormRecord
  <1> HIDE DEF f
  <1>8. /\ key \in AnyKey \cup {Absent} /\ key = form[p].shown /\ TRUE \in BOOLEAN
        /\ key = Absent => ~form[p].uncertain
        /\ key # Absent <=> TRUE
        /\ f.tried <=> f.uncertain
        /\ key = Absent => ~f.uncertain
        /\ key # Absent => key = form[p].shown /\ f.uncertain
        /\ ~f.uncertain => ~form[p].uncertain
    BY <1>3, <1>5, <1>6
  <1> HIDE DEF key
  <1> QED BY <1>1, <1>5, <1>7, <1>8, Sends

LEMMA SwitchesHolds ==
    ASSUME SettingsParameters, SInv, NEW p \in Popups, Switches(p) PROVE Good
  <1> DEFINE n == Len(queue) + 1
  <1>1. /\ Spend("request") /\ Requested(p, "switch", Absent, FALSE)
        /\ override' = requests' /\ toggled' = requests' /\ UNCHANGED form
    BY DEF Switches, Enqueued, Requested, storage
  <1>2. TypeOK /\ requests \in Nat
    BY DEF SInv, TypeOK
  <1>3. spent' \in [Disturbances -> Nat]
    BY <1>1, <1>2, Spent DEF TypeOK, Disturbances
  <1>4. requests' = requests + 1 /\ UNCHANGED <<local, sync, base, message, promise, rest>>
    BY <1>1 DEF Requested
  <1>5. /\ queue' \in Seq(Mutation) /\ requests' \in Nat
        /\ DOMAIN queue' = DOMAIN queue \cup {n}
        /\ n \notin DOMAIN queue
        /\ \A i \in DOMAIN queue : queue'[i] = queue[i]
        /\ queue'[n].kind = "switch" /\ queue'[n].popup = p
        /\ queue'[n].key = Absent /\ queue'[n].edited = FALSE
        /\ Ordered' \/ ~(override' <= requests')
        /\ OneAtATime'
    <2>1. Queued(p, "switch", Absent, FALSE)
      BY <1>1, RequestsQueue
    <2> QED BY <2>1 DEF Queued
  <1>6. Ordered'
    BY <1>1, <1>4, <1>5
  <1>7. TypeOK'
    BY <1>1, <1>2, <1>3, <1>4, <1>5 DEF TypeOK
  <1>8. KeysAreChosen'
    BY <1>1, <1>5 DEF SInv, KeysAreChosen
  <1>9. FormsAreCertain'
    BY <1>1 DEF SInv, FormsAreCertain
  <1>10. Effective' = requests'
    BY <1>1, <1>5 DEF Effective, NoOverride
  <1>11. SwitchesHold'
    <2>1. message.revision \in Nat /\ message.revision <= requests
      BY <1>2 DEF TypeOK, SInv, SwitchesHold
    <2>2. message'.revision <= requests' /\ message'.revision # requests'
      BY <1>2, <1>4, <2>1
    <2>3. toggled' <= Effective'
      BY <1>1, <1>5, <1>10
    <2> QED BY <2>2, <2>3 DEF SwitchesHold
  <1>12. AcknowledgedIsStored'
    BY <1>4 DEF SInv, AcknowledgedIsStored
  <1>13. KeyIsKept
    BY <1>4 DEF KeyIsKept
  <1>14. NewestOutputsWin
    <2>1. Effective <= requests /\ Effective \in Int /\ sync.outputs \in Nat
      BY <1>2 DEF SInv, Ordered, Effective, TypeOK, NoOverride
    <2>2. Effective' >= Effective /\ sync'.outputs >= sync.outputs /\ Effective' >= toggled'
      BY <1>1, <1>2, <1>4, <1>10, <2>1
    <2>3. ~(message.at = "authorizing" /\ message'.at = "dispatched")
      BY <1>4
    <2> QED BY <2>2, <2>3 DEF NewestOutputsWin
  <1> QED BY <1>5, <1>6, <1>7, <1>8, <1>9, <1>11, <1>12, <1>13, <1>14 DEF Good, SInv

-----------------------------------------------------------------------------
(* The mutations of the worker.                                            *)

\* The first mutation is at another step.
LEMMA HeadAdvances ==
    ASSUME SInv, queue # <<>>, NEW x \in Mutation, queue' = <<x>> \o Tail(queue),
           x.kind = Current.kind, x.popup = Current.popup, x.number = Current.number,
           x.key = Current.key, x.edited = Current.edited,
           UNCHANGED <<form, requests, override, rest, promise, sync>>
    PROVE  /\ queue' \in Seq(Mutation) /\ DOMAIN queue' = DOMAIN queue
           /\ 1 \in DOMAIN queue /\ queue[1] = Current /\ Current \in Mutation
           /\ queue'[1] = x
           /\ \A i \in DOMAIN queue : i # 1 => queue'[i] = queue[i]
           /\ Ordered' /\ KeysAreChosen' /\ FormsAreCertain'
  <1>1. queue \in Seq(Mutation)
    BY DEF SInv, TypeOK
  <1>2. 1 \in DOMAIN queue /\ queue[1] = Current /\ Current \in Mutation
    BY <1>1, Indices DEF Current
  <1>3. /\ queue' \in Seq(Mutation) /\ DOMAIN queue' = DOMAIN queue /\ queue'[1] = x
        /\ \A i \in DOMAIN queue : i # 1 => queue'[i] = queue[i]
    BY <1>1, HeadIsReplaced
  <1>4. \A i \in DOMAIN queue :
            /\ queue'[i].kind = queue[i].kind /\ queue'[i].popup = queue[i].popup
            /\ queue'[i].number = queue[i].number /\ queue'[i].key = queue[i].key
            /\ queue'[i].edited = queue[i].edited
    BY <1>2, <1>3
  <1>5. Ordered'
    <2>1. \A i \in DOMAIN queue' : queue'[i].number <= requests'
      BY <1>3, <1>4 DEF SInv, Ordered
    <2>2. \A i \in DOMAIN queue' : queue'[i].kind # "migrate" =>
              sync'.rest < queue'[i].number /\ sync'.outputs < queue'[i].number
      BY <1>3, <1>4 DEF SInv, Ordered
    <2>3. \A i, j \in DOMAIN queue' : i < j => queue'[i].number < queue'[j].number
      <3> SUFFICES ASSUME NEW i \in DOMAIN queue, NEW j \in DOMAIN queue, i < j
                   PROVE  queue'[i].number < queue'[j].number
        BY <1>3
      <3>1. queue[i].number < queue[j].number
        BY DEF SInv, Ordered
      <3> QED BY <1>4, <3>1
    <2>4. /\ rest' <= sync'.rest /\ promise'.number <= rest' /\ sync'.rest <= requests'
          /\ sync'.outputs <= requests' /\ override' <= requests'
      BY DEF SInv, Ordered
    <2> QED BY <2>1, <2>2, <2>3, <2>4 DEF Ordered
  <1>6. KeysAreChosen'
    BY <1>3, <1>4 DEF SInv, KeysAreChosen
  <1>7. FormsAreCertain'
    BY DEF SInv, FormsAreCertain
  <1> QED BY <1>2, <1>3, <1>5, <1>6, <1>7

\* The first mutation is over, and those behind it have not begun.
LEMMA HeadEnds ==
    ASSUME SInv, queue # <<>>, queue' = Tail(queue)
    PROVE  /\ queue' \in Seq(Mutation)
           /\ 1 \in DOMAIN queue /\ queue[1] = Current /\ Current \in Mutation
           /\ \A i \in DOMAIN queue' :
                /\ i + 1 \in DOMAIN queue /\ queue'[i] = queue[i + 1]
                /\ queue'[i].at \in {"key", "look"} /\ queue'[i].number > Current.number
                /\ queue'[i] \in Mutation
           /\ \A i, j \in DOMAIN queue' : i < j => queue'[i].number < queue'[j].number
  <1>1. queue \in Seq(Mutation)
    BY DEF SInv, TypeOK
  <1>2. 1 \in DOMAIN queue /\ queue[1] = Current /\ Current \in Mutation
    BY <1>1, Indices DEF Current
  <1>3. /\ queue' \in Seq(Mutation)
        /\ \A i \in DOMAIN queue' : i + 1 \in DOMAIN queue /\ queue'[i] = queue[i + 1]
    BY <1>1, TailIsShifted
  <1>4. \A i \in DOMAIN queue' : i \in Nat /\ i >= 1 /\ queue'[i] \in Mutation
    BY <1>3, Indices
  <1>5. \A i \in DOMAIN queue : queue[i].number \in Nat /\ queue[i].at \in {"key", "look", "read", "write"}
    BY <1>1, Indices, MutationFields
  <1>6. ASSUME NEW i \in DOMAIN queue'
        PROVE  queue'[i].at \in {"key", "look"} /\ queue'[i].number > Current.number
    <2>1. i + 1 # 1 /\ 1 < i + 1
      BY <1>4
    <2>2. queue[i + 1].at \notin {"read", "write"}
      BY <1>3, <2>1 DEF SInv, OneAtATime
    <2>3. queue[1].number < queue[i + 1].number
      BY <1>2, <1>3, <2>1 DEF SInv, Ordered
    <2> QED BY <1>2, <1>3, <1>5, <2>2, <2>3
  <1>7. ASSUME NEW i \in DOMAIN queue', NEW j \in DOMAIN queue', i < j
        PROVE  queue'[i].number < queue'[j].number
    <2>1. i + 1 < j + 1
      BY <1>4, <1>7
    <2> QED BY <1>3, <2>1 DEF SInv, Ordered
  <1> QED BY <1>2, <1>3, <1>4, <1>6, <1>7

\* A mutation that is rejected changes nothing but the queue, and possibly the
\* local area, for a key its user chose.
LEMMA RejectionHolds ==
    ASSUME SettingsParameters, SInv, queue # <<>>, queue' = Tail(queue),
           UNCHANGED <<sync, form, base, override, requests, message, toggled, promise, rest>>,
           spent' \in [Disturbances -> Nat],
           \/ local' = local
           \/ /\ local' = [key |-> Current.key, number |-> Current.number]
              /\ Current.at = "key" /\ Current.kind # "migrate"
    PROVE  Good
  <1>1. TypeOK
    BY DEF SInv
  <1>2. /\ queue' \in Seq(Mutation)
        /\ 1 \in DOMAIN queue /\ queue[1] = Current /\ Current \in Mutation
        /\ \A i \in DOMAIN queue' :
             /\ i + 1 \in DOMAIN queue /\ queue'[i] = queue[i + 1]
             /\ queue'[i].at \in {"key", "look"} /\ queue'[i].number > Current.number
             /\ queue'[i] \in Mutation
        /\ \A i, j \in DOMAIN queue' : i < j => queue'[i].number < queue'[j].number
    BY HeadEnds
  <1>3. \/ local' = local
        \/ /\ local'.key = Current.key /\ local'.number = Current.number
           /\ local' \in [key: AnyKey \cup {Absent}, number: Nat]
           /\ Current.key # Absent /\ Current.edited
           /\ sync.rest < Current.number
    <2>1. Current.at = "key" => Current.key # Absent /\ Current.edited
      BY <1>2 DEF SInv, OneAtATime, KeysAreChosen
    <2>2. Current.kind # "migrate" => sync.rest < Current.number
      BY <1>2 DEF SInv, Ordered
    <2>3. Current.key \in AnyKey \cup {Absent} /\ Current.number \in Nat
      BY <1>2, MutationFields
    <2> QED BY <2>1, <2>2, <2>3
  <1>4. local'.key = Absent => local.key = Absent /\ local' = local
    BY <1>3
  <1>5. TypeOK'
    BY <1>1, <1>2, <1>3 DEF TypeOK
  <1>6. Ordered'
    <2>1. \A i \in DOMAIN queue' : queue'[i].kind # "migrate" =>
              sync.rest < queue'[i].number /\ sync.outputs < queue'[i].number
      BY <1>2 DEF SInv, Ordered
    <2>2. \A i \in DOMAIN queue' : queue'[i].number <= requests
      BY <1>2 DEF SInv, Ordered
    <2>3. /\ rest <= sync.rest /\ promise.number <= rest
          /\ sync.rest <= requests /\ sync.outputs <= requests /\ override <= requests
      BY DEF SInv, Ordered
    <2> QED BY <1>2, <2>1, <2>2, <2>3 DEF Ordered
  <1>7. OneAtATime'
    <2>1. ASSUME NEW i \in DOMAIN queue'
          PROVE  /\ queue'[i].at = "key" => queue'[i].key # Absent
                 /\ queue'[i].at = "look" => queue'[i].key = Absent
                 /\ queue'[i].may => local'.key # Absent
                 /\ queue'[i].at \notin {"read", "write"}
                 /\ queue'[i].kind = "migrate" => queue'[i].key = Absent
      BY <1>2, <1>4 DEF SInv, OneAtATime
    <2>2. local'.key = Absent => local'.number = 0
      BY <1>4 DEF SInv, OneAtATime
    <2> QED BY <2>1, <2>2 DEF OneAtATime
  <1>8. KeysAreChosen'
    BY <1>2 DEF SInv, KeysAreChosen
  <1>9. FormsAreCertain' /\ SwitchesHold'
    BY DEF SInv, FormsAreCertain, SwitchesHold, Effective
  <1>10. AcknowledgedIsStored'
    <2>1. promise.number <= rest /\ rest <= sync.rest
      BY DEF SInv, Ordered
    <2>2. sync.rest < Current.number => Current.number > promise.number
      BY <1>1, <1>2, <2>1, MutationFields DEF TypeOK
    <2> QED BY <1>3, <2>2 DEF SInv, AcknowledgedIsStored
  <1>11. KeyIsKept
    BY <1>3, <1>4 DEF KeyIsKept
  <1>12. NewestOutputsWin
    <2>1. Effective \in Int /\ sync.outputs \in Int /\ toggled \in Int /\ toggled <= Effective
      BY <1>1 DEF SInv, SwitchesHold, TypeOK, Effective, NoOverride
    <2>2. Effective' = Effective
      BY DEF Effective
    <2>3. Effective' >= Effective /\ sync'.outputs >= sync.outputs /\ Effective' >= toggled'
      BY <2>1, <2>2
    <2>4. ~(message.at = "authorizing" /\ message'.at = "dispatched")
      OBVIOUS
    <2> QED BY <2>3, <2>4 DEF NewestOutputsWin
  <1> QED BY <1>5, <1>6, <1>7, <1>8, <1>9, <1>10, <1>11, <1>12 DEF Good, SInv

\* A mutation that goes on has its key stored, and the synced area as it is.
LEMMA AdvanceHolds ==
    ASSUME SettingsParameters, SInv, queue # <<>>, NEW x \in Mutation,
           queue' = <<x>> \o Tail(queue),
           x.kind = Current.kind, x.popup = Current.popup, x.number = Current.number,
           x.key = Current.key, x.edited = Current.edited, x.at \in {"read", "write"},
           UNCHANGED <<sync, form, override, requests, message, toggled, promise, rest>>,
           spent' \in [Disturbances -> Nat],
           base' \in {base, sync}, x.at = "write" => base' = sync,
           local' \in [key: AnyKey \cup {Absent}, number: Nat],
           x.key # Absent => local'.key = x.key /\ local'.number = x.number,
           x.may => local'.key # Absent,
           local'.key = Absent => local' = local,
           AcknowledgedIsStored', KeyIsKept
    PROVE  Good
  <1>1. TypeOK
    BY DEF SInv
  <1>2. /\ queue' \in Seq(Mutation) /\ DOMAIN queue' = DOMAIN queue
        /\ 1 \in DOMAIN queue /\ queue[1] = Current /\ Current \in Mutation
        /\ queue'[1] = x
        /\ \A i \in DOMAIN queue : i # 1 => queue'[i] = queue[i]
        /\ Ordered' /\ KeysAreChosen' /\ FormsAreCertain'
    BY HeadAdvances
  <1>3. TypeOK'
    BY <1>1, <1>2 DEF TypeOK
  <1>4. OneAtATime'
    <2>1. ASSUME NEW i \in DOMAIN queue, i # 1
          PROVE  /\ queue'[i].at = "key" => queue'[i].key # Absent
                 /\ queue'[i].at = "look" => queue'[i].key = Absent
                 /\ queue'[i].may => local'.key # Absent
                 /\ queue'[i].at \notin {"read", "write"}
                 /\ queue'[i].kind = "migrate" => queue'[i].key = Absent
      BY <1>2, <2>1 DEF SInv, OneAtATime
    <2>2. local'.key = Absent => local'.number = 0
      BY DEF SInv, OneAtATime
    <2>3. x.kind = "migrate" => x.key = Absent
      BY <1>2 DEF SInv, OneAtATime
    <2> QED BY <1>2, <2>1, <2>2, <2>3 DEF OneAtATime
  <1>5. SwitchesHold'
    BY DEF SInv, SwitchesHold, Effective
  <1>6. NewestOutputsWin
    <2>1. Effective \in Int /\ sync.outputs \in Int /\ toggled \in Int /\ toggled <= Effective
      BY <1>1 DEF SInv, SwitchesHold, TypeOK, Effective, NoOverride
    <2>2. Effective' = Effective
      BY DEF Effective
    <2>3. Effective' >= Effective /\ sync'.outputs >= sync.outputs /\ Effective' >= toggled'
      BY <2>1, <2>2
    <2>4. ~(message.at = "authorizing" /\ message'.at = "dispatched")
      OBVIOUS
    <2> QED BY <2>3, <2>4 DEF NewestOutputsWin
  <1> QED BY <1>2, <1>3, <1>4, <1>5, <1>6 DEF Good, SInv

LEMMA KeyIsSetHolds ==
    ASSUME SettingsParameters, SInv, KeyIsSet PROVE Good
  <1>1. queue # <<>> /\ Current.at = "key" /\ sync' = sync
    BY DEF KeyIsSet
  <1>2. TypeOK /\ queue \in Seq(Mutation)
    BY DEF SInv, TypeOK
  <1>3. 1 \in DOMAIN queue /\ queue[1] = Current /\ Current \in Mutation
    BY <1>1, <1>2, Indices DEF Current
  <1>4. Current.key # Absent /\ Current.edited
    BY <1>1, <1>3 DEF SInv, OneAtATime, KeysAreChosen
  <1>5. Current.kind # "migrate"
    \* The migration carries no key.
    BY <1>1, <1>3, <1>4 DEF SInv, OneAtATime
  <1>6. CASE /\ local' = [key |-> Current.key, number |-> Current.number]
             /\ queue' = <<[Current EXCEPT !.at = "read", !.may = TRUE]>> \o Tail(queue)
             /\ UNCHANGED <<base, override, requests, message, toggled, form, promise, rest, spent>>
    <2> DEFINE x == [Current EXCEPT !.at = "read", !.may = TRUE]
    <2>1. /\ x.kind = Current.kind /\ x.popup = Current.popup /\ x.number = Current.number
          /\ x.key = Current.key /\ x.edited = Current.edited /\ x.at = "read" /\ x.may = TRUE
          /\ x \in Mutation
      BY <1>3 DEF Mutation
    <2>2. queue' = <<x>> \o Tail(queue)
      BY <1>6
    <2> HIDE DEF x
    <2>3. /\ UNCHANGED <<base, override, requests, message, toggled, form, promise, rest, spent>>
          /\ local'.key = Current.key /\ local'.number = Current.number
          /\ local' = [key |-> Current.key, number |-> Current.number]
      BY <1>6
    <2>4. local' \in [key: AnyKey \cup {Absent}, number: Nat]
      BY <1>3, <2>3, MutationFields
    <2>5. KeyIsKept
      BY <1>4, <2>3 DEF KeyIsKept
    <2>6. AcknowledgedIsStored'
      <3>1. sync.rest < Current.number /\ rest <= sync.rest /\ promise.number <= rest
        BY <1>3, <1>5 DEF SInv, Ordered
      <3>2. Current.number > promise.number
        BY <1>2, <1>3, <3>1, MutationFields DEF TypeOK
      <3> QED BY <1>1, <2>3, <3>1, <3>2 DEF SInv, AcknowledgedIsStored
    <2>7. spent' \in [Disturbances -> Nat]
      BY <1>2, <2>3 DEF TypeOK
    <2>8. /\ x.key # Absent => local'.key = x.key /\ local'.number = x.number
          /\ x.may => local'.key # Absent
          /\ local'.key = Absent => local' = local
          /\ base' \in {base, sync} /\ (x.at = "write" => base' = sync)
          /\ x.at \in {"read", "write"}
      BY <1>4, <2>1, <2>3
    <2> QED BY <1>1, <2>1, <2>2, <2>3, <2>4, <2>5, <2>6, <2>7, <2>8, AdvanceHolds
  <1>7. CASE /\ local' \in {local, [key |-> Current.key, number |-> Current.number]}
             /\ Rejects("local refusal")
    <2>1. /\ Spend("local refusal") /\ queue' = Tail(queue)
          /\ UNCHANGED <<form, base, override, requests, message, toggled, promise, rest>>
      BY <1>7 DEF Rejects, Rejected
    <2>2. spent' \in [Disturbances -> Nat]
      BY <1>2, <2>1, Spent DEF TypeOK, Disturbances
    <2>3. \/ local' = local
          \/ /\ local' = [key |-> Current.key, number |-> Current.number]
             /\ Current.at = "key" /\ Current.kind # "migrate"
      BY <1>1, <1>5, <1>7
    <2> QED BY <1>1, <2>1, <2>2, <2>3, RejectionHolds
  <1> QED BY <1>6, <1>7 DEF KeyIsSet

LEMMA KeyIsLookedUpHolds ==
    ASSUME SettingsParameters, SInv, KeyIsLookedUp PROVE Good
  <1>1. /\ queue # <<>> /\ Current.at = "look"
        /\ UNCHANGED <<local, sync, base, override, requests, message, toggled, form, promise, rest>>
    BY DEF KeyIsLookedUp, storage
  <1>2. TypeOK /\ queue \in Seq(Mutation)
    BY DEF SInv, TypeOK
  <1>3. 1 \in DOMAIN queue /\ queue[1] = Current /\ Current \in Mutation
    BY <1>1, <1>2, Indices DEF Current
  <1>4. Current.key = Absent /\ (Current.may => local.key # Absent)
    BY <1>1, <1>3 DEF SInv, OneAtATime
  <1>5. /\ local' \in [key: AnyKey \cup {Absent}, number: Nat]
        /\ AcknowledgedIsStored' /\ KeyIsKept
    BY <1>1, <1>2 DEF TypeOK, SInv, AcknowledgedIsStored, KeyIsKept
  <1>6. spent' \in [Disturbances -> Nat]
    BY <1>2, Spent DEF TypeOK, Disturbances, KeyIsLookedUp
  <1>7. KeyIsThere \in BOOLEAN /\ (KeyIsThere <=> local.key # Absent)
    BY DEF KeyIsThere
  <1>8. CASE queue' = <<[Current EXCEPT !.at = "read", !.may = KeyIsThere]>> \o Tail(queue)
    <2> DEFINE x == [Current EXCEPT !.at = "read", !.may = KeyIsThere]
    <2>1. /\ x.kind = Current.kind /\ x.popup = Current.popup /\ x.number = Current.number
          /\ x.key = Current.key /\ x.edited = Current.edited /\ x.at = "read"
      BY <1>3 DEF Mutation
    <2>2. x.may <=> KeyIsThere
      BY <1>3, <1>7 DEF Mutation
    <2>3. x \in Mutation
      BY <1>3, <1>7 DEF Mutation
    <2>4. queue' = <<x>> \o Tail(queue)
      BY <1>8
    <2> HIDE DEF x
    <2>5. /\ x.key # Absent => local'.key = x.key /\ local'.number = x.number
          /\ x.may => local'.key # Absent
          /\ local'.key = Absent => local' = local
          /\ base' \in {base, sync} /\ (x.at = "write" => base' = sync)
          /\ x.at \in {"read", "write"}
      BY <1>1, <1>4, <1>7, <2>1, <2>2
    <2> QED BY <1>1, <1>5, <1>6, <2>1, <2>3, <2>4, <2>5, AdvanceHolds
  <1>9. CASE Reaches("read")
    <2> DEFINE x == [Current EXCEPT !.at = "read"]
    <2>1. /\ x.kind = Current.kind /\ x.popup = Current.popup /\ x.number = Current.number
          /\ x.key = Current.key /\ x.edited = Current.edited /\ x.at = "read"
          /\ x.may = Current.may /\ x \in Mutation
      BY <1>3 DEF Mutation
    <2>2. queue' = <<x>> \o Tail(queue)
      BY <1>9 DEF Reaches
    <2> HIDE DEF x
    <2>3. /\ x.key # Absent => local'.key = x.key /\ local'.number = x.number
          /\ x.may => local'.key # Absent
          /\ local'.key = Absent => local' = local
          /\ base' \in {base, sync} /\ (x.at = "write" => base' = sync)
          /\ x.at \in {"read", "write"}
      BY <1>1, <1>4, <2>1
    <2> QED BY <1>1, <1>5, <1>6, <2>1, <2>2, <2>3, AdvanceHolds
  <1> QED BY <1>8, <1>9 DEF KeyIsLookedUp

LEMMA SyncIsReadHolds ==
    ASSUME SettingsParameters, SInv, SyncIsRead PROVE Good
  <1>1. queue # <<>> /\ Current.at = "read" /\ UNCHANGED <<local, sync>>
    BY DEF SyncIsRead, storage
  <1>2. TypeOK /\ queue \in Seq(Mutation)
    BY DEF SInv, TypeOK
  <1>3. 1 \in DOMAIN queue /\ queue[1] = Current /\ Current \in Mutation
    BY <1>1, <1>2, Indices DEF Current
  <1>4. /\ Current.may => local.key # Absent
        /\ Current.key # Absent => local.key = Current.key /\ local.number = Current.number
    BY <1>1, <1>3 DEF SInv, OneAtATime
  <1>5. CASE /\ base' = sync /\ Reaches("write")
             /\ UNCHANGED <<override, requests, message, toggled, form, promise, rest, spent>>
    <2> DEFINE x == [Current EXCEPT !.at = "write"]
    <2>1. /\ x.kind = Current.kind /\ x.popup = Current.popup /\ x.number = Current.number
          /\ x.key = Current.key /\ x.edited = Current.edited /\ x.at = "write"
          /\ x.may = Current.may /\ x \in Mutation
      BY <1>3 DEF Mutation
    <2>2. queue' = <<x>> \o Tail(queue)
      BY <1>5 DEF Reaches
    <2> HIDE DEF x
    <2>3. /\ UNCHANGED <<override, requests, message, toggled, form, promise, rest, spent>>
          /\ base' = sync
      BY <1>5
    <2>4. /\ local' \in [key: AnyKey \cup {Absent}, number: Nat]
          /\ AcknowledgedIsStored' /\ KeyIsKept
      BY <1>1, <1>2, <2>3 DEF TypeOK, SInv, AcknowledgedIsStored, KeyIsKept
    <2>5. spent' \in [Disturbances -> Nat]
      BY <1>2, <2>3 DEF TypeOK
    <2>6. /\ x.key # Absent => local'.key = x.key /\ local'.number = x.number
          /\ x.may => local'.key # Absent
          /\ local'.key = Absent => local' = local
          /\ base' \in {base, sync} /\ (x.at = "write" => base' = sync)
          /\ x.at \in {"read", "write"}
      BY <1>1, <1>4, <2>1, <2>3
    <2> QED BY <1>1, <2>1, <2>2, <2>3, <2>4, <2>5, <2>6, AdvanceHolds
  <1>6. CASE Rejects("sync refusal")
    <2>1. /\ Spend("sync refusal") /\ queue' = Tail(queue)
          /\ UNCHANGED <<form, base, override, requests, message, toggled, promise, rest>>
      BY <1>6 DEF Rejects, Rejected
    <2>2. spent' \in [Disturbances -> Nat]
      BY <1>2, <2>1, Spent DEF TypeOK, Disturbances
    <2> QED BY <1>1, <2>1, <2>2, RejectionHolds
  <1> QED BY <1>5, <1>6 DEF SyncIsRead

LEMMA MigratesHolds ==
    ASSUME SettingsParameters, SInv, Migrates PROVE Good
  <1>1. queue # <<>> /\ Current.at = "look" /\ Current.kind = "migrate" /\ sync' = sync
    BY DEF Migrates
  <1>2. TypeOK /\ queue \in Seq(Mutation)
    BY DEF SInv, TypeOK
  <1>3. 1 \in DOMAIN queue /\ queue[1] = Current /\ Current \in Mutation
    BY <1>1, <1>2, Indices DEF Current
  <1>4. Current.key = Absent
    BY <1>1, <1>3 DEF SInv, OneAtATime
  <1>5. CASE /\ queue' = Tail(queue)
             /\ UNCHANGED <<local, base, override, requests, message, toggled, form, promise,
                            rest, spent>>
    <2>1. spent' \in [Disturbances -> Nat]
      BY <1>2, <1>5 DEF TypeOK
    <2> QED BY <1>1, <1>5, <2>1, RejectionHolds
  <1>6. CASE /\ sync.legacy # Absent
             /\ local' = IF KeyIsThere THEN local ELSE [key |-> sync.legacy, number |-> 0]
             /\ queue' = <<[Current EXCEPT !.at = "read", !.may = TRUE]>> \o Tail(queue)
             /\ UNCHANGED <<base, override, requests, message, toggled, form, promise, rest, spent>>
    <2> DEFINE x == [Current EXCEPT !.at = "read", !.may = TRUE]
    <2>1. /\ x.kind = Current.kind /\ x.popup = Current.popup /\ x.number = Current.number
          /\ x.key = Current.key /\ x.edited = Current.edited /\ x.at = "read" /\ x.may = TRUE
          /\ x \in Mutation
      BY <1>3 DEF Mutation
    <2>2. queue' = <<x>> \o Tail(queue)
      BY <1>6
    <2> HIDE DEF x
    <2>3. UNCHANGED <<base, override, requests, message, toggled, form, promise, rest, spent>>
      BY <1>6
    <2>4. /\ local.key # Absent => local' = local
          /\ local.key = Absent => local' = [key |-> sync.legacy, number |-> 0]
      BY <1>6 DEF KeyIsThere
    <2>5. /\ local'.key # Absent
          /\ local' \in [key: AnyKey \cup {Absent}, number: Nat]
          /\ local.key = Absent => local'.number = 0
      BY <1>2, <1>6, <2>4 DEF TypeOK, AnyKey
    <2>6. KeyIsKept
      BY <2>4, <2>5 DEF KeyIsKept
    <2>7. AcknowledgedIsStored'
      <3>1. CASE local.key # Absent
        BY <1>1, <2>3, <2>4, <3>1 DEF SInv, AcknowledgedIsStored
      <3>2. CASE local.key = Absent
        <4>1. local.number = 0 /\ promise.number \in Nat /\ promise.key # Absent
          BY <1>2, <3>2, KeysAreKeys DEF SInv, OneAtATime, TypeOK
        <4>2. promise.number = 0
          BY <3>2, <4>1 DEF SInv, AcknowledgedIsStored
        <4> QED BY <1>1, <2>3, <4>2 DEF SInv, AcknowledgedIsStored
      <3> QED BY <3>1, <3>2
    <2>8. spent' \in [Disturbances -> Nat]
      BY <1>2, <2>3 DEF TypeOK
    <2>9. /\ x.key # Absent => local'.key = x.key /\ local'.number = x.number
          /\ x.may => local'.key # Absent
          /\ local'.key = Absent => local' = local
          /\ base' \in {base, sync} /\ (x.at = "write" => base' = sync)
          /\ x.at \in {"read", "write"}
      BY <1>4, <2>1, <2>3, <2>5
    <2> QED BY <1>1, <2>1, <2>2, <2>3, <2>5, <2>6, <2>7, <2>8, <2>9, AdvanceHolds
  <1>7. CASE local' = local /\ Rejects("local refusal")
    <2>1. /\ Spend("local refusal") /\ queue' = Tail(queue)
          /\ UNCHANGED <<local, form, base, override, requests, message, toggled, promise, rest>>
      BY <1>7 DEF Rejects, Rejected
    <2>2. spent' \in [Disturbances -> Nat]
      BY <1>2, <2>1, Spent DEF TypeOK, Disturbances
    <2> QED BY <1>1, <2>1, <2>2, RejectionHolds
  <1> QED BY <1>5, <1>6, <1>7 DEF Migrates

\* What the worker stores: its own request is the newest one that was stored.
LEMMA MergedFields ==
    ASSUME TypeOK, NEW m \in Mutation, m = Current, base = sync
    PROVE  /\ Merged \in [outputs: Nat, rest: Nat, legacy: {Absent, LegacyKey}]
           /\ Merged.legacy = IF m.may THEN Absent ELSE sync.legacy
           /\ Merged.outputs = IF m.kind # "migrate" THEN m.number ELSE sync.outputs
           /\ Merged.rest = IF m.kind \in {"save", "test"} THEN m.number ELSE sync.rest
  <1>1. m.number \in Nat /\ base \in [outputs: Nat, rest: Nat, legacy: {Absent, LegacyKey}]
    BY MutationFields DEF TypeOK
  <1> QED BY <1>1 DEF Merged

LEMMA SyncIsWrittenHolds ==
    ASSUME SettingsParameters, SInv, SyncIsWritten PROVE Good
  <1>1. queue # <<>> /\ Current.at = "write" /\ local' = local
    BY DEF SyncIsWritten
  <1>2. TypeOK /\ queue \in Seq(Mutation)
    BY DEF SInv, TypeOK
  <1>3. CASE Rejects("sync refusal") /\ UNCHANGED sync
    <2>1. /\ Spend("sync refusal") /\ queue' = Tail(queue)
          /\ UNCHANGED <<sync, form, base, override, requests, message, toggled, promise, rest>>
      BY <1>3 DEF Rejects, Rejected
    <2>2. spent' \in [Disturbances -> Nat]
      BY <1>2, <2>1, Spent DEF TypeOK, Disturbances
    <2> QED BY <1>1, <2>1, <2>2, RejectionHolds
  <1>4. CASE sync' = Merged /\ Accepted /\ UNCHANGED <<base, requests, message, toggled, spent>>
    <2>1. /\ sync' = Merged /\ queue' = Tail(queue) /\ override' = Applied
          /\ UNCHANGED <<base, requests, message, toggled, spent>>
      BY <1>4 DEF Accepted
    <2>2. /\ queue' \in Seq(Mutation)
          /\ 1 \in DOMAIN queue /\ queue[1] = Current /\ Current \in Mutation
          /\ \A i \in DOMAIN queue' :
               /\ i + 1 \in DOMAIN queue /\ queue'[i] = queue[i + 1]
               /\ queue'[i].at \in {"key", "look"} /\ queue'[i].number > Current.number
               /\ queue'[i] \in Mutation
          /\ \A i, j \in DOMAIN queue' : i < j => queue'[i].number < queue'[j].number
      BY <1>1, <2>1, HeadEnds
    <2> DEFINE m == Current
    <2>3. /\ m.kind \in {"save", "test", "switch", "migrate"}
          /\ m.popup \in Popups \cup {"none"} /\ m.number \in Nat
          /\ m.key \in AnyKey \cup {Absent} /\ m.edited \in BOOLEAN /\ m.may \in BOOLEAN
      BY <2>2, MutationFields
    <2>4. /\ m.key # Absent => local.key = m.key /\ local.number = m.number
          /\ m.may => local.key # Absent
          /\ base = sync
      BY <1>1, <2>2 DEF SInv, OneAtATime
    <2>5. /\ m.number <= requests
          /\ m.kind # "migrate" => sync.rest < m.number /\ sync.outputs < m.number
          /\ rest <= sync.rest /\ promise.number <= rest
          /\ sync.rest <= requests /\ sync.outputs <= requests /\ override <= requests
      BY <2>2 DEF SInv, Ordered
    <2>6. /\ sync' \in [outputs: Nat, rest: Nat, legacy: {Absent, LegacyKey}]
          /\ sync'.legacy = IF m.may THEN Absent ELSE sync.legacy
          /\ sync'.outputs = IF m.kind # "migrate" THEN m.number ELSE sync.outputs
          /\ sync'.rest = IF m.kind \in {"save", "test"} THEN m.number ELSE sync.rest
      BY <1>2, <2>1, <2>2, <2>4, MergedFields
    <2>7. override' = IF m.kind \in {"save", "test"} /\ m.number = requests
                      THEN m.number ELSE override
      BY <2>1 DEF Applied
    <2>8. /\ m.key # Absent <=> m.edited
          /\ m.kind \in {"save", "test"} /\ m.popup \in Popups =>
               /\ form[m.popup].open
               /\ form[m.popup].sent # Absent
               /\ m.key = Absent => ~form[m.popup].uncertain
               /\ m.key # Absent => form[m.popup].sent = m.key
      BY <2>2 DEF SInv, KeysAreChosen
    <2>9. /\ sync.outputs \in Nat /\ sync.rest \in Nat /\ requests \in Nat
          /\ override \in {NoOverride} \cup Nat /\ rest \in Nat /\ toggled \in Nat
          /\ promise \in [key: AnyKey, number: Nat] /\ promise.number \in Nat
          /\ form \in [Popups -> FormRecord]
      BY <1>2 DEF TypeOK, FormRecord
    <2> DEFINE told == m.kind \in {"save", "test"} /\ m.popup \in Popups
    <2>10. /\ form' \in [Popups -> FormRecord] /\ rest' \in Nat
           /\ promise' \in [key: AnyKey, number: Nat]
           /\ FormsAreCertain'
           /\ \A q \in Popups :
                /\ form'[q].open <=> form[q].open
                /\ form'[q].sent = form[q].sent
                /\ ~form[q].uncertain => ~form'[q].uncertain
           /\ rest' = IF told THEN m.number ELSE rest
           /\ \/ promise' = promise
              \/ /\ told /\ m.edited
                 /\ promise'.number = m.number /\ promise'.key = m.key
      <3>1. CASE told
        <4> DEFINE p == m.popup
        <4> DEFINE f == [form[p] EXCEPT !.saved = IF m.key # Absent THEN form[p].sent ELSE @,
                                        !.uncertain = IF m.key # Absent THEN FALSE ELSE @,
                                        !.known = IF m.edited THEN form[p].sent ELSE @,
                                        !.tried = FALSE]
        <4>1. /\ form' = [form EXCEPT ![p] = f] /\ rest' = m.number
              /\ promise' = IF m.edited THEN [key |-> form[p].sent, number |-> m.number]
                            ELSE promise
          BY <1>4, <3>1 DEF Accepted
        <4>2. p \in Popups /\ form[p] \in FormRecord /\ form[p].sent \in AnyKey
          BY <2>8, <2>9, <3>1, FormFields
        <4>3. f \in FormRecord
          BY <4>2 DEF FormRecord
        <4>4. f.open = form[p].open /\ f.sent = form[p].sent /\ f.tried = FALSE
          BY <4>2 DEF FormRecord
        <4>5. /\ m.key # Absent => f.saved = form[p].sent /\ f.uncertain = FALSE
              /\ m.key = Absent => f.saved = form[p].saved /\ f.uncertain = form[p].uncertain
              /\ m.edited => f.known = form[p].sent
              /\ ~m.edited => f.known = form[p].known
          BY <4>2 DEF FormRecord
        <4> HIDE DEF f
        <4>6. /\ form' \in [Popups -> FormRecord] /\ form'[p] = f
              /\ \A q \in Popups : q # p => form'[q] = form[q]
          BY <2>9, <4>1, <4>2, <4>3, OneFormChanges
        <4>7. FormsAreCertain'
          <5>1. ~f.uncertain /\ ~f.tried /\ f.saved = f.known
            BY <2>8, <3>1, <4>2, <4>4, <4>5 DEF SInv, FormsAreCertain
          <5> QED BY <4>6, <5>1 DEF SInv, FormsAreCertain
        <4>8. \A q \in Popups :
                /\ form'[q].open <=> form[q].open
                /\ form'[q].sent = form[q].sent
                /\ ~form[q].uncertain => ~form'[q].uncertain
          BY <4>4, <4>5, <4>6
        <4>9. /\ promise' \in [key: AnyKey, number: Nat]
              /\ \/ promise' = promise
                 \/ m.edited /\ promise'.number = m.number /\ promise'.key = m.key
          <5>1. CASE m.edited
            <6>1. promise' = [key |-> form[p].sent, number |-> m.number]
              BY <4>1, <5>1
            <6> QED BY <2>3, <2>8, <3>1, <4>2, <5>1, <6>1
          <5>2. CASE ~m.edited
            BY <2>9, <4>1, <5>2
          <5> QED BY <5>1, <5>2
        <4> QED BY <2>3, <3>1, <4>1, <4>6, <4>7, <4>8, <4>9
      <3>2. CASE ~told
        <4>1. UNCHANGED <<form, rest, promise>>
          BY <1>4, <3>2 DEF Accepted
        <4> QED BY <2>9, <3>2, <4>1 DEF SInv, FormsAreCertain
      <3> QED BY <3>1, <3>2
    <2> HIDE DEF m, told
    <2>11. m = Current
      BY DEF m
    <2>12. TypeOK'
      <3>1. override' \in {NoOverride} \cup Nat
        BY <2>3, <2>7, <2>9
      <3> QED BY <1>1, <1>2, <2>1, <2>2, <2>6, <2>10, <3>1 DEF TypeOK, FormRecord
    <2>13. Ordered'
      <3>1. \A i \in DOMAIN queue' : queue'[i].number <= requests'
        BY <2>1, <2>2 DEF SInv, Ordered
      <3>2. ASSUME NEW i \in DOMAIN queue', queue'[i].kind # "migrate"
            PROVE  sync'.rest < queue'[i].number /\ sync'.outputs < queue'[i].number
        <4>1. sync.rest < queue'[i].number /\ sync.outputs < queue'[i].number
          BY <2>2, <3>2 DEF SInv, Ordered
        <4>2. m.number < queue'[i].number
          BY <2>2, <2>3, <2>11, MutationFields
        <4> QED BY <2>6, <4>1, <4>2
      <3>3. override' <= requests' /\ sync'.rest <= requests' /\ sync'.outputs <= requests'
        BY <2>1, <2>5, <2>6, <2>7
      <3>4. rest' <= sync'.rest
        BY <2>3, <2>5, <2>6, <2>9, <2>10 DEF told
      <3>5. promise'.number <= rest'
        BY <2>3, <2>5, <2>9, <2>10 DEF told
      <3> QED BY <2>2, <3>1, <3>2, <3>3, <3>4, <3>5 DEF Ordered
    <2>14. OneAtATime'
      <3>1. ASSUME NEW i \in DOMAIN queue'
            PROVE  /\ queue'[i].at = "key" => queue'[i].key # Absent
                   /\ queue'[i].at = "look" => queue'[i].key = Absent
                   /\ queue'[i].may => local'.key # Absent
                   /\ queue'[i].at \notin {"read", "write"}
                   /\ queue'[i].kind = "migrate" => queue'[i].key = Absent
        BY <1>1, <2>2 DEF SInv, OneAtATime
      <3>2. local'.key = Absent => local'.number = 0
        BY <1>1 DEF SInv, OneAtATime
      <3> QED BY <3>1, <3>2 DEF OneAtATime
    <2>15. KeysAreChosen'
      <3>1. \A i \in DOMAIN queue' : queue'[i].key # Absent <=> queue'[i].edited
        BY <2>2 DEF SInv, KeysAreChosen
      <3>2. ASSUME NEW i \in DOMAIN queue', queue'[i].kind \in {"save", "test"},
                   queue'[i].popup \in Popups
            PROVE  /\ form'[queue'[i].popup].open
                   /\ form'[queue'[i].popup].sent # Absent
                   /\ queue'[i].key = Absent => ~form'[queue'[i].popup].uncertain
                   /\ queue'[i].key # Absent => form'[queue'[i].popup].sent = queue'[i].key
        BY <2>2, <2>10, <3>2 DEF SInv, KeysAreChosen
      <3> QED BY <3>1, <3>2 DEF KeysAreChosen
    <2>16. sync'.outputs >= sync.outputs
      BY <2>5, <2>6, <2>3, <2>9
    <2>17. Effective' >= Effective /\ toggled <= Effective'
      <3>1. Effective = IF override # NoOverride THEN override ELSE sync.outputs
        BY DEF Effective
      <3>2. Effective' = IF override' # NoOverride THEN override' ELSE sync'.outputs
        BY DEF Effective
      <3>3. Effective' >= Effective
        BY <2>3, <2>5, <2>7, <2>9, <2>16, <3>1, <3>2, <2>6 DEF NoOverride
      <3>4. toggled <= Effective
        BY DEF SInv, SwitchesHold
      <3>5. Effective \in Int /\ Effective' \in Int
        BY <2>3, <2>6, <2>7, <2>9, <3>1, <3>2 DEF NoOverride
      <3> QED BY <2>9, <3>3, <3>4, <3>5
    <2>18. SwitchesHold'
      BY <2>1, <2>17 DEF SInv, SwitchesHold
    <2>19. AcknowledgedIsStored'
      <3>1. sync'.rest >= rest'
        BY <2>3, <2>5, <2>6, <2>9, <2>10 DEF told
      <3>2. local'.number > promise'.number \/ promise'.number = 0 \/ local'.key = promise'.key
        <4>1. m.edited => local.key = m.key
          BY <2>4, <2>8, <2>11
        <4> QED BY <1>1, <2>10, <4>1 DEF SInv, AcknowledgedIsStored
      <3> QED BY <3>1, <3>2 DEF AcknowledgedIsStored
    <2>20. KeyIsKept
      BY <1>1, <2>4, <2>6, <2>11 DEF KeyIsKept
    <2>21. NewestOutputsWin
      <3>1. ~(message.at = "authorizing" /\ message'.at = "dispatched")
        BY <2>1
      <3>2. Effective' >= toggled'
        BY <2>1, <2>9, <2>17, <2>12 DEF TypeOK, Effective, NoOverride
      <3> QED BY <2>16, <2>17, <3>1, <3>2 DEF NewestOutputsWin
    <2> QED BY <2>10, <2>12, <2>13, <2>14, <2>15, <2>18, <2>19, <2>20, <2>21 DEF Good, SInv
  <1> QED BY <1>3, <1>4 DEF SyncIsWritten

-----------------------------------------------------------------------------
(* Messages, and a worker that is lost.                                    *)

\* A message neither reads nor writes anything but what it knows.
LEMMA MessageHolds ==
    ASSUME SInv, UNCHANGED <<local, sync, queue, base, override, requests, toggled, form,
                             promise, rest>>,
           spent' \in [Disturbances -> Nat],
           message' \in [at: {"none", "reading", "authorizing", "dispatched"},
                         revision: Nat, outputs: Nat],
           message'.revision <= requests,
           message'.at = "authorizing" => message'.outputs >= toggled,
           message.at = "authorizing" /\ message'.at = "dispatched" => message.outputs >= toggled
    PROVE  Good
  <1>1. TypeOK'
    BY DEF SInv, TypeOK
  <1>2. Ordered' /\ OneAtATime' /\ KeysAreChosen' /\ FormsAreCertain' /\ AcknowledgedIsStored'
    BY DEF SInv, Ordered, OneAtATime, KeysAreChosen, FormsAreCertain, AcknowledgedIsStored
  <1>3. Effective' = Effective /\ Effective \in Int /\ sync.outputs \in Int /\ toggled \in Int
    BY DEF SInv, TypeOK, Effective, NoOverride
  <1>4. SwitchesHold'
    BY <1>3 DEF SInv, SwitchesHold
  <1>5. KeyIsKept
    BY DEF KeyIsKept
  <1>6. NewestOutputsWin
    <2>1. Effective' >= Effective /\ sync'.outputs >= sync.outputs /\ Effective' >= toggled'
      BY <1>3 DEF SInv, SwitchesHold
    <2> QED BY <2>1 DEF NewestOutputsWin
  <1> QED BY <1>1, <1>2, <1>4, <1>5, <1>6 DEF Good, SInv

LEMMA MessagesHold ==
    ASSUME SInv, MessageArrives \/ MessageReads \/ MessageDecided \/ MessageDone
    PROVE  Good
  <1>1. TypeOK
    BY DEF SInv
  <1>2. UNCHANGED <<local, sync, queue, base, override, requests, toggled, form, promise, rest>>
    BY DEF MessageArrives, MessageReads, MessageDecided, MessageDone, storage
  <1>3. spent' \in [Disturbances -> Nat]
    BY <1>1, Spent DEF TypeOK, Disturbances, MessageArrives, MessageReads, MessageDecided,
                       MessageDone
  <1>4. /\ message.at \in {"none", "reading", "authorizing", "dispatched"}
        /\ message.revision \in Nat /\ message.outputs \in Nat /\ requests \in Nat
        /\ message.revision <= requests
    BY <1>1 DEF TypeOK, SInv, SwitchesHold
  <1>5. Effective \in Nat /\ toggled <= Effective
    <2>1. toggled \in Nat /\ Effective \in Int /\ toggled <= Effective
      BY <1>1 DEF SInv, SwitchesHold, TypeOK, Effective, NoOverride
    <2> QED BY <2>1
  <1>6. NoMessage \in [at: {"none", "reading", "authorizing", "dispatched"},
                       revision: Nat, outputs: Nat]
            /\ NoMessage.at = "none" /\ NoMessage.revision = 0
    BY DEF NoMessage
  <1>7. CASE MessageArrives
    <2>1. message' = [NoMessage EXCEPT !.at = "reading", !.revision = requests]
      BY <1>7 DEF MessageArrives
    <2>2. /\ message' \in [at: {"none", "reading", "authorizing", "dispatched"},
                           revision: Nat, outputs: Nat]
          /\ message'.at = "reading" /\ message'.revision = requests
      BY <1>4, <2>1 DEF NoMessage
    <2> QED BY <1>2, <1>3, <1>4, <2>2, MessageHolds
  <1>8. CASE MessageReads
    <2>1. message' = [message EXCEPT !.at = "authorizing", !.outputs = Effective]
      BY <1>8 DEF MessageReads
    <2>2. /\ message' \in [at: {"none", "reading", "authorizing", "dispatched"},
                           revision: Nat, outputs: Nat]
          /\ message'.at = "authorizing" /\ message'.revision = message.revision
          /\ message'.outputs = Effective
      BY <1>1, <1>5, <2>1 DEF TypeOK
    <2>3. message'.outputs >= toggled
      BY <1>1, <1>5, <2>2 DEF TypeOK
    <2> QED BY <1>2, <1>3, <1>4, <2>2, <2>3, MessageHolds
  <1>9. CASE MessageDecided
    <2>1. message.at = "authorizing"
      BY <1>9 DEF MessageDecided
    <2>2. CASE SameRevision
      <3>1. message' = [message EXCEPT !.at = "dispatched"] /\ message.revision = requests
        BY <1>9, <2>2 DEF MessageDecided, SameRevision
      <3>2. /\ message' \in [at: {"none", "reading", "authorizing", "dispatched"},
                             revision: Nat, outputs: Nat]
            /\ message'.at = "dispatched" /\ message'.revision = message.revision
        BY <1>1, <3>1 DEF TypeOK
      <3>3. message.outputs >= toggled
        BY <2>1, <3>1 DEF SInv, SwitchesHold
      <3> QED BY <1>2, <1>3, <1>4, <3>2, <3>3, MessageHolds
    <2>3. CASE ~SameRevision
      <3>1. message' = NoMessage
        BY <1>9, <2>3 DEF MessageDecided
      <3> QED BY <1>2, <1>3, <1>4, <1>6, <3>1, MessageHolds
    <2> QED BY <2>2, <2>3
  <1>10. CASE MessageDone
    <2>1. message' = NoMessage
      BY <1>10 DEF MessageDone
    <2> QED BY <1>2, <1>3, <1>4, <1>6, <2>1, MessageHolds
  <1> QED BY <1>7, <1>8, <1>9, <1>10

LEMMA OneAlone ==
    ASSUME NEW S, NEW x \in S
    PROVE  <<x>> \in Seq(S) /\ DOMAIN <<x>> = {1} /\ <<x>>[1] = x
  OBVIOUS

LEMMA WorkerLostHolds ==
    ASSUME SInv, WorkerLost PROVE Good
  <1>1. /\ Spend("worker lost") /\ queue' = <<Migration>> /\ override' = NoOverride
        /\ message' = NoMessage /\ toggled' = 0
        /\ UNCHANGED <<local, sync, base, requests, form, promise, rest>>
    BY DEF WorkerLost, storage
  <1>2. TypeOK /\ spent \in [Disturbances -> Nat]
    BY DEF SInv, TypeOK
  <1>3. spent' \in [Disturbances -> Nat] /\ spent'["worker lost"] # spent["worker lost"]
    <2> DEFINE lost == "worker lost"
    <2>1. lost \in Disturbances /\ Spend(lost)
      BY <1>1 DEF Disturbances
    <2> HIDE DEF lost
    <2>2. spent' \in [Disturbances -> Nat] /\ spent'[lost] = spent[lost] + 1
      BY <1>2, <2>1, Spent
    <2>3. spent[lost] \in Nat
      BY <1>2, <2>1
    <2>4. spent'[lost] # spent[lost]
      BY <2>2, <2>3
    <2> QED BY <2>2, <2>4 DEF lost
  <1>4. /\ queue' = <<Migration>> /\ override' = NoOverride
        /\ message' = NoMessage /\ toggled' = 0
        /\ UNCHANGED <<local, sync, base, requests, form, promise, rest>>
    BY <1>1
  <1>5. /\ Migration \in Mutation /\ Migration.kind = "migrate" /\ Migration.number = 0
        /\ Migration.key = Absent /\ Migration.edited = FALSE /\ Migration.at = "look"
        /\ Migration.may = FALSE
    BY DEF Migration, Mutation
  <1>6. queue' \in Seq(Mutation) /\ DOMAIN queue' = {1} /\ queue'[1] = Migration
    BY <1>4, <1>5, OneAlone
  <1>7. TypeOK'
    BY <1>4, <1>2, <1>3, <1>6 DEF TypeOK, NoMessage, NoOverride
  <1>8. Ordered'
    <2>1. requests \in Nat /\ override' <= requests
      BY <1>4, <1>2 DEF TypeOK, NoOverride
    <2>2. \A i \in DOMAIN queue' : queue'[i].number = 0 /\ queue'[i].kind = "migrate" /\ i = 1
      BY <1>5, <1>6
    <2>3. /\ rest' <= sync'.rest /\ promise'.number <= rest'
          /\ sync'.rest <= requests' /\ sync'.outputs <= requests'
      BY <1>4 DEF SInv, Ordered
    <2> QED BY <1>4, <2>1, <2>2, <2>3 DEF Ordered
  <1>9. OneAtATime'
    BY <1>4, <1>5, <1>6 DEF SInv, OneAtATime
  <1>10. KeysAreChosen'
    BY <1>5, <1>6 DEF KeysAreChosen
  <1>11. FormsAreCertain' /\ AcknowledgedIsStored'
    BY <1>4 DEF SInv, FormsAreCertain, AcknowledgedIsStored
  <1>12. SwitchesHold'
    <2>1. Effective' = sync.outputs
      BY <1>4 DEF Effective, NoOverride
    <2>2. message'.at = "none" /\ message'.revision = 0
      BY <1>4 DEF NoMessage
    <2>3. sync.outputs \in Nat /\ requests \in Nat
      BY <1>2 DEF TypeOK
    <2> QED BY <1>4, <2>1, <2>2, <2>3 DEF SwitchesHold
  <1>13. KeyIsKept
    BY <1>4 DEF KeyIsKept
  <1>14. NewestOutputsWin
    BY <1>4, <1>3 DEF NewestOutputsWin, NoMessage
  <1> QED BY <1>7, <1>8, <1>9, <1>10, <1>11, <1>12, <1>13, <1>14 DEF Good, SInv

-----------------------------------------------------------------------------

LEMMA StepsHold ==
    ASSUME SettingsParameters, SInv, [Next]_vars
    PROVE  SInv' /\ ((KeyIsKept /\ NewestOutputsWin) \/ UNCHANGED vars)
  <1>1. CASE \E p \in Popups :
                \/ Opens(p) \/ Closes(p) \/ Saves(p) \/ Tests(p) \/ Switches(p)
                \/ \E k \in Keys \cup {Blank} : Types(p, k)
    BY <1>1, OpensHolds, ClosesHolds, SavesHolds, TestsHolds, SwitchesHolds, TypesHolds DEF Good
  <1>2. CASE Mutates
    BY <1>2, KeyIsSetHolds, KeyIsLookedUpHolds, SyncIsReadHolds, SyncIsWrittenHolds, MigratesHolds
       DEF Mutates, Good
  <1>3. CASE MessageArrives \/ MessageReads \/ MessageDecided \/ MessageDone
    BY <1>3, MessagesHold DEF Good
  <1>4. CASE WorkerLost
    BY <1>4, WorkerLostHolds DEF Good
  <1>5. CASE UNCHANGED vars
    <2>1. UNCHANGED <<local, sync, queue, base, override, requests, message, toggled, form,
                      promise, rest, spent>>
      BY <1>5 DEF vars, storage, worker
    <2>2. TypeOK' /\ Ordered' /\ OneAtATime'
      BY <2>1 DEF SInv, TypeOK, Ordered, OneAtATime
    <2>3. KeysAreChosen' /\ FormsAreCertain'
      BY <2>1 DEF SInv, KeysAreChosen, FormsAreCertain
    <2>4. SwitchesHold' /\ AcknowledgedIsStored'
      BY <2>1 DEF SInv, SwitchesHold, AcknowledgedIsStored, Effective
    <2> QED BY <1>5, <2>2, <2>3, <2>4 DEF SInv
  <1> QED BY <1>1, <1>2, <1>3, <1>4, <1>5 DEF Next

\* The mutations of the worker are carried out one after the other, and the
\* forms know what they sent: SInv is inductive.
THEOREM SettingsStaySound == Spec => []SInv
  <1>1. Init => SInv
    BY Initially
  <1>2. SInv /\ [Next]_vars => SInv'
    BY StepsHold, SettingsParameters
  <1> QED BY <1>1, <1>2, PTL DEF Spec

\* Every variable has its type, in every state of the settings' storage.
THEOREM TypesHold == Spec => []TypeOK
  <1>1. SInv => TypeOK
    BY DEF SInv
  <1> QED BY <1>1, SettingsStaySound, PTL

\* What a popup was told is saved is stored, whatever was refused or lost since:
\* setSettings of lib/storage.ts answers after both areas are written.
THEOREM SavedIsStored == Spec => []AcknowledgedIsStored
  <1>1. SInv => AcknowledgedIsStored
    BY DEF SInv
  <1> QED BY <1>1, SettingsStaySound, PTL

\* No key and no output that was chosen last is undone by an older request, a
\* refused write, the migration or a lost worker: settingsMutationTail and
\* outputOptionsUpdateSequence of background/service-worker.ts.
THEOREM NothingIsUndone == Spec => ChoicesAreNotUndone
  <1>1. SInv /\ [Next]_vars => [KeyIsKept /\ NewestOutputsWin]_vars
    BY StepsHold, SettingsParameters
  <1> QED BY <1>1, SettingsStaySound, PTL DEF Spec, ChoicesAreNotUndone
=============================================================================

--------------------------- MODULE SettingsStorage ---------------------------
(***************************************************************************)
(* How settings are edited, stored and used:                               *)
(*   popup/app.ts, lib/storage.ts, background/service-worker.ts            *)
(*                                                                         *)
(* A popup, or several of them, edits a form; the worker writes the API    *)
(* key to the local area and the rest to the synced one, one mutation      *)
(* after the other, several awaits each.  Earlier versions kept the key in *)
(* the synced area, and it is moved when a worker starts.  Output switches *)
(* take effect before they are stored.                                     *)
(*                                                                         *)
(* What is set, but for the key, is known by the number of the request     *)
(* that set it.  One step is the code between two awaits.                  *)
(***************************************************************************)
EXTENDS Integers, Sequences

CONSTANTS
    Popups,        \* settings forms that may be open together
    Keys,          \* API keys a user may type
    LegacyKey,     \* the key an earlier version left in the synced area
    Testing,       \* whether the connection is tested, which saves the form as well
    Mixes          \* bound: how often users and browsers act, in each of some mixtures

Disturbances ==
    {"request", "typed", "message", "local refusal", "sync refusal", "worker lost", "popup closed"}

Blank == "blank"
Absent == "absent"

ASSUME SettingsParameters ==
    /\ "none" \notin Popups
    /\ LegacyKey \notin {Blank, Absent}
    /\ {Blank, Absent, LegacyKey} \cap Keys = {}
    /\ Testing \in BOOLEAN
    /\ \A mix \in Mixes : \A d \in Disturbances : mix[d] \in Nat

VARIABLES
    local,      \* storage.local: the key, and which request wrote it
    sync,       \* storage.sync: who set the outputs and the rest, and a legacy key
    queue,      \* worker: settingsMutationTail, the mutations that are not over
    base,       \* worker: what the first of them read from the synced area
    override,   \* worker: outputOptionsOverride, or NoOverride
    requests,   \* worker: outputOptionsUpdateSequence and exportSettingsRevision
    message,    \* worker: a message that writes to the outputs
    form,       \* popup: the form
    toggled,    \* history: the newest switch of an output in this worker
    promise,    \* history: the newest edited key that was reported as saved
    rest,       \* history: the newest save that was reported as done
    spent       \* bound: what was done so far

worker == <<queue, base, override, requests, message, toggled>>
storage == <<local, sync>>
vars == <<storage, worker, form, promise, rest, spent>>

NoOverride == -1
AnyKey == Keys \cup {LegacyKey, Blank}

\* A mutation that waits or is under way: what it is, for whom, its number, the
\* key it writes, the step it has come to and whether it may remove a legacy key.
\* `edited` is a history: its user chose the key the form showed.
Mutation ==
    [kind: {"save", "test", "switch", "migrate"}, popup: Popups \cup {"none"}, number: Nat,
     key: AnyKey \cup {Absent}, edited: BOOLEAN, at: {"key", "look", "read", "write"}, may: BOOLEAN]

Migration ==
    [kind |-> "migrate", popup |-> "none", number |-> 0, key |-> Absent, edited |-> FALSE,
     at |-> "look", may |-> FALSE]

\* `shown` is the key field, `saved` savedApiKeyValue, `uncertain` apiKeySaveUncertain;
\* `known` and `tried` are histories: the key that was read or reported as saved last,
\* and whether the user has sent another one, or tested the connection, since.
Closed ==
    [open |-> FALSE, shown |-> Blank, saved |-> Blank, uncertain |-> FALSE, sent |-> Absent,
     known |-> Blank, tried |-> FALSE]

Edited(p) == form[p].shown # form[p].known \/ form[p].tried

NoMessage == [at |-> "none", revision |-> 0, outputs |-> 0]

Spend(what) ==
    /\ spent' = [spent EXCEPT ![what] = @ + 1]
    /\ \E mix \in Mixes : \A d \in Disturbances : spent'[d] <= mix[d]

\* The outputs the worker uses: withOutputOptionsOverride.
Effective == IF override # NoOverride THEN override ELSE sync.outputs

-----------------------------------------------------------------------------
(* The popup.                                                              *)

LocalKey == IF local.key = Absent THEN Blank ELSE local.key

\* initPopup: a form is filled from storage, and not at all if that fails.
Opens(p) ==
    /\ ~form[p].open
    /\ form' = [form EXCEPT ![p] = [Closed EXCEPT !.open = TRUE, !.shown = LocalKey,
                                                   !.saved = LocalKey, !.known = LocalKey]]
    /\ UNCHANGED <<storage, worker, promise, rest, spent>>

Types(p, k) ==
    /\ form[p].open /\ form[p].shown # k
    /\ Spend("typed")
    /\ form' = [form EXCEPT ![p].shown = k]
    /\ UNCHANGED <<storage, worker, promise, rest>>

\* Mutant: the answers reach a form that is opened again.
ClosesOnly(p) ==
    /\ form[p].open
    /\ Spend("popup closed")
    /\ form' = [form EXCEPT ![p] = Closed]
    /\ UNCHANGED <<storage, worker, promise, rest>>

\* Its requests go on, and nobody hears the answers.
Closes(p) ==
    /\ form[p].open
    /\ Spend("popup closed")
    /\ form' = [form EXCEPT ![p] = Closed]
    /\ queue' = [i \in DOMAIN queue |->
                    IF queue[i].popup = p THEN [queue[i] EXCEPT !.popup = "none"] ELSE queue[i]]
    /\ UNCHANGED <<storage, base, override, requests, message, toggled, promise, rest>>

Waiting(p, kinds) == \E i \in DOMAIN queue : queue[i].popup = p /\ queue[i].kind \in kinds

\* beginSettingsAction, and `await outputSaveChain`.
MayAct(p) ==
    /\ form[p].open
    /\ ~Waiting(p, {"save", "test", "switch"})

\* A request reaches the worker and is queued.
Enqueued(p, kind, key, edited) ==
    /\ Spend("request")
    /\ requests' = requests + 1
    /\ queue' = Append(queue, [kind |-> kind, popup |-> p, number |-> requests', key |-> key,
                               edited |-> edited, at |-> IF key = Absent THEN "look" ELSE "key",
                               may |-> FALSE])
    /\ UNCHANGED <<base, message>>

\* Mutant: the key is always sent.
AlwaysSent(p) == form[p].shown

\* The key is sent if the field was edited, or if nobody knows what is stored.
SentKey(p) ==
    IF form[p].shown = form[p].saved /\ ~form[p].uncertain THEN Absent ELSE form[p].shown

\* Mutant: a key counts as saved when it is sent.
SavedWhenSent(p, key) ==
    IF key = Absent THEN form[p]
    ELSE [form[p] EXCEPT !.saved = key, !.uncertain = FALSE, !.sent = key, !.tried = Edited(p)]

WhileSending(p, key) ==
    [form[p] EXCEPT !.uncertain = (@ \/ key # Absent), !.sent = form[p].shown, !.tried = Edited(p)]

\* handleSave
Saves(p) ==
    /\ MayAct(p)
    /\ Enqueued(p, "save", SentKey(p), Edited(p))
    /\ form' = [form EXCEPT ![p] = WhileSending(p, SentKey(p))]
    /\ UNCHANGED <<storage, override, toggled, promise, rest>>

\* handleTest saves whatever key the form shows.
Tests(p) ==
    /\ Testing
    /\ MayAct(p) /\ form[p].shown # Blank
    /\ Enqueued(p, "test", form[p].shown, TRUE)
    /\ form' = [form EXCEPT ![p] = [WhileSending(p, form[p].shown) EXCEPT !.tried = TRUE]]
    /\ UNCHANGED <<storage, override, toggled, promise, rest>>

\* queueOutputOptionsSave; the worker applies the switch before it stores it.
Switches(p) ==
    /\ form[p].open /\ ~Waiting(p, {"switch"})
    /\ Enqueued(p, "switch", Absent, FALSE)
    /\ override' = requests' /\ toggled' = requests'
    /\ UNCHANGED <<storage, form, promise, rest>>

-----------------------------------------------------------------------------
(* The mutations of the worker.                                            *)

Current == Head(queue)
Reaches(step) == queue' = <<[Current EXCEPT !.at = step]>> \o Tail(queue)

\* Whatever becomes of a mutation, the next one begins; the popup is told.
Rejected == queue' = Tail(queue) /\ UNCHANGED form

\* Mutant: an older save sets the outputs when it is through.
AppliedAnyway == IF Current.kind \in {"save", "test"} THEN Current.number ELSE override

\* A save applies its outputs unless a newer request arrived while it was written.
Applied ==
    IF Current.kind \in {"save", "test"} /\ Current.number = requests
    THEN Current.number ELSE override

\* The worker answers success, and the popup takes the key it sent for saved.
Accepted ==
    /\ queue' = Tail(queue)
    /\ override' = Applied
    /\ IF Current.kind \in {"save", "test"} /\ Current.popup \in Popups
       THEN LET f == form[Current.popup] IN
            /\ form' = [form EXCEPT ![Current.popup] =
                           [f EXCEPT !.saved = IF Current.key # Absent THEN f.sent ELSE @,
                                     !.uncertain = IF Current.key # Absent THEN FALSE ELSE @,
                                     !.known = IF Current.edited THEN f.sent ELSE @,
                                     !.tried = FALSE]]
            /\ rest' = Current.number
            /\ promise' = IF Current.edited
                          THEN [key |-> f.sent, number |-> Current.number] ELSE promise
       ELSE UNCHANGED <<form, rest, promise>>

Rejects(why) ==
    /\ Spend(why)
    /\ Rejected
    /\ UNCHANGED <<base, override, requests, message, toggled, promise, rest>>

\* The key is written, read back and compared.
KeyIsSet ==
    /\ queue # <<>> /\ Current.at = "key"
    /\ \/ /\ local' = [key |-> Current.key, number |-> Current.number]
          /\ queue' = <<[Current EXCEPT !.at = "read", !.may = TRUE]>> \o Tail(queue)
          /\ UNCHANGED <<base, override, requests, message, toggled, form, promise, rest, spent>>
       \/ /\ local' \in {local, [key |-> Current.key, number |-> Current.number]}
          /\ Rejects("local refusal")
    /\ UNCHANGED sync

\* Mutant: a key that cannot be read is taken to be there.
KeyMayBeThere == TRUE
KeyIsThere == local.key # Absent

\* Without a key to write, the local area only decides about the legacy key.
KeyIsLookedUp ==
    /\ queue # <<>> /\ Current.at = "look" /\ Current.kind # "migrate"
    /\ \/ /\ queue' = <<[Current EXCEPT !.at = "read", !.may = KeyIsThere]>> \o Tail(queue)
          /\ UNCHANGED spent
       \/ Spend("local refusal") /\ Reaches("read")
    /\ UNCHANGED <<storage, base, override, requests, message, toggled, form, promise, rest>>

SyncIsRead ==
    /\ queue # <<>> /\ Current.at = "read"
    /\ \/ /\ base' = sync
          /\ Reaches("write")
          /\ UNCHANGED <<override, requests, message, toggled, form, promise, rest, spent>>
       \/ Rejects("sync refusal")
    /\ UNCHANGED storage

\* The fields a mutation sets in what it read, and the legacy key it removes.
Merged ==
    [base EXCEPT
        !.legacy = IF Current.may THEN Absent ELSE @,
        !.outputs = IF Current.kind # "migrate" THEN Current.number ELSE @,
        !.rest = IF Current.kind \in {"save", "test"} THEN Current.number ELSE @]

SyncIsWritten ==
    /\ queue # <<>> /\ Current.at = "write"
    /\ \/ /\ sync' = Merged
          /\ Accepted
          /\ UNCHANGED <<base, requests, message, toggled, spent>>
       \/ Rejects("sync refusal") /\ UNCHANGED sync
    /\ UNCHANGED local

\* migrateSettings: nothing to move, or the key goes to the local area, unless
\* there is one, before it is removed from the synced one.
Migrates ==
    /\ queue # <<>> /\ Current.kind = "migrate" /\ Current.at = "look"
    /\ \/ /\ sync.legacy = Absent
          /\ queue' = Tail(queue)
          /\ UNCHANGED <<local, base, override, requests, message, toggled, form, promise, rest, spent>>
       \/ /\ sync.legacy # Absent
          /\ local' = IF KeyIsThere THEN local ELSE [key |-> sync.legacy, number |-> 0]
          /\ queue' = <<[Current EXCEPT !.at = "read", !.may = TRUE]>> \o Tail(queue)
          /\ UNCHANGED <<base, override, requests, message, toggled, form, promise, rest, spent>>
       \/ /\ local' = local
          /\ Rejects("local refusal")
    /\ UNCHANGED sync

-----------------------------------------------------------------------------
(* A message that writes to the outputs: handleMessage.                    *)

MessageArrives ==
    /\ message.at = "none"
    /\ Spend("message")
    /\ message' = [NoMessage EXCEPT !.at = "reading", !.revision = requests]
    /\ UNCHANGED <<storage, queue, base, override, requests, toggled, form, promise, rest>>

\* getSettings, with the override of that moment.
MessageReads ==
    /\ message.at = "reading"
    /\ message' = [message EXCEPT !.at = "authorizing", !.outputs = Effective]
    /\ UNCHANGED <<storage, queue, base, override, requests, toggled, form, promise, rest, spent>>

\* Mutant: the revision is not compared again.
AnyRevision == TRUE
SameRevision == message.revision = requests

\* Authorized, the message is dispatched unless the settings changed meanwhile.
MessageDecided ==
    /\ message.at = "authorizing"
    /\ message' = IF SameRevision THEN [message EXCEPT !.at = "dispatched"] ELSE NoMessage
    /\ UNCHANGED <<storage, queue, base, override, requests, toggled, form, promise, rest, spent>>

MessageDone ==
    /\ message.at = "dispatched"
    /\ message' = NoMessage
    /\ UNCHANGED <<storage, queue, base, override, requests, toggled, form, promise, rest, spent>>

\* The worker is lost with its queue and override; the next one migrates first.
\* Its counters begin at 0 again, but nothing is left to compare them with.
WorkerLost ==
    /\ Spend("worker lost")
    /\ queue' = <<Migration>>
    /\ override' = NoOverride /\ message' = NoMessage /\ toggled' = 0
    /\ UNCHANGED <<storage, base, requests, form, promise, rest>>

Init ==
    /\ local \in {[key |-> k, number |-> 0] : k \in {Absent, LegacyKey}}
    /\ sync \in {[outputs |-> 0, rest |-> 0, legacy |-> k] : k \in {Absent, LegacyKey}}
    /\ queue = <<Migration>>
    /\ base = sync
    /\ override = NoOverride
    /\ requests = 0
    /\ message = NoMessage
    /\ form = [p \in Popups |-> Closed]
    /\ toggled = 0
    /\ promise = [key |-> Blank, number |-> 0]
    /\ rest = 0
    /\ spent = [d \in Disturbances |-> 0]

Mutates == KeyIsSet \/ KeyIsLookedUp \/ SyncIsRead \/ SyncIsWritten \/ Migrates

Next ==
    \/ \E p \in Popups :
        \/ Opens(p) \/ Closes(p) \/ Saves(p) \/ Tests(p) \/ Switches(p)
        \/ \E k \in Keys \cup {Blank} : Types(p, k)
    \/ Mutates
    \/ MessageArrives \/ MessageReads \/ MessageDecided \/ MessageDone
    \/ WorkerLost

Spec == Init /\ [][Next]_vars

-----------------------------------------------------------------------------
(* Properties.                                                             *)

TypeOK ==
    /\ local \in [key: AnyKey \cup {Absent}, number: Nat]
    /\ sync \in [outputs: Nat, rest: Nat, legacy: {Absent, LegacyKey}]
    /\ base \in [outputs: Nat, rest: Nat, legacy: {Absent, LegacyKey}]
    /\ queue \in Seq(Mutation)
    /\ override \in {NoOverride} \cup Nat
    /\ requests \in Nat
    /\ message \in [at: {"none", "reading", "authorizing", "dispatched"},
                    revision: Nat, outputs: Nat]
    /\ form \in [Popups -> [open: BOOLEAN, shown: AnyKey, saved: AnyKey, uncertain: BOOLEAN,
                            sent: AnyKey \cup {Absent}, known: AnyKey, tried: BOOLEAN]]
    /\ toggled \in Nat
    /\ promise \in [key: AnyKey, number: Nat]
    /\ rest \in Nat
    /\ spent \in [Disturbances -> Nat]

\* A key that was stored anywhere is never in neither area, whichever write is
\* refused and wherever the worker is lost, and it is replaced only by one its
\* user chose; neither the migration nor a form filled before another one was
\* saved undoes that: saveSettings, migrateSettings, savedApiKeyValue and
\* apiKeySaveUncertain of popup/app.ts.
KeyIsKept ==
    /\ local.key # Absent \/ sync.legacy # Absent => local'.key # Absent \/ sync'.legacy # Absent
    /\ local'.key # local.key => local.key = Absent \/ Current.edited

\* What a user was told is saved is stored: the settings in the synced area, and
\* an edited key in the local one, unless a later request replaced them.
AcknowledgedIsStored ==
    /\ sync.rest >= rest
    /\ local.number > promise.number \/ promise.number = 0 \/ local.key = promise.key

\* Neither the outputs in use nor the stored ones go back to an older request
\* while a worker lives; a switch takes effect at once and for good, and no
\* message is dispatched to outputs it has replaced: outputOptionsOverride, and
\* exportSettingsRevision, which is compared after the last await.
NewestOutputsWin ==
    /\ spent'["worker lost"] = spent["worker lost"]
          => Effective' >= Effective /\ sync'.outputs >= sync.outputs /\ Effective' >= toggled'
    /\ message.at = "authorizing" /\ message'.at = "dispatched" => message.outputs >= toggled

\* What a user chose last is never undone by an older choice that is still on its
\* way, nor by the migration: neither the key nor the outputs.
ChoicesAreNotUndone == [][KeyIsKept /\ NewestOutputsWin]_vars
=============================================================================

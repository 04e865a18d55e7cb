---------------------------- MODULE ResolverQueue ----------------------------
(***************************************************************************)
(* The resolvers of file references, which the worker commands and the     *)
(* hooked page carries out:                                                *)
(*   content/capture/chatgpt-document-start.ts (active, interpreter)       *)
(*   background/chatgpt-active-resolver.ts, chatgpt-interpreter-resolver.ts*)
(*                                                                         *)
(* The worker pins the first document it reads, commands it once, and      *)
(* polls it.  The page asks for one item after the other, each with its    *)
(* own time limit, once it has seen the page's own request succeed; all    *)
(* must be over by a common limit.  The answers of requests that were      *)
(* given up still arrive.  The two kinds differ in what becomes of items   *)
(* that can no longer be asked for.                                        *)
(*                                                                         *)
(* A fetch that throws at once is taken for one that is rejected.          *)
(***************************************************************************)
EXTENDS TemporaryTab, Sequences

CONSTANT Items    \* how many items the command names

ASSUME ResolverQueueParameters == Items \in Nat \ {0}

VARIABLES
    hook,      \* page: the state of the hook
    flight,    \* page: the request for each item
    command,   \* the command on its way to the page and back
    answer     \* worker: the outcomes it reports

queueVars == <<hook, flight, command, answer>>

ItemIds == 1 .. Items

NotDispatched == <<"not-dispatched", 0>>
TimedOut == <<"timed-out", 0>>
Rejected == <<"rejected", 0>>
Observed(i) == <<"observed", i>>
Outcomes == {NotDispatched, TimedOut, Rejected} \cup {Observed(i) : i \in ItemIds}

\* `source` is the page's own request; `requested` the number of items, 0 before
\* the command; `owner` the item whose controller is the current one, or 0.
Hook ==
    [source: {"none", "asked", "ready"}, requested: {0, Items}, outcomes: Seq(Outcomes),
     dispatched: Nat, owner: {0} \cup ItemIds, result: {"ready", "error", "complete"}]

FreshHook ==
    [source |-> "none", requested |-> 0, outcomes |-> <<>>, dispatched |-> 0, owner |-> 0,
     result |-> "ready"]
NoFlight == [i \in ItemIds |-> "none"]

Settled == hook.result # "ready"

-----------------------------------------------------------------------------
(* The hook: operators on its record.                                      *)

\* Mutant: a request that is under way counts as not dispatched.
PaddedWithout(h) ==
    h.outcomes \o [i \in 1 .. (h.requested - Len(h.outcomes)) |-> NotDispatched]

\* The item under way has timed out, the others were never asked for.
Padded(h) ==
    h.outcomes \o [i \in 1 .. (h.requested - Len(h.outcomes)) |->
                      IF i = 1 /\ Len(h.outcomes) < h.dispatched THEN TimedOut ELSE NotDispatched]

\* activeResolverComplete, interpreterResolverComplete; finish aborts the owner.
Completed(h) == [h EXCEPT !.outcomes = Padded(h), !.owner = 0, !.result = "complete"]
Failed(h) == [h EXCEPT !.owner = 0, !.result = "error"]

\* activeResolverSourceFailure and the timeout: what was dispatched is reported.
SourceFailure(h) == IF h.dispatched > 0 THEN Completed(h) ELSE Failed(h)

\* The page has left the URL it was armed at.
Drifted(h) == IF mode = "active" THEN SourceFailure(h) ELSE Completed(h)

\* Mutant: the URL is looked at only before the first item.
HrefStaysExact(h) == route = "exact" \/ h.dispatched > 0
HrefStillExact(h) == route = "exact"

\* Mutant: the next item is counted from the requests already sent, one too far.
ItemAfter(h) == h.dispatched + 2
NextItem(h) == Len(h.outcomes) + 1

\* dispatchActiveResolverQueue, dispatchInterpreterResolverQueue
Queue(h) ==
    IF Len(h.outcomes) = h.requested THEN Completed(h)
    ELSE IF ~HrefStillExact(h) THEN Drifted(h)
    ELSE [h EXCEPT !.owner = NextItem(h), !.dispatched = @ + 1]

\* maybeDispatchActiveResolver
Maybe(h) ==
    IF h.result = "ready" /\ h.requested > 0 /\ h.source = "ready" /\ h.dispatched = 0
    THEN Queue(h) ELSE h

\* The hook after a step that ends the requests in `over`, and sends what it dispatches.
Becomes(h, over) ==
    /\ hook' = h
    /\ flight' = [i \in ItemIds |->
                     IF i \in over THEN "over"
                     ELSE IF h.owner = i /\ hook.dispatched < h.dispatched THEN "fetching"
                     ELSE flight[i]]

InDocument(step) == InPage(step) /\ UNCHANGED <<command, answer>>

\* wrappedFetch: the first eligible request is claimed, and may turn out unfit.
SourceClaimed ==
    InDocument(
        /\ ~Settled /\ hook.source = "none"
        /\ \/ Becomes([hook EXCEPT !.source = "asked"], {}) /\ UNCHANGED spent
           \/ Becomes(SourceFailure([hook EXCEPT !.source = "asked"]), {}) /\ Spend("bad-page"))

\* observeActiveResolverSourceResponse
SourceAnswers ==
    InDocument(
        /\ ~Settled /\ hook.source = "asked"
        /\ \/ Becomes(Maybe([hook EXCEPT !.source = "ready"]), {}) /\ UNCHANGED spent
           \/ Becomes(SourceFailure(hook), {}) /\ Spend("bad-page"))

Completes(outcome) == Queue([hook EXCEPT !.outcomes = Append(@, outcome), !.owner = 0])

\* Mutant: whoever is through completes the current item.
MayCompleteAny(i) == ~Settled
\* completeActiveResolverItem: only the owner of the current controller.
MayComplete(i) == ~Settled /\ hook.owner = i

CompletedBy(i, outcome) == IF MayComplete(i) THEN Completes(outcome) ELSE hook

\* The response, whose body is read only for the owner, or its rejection.
ItemAnswers(i) ==
    InDocument(
        /\ flight[i] = "fetching"
        /\ \/ /\ flight' = [flight EXCEPT ![i] = IF MayComplete(i) THEN "reading" ELSE "over"]
              /\ UNCHANGED <<hook, spent>>
           \/ Becomes(CompletedBy(i, Rejected), {i}) /\ Spend("bad-page"))

\* captureActiveResolverResponse: body and hash.
ItemRead(i) ==
    InDocument(
        /\ flight[i] = "reading"
        /\ \/ Becomes(CompletedBy(i, Observed(i)), {i}) /\ UNCHANGED spent
           \/ Becomes(CompletedBy(i, Rejected), {i}) /\ Spend("bad-page"))

\* Its time limit; the abort need not reach the request, which goes on.
ItemTimesOut(i) ==
    InDocument(
        /\ ~Settled /\ hook.owner = i
        /\ Becomes(Completes(TimedOut), {})
        /\ UNCHANGED spent)

\* activeResolverTimeout, interpreterResolverTimeout
HookTimesOut ==
    InDocument(
        /\ ~Settled
        /\ Becomes(SourceFailure(hook), {})
        /\ UNCHANGED spent)

\* Only once, and only where the hook was armed.
Accepts == ~Settled /\ hook.requested = 0 /\ route = "exact"

\* commandChatGptActiveResolver in the document it addresses, if it is still there.
CommandRuns ==
    /\ command = "sent"
    /\ IF Alive /\ doc = pinned /\ Accepts
       THEN Becomes(Maybe([hook EXCEPT !.requested = Items]), {}) /\ command' = "accepted"
       ELSE command' = "refused" /\ UNCHANGED <<hook, flight>>
    /\ UNCHANGED <<tabVars, answer>>

-----------------------------------------------------------------------------
(* The worker.                                                             *)

\* The getter of the active hook looks at the URL before it answers.
Looked == IF mode = "active" /\ ~Settled /\ route # "exact" THEN SourceFailure(hook) ELSE hook

TargetIsReady ==
    AtWork("waiting",
        /\ \/ AtTarget /\ worker' = "reading" /\ UNCHANGED <<tab, report>>
           \/ AstrayNow /\ Fails
        /\ UNCHANGED <<pinned, queueVars>>)

\* The one read of whatever document is there; it is addressed from then on.
FirstRead ==
    AtWork("reading",
        /\ ScriptRuns
        /\ IF HookIsThere
           THEN /\ Becomes(Looked, {})
                /\ IF Looked.result = "ready"
                   THEN worker' = "rechecking" /\ pinned' = doc /\ UNCHANGED <<tab, report>>
                   ELSE Fails /\ UNCHANGED pinned
                /\ UNCHANGED <<command, answer>>
           ELSE Fails /\ UNCHANGED <<pinned, queueVars>>)

\* The route once more, right before the command; a page that loads has a URL.
Rechecks ==
    AtWork("rechecking",
        /\ IF tab = "open" /\ route # "elsewhere"
           THEN worker' = "commanding" /\ command' = "sent" /\ UNCHANGED <<tab, report>>
           ELSE Fails /\ UNCHANGED command
        /\ UNCHANGED <<pinned, hook, flight, answer>>)

CommandAnswered ==
    AtWork("commanding",
        /\ \/ command = "accepted" /\ worker' = "polling" /\ UNCHANGED <<tab, report>>
           \/ command = "refused" /\ Fails
        /\ UNCHANGED <<pinned, queueVars>>)

\* Another document, or none, ends it; so does any terminal result.
Polls ==
    AtWork("polling",
        /\ IF HookIsThere /\ doc = pinned
           THEN /\ Looked.result # "ready"
                /\ Becomes(Looked, {})
                /\ IF Looked.result = "complete"
                   THEN Ends("success") /\ answer' = Looked.outcomes
                   ELSE Fails /\ UNCHANGED answer
                /\ UNCHANGED command
           ELSE Fails /\ UNCHANGED queueVars
        /\ UNCHANGED pinned)

RunsOut ==
    /\ expired /\ worker \in {"waiting", "reading", "rechecking", "commanding", "polling"}
    /\ Fails
    /\ UNCHANGED <<mode, pinned, expired, route, doc, hooked, spent, queueVars>>

QueueInit ==
    /\ hook = FreshHook /\ flight = NoFlight
    /\ command = "none" /\ answer = <<>>

QueueWorker == TargetIsReady \/ FirstRead \/ Rechecks \/ CommandAnswered \/ Polls \/ RunsOut

QueueNext ==
    \/ TabSteps /\ UNCHANGED queueVars
    \/ Reloads /\ hook' = FreshHook /\ flight' = NoFlight /\ UNCHANGED <<command, answer>>
    \/ SourceClaimed \/ SourceAnswers \/ HookTimesOut \/ CommandRuns
    \/ \E i \in ItemIds : ItemAnswers(i) \/ ItemRead(i) \/ ItemTimesOut(i)
    \/ QueueWorker

-----------------------------------------------------------------------------
(* Properties.                                                             *)

\* The values of this module's variables.
QueueTypeOK ==
    /\ hook \in Hook
    /\ flight \in [ItemIds -> {"none", "fetching", "reading", "over"}]
    /\ command \in {"none", "sent", "accepted", "refused"}
    /\ answer \in Seq(Outcomes)

\* What an item got stands at its place, whatever arrives late, and the result
\* tells which items were asked for at all, also after a common time limit:
\* completeActiveResolverItem, activeResolverComplete and the interpreter's.
OutcomesAreFaithful ==
    /\ \A k \in DOMAIN hook.outcomes, i \in ItemIds : hook.outcomes[k] = Observed(i) => i = k
    /\ hook.result = "complete" =>
        /\ Len(hook.outcomes) = hook.requested
        /\ \A k \in DOMAIN hook.outcomes :
            hook.outcomes[k] = NotDispatched <=> flight[k] = "none"
    /\ Commanded /\ report = "success" =>
        /\ Len(answer) = Items
        /\ doc = pinned => answer = hook.outcomes

\* A request goes out from the commanded document while it is at the URL it was
\* armed at, and when all requests before it are accounted for.
QueueDispatchIsGuarded ==
    \A i \in ItemIds :
        flight[i] = "none" /\ flight'[i] = "fetching" =>
            /\ route = "exact" /\ doc = pinned
            /\ Len(hook'.outcomes) = i - 1
            /\ \A j \in 1 .. (i - 1) : flight[j] # "none"
==============================================================================

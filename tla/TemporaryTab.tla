---------------------------- MODULE TemporaryTab ----------------------------
(***************************************************************************)
(* The temporary tab in which the worker lets ChatGPT's own page load a    *)
(* conversation once more:                                                 *)
(*   background/chatgpt-capture.ts, chatgpt-opaque-replay.ts,              *)
(*   chatgpt-opaque-resolver.ts, chatgpt-active-resolver.ts,               *)
(*   chatgpt-interpreter-resolver.ts                                       *)
(*                                                                         *)
(* The five procedures open, watch and remove their tab alike, each by a   *)
(* deadline of its own.  The URL of the tab carries a marker; a document   *)
(* that starts at that URL is hooked before the page's code runs.  The     *)
(* page belongs to the provider: it may change its URL, load again or be   *)
(* closed by the user at any moment.  What the worker reads from a tab is  *)
(* old when it is used, one step of the worker being one await.            *)
(***************************************************************************)
EXTENDS Naturals

CONSTANT Mixes    \* bound: how often disturbances happen, in each of some mixtures

Disturbances ==
    {"navigation", "reload", "closed-tab", "refused-tab", "worker-lost", "bad-page", "refused-store"}

ASSUME TemporaryTabParameters == \A mix \in Mixes : \A d \in Disturbances : mix[d] \in Nat

VARIABLES
    mode,      \* the procedure: one of Modes
    worker,    \* where it stands
    report,    \* what it answers
    pinned,    \* the document it addresses, 0 for whatever is in the tab
    expired,   \* whether its deadline has passed
    tab,       \* browser: the temporary tab
    route,     \* browser: where the tab is
    doc,       \* browser: the number of the document in the tab, 0 before the first
    hooked,    \* page: whether the document was hooked at its start
    spent      \* bound: disturbances so far

browser == <<tab, route, doc, hooked>>
tabVars == <<mode, worker, report, pinned, expired, browser, spent>>

Modes == {"capture", "replay", "observe", "active", "interpreter"}
Tabs == {"none", "asked", "open", "removing", "closed"}
Routes == {"loading", "exact", "elsewhere"}

\* The worker has to command these; the others work by themselves.
Commanded == mode \in {"active", "interpreter"}

Ended == {"over", "lost"}

\* The awaits of the worker.
Places ==
    {"idle", "creating", "waiting", "reading", "rechecking", "commanding", "polling",
     "beginning", "checking", "fetching", "appending", "sealing", "revisiting", "rereading",
     "confirming", "aborting"} \cup Ended

Spend(what) ==
    /\ spent' = [spent EXCEPT ![what] = @ + 1]
    /\ \E mix \in Mixes : \A d \in Disturbances : spent'[d] <= mix[d]

\* The document runs, with its hook, until the browser has removed the tab.
Alive == tab \in {"open", "removing"} /\ hooked

\* What tabs.get tells, and executeScript without a document to address.
AtTarget == tab = "open" /\ route = "exact"
AstrayNow == tab = "open" /\ route = "elsewhere"

\* executeScript waits for the document of a tab that loads.
ScriptRuns == ~(tab = "open" /\ route = "loading")

\* It then runs in the document, and finds its hook.
HookIsThere == tab = "open" /\ hooked

\* A step of the document, and a step of the worker that waits at `at`.
InPage(step) ==
    /\ Alive
    /\ step
    /\ UNCHANGED <<mode, pinned, worker, report, expired, browser>>

AtWork(at, step) ==
    /\ worker = at
    /\ step
    /\ UNCHANGED <<mode, expired, route, doc, hooked, spent>>

TabInit ==
    /\ mode \in Modes
    /\ worker = "idle" /\ report = "none" /\ pinned = 0 /\ expired = FALSE
    /\ tab = "none" /\ route = "loading" /\ doc = 0 /\ hooked = FALSE
    /\ spent = [d \in Disturbances |-> 0]

-----------------------------------------------------------------------------
(* The worker's part.                                                      *)

\* The finally clause: removeTemporaryTab, and the answer to the caller.
Ends(answer) ==
    /\ worker' = "over" /\ report' = answer
    /\ tab' = IF tab = "open" THEN "removing" ELSE tab

Fails == Ends("failure")

\* tabs.create
Asks ==
    /\ worker = "idle"
    /\ worker' = "creating" /\ tab' = "asked"
    /\ UNCHANGED <<mode, pinned, report, expired, route, doc, hooked, spent>>

\* Mutant: nobody attends to a tab that opens too late.
LateTabStays == "open"
\* cleanLateCreatedTab, creationTimedOut
LateTab == IF worker = "lost" THEN "open" ELSE "removing"

TabOpens ==
    /\ tab = "asked"
    /\ doc' = 1
    /\ \/ worker = "creating" /\ worker' = "waiting" /\ tab' = "open"
       \/ worker # "creating" /\ tab' = LateTab /\ UNCHANGED worker
    /\ UNCHANGED <<mode, pinned, report, expired, route, hooked, spent>>

TabRefused ==
    /\ tab = "asked"
    /\ Spend("refused-tab")
    /\ tab' = "none"
    /\ IF worker = "creating" THEN worker' = "over" /\ report' = "failure"
       ELSE UNCHANGED <<worker, report>>
    /\ UNCHANGED <<mode, pinned, expired, route, doc, hooked>>

TabIsLate ==
    /\ worker = "creating" /\ expired
    /\ Fails
    /\ UNCHANGED <<mode, pinned, expired, route, doc, hooked, spent>>

TabRemoved ==
    /\ tab = "removing"
    /\ tab' = "closed"
    /\ UNCHANGED <<mode, pinned, worker, report, expired, route, doc, hooked, spent>>

Expires ==
    /\ worker \notin {"idle"} \cup Ended /\ ~expired
    /\ expired' = TRUE
    /\ UNCHANGED <<mode, pinned, worker, report, browser, spent>>

\* The worker is lost with all it awaits; nobody removes the tab.
WorkerLost ==
    /\ worker \notin {"idle"} \cup Ended
    /\ Spend("worker-lost")
    /\ worker' = "lost"
    /\ UNCHANGED <<mode, pinned, report, expired, browser>>

-----------------------------------------------------------------------------
(* The page's part.                                                        *)

\* The document starts at the marked URL, and is hooked, or was redirected.
Loads ==
    /\ tab \in {"open", "removing"} /\ route = "loading"
    /\ \/ route' = "exact" /\ hooked' = TRUE /\ UNCHANGED spent
       \/ route' = "elsewhere" /\ UNCHANGED hooked /\ Spend("navigation")
    /\ UNCHANGED <<mode, pinned, worker, report, expired, tab, doc>>

\* The page changes its URL, and changes it back, without a new document.
Moves ==
    /\ tab = "open" /\ hooked /\ route # "loading"
    /\ Spend("navigation")
    /\ route' \in {"exact", "elsewhere"} \ {route}
    /\ UNCHANGED <<mode, pinned, worker, report, expired, tab, doc, hooked>>

\* It loads again at its URL: a new document, with a hook of its own.
Reloads ==
    /\ tab = "open" /\ route = "exact"
    /\ Spend("reload")
    /\ doc' = doc + 1 /\ route' = "loading" /\ hooked' = FALSE
    /\ UNCHANGED <<mode, pinned, worker, report, expired, tab>>

UserCloses ==
    /\ tab = "open"
    /\ Spend("closed-tab")
    /\ tab' = "closed"
    /\ UNCHANGED <<mode, pinned, worker, report, expired, route, doc, hooked>>

\* The steps that leave the hook of the document alone.
TabSteps ==
    \/ Asks \/ TabOpens \/ TabRefused \/ TabIsLate \/ TabRemoved \/ Expires \/ WorkerLost
    \/ Loads \/ Moves \/ UserCloses

\* The values of this module's variables.
TabTypeOK ==
    /\ mode \in Modes
    /\ worker \in Places /\ pinned \in Nat
    /\ report \in {"none", "success", "failure"}
    /\ expired \in BOOLEAN
    /\ tab \in Tabs /\ route \in Routes /\ doc \in Nat /\ hooked \in BOOLEAN
    /\ spent \in [Disturbances -> Nat]
=============================================================================

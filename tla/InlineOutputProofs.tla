------------------------- MODULE InlineOutputProofs -------------------------
(***************************************************************************)
(* InlineOutput, proved for any number of jobs of any kinds and any bounds *)
(* on disturbances: what is being downloaded is protected, and what is     *)
(* reported of it is true.                                                 *)
(***************************************************************************)
EXTENDS InlineOutput, TLAPS, SequenceTheorems

\* The calls of the worker to the offscreen API that are under way together.
Queues == {<<>>, <<"contexts">>, <<"create">>, <<"close">>, <<"close", "contexts">>}

\* The document stays while a lease is held or the timer runs: all calls that are
\* not answered then look for it, and the timer waits for each of them.
DocumentStays ==
    /\ calls \in Queues
    /\ holders # {} \/ timer = "armed" => document /\ calls \in {<<>>, <<"contexts">>}
    /\ timer = "armed" => waits = Len(calls)
    /\ timer = "fired" => calls = <<"close">>
    /\ calls = <<"create">> => ~document

\* A job comes only to the stages of its kind.
OwnStages(j) ==
    /\ kind[j] = "markdown" =>
        stage[j] \in {"idle", "downloading", "confirming", "watching", "over", "lost"}
    /\ kind[j] = "clipboard" => stage[j] \in {"idle", "acquiring", "writing", "over", "lost"}
    /\ UsesBlob(j) => stage[j] # "writing"
    /\ part[j] = "receipt" => kind[j] = "presentation"

\* Whoever needs the document has a lease, and nobody else.
Leased(j) ==
    \/ stage[j] \in {"creating", "writing", "creating-late", "cleaning"}
    \/ UsesBlob(j) /\ stage[j] \in {"downloading", "confirming", "watching"}
    <=> j \in holders

\* A Blob URL that was made is there until its job asks to revoke it.
UrlIsKept(j) ==
    /\ stage[j] \in {"idle", "acquiring"} => request[j] = "none"
    /\ UsesBlob(j) /\ stage[j] \in {"downloading", "confirming", "watching"} => request[j] = "made"
    /\ UsesBlob(j) /\ j \in holders /\ request[j] = "made" => Part(j) \in urls

\* What is known of the download of a job at its stages.
DownloadFollows(j) ==
    /\ stage[j] \in {"idle", "acquiring", "creating", "creating-late", "writing"} =>
        Download(j) = "none"
    /\ stage[j] = "confirming" => Download(j) \in {"complete", "elsewhere"}
    /\ part[j] = "artifact" => download[j]["receipt"] = "none" /\ outcome[j]["receipt"] = "none"
    /\ part[j] = "receipt" =>
        download[j]["artifact"] = "complete" /\ outcome[j]["artifact"] = "confirmed"

\* A job that still works at a part has reported nothing about it.
NotYetReported(j) ==
    stage[j] \in {"idle", "acquiring", "creating", "writing", "downloading", "confirming"} =>
        outcome[j][part[j]] = "none"

GateIsHeld(j) == kind[j] = "markdown" /\ stage[j] \in {"downloading", "watching"} <=> gate = j

Honest(j, p) ==
    /\ outcome[j][p] = "confirmed" /\ kind[j] # "clipboard" => download[j][p] = "complete"
    /\ outcome[j][p] \in {"not-dispatched", "blocked"} => download[j][p] \in {"none", "refused"}
    /\ outcome[j][p] = "failed" /\ kind[j] = "markdown"
        => download[j][p] \in Terminal \ {"complete"}

JobSound(j) ==
    /\ OwnStages(j) /\ Leased(j) /\ UrlIsKept(j) /\ DownloadFollows(j) /\ NotYetReported(j)
    /\ GateIsHeld(j) /\ \A p \in Parts : Honest(j, p)

IoInv == Shapes /\ DocumentStays /\ \A j \in Jobs : JobSound(j)

-----------------------------------------------------------------------------
(* Queues of calls.                                                        *)

LEMMA AppendEnds ==
    ASSUME NEW S, NEW q \in Seq(S), NEW b \in S
    PROVE  /\ Append(q, b) \in Seq(S) /\ Len(Append(q, b)) = Len(q) + 1
           /\ Append(q, b)[Len(q) + 1] = b
  OBVIOUS

LEMMA AppendToOne ==
    ASSUME NEW S, NEW q \in Seq(S), NEW b \in S, Len(q) = 1
    PROVE  /\ Append(q, b) \in Seq(S) /\ Len(Append(q, b)) = 2
           /\ Append(q, b)[1] = q[1] /\ Append(q, b)[2] = b
  <1>1. /\ Append(q, b) \in Seq(S) /\ Len(Append(q, b)) = Len(q) + 1
        /\ Append(q, b)[Len(q) + 1] = b
    BY AppendEnds, Zenon
  <1>2. \A i \in 1 .. Len(q) : Append(q, b)[i] = q[i]
    OBVIOUS
  <1>3. Len(q) + 1 = 2 /\ 1 \in 1 .. Len(q)
    OBVIOUS
  <1> QED BY <1>1, <1>2, <1>3

LEMMA AppendMakesTwo ==
    ASSUME NEW S, NEW a \in S, NEW b \in S PROVE Append(<<a>>, b) = <<a, b>>
  <1>1. <<a>> \in Seq(S) /\ Len(<<a>>) = 1 /\ <<a>>[1] = a
    OBVIOUS
  <1>2. <<a, b>> \in Seq(S) /\ Len(<<a, b>>) = 2 /\ <<a, b>>[1] = a /\ <<a, b>>[2] = b
    OBVIOUS
  <1>3. /\ Append(<<a>>, b) \in Seq(S) /\ Len(Append(<<a>>, b)) = 2
        /\ Append(<<a>>, b)[1] = <<a>>[1] /\ Append(<<a>>, b)[2] = b
    BY <1>1, AppendToOne, Zenon
  <1>4. PICK t : t = <<a, b>>
    OBVIOUS
  <1>5. PICK u : u = Append(<<a>>, b)
    OBVIOUS
  <1>6. t \in Seq(S) /\ Len(t) = 2 /\ t[1] = a /\ t[2] = b
    BY <1>2, <1>4, Zenon
  <1>7. u \in Seq(S) /\ Len(u) = 2 /\ u[1] = a /\ u[2] = b
    BY <1>1, <1>3, <1>5, Zenon
  <1>8. \A i \in 1 .. Len(u) : u[i] = t[i]
    BY <1>6, <1>7
  <1>9. u = t
    BY <1>6, <1>7, <1>8, SeqEqual
  <1> QED BY <1>4, <1>5, <1>9, Zenon

LEMMA OneCall ==
    ASSUME NEW a
    PROVE  /\ Head(<<a>>) = a /\ Tail(<<a>>) = <<>> /\ Len(<<a>>) = 1 /\ <<a>> # <<>>
           /\ Append(<<>>, a) = <<a>> /\ \A S : (\E i \in DOMAIN <<a>> : <<a>>[i] \in S) <=> a \in S
  OBVIOUS

LEMMA TwoCalls ==
    ASSUME NEW a, NEW b
    PROVE  /\ Head(<<a, b>>) = a /\ Tail(<<a, b>>) = <<b>> /\ <<a, b>> # <<>>
           /\ Len(<<a, b>>) = 2
           /\ \A S : (\E i \in DOMAIN <<a, b>> : <<a, b>>[i] \in S) <=> a \in S \/ b \in S
  OBVIOUS

\* The queues are different ones.
LEMMA QueuesDiffer ==
    /\ <<>> # <<"contexts">> /\ <<>> # <<"create">> /\ <<>> # <<"close">>
    /\ <<"contexts">> # <<"create">> /\ <<"contexts">> # <<"close">> /\ <<"create">> # <<"close">>
    /\ \A q \in {<<>>, <<"contexts">>, <<"create">>, <<"close">>} : q # <<"close", "contexts">>
  OBVIOUS

LEMMA QueueTypes ==
    ASSUME NEW q \in Queues PROVE q \in Seq({"contexts", "create", "close"})
  <1>1. \A a, b \in {"contexts", "create", "close"} :
            /\ <<a>> \in Seq({"contexts", "create", "close"})
            /\ <<a, b>> \in Seq({"contexts", "create", "close"})
    OBVIOUS
  <1>2. <<>> \in Seq({"contexts", "create", "close"})
    OBVIOUS
  <1> QED BY <1>1, <1>2 DEF Queues

\* What the answer of the first call leaves.
LEMMA FirstAnswered ==
    ASSUME DocumentStays, calls # <<>>
    PROVE  /\ Head(calls) = "contexts" => calls = <<"contexts">> /\ Tail(calls) = <<>>
           /\ Head(calls) = "create" => calls = <<"create">> /\ Tail(calls) = <<>>
           /\ Head(calls) = "close" => /\ Tail(calls) \in {<<>>, <<"contexts">>}
                                       /\ holders = {} /\ timer # "armed"
                                       /\ calls \in {<<"close">>, <<"close", "contexts">>}
  <1>1. CASE calls = <<"contexts">>
    BY <1>1, OneCall
  <1>2. CASE calls = <<"create">>
    BY <1>2, OneCall
  <1>3. CASE calls = <<"close">>
    BY <1>3, OneCall, QueuesDiffer DEF DocumentStays
  <1>4. CASE calls = <<"close", "contexts">>
    BY <1>4, TwoCalls, QueuesDiffer DEF DocumentStays
  <1> QED BY <1>1, <1>2, <1>3, <1>4 DEF DocumentStays, Queues

\* The document is looked for, unless it is already being made.
LEMMA LookedFor ==
    ASSUME DocumentStays
    PROVE  LET q == IF Creating THEN calls ELSE Append(calls, "contexts") IN
           /\ q \in Queues
           /\ calls \in {<<>>, <<"contexts">>} => q = <<"contexts">>
           /\ q = <<"create">> => calls = <<"create">>
  <1>1. Creating <=> \E i \in DOMAIN calls : calls[i] \in {"contexts", "create"}
    BY DEF Creating
  <1>2. CASE calls = <<>>
    <2>1. ~Creating
      BY <1>1, <1>2
    <2>2. Append(calls, "contexts") = <<"contexts">>
      BY <1>2, OneCall
    <2> QED BY <2>1, <2>2, QueuesDiffer DEF Queues
  <1>3. CASE calls \in {<<"contexts">>, <<"create">>, <<"close", "contexts">>}
    <2>1. Creating
      BY <1>1, <1>3, OneCall, TwoCalls
    <2> QED BY <1>3, <2>1, QueuesDiffer DEF Queues
  <1>4. CASE calls = <<"close">>
    <2>1. ~Creating
      BY <1>1, <1>4, OneCall
    <2>2. Append(calls, "contexts") = <<"close", "contexts">>
      <3>1. "close" \in {"close", "contexts"} /\ "contexts" \in {"close", "contexts"}
        OBVIOUS
      <3> QED BY <1>4, <3>1, AppendMakesTwo
    <2> QED BY <1>4, <2>1, <2>2, QueuesDiffer DEF Queues
  <1> QED BY <1>2, <1>3, <1>4 DEF DocumentStays, Queues

-----------------------------------------------------------------------------
(* Tables, leases and the jobs a step is not about.                        *)

LEMMA OneIsSet ==
    ASSUME NEW S, NEW X, NEW f \in [S -> X], NEW s \in S, NEW v \in X,
           NEW g, g = [f EXCEPT ![s] = v]
    PROVE  g \in [S -> X] /\ g[s] = v /\ \A t \in S : t # s => g[t] = f[t]
  OBVIOUS

LEMMA EntryIsSet ==
    ASSUME NEW S, NEW Y, NEW X, NEW f \in [S -> [Y -> X]], NEW s \in S, NEW r \in Y, NEW v \in X,
           NEW g, g = [f EXCEPT ![s][r] = v]
    PROVE  /\ g \in [S -> [Y -> X]] /\ g[s][r] = v
           /\ \A q \in Y : q # r => g[s][q] = f[s][q]
           /\ \A t \in S : t # s => g[t] = f[t]
  <1>1. g = [t \in S |-> IF t = s THEN [f[s] EXCEPT ![r] = v] ELSE f[t]]
    OBVIOUS
  <1>2. f[s] \in [Y -> X]
    OBVIOUS
  <1>3. [f[s] EXCEPT ![r] = v] = [q \in Y |-> IF q = r THEN v ELSE f[s][q]]
    BY <1>2
  <1> QED BY <1>1, <1>2, <1>3

LEMMA Spent ==
    ASSUME NEW what \in Disturbances, Shapes, Spend(what)
    PROVE  spent' \in [Disturbances -> Nat]
  <1>1. /\ spent \in [Disturbances -> Nat]
        /\ spent' = [spent EXCEPT ![what] = spent[what] + 1]
    BY DEF Spend, Shapes
  <1>2. spent[what] + 1 \in Nat
    BY <1>1
  <1> QED BY <1>1, <1>2, OneIsSet

LEMMA RowTypes ==
    ASSUME Shapes, NEW j \in Jobs
    PROVE  /\ kind[j] \in {"companion", "presentation", "clipboard", "markdown"}
           /\ part[j] \in {"artifact", "receipt"} /\ part[j] \in Parts
           /\ stage[j] \in Stages /\ request[j] \in Requests
           /\ outcome[j] \in [Parts -> Outcomes]
           /\ download[j] \in [Parts -> {"none"} \cup InTransfer \cup Terminal]
           /\ (UsesBlob(j) <=> kind[j] \in {"companion", "presentation"})
  BY InlineOutputParameters DEF InlineOutputParameters, Shapes, Parts, UsesBlob

\* What a job keeps while another one goes on.
RowKept(k) == UNCHANGED <<part[k], stage[k], request[k], outcome[k], download[k]>>

Undisturbed(k) ==
    /\ RowKept(k) /\ (k \in holders' <=> k \in holders)
    /\ <<k, part[k]>> \in urls => <<k, part[k]>> \in urls'
    /\ gate' = k <=> gate = k

LEMMA UndisturbedIsSound ==
    ASSUME NEW k \in Jobs, JobSound(k), Undisturbed(k), kind' = kind PROVE JobSound(k)'
  <1>1. /\ part'[k] = part[k] /\ stage'[k] = stage[k] /\ request'[k] = request[k]
        /\ outcome'[k] = outcome[k] /\ download'[k] = download[k] /\ kind'[k] = kind[k]
    BY DEF Undisturbed, RowKept
  <1>2. UsesBlob(k)' <=> UsesBlob(k)
    BY <1>1 DEF UsesBlob
  <1>3. OwnStages(k)' /\ Leased(k)'
    BY <1>1, <1>2 DEF JobSound, OwnStages, Leased, Undisturbed
  <1>4. UrlIsKept(k)'
    BY <1>1, <1>2 DEF JobSound, UrlIsKept, Undisturbed, Part
  <1>5. DownloadFollows(k)' /\ NotYetReported(k)'
    BY <1>1 DEF JobSound, DownloadFollows, NotYetReported, Download
  <1>6. GateIsHeld(k)' /\ \A p \in Parts : Honest(k, p)'
    BY <1>1 DEF JobSound, GateIsHeld, Honest, Undisturbed
  <1> QED BY <1>3, <1>4, <1>5, <1>6 DEF JobSound

LEMMA JobStep ==
    ASSUME IoInv, NEW j \in Jobs, kind' = kind, Shapes', DocumentStays', JobSound(j)',
           \A k \in Jobs : k # j => Undisturbed(k)
    PROVE  IoInv'
  <1>1. ASSUME NEW k \in Jobs PROVE JobSound(k)'
    <2>1. CASE k = j
      BY <2>1
    <2>2. CASE k # j
      BY <2>2, UndisturbedIsSound DEF IoInv
    <2> QED BY <2>1, <2>2
  <1> QED BY <1>1 DEF IoInv

\* A lease that was held is released.
LEMMA ReleaseKeeps ==
    ASSUME IoInv, NEW j \in Jobs, j \in holders, Release(j), document' = document
    PROVE  /\ DocumentStays' /\ holders' \subseteq Jobs /\ waits' \in Nat
           /\ timer' \in {"none", "armed", "fired"} /\ calls' = calls /\ j \notin holders'
           /\ \A k \in Jobs : k # j => (k \in holders' <=> k \in holders)
  <1>1. Shapes /\ DocumentStays
    BY DEF IoInv
  <1>2. /\ document /\ calls \in {<<>>, <<"contexts">>} /\ timer # "fired"
    BY <1>1, QueuesDiffer DEF DocumentStays
  <1>3. calls' = calls /\ holders' = holders \ {j}
    BY DEF Release
  <1>4. Len(calls) \in Nat
    <2>1. Len(<<>>) = 0 /\ Len(<<"contexts">>) = 1
      OBVIOUS
    <2> QED BY <1>2, <2>1
  <1>5. /\ timer' \in {"none", "armed"} /\ waits' \in Nat
        /\ timer' = "armed" => waits' = Len(calls)
    BY <1>1, <1>2, <1>4 DEF Release, Shapes, DocumentStays
  <1>6. DocumentStays'
    BY <1>1, <1>2, <1>3, <1>5, QueuesDiffer DEF DocumentStays
  <1> QED BY <1>1, <1>3, <1>5, <1>6 DEF Shapes

LEMMA LifecycleKept ==
    ASSUME IoInv, UNCHANGED lifecycle, document' = document
    PROVE  /\ DocumentStays' /\ holders' = holders /\ holders' \subseteq Jobs
           /\ timer' \in {"none", "armed", "fired"} /\ waits' \in Nat
           /\ calls' \in Seq({"contexts", "create", "close"})
  BY DEF IoInv, lifecycle, DocumentStays, Shapes

-----------------------------------------------------------------------------
(* The lifecycle of the offscreen document.                                *)

\* Steps that touch no job.
LEMMA NoJobsStep ==
    ASSUME IoInv, UNCHANGED <<kind, part, stage, request, outcome, holders, gate, urls, download>>,
           Shapes', DocumentStays'
    PROVE  IoInv'
  <1>1. ASSUME NEW k \in Jobs PROVE JobSound(k)'
    <2>1. Undisturbed(k)
      BY DEF Undisturbed, RowKept
    <2> QED BY <2>1, UndisturbedIsSound DEF IoInv
  <1> QED BY <1>1 DEF IoInv

LEMMA TimerFiresHolds ==
    ASSUME IoInv, TimerFires PROVE IoInv'
  <1>1. /\ timer = "armed" /\ waits = 0 /\ Shapes /\ DocumentStays
        /\ UNCHANGED <<kind, part, stage, request, outcome, holders, waits, gate, document, urls,
                       download, spent>>
    BY DEF TimerFires, IoInv
  <1>2. calls = <<>>
    <2>1. Len(<<"contexts">>) = 1
      OBVIOUS
    <2> QED BY <1>1, <2>1 DEF DocumentStays
  <1>3. CASE holders # {} /\ timer' = "none" /\ UNCHANGED calls
    <2>1. DocumentStays' /\ Shapes'
      BY <1>1, <1>3 DEF DocumentStays, Shapes
    <2> QED BY <1>1, <2>1, NoJobsStep
  <1>4. CASE holders = {} /\ timer' = "fired" /\ calls' = Append(calls, "close")
    <2>1. calls' = <<"close">>
      BY <1>2, <1>4, OneCall
    <2>2. calls' \in Queues /\ calls' \in Seq({"contexts", "create", "close"})
      BY <2>1, QueueTypes DEF Queues
    <2>3. DocumentStays'
      BY <1>1, <1>4, <2>1, <2>2, QueuesDiffer DEF DocumentStays
    <2>4. Shapes'
      BY <1>1, <1>4, <2>2 DEF Shapes
    <2> QED BY <1>1, <2>3, <2>4, NoJobsStep
  <1> QED BY <1>3, <1>4 DEF TimerFires

\* One more answer.
LEMMA Answers ==
    ASSUME Shapes, waits' = IF waits > 0 THEN waits - 1 ELSE 0
    PROVE  waits' \in Nat /\ (waits = 1 => waits' = 0)
  BY DEF Shapes

LEMMA DocumentMissingHolds ==
    ASSUME IoInv, DocumentMissing PROVE IoInv'
  <1>1. /\ calls # <<>> /\ Head(calls) = "contexts" /\ ~document /\ Shapes /\ DocumentStays
        /\ calls' = Append(Tail(calls), "create")
        /\ UNCHANGED <<kind, part, stage, request, outcome, holders, timer, gate, document, urls,
                       download, spent>>
    BY DEF DocumentMissing, IoInv
  <1>2. calls = <<"contexts">> /\ calls' = <<"create">>
    BY <1>1, FirstAnswered, OneCall
  <1>3. waits' \in Nat
    BY <1>1, Answers DEF DocumentMissing
  <1>4. calls' \in Queues /\ calls' \in Seq({"contexts", "create", "close"})
    BY <1>2, QueueTypes DEF Queues
  <1>5. DocumentStays'
    BY <1>1, <1>2, <1>4, QueuesDiffer DEF DocumentStays
  <1>6. Shapes'
    BY <1>1, <1>3, <1>4 DEF Shapes
  <1> QED BY <1>1, <1>5, <1>6, NoJobsStep

\* A lease for everyone who waited for the document.
LEMMA GrantsHold ==
    ASSUME IoInv, LeasesGranted, document', UNCHANGED <<kind, part, gate, urls, download, spent>>,
           calls' = <<>>, waits' \in Nat, timer' = "armed" => waits' = 0, timer # "fired"
    PROVE  IoInv'
  <1>1. Shapes /\ DocumentStays /\ UNCHANGED <<timer, outcome>>
    BY DEF IoInv, LeasesGranted
  <1>2. /\ holders' = holders \cup Acquiring /\ Acquiring \subseteq Jobs
        /\ \A j \in Jobs : j \in Acquiring <=> stage[j] = "acquiring"
    BY DEF LeasesGranted, Acquiring
  <1>3. \A j \in Jobs :
            /\ j \in Acquiring => /\ stage'[j] = IF UsesBlob(j) THEN "creating" ELSE "writing"
                                  /\ request'[j] = "sent"
            /\ j \notin Acquiring => stage'[j] = stage[j] /\ request'[j] = request[j]
    BY DEF LeasesGranted
  <1>4. Shapes'
    <2>1. {"creating", "writing"} \subseteq Stages /\ "sent" \in Requests
      BY DEF Stages, Requests
    <2>2. stage' \in [Jobs -> Stages] /\ request' \in [Jobs -> Requests]
      BY <1>1, <2>1 DEF LeasesGranted, Shapes
    <2>3. calls' \in Seq({"contexts", "create", "close"}) /\ holders' \subseteq Jobs
              /\ document' \in BOOLEAN
      BY <1>1, <1>2, QueueTypes DEF Queues, Shapes
    <2> QED BY <1>1, <2>2, <2>3 DEF Shapes
  <1>5. DocumentStays'
    <2>1. Len(<<>>) = 0
      OBVIOUS
    <2> QED BY <1>1, <2>1, QueuesDiffer DEF DocumentStays, Queues
  <1>6. ASSUME NEW j \in Jobs PROVE JobSound(j)'
    <2>1. JobSound(j) /\ kind'[j] = kind[j] /\ (UsesBlob(j)' <=> UsesBlob(j))
      BY DEF IoInv, UsesBlob
    <2>2. CASE j \in Acquiring
      <3>1. stage[j] = "acquiring" /\ request'[j] = "sent" /\ j \in holders'
                /\ stage'[j] = IF UsesBlob(j) THEN "creating" ELSE "writing"
        BY <1>2, <1>3, <2>2
      <3>2. kind[j] # "markdown" /\ (kind[j] = "clipboard" => ~UsesBlob(j))
        BY <2>1, <3>1 DEF JobSound, OwnStages, UsesBlob
      <3>3. OwnStages(j)' /\ Leased(j)'
        BY <2>1, <3>1, <3>2 DEF JobSound, OwnStages, Leased
      <3>4. UrlIsKept(j)'
        BY <3>1 DEF UrlIsKept
      <3>5. DownloadFollows(j)' /\ NotYetReported(j)'
        BY <1>1, <2>1, <3>1 DEF JobSound, DownloadFollows, NotYetReported, Download
      <3>6. GateIsHeld(j)' /\ \A p \in Parts : Honest(j, p)'
        BY <1>1, <2>1, <3>2 DEF JobSound, GateIsHeld, Honest
      <3> QED BY <3>3, <3>4, <3>5, <3>6 DEF JobSound
    <2>3. CASE j \notin Acquiring
      <3>1. Undisturbed(j)
        BY <1>1, <1>2, <1>3, <2>3 DEF Undisturbed, RowKept
      <3> QED BY <2>1, <3>1, UndisturbedIsSound
    <2> QED BY <2>2, <2>3
  <1> QED BY <1>4, <1>5, <1>6 DEF IoInv

LEMMA DocumentFoundHolds ==
    ASSUME IoInv, DocumentFound PROVE IoInv'
  <1>1. /\ calls # <<>> /\ Head(calls) = "contexts" /\ document /\ Shapes /\ DocumentStays
        /\ AnsweredOne /\ LeasesGranted
        /\ UNCHANGED <<kind, part, gate, document, urls, download, spent>>
    BY DEF DocumentFound, IoInv
  <1>2. calls = <<"contexts">> /\ calls' = <<>>
    BY <1>1, FirstAnswered DEF AnsweredOne
  <1>3. waits' \in Nat /\ (waits = 1 => waits' = 0)
    BY <1>1, Answers DEF AnsweredOne
  <1>4. timer' = timer /\ timer # "fired" /\ (timer = "armed" => waits = 1)
    <2>1. Len(<<"contexts">>) = 1
      OBVIOUS
    <2> QED BY <1>1, <1>2, <2>1, QueuesDiffer DEF DocumentStays, LeasesGranted
  <1>5. document'
    BY <1>1
  <1> QED BY <1>1, <1>2, <1>3, <1>4, <1>5, GrantsHold

LEMMA DocumentCreatedHolds ==
    ASSUME IoInv, DocumentCreated PROVE IoInv'
  <1>1. /\ calls # <<>> /\ Head(calls) = "create" /\ document' = TRUE /\ Shapes /\ DocumentStays
        /\ AnsweredOne /\ LeasesGranted
        /\ UNCHANGED <<kind, part, gate, urls, download, spent>>
    BY DEF DocumentCreated, IoInv
  <1>2. calls = <<"create">> /\ calls' = <<>>
    BY <1>1, FirstAnswered DEF AnsweredOne
  <1>3. waits' \in Nat
    BY <1>1, Answers DEF AnsweredOne
  <1>4. timer' = timer /\ timer # "fired" /\ timer # "armed"
    BY <1>1, <1>2, QueuesDiffer DEF DocumentStays, LeasesGranted
  <1>5. document'
    BY <1>1
  <1> QED BY <1>1, <1>2, <1>3, <1>4, <1>5, GrantsHold

LEMMA DocumentRefusedHolds ==
    ASSUME IoInv, DocumentRefused PROVE IoInv'
  <1>1. /\ calls # <<>> /\ Head(calls) = "create" /\ Shapes /\ DocumentStays
        /\ AnsweredOne /\ Spend("no-document")
        /\ UNCHANGED <<kind, part, request, holders, timer, gate, document, urls, download>>
    BY DEF DocumentRefused, IoInv
  <1>2. calls = <<"create">> /\ calls' = <<>>
    BY <1>1, FirstAnswered DEF AnsweredOne
  <1>3. waits' \in Nat
    BY <1>1, Answers DEF AnsweredOne
  <1>4. timer # "armed" /\ timer # "fired" /\ holders = {}
    BY <1>1, <1>2, QueuesDiffer DEF DocumentStays
  <1>5. DocumentStays'
    BY <1>1, <1>2, <1>4, QueuesDiffer DEF DocumentStays, Queues
  <1>6. spent' \in [Disturbances -> Nat]
    <2>1. "no-document" \in Disturbances
      BY DEF Disturbances
    <2> QED BY <1>1, <2>1, Spent
  <1> DEFINE What(j) == IF UsesBlob(j) THEN "not-dispatched" ELSE "failed"
  <1>7. /\ stage' = [j \in Jobs |-> IF j \in Acquiring THEN "over" ELSE stage[j]]
        /\ outcome' = [j \in Jobs |->
                          IF j \notin Acquiring THEN outcome[j]
                          ELSE [outcome[j] EXCEPT ![part[j]] = What(j)]]
    BY DEF DocumentRefused
  <1>8. \A j \in Jobs : What(j) \in Outcomes
    BY DEF Outcomes
  <1>9. \A j \in Jobs :
            /\ What(j) = "not-dispatched" \/ (What(j) = "failed" /\ ~UsesBlob(j))
            /\ What(j) \notin {"none", "confirmed", "blocked"}
    OBVIOUS
  <1> HIDE DEF What
  <1>10. ASSUME NEW j \in Jobs
         PROVE  LET o == [outcome[j] EXCEPT ![part[j]] = What(j)] IN
                /\ o \in [Parts -> Outcomes] /\ o[part[j]] = What(j)
                /\ \A p \in Parts : p # part[j] => o[p] = outcome[j][p]
    BY <1>1, <1>8, RowTypes
  <1>11. Shapes'
    <2>1. "over" \in Stages /\ stage' \in [Jobs -> Stages]
      BY <1>1, <1>7 DEF Shapes, Stages
    <2>2. outcome' \in [Jobs -> [Parts -> Outcomes]]
      BY <1>1, <1>7, <1>10 DEF Shapes
    <2>3. calls' \in Seq({"contexts", "create", "close"})
      BY <1>2
    <2> QED BY <1>1, <1>3, <1>6, <2>1, <2>2, <2>3 DEF Shapes
  <1>12. ASSUME NEW j \in Jobs PROVE JobSound(j)'
    <2>1. JobSound(j) /\ kind'[j] = kind[j] /\ (UsesBlob(j)' <=> UsesBlob(j))
      BY <1>1 DEF IoInv, UsesBlob
    <2>2. CASE j \in Acquiring
      <3>1. stage[j] = "acquiring" /\ stage'[j] = "over"
        BY <1>7, <2>2 DEF Acquiring
      <3>2. /\ outcome'[j][part[j]] = What(j)
            /\ \A p \in Parts : p # part[j] => outcome'[j][p] = outcome[j][p]
        BY <1>7, <1>10, <2>2
      <3>3. kind[j] # "markdown" /\ download[j][part[j]] = "none"
        BY <2>1, <3>1 DEF JobSound, OwnStages, DownloadFollows, Download
      <3>4. OwnStages(j)' /\ Leased(j)' /\ UrlIsKept(j)' /\ GateIsHeld(j)' /\ NotYetReported(j)'
        BY <1>1, <1>4, <2>1, <3>1
        DEF JobSound, OwnStages, Leased, UrlIsKept, GateIsHeld, NotYetReported
      <3>5. DownloadFollows(j)'
        <4>1. /\ part[j] = "artifact" => outcome'[j]["receipt"] = outcome[j]["receipt"]
              /\ part[j] = "receipt" => outcome'[j]["artifact"] = outcome[j]["artifact"]
          BY <3>2 DEF Parts
        <4> QED BY <1>1, <2>1, <3>1, <4>1 DEF JobSound, DownloadFollows
      <3>6. ASSUME NEW p \in Parts PROVE Honest(j, p)'
        <4>1. CASE p = part[j]
          BY <1>1, <1>9, <3>2, <3>3, <4>1 DEF Honest
        <4>2. CASE p # part[j]
          BY <1>1, <2>1, <3>2, <4>2 DEF JobSound, Honest
        <4> QED BY <4>1, <4>2
      <3> QED BY <3>4, <3>5, <3>6 DEF JobSound
    <2>3. CASE j \notin Acquiring
      <3>1. Undisturbed(j)
        BY <1>1, <1>7, <2>3 DEF Undisturbed, RowKept
      <3> QED BY <1>1, <2>1, <3>1, UndisturbedIsSound
    <2> QED BY <2>2, <2>3
  <1> QED BY <1>5, <1>11, <1>12 DEF IoInv

\* Without the document no message is made any more, and none is sent.
LEMMA GoneRequests ==
    ASSUME Shapes, DocumentGone
    PROVE  /\ request' \in [Jobs -> Requests] /\ document' = FALSE /\ urls' = {}
           /\ \A j \in Jobs : request[j] = "none" => request'[j] = "none"
  BY DEF Shapes, DocumentGone, Requests

LEMMA DocumentClosedHolds ==
    ASSUME IoInv, DocumentClosed PROVE IoInv'
  <1>1. /\ calls # <<>> /\ Head(calls) = "close" /\ Shapes /\ DocumentStays
        /\ AnsweredOne /\ DocumentGone /\ timer' = "none"
        /\ UNCHANGED <<kind, part, stage, outcome, holders, gate, download, spent>>
    BY DEF DocumentClosed, IoInv
  <1>2. calls' \in {<<>>, <<"contexts">>} /\ holders = {}
    BY <1>1, FirstAnswered DEF AnsweredOne
  <1>3. waits' \in Nat
    BY <1>1, Answers DEF AnsweredOne
  <1>4. /\ request' \in [Jobs -> Requests] /\ document' = FALSE /\ urls' = {}
        /\ \A j \in Jobs : request[j] = "none" => request'[j] = "none"
    BY <1>1, GoneRequests
  <1>5. DocumentStays'
    BY <1>1, <1>2, <1>4, QueuesDiffer DEF DocumentStays, Queues
  <1>6. Shapes'
    <2>1. calls' \in Seq({"contexts", "create", "close"})
      BY <1>2, QueueTypes DEF Queues
    <2> QED BY <1>1, <1>3, <1>4, <2>1 DEF Shapes
  <1>7. ASSUME NEW j \in Jobs PROVE JobSound(j)'
    <2>1. JobSound(j) /\ kind'[j] = kind[j] /\ (UsesBlob(j)' <=> UsesBlob(j))
      BY <1>1 DEF IoInv, UsesBlob
    <2>2. j \notin holders /\ j \notin holders'
      BY <1>1, <1>2
    <2>3. ~(UsesBlob(j) /\ stage[j] \in {"downloading", "confirming", "watching"})
      BY <2>1, <2>2 DEF JobSound, Leased
    <2>4. UrlIsKept(j)'
      BY <1>1, <1>4, <2>1, <2>2, <2>3 DEF JobSound, UrlIsKept
    <2>5. OwnStages(j)' /\ Leased(j)' /\ GateIsHeld(j)' /\ NotYetReported(j)'
      BY <1>1, <2>1 DEF JobSound, OwnStages, Leased, GateIsHeld, NotYetReported
    <2>6. DownloadFollows(j)' /\ \A p \in Parts : Honest(j, p)'
      BY <1>1, <2>1 DEF JobSound, DownloadFollows, Download, Honest
    <2> QED BY <2>4, <2>5, <2>6 DEF JobSound
  <1> QED BY <1>5, <1>6, <1>7 DEF IoInv

LEMMA WorkerLostHolds ==
    ASSUME IoInv, WorkerLost PROVE IoInv'
  <1>1. /\ Shapes /\ Spend("worker-lost")
        /\ holders' = {} /\ timer' = "none" /\ waits' = 0 /\ calls' = <<>> /\ gate' = Nobody
        /\ UNCHANGED <<kind, part, outcome, download>>
    BY DEF WorkerLost, IoInv
  <1>2. spent' \in [Disturbances -> Nat]
    <2>1. "worker-lost" \in Disturbances
      BY DEF Disturbances
    <2> QED BY <1>1, <2>1, Spent
  <1>3. \A j \in Jobs : stage'[j] = IF stage[j] = "over" \/ (stage[j] = "idle" /\ part[j] = "artifact")
                                    THEN stage[j] ELSE "lost"
    BY DEF WorkerLost
  <1>4. stage' \in [Jobs -> Stages]
    <2>1. "lost" \in Stages
      BY DEF Stages
    <2> QED BY <1>1, <2>1 DEF WorkerLost, Shapes
  <1>5. /\ request' \in [Jobs -> Requests] /\ document' \in BOOLEAN /\ urls' \subseteq Jobs \X Parts
        /\ \A j \in Jobs : request[j] = "none" => request'[j] = "none"
    <2>1. CASE UNCHANGED <<document, urls, request>>
      BY <1>1, <2>1 DEF Shapes
    <2>2. CASE document' = TRUE /\ UNCHANGED <<urls, request>>
      BY <1>1, <2>2 DEF Shapes
    <2>3. CASE DocumentGone
      BY <1>1, <2>3, GoneRequests
    <2> QED BY <2>1, <2>2, <2>3 DEF WorkerLost
  <1>6. DocumentStays'
    BY <1>1, QueuesDiffer DEF DocumentStays, Queues
  <1>7. Shapes'
    <2>1. calls' \in Seq({"contexts", "create", "close"})
      BY <1>1, QueueTypes DEF Queues
    <2> QED BY <1>1, <1>2, <1>4, <1>5, <2>1 DEF Shapes
  <1>8. ASSUME NEW j \in Jobs PROVE JobSound(j)'
    <2>1. JobSound(j) /\ kind'[j] = kind[j] /\ (UsesBlob(j)' <=> UsesBlob(j))
      BY <1>1 DEF IoInv, UsesBlob
    <2>2. stage'[j] \in {"idle", "over", "lost"} /\ (stage'[j] = "idle" => stage[j] = "idle")
      BY <1>3
    <2>3. OwnStages(j)' /\ Leased(j)' /\ NotYetReported(j)'
      BY <1>1, <2>1, <2>2 DEF JobSound, OwnStages, Leased, NotYetReported
    <2>6. GateIsHeld(j)'
      BY <1>1, <2>2, InlineOutputParameters DEF InlineOutputParameters, GateIsHeld
    <2>4. UrlIsKept(j)'
      BY <1>1, <1>5, <2>1, <2>2 DEF JobSound, UrlIsKept
    <2>5. DownloadFollows(j)' /\ \A p \in Parts : Honest(j, p)'
      BY <1>1, <2>1, <2>2 DEF JobSound, DownloadFollows, Download, Honest
    <2> QED BY <2>3, <2>4, <2>5, <2>6 DEF JobSound
  <1> QED BY <1>6, <1>7, <1>8 DEF IoInv

-----------------------------------------------------------------------------
(* Handlers of messages.                                                   *)

LEMMA BeginsHolds ==
    ASSUME IoInv, NEW j \in Jobs, Begins(j) PROVE IoInv'
  <1>1. /\ stage[j] = "idle" /\ kind[j] # "markdown" /\ Shapes /\ DocumentStays /\ JobSound(j)
        /\ stage' = [stage EXCEPT ![j] = "acquiring"] /\ Acquire
        /\ UNCHANGED <<kind, part, request, outcome, gate, document, urls, download, spent>>
    BY DEF Begins, IoInv
  <1>2. /\ stage' \in [Jobs -> Stages] /\ stage'[j] = "acquiring"
        /\ \A k \in Jobs : k # j => stage'[k] = stage[k]
    <2>1. "acquiring" \in Stages
      BY DEF Stages
    <2> QED BY <1>1, <2>1, OneIsSet DEF Shapes
  <1>3. /\ timer' = "none" /\ waits' = 0 /\ holders' = holders
        /\ calls' = IF Creating THEN calls ELSE Append(calls, "contexts")
    BY <1>1 DEF Acquire
  <1>4. /\ calls' \in Queues
        /\ calls \in {<<>>, <<"contexts">>} => calls' = <<"contexts">>
        /\ calls' = <<"create">> => calls = <<"create">>
    BY <1>1, <1>3, LookedFor
  <1>5. DocumentStays'
    BY <1>1, <1>3, <1>4 DEF DocumentStays
  <1>6. Shapes'
    <2>1. calls' \in Seq({"contexts", "create", "close"})
      BY <1>4, QueueTypes
    <2> QED BY <1>1, <1>2, <1>3, <2>1 DEF Shapes
  <1>7. ASSUME NEW k \in Jobs, k # j PROVE Undisturbed(k)
    BY <1>1, <1>2, <1>3, <1>7 DEF Undisturbed, RowKept
  <1>8. JobSound(j)'
    <2>1. UsesBlob(j)' <=> UsesBlob(j)
      BY <1>1 DEF UsesBlob
    <2>2. OwnStages(j)' /\ NotYetReported(j)'
      BY <1>1, <1>2, <2>1 DEF JobSound, OwnStages, NotYetReported
    <2>5. Leased(j)' /\ GateIsHeld(j)'
      BY <1>1, <1>2, <1>3, <2>1 DEF JobSound, Leased, GateIsHeld
    <2>3. UrlIsKept(j)'
      BY <1>1, <1>2 DEF JobSound, UrlIsKept
    <2>4. DownloadFollows(j)' /\ \A p \in Parts : Honest(j, p)'
      BY <1>1, <1>2 DEF JobSound, DownloadFollows, Download, Honest
    <2> QED BY <2>2, <2>3, <2>4, <2>5 DEF JobSound
  <1> QED BY <1>1, <1>5, <1>6, <1>7, <1>8, JobStep

LEMMA DocumentServesHolds ==
    ASSUME IoInv, NEW j \in Jobs, DocumentServes(j) PROVE IoInv'
  <1>1. /\ Shapes /\ DocumentStays /\ JobSound(j)
        /\ UNCHANGED <<kind, part, stage, outcome, lifecycle, gate, document, download>>
    BY DEF DocumentServes, IoInv
  <1>2. PICK answer \in {"made", "refused", "revoked"} :
            /\ request' = [request EXCEPT ![j] = answer]
            /\ request[j] \in {"sent", "revoking"}
            /\ answer = "made" => urls' = IF UsesBlob(j) THEN urls \cup {Part(j)} ELSE urls
            /\ urls' \in {urls, urls \cup {Part(j)}, urls \ {Part(j)}}
    BY DEF DocumentServes
  <1>3. /\ request' \in [Jobs -> Requests] /\ request'[j] = answer
        /\ \A k \in Jobs : k # j => request'[k] = request[k]
    <2>1. answer \in Requests
      BY DEF Requests
    <2> QED BY <1>1, <1>2, <2>1, OneIsSet DEF Shapes
  <1>4. spent' \in [Disturbances -> Nat]
    <2>1. "refused-Blob" \in Disturbances
      BY DEF Disturbances
    <2>2. CASE UNCHANGED spent
      BY <1>1, <2>2 DEF Shapes
    <2>3. CASE Spend("refused-Blob")
      BY <1>1, <2>1, <2>3, Spent
    <2> QED BY <2>2, <2>3 DEF DocumentServes
  <1>5. /\ DocumentStays' /\ holders' = holders /\ holders' \subseteq Jobs
        /\ timer' \in {"none", "armed", "fired"} /\ waits' \in Nat
        /\ calls' \in Seq({"contexts", "create", "close"})
    BY <1>1, LifecycleKept
  <1>6. Shapes'
    <2>1. Part(j) \in Jobs \X Parts
      BY <1>1, RowTypes DEF Part
    <2>2. urls' \subseteq Jobs \X Parts
      BY <1>1, <1>2, <2>1 DEF Shapes
    <2> QED BY <1>1, <1>3, <1>4, <1>5, <2>2 DEF Shapes
  <1>7. ASSUME NEW k \in Jobs, k # j PROVE Undisturbed(k)
    <2>1. <<k, part[k]>> # Part(j)
      BY <1>7 DEF Part
    <2> QED BY <1>1, <1>2, <1>3, <1>5, <1>7, <2>1 DEF Undisturbed, RowKept
  <1>8. JobSound(j)'
    <2>1. UsesBlob(j)' <=> UsesBlob(j)
      BY <1>1 DEF UsesBlob
    <2>2. OwnStages(j)' /\ Leased(j)' /\ GateIsHeld(j)' /\ NotYetReported(j)'
      BY <1>1, <1>5, <2>1 DEF JobSound, OwnStages, Leased, GateIsHeld, NotYetReported
    <2>3. UrlIsKept(j)'
      <3>1. Part(j)' = Part(j)
        BY <1>1 DEF Part
      <3>2. answer = "made" /\ UsesBlob(j) => Part(j) \in urls'
        BY <1>2
      <3> QED BY <1>1, <1>2, <1>3, <2>1, <3>1, <3>2 DEF JobSound, UrlIsKept
    <2>4. DownloadFollows(j)' /\ \A p \in Parts : Honest(j, p)'
      BY <1>1 DEF JobSound, DownloadFollows, Download, Honest
    <2> QED BY <2>2, <2>3, <2>4 DEF JobSound
  <1> QED BY <1>1, <1>5, <1>6, <1>7, <1>8, JobStep

\* The lifecycle goes on without change, or a lease is released.
LifecycleSound(j) ==
    /\ DocumentStays' /\ holders' \subseteq Jobs /\ timer' \in {"none", "armed", "fired"}
    /\ waits' \in Nat /\ calls' \in Seq({"contexts", "create", "close"})
    /\ \A k \in Jobs : k # j => (k \in holders' <=> k \in holders)

LEMMA LeaseStep ==
    ASSUME IoInv, NEW j \in Jobs, document' = document,
           UNCHANGED lifecycle \/ (Release(j) /\ j \in holders)
    PROVE  /\ LifecycleSound(j)
           /\ UNCHANGED lifecycle => holders' = holders
           /\ Release(j) /\ j \in holders => j \notin holders'
  <1>1. Shapes
    BY DEF IoInv
  <1>2. CASE UNCHANGED lifecycle
    <2>1. LifecycleSound(j) /\ holders' = holders
      BY <1>2, LifecycleKept DEF LifecycleSound
    <2> QED BY <2>1 DEF Release
  <1>3. CASE Release(j) /\ j \in holders
    <2>1. LifecycleSound(j) /\ j \notin holders'
      BY <1>1, <1>3, ReleaseKeeps DEF LifecycleSound, Shapes
    <2> QED BY <1>3, <2>1 DEF lifecycle
  <1> QED BY <1>2, <1>3

\* What becomes of the row of a job and of nobody else's.
LEMMA OneJobStep ==
    ASSUME IoInv, NEW j \in Jobs, UNCHANGED <<kind, document>>, LifecycleSound(j),
           part' \in [Jobs -> Parts], stage' \in [Jobs -> Stages], request' \in [Jobs -> Requests],
           outcome' \in [Jobs -> [Parts -> Outcomes]], spent' \in [Disturbances -> Nat],
           download' \in [Jobs -> [Parts -> {"none"} \cup InTransfer \cup Terminal]],
           urls' \in {urls, urls \ {Part(j)}}, gate' \in {gate, j, Nobody},
           \A k \in Jobs : k # j =>
               /\ part'[k] = part[k] /\ stage'[k] = stage[k] /\ request'[k] = request[k]
               /\ outcome'[k] = outcome[k] /\ download'[k] = download[k]
               /\ gate = k => gate' = k,
           JobSound(j)'
    PROVE  IoInv'
  <1>1. Shapes
    BY DEF IoInv
  <1>2. Shapes'
    <2>1. urls' \subseteq Jobs \X Parts
      BY <1>1 DEF Shapes
    <2>2. gate' \in Jobs \cup {Nobody}
      BY <1>1 DEF Shapes
    <2> QED BY <1>1, <2>1, <2>2 DEF Shapes, LifecycleSound
  <1>3. ASSUME NEW k \in Jobs, k # j PROVE Undisturbed(k)
    <2>1. <<k, part[k]>> # Part(j)
      BY <1>3 DEF Part
    <2>2. gate' = k <=> gate = k
      BY <1>3, InlineOutputParameters DEF InlineOutputParameters
    <2> QED BY <1>3, <2>1, <2>2 DEF Undisturbed, RowKept, LifecycleSound
  <1>4. DocumentStays'
    BY DEF LifecycleSound
  <1> QED BY <1>2, <1>3, <1>4, JobStep

\* A job that goes on with its part, reporting nothing.
LEMMA StageTable ==
    ASSUME Shapes, NEW j \in Jobs, NEW v \in Stages, stage' = [stage EXCEPT ![j] = v]
    PROVE  /\ stage' \in [Jobs -> Stages] /\ stage'[j] = v
           /\ \A k \in Jobs : k # j => stage'[k] = stage[k]
  BY OneIsSet DEF Shapes

LEMMA RequestTable ==
    ASSUME Shapes, NEW j \in Jobs, NEW v \in Requests, request' = [request EXCEPT ![j] = v]
    PROVE  /\ request' \in [Jobs -> Requests] /\ request'[j] = v
           /\ \A k \in Jobs : k # j => request'[k] = request[k]
  BY OneIsSet DEF Shapes

LEMMA OutcomeTable ==
    ASSUME Shapes, NEW j \in Jobs, NEW v \in Outcomes, Reported(j, v)
    PROVE  /\ outcome' \in [Jobs -> [Parts -> Outcomes]] /\ outcome'[j][part[j]] = v
           /\ \A p \in Parts : p # part[j] => outcome'[j][p] = outcome[j][p]
           /\ \A k \in Jobs : k # j => outcome'[k] = outcome[k]
  <1>1. /\ outcome \in [Jobs -> [Parts -> Outcomes]] /\ part[j] \in Parts
        /\ outcome' = [outcome EXCEPT ![j][part[j]] = v]
    BY DEF Shapes, Reported
  <1> QED BY <1>1, EntryIsSet

LEMMA DownloadTable ==
    ASSUME Shapes, NEW j \in Jobs, NEW p \in Parts, NEW v \in InTransfer \cup Terminal,
           download' = [download EXCEPT ![j][p] = v]
    PROVE  /\ download' \in [Jobs -> [Parts -> {"none"} \cup InTransfer \cup Terminal]]
           /\ download'[j][p] = v
           /\ \A q \in Parts : q # p => download'[j][q] = download[j][q]
           /\ \A k \in Jobs : k # j => download'[k] = download[k]
  <1>1. /\ download \in [Jobs -> [Parts -> {"none"} \cup InTransfer \cup Terminal]]
        /\ v \in {"none"} \cup InTransfer \cup Terminal
    BY DEF Shapes
  <1> QED BY <1>1, EntryIsSet

LEMMA BeginsStrictHolds ==
    ASSUME IoInv, NEW j \in Jobs, BeginsStrict(j) PROVE IoInv'
  <1>1. /\ stage[j] = "idle" /\ kind[j] = "markdown" /\ Shapes /\ JobSound(j)
        /\ UNCHANGED <<kind, part, request, lifecycle, document, urls, spent>>
        /\ part[j] \in Parts /\ {"downloading", "over"} \subseteq Stages
        /\ "asked" \in InTransfer /\ "blocked" \in Outcomes
    BY RowTypes DEF BeginsStrict, IoInv, Stages, InTransfer, Outcomes
  <1>2. LifecycleSound(j) /\ holders' = holders
    BY <1>1, LeaseStep
  <1>3. /\ part[j] = "artifact" /\ ~UsesBlob(j) /\ ~UsesBlob(j)' /\ kind'[j] = "markdown"
        /\ part'[j] = part[j] /\ request'[j] = request[j]
        /\ download[j][part[j]] = "none" /\ outcome[j][part[j]] = "none" /\ request[j] = "none"
    BY <1>1, RowTypes
    DEF JobSound, OwnStages, UsesBlob, DownloadFollows, Download, NotYetReported, UrlIsKept
  <1>4. CASE /\ gate = Nobody /\ gate' = j /\ stage' = [stage EXCEPT ![j] = "downloading"]
             /\ download' = [download EXCEPT ![j][part[j]] = "asked"] /\ UNCHANGED outcome
    <2>1. /\ stage' \in [Jobs -> Stages] /\ stage'[j] = "downloading"
          /\ \A k \in Jobs : k # j => stage'[k] = stage[k]
      BY <1>1, <1>4, StageTable
    <2>2. /\ download' \in [Jobs -> [Parts -> {"none"} \cup InTransfer \cup Terminal]]
          /\ download'[j][part[j]] = "asked"
          /\ \A q \in Parts : q # part[j] => download'[j][q] = download[j][q]
          /\ \A k \in Jobs : k # j => download'[k] = download[k]
      BY <1>1, <1>4, DownloadTable
    <2>3. OwnStages(j)' /\ Leased(j)' /\ UrlIsKept(j)' /\ GateIsHeld(j)' /\ NotYetReported(j)'
      BY <1>1, <1>2, <1>3, <1>4, <2>1
      DEF JobSound, OwnStages, Leased, UrlIsKept, GateIsHeld, NotYetReported
    <2>4. DownloadFollows(j)'
      BY <1>1, <1>3, <1>4, <2>1, <2>2 DEF JobSound, DownloadFollows, Parts
    <2>5. ASSUME NEW p \in Parts PROVE Honest(j, p)'
      <3>1. CASE p = part[j]
        BY <1>3, <1>4, <3>1 DEF Honest
      <3>2. CASE p # part[j]
        BY <1>1, <1>3, <1>4, <2>2, <3>2 DEF JobSound, Honest
      <3> QED BY <3>1, <3>2
    <2>6. JobSound(j)'
      BY <2>3, <2>4, <2>5 DEF JobSound
    <2>7. \A k \in Jobs : k # j => (gate = k => gate' = k)
      BY <1>4, InlineOutputParameters DEF InlineOutputParameters
    <2>8. /\ part' \in [Jobs -> Parts] /\ request' \in [Jobs -> Requests]
          /\ outcome' \in [Jobs -> [Parts -> Outcomes]] /\ spent' \in [Disturbances -> Nat]
      BY <1>1, <1>4 DEF Shapes
    <2> QED BY <1>1, <1>2, <1>4, <2>1, <2>2, <2>6, <2>7, <2>8, OneJobStep
  <1>5. CASE /\ Reported(j, "blocked") /\ stage' = [stage EXCEPT ![j] = "over"]
             /\ UNCHANGED <<gate, download>>
    <2>1. /\ stage' \in [Jobs -> Stages] /\ stage'[j] = "over"
          /\ \A k \in Jobs : k # j => stage'[k] = stage[k]
      BY <1>1, <1>5, StageTable
    <2>2. /\ outcome' \in [Jobs -> [Parts -> Outcomes]] /\ outcome'[j][part[j]] = "blocked"
          /\ \A p \in Parts : p # part[j] => outcome'[j][p] = outcome[j][p]
          /\ \A k \in Jobs : k # j => outcome'[k] = outcome[k]
      BY <1>1, <1>5, OutcomeTable
    <2>3. OwnStages(j)' /\ Leased(j)' /\ UrlIsKept(j)' /\ GateIsHeld(j)' /\ NotYetReported(j)'
      BY <1>1, <1>2, <1>3, <1>5, <2>1
      DEF JobSound, OwnStages, Leased, UrlIsKept, GateIsHeld, NotYetReported
    <2>4. DownloadFollows(j)'
      BY <1>1, <1>3, <1>5, <2>1, <2>2 DEF JobSound, DownloadFollows, Parts
    <2>5. ASSUME NEW p \in Parts PROVE Honest(j, p)'
      <3>1. CASE p = part[j]
        BY <1>3, <1>5, <2>2, <3>1 DEF Honest
      <3>2. CASE p # part[j]
        BY <1>1, <1>3, <1>5, <2>2, <3>2 DEF JobSound, Honest
      <3> QED BY <3>1, <3>2
    <2>6. JobSound(j)'
      BY <2>3, <2>4, <2>5 DEF JobSound
    <2>7. /\ part' \in [Jobs -> Parts] /\ request' \in [Jobs -> Requests]
          /\ download' \in [Jobs -> [Parts -> {"none"} \cup InTransfer \cup Terminal]]
          /\ spent' \in [Disturbances -> Nat]
      BY <1>1, <1>5 DEF Shapes
    <2> QED BY <1>1, <1>2, <1>5, <2>1, <2>2, <2>6, <2>7, OneJobStep
  <1> QED BY <1>4, <1>5 DEF BeginsStrict, GateIsOpen

LEMMA BlobArrivesHolds ==
    ASSUME IoInv, NEW j \in Jobs, BlobArrives(j) PROVE IoInv'
  <1>1. /\ stage[j] = "creating" /\ request[j] = "made" /\ Shapes /\ JobSound(j)
        /\ stage' = [stage EXCEPT ![j] = "downloading"]
        /\ download' = [download EXCEPT ![j][part[j]] = "asked"]
        /\ UNCHANGED <<kind, part, request, outcome, lifecycle, gate, document, urls, spent>>
        /\ part[j] \in Parts /\ "downloading" \in Stages /\ "asked" \in InTransfer
    BY RowTypes DEF BlobArrives, IoInv, Stages, InTransfer
  <1>2. LifecycleSound(j) /\ holders' = holders
    BY <1>1, LeaseStep
  <1>3. /\ UsesBlob(j) /\ UsesBlob(j)' /\ kind'[j] = kind[j] /\ part'[j] = part[j]
        /\ Part(j)' = Part(j) /\ j \in holders /\ Part(j) \in urls
        /\ kind[j] \notin {"markdown", "clipboard"}
        /\ download[j][part[j]] = "none" /\ outcome[j][part[j]] = "none"
    BY <1>1, RowTypes
    DEF JobSound, OwnStages, UsesBlob, Leased, UrlIsKept, DownloadFollows, Download, NotYetReported,
        Part
  <1>4. /\ stage' \in [Jobs -> Stages] /\ stage'[j] = "downloading"
        /\ \A k \in Jobs : k # j => stage'[k] = stage[k]
    BY <1>1, StageTable
  <1>5. /\ download' \in [Jobs -> [Parts -> {"none"} \cup InTransfer \cup Terminal]]
        /\ download'[j][part[j]] = "asked"
        /\ \A q \in Parts : q # part[j] => download'[j][q] = download[j][q]
        /\ \A k \in Jobs : k # j => download'[k] = download[k]
    BY <1>1, DownloadTable
  <1>6. OwnStages(j)' /\ Leased(j)' /\ UrlIsKept(j)' /\ GateIsHeld(j)' /\ NotYetReported(j)'
    BY <1>1, <1>2, <1>3, <1>4
    DEF JobSound, OwnStages, Leased, UrlIsKept, GateIsHeld, NotYetReported
  <1>7. DownloadFollows(j)'
    BY <1>1, <1>3, <1>4, <1>5 DEF JobSound, DownloadFollows, Parts
  <1>8. ASSUME NEW p \in Parts PROVE Honest(j, p)'
    <2>1. CASE p = part[j]
      BY <1>1, <1>3, <2>1 DEF Honest
    <2>2. CASE p # part[j]
      BY <1>1, <1>3, <1>5, <2>2 DEF JobSound, Honest
    <2> QED BY <2>1, <2>2
  <1>9. JobSound(j)'
    BY <1>6, <1>7, <1>8 DEF JobSound
  <1>10. /\ part' \in [Jobs -> Parts] /\ request' \in [Jobs -> Requests]
         /\ outcome' \in [Jobs -> [Parts -> Outcomes]] /\ spent' \in [Disturbances -> Nat]
    BY <1>1 DEF Shapes
  <1> QED BY <1>1, <1>2, <1>4, <1>5, <1>9, <1>10, OneJobStep

\* What was reported about the part a job works at, and nothing else, is new.
LEMMA ReportedHonest ==
    ASSUME Shapes, NEW j \in Jobs, JobSound(j), NEW v \in Outcomes, Reported(j, v),
           UNCHANGED <<kind, part, download>>, outcome[j][part[j]] = "none",
           v = "confirmed" /\ kind[j] # "clipboard" => Download(j) = "complete",
           v \in {"not-dispatched", "blocked"} => Download(j) \in {"none", "refused"},
           v = "failed" /\ kind[j] = "markdown" => Download(j) \in Terminal \ {"complete"}
    PROVE  /\ \A p \in Parts : Honest(j, p)'
           /\ part[j] = "artifact" =>
                download'[j]["receipt"] = "none" /\ outcome'[j]["receipt"] = "none"
           /\ part[j] = "receipt" =>
                download'[j]["artifact"] = "complete" /\ outcome'[j]["artifact"] = "confirmed"
  <1>1. /\ outcome'[j][part[j]] = v
        /\ \A p \in Parts : p # part[j] => outcome'[j][p] = outcome[j][p]
    BY OutcomeTable
  <1>2. ASSUME NEW p \in Parts PROVE Honest(j, p)'
    <2>1. CASE p = part[j]
      BY <1>1, <2>1 DEF Honest, Download
    <2>2. CASE p # part[j]
      BY <1>1, <2>2 DEF JobSound, Honest
    <2> QED BY <2>1, <2>2
  <1>3. /\ part[j] = "artifact" => outcome'[j]["receipt"] = outcome[j]["receipt"]
        /\ part[j] = "receipt" => outcome'[j]["artifact"] = outcome[j]["artifact"]
    BY <1>1 DEF Parts
  <1> QED BY <1>2, <1>3 DEF JobSound, DownloadFollows

\* Nothing is dispatched: the caller fails at once, or the answer is late.
LEMMA NotDispatchedHolds ==
    ASSUME IoInv, NEW j \in Jobs, BlobFails(j) \/ BlobIsLate(j) PROVE IoInv'
  <1>1. /\ stage[j] = "creating" /\ Shapes /\ JobSound(j) /\ Reported(j, "not-dispatched")
        /\ UNCHANGED <<kind, part, request, gate, document, urls, download>>
        /\ "not-dispatched" \in Outcomes
    BY DEF BlobFails, BlobIsLate, IoInv, Outcomes
  <1>2. PICK v \in {"over", "creating-late"} :
            /\ stage' = [stage EXCEPT ![j] = v]
            /\ v = "over" => Release(j) /\ UNCHANGED spent
            /\ v = "creating-late" => UNCHANGED lifecycle /\ Spend("slow-document")
    BY DEF BlobFails, BlobIsLate
  <1>3. j \in holders /\ v \in Stages
    BY <1>1 DEF JobSound, Leased, Stages
  <1>4. LifecycleSound(j) /\ (v = "creating-late" <=> j \in holders')
    BY <1>1, <1>2, <1>3, LeaseStep
  <1>5. spent' \in [Disturbances -> Nat]
    <2>1. "slow-document" \in Disturbances
      BY DEF Disturbances
    <2> QED BY <1>1, <1>2, <2>1, Spent DEF Shapes
  <1>6. /\ stage' \in [Jobs -> Stages] /\ stage'[j] = v
        /\ \A k \in Jobs : k # j => stage'[k] = stage[k]
    BY <1>1, <1>2, <1>3, StageTable
  <1>7. /\ outcome' \in [Jobs -> [Parts -> Outcomes]]
        /\ \A k \in Jobs : k # j => outcome'[k] = outcome[k]
    BY <1>1, OutcomeTable
  <1>8. Download(j) = "none" /\ outcome[j][part[j]] = "none" /\ Download(j)' = Download(j)
    BY <1>1 DEF JobSound, DownloadFollows, NotYetReported, Download
  <1>9. UsesBlob(j)
    BY <1>1, RowTypes DEF JobSound, OwnStages
  <1>10. UsesBlob(j)' /\ Part(j)' = Part(j) /\ kind'[j] = kind[j] /\ part'[j] = part[j]
    BY <1>1, <1>9 DEF UsesBlob, Part
  <1>11. /\ \A p \in Parts : Honest(j, p)'
         /\ part[j] = "artifact" =>
                download'[j]["receipt"] = "none" /\ outcome'[j]["receipt"] = "none"
         /\ part[j] = "receipt" =>
                download'[j]["artifact"] = "complete" /\ outcome'[j]["artifact"] = "confirmed"
    BY <1>1, <1>8, ReportedHonest
  <1>12. OwnStages(j)' /\ Leased(j)' /\ GateIsHeld(j)' /\ NotYetReported(j)'
    BY <1>1, <1>4, <1>6, <1>9, <1>10
    DEF JobSound, OwnStages, Leased, GateIsHeld, NotYetReported, UsesBlob
  <1>13. UrlIsKept(j)'
    BY <1>1, <1>3, <1>6, <1>9, <1>10 DEF JobSound, UrlIsKept
  <1>14. DownloadFollows(j)'
    BY <1>6, <1>8, <1>10, <1>11 DEF DownloadFollows
  <1>15. JobSound(j)'
    BY <1>11, <1>12, <1>13, <1>14 DEF JobSound
  <1>16. /\ part' \in [Jobs -> Parts] /\ request' \in [Jobs -> Requests]
         /\ download' \in [Jobs -> [Parts -> {"none"} \cup InTransfer \cup Terminal]]
    BY <1>1 DEF Shapes
  <1> QED BY <1>1, <1>4, <1>5, <1>6, <1>7, <1>15, <1>16, OneJobStep

LEMMA AttendsToLateHolds ==
    ASSUME IoInv, NEW j \in Jobs, AttendsToLate(j) PROVE IoInv'
  <1>1. /\ stage[j] = "creating-late" /\ Shapes /\ JobSound(j)
        /\ UNCHANGED <<kind, part, outcome, gate, document, urls, download, spent>>
    BY DEF AttendsToLate, IoInv
  <1>2. PICK v \in {"over", "cleaning"}, q \in {request[j], "revoking"} :
            /\ stage' = [stage EXCEPT ![j] = v]
            /\ v = "over" => Release(j) /\ UNCHANGED request /\ q = request[j]
            /\ v = "cleaning" => /\ UNCHANGED lifecycle /\ request' = [request EXCEPT ![j] = q]
                                 /\ q = "revoking"
    BY DEF AttendsToLate
  <1>3. j \in holders /\ v \in Stages /\ q \in Requests
    BY <1>1, RowTypes DEF JobSound, Leased, Stages, Requests
  <1>4. LifecycleSound(j) /\ (v = "cleaning" => j \in holders') /\ (v = "over" => j \notin holders')
    BY <1>1, <1>2, <1>3, LeaseStep
  <1>5. /\ stage' \in [Jobs -> Stages] /\ stage'[j] = v
        /\ \A k \in Jobs : k # j => stage'[k] = stage[k]
    BY <1>1, <1>2, <1>3, StageTable
  <1>6. /\ request' \in [Jobs -> Requests] /\ request'[j] = q
        /\ \A k \in Jobs : k # j => request'[k] = request[k]
    <2>1. CASE v = "cleaning"
      BY <1>1, <1>2, <1>3, <2>1, RequestTable
    <2>2. CASE v = "over"
      BY <1>1, <1>2, <2>2 DEF Shapes
    <2> QED BY <2>1, <2>2
  <1>7. /\ kind'[j] = kind[j] /\ part'[j] = part[j] /\ outcome'[j] = outcome[j]
        /\ download'[j] = download[j]
    BY <1>1
  <1>8. OwnStages(j)' /\ Leased(j)' /\ GateIsHeld(j)' /\ NotYetReported(j)'
    BY <1>1, <1>4, <1>5, <1>7
    DEF JobSound, OwnStages, Leased, GateIsHeld, NotYetReported, UsesBlob
  <1>9. UrlIsKept(j)'
    BY <1>2, <1>4, <1>5, <1>6 DEF UrlIsKept
  <1>10. DownloadFollows(j)' /\ \A p \in Parts : Honest(j, p)'
    BY <1>1, <1>5, <1>7 DEF JobSound, DownloadFollows, Honest
  <1>11. JobSound(j)'
    BY <1>8, <1>9, <1>10 DEF JobSound
  <1>12. /\ part' \in [Jobs -> Parts] /\ outcome' \in [Jobs -> [Parts -> Outcomes]]
         /\ download' \in [Jobs -> [Parts -> {"none"} \cup InTransfer \cup Terminal]]
         /\ spent' \in [Disturbances -> Nat]
    BY <1>1 DEF Shapes
  <1> QED BY <1>1, <1>4, <1>5, <1>6, <1>11, <1>12, OneJobStep

LEMMA CopiedHolds ==
    ASSUME IoInv, NEW j \in Jobs, Copied(j) PROVE IoInv'
  <1>1. /\ stage[j] = "writing" /\ Shapes /\ JobSound(j) /\ Release(j)
        /\ stage' = [stage EXCEPT ![j] = "over"]
        /\ UNCHANGED <<kind, part, request, gate, document, urls, download>>
        /\ "over" \in Stages
    BY DEF Copied, IoInv, Stages
  <1>2. PICK v \in {"confirmed", "failed", "unconfirmed"} :
            Reported(j, v) /\ (UNCHANGED spent \/ Spend("slow-document"))
    BY DEF Copied
  <1>3. v \in Outcomes
    BY DEF Outcomes
  <1>4. spent' \in [Disturbances -> Nat]
    <2>1. "slow-document" \in Disturbances
      BY DEF Disturbances
    <2> QED BY <1>1, <1>2, <2>1, Spent DEF Shapes
  <1>5. j \in holders /\ kind[j] = "clipboard" /\ Download(j) = "none" /\ outcome[j][part[j]] = "none"
    BY <1>1, RowTypes DEF JobSound, OwnStages, Leased, DownloadFollows, NotYetReported
  <1>6. LifecycleSound(j) /\ j \notin holders'
    BY <1>1, <1>5, LeaseStep
  <1>7. /\ stage' \in [Jobs -> Stages] /\ stage'[j] = "over"
        /\ \A k \in Jobs : k # j => stage'[k] = stage[k]
    BY <1>1, StageTable
  <1>8. /\ outcome' \in [Jobs -> [Parts -> Outcomes]]
        /\ \A k \in Jobs : k # j => outcome'[k] = outcome[k]
    BY <1>1, <1>2, <1>3, OutcomeTable
  <1>9. /\ \A p \in Parts : Honest(j, p)'
        /\ part[j] = "artifact" =>
                download'[j]["receipt"] = "none" /\ outcome'[j]["receipt"] = "none"
        /\ part[j] = "receipt" =>
                download'[j]["artifact"] = "complete" /\ outcome'[j]["artifact"] = "confirmed"
    BY <1>1, <1>2, <1>3, <1>5, ReportedHonest
  <1>10. kind'[j] = kind[j] /\ part'[j] = part[j]
    BY <1>1
  <1>11. OwnStages(j)' /\ Leased(j)' /\ UrlIsKept(j)' /\ GateIsHeld(j)' /\ NotYetReported(j)'
    BY <1>1, <1>5, <1>6, <1>7, <1>10
    DEF JobSound, OwnStages, Leased, UrlIsKept, GateIsHeld, NotYetReported, UsesBlob
  <1>12. DownloadFollows(j)'
    BY <1>7, <1>9, <1>10 DEF DownloadFollows
  <1>13. JobSound(j)'
    BY <1>9, <1>11, <1>12 DEF JobSound
  <1>14. /\ part' \in [Jobs -> Parts] /\ request' \in [Jobs -> Requests]
         /\ download' \in [Jobs -> [Parts -> {"none"} \cup InTransfer \cup Terminal]]
    BY <1>1 DEF Shapes
  <1> QED BY <1>1, <1>4, <1>6, <1>7, <1>8, <1>13, <1>14, OneJobStep

-----------------------------------------------------------------------------
(* Downloads.                                                              *)

\* A download that is under way ends, or begins to run, and nothing was reported of it.
LEMMA DownloadChanges ==
    ASSUME IoInv, NEW j \in Jobs, NEW p \in Parts, NEW v \in InTransfer \cup Terminal,
           download[j][p] \in InTransfer, download' = [download EXCEPT ![j][p] = v],
           UNCHANGED <<kind, part, stage, request, outcome, lifecycle, gate, document, urls>>,
           spent' \in [Disturbances -> Nat]
    PROVE  IoInv'
  <1>1. Shapes /\ JobSound(j) /\ part[j] \in Parts
    BY RowTypes DEF IoInv
  <1>2. LifecycleSound(j) /\ holders' = holders
    BY LeaseStep
  <1>3. /\ download' \in [Jobs -> [Parts -> {"none"} \cup InTransfer \cup Terminal]]
        /\ download'[j][p] = v
        /\ \A q \in Parts : q # p => download'[j][q] = download[j][q]
        /\ \A k \in Jobs : k # j => download'[k] = download[k]
    BY <1>1, DownloadTable
  <1>4. download[j][p] \notin Terminal \cup {"none"}
    BY DEF InTransfer, Terminal
  <1>5. p = part[j]
    BY <1>1, <1>4 DEF JobSound, DownloadFollows, Parts, Terminal
  <1>6. stage[j] \notin {"idle", "acquiring", "creating", "creating-late", "writing", "confirming"}
    BY <1>1, <1>4, <1>5 DEF JobSound, DownloadFollows, Download, Terminal
  <1>7. OwnStages(j)' /\ Leased(j)' /\ UrlIsKept(j)' /\ GateIsHeld(j)' /\ NotYetReported(j)'
    BY <1>1, <1>2
    DEF JobSound, OwnStages, Leased, UrlIsKept, GateIsHeld, NotYetReported, UsesBlob, Part
  <1>8. DownloadFollows(j)'
    BY <1>1, <1>3, <1>5, <1>6 DEF JobSound, DownloadFollows, Parts
  <1>9. ASSUME NEW q \in Parts PROVE Honest(j, q)'
    <2>1. CASE q = p
      BY <1>1, <1>4, <2>1 DEF JobSound, Honest, Terminal
    <2>2. CASE q # p
      BY <1>1, <1>3, <2>2 DEF JobSound, Honest
    <2> QED BY <2>1, <2>2
  <1>10. JobSound(j)'
    BY <1>7, <1>8, <1>9 DEF JobSound
  <1>11. /\ part' \in [Jobs -> Parts] /\ request' \in [Jobs -> Requests] /\ stage' \in [Jobs -> Stages]
         /\ outcome' \in [Jobs -> [Parts -> Outcomes]]
    BY <1>1 DEF Shapes
  <1> QED BY <1>2, <1>3, <1>10, <1>11, OneJobStep

LEMMA DownloadMovesHolds ==
    ASSUME IoInv, NEW j \in Jobs, NEW p \in Parts, DownloadMoves(j, p) PROVE IoInv'
  <1>1. /\ UNCHANGED <<kind, part, stage, request, outcome, lifecycle, gate, document, urls>>
        /\ download[j][p] \in InTransfer /\ Shapes
    BY DEF DownloadMoves, InTransfer, IoInv
  <1>2. PICK v \in {"running", "refused", "complete", "elsewhere", "interrupted"} :
            /\ download' = [download EXCEPT ![j][p] = v]
            /\ UNCHANGED spent \/ Spend("failed-download") \/ Spend("moved-file")
    BY DEF DownloadMoves
  <1>3. v \in InTransfer \cup Terminal
    BY DEF InTransfer, Terminal
  <1>4. spent' \in [Disturbances -> Nat]
    <2>1. {"failed-download", "moved-file"} \subseteq Disturbances
      BY DEF Disturbances
    <2> QED BY <1>1, <1>2, <2>1, Spent DEF Shapes
  <1> QED BY <1>1, <1>2, <1>3, <1>4, DownloadChanges

\* What is known of the parts of a job whose outcome may be new.
PartsFollow(j) ==
    /\ \A p \in Parts : Honest(j, p)'
    /\ part[j] = "artifact" => download'[j]["receipt"] = "none" /\ outcome'[j]["receipt"] = "none"
    /\ part[j] = "receipt" =>
        download'[j]["artifact"] = "complete" /\ outcome'[j]["artifact"] = "confirmed"

LEMMA PartsKept ==
    ASSUME NEW j \in Jobs, JobSound(j), UNCHANGED <<kind, part, download, outcome>>
    PROVE  PartsFollow(j)
  BY DEF JobSound, Honest, DownloadFollows, PartsFollow

LEMMA GateAfterTypes ==
    ASSUME NEW j \in Jobs, gate' \in {gate, GateAfter(j)}
    PROVE  /\ gate' \in {gate, j, Nobody}
           /\ \A k \in Jobs : k # j => (gate = k => gate' = k)
  BY DEF GateAfter

\* A download whose end is known has no gate.
LEMMA GateIsLeft ==
    ASSUME NEW j \in Jobs, JobSound(j), gate' = IF UsesBlob(j) THEN gate ELSE GateAfter(j)
    PROVE  gate' # j
  <1>1. CASE UsesBlob(j)
    BY <1>1 DEF JobSound, GateIsHeld, UsesBlob
  <1>2. CASE ~UsesBlob(j)
    BY <1>2, InlineOutputParameters DEF InlineOutputParameters, GateAfter
  <1> QED BY <1>1, <1>2

\* A download is over for its job: a Blob URL has still to be revoked.
LEMMA CleansUpHolds ==
    ASSUME IoInv, NEW j \in Jobs, stage[j] \in {"downloading", "confirming", "watching"},
           CleansUp(j), UNCHANGED <<kind, part, lifecycle, document, urls, download>>,
           gate' \in {gate, GateAfter(j)}, spent' \in [Disturbances -> Nat],
           outcome' \in [Jobs -> [Parts -> Outcomes]],
           \A k \in Jobs : k # j => outcome'[k] = outcome[k],
           PartsFollow(j), gate' # j
    PROVE  IoInv'
  <1>1. Shapes /\ JobSound(j) /\ {"cleaning", "over"} \subseteq Stages /\ "revoking" \in Requests
    BY DEF IoInv, Stages, Requests
  <1>2. LifecycleSound(j) /\ holders' = holders
    BY LeaseStep
  <1>3. PICK v \in {"cleaning", "over"} :
            /\ stage' = [stage EXCEPT ![j] = v]
            /\ v = "cleaning" => UsesBlob(j) /\ request' = [request EXCEPT ![j] = "revoking"]
            /\ v = "over" => ~UsesBlob(j) /\ UNCHANGED request
    BY DEF CleansUp
  <1>4. /\ stage' \in [Jobs -> Stages] /\ stage'[j] = v
        /\ \A k \in Jobs : k # j => stage'[k] = stage[k]
    BY <1>1, <1>3, StageTable
  <1>5. /\ request' \in [Jobs -> Requests] /\ (v = "cleaning" => request'[j] = "revoking")
        /\ \A k \in Jobs : k # j => request'[k] = request[k]
    <2>1. CASE v = "cleaning"
      BY <1>1, <1>3, <2>1, RequestTable
    <2>2. CASE v = "over"
      BY <1>1, <1>3, <2>2 DEF Shapes
    <2> QED BY <2>1, <2>2
  <1>6. kind'[j] = kind[j] /\ part'[j] = part[j] /\ (UsesBlob(j)' <=> UsesBlob(j))
    BY DEF UsesBlob
  <1>7. /\ v = "cleaning" => j \in holders /\ kind[j] \notin {"markdown", "clipboard"}
        /\ v = "over" => j \notin holders
    BY <1>1, <1>3 DEF JobSound, Leased, UsesBlob
  <1>8. OwnStages(j)' /\ Leased(j)' /\ GateIsHeld(j)' /\ NotYetReported(j)'
    BY <1>1, <1>2, <1>4, <1>6, <1>7
    DEF JobSound, OwnStages, Leased, GateIsHeld, NotYetReported
  <1>9. UrlIsKept(j)'
    BY <1>3, <1>4, <1>5, <1>6 DEF UrlIsKept
  <1>10. DownloadFollows(j)'
    BY <1>4, <1>6 DEF PartsFollow, DownloadFollows
  <1>11. JobSound(j)'
    BY <1>8, <1>9, <1>10 DEF JobSound, PartsFollow
  <1>12. /\ gate' \in {gate, j, Nobody}
         /\ \A k \in Jobs : k # j => (gate = k => gate' = k)
    BY GateAfterTypes
  <1>13. /\ part' \in [Jobs -> Parts]
         /\ download' \in [Jobs -> [Parts -> {"none"} \cup InTransfer \cup Terminal]]
    BY <1>1 DEF Shapes
  <1> QED BY <1>2, <1>4, <1>5, <1>11, <1>12, <1>13, OneJobStep

LEMMA DownloadEndsHolds ==
    ASSUME IoInv, NEW j \in Jobs, DownloadEnds(j) PROVE IoInv'
  <1>1. /\ stage[j] = "downloading" /\ Download(j) \in Terminal /\ Shapes /\ JobSound(j)
        /\ gate' = IF UsesBlob(j) THEN gate ELSE GateAfter(j)
        /\ UNCHANGED <<kind, part, lifecycle, document, urls, download, spent>>
    BY DEF DownloadEnds, IoInv
  <1>2. spent' \in [Disturbances -> Nat] /\ gate' \in {gate, GateAfter(j)} /\ gate' # j
    BY <1>1, GateIsLeft DEF Shapes
  <1>3. outcome[j][part[j]] = "none"
    BY <1>1 DEF JobSound, NotYetReported
  <1>4. CASE Download(j) \in {"refused", "interrupted"} /\ CleansUp(j)
                /\ Reported(j, IF kind[j] = "markdown" THEN "failed"
                               ELSE IF Download(j) = "refused" THEN "not-dispatched"
                               ELSE "unknown")
    <2>1. PICK v \in {"failed", "not-dispatched", "unknown"} :
              /\ Reported(j, v)
              /\ v = "not-dispatched" => Download(j) = "refused"
      BY <1>4
    <2>2. v \in Outcomes /\ Download(j) \in Terminal \ {"complete"}
      BY <1>1, <1>4 DEF Outcomes
    <2>3. /\ outcome' \in [Jobs -> [Parts -> Outcomes]]
          /\ \A k \in Jobs : k # j => outcome'[k] = outcome[k]
      BY <1>1, <2>1, <2>2, OutcomeTable
    <2>4. PartsFollow(j)
      BY <1>1, <1>3, <2>1, <2>2, ReportedHonest DEF PartsFollow
    <2> QED BY <1>1, <1>2, <1>4, <2>3, <2>4, CleansUpHolds
  <1>5. CASE Download(j) \in {"complete", "elsewhere"}
                /\ stage' = [stage EXCEPT ![j] = "confirming"] /\ UNCHANGED <<outcome, request>>
    <2>1. LifecycleSound(j) /\ holders' = holders
      BY <1>1, LeaseStep
    <2>2. /\ stage' \in [Jobs -> Stages] /\ stage'[j] = "confirming"
          /\ \A k \in Jobs : k # j => stage'[k] = stage[k]
      <3>1. "confirming" \in Stages
        BY DEF Stages
      <3> QED BY <1>1, <1>5, <3>1, StageTable
    <2>3. /\ kind'[j] = kind[j] /\ part'[j] = part[j] /\ request'[j] = request[j]
          /\ Download(j)' = Download(j) /\ Part(j)' = Part(j) /\ (UsesBlob(j)' <=> UsesBlob(j))
          /\ outcome'[j] = outcome[j] /\ download'[j] = download[j]
      BY <1>1, <1>5 DEF Download, Part, UsesBlob
    <2>4. OwnStages(j)' /\ Leased(j)' /\ UrlIsKept(j)' /\ GateIsHeld(j)' /\ NotYetReported(j)'
      BY <1>1, <1>2, <1>3, <2>1, <2>2, <2>3
      DEF JobSound, OwnStages, Leased, UrlIsKept, GateIsHeld, NotYetReported
    <2>5. DownloadFollows(j)' /\ \A p \in Parts : Honest(j, p)'
      BY <1>1, <1>5, <2>2, <2>3 DEF JobSound, DownloadFollows, Honest
    <2>6. JobSound(j)'
      BY <2>4, <2>5 DEF JobSound
    <2>7. /\ gate' \in {gate, j, Nobody}
          /\ \A k \in Jobs : k # j => (gate = k => gate' = k)
      BY <1>2, GateAfterTypes
    <2>8. /\ part' \in [Jobs -> Parts] /\ request' \in [Jobs -> Requests]
          /\ outcome' \in [Jobs -> [Parts -> Outcomes]]
          /\ download' \in [Jobs -> [Parts -> {"none"} \cup InTransfer \cup Terminal]]
      BY <1>1, <1>5 DEF Shapes
    <2> QED BY <1>1, <1>2, <1>5, <2>1, <2>2, <2>6, <2>7, <2>8, OneJobStep
  <1> QED BY <1>4, <1>5 DEF DownloadEnds

LEMMA DownloadIsSlowHolds ==
    ASSUME IoInv, NEW j \in Jobs, DownloadIsSlow(j) PROVE IoInv'
  <1>1. /\ stage[j] = "downloading" /\ Spend("slow-download") /\ Shapes /\ JobSound(j)
        /\ UNCHANGED <<kind, part, request, lifecycle, gate, document, urls>>
        /\ part[j] \in Parts
    BY RowTypes DEF DownloadIsSlow, IoInv
  <1>2. spent' \in [Disturbances -> Nat]
    <2>1. "slow-download" \in Disturbances
      BY DEF Disturbances
    <2> QED BY <1>1, <2>1, Spent
  <1>3. CASE /\ Download(j) = "running" /\ UNCHANGED <<stage, outcome>>
             /\ download' = [download EXCEPT ![j][part[j]] = "interrupted"]
    <2>1. download[j][part[j]] \in InTransfer /\ "interrupted" \in InTransfer \cup Terminal
      BY <1>3 DEF Download, InTransfer, Terminal
    <2> QED BY <1>1, <1>2, <1>3, <2>1, DownloadChanges
  <1>4. CASE /\ Reported(j, IF kind[j] = "markdown" THEN "unconfirmed" ELSE "unknown")
             /\ stage' = [stage EXCEPT ![j] = "watching"] /\ UNCHANGED download
    <2>1. PICK v \in {"unconfirmed", "unknown"} : Reported(j, v)
      BY <1>4
    <2>2. v \in Outcomes /\ "watching" \in Stages
      BY DEF Outcomes, Stages
    <2>3. LifecycleSound(j) /\ holders' = holders
      BY <1>1, LeaseStep
    <2>4. /\ stage' \in [Jobs -> Stages] /\ stage'[j] = "watching"
          /\ \A k \in Jobs : k # j => stage'[k] = stage[k]
      BY <1>1, <1>4, <2>2, StageTable
    <2>5. /\ outcome' \in [Jobs -> [Parts -> Outcomes]]
          /\ \A k \in Jobs : k # j => outcome'[k] = outcome[k]
      BY <1>1, <2>1, <2>2, OutcomeTable
    <2>6. PartsFollow(j)
      <3>1. outcome[j][part[j]] = "none"
        BY <1>1 DEF JobSound, NotYetReported
      <3> QED BY <1>1, <1>4, <2>1, <2>2, <3>1, ReportedHonest DEF PartsFollow
    <2>7. /\ kind'[j] = kind[j] /\ part'[j] = part[j] /\ request'[j] = request[j]
          /\ Part(j)' = Part(j) /\ (UsesBlob(j)' <=> UsesBlob(j)) /\ gate' = gate
      BY <1>1 DEF Part, UsesBlob
    <2>8. OwnStages(j)' /\ Leased(j)' /\ UrlIsKept(j)' /\ GateIsHeld(j)' /\ NotYetReported(j)'
      BY <1>1, <2>3, <2>4, <2>7
      DEF JobSound, OwnStages, Leased, UrlIsKept, GateIsHeld, NotYetReported, UsesBlob
    <2>9. DownloadFollows(j)'
      BY <2>4, <2>6, <2>7 DEF PartsFollow, DownloadFollows
    <2>10. JobSound(j)'
      BY <2>6, <2>8, <2>9 DEF JobSound, PartsFollow
    <2>11. /\ part' \in [Jobs -> Parts] /\ request' \in [Jobs -> Requests]
           /\ download' \in [Jobs -> [Parts -> {"none"} \cup InTransfer \cup Terminal]]
      BY <1>1, <1>4 DEF Shapes
    <2>12. /\ UNCHANGED <<kind, document>> /\ urls' \in {urls, urls \ {Part(j)}}
           /\ gate' \in {gate, j, Nobody}
      BY <1>1
    <2>13. \A k \in Jobs : k # j =>
               /\ part'[k] = part[k] /\ stage'[k] = stage[k] /\ request'[k] = request[k]
               /\ outcome'[k] = outcome[k] /\ download'[k] = download[k]
               /\ gate = k => gate' = k
      BY <1>1, <1>4, <2>4, <2>5
    <2> QED BY <1>2, <2>3, <2>4, <2>5, <2>10, <2>11, <2>12, <2>13, OneJobStep
  <1> QED BY <1>3, <1>4 DEF DownloadIsSlow

LEMMA LateEndHolds ==
    ASSUME IoInv, NEW j \in Jobs, LateEnd(j) PROVE IoInv'
  <1>1. /\ stage[j] = "watching" /\ Shapes /\ JobSound(j) /\ CleansUp(j)
        /\ gate' = IF UsesBlob(j) THEN gate ELSE GateAfter(j)
        /\ UNCHANGED <<kind, part, outcome, lifecycle, document, urls, download, spent>>
    BY DEF LateEnd, IoInv
  <1>2. /\ spent' \in [Disturbances -> Nat] /\ outcome' \in [Jobs -> [Parts -> Outcomes]]
        /\ gate' \in {gate, GateAfter(j)} /\ \A k \in Jobs : k # j => outcome'[k] = outcome[k]
    BY <1>1 DEF Shapes
  <1>3. PartsFollow(j)
    BY <1>1, PartsKept
  <1>4. gate' # j
    BY <1>1, GateIsLeft
  <1> QED BY <1>1, <1>2, <1>3, <1>4, CleansUpHolds

LEMMA PathIsLookedUpHolds ==
    ASSUME IoInv, NEW j \in Jobs, PathIsLookedUp(j) PROVE IoInv'
  <1>1. /\ stage[j] = "confirming" /\ Shapes /\ JobSound(j) /\ CleansUp(j)
        /\ UNCHANGED <<kind, part, lifecycle, gate, document, urls, download>>
    BY DEF PathIsLookedUp, IoInv
  <1>2. Download(j) \in {"complete", "elsewhere"} /\ outcome[j][part[j]] = "none"
    BY <1>1 DEF JobSound, DownloadFollows, NotYetReported
  <1>3. PICK v \in {"confirmed", "failed", "unknown", "unconfirmed"} :
            /\ Reported(j, v) /\ (UNCHANGED spent \/ Spend("lost-lookup"))
            /\ v = "confirmed" => Download(j) = "complete"
            /\ v = "failed" => Download(j) # "complete"
    <2>1. CASE UNCHANGED spent
                /\ Reported(j, IF PathStatus(j) = "confirmed" THEN "confirmed"
                               ELSE IF kind[j] = "markdown" THEN "failed" ELSE "unknown")
      <3>1. CASE Download(j) = "complete"
        <4>1. Reported(j, "confirmed")
          BY <2>1, <3>1 DEF PathStatus
        <4> QED BY <2>1, <3>1, <4>1
      <3>2. CASE Download(j) = "elsewhere" /\ kind[j] = "markdown"
        <4>1. Reported(j, "failed")
          BY <2>1, <3>2 DEF PathStatus
        <4> QED BY <2>1, <3>2, <4>1
      <3>3. CASE Download(j) = "elsewhere" /\ kind[j] # "markdown"
        <4>1. Reported(j, "unknown")
          BY <2>1, <3>3 DEF PathStatus
        <4> QED BY <2>1, <4>1
      <3> QED BY <1>2, <3>1, <3>2, <3>3
    <2>2. CASE Spend("lost-lookup")
                /\ Reported(j, IF kind[j] = "markdown" THEN "unconfirmed" ELSE "unknown")
      BY <2>2
    <2> QED BY <2>1, <2>2 DEF PathIsLookedUp
  <1>4. v \in Outcomes
    BY DEF Outcomes
  <1>5. spent' \in [Disturbances -> Nat]
    <2>1. "lost-lookup" \in Disturbances
      BY DEF Disturbances
    <2> QED BY <1>1, <1>3, <2>1, Spent DEF Shapes
  <1>6. /\ outcome' \in [Jobs -> [Parts -> Outcomes]]
        /\ \A k \in Jobs : k # j => outcome'[k] = outcome[k]
    BY <1>1, <1>3, <1>4, OutcomeTable
  <1>7. PartsFollow(j)
    <2>1. v = "failed" => Download(j) \in Terminal \ {"complete"}
      BY <1>2, <1>3 DEF Terminal
    <2> QED BY <1>1, <1>2, <1>3, <1>4, <2>1, ReportedHonest DEF PartsFollow
  <1>8. gate' \in {gate, GateAfter(j)} /\ gate' # j
    BY <1>1 DEF JobSound, GateIsHeld
  <1> QED BY <1>1, <1>5, <1>6, <1>7, <1>8, CleansUpHolds

LEMMA CleanedHolds ==
    ASSUME IoInv, NEW j \in Jobs, Cleaned(j) PROVE IoInv'
  <1>1. /\ stage[j] = "cleaning" /\ Shapes /\ JobSound(j) /\ Release(j) /\ part[j] \in Parts
        /\ request' = [request EXCEPT ![j] = "none"]
        /\ UNCHANGED <<kind, outcome, gate, document, download>>
        /\ urls' \in {urls, urls \ {Part(j)}} /\ (UNCHANGED spent \/ Spend("lost-revocation"))
    BY RowTypes DEF Cleaned, IoInv
  <1>2. {"idle", "over"} \subseteq Stages /\ "none" \in Requests /\ "lost-revocation" \in Disturbances
    BY DEF Stages, Requests, Disturbances
  <1>3. j \in holders
    BY <1>1 DEF JobSound, Leased
  <1>4. LifecycleSound(j) /\ j \notin holders'
    BY <1>1, <1>3, LeaseStep
  <1>5. /\ request' \in [Jobs -> Requests] /\ request'[j] = "none"
        /\ \A k \in Jobs : k # j => request'[k] = request[k]
    BY <1>1, <1>2, RequestTable
  <1>6. spent' \in [Disturbances -> Nat]
    BY <1>1, <1>2, Spent DEF Shapes
  <1>7. /\ kind'[j] = kind[j] /\ outcome'[j] = outcome[j] /\ download'[j] = download[j]
        /\ (UsesBlob(j)' <=> UsesBlob(j)) /\ \A p \in Parts : Honest(j, p)'
    BY <1>1 DEF UsesBlob, JobSound, Honest
  <1>8. /\ outcome' \in [Jobs -> [Parts -> Outcomes]]
        /\ download' \in [Jobs -> [Parts -> {"none"} \cup InTransfer \cup Terminal]]
    BY <1>1 DEF Shapes
  <1>9. CASE /\ ReceiptIsDue(j) /\ stage' = [stage EXCEPT ![j] = "idle"]
             /\ part' = [part EXCEPT ![j] = "receipt"]
    <2>1. /\ stage' \in [Jobs -> Stages] /\ stage'[j] = "idle"
          /\ \A k \in Jobs : k # j => stage'[k] = stage[k]
      BY <1>1, <1>2, <1>9, StageTable
    <2>2. /\ part' \in [Jobs -> Parts] /\ part'[j] = "receipt"
          /\ \A k \in Jobs : k # j => part'[k] = part[k]
      <3>1. "receipt" \in Parts /\ part \in [Jobs -> Parts]
        BY <1>1 DEF Parts, Shapes
      <3> QED BY <1>9, <3>1, OneIsSet
    <2>3. kind[j] = "presentation" /\ part[j] = "artifact" /\ outcome[j]["artifact"] = "confirmed"
      BY <1>9 DEF ReceiptIsDue
    <2>4. download[j]["artifact"] = "complete"
      BY <1>1, <2>3 DEF JobSound, Honest, Parts
    <2>5. download[j]["receipt"] = "none" /\ outcome[j]["receipt"] = "none"
      BY <1>1, <2>3 DEF JobSound, DownloadFollows
    <2>6. OwnStages(j)' /\ Leased(j)' /\ UrlIsKept(j)' /\ GateIsHeld(j)'
      BY <1>1, <1>4, <1>5, <1>7, <2>1, <2>2, <2>3
      DEF JobSound, OwnStages, Leased, UrlIsKept, GateIsHeld, UsesBlob
    <2>7. DownloadFollows(j)' /\ NotYetReported(j)'
      BY <1>7, <2>1, <2>2, <2>3, <2>4, <2>5 DEF DownloadFollows, NotYetReported, Download
    <2>8. JobSound(j)'
      BY <1>7, <2>6, <2>7 DEF JobSound
    <2>9. /\ UNCHANGED <<kind, document>> /\ gate' \in {gate, j, Nobody}
          /\ \A k \in Jobs : k # j =>
                /\ part'[k] = part[k] /\ stage'[k] = stage[k] /\ request'[k] = request[k]
                /\ outcome'[k] = outcome[k] /\ download'[k] = download[k]
                /\ gate = k => gate' = k
      BY <1>1, <1>5, <2>1, <2>2
    <2> QED BY <1>1, <1>4, <1>5, <1>6, <1>8, <2>1, <2>2, <2>8, <2>9, OneJobStep
  <1>10. CASE stage' = [stage EXCEPT ![j] = "over"] /\ UNCHANGED part
    <2>1. /\ stage' \in [Jobs -> Stages] /\ stage'[j] = "over"
          /\ \A k \in Jobs : k # j => stage'[k] = stage[k]
      BY <1>1, <1>2, <1>10, StageTable
    <2>2. part' \in [Jobs -> Parts] /\ part'[j] = part[j]
      BY <1>1, <1>10 DEF Shapes
    <2>3. OwnStages(j)' /\ Leased(j)' /\ UrlIsKept(j)' /\ GateIsHeld(j)' /\ NotYetReported(j)'
      BY <1>1, <1>4, <1>5, <1>7, <2>1, <2>2
      DEF JobSound, OwnStages, Leased, UrlIsKept, GateIsHeld, NotYetReported
    <2>4. DownloadFollows(j)'
      BY <1>1, <1>7, <2>1, <2>2 DEF JobSound, DownloadFollows
    <2>5. JobSound(j)'
      BY <1>7, <2>3, <2>4 DEF JobSound
    <2>6. /\ UNCHANGED <<kind, document>> /\ gate' \in {gate, j, Nobody}
          /\ \A k \in Jobs : k # j =>
                /\ part'[k] = part[k] /\ stage'[k] = stage[k] /\ request'[k] = request[k]
                /\ outcome'[k] = outcome[k] /\ download'[k] = download[k]
                /\ gate = k => gate' = k
      BY <1>1, <1>5, <1>10, <2>1
    <2> QED BY <1>1, <1>4, <1>5, <1>6, <1>8, <2>1, <2>2, <2>5, <2>6, OneJobStep
  <1> QED BY <1>9, <1>10 DEF Cleaned

-----------------------------------------------------------------------------
(* The specification.                                                      *)

LEMMA HandlerHolds ==
    ASSUME IoInv, NEW j \in Jobs, Handler(j) PROVE IoInv'
  <1>1. CASE BlobArrives(j)
    BY <1>1, BlobArrivesHolds
  <1>2. CASE BlobFails(j) \/ BlobIsLate(j)
    BY <1>2, NotDispatchedHolds
  <1>3. CASE AttendsToLate(j)
    BY <1>3, AttendsToLateHolds
  <1>4. CASE Copied(j)
    BY <1>4, CopiedHolds
  <1>5. CASE DownloadEnds(j)
    BY <1>5, DownloadEndsHolds
  <1>6. CASE DownloadIsSlow(j)
    BY <1>6, DownloadIsSlowHolds
  <1>7. CASE LateEnd(j)
    BY <1>7, LateEndHolds
  <1>8. CASE PathIsLookedUp(j)
    BY <1>8, PathIsLookedUpHolds
  <1>9. CASE Cleaned(j)
    BY <1>9, CleanedHolds
  <1> QED BY <1>1, <1>2, <1>3, <1>4, <1>5, <1>6, <1>7, <1>8, <1>9 DEF Handler

LEMMA LifecycleHolds ==
    ASSUME IoInv, Lifecycle PROVE IoInv'
  BY TimerFiresHolds, DocumentFoundHolds, DocumentMissingHolds, DocumentCreatedHolds,
     DocumentRefusedHolds, DocumentClosedHolds DEF Lifecycle

LEMMA StartsSound == Init => IoInv
  <1> SUFFICES ASSUME Init PROVE IoInv
    OBVIOUS
  <1>1. calls = <<>> /\ <<>> \in Queues /\ <<>> \in Seq({"contexts", "create", "close"})
    BY DEF Init, Queues
  <1>2. Shapes
    <2>1. /\ kind \in [Jobs -> Kinds] /\ part \in [Jobs -> Parts] /\ stage \in [Jobs -> Stages]
          /\ request \in [Jobs -> Requests]
      BY DEF Init, Parts, Stages, Requests
    <2>2. outcome \in [Jobs -> [Parts -> Outcomes]]
      BY DEF Init, Outcomes
    <2>3. download \in [Jobs -> [Parts -> {"none"} \cup InTransfer \cup Terminal]]
      BY DEF Init
    <2>4. spent \in [Disturbances -> Nat]
      BY DEF Init
    <2> QED BY <1>1, <2>1, <2>2, <2>3, <2>4 DEF Init, Shapes
  <1>3. DocumentStays
    BY <1>1, QueuesDiffer DEF Init, DocumentStays
  <1>4. ASSUME NEW j \in Jobs PROVE JobSound(j)
    <2>1. /\ part[j] = "artifact" /\ stage[j] = "idle" /\ request[j] = "none"
          /\ holders = {} /\ gate = Nobody /\ outcome[j] = [p \in Parts |-> "none"]
          /\ download[j] = [p \in Parts |-> "none"]
      BY DEF Init
    <2>2. \A p \in Parts : outcome[j][p] = "none" /\ download[j][p] = "none"
      BY <2>1
    <2>3. part[j] \in Parts /\ "receipt" \in Parts
      BY <2>1 DEF Parts
    <2>4. OwnStages(j) /\ Leased(j) /\ UrlIsKept(j) /\ GateIsHeld(j)
      BY <2>1, RowTypes, <1>2, InlineOutputParameters
      DEF InlineOutputParameters, OwnStages, Leased, UrlIsKept, GateIsHeld
    <2>5. DownloadFollows(j) /\ NotYetReported(j)
      BY <2>1, <2>2, <2>3 DEF DownloadFollows, NotYetReported, Download
    <2>6. \A p \in Parts : Honest(j, p)
      BY <2>2 DEF Honest
    <2> QED BY <2>4, <2>5, <2>6 DEF JobSound
  <1> QED BY <1>2, <1>3, <1>4 DEF IoInv

LEMMA StutterHolds ==
    ASSUME IoInv, UNCHANGED vars PROVE IoInv'
  BY DEF IoInv, vars, lifecycle, Shapes, DocumentStays, JobSound, OwnStages, Leased, UrlIsKept,
         DownloadFollows, NotYetReported, GateIsHeld, Honest, UsesBlob, Part, Download

LEMMA StepsHold == IoInv /\ [Next]_vars => IoInv'
  <1> SUFFICES ASSUME IoInv, [Next]_vars PROVE IoInv'
    OBVIOUS
  <1>1. ASSUME NEW j \in Jobs, Begins(j) PROVE IoInv'
    BY <1>1, BeginsHolds
  <1>2. ASSUME NEW j \in Jobs, BeginsStrict(j) PROVE IoInv'
    BY <1>2, BeginsStrictHolds
  <1>3. ASSUME NEW j \in Jobs, Handler(j) PROVE IoInv'
    BY <1>3, HandlerHolds
  <1>4. ASSUME NEW j \in Jobs, DocumentServes(j) PROVE IoInv'
    BY <1>4, DocumentServesHolds
  <1>5. ASSUME NEW j \in Jobs, NEW p \in Parts, DownloadMoves(j, p) PROVE IoInv'
    BY <1>5, DownloadMovesHolds
  <1>6. CASE Lifecycle
    BY <1>6, LifecycleHolds
  <1>7. CASE WorkerLost
    BY <1>7, WorkerLostHolds
  <1>8. CASE UNCHANGED vars
    BY <1>8, StutterHolds
  <1> QED BY <1>1, <1>2, <1>3, <1>4, <1>5, <1>6, <1>7, <1>8 DEF Next

\* The document stays while it is needed, a job has what its stage needs, and what
\* is reported agrees with the downloads, for any number of jobs.
THEOREM OutputsStaySound == Spec => []IoInv
  BY StartsSound, StepsHold, PTL DEF Spec

\* Every variable keeps its type, and leases and the gate belong to handlers at work.
THEOREM TypesHold == Spec => []TypeOK
  <1>1. IoInv => TypeOK
    <2> SUFFICES ASSUME IoInv PROVE TypeOK
      OBVIOUS
    <2>1. ASSUME NEW j \in holders
          PROVE  kind[j] # "markdown" /\ stage[j] \notin {"idle", "acquiring", "over", "lost"}
      <3>1. j \in Jobs
        BY DEF IoInv, Shapes
      <3> QED BY <3>1 DEF IoInv, JobSound, Leased, OwnStages, UsesBlob
    <2>2. ASSUME gate # Nobody
          PROVE  kind[gate] = "markdown" /\ stage[gate] \in {"downloading", "watching"}
      <3>1. gate \in Jobs
        BY <2>2 DEF IoInv, Shapes
      <3> QED BY <3>1 DEF IoInv, JobSound, GateIsHeld
    <2> QED BY <2>1, <2>2 DEF IoInv, TypeOK
  <1> QED BY <1>1, OutputsStaySound, PTL

\* While a lease is held the document is open and is not being closed; the Blob
\* URL of a download lives until its end is known; and one strict download is
\* under way at a time: acquireOffscreenLease, scheduleOffscreenClose,
\* handleVerifiedInlineDownload, strictFileDownloadOwner.
THEOREM TransfersHold == Spec => []TransfersAreProtected
  <1>1. IoInv => TransfersAreProtected
    <2> SUFFICES ASSUME IoInv PROVE TransfersAreProtected
      OBVIOUS
    <2>1. holders # {} \/ timer = "armed" => "close" \notin {calls[i] : i \in DOMAIN calls}
      <3> SUFFICES ASSUME calls \in {<<>>, <<"contexts">>}
                   PROVE  "close" \notin {calls[i] : i \in DOMAIN calls}
        BY DEF IoInv, DocumentStays
      <3> QED OBVIOUS
    <2>2. holders # {} => document
      BY DEF IoInv, DocumentStays
    <2>3. ASSUME NEW j \in Jobs, UsesBlob(j), stage[j] \in {"downloading", "watching"}
          PROVE  Part(j) \in urls
      BY <2>3 DEF IoInv, JobSound, UrlIsKept, Leased
    <2>4. ASSUME NEW j \in Jobs, kind[j] = "markdown", stage[j] \notin {"over", "lost"},
                 Download(j) \in InTransfer
          PROVE  gate = j
      <3>1. stage[j] \in {"downloading", "watching"}
        <4>1. stage[j] \in {"idle", "downloading", "confirming", "watching", "over", "lost"}
          BY <2>4 DEF IoInv, JobSound, OwnStages
        <4>2. /\ stage[j] = "idle" => Download(j) = "none"
              /\ stage[j] = "confirming" => Download(j) \in {"complete", "elsewhere"}
          BY DEF IoInv, JobSound, DownloadFollows
        <4> QED BY <2>4, <4>1, <4>2 DEF InTransfer
      <3> QED BY <2>4, <3>1 DEF IoInv, JobSound, GateIsHeld
    <2> QED BY <2>1, <2>2, <2>3, <2>4 DEF TransfersAreProtected
  <1> QED BY <1>1, OutputsStaySound, PTL

\* What is reported of an output is true, and a receipt follows only a
\* presentation that is complete at its path: handleVerifiedInlineDownload,
\* handlePersistDerivedHtmlPresentation.
THEOREM OutcomesAreTrue == Spec => []OutcomeIsHonest
  <1>1. IoInv => OutcomeIsHonest
    <2> SUFFICES ASSUME IoInv, NEW j \in Jobs
                 PROVE  /\ download[j]["receipt"] # "none" => download[j]["artifact"] = "complete"
                        /\ \A p \in Parts : Honest(j, p)
      BY DEF OutcomeIsHonest, Honest
    <2>1. part[j] \in {"artifact", "receipt"}
      BY RowTypes DEF IoInv
    <2> QED BY <2>1 DEF IoInv, JobSound, DownloadFollows
  <1> QED BY <1>1, OutputsStaySound, PTL
=============================================================================

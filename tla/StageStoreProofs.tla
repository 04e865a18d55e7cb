-------------------------- MODULE StageStoreProofs --------------------------
(***************************************************************************)
(* StageStore, proved for any number of stages of any size, any limit on   *)
(* what a sweep looks at and any bounds on disturbances: what a content    *)
(* script was told is stored is there, and no stage is stranded.           *)
(***************************************************************************)
EXTENDS StageStore, TLAPS

\* Whoever does not abort a stage, or has done with it, fills it.
Fills(s) == client[s] \notin {"aborting", "over"}

\* While it fills a stage, a content script has one request under way, or none.
OneRequest(s) ==
    Fills(s) =>
        \A r \in Requests :
            IF Awaits(s, r) THEN task[s][r] # "none" /\ call[s][r] = "waiting"
            ELSE task[s][r] = "none" /\ call[s][r] = "none"

\* A request of each kind comes only to its own steps.
OwnSteps(s) ==
    /\ task[s]["begin"] \in {"none", "pruning", "creating", "entry", "recording", "undoing",
                             "done", "failed"}
    /\ task[s]["append"] \in {"none", "checking", "writing", "entry", "recording",
                              "done", "failed"}
    /\ task[s]["seal"] \in {"none", "checking", "entry", "recording", "done", "failed"}
    /\ task[s]["seal"] \in {"entry", "recording"} => kind = "archive"
    /\ \A r \in {"abort", "undo"} :
        task[s][r] \in {"none", "removing", "removing-data", "removing-metadata",
                        "done", "failed"}

\* There is room for the chunk an append writes.
Room(s) ==
    /\ task[s]["append"] # "none" => acked[s] < Chunks
    /\ client[s] \in {"appending"} => acked[s] < Chunks
    /\ client[s] \in {"sealing", "sealed"} => acked[s] = Chunks
    /\ client[s] \in {"idle", "beginning"} => acked[s] = 0

\* The files of a stage: n chunks, of which the metadata tell m.
Files(s, n, state, m) == data[s] = n /\ meta[s].state = state /\ meta[s].size = m
Gone(s) == Files(s, Absent, "absent", 0)

Sealed == IF kind = "archive" THEN "sealed" ELSE "open"

\* The files while a stage is filled, step by step.
Unswept(s) ==
    /\ client[s] = "beginning" =>
        /\ task[s]["begin"] = "entry" => Files(s, 0, "absent", 0)
        /\ task[s]["begin"] = "recording" => Files(s, 0, "empty", 0)
        /\ task[s]["begin"] = "done" => Files(s, 0, "open", 0)
    /\ client[s] = "open" => Files(s, acked[s], "open", acked[s])
    /\ client[s] = "appending" =>
        /\ task[s]["append"] \in {"checking", "writing"} =>
            Files(s, acked[s], "open", acked[s])
        /\ task[s]["append"] \in {"entry", "recording"} =>
            Files(s, acked[s] + 1, "open", acked[s])
        /\ task[s]["append"] = "done" => Files(s, acked[s] + 1, "open", acked[s] + 1)
    /\ client[s] = "sealing" =>
        /\ task[s]["seal"] \in {"checking", "entry", "recording"} =>
            Files(s, Chunks, "open", Chunks)
        /\ task[s]["seal"] = "done" => Files(s, Chunks, Sealed, Chunks)
    /\ client[s] = "sealed" => Files(s, Chunks, Sealed, Chunks)

FilesFollow(s) ==
    /\ client[s] = "idle" => Gone(s)
    /\ client[s] = "beginning" /\ task[s]["begin"] \in {"pruning", "creating"} => Gone(s)
    /\ s \notin swept => Unswept(s)

\* No abort failed, and nobody was lost.
Calm ==
    Undisturbed({"abort-timeout", "abort-failure", "worker-lost", "document-lost", "tab-closed"})

\* A request that outlives its content script's patience is attended to, and an
\* abort is waited for.
LateIsAttended(s) ==
    /\ ~Fills(s) =>
        \A r \in Filling : /\ task[s][r] # "none" => call[s][r] = "late"
                           /\ call[s][r] # "waiting"
    /\ \A r \in {"abort", "undo"} : /\ task[s][r] # "none" => call[s][r] = "waiting"
                                    /\ task[s][r] # "failed"
                                    /\ call[s][r] # "late"

\* Unless a request is still to be attended to, what is left of a stage is about
\* to be removed.
Removed(s) ==
    ~Fills(s) /\ (\A r \in Filling : call[s][r] # "late") =>
        /\ data[s] # Absent =>
            \E r \in {"abort", "undo"} : task[s][r] \in {"removing", "removing-data"}
        /\ meta[s].state # "absent" =>
            \E r \in {"abort", "undo"} : task[s][r] \in {"removing", "removing-metadata"}

\* A stage that could not be begun is not there.
BegunOrGone(s) == client[s] = "beginning" /\ task[s]["begin"] = "failed" => ~Stored(s)

Cleaned(s) ==
    Calm /\ kind = "archive" => LateIsAttended(s) /\ Removed(s) /\ BegunOrGone(s)

Sound(s) == OneRequest(s) /\ OwnSteps(s) /\ Room(s) /\ FilesFollow(s) /\ Cleaned(s)

StInv == TypeOK /\ \A s \in StageIds : Sound(s)

-----------------------------------------------------------------------------
(* Tables, losses and requests.                                            *)

LEMMA EntryIsSet ==
    ASSUME NEW S, NEW Y, NEW X, NEW f \in [S -> [Y -> X]], NEW s \in S, NEW r \in Y, NEW v \in X,
           NEW g, g = [f EXCEPT ![s][r] = v]
    PROVE  /\ g \in [S -> [Y -> X]] /\ g[s][r] = v
           /\ \A q \in Y : q # r => g[s][q] = f[s][q]
           /\ \A t \in S : t # s => g[t] = f[t]
  <1>1. g = [t \in S |-> IF t = s THEN [f[s] EXCEPT ![r] = v] ELSE f[t]]
    OBVIOUS
  <1>2. f[s] \in [Y -> X]
    OBVIOUS
  <1>3. [f[s] EXCEPT ![r] = v] = [q \in Y |-> IF q = r THEN v ELSE f[s][q]]
    BY <1>2
  <1> QED BY <1>1, <1>2, <1>3

LEMMA OneIsSet ==
    ASSUME NEW S, NEW X, NEW f \in [S -> X], NEW s \in S, NEW v \in X,
           NEW g, g = [f EXCEPT ![s] = v]
    PROVE  g \in [S -> X] /\ g[s] = v /\ \A t \in S : t # s => g[t] = f[t]
  OBVIOUS

LEMMA Spent ==
    ASSUME NEW what \in Disturbances, TypeOK, Spend(what)
    PROVE  /\ spent' \in [Disturbances -> Nat]
           /\ Calm' => Calm
           /\ what \in {"abort-timeout", "abort-failure", "worker-lost", "document-lost",
                        "tab-closed"} => ~Calm'
  <1>1. /\ spent \in [Disturbances -> Nat]
        /\ spent' = [spent EXCEPT ![what] = spent[what] + 1]
    BY DEF Spend, TypeOK
  <1>2. spent[what] \in Nat /\ spent[what] + 1 \in Nat
    BY <1>1
  <1>3. /\ spent' \in [Disturbances -> Nat] /\ spent'[what] = spent[what] + 1
        /\ \A d \in Disturbances : d # what => spent'[d] = spent[d]
    BY <1>1, <1>2, OneIsSet
  <1>4. spent'[what] # 0
    BY <1>2, <1>3
  <1>5. {"abort-timeout", "abort-failure", "worker-lost", "document-lost", "tab-closed"}
            \subseteq Disturbances
    BY DEF Disturbances
  <1>6. Calm' => what \notin {"abort-timeout", "abort-failure", "worker-lost", "document-lost",
                              "tab-closed"}
    BY <1>4 DEF Calm, Undisturbed
  <1>7. Calm' => Calm
    BY <1>3, <1>5, <1>6 DEF Calm, Undisturbed
  <1> QED BY <1>3, <1>6, <1>7

LEMMA NothingSpent ==
    ASSUME TypeOK, spent' = spent
    PROVE  spent' \in [Disturbances -> Nat] /\ (Calm' => Calm)
  BY DEF TypeOK, Calm, Undisturbed

\* Who waits for what.
LEMMA WhoAwaits ==
    ASSUME NEW s, NEW r
    PROVE  Awaits(s, r) <=> \/ client[s] = "beginning" /\ r = "begin"
                            \/ client[s] = "appending" /\ r = "append"
                            \/ client[s] = "sealing" /\ r = "seal"
                            \/ client[s] = "aborting" /\ r = "abort"
  BY DEF Awaits

LEMMA Firsts ==
    /\ FirstStep("begin") = "pruning" /\ FirstStep("append") = "checking"
    /\ FirstStep("seal") = "checking" /\ FirstStep("abort") = "removing"
    /\ FirstStep("undo") = "removing"
    /\ \A r \in Requests : FirstStep(r) \in Steps \ {"none", "failed"}
  BY DEF FirstStep, Requests, Steps

LEMMA StageTypes ==
    ASSUME TypeOK, NEW s \in StageIds
    PROVE  /\ data[s] \in {Absent} \cup 0 .. Chunks /\ meta[s] \in Metadata
           /\ task[s] \in [Requests -> Steps]
           /\ call[s] \in [Requests -> {"none", "waiting", "late"}]
           /\ client[s] \in {"idle", "beginning", "open", "appending", "sealing", "sealed",
                             "aborting", "over"}
           /\ acked[s] \in 0 .. Chunks
           /\ kind \in {"archive", "binary"}
  BY DEF TypeOK

-----------------------------------------------------------------------------
(* The stages a step is not about.                                         *)

\* A stage keeps its files, or was swept.
FilesKept(t) ==
    \/ data'[t] = data[t] /\ meta'[t] = meta[t] /\ (t \in swept' <=> t \in swept)
    \/ data'[t] = Absent /\ meta'[t] = NoMetadata /\ t \in swept'

RequestsKept(t) == UNCHANGED <<task[t], call[t], client[t], acked[t]>>

LEMMA OthersKept ==
    ASSUME NEW t \in StageIds, Sound(t), FilesKept(t), RequestsKept(t), kind' = kind,
           Calm' => Calm
    PROVE  Sound(t)'
  <1>1. /\ task'[t] = task[t] /\ call'[t] = call[t] /\ client'[t] = client[t]
        /\ acked'[t] = acked[t]
    BY DEF RequestsKept
  <1>2. OneRequest(t)' /\ OwnSteps(t)' /\ Room(t)'
    BY <1>1 DEF Sound, OneRequest, OwnSteps, Room, Fills, Awaits
  <1>3. CASE data'[t] = data[t] /\ meta'[t] = meta[t] /\ (t \in swept' <=> t \in swept)
    <2>1. FilesFollow(t)'
      BY <1>1, <1>3 DEF Sound, FilesFollow, Unswept, Gone, Files, Sealed
    <2>2. Cleaned(t)'
      BY <1>1, <1>3 DEF Sound, Cleaned, LateIsAttended, Removed, BegunOrGone, Stored, Fills
    <2> QED BY <1>2, <2>1, <2>2 DEF Sound
  <1>4. CASE data'[t] = Absent /\ meta'[t] = NoMetadata /\ t \in swept'
    <2>1. meta'[t].state = "absent" /\ meta'[t].size = 0
      BY <1>4 DEF NoMetadata
    <2>2. FilesFollow(t)'
      BY <1>1, <1>4, <2>1 DEF Sound, FilesFollow, Gone, Files
    <2>3. Cleaned(t)'
      BY <1>1, <1>4, <2>1 DEF Sound, Cleaned, LateIsAttended, Removed, BegunOrGone, Stored, Fills
    <2> QED BY <1>2, <2>2, <2>3 DEF Sound
  <1> QED BY <1>3, <1>4 DEF FilesKept

LEMMA PruningKeeps ==
    ASSUME TypeOK, Pruned
    PROVE  /\ \A t \in StageIds : FilesKept(t)
           /\ data' \in [StageIds -> {Absent} \cup 0 .. Chunks]
           /\ meta' \in [StageIds -> Metadata]
           /\ old' \subseteq StageIds /\ swept' \subseteq StageIds
  <1>1. NoMetadata \in Metadata
    BY StageStoreParameters DEF NoMetadata, Metadata
  <1>2. Stale \subseteq StageIds
    BY DEF Stale, Inspected
  <1>3. ASSUME NEW t \in StageIds PROVE FilesKept(t)
    BY <1>3 DEF Pruned, FilesKept
  <1> QED BY <1>1, <1>2, <1>3 DEF Pruned, TypeOK

-----------------------------------------------------------------------------
(* A step of the document about a request that fills a stage.              *)

OwnStep(r, step) ==
    /\ r = "begin" => step \in {"creating", "entry", "recording", "undoing", "done", "failed"}
    /\ r = "append" => step \in {"writing", "entry", "recording", "done", "failed"}
    /\ r = "seal" => step \in {"entry", "recording", "done", "failed"}
    /\ r = "seal" /\ step \in {"entry", "recording"} => kind = "archive"

LEMMA DocumentSteps ==
    ASSUME TypeOK, NEW s \in StageIds, NEW r \in Requests, NEW step \in Steps,
           Moves(s, r, step), OnlyStore
    PROVE  /\ task' \in [StageIds -> [Requests -> Steps]] /\ task'[s][r] = step
           /\ \A q \in Requests : q # r => task'[s][q] = task[s][q]
           /\ \A t \in StageIds : t # s => task'[t] = task[t]
           /\ UNCHANGED <<kind, call, client, acked>>
  <1>1. task \in [StageIds -> [Requests -> Steps]] /\ task' = [task EXCEPT ![s][r] = step]
    BY DEF TypeOK, Moves
  <1>2. UNCHANGED <<kind, call, client, acked>>
    BY DEF OnlyStore
  <1> QED BY <1>1, <1>2, EntryIsSet

FilesTyped ==
    /\ data' \in [StageIds -> {Absent} \cup 0 .. Chunks]
    /\ meta' \in [StageIds -> Metadata]
    /\ old' \subseteq StageIds /\ swept' \subseteq StageIds
    /\ spent' \in [Disturbances -> Nat]

LEMMA FillStepHolds ==
    ASSUME StInv, NEW s \in StageIds, NEW r \in Filling, NEW step \in Steps,
           task[s][r] # "none", OwnStep(r, step), Moves(s, r, step), OnlyStore,
           FilesTyped, \A t \in StageIds : t # s => FilesKept(t), Calm' => Calm,
           Fills(s) => FilesFollow(s)',
           Calm' /\ kind = "archive" /\ r = "begin" /\ step = "failed" /\ client[s] = "beginning"
               => ~Stored(s)'
    PROVE  StInv'
  <1>1. TypeOK /\ Sound(s)
    BY DEF StInv
  <1>2. r \in Requests /\ r \notin {"abort", "undo"} /\ r \in {"begin", "append", "seal"}
            /\ step # "none"
    BY DEF Requests, Filling, OwnStep
  <1>3. /\ task' \in [StageIds -> [Requests -> Steps]] /\ task'[s][r] = step
        /\ \A q \in Requests : q # r => task'[s][q] = task[s][q]
        /\ \A t \in StageIds : t # s => task'[t] = task[t]
        /\ UNCHANGED <<kind, call, client, acked>>
    BY <1>1, <1>2, DocumentSteps
  <1>4. TypeOK'
    BY <1>1, <1>3 DEF TypeOK, FilesTyped
  <1>5. ASSUME NEW t \in StageIds, t # s PROVE Sound(t)'
    <2>1. RequestsKept(t) /\ FilesKept(t) /\ Sound(t)
      BY <1>3, <1>5 DEF RequestsKept, StInv
    <2> QED BY <1>3, <2>1, OthersKept
  <1>6. OneRequest(s)'
    <2>1. (Fills(s)' <=> Fills(s)) /\ \A q : Awaits(s, q)' <=> Awaits(s, q)
      BY <1>3 DEF Fills, Awaits
    <2>2. Fills(s) => Awaits(s, r)
      BY <1>1, <1>2 DEF Sound, OneRequest
    <2> QED BY <1>1, <1>2, <1>3, <2>1, <2>2 DEF Sound, OneRequest
  <1>7. OwnSteps(s)'
    <2>1. {"begin", "append", "seal", "abort", "undo"} \subseteq Requests
      BY DEF Requests
    <2> QED BY <1>1, <1>2, <1>3, <2>1 DEF Sound, OwnSteps, OwnStep
  <1>8. Room(s)'
    BY <1>1, <1>3 DEF Sound, Room, Requests
  <1>9. FilesFollow(s)'
    <2>1. ~Fills(s) => FilesFollow(s)'
      BY <1>3 DEF FilesFollow, Unswept, Fills
    <2> QED BY <2>1
  <1>10. Cleaned(s)'
    <2> SUFFICES ASSUME Calm', kind = "archive"
                 PROVE  LateIsAttended(s)' /\ Removed(s)' /\ BegunOrGone(s)'
      BY <1>3 DEF Cleaned
    <2>1. LateIsAttended(s) /\ Removed(s) /\ BegunOrGone(s)
      BY <1>1 DEF Sound, Cleaned
    <2>2. \A q \in Requests : task'[s][q] # "none" => task[s][q] # "none"
      BY <1>3
    <2>3. LateIsAttended(s)'
      <3>1. {"abort", "undo"} \subseteq Requests \ {r} /\ Filling \subseteq Requests
        BY <1>2 DEF Requests, Filling
      <3> QED BY <1>3, <2>1, <2>2, <3>1 DEF LateIsAttended, Fills
    <2>4. ~Fills(s) => call[s][r] = "late"
      BY <2>1 DEF LateIsAttended
    <2>5. Removed(s)'
      BY <1>3, <2>4 DEF Removed, Fills
    <2>6. BegunOrGone(s)'
      <3> SUFFICES ASSUME client[s] = "beginning", task'[s]["begin"] = "failed"
                   PROVE  ~Stored(s)'
        BY <1>3 DEF BegunOrGone
      <3>1. Fills(s) /\ Awaits(s, r)
        BY <1>1, <1>2 DEF Fills, Sound, OneRequest
      <3>2. r = "begin" /\ step = "failed"
        BY <1>3, <3>1, WhoAwaits
      <3> QED BY <3>2
    <2> QED BY <2>3, <2>5, <2>6
  <1>11. Sound(s)'
    BY <1>6, <1>7, <1>8, <1>9, <1>10 DEF Sound
  <1> QED BY <1>4, <1>5, <1>11 DEF StInv

\* The fields of the metadata a step may write.
LEMMA MetadataTypes ==
    ASSUME NEW m \in Metadata
    PROVE  m.state \in {"absent", "empty", "open", "sealed"} /\ m.size \in 0 .. Chunks
  BY DEF Metadata

\* The files of one stage are other ones.
LEMMA OneStageWritten ==
    ASSUME TypeOK, NEW s \in StageIds, swept' = swept,
           NEW n \in {Absent} \cup 0 .. Chunks, NEW m \in Metadata,
           data' = [data EXCEPT ![s] = n], meta' = [meta EXCEPT ![s] = m],
           old' \in {old, old \ {s}}, spent' \in [Disturbances -> Nat]
    PROVE  /\ FilesTyped /\ data'[s] = n /\ meta'[s] = m /\ (s \in swept' <=> s \in swept)
           /\ \A t \in StageIds : t # s => FilesKept(t)
  <1>1. /\ data \in [StageIds -> {Absent} \cup 0 .. Chunks] /\ meta \in [StageIds -> Metadata]
        /\ old \subseteq StageIds /\ swept \subseteq StageIds
    BY DEF TypeOK
  <1>2. /\ data' \in [StageIds -> {Absent} \cup 0 .. Chunks] /\ data'[s] = n
        /\ \A t \in StageIds : t # s => data'[t] = data[t]
    BY <1>1, OneIsSet
  <1>3. /\ meta' \in [StageIds -> Metadata] /\ meta'[s] = m
        /\ \A t \in StageIds : t # s => meta'[t] = meta[t]
    BY <1>1, OneIsSet
  <1>4. old' \subseteq StageIds
    BY <1>1
  <1>5. \A t \in StageIds : t # s => FilesKept(t)
    BY <1>2, <1>3 DEF FilesKept
  <1>6. FilesTyped
    BY <1>1, <1>2, <1>3, <1>4 DEF FilesTyped
  <1> QED BY <1>2, <1>3, <1>5, <1>6

LEMMA NothingWritten ==
    ASSUME TypeOK, UNCHANGED files, spent' \in [Disturbances -> Nat]
    PROVE  /\ FilesTyped /\ UNCHANGED <<data, meta, old, swept>>
           /\ \A t \in StageIds : FilesKept(t)
  <1>1. UNCHANGED <<data, meta, old, swept>>
    BY DEF files
  <1> QED BY <1>1 DEF FilesTyped, TypeOK, FilesKept

\* A request that fails leaves the files to those who clean up.
LEMMA FailureHolds ==
    ASSUME StInv, NEW s \in StageIds, NEW r \in Filling, task[s][r] # "none",
           NEW step \in {"failed", "undoing"}, step = "undoing" => r = "begin",
           Moves(s, r, step), OnlyStore, UNCHANGED files,
           spent' \in [Disturbances -> Nat], Calm' => Calm,
           r = "begin" /\ step = "failed" /\ client[s] = "beginning" => ~Stored(s)
    PROVE  StInv'
  <1>1. TypeOK /\ Sound(s)
    BY DEF StInv
  <1>2. step \in Steps /\ OwnStep(r, step) /\ r \in Requests
    BY DEF Steps, OwnStep, Filling, Requests
  <1>3. /\ FilesTyped /\ UNCHANGED <<data, meta, old, swept>>
        /\ \A t \in StageIds : FilesKept(t)
    BY <1>1, NothingWritten
  <1>4. /\ task'[s][r] = step /\ UNCHANGED <<kind, call, client, acked>>
    BY <1>1, <1>2, DocumentSteps
  <1>5. Fills(s) => FilesFollow(s)'
    <2> SUFFICES ASSUME Fills(s) PROVE FilesFollow(s)'
      OBVIOUS
    <2>1. Awaits(s, r)
      BY <1>1, <1>2 DEF Sound, OneRequest
    <2>2. \/ client[s] = "beginning" /\ r = "begin"
          \/ client[s] = "appending" /\ r = "append"
          \/ client[s] = "sealing" /\ r = "seal"
      BY <2>1, WhoAwaits DEF Filling
    <2> QED BY <1>4, <2>2 DEF FilesFollow, Unswept
  <1>6. ~Stored(s) => ~Stored(s)'
    BY <1>3 DEF Stored
  <1> QED BY <1>2, <1>3, <1>5, <1>6, FillStepHolds

LEMMA BeginPrunesHolds ==
    ASSUME StInv, NEW s \in StageIds, BeginPrunes(s) PROVE StInv'
  <1>1. /\ task[s]["begin"] = "pruning" /\ Pruned /\ Moves(s, "begin", "creating")
        /\ spent' = spent /\ OnlyStore
    BY DEF BeginPrunes
  <1>2. TypeOK /\ Sound(s)
    BY DEF StInv
  <1>3. /\ spent' \in [Disturbances -> Nat] /\ (Calm' => Calm)
    BY <1>1, <1>2, NothingSpent
  <1>4. FilesTyped /\ \A t \in StageIds : FilesKept(t)
    BY <1>1, <1>2, <1>3, PruningKeeps DEF FilesTyped
  <1>5. "creating" \in Steps /\ OwnStep("begin", "creating") /\ "begin" \in Filling
            /\ "begin" \in Requests
    BY DEF Steps, OwnStep, Filling, Requests
  <1>6. task'[s]["begin"] = "creating" /\ UNCHANGED <<kind, call, client, acked>>
    BY <1>1, <1>2, <1>5, DocumentSteps
  <1>7. Fills(s) => FilesFollow(s)'
    <2> SUFFICES ASSUME Fills(s) PROVE FilesFollow(s)'
      OBVIOUS
    <2>1. client[s] = "beginning"
      BY <1>1, <1>2, <1>5, WhoAwaits DEF Sound, OneRequest
    <2>2. Gone(s)
      BY <1>1, <1>2, <2>1 DEF Sound, FilesFollow
    <2>3. Gone(s)'
      BY <1>4, <2>2 DEF FilesKept, Gone, Files, NoMetadata
    <2> QED BY <1>6, <2>1, <2>3 DEF FilesFollow, Unswept
  <1> QED BY <1>1, <1>3, <1>4, <1>5, <1>7, FillStepHolds

LEMMA BeginCreatesHolds ==
    ASSUME StInv, NEW s \in StageIds, BeginCreates(s) PROVE StInv'
  <1>1. task[s]["begin"] = "creating" /\ OnlyStore
    BY DEF BeginCreates
  <1>2. TypeOK /\ Sound(s)
    BY DEF StInv
  <1>3. "begin" \in Filling /\ "begin" \in Requests
    BY DEF Filling, Requests
  <1>4. Fills(s) => client[s] = "beginning" /\ Gone(s)
    <2>1. Fills(s) => client[s] = "beginning"
      BY <1>1, <1>2, <1>3, WhoAwaits DEF Sound, OneRequest
    <2> QED BY <1>1, <1>2, <2>1 DEF Sound, FilesFollow
  <1>5. CASE kind = "archive" /\ Stored(s) /\ Moves(s, "begin", "failed")
             /\ UNCHANGED <<files, spent>>
    <2>1. client[s] # "beginning"
      BY <1>4, <1>5 DEF Fills, Gone, Files, Stored
    <2>2. spent' \in [Disturbances -> Nat] /\ (Calm' => Calm)
      BY <1>2, <1>5, NothingSpent
    <2> QED BY <1>1, <1>3, <1>5, <2>1, <2>2, FailureHolds
  <1>6. CASE /\ data' = [data EXCEPT ![s] = 0] /\ old' = old \ {s}
             /\ Moves(s, "begin", "entry") /\ UNCHANGED <<meta, swept, spent>>
    <2>1. spent' \in [Disturbances -> Nat] /\ (Calm' => Calm)
      BY <1>2, <1>6, NothingSpent
    <2>2. 0 \in {Absent} \cup 0 .. Chunks /\ meta[s] \in Metadata
              /\ meta' = [meta EXCEPT ![s] = meta[s]]
      BY <1>2, <1>6, StageTypes, StageStoreParameters DEF StageStoreParameters, TypeOK
    <2>3. /\ FilesTyped /\ data'[s] = 0 /\ meta'[s] = meta[s] /\ (s \in swept' <=> s \in swept)
          /\ \A t \in StageIds : t # s => FilesKept(t)
      BY <1>2, <1>6, <2>1, <2>2, OneStageWritten
    <2>4. "entry" \in Steps /\ OwnStep("begin", "entry")
      BY DEF Steps, OwnStep
    <2>5. task'[s]["begin"] = "entry" /\ UNCHANGED <<kind, call, client, acked>>
      BY <1>1, <1>2, <1>3, <1>6, <2>4, DocumentSteps
    <2>6. Fills(s) => FilesFollow(s)'
      BY <1>4, <2>3, <2>5 DEF FilesFollow, Unswept, Files, Gone
    <2> QED BY <1>1, <1>3, <1>6, <2>1, <2>3, <2>4, <2>6, FillStepHolds
  <1>7. CASE Refused(s, "begin", "undoing")
    <2>1. Spend("failure") /\ Moves(s, "begin", "undoing") /\ UNCHANGED files
      BY <1>7 DEF Refused
    <2>2. spent' \in [Disturbances -> Nat] /\ (Calm' => Calm)
      BY <1>2, <2>1, Spent DEF Disturbances
    <2> QED BY <1>1, <1>3, <2>1, <2>2, FailureHolds
  <1> QED BY <1>5, <1>6, <1>7 DEF BeginCreates

LEMMA BeginUndoesHolds ==
    ASSUME StInv, NEW s \in StageIds, BeginUndoes(s) PROVE StInv'
  <1>1. task[s]["begin"] = "undoing" /\ OnlyStore /\ Moves(s, "begin", "failed")
    BY DEF BeginUndoes
  <1>2. TypeOK /\ Sound(s)
    BY DEF StInv
  <1>3. "begin" \in Filling /\ "begin" \in Requests /\ "failed" \in Steps
            /\ OwnStep("begin", "failed")
    BY DEF Filling, Requests, Steps, OwnStep
  <1>4. task'[s]["begin"] = "failed" /\ UNCHANGED <<kind, call, client, acked>>
    BY <1>1, <1>2, <1>3, DocumentSteps
  <1>5. Fills(s) => FilesFollow(s)'
    <2>1. Fills(s) => client[s] = "beginning"
      BY <1>1, <1>2, <1>3, WhoAwaits DEF Sound, OneRequest
    <2> QED BY <1>4, <2>1 DEF FilesFollow, Unswept
  <1>6. CASE /\ data' = [data EXCEPT ![s] = Absent] /\ meta' = [meta EXCEPT ![s] = NoMetadata]
             /\ old' = old \ {s} /\ UNCHANGED <<swept, spent>>
    <2>1. spent' \in [Disturbances -> Nat] /\ (Calm' => Calm)
      BY <1>2, <1>6, NothingSpent
    <2>2. Absent \in {Absent} \cup 0 .. Chunks /\ NoMetadata \in Metadata
      BY StageStoreParameters DEF Metadata, NoMetadata
    <2>3. /\ FilesTyped /\ data'[s] = Absent /\ meta'[s] = NoMetadata
          /\ \A t \in StageIds : t # s => FilesKept(t)
      <3>1. swept' = swept /\ old' \in {old, old \ {s}}
        BY <1>6
      <3>2. data' = [data EXCEPT ![s] = Absent] /\ meta' = [meta EXCEPT ![s] = NoMetadata]
        BY <1>6
      <3> QED BY <1>2, <2>1, <2>2, <3>1, <3>2, OneStageWritten
    <2>4. ~Stored(s)'
      BY <2>3 DEF Stored, NoMetadata
    <2> QED BY <1>1, <1>3, <1>5, <2>1, <2>3, <2>4, FillStepHolds
  <1>7. CASE Spend("abort-failure") /\ UNCHANGED files
    <2>1. spent' \in [Disturbances -> Nat] /\ ~Calm'
      BY <1>2, <1>7, Spent DEF Disturbances
    <2>2. FilesTyped /\ \A t \in StageIds : FilesKept(t)
      BY <1>2, <1>7, <2>1, NothingWritten
    <2> QED BY <1>1, <1>3, <1>5, <2>1, <2>2, FillStepHolds
  <1> QED BY <1>6, <1>7 DEF BeginUndoes

LEMMA AppendChecksHolds ==
    ASSUME StInv, NEW s \in StageIds, AppendChecks(s) PROVE StInv'
  <1>1. /\ task[s]["append"] = "checking" /\ OnlyStore /\ UNCHANGED <<files, spent>>
        /\ Moves(s, "append", IF Appendable(s) THEN "writing" ELSE "failed")
    BY DEF AppendChecks
  <1>2. TypeOK /\ Sound(s)
    BY DEF StInv
  <1>3. "append" \in Filling /\ "append" \in Requests /\ "writing" \in Steps
            /\ OwnStep("append", "writing")
    BY DEF Filling, Requests, Steps, OwnStep
  <1>4. spent' \in [Disturbances -> Nat] /\ (Calm' => Calm)
    BY <1>1, <1>2, NothingSpent
  <1>5. CASE Moves(s, "append", "writing")
    <2>1. /\ FilesTyped /\ UNCHANGED <<data, meta, old, swept>>
          /\ \A t \in StageIds : FilesKept(t)
      BY <1>1, <1>2, <1>4, NothingWritten
    <2>2. task'[s]["append"] = "writing" /\ UNCHANGED <<kind, call, client, acked>>
      BY <1>1, <1>2, <1>3, <1>5, DocumentSteps
    <2>3. Fills(s) => client[s] = "appending"
      BY <1>1, <1>2, <1>3, WhoAwaits DEF Sound, OneRequest
    <2>4. Fills(s) => FilesFollow(s)'
      BY <1>1, <1>2, <2>1, <2>2, <2>3 DEF Sound, FilesFollow, Unswept, Files
    <2> QED BY <1>1, <1>3, <1>4, <1>5, <2>1, <2>4, FillStepHolds
  <1>6. CASE Moves(s, "append", "failed")
    BY <1>1, <1>3, <1>4, <1>6, FailureHolds
  <1> QED BY <1>1, <1>5, <1>6

LEMMA AppendWritesHolds ==
    ASSUME StInv, NEW s \in StageIds, AppendWrites(s) PROVE StInv'
  <1>1. task[s]["append"] = "writing" /\ OnlyStore
    BY DEF AppendWrites
  <1>2. TypeOK /\ Sound(s)
    BY DEF StInv
  <1>3. "append" \in Filling /\ "append" \in Requests /\ "entry" \in Steps
            /\ OwnStep("append", "entry")
    BY DEF Filling, Requests, Steps, OwnStep
  <1>4. CASE /\ data' = [data EXCEPT ![s] = acked[s] + 1] /\ old' = old \ {s}
             /\ Moves(s, "append", "entry") /\ UNCHANGED <<meta, swept, spent>>
    <2>1. spent' \in [Disturbances -> Nat] /\ (Calm' => Calm)
      BY <1>2, <1>4, NothingSpent
    <2>2. acked[s] \in 0 .. Chunks /\ acked[s] < Chunks
      BY <1>1, <1>2, StageTypes DEF Sound, Room
    <2>3. acked[s] + 1 \in {Absent} \cup 0 .. Chunks /\ meta[s] \in Metadata
              /\ meta' = [meta EXCEPT ![s] = meta[s]]
      BY <1>2, <1>4, <2>2, StageTypes, StageStoreParameters DEF StageStoreParameters, TypeOK
    <2>4. /\ FilesTyped /\ data'[s] = acked[s] + 1 /\ meta'[s] = meta[s]
          /\ (s \in swept' <=> s \in swept)
          /\ \A t \in StageIds : t # s => FilesKept(t)
      <3> DEFINE n == acked[s] + 1
      <3>1. swept' = swept /\ old' \in {old, old \ {s}}
        BY <1>4
      <3>2. data' = [data EXCEPT ![s] = n] /\ n \in {Absent} \cup 0 .. Chunks
        BY <1>4, <2>3
      <3> HIDE DEF n
      <3>3. /\ FilesTyped /\ data'[s] = n /\ meta'[s] = meta[s]
            /\ (s \in swept' <=> s \in swept)
            /\ \A t \in StageIds : t # s => FilesKept(t)
        BY <1>2, <2>1, <2>3, <3>1, <3>2, OneStageWritten
      <3> QED BY <3>3 DEF n
    <2>5. task'[s]["append"] = "entry" /\ UNCHANGED <<kind, call, client, acked>>
      BY <1>1, <1>2, <1>3, <1>4, DocumentSteps
    <2>6. Fills(s) => client[s] = "appending"
      BY <1>1, <1>2, <1>3, WhoAwaits DEF Sound, OneRequest
    <2>7. Fills(s) => FilesFollow(s)'
      BY <1>1, <1>2, <2>4, <2>5, <2>6 DEF Sound, FilesFollow, Unswept, Files
    <2> QED BY <1>1, <1>3, <1>4, <2>1, <2>4, <2>7, FillStepHolds
  <1>5. CASE data[s] = Absent /\ Moves(s, "append", "failed") /\ UNCHANGED <<files, spent>>
    <2>1. spent' \in [Disturbances -> Nat] /\ (Calm' => Calm)
      BY <1>2, <1>5, NothingSpent
    <2> QED BY <1>1, <1>3, <1>5, <2>1, FailureHolds
  <1>6. CASE Refused(s, "append", "failed")
    <2>1. Spend("failure") /\ Moves(s, "append", "failed") /\ UNCHANGED files
      BY <1>6 DEF Refused
    <2>2. spent' \in [Disturbances -> Nat] /\ (Calm' => Calm)
      BY <1>2, <2>1, Spent DEF Disturbances
    <2> QED BY <1>1, <1>3, <2>1, <2>2, FailureHolds
  <1> QED BY <1>4, <1>5, <1>6 DEF AppendWrites, AfterWriting

LEMMA SealChecksHolds ==
    ASSUME StInv, NEW s \in StageIds, SealChecks(s) PROVE StInv'
  <1>1. /\ task[s]["seal"] = "checking" /\ OnlyStore /\ UNCHANGED <<files, spent>>
        /\ \/ Moves(s, "seal", "failed")
           \/ Sealable(s) /\ kind = "archive" /\ Moves(s, "seal", "entry")
           \/ Sealable(s) /\ kind # "archive" /\ Moves(s, "seal", "done")
    BY DEF SealChecks
  <1>2. TypeOK /\ Sound(s)
    BY DEF StInv
  <1>3. "seal" \in Filling /\ "seal" \in Requests /\ {"entry", "done"} \subseteq Steps
            /\ (kind = "archive" => OwnStep("seal", "entry")) /\ OwnStep("seal", "done")
    BY DEF Filling, Requests, Steps, OwnStep
  <1>4. spent' \in [Disturbances -> Nat] /\ (Calm' => Calm)
    BY <1>1, <1>2, NothingSpent
  <1>5. /\ FilesTyped /\ UNCHANGED <<data, meta, old, swept>>
        /\ \A t \in StageIds : FilesKept(t)
    BY <1>1, <1>2, <1>4, NothingWritten
  <1>6. Fills(s) => client[s] = "sealing"
    BY <1>1, <1>2, <1>3, WhoAwaits DEF Sound, OneRequest
  <1>7. CASE Moves(s, "seal", "failed")
    BY <1>1, <1>3, <1>4, <1>7, FailureHolds
  <1>8. CASE kind = "archive" /\ Moves(s, "seal", "entry")
    <2>1. task'[s]["seal"] = "entry" /\ UNCHANGED <<kind, call, client, acked>>
      BY <1>1, <1>2, <1>3, <1>8, DocumentSteps
    <2>2. Fills(s) => FilesFollow(s)'
      BY <1>1, <1>2, <1>5, <1>6, <2>1 DEF Sound, FilesFollow, Unswept, Files
    <2> QED BY <1>1, <1>3, <1>4, <1>5, <1>8, <2>2, FillStepHolds
  <1>9. CASE Sealable(s) /\ kind # "archive" /\ Moves(s, "seal", "done")
    <2>1. task'[s]["seal"] = "done" /\ UNCHANGED <<kind, call, client, acked>>
      BY <1>1, <1>2, <1>3, <1>9, DocumentSteps
    <2>2. Sealed' = "open"
      BY <1>9, <2>1 DEF Sealed
    <2>3. data[s] = Chunks /\ meta[s].state = "open" /\ meta[s].size = Chunks
      BY <1>9 DEF Sealable
    <2>4. Fills(s) => FilesFollow(s)'
      BY <1>5, <1>6, <2>1, <2>2, <2>3 DEF FilesFollow, Unswept, Files
    <2> QED BY <1>1, <1>3, <1>4, <1>5, <1>9, <2>4, FillStepHolds
  <1> QED BY <1>1, <1>7, <1>8, <1>9

\* What a refusal leads to.
LEMMA RefusalHolds ==
    ASSUME StInv, NEW s \in StageIds, NEW r \in Filling, task[s][r] # "none", OnlyStore,
           Refused(s, r, IF r = "begin" THEN "undoing" ELSE "failed")
    PROVE  StInv'
  <1>1. TypeOK
    BY DEF StInv
  <1> DEFINE step == IF r = "begin" THEN "undoing" ELSE "failed"
  <1>2. Spend("failure") /\ Moves(s, r, step) /\ UNCHANGED files
    BY DEF Refused
  <1>3. /\ step \in {"failed", "undoing"} /\ (step = "undoing" => r = "begin")
        /\ ~(r = "begin" /\ step = "failed")
    OBVIOUS
  <1> HIDE DEF step
  <1>4. spent' \in [Disturbances -> Nat] /\ (Calm' => Calm)
    BY <1>1, <1>2, Spent DEF Disturbances
  <1> QED BY <1>2, <1>3, <1>4, FailureHolds

LEMMA MakesEntryHolds ==
    ASSUME StInv, NEW s \in StageIds, NEW r \in Filling, MakesEntry(s, r) PROVE StInv'
  <1>1. task[s][r] = "entry" /\ OnlyStore
    BY DEF MakesEntry
  <1>2. TypeOK /\ Sound(s) /\ r \in Requests /\ r \in {"begin", "append", "seal"}
    BY DEF StInv, Filling, Requests
  <1>3. "recording" \in Steps /\ OwnStep(r, "recording")
    BY <1>1, <1>2 DEF Steps, OwnStep, Sound, OwnSteps
  <1>4. CASE /\ IF meta[s].state = "absent"
                THEN meta' = [meta EXCEPT ![s].state = "empty"] /\ old' = old \ {s}
                ELSE UNCHANGED <<meta, old>>
             /\ Moves(s, r, "recording")
             /\ UNCHANGED <<data, swept, spent>>
    <2>1. spent' \in [Disturbances -> Nat] /\ (Calm' => Calm)
      BY <1>2, <1>4, NothingSpent
    <2>2. /\ meta[s] \in Metadata /\ data[s] \in {Absent} \cup 0 .. Chunks
          /\ meta[s].state \in {"absent", "empty", "open", "sealed"}
          /\ meta[s].size \in 0 .. Chunks
      BY <1>2, StageTypes, MetadataTypes
    <2>3. PICK m \in Metadata :
             /\ m.size = meta[s].size
             /\ m.state = IF meta[s].state = "absent" THEN "empty" ELSE meta[s].state
             /\ meta' = [meta EXCEPT ![s] = m] /\ old' \in {old, old \ {s}}
      <3>1. CASE meta[s].state = "absent"
        <4> DEFINE m == [meta[s] EXCEPT !.state = "empty"]
        <4>1. m \in Metadata /\ m.size = meta[s].size /\ m.state = "empty"
          BY <2>2 DEF Metadata
        <4>2. meta' = [meta EXCEPT ![s] = m] /\ old' = old \ {s}
          BY <1>4, <3>1
        <4> HIDE DEF m
        <4> QED BY <3>1, <4>1, <4>2
      <3>2. CASE meta[s].state # "absent"
        <4>1. meta' = [meta EXCEPT ![s] = meta[s]] /\ old' = old
          BY <1>2, <1>4, <3>2 DEF TypeOK
        <4> QED BY <2>2, <3>2, <4>1
      <3> QED BY <3>1, <3>2
    <2>4. data' = [data EXCEPT ![s] = data[s]] /\ swept' = swept
      BY <1>2, <1>4 DEF TypeOK
    <2>5. /\ FilesTyped /\ data'[s] = data[s] /\ meta'[s] = m
          /\ (s \in swept' <=> s \in swept)
          /\ \A t \in StageIds : t # s => FilesKept(t)
      BY <1>2, <2>1, <2>2, <2>3, <2>4, OneStageWritten
    <2>6. task'[s][r] = "recording" /\ UNCHANGED <<kind, call, client, acked>>
      BY <1>1, <1>2, <1>3, <1>4, DocumentSteps
    <2>7. Fills(s) => \/ client[s] = "beginning" /\ r = "begin"
                      \/ client[s] = "appending" /\ r = "append"
                      \/ client[s] = "sealing" /\ r = "seal"
      BY <1>1, <1>2, WhoAwaits DEF Sound, OneRequest
    <2>8. Fills(s) => FilesFollow(s)'
      <3>1. CASE client[s] = "beginning" /\ r = "begin"
        BY <1>1, <1>2, <2>3, <2>5, <2>6, <3>1 DEF Sound, FilesFollow, Unswept, Files
      <3>2. CASE client[s] = "appending" /\ r = "append"
        BY <1>1, <1>2, <2>3, <2>5, <2>6, <3>2 DEF Sound, FilesFollow, Unswept, Files
      <3>3. CASE client[s] = "sealing" /\ r = "seal"
        BY <1>1, <1>2, <2>3, <2>5, <2>6, <3>3 DEF Sound, FilesFollow, Unswept, Files
      <3> QED BY <2>7, <3>1, <3>2, <3>3
    <2> QED BY <1>1, <1>3, <1>4, <2>1, <2>5, <2>8, FillStepHolds
  <1>5. CASE Refused(s, r, IF r = "begin" THEN "undoing" ELSE "failed")
    BY <1>1, <1>5, RefusalHolds
  <1> QED BY <1>4, <1>5 DEF MakesEntry

LEMMA RecordsHolds ==
    ASSUME StInv, NEW s \in StageIds, NEW r \in Filling, Records(s, r) PROVE StInv'
  <1>1. task[s][r] = "recording" /\ OnlyStore
    BY DEF Records
  <1>2. TypeOK /\ Sound(s) /\ r \in Requests /\ r \in {"begin", "append", "seal"}
    BY DEF StInv, Filling, Requests
  <1>3. "done" \in Steps /\ OwnStep(r, "done")
    BY DEF Steps, OwnStep
  <1>4. CASE /\ meta' = [meta EXCEPT ![s] = Recorded(s, r)] /\ old' = old \ {s}
             /\ Moves(s, r, "done")
             /\ UNCHANGED <<data, swept, spent>>
    <2>1. spent' \in [Disturbances -> Nat] /\ (Calm' => Calm)
      BY <1>2, <1>4, NothingSpent
    <2>2. data[s] \in {Absent} \cup 0 .. Chunks /\ acked[s] \in 0 .. Chunks
      BY <1>2, StageTypes
    <2>3. r = "append" => acked[s] + 1 \in 0 .. Chunks
      BY <1>1, <1>2, <2>2, StageStoreParameters DEF Sound, Room, StageStoreParameters
    <2> DEFINE m == Recorded(s, r)
    <2>4. /\ r = "begin" => m = [state |-> "open", size |-> 0]
          /\ r = "append" => m = [state |-> "open", size |-> acked[s] + 1]
          /\ r = "seal" => m = [state |-> "sealed", size |-> Chunks]
      BY DEF Recorded
    <2>5. meta' = [meta EXCEPT ![s] = m]
      BY <1>4
    <2> HIDE DEF m
    <2>6. m \in Metadata
      BY <1>2, <2>3, <2>4, StageStoreParameters DEF Metadata, StageStoreParameters
    <2>7. data' = [data EXCEPT ![s] = data[s]] /\ swept' = swept /\ old' \in {old, old \ {s}}
      BY <1>2, <1>4 DEF TypeOK
    <2>8. /\ FilesTyped /\ data'[s] = data[s] /\ meta'[s] = m
          /\ (s \in swept' <=> s \in swept)
          /\ \A t \in StageIds : t # s => FilesKept(t)
      BY <1>2, <2>1, <2>2, <2>5, <2>6, <2>7, OneStageWritten
    <2>9. task'[s][r] = "done" /\ UNCHANGED <<kind, call, client, acked>>
      BY <1>1, <1>2, <1>3, <1>4, DocumentSteps
    <2>10. Fills(s) => \/ client[s] = "beginning" /\ r = "begin"
                       \/ client[s] = "appending" /\ r = "append"
                       \/ client[s] = "sealing" /\ r = "seal"
      BY <1>1, <1>2, WhoAwaits DEF Sound, OneRequest
    <2>11. Fills(s) => FilesFollow(s)'
      <3>1. CASE client[s] = "beginning" /\ r = "begin"
        BY <1>1, <1>2, <2>4, <2>8, <2>9, <3>1 DEF Sound, FilesFollow, Unswept, Files
      <3>2. CASE client[s] = "appending" /\ r = "append"
        BY <1>1, <1>2, <2>4, <2>8, <2>9, <3>2 DEF Sound, FilesFollow, Unswept, Files
      <3>3. CASE client[s] = "sealing" /\ r = "seal"
        BY <1>1, <1>2, <2>4, <2>8, <2>9, <3>3
           DEF Sound, OwnSteps, FilesFollow, Unswept, Files, Sealed
      <3> QED BY <2>10, <3>1, <3>2, <3>3
    <2> QED BY <1>1, <1>3, <1>4, <2>1, <2>8, <2>11, FillStepHolds
  <1>5. CASE /\ meta[s].state = "absent"
             /\ Moves(s, r, IF r = "begin" THEN "undoing" ELSE "failed")
             /\ UNCHANGED <<files, spent>>
    <2> DEFINE step == IF r = "begin" THEN "undoing" ELSE "failed"
    <2>1. Moves(s, r, step) /\ UNCHANGED files
      BY <1>5
    <2>2. /\ step \in {"failed", "undoing"} /\ (step = "undoing" => r = "begin")
          /\ ~(r = "begin" /\ step = "failed")
      OBVIOUS
    <2> HIDE DEF step
    <2>3. spent' \in [Disturbances -> Nat] /\ (Calm' => Calm)
      BY <1>2, <1>5, NothingSpent
    <2> QED BY <1>1, <2>1, <2>2, <2>3, FailureHolds
  <1>6. CASE Refused(s, r, IF r = "begin" THEN "undoing" ELSE "failed")
    BY <1>1, <1>6, RefusalHolds
  <1> QED BY <1>4, <1>5, <1>6 DEF Records

\* A step of an abort, or of the document that cannot be reached.
LEMMA RemovalHolds ==
    ASSUME StInv, NEW s \in StageIds, NEW r \in {"abort", "undo"}, NEW step \in Steps,
           task[s][r] # "none", Moves(s, r, step), OnlyStore, FilesTyped,
           step \in {"removing-data", "removing-metadata", "done", "failed"},
           \A t \in StageIds : t # s => FilesKept(t), Calm' => Calm,
           Calm' => step # "failed",
           Calm' /\ kind = "archive" /\ (\A q \in Filling : call[s][q] # "late") =>
               /\ data'[s] # Absent => data[s] # Absent
               /\ meta'[s].state # "absent" => meta[s].state # "absent"
               /\ data'[s] # Absent =>
                    (task[s][r] \in {"removing", "removing-data"} => step = "removing-data")
               /\ meta'[s].state # "absent" =>
                    (task[s][r] \in {"removing", "removing-metadata"} => step = "removing-metadata")
    PROVE  StInv'
  <1>1. TypeOK /\ Sound(s)
    BY DEF StInv
  <1>2. r \in Requests /\ r \notin {"begin", "append", "seal"} /\ step # "none"
    BY DEF Requests
  <1>3. /\ task' \in [StageIds -> [Requests -> Steps]] /\ task'[s][r] = step
        /\ \A q \in Requests : q # r => task'[s][q] = task[s][q]
        /\ \A t \in StageIds : t # s => task'[t] = task[t]
        /\ UNCHANGED <<kind, call, client, acked>>
    BY <1>1, <1>2, DocumentSteps
  <1>4. TypeOK'
    BY <1>1, <1>3 DEF TypeOK, FilesTyped
  <1>5. ASSUME NEW t \in StageIds, t # s PROVE Sound(t)'
    <2>1. RequestsKept(t) /\ FilesKept(t) /\ Sound(t)
      BY <1>3, <1>5 DEF RequestsKept, StInv
    <2> QED BY <1>3, <2>1, OthersKept
  <1>6. ~Fills(s)
    \* Nothing is aborted that is being filled.
    BY <1>1, <1>2, WhoAwaits DEF Sound, OneRequest, Fills
  <1>7. ~Fills(s)'
    BY <1>3, <1>6 DEF Fills
  <1>8. {"begin", "append", "seal", "abort", "undo"} \subseteq Requests /\ Filling \subseteq Requests
            /\ Filling = {"begin", "append", "seal"}
    BY DEF Requests, Filling
  <1>9. OneRequest(s)'
    BY <1>7 DEF OneRequest
  <1>10. OwnSteps(s)'
    BY <1>1, <1>2, <1>3, <1>8 DEF Sound, OwnSteps
  <1>11. Room(s)'
    BY <1>1, <1>2, <1>3, <1>8 DEF Sound, Room
  <1>12. FilesFollow(s)'
    BY <1>7 DEF FilesFollow, Unswept, Fills
  <1>13. Cleaned(s)'
    <2> SUFFICES ASSUME Calm', kind = "archive"
                 PROVE  LateIsAttended(s)' /\ Removed(s)' /\ BegunOrGone(s)'
      BY <1>3 DEF Cleaned
    <2>1. LateIsAttended(s) /\ Removed(s)
      BY <1>1 DEF Sound, Cleaned
    <2>2. LateIsAttended(s)'
      BY <1>2, <1>3, <1>6, <1>8, <2>1 DEF LateIsAttended, Fills
    <2>3. Removed(s)'
      <3> SUFFICES ASSUME \A q \in Filling : call[s][q] # "late"
                   PROVE  /\ data'[s] # Absent => \E q \in {"abort", "undo"} :
                                task'[s][q] \in {"removing", "removing-data"}
                          /\ meta'[s].state # "absent" => \E q \in {"abort", "undo"} :
                                task'[s][q] \in {"removing", "removing-metadata"}
        BY <1>3 DEF Removed
      <3>1. ASSUME data'[s] # Absent
            PROVE  \E q \in {"abort", "undo"} : task'[s][q] \in {"removing", "removing-data"}
        <4>1. PICK q \in {"abort", "undo"} : task[s][q] \in {"removing", "removing-data"}
          BY <1>6, <2>1, <3>1 DEF Removed
        <4>2. CASE q = r
          BY <1>3, <3>1, <4>1, <4>2
        <4>3. CASE q # r
          BY <1>3, <1>8, <4>1, <4>3
        <4> QED BY <4>2, <4>3
      <3>2. ASSUME meta'[s].state # "absent"
            PROVE  \E q \in {"abort", "undo"} : task'[s][q] \in {"removing", "removing-metadata"}
        <4>1. PICK q \in {"abort", "undo"} : task[s][q] \in {"removing", "removing-metadata"}
          BY <1>6, <2>1, <3>2 DEF Removed
        <4>2. CASE q = r
          BY <1>3, <3>2, <4>1, <4>2
        <4>3. CASE q # r
          BY <1>3, <1>8, <4>1, <4>3
        <4> QED BY <4>2, <4>3
      <3> QED BY <3>1, <3>2
    <2>4. BegunOrGone(s)'
      BY <1>7 DEF BegunOrGone, Fills
    <2> QED BY <2>2, <2>3, <2>4
  <1> QED BY <1>4, <1>5, <1>9, <1>10, <1>11, <1>12, <1>13 DEF StInv, Sound

\* A file that cannot be removed is being written, or an abort failed.
LEMMA RefusedRemovals ==
    ASSUME StInv, NEW s \in StageIds, RemovalRefused(s), \E r \in {"abort", "undo"} : task[s][r] # "none"
    PROVE  /\ spent' \in [Disturbances -> Nat] /\ (Calm' => Calm)
           /\ Calm' /\ kind = "archive" => \E q \in Filling : call[s][q] = "late"
  <1>1. TypeOK /\ Sound(s)
    BY DEF StInv
  <1>2. CASE \E r \in Filling : task[s][r] \in {"writing", "recording"}
    <2>1. spent' = spent
      BY <1>2 DEF RemovalRefused
    <2>2. spent' \in [Disturbances -> Nat] /\ (Calm' => Calm)
      BY <1>1, <2>1, NothingSpent
    <2>3. ~Fills(s)
      <3>1. {"abort", "undo"} \subseteq Requests
        BY DEF Requests
      <3> QED BY <1>1, <3>1, WhoAwaits DEF Sound, OneRequest, Fills
    <2> QED BY <1>1, <1>2, <2>2, <2>3 DEF Sound, Cleaned, LateIsAttended
  <1>3. CASE ~\E r \in Filling : task[s][r] \in {"writing", "recording"}
    <2>1. Spend("abort-failure")
      BY <1>3 DEF RemovalRefused
    <2> QED BY <1>1, <2>1, Spent DEF Disturbances
  <1> QED BY <1>2, <1>3

LEMMA RemovesDataHolds ==
    ASSUME StInv, NEW s \in StageIds, NEW r \in {"abort", "undo"}, RemovesData(s, r)
    PROVE  StInv'
  <1> DEFINE step == IF task[s][r] = "removing" THEN "removing-metadata" ELSE "done"
  <1>1. /\ task[s][r] \in {"removing", "removing-data"} /\ Moves(s, r, step)
        /\ UNCHANGED <<meta, old, swept>> /\ OnlyStore
    BY DEF RemovesData
  <1>2. TypeOK /\ Sound(s)
    BY DEF StInv
  <1>3. /\ step \in Steps /\ step \in {"removing-data", "removing-metadata", "done", "failed"}
        /\ step # "failed"
        /\ task[s][r] \in {"removing", "removing-metadata"} => step = "removing-metadata"
    BY <1>1 DEF Steps
  <1> HIDE DEF step
  <1>4. /\ meta[s] \in Metadata /\ data[s] \in {Absent} \cup 0 .. Chunks
        /\ meta' = [meta EXCEPT ![s] = meta[s]]
        /\ swept' = swept /\ old' \in {old, old \ {s}}
    BY <1>1, <1>2, StageTypes DEF TypeOK
  <1>5. CASE data' = [data EXCEPT ![s] = Absent] /\ spent' = spent
    <2>1. spent' \in [Disturbances -> Nat] /\ (Calm' => Calm)
      BY <1>2, <1>5, NothingSpent
    <2>2. /\ FilesTyped /\ data'[s] = Absent /\ meta'[s] = meta[s]
          /\ \A t \in StageIds : t # s => FilesKept(t)
      BY <1>2, <1>4, <1>5, <2>1, OneStageWritten
    <2> QED BY <1>1, <1>3, <2>1, <2>2, RemovalHolds
  <1>6. CASE RemovalRefused(s) /\ data' = data
    <2>1. /\ spent' \in [Disturbances -> Nat] /\ (Calm' => Calm)
          /\ Calm' /\ kind = "archive" => \E q \in Filling : call[s][q] = "late"
      BY <1>1, <1>6, RefusedRemovals
    <2>2. UNCHANGED files
      BY <1>1, <1>6 DEF files
    <2>3. FilesTyped /\ \A t \in StageIds : FilesKept(t)
      BY <1>2, <2>1, <2>2, NothingWritten
    <2>4. ~(Calm' /\ kind = "archive" /\ \A q \in Filling : call[s][q] # "late")
      BY <2>1
    <2> QED BY <1>1, <1>3, <2>1, <2>3, <2>4, RemovalHolds
  <1> QED BY <1>5, <1>6 DEF RemovesData

LEMMA RemovesMetadataHolds ==
    ASSUME StInv, NEW s \in StageIds, NEW r \in {"abort", "undo"}, RemovesMetadata(s, r)
    PROVE  StInv'
  <1> DEFINE step == IF task[s][r] = "removing" THEN "removing-data" ELSE "done"
  <1>1. /\ task[s][r] \in {"removing", "removing-metadata"} /\ Moves(s, r, step)
        /\ UNCHANGED <<data, old, swept>> /\ OnlyStore
    BY DEF RemovesMetadata
  <1>2. TypeOK /\ Sound(s)
    BY DEF StInv
  <1>3. /\ step \in Steps /\ step \in {"removing-data", "removing-metadata", "done", "failed"}
        /\ step # "failed"
        /\ task[s][r] \in {"removing", "removing-data"} => step = "removing-data"
    BY <1>1 DEF Steps
  <1> HIDE DEF step
  <1>4. /\ meta[s] \in Metadata /\ data[s] \in {Absent} \cup 0 .. Chunks
        /\ data' = [data EXCEPT ![s] = data[s]]
        /\ swept' = swept /\ old' \in {old, old \ {s}}
        /\ NoMetadata \in Metadata /\ NoMetadata.state = "absent"
    BY <1>1, <1>2, StageTypes, StageStoreParameters
       DEF TypeOK, Metadata, NoMetadata, StageStoreParameters
  <1>5. CASE meta' = [meta EXCEPT ![s] = NoMetadata] /\ spent' = spent
    <2>1. spent' \in [Disturbances -> Nat] /\ (Calm' => Calm)
      BY <1>2, <1>5, NothingSpent
    <2>2. /\ FilesTyped /\ data'[s] = data[s] /\ meta'[s] = NoMetadata
          /\ \A t \in StageIds : t # s => FilesKept(t)
      BY <1>2, <1>4, <1>5, <2>1, OneStageWritten
    <2>3. meta'[s].state = "absent"
      BY <1>4, <2>2
    <2> QED BY <1>1, <1>3, <2>1, <2>2, <2>3, RemovalHolds
  <1>6. CASE RemovalRefused(s) /\ meta' = meta
    <2>1. /\ spent' \in [Disturbances -> Nat] /\ (Calm' => Calm)
          /\ Calm' /\ kind = "archive" => \E q \in Filling : call[s][q] = "late"
      BY <1>1, <1>6, RefusedRemovals
    <2>2. UNCHANGED files
      BY <1>1, <1>6 DEF files
    <2>3. FilesTyped /\ \A t \in StageIds : FilesKept(t)
      BY <1>2, <2>1, <2>2, NothingWritten
    <2>4. ~(Calm' /\ kind = "archive" /\ \A q \in Filling : call[s][q] # "late")
      BY <2>1
    <2> QED BY <1>1, <1>3, <2>1, <2>3, <2>4, RemovalHolds
  <1> QED BY <1>5, <1>6 DEF RemovesMetadata

LEMMA NotServedHolds ==
    ASSUME StInv, NEW s \in StageIds, NEW r \in Requests, NotServed(s, r) PROVE StInv'
  <1>1. /\ task[s][r] = FirstStep(r) /\ Moves(s, r, "failed") /\ UNCHANGED files /\ OnlyStore
        /\ Spend(IF r \in Filling THEN "failure" ELSE "abort-failure")
    BY DEF NotServed
  <1>2. TypeOK /\ Sound(s)
    BY DEF StInv
  <1>3. task[s][r] # "none" /\ (r = "begin" => task[s][r] = "pruning")
    BY <1>1, Firsts
  <1>4. CASE r \in Filling
    <2>1. Spend("failure")
      BY <1>1, <1>4
    <2>2. spent' \in [Disturbances -> Nat] /\ (Calm' => Calm)
      BY <1>2, <2>1, Spent DEF Disturbances
    <2>3. r = "begin" /\ client[s] = "beginning" => ~Stored(s)
      BY <1>2, <1>3 DEF Sound, FilesFollow, Gone, Files, Stored
    <2> QED BY <1>1, <1>3, <1>4, <2>2, <2>3, FailureHolds
  <1>5. CASE r \notin Filling
    <2>1. Spend("abort-failure") /\ r \in {"abort", "undo"}
      BY <1>1, <1>5 DEF Requests, Filling
    <2>2. spent' \in [Disturbances -> Nat] /\ ~Calm'
      BY <1>2, <2>1, Spent DEF Disturbances
    <2>3. FilesTyped /\ \A t \in StageIds : FilesKept(t)
      BY <1>1, <1>2, <2>2, NothingWritten
    <2>4. "failed" \in Steps
      BY DEF Steps
    <2> QED BY <1>1, <1>3, <2>1, <2>2, <2>3, <2>4, RemovalHolds
  <1> QED BY <1>4, <1>5

-----------------------------------------------------------------------------
(* Messages between the content script, the worker and the document.       *)

LEMMA OneStageAsked ==
    ASSUME StInv, NEW s \in StageIds, UNCHANGED <<kind, files>>, Calm' => Calm,
           spent' \in [Disturbances -> Nat],
           task' \in [StageIds -> [Requests -> Steps]],
           call' \in [StageIds -> [Requests -> {"none", "waiting", "late"}]],
           client' \in [StageIds -> {"idle", "beginning", "open", "appending", "sealing", "sealed",
                                     "aborting", "over"}],
           acked' \in [StageIds -> 0 .. Chunks],
           \A t \in StageIds : t # s => RequestsKept(t),
           Sound(s)'
    PROVE  StInv'
  <1>1. TypeOK
    BY DEF StInv
  <1>2. UNCHANGED <<data, meta, old, swept, kind>>
    BY DEF files
  <1>3. TypeOK'
    BY <1>1, <1>2 DEF TypeOK
  <1>4. ASSUME NEW t \in StageIds, t # s PROVE Sound(t)'
    <2>1. FilesKept(t) /\ RequestsKept(t) /\ Sound(t) /\ kind' = kind
      BY <1>2, <1>4 DEF FilesKept, StInv
    <2> QED BY <2>1, OthersKept
  <1> QED BY <1>3, <1>4 DEF StInv

\* A content script that waits for nothing asks for something.
LEMMA AsksHolds ==
    ASSUME StInv, NEW s \in StageIds, NEW r \in {"begin", "append", "seal", "abort"},
           NEW c \in {"beginning", "appending", "sealing", "aborting"},
           client' = [client EXCEPT ![s] = c], Send(s, r, task, call),
           UNCHANGED <<kind, files, acked, spent>>,
           \/ client[s] = "idle" /\ r = "begin" /\ c = "beginning"
           \/ client[s] = "open" /\ r = "append" /\ c = "appending" /\ acked[s] < Chunks
           \/ client[s] = "open" /\ r = "seal" /\ c = "sealing" /\ acked[s] = Chunks
           \/ client[s] = "sealed" /\ r = "abort" /\ c = "aborting"
    PROVE  StInv'
  <1>1. TypeOK /\ Sound(s)
    BY DEF StInv
  <1>2. r \in Requests /\ FirstStep(r) \in Steps /\ FirstStep(r) # "none"
            /\ Requests = {"begin", "append", "seal", "abort", "undo"}
            /\ Filling = {"begin", "append", "seal"}
    BY Firsts DEF Requests, Filling
  <1>3. /\ task' = [task EXCEPT ![s][r] = FirstStep(r)]
        /\ call' = [call EXCEPT ![s][r] = "waiting"]
    BY DEF Send
  <1>4. /\ task' \in [StageIds -> [Requests -> Steps]] /\ task'[s][r] = FirstStep(r)
        /\ \A q \in Requests : q # r => task'[s][q] = task[s][q]
        /\ \A t \in StageIds : t # s => task'[t] = task[t]
    BY <1>1, <1>2, <1>3, EntryIsSet DEF TypeOK
  <1>5. /\ call' \in [StageIds -> [Requests -> {"none", "waiting", "late"}]]
        /\ call'[s][r] = "waiting"
        /\ \A q \in Requests : q # r => call'[s][q] = call[s][q]
        /\ \A t \in StageIds : t # s => call'[t] = call[t]
    BY <1>1, <1>2, <1>3, EntryIsSet DEF TypeOK
  <1>6. /\ client' \in [StageIds -> {"idle", "beginning", "open", "appending", "sealing", "sealed",
                                     "aborting", "over"}]
        /\ client'[s] = c /\ \A t \in StageIds : t # s => client'[t] = client[t]
    BY <1>1, OneIsSet DEF TypeOK
  <1>7. UNCHANGED <<kind, data, meta, old, swept, acked>>
    BY DEF files
  <1>8. /\ spent' \in [Disturbances -> Nat] /\ (Calm' => Calm)
    BY <1>1, NothingSpent
  <1>9. \A q \in Requests : task[s][q] = "none" /\ call[s][q] = "none"
    BY <1>1, WhoAwaits DEF Sound, OneRequest, Fills
  <1>10. \A q : Awaits(s, q)' <=> q = r
    BY <1>6 DEF Awaits
  <1>11. OneRequest(s)'
    BY <1>2, <1>4, <1>5, <1>9, <1>10 DEF OneRequest
  <1>12. OwnSteps(s)'
    BY <1>2, <1>4, <1>9, Firsts DEF OwnSteps
  <1>13. Room(s)'
    BY <1>1, <1>2, <1>4, <1>6, <1>7, <1>9 DEF Sound, Room
  <1>14. FilesFollow(s)'
    BY <1>1, <1>2, <1>4, <1>6, <1>7, Firsts DEF Sound, FilesFollow, Unswept, Files, Gone
  <1>15. Cleaned(s)'
    <2>1. LateIsAttended(s)'
      BY <1>2, <1>4, <1>5, <1>6, <1>9, Firsts DEF LateIsAttended, Fills
    <2>2. Removed(s)'
      BY <1>2, <1>4, <1>6, Firsts DEF Removed, Fills
    <2>3. BegunOrGone(s)'
      BY <1>2, <1>4, <1>6, Firsts DEF BegunOrGone
    <2> QED BY <2>1, <2>2, <2>3 DEF Cleaned
  <1>16. acked' \in [StageIds -> 0 .. Chunks] /\ \A t \in StageIds : t # s => RequestsKept(t)
    BY <1>1, <1>4, <1>5, <1>6, <1>7 DEF TypeOK, RequestsKept
  <1> QED BY <1>4, <1>5, <1>6, <1>8, <1>11, <1>12, <1>13, <1>14, <1>15, <1>16, OneStageAsked DEF Sound

LEMMA ClientHolds ==
    ASSUME StInv, NEW s \in StageIds, Client(s) PROVE StInv'
  <1>1. CASE ClientBegins(s)
    BY <1>1, AsksHolds DEF ClientBegins
  <1>2. CASE ClientAppends(s)
    BY <1>2, AsksHolds DEF ClientAppends
  <1>3. CASE ClientSeals(s)
    BY <1>3, AsksHolds DEF ClientSeals
  <1>4. CASE ClientReleases(s)
    BY <1>4, AsksHolds DEF ClientReleases
  <1> QED BY <1>1, <1>2, <1>3, <1>4 DEF Client

\* The answer of one request is there.
LEMMA AnsweredTables ==
    ASSUME TypeOK, NEW s \in StageIds, NEW r \in Requests
    PROVE  /\ Answered(s, r) \in [StageIds -> [Requests -> Steps]]
           /\ Answered(s, r)[s][r] = "none"
           /\ \A q \in Requests : q # r => Answered(s, r)[s][q] = task[s][q]
           /\ \A t \in StageIds : t # s => Answered(s, r)[t] = task[t]
           /\ NotWaiting(s, r) \in [StageIds -> [Requests -> {"none", "waiting", "late"}]]
           /\ NotWaiting(s, r)[s][r] = "none"
           /\ \A q \in Requests : q # r => NotWaiting(s, r)[s][q] = call[s][q]
           /\ \A t \in StageIds : t # s => NotWaiting(s, r)[t] = call[t]
  <1>1. task \in [StageIds -> [Requests -> Steps]] /\ "none" \in Steps
    BY DEF TypeOK, Steps
  <1>2. /\ call \in [StageIds -> [Requests -> {"none", "waiting", "late"}]]
        /\ "none" \in {"none", "waiting", "late"}
    BY DEF TypeOK
  <1>3. Answered(s, r) = [task EXCEPT ![s][r] = "none"]
            /\ NotWaiting(s, r) = [call EXCEPT ![s][r] = "none"]
    BY DEF Answered, NotWaiting
  <1>4. /\ Answered(s, r) \in [StageIds -> [Requests -> Steps]]
        /\ Answered(s, r)[s][r] = "none"
        /\ \A q \in Requests : q # r => Answered(s, r)[s][q] = task[s][q]
        /\ \A t \in StageIds : t # s => Answered(s, r)[t] = task[t]
    BY <1>1, <1>3, EntryIsSet
  <1>5. /\ NotWaiting(s, r) \in [StageIds -> [Requests -> {"none", "waiting", "late"}]]
        /\ NotWaiting(s, r)[s][r] = "none"
        /\ \A q \in Requests : q # r => NotWaiting(s, r)[s][q] = call[s][q]
        /\ \A t \in StageIds : t # s => NotWaiting(s, r)[t] = call[t]
    BY <1>2, <1>3, EntryIsSet
  <1> QED BY <1>4, <1>5

LEMMA SucceedsHolds ==
    ASSUME StInv, NEW s \in StageIds, NEW r \in Requests, task[s][r] = "done", Awaits(s, r),
           Succeeds(s, r), task' = Answered(s, r), call' = NotWaiting(s, r),
           UNCHANGED <<kind, files, spent>>
    PROVE  StInv'
  <1>1. TypeOK /\ Sound(s)
    BY DEF StInv
  <1>2. Requests = {"begin", "append", "seal", "abort", "undo"}
            /\ Filling = {"begin", "append", "seal"}
    BY DEF Requests, Filling
  <1>3. /\ task' \in [StageIds -> [Requests -> Steps]] /\ task'[s][r] = "none"
        /\ \A q \in Requests : q # r => task'[s][q] = task[s][q]
        /\ \A t \in StageIds : t # s => task'[t] = task[t]
        /\ call' \in [StageIds -> [Requests -> {"none", "waiting", "late"}]]
        /\ call'[s][r] = "none"
        /\ \A q \in Requests : q # r => call'[s][q] = call[s][q]
        /\ \A t \in StageIds : t # s => call'[t] = call[t]
    BY <1>1, AnsweredTables
  <1>4. PICK c \in {"open", "sealed", "over"} :
            /\ client' = [client EXCEPT ![s] = c]
            /\ \/ client[s] = "beginning" /\ r = "begin" /\ c = "open"
               \/ client[s] = "appending" /\ r = "append" /\ c = "open"
               \/ client[s] = "sealing" /\ r = "seal" /\ c = "sealed"
               \/ client[s] = "aborting" /\ r = "abort" /\ c = "over"
    BY WhoAwaits DEF Succeeds
  <1>5. /\ client' \in [StageIds -> {"idle", "beginning", "open", "appending", "sealing", "sealed",
                                     "aborting", "over"}]
        /\ client'[s] = c /\ \A t \in StageIds : t # s => client'[t] = client[t]
    BY <1>1, <1>4, OneIsSet DEF TypeOK
  <1>6. acked[s] \in 0 .. Chunks /\ (r = "append" => acked[s] < Chunks)
    BY <1>1, StageTypes DEF Sound, Room
  <1> DEFINE n == IF r = "append" THEN acked[s] + 1 ELSE acked[s]
  <1>7. n \in 0 .. Chunks
    BY <1>6, StageStoreParameters DEF StageStoreParameters
  <1>8. acked' = [acked EXCEPT ![s] = n]
    BY DEF Succeeds
  <1>9. /\ acked' \in [StageIds -> 0 .. Chunks] /\ acked'[s] = n
        /\ \A t \in StageIds : t # s => acked'[t] = acked[t]
    <2> HIDE DEF n
    <2> QED BY <1>1, <1>7, <1>8, OneIsSet DEF TypeOK
  <1>10. UNCHANGED <<kind, data, meta, old, swept>>
    BY DEF files
  <1>11. /\ spent' \in [Disturbances -> Nat] /\ (Calm' => Calm)
    BY <1>1, NothingSpent
  <1>12. r # "abort" => \A q \in Requests : q # r => task[s][q] = "none" /\ call[s][q] = "none"
    BY <1>1, <1>4, WhoAwaits DEF Sound, OneRequest, Fills
  <1>13. OneRequest(s)'
    BY <1>3, <1>4, <1>5, <1>12 DEF OneRequest, Fills, Awaits
  <1>14. OwnSteps(s)'
    <2>1. \A q \in Requests : task'[s][q] \in {"none", task[s][q]}
      BY <1>3
    <2> QED BY <1>1, <1>2, <1>10, <2>1 DEF Sound, OwnSteps
  <1>15. Room(s)'
    <2>1. CASE r = "append"
      BY <1>2, <1>3, <1>4, <1>5, <2>1 DEF Room
    <2>2. CASE r # "append"
      BY <1>1, <1>2, <1>3, <1>4, <1>5, <1>9, <2>2 DEF Sound, Room
    <2> QED BY <2>1, <2>2
  <1>16. FilesFollow(s)'
    <2>1. CASE r = "begin"
      BY <1>1, <1>4, <1>5, <1>9, <1>10, <2>1 DEF Sound, Room, FilesFollow, Unswept, Files
    <2>2. CASE r = "append"
      BY <1>1, <1>4, <1>5, <1>9, <1>10, <2>2 DEF Sound, FilesFollow, Unswept, Files
    <2>3. CASE r = "seal"
      <3>1. Sealed' = Sealed
        BY <1>10 DEF Sealed
      <3> QED BY <1>1, <1>4, <1>5, <1>10, <2>3, <3>1 DEF Sound, FilesFollow, Unswept, Files
    <2>4. CASE r = "abort"
      BY <1>4, <1>5, <2>4 DEF FilesFollow, Unswept
    <2> QED BY <1>4, <2>1, <2>2, <2>3, <2>4
  <1>17. Cleaned(s)'
    <2> SUFFICES ASSUME Calm', kind = "archive"
                 PROVE  LateIsAttended(s)' /\ Removed(s)' /\ BegunOrGone(s)'
      BY <1>10 DEF Cleaned
    <2>1. LateIsAttended(s) /\ Removed(s)
      BY <1>1, <1>11 DEF Sound, Cleaned
    <2>2. LateIsAttended(s)'
      BY <1>2, <1>3, <1>4, <1>5, <2>1 DEF LateIsAttended, Fills
    <2>3. Removed(s)'
      <3>1. CASE c = "over"
        <4>1. ~Fills(s) /\ \A q \in Filling : call'[s][q] = call[s][q]
          BY <1>2, <1>3, <1>4, <3>1 DEF Fills
        <4>2. \A q \in {"abort", "undo"} :
                task[s][q] \in {"removing", "removing-data", "removing-metadata"} =>
                    task'[s][q] = task[s][q]
          BY <1>2, <1>3
        <4> QED BY <1>10, <2>1, <4>1, <4>2 DEF Removed
      <3>2. CASE c # "over"
        BY <1>4, <1>5, <3>2 DEF Removed, Fills
      <3> QED BY <3>1, <3>2
    <2>4. BegunOrGone(s)'
      BY <1>4, <1>5 DEF BegunOrGone
    <2> QED BY <2>2, <2>3, <2>4
  <1>18. \A t \in StageIds : t # s => RequestsKept(t)
    BY <1>3, <1>5, <1>9 DEF RequestsKept
  <1>19. UNCHANGED <<kind, files>>
    OBVIOUS
  <1> QED BY <1>3, <1>5, <1>9, <1>11, <1>13, <1>14, <1>15, <1>16, <1>17, <1>18, <1>19, OneStageAsked DEF Sound

\* A request that failed, or for which the time is over, and the abort that follows.
FailedTables(s, r) ==
    /\ task' \in [StageIds -> [Requests -> Steps]]
    /\ call' \in [StageIds -> [Requests -> {"none", "waiting", "late"}]]
    /\ \A t \in StageIds : t # s => task'[t] = task[t] /\ call'[t] = call[t]
    /\ \A q \in Requests \ {r} :
        IF AbortsAfter(r) /\ q = "abort"
        THEN task'[s][q] = "removing" /\ call'[s][q] = "waiting"
        ELSE task'[s][q] = task[s][q] /\ call'[s][q] = call[s][q]
    /\ \/ task[s][r] = "failed" /\ task'[s][r] = "none" /\ call'[s][r] = "none"
       \/ task'[s][r] = task[s][r] /\ call'[s][r] = "late" /\ (Calm' => r \in Filling)

LEMMA FailsHolds ==
    ASSUME StInv, NEW s \in StageIds, NEW r \in Requests, Awaits(s, r), call[s][r] = "waiting",
           client' = [client EXCEPT ![s] = IF AbortsAfter(r) THEN "aborting" ELSE "over"],
           FailedTables(s, r), UNCHANGED <<kind, files, acked>>,
           spent' \in [Disturbances -> Nat], Calm' => Calm
    PROVE  StInv'
  <1>1. TypeOK /\ Sound(s)
    BY DEF StInv
  <1>2. Requests = {"begin", "append", "seal", "abort", "undo"}
            /\ Filling = {"begin", "append", "seal"}
    BY DEF Requests, Filling
  <1>3. \/ client[s] = "beginning" /\ r = "begin"
        \/ client[s] = "appending" /\ r = "append"
        \/ client[s] = "sealing" /\ r = "seal"
        \/ client[s] = "aborting" /\ r = "abort"
    BY WhoAwaits
  <1>4. r = "abort" => ~AbortsAfter(r)
    BY DEF AbortsAfter, ClientAborts
  <1>5. CASE ~AbortsAfter(r)
    <2>1. /\ client' = [client EXCEPT ![s] = "over"]
          /\ \A q \in Requests : q # r => task'[s][q] = task[s][q] /\ call'[s][q] = call[s][q]
      BY <1>5 DEF FailedTables
    <2>2. /\ client' \in [StageIds -> {"idle", "beginning", "open", "appending", "sealing", "sealed",
                                       "aborting", "over"}]
          /\ client'[s] = "over" /\ \A t \in StageIds : t # s => client'[t] = client[t]
      BY <1>1, <2>1, OneIsSet DEF TypeOK
    <2>3. OneRequest(s)' /\ FilesFollow(s)'
      BY <2>2 DEF OneRequest, Fills, FilesFollow, Unswept
    <2>4. OwnSteps(s)'
      <3>1. \A q \in Requests : task'[s][q] \in {"none", task[s][q]}
        BY <2>1 DEF FailedTables
      <3> QED BY <1>1, <1>2, <3>1 DEF Sound, OwnSteps
    <2>5. Room(s)'
      <3>1. task'[s]["append"] # "none" => task[s]["append"] # "none"
        BY <1>2, <2>1 DEF FailedTables
      <3> QED BY <1>1, <2>2, <3>1 DEF Sound, Room
    <2>6. Cleaned(s)'
      <3> SUFFICES ASSUME Calm', kind = "archive"
                   PROVE  LateIsAttended(s)' /\ Removed(s)' /\ BegunOrGone(s)'
        BY DEF Cleaned
      <3>1. LateIsAttended(s) /\ Removed(s) /\ BegunOrGone(s)
        BY <1>1 DEF Sound, Cleaned
      <3>2. r = "begin" /\ client[s] = "beginning"
        \* An archive stage is aborted after any other request but the abort,
        \* and that one neither fails nor is late.
        <4>1. r # "abort"
          BY <1>2, <3>1 DEF LateIsAttended, FailedTables
        <4>2. AbortsAfter("append") /\ AbortsAfter("seal")
          BY DEF AbortsAfter, ClientAborts
        <4> QED BY <1>3, <1>5, <4>1, <4>2
      <3>3. \A q \in Requests : q # r => task[s][q] = "none" /\ call[s][q] = "none"
        BY <1>1, <3>2, WhoAwaits DEF Sound, OneRequest, Fills
      <3>4. LateIsAttended(s)'
        BY <1>2, <2>1, <3>2, <3>3 DEF LateIsAttended, FailedTables
      <3>5. Removed(s)'
        <4>1. CASE task[s][r] = "failed"
          <5>1. ~Stored(s)
            BY <3>1, <3>2, <4>1 DEF BegunOrGone
          <5> QED BY <5>1 DEF Removed, Stored, files
        <4>2. CASE call'[s][r] = "late"
          BY <1>2, <3>2, <4>2 DEF Removed
        <4> QED BY <4>1, <4>2 DEF FailedTables
      <3>6. BegunOrGone(s)'
        BY <2>2 DEF BegunOrGone
      <3> QED BY <3>4, <3>5, <3>6
    <2>7. \A t \in StageIds : t # s => RequestsKept(t)
      BY <2>2 DEF RequestsKept, FailedTables
    <2>8. /\ acked' \in [StageIds -> 0 .. Chunks] /\ UNCHANGED <<kind, files>>
          /\ task' \in [StageIds -> [Requests -> Steps]]
          /\ call' \in [StageIds -> [Requests -> {"none", "waiting", "late"}]]
      BY <1>1 DEF TypeOK, FailedTables
    <2> QED BY <2>2, <2>3, <2>4, <2>5, <2>6, <2>7, <2>8, OneStageAsked DEF Sound
  <1>6. CASE AbortsAfter(r)
    <2>1. client' = [client EXCEPT ![s] = "aborting"] /\ r # "abort"
      BY <1>4, <1>6
    <2>2. /\ client' \in [StageIds -> {"idle", "beginning", "open", "appending", "sealing", "sealed",
                                       "aborting", "over"}]
          /\ client'[s] = "aborting" /\ \A t \in StageIds : t # s => client'[t] = client[t]
      BY <1>1, <2>1, OneIsSet DEF TypeOK
    <2>3. /\ task'[s]["abort"] = "removing" /\ call'[s]["abort"] = "waiting"
          /\ \A q \in Requests : q \notin {"abort", r} =>
                task'[s][q] = task[s][q] /\ call'[s][q] = call[s][q]
      BY <1>2, <1>6, <2>1 DEF FailedTables
    <2>5. OneRequest(s)' /\ FilesFollow(s)'
      BY <2>2 DEF OneRequest, Fills, FilesFollow, Unswept
    <2>6. \A q \in Requests : q # "abort" => task'[s][q] \in {"none", task[s][q]}
      BY <2>3 DEF FailedTables
    <2>7. OwnSteps(s)'
      BY <1>1, <1>2, <2>3, <2>6 DEF Sound, OwnSteps
    <2>8. Room(s)'
      BY <1>1, <1>2, <2>2, <2>6 DEF Sound, Room
    <2>9. Cleaned(s)'
      <3>1. r # "abort" /\ r # "undo" /\ r \in Filling
        BY <1>2, <1>3, <1>4, <1>6
      <3>2. \A q \in Requests : q # r => task[s][q] = "none" /\ call[s][q] = "none"
        BY <1>1, <1>3, <3>1, WhoAwaits DEF Sound, OneRequest, Fills
      <3>3. \A q \in Requests : q \notin {"abort", r} => task'[s][q] = "none" /\ call'[s][q] = "none"
        BY <2>3, <3>2
      <3>4. /\ task'[s][r] # "none" => call'[s][r] = "late"
            /\ call'[s][r] # "waiting"
        BY DEF FailedTables
      <3>5. LateIsAttended(s)'
        BY <1>2, <2>3, <3>1, <3>3, <3>4 DEF LateIsAttended
      <3>6. Removed(s)'
        BY <2>3 DEF Removed
      <3>7. BegunOrGone(s)'
        BY <2>2 DEF BegunOrGone
      <3> QED BY <3>5, <3>6, <3>7 DEF Cleaned
    <2>10. \A t \in StageIds : t # s => RequestsKept(t)
      BY <2>2 DEF RequestsKept, FailedTables
    <2>11. /\ acked' \in [StageIds -> 0 .. Chunks] /\ UNCHANGED <<kind, files>>
           /\ task' \in [StageIds -> [Requests -> Steps]]
           /\ call' \in [StageIds -> [Requests -> {"none", "waiting", "late"}]]
      BY <1>1 DEF TypeOK, FailedTables
    <2> QED BY <2>2, <2>5, <2>7, <2>8, <2>9, <2>10, <2>11, OneStageAsked DEF Sound
  <1> QED BY <1>5, <1>6

\* A late answer is attended to.
LEMMA UndoHolds ==
    ASSUME StInv, NEW s \in StageIds, NEW r \in Filling,
           call[s][r] = "late", kind = "archive",
           Send(s, "undo", Answered(s, r), NotWaiting(s, r)),
           UNCHANGED <<client, acked, kind, files, spent>>
    PROVE  StInv'
  <1>1. TypeOK /\ Sound(s)
    BY DEF StInv
  <1>2. Requests = {"begin", "append", "seal", "abort", "undo"}
            /\ Filling = {"begin", "append", "seal"}
            /\ "removing" \in Steps /\ "none" \in {"none", "waiting", "late"}
            /\ "waiting" \in {"none", "waiting", "late"}
    BY DEF Requests, Filling, Steps
  <1> DEFINE tasks == Answered(s, r)
  <1> DEFINE calls == NotWaiting(s, r)
  <1>3. /\ tasks \in [StageIds -> [Requests -> Steps]] /\ tasks[s][r] = "none"
        /\ \A q \in Requests : q # r => tasks[s][q] = task[s][q]
        /\ \A t \in StageIds : t # s => tasks[t] = task[t]
        /\ calls \in [StageIds -> [Requests -> {"none", "waiting", "late"}]]
        /\ calls[s][r] = "none"
        /\ \A q \in Requests : q # r => calls[s][q] = call[s][q]
        /\ \A t \in StageIds : t # s => calls[t] = call[t]
    <2>1. r \in Requests
      BY <1>2
    <2> QED BY <1>1, <2>1, AnsweredTables
  <1>4. /\ task' = [tasks EXCEPT ![s]["undo"] = "removing"]
        /\ call' = [calls EXCEPT ![s]["undo"] = "waiting"]
    BY Firsts DEF Send
  <1> HIDE DEF tasks, calls
  <1>5. /\ task' \in [StageIds -> [Requests -> Steps]] /\ task'[s]["undo"] = "removing"
        /\ \A q \in Requests : q # "undo" => task'[s][q] = tasks[s][q]
        /\ \A t \in StageIds : t # s => task'[t] = tasks[t]
    BY <1>2, <1>3, <1>4, EntryIsSet
  <1>6. /\ call' \in [StageIds -> [Requests -> {"none", "waiting", "late"}]]
        /\ call'[s]["undo"] = "waiting"
        /\ \A q \in Requests : q # "undo" => call'[s][q] = calls[s][q]
        /\ \A t \in StageIds : t # s => call'[t] = calls[t]
    BY <1>2, <1>3, <1>4, EntryIsSet
  <1>7. ~Fills(s)
    BY <1>1, <1>2 DEF Sound, OneRequest
  <1>8. ~Fills(s)'
    BY <1>7 DEF Fills
  <1>9. \A q \in Requests : q # "undo" => task'[s][q] \in {"none", task[s][q]}
    BY <1>3, <1>5
  <1>10. OneRequest(s)' /\ FilesFollow(s)'
    BY <1>8 DEF OneRequest, Fills, FilesFollow, Unswept
  <1>11. OwnSteps(s)'
    BY <1>1, <1>2, <1>5, <1>9 DEF Sound, OwnSteps
  <1>12. Room(s)'
    BY <1>1, <1>2, <1>9 DEF Sound, Room
  <1>13. Cleaned(s)'
    <2> SUFFICES ASSUME Calm' PROVE LateIsAttended(s)' /\ Removed(s)' /\ BegunOrGone(s)'
      BY DEF Cleaned
    <2>1. LateIsAttended(s)
      BY <1>1, NothingSpent DEF Sound, Cleaned
    <2>2. LateIsAttended(s)'
      BY <1>2, <1>3, <1>5, <1>6, <1>7, <2>1 DEF LateIsAttended, Fills
    <2>3. Removed(s)'
      BY <1>5 DEF Removed
    <2>4. BegunOrGone(s)'
      BY <1>7 DEF BegunOrGone, Fills
    <2> QED BY <2>2, <2>3, <2>4
  <1>14. \A t \in StageIds : t # s => RequestsKept(t)
    BY <1>3, <1>5, <1>6 DEF RequestsKept
  <1>15. /\ spent' \in [Disturbances -> Nat] /\ (Calm' => Calm)
         /\ acked' \in [StageIds -> 0 .. Chunks]
         /\ client' \in [StageIds -> {"idle", "beginning", "open", "appending", "sealing", "sealed",
                                      "aborting", "over"}]
         /\ UNCHANGED <<kind, files>>
    BY <1>1, NothingSpent DEF TypeOK
  <1> QED BY <1>5, <1>6, <1>10, <1>11, <1>12, <1>13, <1>14, <1>15, OneStageAsked DEF Sound

\* Nobody minds an answer.
LEMMA DroppedHolds ==
    ASSUME StInv, NEW s \in StageIds, NEW r \in Requests, task[s][r] \in {"done", "failed"},
           ~(call[s][r] = "late" /\ AttendsToLate(r)),
           ~(call[s][r] = "waiting" /\ Awaits(s, r)),
           task' = Answered(s, r), call' = NotWaiting(s, r),
           UNCHANGED <<client, acked, kind, files, spent>>
    PROVE  StInv'
  <1>1. TypeOK /\ Sound(s)
    BY DEF StInv
  <1>2. Requests = {"begin", "append", "seal", "abort", "undo"}
            /\ Filling = {"begin", "append", "seal"} /\ "none" \in {"none", "waiting", "late"}
    BY DEF Requests, Filling
  <1>3. /\ task' \in [StageIds -> [Requests -> Steps]] /\ task'[s][r] = "none"
        /\ \A q \in Requests : q # r => task'[s][q] = task[s][q]
        /\ \A t \in StageIds : t # s => task'[t] = task[t]
        /\ call' \in [StageIds -> [Requests -> {"none", "waiting", "late"}]]
        /\ call'[s][r] = "none"
        /\ \A q \in Requests : q # r => call'[s][q] = call[s][q]
        /\ \A t \in StageIds : t # s => call'[t] = call[t]
    BY <1>1, AnsweredTables
  <1>4. ~Fills(s)
    BY <1>1 DEF Sound, OneRequest
  <1>5. ~Fills(s)'
    BY <1>4 DEF Fills
  <1>6. \A q \in Requests : task'[s][q] \in {"none", task[s][q]}
    BY <1>3
  <1>7. OneRequest(s)' /\ FilesFollow(s)'
    BY <1>5 DEF OneRequest, Fills, FilesFollow, Unswept
  <1>8. OwnSteps(s)'
    BY <1>1, <1>2, <1>6 DEF Sound, OwnSteps
  <1>9. Room(s)'
    BY <1>1, <1>2, <1>6 DEF Sound, Room
  <1>10. Cleaned(s)'
    <2> SUFFICES ASSUME Calm', kind = "archive"
                 PROVE  LateIsAttended(s)' /\ Removed(s)' /\ BegunOrGone(s)'
      BY DEF Cleaned
    <2>1. LateIsAttended(s) /\ Removed(s)
      BY <1>1, NothingSpent DEF Sound, Cleaned
    <2>2. r \notin Filling
      BY <1>4, <2>1 DEF LateIsAttended, AttendsToLate
    <2>3. LateIsAttended(s)'
      BY <1>2, <1>3, <1>4, <2>1 DEF LateIsAttended, Fills
    <2>4. Removed(s)'
      <3>1. \A q \in Filling : call'[s][q] = call[s][q]
        BY <1>2, <1>3, <2>2
      <3>2. \A q \in {"abort", "undo"} :
              task[s][q] \in {"removing", "removing-data", "removing-metadata"} =>
                  task'[s][q] = task[s][q]
        BY <1>2, <1>3
      <3> QED BY <1>4, <2>1, <3>1, <3>2 DEF Removed, files
    <2>5. BegunOrGone(s)'
      BY <1>4 DEF BegunOrGone, Fills
    <2> QED BY <2>3, <2>4, <2>5
  <1>11. \A t \in StageIds : t # s => RequestsKept(t)
    BY <1>3 DEF RequestsKept
  <1>12. /\ spent' \in [Disturbances -> Nat] /\ (Calm' => Calm)
         /\ acked' \in [StageIds -> 0 .. Chunks]
         /\ client' \in [StageIds -> {"idle", "beginning", "open", "appending", "sealing", "sealed",
                                      "aborting", "over"}]
         /\ UNCHANGED <<kind, files>>
    BY <1>1, NothingSpent DEF TypeOK
  <1> QED BY <1>3, <1>7, <1>8, <1>9, <1>10, <1>11, <1>12, OneStageAsked DEF Sound

\* The abort is sent on top of what was there.
FailedBy(s, tasks, calls) ==
    /\ task' \in [StageIds -> [Requests -> Steps]] /\ task'[s]["abort"] = "removing"
    /\ \A q \in Requests : q # "abort" => task'[s][q] = tasks[s][q]
    /\ \A t \in StageIds : t # s => task'[t] = tasks[t]
    /\ call' \in [StageIds -> [Requests -> {"none", "waiting", "late"}]]
    /\ call'[s]["abort"] = "waiting"
    /\ \A q \in Requests : q # "abort" => call'[s][q] = calls[s][q]
    /\ \A t \in StageIds : t # s => call'[t] = calls[t]

LEMMA FailedByAbort ==
    ASSUME NEW s \in StageIds, NEW tasks \in [StageIds -> [Requests -> Steps]],
           NEW calls \in [StageIds -> [Requests -> {"none", "waiting", "late"}]],
           task' = [tasks EXCEPT ![s]["abort"] = "removing"],
           call' = [calls EXCEPT ![s]["abort"] = "waiting"]
    PROVE  FailedBy(s, tasks, calls)
  <1>1. "abort" \in Requests /\ "removing" \in Steps
            /\ "waiting" \in {"none", "waiting", "late"}
    BY DEF Requests, Steps
  <1>2. /\ task' \in [StageIds -> [Requests -> Steps]] /\ task'[s]["abort"] = "removing"
        /\ \A q \in Requests : q # "abort" => task'[s][q] = tasks[s][q]
        /\ \A t \in StageIds : t # s => task'[t] = tasks[t]
    BY <1>1, EntryIsSet
  <1>3. /\ call' \in [StageIds -> [Requests -> {"none", "waiting", "late"}]]
        /\ call'[s]["abort"] = "waiting"
        /\ \A q \in Requests : q # "abort" => call'[s][q] = calls[s][q]
        /\ \A t \in StageIds : t # s => call'[t] = calls[t]
    BY <1>1, EntryIsSet
  <1> QED BY <1>2, <1>3 DEF FailedBy

LEMMA AnswersHolds ==
    ASSUME StInv, NEW s \in StageIds, NEW r \in Requests, Answers(s, r) PROVE StInv'
  <1>1. /\ task[s][r] \in {"done", "failed"} /\ UNCHANGED <<kind, files, spent>> /\ TypeOK
    BY DEF Answers, StInv
  <1>2. spent' \in [Disturbances -> Nat] /\ (Calm' => Calm)
    BY <1>1, NothingSpent
  <1>3. CASE call[s][r] = "waiting" /\ Awaits(s, r) /\ task[s][r] = "done"
                /\ Succeeds(s, r) /\ task' = Answered(s, r) /\ call' = NotWaiting(s, r)
    BY <1>1, <1>3, SucceedsHolds
  <1>4. CASE call[s][r] = "waiting" /\ Awaits(s, r) /\ task[s][r] = "failed"
                /\ Fails(s, r, Answered(s, r), NotWaiting(s, r))
    <2>1. PICK tasks, calls : tasks = Answered(s, r) /\ calls = NotWaiting(s, r)
      OBVIOUS
    <2>2. /\ tasks \in [StageIds -> [Requests -> Steps]] /\ tasks[s][r] = "none"
          /\ \A q \in Requests : q # r => tasks[s][q] = task[s][q]
          /\ \A t \in StageIds : t # s => tasks[t] = task[t]
          /\ calls \in [StageIds -> [Requests -> {"none", "waiting", "late"}]]
          /\ calls[s][r] = "none"
          /\ \A q \in Requests : q # r => calls[s][q] = call[s][q]
          /\ \A t \in StageIds : t # s => calls[t] = call[t]
      BY <1>1, <2>1, AnsweredTables
    <2>3. FailedTables(s, r)
      <3>1. CASE AbortsAfter(r)
        <4>1. /\ task' = [tasks EXCEPT ![s]["abort"] = "removing"]
              /\ call' = [calls EXCEPT ![s]["abort"] = "waiting"]
          BY <1>4, <2>1, <3>1, Firsts DEF Fails, Send
        <4>2. FailedBy(s, tasks, calls)
          BY <2>2, <4>1, FailedByAbort
        <4>3. r # "abort"
          BY <3>1 DEF AbortsAfter, ClientAborts
        <4> QED BY <1>4, <2>2, <3>1, <4>2, <4>3 DEF FailedTables, FailedBy
      <3>2. CASE ~AbortsAfter(r)
        <4>1. task' = tasks /\ call' = calls
          BY <1>4, <2>1, <3>2 DEF Fails
        <4> QED BY <1>4, <2>2, <3>2, <4>1 DEF FailedTables
      <3> QED BY <3>1, <3>2
    <2>4. /\ client' = [client EXCEPT ![s] = IF AbortsAfter(r) THEN "aborting" ELSE "over"]
          /\ UNCHANGED acked
      BY <1>4 DEF Fails
    <2> QED BY <1>1, <1>2, <1>4, <2>3, <2>4, FailsHolds
  <1>5. CASE call[s][r] = "late" /\ AttendsToLate(r) /\ UNCHANGED <<client, acked>>
                /\ Send(s, "undo", Answered(s, r), NotWaiting(s, r))
    BY <1>1, <1>5, UndoHolds DEF AttendsToLate
  <1>6. CASE /\ \/ call[s][r] = "none"
                \/ call[s][r] = "late" /\ ~AttendsToLate(r)
                \/ call[s][r] = "waiting" /\ ~Awaits(s, r)
             /\ task' = Answered(s, r) /\ call' = NotWaiting(s, r)
             /\ UNCHANGED <<client, acked>>
    BY <1>1, <1>6, DroppedHolds
  <1> QED BY <1>1, <1>3, <1>4, <1>5, <1>6 DEF Answers

LEMMA TimesOutHolds ==
    ASSUME StInv, NEW s \in StageIds, NEW r \in Requests, TimesOut(s, r) PROVE StInv'
  <1>1. /\ TypeOK /\ Sound(s)
        /\ call[s][r] = "waiting" /\ UNCHANGED <<kind, files>>
        /\ Spend(IF r \in Filling THEN "timeout" ELSE "abort-timeout")
    BY DEF StInv, TimesOut
  <1>2. /\ spent' \in [Disturbances -> Nat] /\ (Calm' => Calm)
        /\ Calm' => r \in Filling
    <2>1. {"timeout", "abort-timeout"} \subseteq Disturbances
      BY DEF Disturbances
    <2>2. CASE r \in Filling
      BY <1>1, <2>1, <2>2, Spent
    <2>3. CASE r \notin Filling
      BY <1>1, <2>1, <2>3, Spent
    <2> QED BY <2>2, <2>3
  <1> PICK calls : calls = [call EXCEPT ![s][r] = "late"]
    OBVIOUS
  <1>3. /\ calls \in [StageIds -> [Requests -> {"none", "waiting", "late"}]]
        /\ calls[s][r] = "late"
        /\ \A q \in Requests : q # r => calls[s][q] = call[s][q]
        /\ \A t \in StageIds : t # s => calls[t] = call[t]
    <2>1. /\ call \in [StageIds -> [Requests -> {"none", "waiting", "late"}]]
          /\ "late" \in {"none", "waiting", "late"}
      BY <1>1 DEF TypeOK
    <2> QED BY <2>1, EntryIsSet
  <1>4. task \in [StageIds -> [Requests -> Steps]]
    BY <1>1 DEF TypeOK
  <1>5. CASE Awaits(s, r)
    <2>1. FailedTables(s, r)
      <3>1. CASE AbortsAfter(r)
        <4>1. /\ task' = [task EXCEPT ![s]["abort"] = "removing"]
              /\ call' = [calls EXCEPT ![s]["abort"] = "waiting"]
          BY <1>5, <3>1, Firsts DEF TimesOut, Fails, Send
        <4>2. FailedBy(s, task, calls)
          BY <1>3, <1>4, <4>1, FailedByAbort
        <4>3. r # "abort"
          BY <3>1 DEF AbortsAfter, ClientAborts
        <4> QED BY <1>2, <1>3, <3>1, <4>2, <4>3 DEF FailedTables, FailedBy
      <3>2. CASE ~AbortsAfter(r)
        <4>1. task' = task /\ call' = calls
          BY <1>5, <3>2 DEF TimesOut, Fails
        <4> QED BY <1>2, <1>3, <1>4, <3>2, <4>1 DEF FailedTables
      <3> QED BY <3>1, <3>2
    <2>2. /\ client' = [client EXCEPT ![s] = IF AbortsAfter(r) THEN "aborting" ELSE "over"]
          /\ UNCHANGED acked
      BY <1>5 DEF TimesOut, Fails
    <2> QED BY <1>1, <1>2, <1>5, <2>1, <2>2, FailsHolds
  <1>6. CASE ~Awaits(s, r)
    <2>1. call' = calls /\ UNCHANGED <<task, client, acked>>
      BY <1>6 DEF TimesOut
    <2>2. /\ call' \in [StageIds -> [Requests -> {"none", "waiting", "late"}]]
          /\ call'[s][r] = "late"
          /\ \A q \in Requests : q # r => call'[s][q] = call[s][q]
          /\ \A t \in StageIds : t # s => call'[t] = call[t]
      BY <1>3, <2>1
    <2>3. ~Fills(s) /\ ~Fills(s)'
      BY <1>1, <1>6, <2>1 DEF Sound, OneRequest, Fills
    <2>4. OneRequest(s)' /\ FilesFollow(s)'
      BY <2>3 DEF OneRequest, Fills, FilesFollow, Unswept
    <2>5. OwnSteps(s)' /\ Room(s)'
      BY <1>1, <2>1 DEF Sound, OwnSteps, Room
    <2>6. Cleaned(s)'
      \* An archive stage nobody fills has no call of its filling to wait for.
      <3>1. ~(Calm' /\ kind' = "archive")
        BY <1>1, <1>2, <2>3 DEF Sound, Cleaned, LateIsAttended
      <3> QED BY <3>1 DEF Cleaned
    <2>7. \A t \in StageIds : t # s => RequestsKept(t)
      BY <2>1, <2>2 DEF RequestsKept
    <2>8. /\ task' \in [StageIds -> [Requests -> Steps]] /\ acked' \in [StageIds -> 0 .. Chunks]
          /\ client' \in [StageIds -> {"idle", "beginning", "open", "appending", "sealing",
                                       "sealed", "aborting", "over"}]
      BY <1>1, <2>1 DEF TypeOK
    <2> QED BY <1>1, <1>2, <2>2, <2>4, <2>5, <2>6, <2>7, <2>8, OneStageAsked DEF Sound
  <1> QED BY <1>5, <1>6

-----------------------------------------------------------------------------
(* Losses, and time.                                                       *)

\* A stage its content script does not fill any more: some of its requests are
\* forgotten, and its abort may be sent.
Forsaken(s) ==
    /\ ~Fills(s)'
    /\ \A q \in Requests :
        \/ task'[s][q] \in {"none", task[s][q]}
        \/ q \in {"abort", "undo"} /\ task'[s][q] = "removing"

LEMMA ForsakenIsSound ==
    ASSUME NEW s \in StageIds, Sound(s), Forsaken(s), UNCHANGED <<kind, acked>>, Cleaned(s)'
    PROVE  Sound(s)'
  <1>1. {"begin", "append", "seal", "abort", "undo"} \subseteq Requests
    BY DEF Requests
  <1>2. OneRequest(s)' /\ FilesFollow(s)'
    BY DEF Forsaken, OneRequest, Fills, FilesFollow, Unswept
  <1>3. OwnSteps(s)'
    BY <1>1 DEF Sound, OwnSteps, Forsaken
  <1>4. Room(s)'
    BY <1>1 DEF Sound, Room, Forsaken, Fills
  <1> QED BY <1>2, <1>3, <1>4 DEF Sound

LEMMA LossHolds ==
    ASSUME StInv, UNCHANGED <<kind, files, acked>>, Calm' => Calm,
           spent' \in [Disturbances -> Nat],
           task' \in [StageIds -> [Requests -> Steps]],
           call' \in [StageIds -> [Requests -> {"none", "waiting", "late"}]],
           client' \in [StageIds -> {"idle", "beginning", "open", "appending", "sealing", "sealed",
                                     "aborting", "over"}],
           \A s \in StageIds : RequestsKept(s) \/ (Forsaken(s) /\ Cleaned(s)')
    PROVE  StInv'
  <1>1. TypeOK /\ UNCHANGED <<data, meta, old, swept, kind, acked>>
    BY DEF files, StInv
  <1>2. TypeOK'
    BY <1>1 DEF TypeOK
  <1>3. ASSUME NEW s \in StageIds PROVE Sound(s)'
    <2>1. Sound(s) /\ FilesKept(s)
      BY <1>1 DEF StInv, FilesKept
    <2>2. CASE RequestsKept(s)
      BY <1>1, <2>1, <2>2, OthersKept
    <2>3. CASE Forsaken(s) /\ Cleaned(s)'
      BY <1>1, <2>1, <2>3, ForsakenIsSound
    <2> QED BY <2>2, <2>3
  <1> QED BY <1>2, <1>3 DEF StInv

LEMMA TabClosesHolds ==
    ASSUME StInv, NEW s \in StageIds, TabCloses(s) PROVE StInv'
  <1>1. /\ TypeOK /\ Spend("tab-closed") /\ UNCHANGED <<kind, files, task, call, acked>>
        /\ client' = [client EXCEPT ![s] = "over"]
    BY DEF StInv, TabCloses
  <1>2. spent' \in [Disturbances -> Nat] /\ (Calm' => Calm) /\ ~Calm'
    <2>1. "tab-closed" \in Disturbances
      BY DEF Disturbances
    <2> QED BY <1>1, <2>1, Spent
  <1>3. /\ client' \in [StageIds -> {"idle", "beginning", "open", "appending", "sealing", "sealed",
                                     "aborting", "over"}]
        /\ client'[s] = "over" /\ \A t \in StageIds : t # s => client'[t] = client[t]
    BY <1>1, OneIsSet DEF TypeOK
  <1>4. Forsaken(s) /\ Cleaned(s)'
    BY <1>1, <1>2, <1>3 DEF Forsaken, Fills, Cleaned
  <1>5. ASSUME NEW t \in StageIds PROVE RequestsKept(t) \/ (Forsaken(t) /\ Cleaned(t)')
    <2>1. CASE t = s
      BY <1>4, <2>1
    <2>2. CASE t # s
      <3>1. RequestsKept(t)
        BY <1>1, <1>3, <2>2 DEF RequestsKept
      <3> QED BY <3>1
    <2> QED BY <2>1, <2>2
  <1>6. /\ task' \in [StageIds -> [Requests -> Steps]]
        /\ call' \in [StageIds -> [Requests -> {"none", "waiting", "late"}]]
        /\ UNCHANGED <<kind, files, acked>>
    BY <1>1 DEF TypeOK
  <1> QED BY <1>2, <1>3, <1>5, <1>6, LossHolds

\* Those who learn of a loss stay as they are only if they wait for nothing.
LEMMA LearnTypes ==
    ASSUME TypeOK, NEW s \in StageIds, NEW aborted
    PROVE  /\ Learn(s, aborted) \in {client[s], "aborting", "over"}
           /\ Learn(s, aborted) \notin {"aborting", "over"} => Waits(s) = {}
           /\ Waits(s) = {} => Learn(s, aborted) = client[s]
  BY DEF Learn

LEMMA WaitsForNothing ==
    ASSUME TypeOK, NEW s \in StageIds, OneRequest(s), Fills(s), Waits(s) = {}
    PROVE  /\ \A r \in Requests : task[s][r] = "none" /\ call[s][r] = "none"
           /\ task[s] = [r \in Requests |-> "none"] /\ call[s] = [r \in Requests |-> "none"]
  <1>1. ASSUME NEW r \in Requests PROVE task[s][r] = "none" /\ call[s][r] = "none"
    <2>1. ~Awaits(s, r)
      BY WhoAwaits DEF Waits, OneRequest
    <2> QED BY <2>1 DEF OneRequest
  <1>2. task[s] \in [Requests -> Steps] /\ call[s] \in [Requests -> {"none", "waiting", "late"}]
    BY DEF TypeOK
  <1>3. task[s] = [r \in Requests |-> "none"]
    BY <1>1, <1>2
  <1>4. call[s] = [r \in Requests |-> "none"]
    BY <1>1, <1>2
  <1> QED BY <1>1, <1>3, <1>4

LEMMA WorkerLostHolds ==
    ASSUME StInv, WorkerLost PROVE StInv'
  <1>1. /\ TypeOK /\ Spend("worker-lost") /\ UNCHANGED <<kind, files, acked>>
        /\ \A s \in StageIds : Sound(s)
    BY DEF StInv, WorkerLost
  <1>2. spent' \in [Disturbances -> Nat] /\ (Calm' => Calm) /\ ~Calm'
    <2>1. "worker-lost" \in Disturbances
      BY DEF Disturbances
    <2> QED BY <1>1, <2>1, Spent
  <1> DEFINE aborted == {r \in Requests : ClientAborts(r)}
  <1>3. client' = [s \in StageIds |->
                      IF kind = "binary" /\ client[s] = "sealed" THEN "over"
                      ELSE Learn(s, aborted)]
    BY DEF WorkerLost
  <1> HIDE DEF aborted
  <1>4. \A s \in StageIds :
            /\ client'[s] \in {client[s], "aborting", "over"}
            /\ client'[s] \notin {"aborting", "over"} => Waits(s) = {}
    BY <1>1, <1>3, LearnTypes
  <1>5. client' \in [StageIds -> {"idle", "beginning", "open", "appending", "sealing", "sealed",
                                  "aborting", "over"}]
    BY <1>1, <1>3, <1>4 DEF TypeOK
  <1>6. /\ task' = [s \in StageIds |->
                      IF NowAborts(s) THEN [task[s] EXCEPT !["abort"] = "removing"] ELSE task[s]]
        /\ call' = [s \in StageIds |-> [r \in Requests |->
                      IF NowAborts(s) /\ r = "abort" THEN "waiting" ELSE "none"]]
    BY Firsts DEF WorkerLost
  <1>7. ASSUME NEW s \in StageIds
        PROVE  [task[s] EXCEPT !["abort"] = "removing"] \in [Requests -> Steps]
    BY <1>1 DEF TypeOK, Requests, Steps
  <1>8. /\ task' \in [StageIds -> [Requests -> Steps]]
        /\ call' \in [StageIds -> [Requests -> {"none", "waiting", "late"}]]
    BY <1>1, <1>6, <1>7 DEF TypeOK
  <1>9. ASSUME NEW s \in StageIds PROVE RequestsKept(s) \/ (Forsaken(s) /\ Cleaned(s)')
    <2>1. CASE Fills(s)'
      <3>1. client'[s] = client[s] /\ Waits(s) = {} /\ Fills(s) /\ ~NowAborts(s)
        BY <1>4, <2>1 DEF Fills, NowAborts
      <3>2. task'[s] = task[s] /\ call'[s] = [r \in Requests |-> "none"]
        BY <1>6, <3>1
      <3>3. call[s] = [r \in Requests |-> "none"]
        BY <1>1, <3>1, WaitsForNothing DEF Sound
      <3>4. call'[s] = call[s] /\ acked'[s] = acked[s]
        BY <1>1, <3>2, <3>3
      <3>5. RequestsKept(s)
        BY <3>1, <3>2, <3>4 DEF RequestsKept
      <3> QED BY <3>5
    <2>2. CASE ~Fills(s)'
      <3>1. \A q \in Requests : \/ task'[s][q] = task[s][q]
                                \/ q = "abort" /\ task'[s][q] = "removing"
        <4>1. task[s] \in [Requests -> Steps]
          BY <1>1 DEF TypeOK
        <4> QED BY <1>6, <4>1
      <3> QED BY <1>2, <2>2, <3>1 DEF Forsaken, Cleaned
    <2> QED BY <2>1, <2>2
  <1> QED BY <1>1, <1>2, <1>5, <1>8, <1>9, LossHolds

\* What becomes of the requests, and of those who wait for them, without the document.
LEMMA WithoutDocument ==
    ASSUME StInv, DocumentGone
    PROVE  /\ UNCHANGED <<kind, files, acked>>
           /\ task' \in [StageIds -> [Requests -> Steps]]
           /\ call' \in [StageIds -> [Requests -> {"none", "waiting", "late"}]]
           /\ client' \in [StageIds -> {"idle", "beginning", "open", "appending", "sealing",
                                        "sealed", "aborting", "over"}]
           /\ \A s \in StageIds :
                /\ client'[s] \in {client[s], "aborting", "over"}
                /\ client'[s] \notin {"aborting", "over"} => Waits(s) = {}
                /\ Waits(s) = {} => client'[s] = client[s]
                /\ \A r \in Requests :
                    IF (r = "abort" /\ NowAborts(s)) \/ (r = "undo" /\ Undoes(s))
                    THEN task'[s][r] = "removing" /\ call'[s][r] = "waiting"
                    ELSE task'[s][r] = "none" /\ call'[s][r] = "none"
  <1>1. TypeOK
    BY DEF StInv
  <1> DEFINE aborted == {r \in Requests : AbortsAfter(r)}
  <1>2. client' = [s \in StageIds |-> Learn(s, aborted)] /\ UNCHANGED <<kind, files, acked>>
    BY DEF DocumentGone
  <1> HIDE DEF aborted
  <1>3. \A s \in StageIds :
            /\ client'[s] \in {client[s], "aborting", "over"}
            /\ client'[s] \notin {"aborting", "over"} => Waits(s) = {}
            /\ Waits(s) = {} => client'[s] = client[s]
    BY <1>1, <1>2, LearnTypes
  <1>4. client' \in [StageIds -> {"idle", "beginning", "open", "appending", "sealing", "sealed",
                                  "aborting", "over"}]
    BY <1>1, <1>2, <1>3 DEF TypeOK
  <1> DEFINE Goes(s, r) == (r = "abort" /\ NowAborts(s)) \/ (r = "undo" /\ Undoes(s))
  <1>5. /\ task' = [s \in StageIds |-> [r \in Requests |->
                      IF Goes(s, r) THEN FirstStep(r) ELSE "none"]]
        /\ call' = [s \in StageIds |-> [r \in Requests |->
                      IF Goes(s, r) THEN "waiting" ELSE "none"]]
    BY DEF DocumentGone
  <1>6. \A s \in StageIds, r \in Requests : Goes(s, r) => FirstStep(r) = "removing"
    BY Firsts
  <1>7. {"removing", "none"} \subseteq Steps
    BY DEF Steps
  <1> HIDE DEF Goes
  <1>8. /\ task' \in [StageIds -> [Requests -> Steps]]
        /\ call' \in [StageIds -> [Requests -> {"none", "waiting", "late"}]]
    BY <1>5, <1>6, <1>7
  <1>9. \A s \in StageIds, r \in Requests :
            IF Goes(s, r) THEN task'[s][r] = "removing" /\ call'[s][r] = "waiting"
            ELSE task'[s][r] = "none" /\ call'[s][r] = "none"
    BY <1>5, <1>6
  <1> QED BY <1>2, <1>3, <1>4, <1>8, <1>9 DEF Goes

LEMMA KeptOrForsaken ==
    ASSUME StInv, DocumentGone, NEW s \in StageIds
    PROVE  RequestsKept(s) \/ Forsaken(s)
  <1>1. TypeOK /\ OneRequest(s) /\ {"abort", "undo"} \subseteq Requests
    BY DEF StInv, Sound, Requests
  <1>2. /\ task'[s] \in [Requests -> Steps]
        /\ call'[s] \in [Requests -> {"none", "waiting", "late"}]
        /\ acked' = acked
    BY WithoutDocument
  <1>3. /\ client'[s] \in {client[s], "aborting", "over"}
        /\ client'[s] \notin {"aborting", "over"} => Waits(s) = {}
        /\ \A r \in Requests :
            IF (r = "abort" /\ NowAborts(s)) \/ (r = "undo" /\ Undoes(s))
            THEN task'[s][r] = "removing" /\ call'[s][r] = "waiting"
            ELSE task'[s][r] = "none" /\ call'[s][r] = "none"
    BY WithoutDocument
  <1>4. CASE Fills(s)'
    <2>1. client'[s] = client[s] /\ Waits(s) = {} /\ Fills(s) /\ ~NowAborts(s)
      BY <1>3, <1>4 DEF Fills, NowAborts
    <2>2. /\ \A r \in Requests : call[s][r] = "none"
          /\ task[s] = [r \in Requests |-> "none"] /\ call[s] = [r \in Requests |-> "none"]
      BY <1>1, <2>1, WaitsForNothing
    <2>3. ~Undoes(s)
      BY <2>2 DEF Undoes, Filling, Requests
    <2>4. \A r \in Requests : task'[s][r] = "none" /\ call'[s][r] = "none"
      BY <1>3, <2>1, <2>3
    <2>5. task'[s] = [r \in Requests |-> "none"]
      BY <1>2, <2>4
    <2>6. call'[s] = [r \in Requests |-> "none"]
      BY <1>2, <2>4
    <2> QED BY <1>2, <2>1, <2>2, <2>5, <2>6 DEF RequestsKept
  <1>5. CASE ~Fills(s)'
    BY <1>3, <1>5 DEF Forsaken
  <1> QED BY <1>4, <1>5

LEMMA DocumentLostHolds ==
    ASSUME StInv, DocumentLost PROVE StInv'
  <1>1. TypeOK /\ Spend("document-lost") /\ DocumentGone
    BY DEF StInv, DocumentLost
  <1>2. spent' \in [Disturbances -> Nat] /\ (Calm' => Calm) /\ ~Calm'
    <2>1. "document-lost" \in Disturbances
      BY DEF Disturbances
    <2> QED BY <1>1, <2>1, Spent
  <1>3. \A s \in StageIds : RequestsKept(s) \/ (Forsaken(s) /\ Cleaned(s)')
    BY <1>1, <1>2, KeptOrForsaken DEF Cleaned
  <1>4. /\ UNCHANGED <<kind, files, acked>>
        /\ task' \in [StageIds -> [Requests -> Steps]]
        /\ call' \in [StageIds -> [Requests -> {"none", "waiting", "late"}]]
        /\ client' \in [StageIds -> {"idle", "beginning", "open", "appending", "sealing",
                                     "sealed", "aborting", "over"}]
    BY <1>1, WithoutDocument
  <1> QED BY <1>2, <1>3, <1>4, LossHolds

\* A document that closes when no call is waited for leaves no abort behind.
LEMMA DocumentClosesHolds ==
    ASSUME StInv, DocumentCloses PROVE StInv'
  <1>1. /\ TypeOK /\ DocumentGone /\ spent' = spent
        /\ \A s \in StageIds, r \in Requests : call[s][r] # "waiting"
    BY DEF StInv, DocumentCloses
  <1>2. spent' \in [Disturbances -> Nat] /\ (Calm' => Calm)
    BY <1>1, NothingSpent
  <1>3. /\ UNCHANGED <<kind, files, acked>>
        /\ task' \in [StageIds -> [Requests -> Steps]]
        /\ call' \in [StageIds -> [Requests -> {"none", "waiting", "late"}]]
        /\ client' \in [StageIds -> {"idle", "beginning", "open", "appending", "sealing",
                                     "sealed", "aborting", "over"}]
    BY <1>1, WithoutDocument
  <1>4. ASSUME NEW s \in StageIds PROVE RequestsKept(s) \/ (Forsaken(s) /\ Cleaned(s)')
    <2>1. CASE RequestsKept(s)
      BY <2>1
    <2>2. CASE ~RequestsKept(s)
      <3>1. Forsaken(s)
        BY <1>1, <2>2, KeptOrForsaken
      <3>2. Cleaned(s)'
        <4>2. Waits(s) = {}
          BY <1>1 DEF Waits
        <4>3. /\ client'[s] = client[s] /\ ~NowAborts(s)
              /\ \A r \in Requests :
                    IF r = "undo" /\ Undoes(s)
                    THEN task'[s][r] = "removing" /\ call'[s][r] = "waiting"
                    ELSE task'[s][r] = "none" /\ call'[s][r] = "none"
          <5>1. /\ Waits(s) = {} => client'[s] = client[s]
                /\ \A r \in Requests :
                    IF (r = "abort" /\ NowAborts(s)) \/ (r = "undo" /\ Undoes(s))
                    THEN task'[s][r] = "removing" /\ call'[s][r] = "waiting"
                    ELSE task'[s][r] = "none" /\ call'[s][r] = "none"
            BY <1>1, WithoutDocument
          <5>2. client'[s] = client[s] /\ ~NowAborts(s)
            BY <4>2, <5>1 DEF NowAborts
          <5> QED BY <5>1, <5>2
        <4>4. ~Fills(s) /\ ~Fills(s)'
          BY <3>1, <4>3 DEF Forsaken, Fills
        <4>5. Requests = {"begin", "append", "seal", "abort", "undo"}
                  /\ Filling = {"begin", "append", "seal"}
          BY DEF Requests, Filling
        <4> SUFFICES ASSUME Calm', kind = "archive"
                     PROVE  LateIsAttended(s)' /\ Removed(s)' /\ BegunOrGone(s)'
          BY <1>3, <3>1 DEF Cleaned
        <4>6. LateIsAttended(s) /\ Removed(s)
          BY <1>2 DEF StInv, Sound, Cleaned
        <4>7. LateIsAttended(s)'
          BY <4>3, <4>5 DEF LateIsAttended
        <4>8. Removed(s)'
          <5>1. CASE Undoes(s)
            BY <4>3, <4>5, <5>1 DEF Removed
          <5>2. CASE ~Undoes(s)
            <6>1. \A r \in Filling : call[s][r] # "late"
              BY <5>2 DEF Undoes, AttendsToLate
            <6>2. \A r \in {"abort", "undo"} : task[s][r] = "none"
              BY <1>1, <4>5, <4>6 DEF LateIsAttended
            <6>3. data[s] = Absent /\ meta[s].state = "absent"
              BY <4>4, <4>6, <6>1, <6>2 DEF Removed
            <6> QED BY <1>3, <6>3 DEF Removed, files
          <5> QED BY <5>1, <5>2
        <4>9. BegunOrGone(s)'
          BY <4>4 DEF BegunOrGone, Fills
        <4> QED BY <4>7, <4>8, <4>9
      <3> QED BY <3>1, <3>2
    <2> QED BY <2>1, <2>2
  <1> QED BY <1>2, <1>3, <1>4, LossHolds

\* Every stage keeps what it has, or is swept, and nobody asks for anything.
LEMMA OnlyFilesHolds ==
    ASSUME StInv, UNCHANGED <<kind, task, call, client, acked>>,
           FilesTyped, \A t \in StageIds : FilesKept(t), Calm' => Calm
    PROVE  StInv'
  <1>1. TypeOK'
    BY DEF StInv, TypeOK, FilesTyped
  <1>2. ASSUME NEW t \in StageIds PROVE Sound(t)'
    <2>1. Sound(t) /\ FilesKept(t) /\ RequestsKept(t)
      BY DEF StInv, RequestsKept
    <2> QED BY <2>1, OthersKept
  <1> QED BY <1>1, <1>2 DEF StInv

LEMMA AgesHolds ==
    ASSUME StInv, NEW s \in StageIds, Ages(s) PROVE StInv'
  <1>1. /\ TypeOK /\ UNCHANGED <<kind, data, meta, swept, task, call, client, acked>>
        /\ old' = old \cup {s} /\ (spent' = spent \/ Spend("idle-day"))
    BY DEF StInv, Ages
  <1>2. spent' \in [Disturbances -> Nat] /\ (Calm' => Calm)
    <2>1. "idle-day" \in Disturbances
      BY DEF Disturbances
    <2> QED BY <1>1, <2>1, Spent, NothingSpent
  <1>3. FilesTyped /\ \A t \in StageIds : FilesKept(t)
    BY <1>1, <1>2 DEF TypeOK, FilesTyped, FilesKept
  <1> QED BY <1>1, <1>2, <1>3, OnlyFilesHolds

LEMMA OthersBeginHolds ==
    ASSUME StInv, OthersBegin PROVE StInv'
  <1>1. TypeOK /\ Pruned /\ UNCHANGED <<kind, task, call, client, acked, spent>>
    BY DEF StInv, OthersBegin
  <1>2. spent' \in [Disturbances -> Nat] /\ (Calm' => Calm)
    BY <1>1, NothingSpent
  <1>3. FilesTyped /\ \A t \in StageIds : FilesKept(t)
    BY <1>1, <1>2, PruningKeeps DEF FilesTyped
  <1> QED BY <1>1, <1>2, <1>3, OnlyFilesHolds

-----------------------------------------------------------------------------
(* The specification keeps the invariant.                                  *)

LEMMA StartsSound ==
    ASSUME Init PROVE StInv
  <1>1. NoMetadata \in Metadata /\ "none" \in Steps
    BY StageStoreParameters DEF NoMetadata, Metadata, Steps
  <1>2. TypeOK
    BY <1>1, StageStoreParameters DEF Init, TypeOK, StageStoreParameters, NoTasks
  <1>3. ASSUME NEW s \in StageIds PROVE Sound(s)
    <2>1. /\ \A r \in Requests : task[s][r] = "none" /\ call[s][r] = "none"
          /\ client[s] = "idle" /\ acked[s] = 0
          /\ data[s] = Absent /\ meta[s].state = "absent" /\ meta[s].size = 0
      BY <1>3 DEF Init, NoTasks, NoMetadata
    <2>2. {"begin", "append", "seal", "abort", "undo"} = Requests
              /\ Filling = {"begin", "append", "seal"}
      BY DEF Requests, Filling
    <2>3. OneRequest(s)
      BY <2>1, WhoAwaits DEF OneRequest
    <2>4. OwnSteps(s) /\ Room(s)
      BY <2>1, <2>2 DEF OwnSteps, Room
    <2>5. FilesFollow(s)
      BY <2>1 DEF FilesFollow, Unswept, Gone, Files
    <2>6. Cleaned(s)
      BY <2>1, <2>2 DEF Cleaned, LateIsAttended, Removed, BegunOrGone, Fills
    <2> QED BY <2>3, <2>4, <2>5, <2>6 DEF Sound
  <1> QED BY <1>2, <1>3 DEF StInv

LEMMA DocumentHolds ==
    ASSUME StInv, NEW s \in StageIds, Document(s) PROVE StInv'
  <1>1. CASE BeginPrunes(s) \/ BeginCreates(s) \/ BeginUndoes(s)
    BY <1>1, BeginPrunesHolds, BeginCreatesHolds, BeginUndoesHolds
  <1>2. CASE AppendChecks(s) \/ AppendWrites(s) \/ SealChecks(s)
    BY <1>2, AppendChecksHolds, AppendWritesHolds, SealChecksHolds
  <1>3. ASSUME NEW r \in Filling, MakesEntry(s, r) \/ Records(s, r) PROVE StInv'
    BY <1>3, MakesEntryHolds, RecordsHolds
  <1>4. ASSUME NEW r \in {"abort", "undo"}, RemovesData(s, r) \/ RemovesMetadata(s, r) PROVE StInv'
    BY <1>4, RemovesDataHolds, RemovesMetadataHolds
  <1>5. ASSUME NEW r \in Requests, NotServed(s, r) PROVE StInv'
    BY <1>5, NotServedHolds
  <1> QED BY <1>1, <1>2, <1>3, <1>4, <1>5 DEF Document

LEMMA StepsHold ==
    ASSUME StInv, [Next]_vars PROVE StInv'
  <1>1. CASE UNCHANGED vars
    <2>1. UNCHANGED <<kind, task, call, client, acked>> /\ UNCHANGED files /\ spent' = spent
      BY <1>1 DEF vars
    <2>2. TypeOK /\ spent' \in [Disturbances -> Nat] /\ (Calm' => Calm)
      BY <2>1, NothingSpent DEF StInv
    <2> QED BY <2>1, <2>2, NothingWritten, OnlyFilesHolds
  <1>2. ASSUME NEW s \in StageIds, Client(s) PROVE StInv'
    BY <1>2, ClientHolds
  <1>3. ASSUME NEW s \in StageIds, Document(s) PROVE StInv'
    BY <1>3, DocumentHolds
  <1>4. ASSUME NEW s \in StageIds, TabCloses(s) \/ Ages(s) PROVE StInv'
    BY <1>4, TabClosesHolds, AgesHolds
  <1>5. ASSUME NEW s \in StageIds, NEW r \in Requests, Answers(s, r) \/ TimesOut(s, r)
        PROVE  StInv'
    BY <1>5, AnswersHolds, TimesOutHolds
  <1>6. CASE WorkerLost
    BY <1>6, WorkerLostHolds
  <1>7. CASE DocumentLost
    BY <1>7, DocumentLostHolds
  <1>8. CASE DocumentCloses
    BY <1>8, DocumentClosesHolds
  <1>9. CASE OthersBegin
    BY <1>9, OthersBeginHolds
  <1> QED BY <1>1, <1>2, <1>3, <1>4, <1>5, <1>6, <1>7, <1>8, <1>9 DEF Next

\* What a content script is told, and what it leaves behind, follow the invariant in
\* every behaviour: with every request that times out, fails or is overtaken by an
\* abort, and every loss of the worker, the document or the tab.
THEOREM StagesStaySound == Spec => []StInv
  <1>1. Init => StInv
    BY StartsSound
  <1>2. StInv /\ [Next]_vars => StInv'
    BY StepsHold
  <1> QED BY <1>1, <1>2, PTL DEF Spec

\* Every variable keeps the shape the code gives it, for every number of stages and
\* of chunks: no stage is written beyond the artifact (archive-stage-store.ts,
\* binary-stage-store.ts, and the guards of the content script).
THEOREM TypesHold == Spec => []TypeOK
  <1>1. StInv => TypeOK
    BY DEF StInv
  <1> QED BY <1>1, StagesStaySound, PTL

\* What a content script was told is stored is there, in both files, whatever failed,
\* was late or was lost before (`append`, `seal`, `finalize` and the late answers of
\* archive-stage-handlers.ts).
THEOREM AcknowledgedStays == Spec => []AcknowledgedIsStored
  <1>1. StInv => AcknowledgedIsStored
    <2> SUFFICES ASSUME StInv, NEW s \in StageIds, client[s] \in {"open", "sealed"}, s \notin swept
                 PROVE  /\ data[s] = acked[s] /\ meta[s].size = acked[s]
                        /\ meta[s].state = IF client[s] = "sealed" /\ kind = "archive"
                                           THEN "sealed" ELSE "open"
      BY DEF AcknowledgedIsStored
    <2>1. Sound(s)
      BY DEF StInv
    <2>2. Unswept(s) /\ (client[s] = "sealed" => acked[s] = Chunks)
      BY <2>1 DEF Sound, FilesFollow, Room
    <2> QED BY <2>2 DEF Unswept, Files, Sealed
  <1> QED BY <1>1, StagesStaySound, PTL

\* An archive stage its content script has done with leaves no files, however the late
\* request overlapped the abort (`onLateResponse` in archive-stage-handlers.ts).
THEOREM NothingStranded == Spec => []NothingIsStranded
  <1>1. StInv => NothingIsStranded
    <2> SUFFICES ASSUME StInv, Calm, NEW s \in StageIds, kind = "archive", client[s] = "over",
                        \A r \in Requests : task[s][r] = "none" /\ call[s][r] = "none"
                 PROVE  ~Stored(s)
      BY DEF NothingIsStranded, Calm
    <2>1. Removed(s)
      BY DEF StInv, Sound, Cleaned
    <2>2. {"abort", "undo"} \subseteq Requests /\ Filling \subseteq Requests
      BY DEF Requests, Filling
    <2> QED BY <2>1, <2>2 DEF Removed, Fills, Stored
  <1> QED BY <1>1, StagesStaySound, PTL
=============================================================================

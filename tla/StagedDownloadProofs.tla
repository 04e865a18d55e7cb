------------------------ MODULE StagedDownloadProofs ------------------------
(***************************************************************************)
(* What StagedDownload guarantees for any number of stages, whatever fails *)
(* and however many workers are lost.                                      *)
(*                                                                         *)
(* The safety properties follow from one inductive invariant, IInv, which  *)
(* says the same of every stage: how far its commit has come (ProgressOf), *)
(* that nobody knows it before the browser is asked for a download         *)
(* (Unasked), what the worker knows of the browser (Known), who holds its  *)
(* bytes and its lease (Held), and when recovery may take it               *)
(* (Recoverable).  Most steps concern one stage: FrameKeeps disposes of    *)
(* the others.                                                             *)
(***************************************************************************)
EXTENDS StagedDownload, TLAPS

-----------------------------------------------------------------------------
(* The inductive invariant.                                                *)

\* Recovery is looking at a stage, or taking it.
Holding == {"releasing", "aborting", "forgetting"}
BusyWith(s) == recovery.on = s /\ recovery.at \in {"searching"} \cup Holding

\* Nothing of this worker will use the stage again.
Done(s) == task[s].at = "lost" \/ task[s].cleanup = "over"

Watching == {"asking", "assigning", "inspecting", "watching"}

\* A commit and its observer: the observer ends with `terminal`, a cleanup begins
\* after that, and a caller that has returned is not waited for.
ProgressOf(t) ==
    /\ t.at \in {"idle", "undoing", "over", "lost"} => t.watch = "none"
    /\ t.at \in {"idle", "lost"} => ~t.terminal /\ ~t.settled /\ t.result = "none"
    /\ t.at = "opening" => t.watch \in {"none", "remembering"} /\ t.result = "none"
    /\ t.at \in {"opening", "outputs"} => (t.terminal <=> t.watch \in {"none", "over"})
    /\ t.at = "returned" => t.watch # "remembering" /\ (t.watch = "none" \/ t.settled)
    /\ t.terminal => t.watch \in {"none", "over"}
    /\ t.settled => t.terminal \/ t.watch \in Watching
    /\ t.watch \in {"remembering"} \cup Watching /\ ~t.settled =>
          t.result = "none"
    /\ t.watch = "remembering" => ~t.settled
    /\ t.cleanup # "none" => t.at = "returned" /\ t.terminal

\* Until the browser is asked for a download nobody but the commit knows the stage.
Unasked(s) ==
    task[s].at # "lost" /\ task[s].watch \in {"none", "remembering"} =>
        /\ download[s] = "none" /\ registry[s] = "none" /\ s \notin aged
        /\ recovery.left[s] = "none" /\ ~BusyWith(s)

\* What is announced, told or removed from the list has ended, and so has what
\* the observer takes for ended; what the caller was told is true.
Known(s) ==
    /\ s \in notices \cup told \cup erased => Terminal(s)
    /\ task[s].terminal => download[s] \notin {"asked", "running"}
    /\ task[s].result = "confirmed" => download[s] = "complete"
    /\ task[s].result = "not dispatched" => download[s] = "none"

\* The lease of a commit lasts from its first message to its cleanup; the bytes
\* are there while an output may read them.
Held(s) ==
    /\ task[s].at \in {"opening", "undoing", "outputs"} => s \in leases
    /\ task[s].cleanup \in {"forgetting", "over"} => s \notin leases
    /\ s \in leases /\ task[s].at = "returned" /\ spent["lease failure"] = 0 =>
          task[s].watch \in Watching \/ task[s].cleanup \in {"releasing", "aborting"}
    /\ task[s].at = "outputs" /\ (task[s].obsidian = "reading" \/ task[s].watch = "remembering") =>
          s \in aged \/ s \in bytes \cap urls
    /\ task[s].cleanup = "forgetting" => s \notin bytes
    /\ recovery.at = "forgetting" /\ recovery.on = s => s \notin bytes
    /\ kind = "archive" =>
          /\ download[s] \in {"asked", "running"} => s \in aged \/ s \in bytes
          /\ download[s] # "none" /\ s \in bytes => registry[s] # "none"

\* A record of less than a day that no handler answers for belongs to a commit that
\* is over; recovery takes only those, and an archive stage only when its download
\* has ended.
Recoverable(s) ==
    \/ s \in aged
    \/ /\ s \notin active /\ (registry[s] # "none" \/ recovery.left[s] # "none") => Done(s)
       /\ BusyWith(s) => Done(s)
       /\ BusyWith(s) /\ recovery.at \in Holding /\ kind = "archive" => Terminal(s)

Sound(s) == ProgressOf(task[s]) /\ Unasked(s) /\ Known(s) /\ Held(s) /\ Recoverable(s)

IInv == TypeOK /\ \A s \in Stages : Sound(s)

-----------------------------------------------------------------------------
(* A step that concerns one stage.                                         *)

\* The empty records are records.
LEMMA DefaultsTyped ==
    /\ NoTask \in Task /\ LostTask \in Task /\ AnyStage \in Stages
    /\ NothingLeft \in [Stages -> Records] /\ NoRecovery \in Recovery
<1>1. AnyStage \in Stages
  BY StagedDownloadParameters DEF AnyStage
<1>2. NoTask \in Task /\ LostTask \in Task
  BY DEF NoTask, LostTask, Task, Records
<1>3. NothingLeft \in [Stages -> Records] /\ NoRecovery \in Recovery
  BY <1>1 DEF NothingLeft, Records, NoRecovery, Recovery
<1> QED BY <1>1, <1>2, <1>3

\* What a step must leave of a stage that it does not concern.
SameFiles(x) ==
    /\ kind' = kind
    /\ x \in bytes' <=> x \in bytes
    /\ x \in urls' <=> x \in urls
    /\ x \in leases' <=> x \in leases
    /\ x \in active' <=> x \in active
    /\ spent'["lease failure"] = 0 => spent["lease failure"] = 0

SameDownload(x) ==
    /\ download'[x] = download[x]
    /\ x \in notices' \cup told' \cup erased' => x \in notices \cup told \cup erased

SameRecord(x) ==
    /\ registry'[x] = registry[x]
    /\ x \in aged' <=> x \in aged
    /\ recovery'.left[x] \in {recovery.left[x], "none"}
    /\ BusyWith(x)' => BusyWith(x) /\ recovery'.at = recovery.at

Same(x) == task'[x] = task[x] /\ SameFiles(x) /\ SameDownload(x) /\ SameRecord(x)

LEMMA FrameKeeps == ASSUME NEW x \in Stages, Sound(x), Same(x) PROVE Sound(x)'
<1> USE DEF Same, SameFiles, SameDownload, SameRecord
<1>1. ProgressOf(task[x])' /\ Unasked(x)'
  BY DEF Sound, ProgressOf, Unasked, Watching
<1>2. Known(x)'
  BY DEF Sound, Known, Terminal
<1>3. Held(x)'
  BY DEF Sound, Held, BusyWith, Holding
<1>4. Recoverable(x)'
  BY DEF Sound, Recoverable, Done, Terminal, Holding, BusyWith
<1> QED BY <1>1, <1>2, <1>3, <1>4 DEF Sound

\* What is counted against the bounds stays a count, and never falls.
LEMMA SpendTyped ==
    ASSUME TypeOK, NEW what \in Disturbances, Spend(what) \/ UNCHANGED spent
    PROVE  /\ spent' \in [Disturbances -> Nat]
           /\ spent'["lease failure"] = 0 => spent["lease failure"] = 0
           /\ Spend(what) => spent'[what] # 0
<1>1. spent \in [Disturbances -> Nat] /\ "lease failure" \in Disturbances
  BY DEF TypeOK, Disturbances
<1>2. CASE Spend(what)
  <2>1. spent' = [spent EXCEPT ![what] = spent[what] + 1]
    BY <1>2 DEF Spend
  <2>2. spent[what] \in Nat
    BY <1>1
  <2>3. spent[what] + 1 \in Nat
    BY <2>2
  <2>4. spent[what] + 1 # 0
    BY <2>2
  <2>5. spent' \in [Disturbances -> Nat]
    BY <1>1, <2>1, <2>3
  <2>6. spent'[what] # 0
    BY <1>1, <2>1, <2>4
  <2>7. spent'["lease failure"] = 0 => spent["lease failure"] = 0
    BY <1>1, <2>1, <2>6
  <2> QED BY <2>5, <2>6, <2>7
<1>3. CASE ~Spend(what)
  BY <1>1, <1>3
<1> QED BY <1>2, <1>3

\* A commit that moves on takes its own record with it and no other.
LEMMA TaskMoves ==
    ASSUME TypeOK, NEW s \in Stages, NEW u \in Task, task' = [task EXCEPT ![s] = u]
    PROVE  /\ task' \in [Stages -> Task] /\ task'[s] = u
           /\ \A x \in Stages \ {s} : task'[x] = task[x]
  BY DEF TypeOK

\* Once the actor of a step is seen to be sound, and the others to be left alone.
LEMMA StepKeeps ==
    ASSUME IInv, NEW s \in Stages, TypeOK', Sound(s)', \A x \in Stages \ {s} : Same(x)
    PROVE  IInv'
  BY FrameKeeps DEF IInv

\* A step that moves a commit on and does nothing else leaves the others alone.
LEMMA TaskOnly ==
    ASSUME IInv, NEW s \in Stages, NEW u \in Task, task' = [task EXCEPT ![s] = u],
           UNCHANGED <<beyondTask, spent>>
    PROVE  /\ TypeOK' /\ task'[s] = u /\ \A x \in Stages \ {s} : Same(x)
           /\ UNCHANGED <<kind, bytes, urls, download, erased, notices, registry, aged, leases, active,
                          told, recovery, spent>>
<1>1. task' \in [Stages -> Task] /\ task'[s] = u /\ \A x \in Stages \ {s} : task'[x] = task[x]
  BY TaskMoves DEF IInv
<1>2. UNCHANGED <<kind, bytes, urls, document, download, erased, notices, registry, aged, leases, timer,
                  active, told, recovery, spent>>
  BY DEF beyondTask, browser
<1> QED
  BY <1>1, <1>2
  DEF IInv, TypeOK, Same, SameFiles, SameDownload, SameRecord, BusyWith

\* What becomes of a commit when the end of its download is known.
LEMMA EndedTask ==
    ASSUME NEW t \in Task, ProgressOf(t), t.watch \in Watching,
           NEW result \in {"unknown", "confirmed", "not dispatched"}
    PROVE  /\ Ended(t, result) \in Task
           /\ Ended(t, result).at = t.at /\ Ended(t, result).obsidian = t.obsidian
           /\ Ended(t, result).terminal /\ Ended(t, result).settled /\ Ended(t, result).watch = "over"
           /\ t.settled => Ended(t, result).result = t.result
           /\ ~t.settled => Ended(t, result).result = result
           /\ t.settled /\ t.at = "returned" => Ended(t, result).cleanup = "releasing"
           /\ ~(t.settled /\ t.at = "returned") => Ended(t, result).cleanup = "none"
<1> DEFINE v == [t EXCEPT !.watch = "over", !.terminal = TRUE]
           y == [t EXCEPT !.watch = "over", !.terminal = TRUE, !.cleanup = "releasing"]
           w == [t EXCEPT !.watch = "over", !.settled = TRUE, !.terminal = TRUE, !.result = result]
<1>1. t.cleanup = "none"
  BY DEF ProgressOf, Watching, Task
<1>2. CASE t.settled /\ t.at = "returned"
  <2>1. Ended(t, result) = [v EXCEPT !.cleanup = "releasing"]
    BY <1>1, <1>2 DEF Ended, Cleaned, Owned, Task
  <2>2. [v EXCEPT !.cleanup = "releasing"] = y
    BY DEF Task
  <2> QED BY <1>2, <2>1, <2>2 DEF Task
<1>3. CASE t.settled /\ t.at # "returned"
  <2>1. Ended(t, result) = v
    BY <1>3 DEF Ended, Cleaned, Owned, Task
  <2> QED BY <1>1, <1>3, <2>1 DEF Task
<1>4. CASE ~t.settled
  <2>1. Ended(t, result) = w
    BY <1>4 DEF Ended
  <2> QED BY <1>1, <1>4, <2>1 DEF Task
<1> QED BY <1>2, <1>3, <1>4

\* The step of an observer that knows the end of its download.
LEMMA EndsTask ==
    ASSUME TypeOK, NEW s \in Stages, ProgressOf(task[s]), task[s].watch \in Watching,
           NEW result \in {"unknown", "confirmed", "not dispatched"},
           task' = [task EXCEPT ![s] = Ended(task[s], result)]
    PROVE  /\ task' \in [Stages -> Task]
           /\ \A x \in Stages \ {s} : task'[x] = task[x]
           /\ task'[s].at = task[s].at /\ task'[s].obsidian = task[s].obsidian
           /\ task'[s].terminal /\ task'[s].settled /\ task'[s].watch = "over"
           /\ task[s].settled => task'[s].result = task[s].result
           /\ ~task[s].settled => task'[s].result = result
           /\ task[s].settled /\ task[s].at = "returned" => task'[s].cleanup = "releasing"
           /\ ~(task[s].settled /\ task[s].at = "returned") => task'[s].cleanup = "none"
<1>1. PICK t \in Task : t = task[s]
  BY DEF TypeOK
<1>2. ProgressOf(t) /\ t.watch \in Watching
  BY <1>1
<1>3. /\ Ended(t, result) \in Task
      /\ Ended(t, result).at = t.at /\ Ended(t, result).obsidian = t.obsidian
      /\ Ended(t, result).terminal /\ Ended(t, result).settled /\ Ended(t, result).watch = "over"
      /\ t.settled => Ended(t, result).result = t.result
      /\ ~t.settled => Ended(t, result).result = result
      /\ t.settled /\ t.at = "returned" => Ended(t, result).cleanup = "releasing"
      /\ ~(t.settled /\ t.at = "returned") => Ended(t, result).cleanup = "none"
  BY <1>2, EndedTask
<1>4. task' = [task EXCEPT ![s] = Ended(t, result)]
  BY <1>1
<1>5. /\ task' \in [Stages -> Task] /\ task'[s] = Ended(t, result)
      /\ \A x \in Stages \ {s} : task'[x] = task[x]
  BY <1>3, <1>4, TaskMoves
<1>6. PICK u : u = Ended(t, result)
  OBVIOUS
<1>7. /\ u.at = t.at /\ u.obsidian = t.obsidian
      /\ u.terminal /\ u.settled /\ u.watch = "over"
      /\ t.settled => u.result = t.result
      /\ ~t.settled => u.result = result
      /\ t.settled /\ t.at = "returned" => u.cleanup = "releasing"
      /\ ~(t.settled /\ t.at = "returned") => u.cleanup = "none"
  BY <1>3, <1>6
<1>8. task'[s] = u
  BY <1>5, <1>6
<1> QED BY <1>1, <1>5, <1>7, <1>8

-----------------------------------------------------------------------------
(* A commit up to its outputs.                                             *)

\* `commitStagedArchiveCompanion` begins: the lease is taken.
LEMMA BeginKeeps == ASSUME IInv, NEW s \in Stages, Begin(s) PROVE IInv'
<1>1. PICK outputs \in Outputs :
          task' = [task EXCEPT ![s].at = "opening", ![s].terminal = "file" \notin outputs,
                       ![s].obsidian = IF "obsidian" \in outputs THEN "reading" ELSE "done",
                       ![s].watch = IF "file" \in outputs THEN "remembering" ELSE "none"]
  BY DEF Begin
<1> DEFINE u == [task[s] EXCEPT !.at = "opening", !.terminal = "file" \notin outputs,
                     !.obsidian = IF "obsidian" \in outputs THEN "reading" ELSE "done",
                     !.watch = IF "file" \in outputs THEN "remembering" ELSE "none"]
<1>2. /\ task[s] \in Task /\ task[s].at = "idle" /\ Sound(s)
      /\ leases' = leases \cup {s} /\ timer' = FALSE /\ document' = TRUE
      /\ UNCHANGED <<kind, bytes, urls, download, erased, notices, registry, aged, active, told,
                     recovery, spent>>
  BY DEF IInv, TypeOK, Begin, Lend
<1>3. u \in Task /\ task' = [task EXCEPT ![s] = u]
  <2>1. u \in Task
    BY <1>1, <1>2 DEF Task
  <2>2. task' = [task EXCEPT ![s] = u]
    BY <1>1
  <2> QED BY <2>1, <2>2
<1>4. /\ u.at = "opening" /\ u.watch \in {"none", "remembering"} /\ (u.terminal <=> u.watch = "none")
      /\ u.cleanup = task[s].cleanup /\ u.settled = task[s].settled /\ u.result = task[s].result
  BY <1>2 DEF Task
<1> HIDE DEF u
<1>5. task' \in [Stages -> Task] /\ task'[s] = u /\ \A x \in Stages \ {s} : task'[x] = task[x]
  BY <1>3, TaskMoves DEF IInv
<1>6. TypeOK'
  BY <1>2, <1>5 DEF IInv, TypeOK
<1>7. \A x \in Stages \ {s} : Same(x)
  BY <1>2, <1>5 DEF Same, SameFiles, SameDownload, SameRecord, BusyWith
<1>8. Sound(s)'
  <2>1. ProgressOf(task[s])'
    BY <1>2, <1>4, <1>5 DEF Sound, ProgressOf, Watching
  <2>2. Unasked(s)'
    BY <1>2, <1>4, <1>5 DEF Sound, ProgressOf, Unasked, BusyWith, Holding, Watching
  <2>3. Known(s)'
    BY <1>2, <1>4, <1>5 DEF Sound, ProgressOf, Unasked, Known, Terminal, Watching
  <2>4. Held(s)'
    BY <1>2, <1>4, <1>5 DEF Sound, ProgressOf, Unasked, Known, Held, Watching
  <2>5. Recoverable(s)'
    BY <1>2, <1>4, <1>5
    DEF Sound, ProgressOf, Unasked, Known, Recoverable, Done, BusyWith, Holding, Terminal, Watching
  <2> QED BY <2>1, <2>2, <2>3, <2>4, <2>5 DEF Sound
<1> QED BY <1>6, <1>7, <1>8, StepKeeps

\* The document could not be opened.
LEMMA BeginFailsKeeps == ASSUME IInv, NEW s \in Stages, BeginFails(s) PROVE IInv'
<1> DEFINE u == Undispatched(task[s], "over")
<1>1. /\ task[s] \in Task /\ task[s].at = "idle" /\ Sound(s) /\ Spend("lease failure")
      /\ task' = [task EXCEPT ![s] = u]
      /\ bytes' = bytes \/ (kind = "binary" /\ bytes' = bytes \ {s})
      /\ document' \in {document, TRUE} /\ timer' \in BOOLEAN
      /\ UNCHANGED <<kind, urls, download, erased, notices, registry, aged, leases, active, told,
                     recovery>>
  BY DEF IInv, TypeOK, BeginFails
<1>2. /\ u \in Task /\ u.at = "over" /\ u.watch = "none" /\ u.result = "not dispatched"
      /\ u.cleanup = task[s].cleanup /\ u.settled = task[s].settled /\ u.terminal = task[s].terminal
  BY <1>1 DEF Undispatched, Task
<1> HIDE DEF u
<1>3. task' \in [Stages -> Task] /\ task'[s] = u /\ \A x \in Stages \ {s} : task'[x] = task[x]
  BY <1>1, <1>2, TaskMoves DEF IInv
<1>4. /\ spent' \in [Disturbances -> Nat]
      /\ spent'["lease failure"] = 0 => spent["lease failure"] = 0
  BY <1>1, SpendTyped DEF IInv, Disturbances
<1>5. TypeOK'
  BY <1>1, <1>3, <1>4 DEF IInv, TypeOK
<1>6. \A x \in Stages \ {s} : Same(x)
  BY <1>1, <1>3, <1>4 DEF Same, SameFiles, SameDownload, SameRecord, BusyWith
<1>7. Sound(s)'
  <2>1. ProgressOf(task[s])'
    BY <1>1, <1>2, <1>3 DEF Sound, ProgressOf, Watching
  <2>2. Unasked(s)'
    BY <1>1, <1>2, <1>3 DEF Sound, ProgressOf, Unasked, BusyWith, Holding, Watching
  <2>3. Known(s)'
    BY <1>1, <1>2, <1>3 DEF Sound, ProgressOf, Unasked, Known, Terminal, Watching
  <2>4. Held(s)'
    BY <1>1, <1>2, <1>3 DEF Sound, ProgressOf, Unasked, Known, Held, Watching
  <2>5. Recoverable(s)'
    BY <1>1, <1>2, <1>3
    DEF Sound, ProgressOf, Unasked, Known, Recoverable, Done, BusyWith, Holding, Terminal, Watching
  <2> QED BY <2>1, <2>2, <2>3, <2>4, <2>5 DEF Sound
<1> QED BY <1>5, <1>6, <1>7, StepKeeps

\* The Blob URL arrives: the outputs start.
LEMMA OpensKeeps == ASSUME IInv, NEW s \in Stages, Opens(s) PROVE IInv'
<1> DEFINE u == [task[s] EXCEPT !.at = "outputs"]
<1>1. /\ task[s] \in Task /\ task[s].at = "opening" /\ Sound(s) /\ s \in bytes
      /\ urls' = urls \cup {s} /\ active' \in {active, active \cup {s}}
      /\ UNCHANGED <<kind, bytes, document, download, erased, notices, registry, aged, leases,
                     timer, told, recovery, spent>>
  BY DEF IInv, TypeOK, Opens, browser
<1>2. task' = [task EXCEPT ![s] = u]
  BY <1>1 DEF IInv, TypeOK, Opens
<1>3. /\ u \in Task /\ u.at = "outputs" /\ u.watch = task[s].watch /\ u.result = task[s].result
      /\ u.cleanup = task[s].cleanup /\ u.settled = task[s].settled /\ u.terminal = task[s].terminal
  BY <1>1 DEF Task
<1> HIDE DEF u
<1>4. task' \in [Stages -> Task] /\ task'[s] = u /\ \A x \in Stages \ {s} : task'[x] = task[x]
  BY <1>2, <1>3, TaskMoves DEF IInv
<1>5. TypeOK'
  BY <1>1, <1>4 DEF IInv, TypeOK
<1>6. \A x \in Stages \ {s} : Same(x)
  BY <1>1, <1>4 DEF Same, SameFiles, SameDownload, SameRecord, BusyWith
<1>7. Sound(s)'
  <2>1. ProgressOf(task[s])'
    BY <1>1, <1>3, <1>4 DEF Sound, ProgressOf, Watching
  <2>2. Unasked(s)'
    BY <1>1, <1>3, <1>4 DEF Sound, ProgressOf, Unasked, BusyWith, Holding, Watching
  <2>3. Known(s)'
    BY <1>1, <1>3, <1>4 DEF Sound, ProgressOf, Unasked, Known, Terminal, Watching
  <2>4. Held(s)'
    BY <1>1, <1>3, <1>4 DEF Sound, ProgressOf, Unasked, Known, Held, Watching
  <2>5. Recoverable(s)'
    BY <1>1, <1>3, <1>4
    DEF Sound, ProgressOf, Unasked, Known, Recoverable, Done, BusyWith, Holding, Terminal, Watching
  <2> QED BY <2>1, <2>2, <2>3, <2>4, <2>5 DEF Sound
<1> QED BY <1>5, <1>6, <1>7, StepKeeps

\* No Blob URL: nothing is dispatched, and the stage is thrown away.
LEMMA OpenFailsKeeps == ASSUME IInv, NEW s \in Stages, OpenFails(s) PROVE IInv'
<1> DEFINE u == Undispatched(task[s], "undoing")
<1>1. /\ task[s] \in Task /\ task[s].at = "opening" /\ Sound(s) /\ Spend("message failure")
      /\ task' = [task EXCEPT ![s] = u]
      /\ urls' = urls \/ urls' = urls \cup (bytes \cap {s})
      /\ UNCHANGED <<kind, bytes, document, download, erased, notices, registry, aged, leases,
                     timer, active, told, recovery>>
  BY DEF IInv, TypeOK, OpenFails, browser
<1>2. /\ u \in Task /\ u.at = "undoing" /\ u.watch = "none" /\ u.result = "not dispatched"
      /\ u.cleanup = task[s].cleanup /\ u.settled = task[s].settled /\ u.terminal = task[s].terminal
  BY <1>1 DEF Undispatched, Task
<1> HIDE DEF u
<1>3. task' \in [Stages -> Task] /\ task'[s] = u /\ \A x \in Stages \ {s} : task'[x] = task[x]
  BY <1>1, <1>2, TaskMoves DEF IInv
<1>4. /\ spent' \in [Disturbances -> Nat]
      /\ spent'["lease failure"] = 0 => spent["lease failure"] = 0
  BY <1>1, SpendTyped DEF IInv, Disturbances
<1>5. TypeOK'
  BY <1>1, <1>3, <1>4 DEF IInv, TypeOK
<1>6. \A x \in Stages \ {s} : Same(x)
  BY <1>1, <1>3, <1>4 DEF Same, SameFiles, SameDownload, SameRecord, BusyWith
<1>7. Sound(s)'
  <2>1. ProgressOf(task[s])'
    BY <1>1, <1>2, <1>3 DEF Sound, ProgressOf, Watching
  <2>2. Unasked(s)'
    BY <1>1, <1>2, <1>3 DEF Sound, ProgressOf, Unasked, BusyWith, Holding, Watching
  <2>3. Known(s)'
    BY <1>1, <1>2, <1>3 DEF Sound, ProgressOf, Unasked, Known, Terminal, Watching
  <2>4. Held(s)'
    BY <1>1, <1>2, <1>3 DEF Sound, ProgressOf, Unasked, Known, Held, Watching
  <2>5. Recoverable(s)'
    BY <1>1, <1>2, <1>3
    DEF Sound, ProgressOf, Unasked, Known, Recoverable, Done, BusyWith, Holding, Terminal, Watching
  <2> QED BY <2>1, <2>2, <2>3, <2>4, <2>5 DEF Sound
<1> QED BY <1>5, <1>6, <1>7, StepKeeps

\* The stage of a commit without a URL is aborted, or left to its store.
LEMMA UndoesKeep == ASSUME IInv, NEW s \in Stages, Undoes(s) \/ UndoFails(s) PROVE IInv'
<1>1. PICK at \in {"over", "returned"} :
         /\ task' = [task EXCEPT ![s] = [task[s] EXCEPT !.at = at]]
         /\ at = "returned" => Spend("lease failure")
         /\ UNCHANGED spent \/ Spend("message failure") \/ Spend("lease failure")
         /\ bytes' = bytes \/ bytes' = bytes \ {s}
         /\ leases' = leases \/ leases' = leases \ {s}
         /\ timer' \in BOOLEAN
         /\ UNCHANGED <<kind, urls, document, download, erased, notices, registry, aged, active,
                        told, recovery>>
  BY DEF IInv, TypeOK, Undoes, UndoFails, GiveBack, browser
<1> DEFINE u == [task[s] EXCEPT !.at = at]
<1>2. task[s] \in Task /\ task[s].at = "undoing" /\ Sound(s)
  BY DEF IInv, TypeOK, Undoes, UndoFails
<1>3. /\ u \in Task /\ u.at = at /\ u.watch = task[s].watch /\ u.result = task[s].result
      /\ u.cleanup = task[s].cleanup /\ u.settled = task[s].settled /\ u.terminal = task[s].terminal
  BY <1>2 DEF Task
<1>4. task' = [task EXCEPT ![s] = u]
  BY <1>1
<1> HIDE DEF u
<1>5. task' \in [Stages -> Task] /\ task'[s] = u /\ \A x \in Stages \ {s} : task'[x] = task[x]
  BY <1>3, <1>4, TaskMoves DEF IInv
<1>6. /\ spent' \in [Disturbances -> Nat]
      /\ spent'["lease failure"] = 0 => spent["lease failure"] = 0
      /\ Spend("lease failure") => spent'["lease failure"] # 0
  BY <1>1, SpendTyped DEF IInv, Disturbances
<1>7. TypeOK'
  BY <1>1, <1>5, <1>6 DEF IInv, TypeOK
<1>8. \A x \in Stages \ {s} : Same(x)
  BY <1>1, <1>5, <1>6 DEF Same, SameFiles, SameDownload, SameRecord, BusyWith
<1>9. Sound(s)'
  <2>1. ProgressOf(task[s])'
    BY <1>1, <1>2, <1>3, <1>5, <1>6 DEF Sound, ProgressOf, Watching
  <2>2. Unasked(s)'
    BY <1>1, <1>2, <1>3, <1>5, <1>6 DEF Sound, ProgressOf, Unasked, BusyWith, Holding, Watching
  <2>3. Known(s)'
    <3>1. /\ task'[s].result = task[s].result /\ task'[s].terminal = task[s].terminal
          /\ UNCHANGED <<download, notices, told, erased>>
      BY <1>1, <1>3, <1>5
    <3> QED BY <1>2, <3>1 DEF Sound, Known, Terminal
  <2>4. Held(s)'
    <3>1. /\ task'[s].at = at /\ task'[s].watch = "none" /\ task'[s].cleanup = "none"
          /\ download'[s] = "none" /\ recovery' = recovery
      BY <1>1, <1>2, <1>3, <1>5 DEF Sound, ProgressOf, Unasked
    <3>2. ~(recovery'.on = s /\ recovery'.at = "forgetting")
      BY <1>1, <1>2 DEF Sound, ProgressOf, Unasked, BusyWith, Holding
    <3>3. s \in leases' /\ at = "returned" => spent'["lease failure"] # 0
      BY <1>1, <1>6
    <3> QED BY <3>1, <3>2, <3>3 DEF Held
  <2>5. Recoverable(s)'
    BY <1>1, <1>2, <1>3, <1>5, <1>6
    DEF Sound, ProgressOf, Unasked, Known, Recoverable, Done, BusyWith, Holding, Terminal, Watching
  <2> QED BY <2>1, <2>2, <2>3, <2>4, <2>5 DEF Sound
<1> QED BY <1>7, <1>8, <1>9, StepKeeps

\* The Obsidian output is through.
LEMMA ObsidianEndsKeeps == ASSUME IInv, NEW s \in Stages, ObsidianEnds(s) PROVE IInv'
<1> DEFINE u == [task[s] EXCEPT !.obsidian = "done"]
<1>1. task[s] \in Task /\ task[s].at = "outputs" /\ Sound(s)
  BY DEF IInv, TypeOK, ObsidianEnds
<1>2. /\ u \in Task /\ u.at = task[s].at /\ u.watch = task[s].watch /\ u.result = task[s].result
      /\ u.cleanup = task[s].cleanup /\ u.settled = task[s].settled /\ u.terminal = task[s].terminal
      /\ u.obsidian = "done"
  BY <1>1 DEF Task
<1>3. task' = [task EXCEPT ![s] = u] /\ UNCHANGED <<beyondTask, spent>>
  BY DEF IInv, TypeOK, ObsidianEnds
<1> HIDE DEF u
<1>4. /\ TypeOK' /\ task'[s] = u /\ \A x \in Stages \ {s} : Same(x)
      /\ UNCHANGED <<kind, bytes, urls, download, erased, notices, registry, aged, leases, active, told,
                     recovery, spent>>
  BY <1>2, <1>3, TaskOnly
<1>5. Sound(s)'
  <2>1. ProgressOf(task[s])'
    BY <1>1, <1>2, <1>4 DEF Sound, ProgressOf, Watching
  <2>2. Unasked(s)'
    BY <1>1, <1>2, <1>4 DEF Sound, ProgressOf, Unasked, BusyWith, Holding, Watching
  <2>3. Known(s)'
    BY <1>1, <1>2, <1>4 DEF Sound, ProgressOf, Unasked, Known, Terminal, Watching
  <2>4. Held(s)'
    BY <1>1, <1>2, <1>4 DEF Sound, ProgressOf, Unasked, Known, Held, Watching
  <2>5. Recoverable(s)'
    BY <1>1, <1>2, <1>4
    DEF Sound, ProgressOf, Unasked, Known, Recoverable, Done, BusyWith, Holding, Terminal, Watching
  <2> QED BY <2>1, <2>2, <2>3, <2>4, <2>5 DEF Sound
<1> QED BY <1>4, <1>5, StepKeeps

\* All outputs have settled; the cleanup begins if the download has ended.
LEMMA ReturnsKeeps == ASSUME IInv, NEW s \in Stages, Returns(s) PROVE IInv'
<1> DEFINE t == [task[s] EXCEPT !.at = "returned"]
           u == Cleaned(t)
<1>1. /\ task[s] \in Task /\ Sound(s) /\ task[s].at = "outputs" /\ task[s].obsidian = "done"
      /\ task[s].watch = "none" \/ task[s].settled
  BY DEF IInv, TypeOK, Returns
<1>2. task' = [task EXCEPT ![s] = u] /\ UNCHANGED <<beyondTask, spent>>
  BY DEF Returns
<1>3. /\ t \in Task /\ t.at = "returned" /\ t.watch = task[s].watch /\ t.result = task[s].result
      /\ t.cleanup = task[s].cleanup /\ t.settled = task[s].settled /\ t.terminal = task[s].terminal
  BY <1>1 DEF Task
<1>4. task[s].cleanup = "none"
  BY <1>1 DEF Sound, ProgressOf
<1> HIDE DEF t
<1>5. /\ u \in Task /\ u.at = "returned" /\ u.watch = task[s].watch /\ u.result = task[s].result
      /\ u.settled = task[s].settled /\ u.terminal = task[s].terminal
      /\ u.cleanup = IF u.terminal THEN "releasing" ELSE "none"
  BY <1>3, <1>4 DEF Cleaned, Owned, Task
<1> HIDE DEF u
<1>6. /\ TypeOK' /\ task'[s] = u /\ \A x \in Stages \ {s} : Same(x)
      /\ UNCHANGED <<kind, bytes, urls, download, erased, notices, registry, aged, leases, active, told,
                     recovery, spent>>
  BY <1>2, <1>5, TaskOnly
<1>7. Sound(s)'
  <2>1. ProgressOf(task[s])'
    BY <1>1, <1>5, <1>6 DEF Sound, ProgressOf, Watching
  <2>2. Unasked(s)'
    BY <1>1, <1>5, <1>6 DEF Sound, ProgressOf, Unasked, BusyWith, Holding, Watching
  <2>3. Known(s)'
    BY <1>1, <1>5, <1>6 DEF Sound, ProgressOf, Unasked, Known, Terminal, Watching
  <2>4. Held(s)'
    BY <1>1, <1>5, <1>6 DEF Sound, ProgressOf, Unasked, Known, Held, Watching
  <2>5. Recoverable(s)'
    BY <1>1, <1>5, <1>6
    DEF Sound, ProgressOf, Unasked, Known, Recoverable, Done, BusyWith, Holding, Terminal, Watching
  <2> QED BY <2>1, <2>2, <2>3, <2>4, <2>5 DEF Sound
<1> QED BY <1>6, <1>7, StepKeeps

-----------------------------------------------------------------------------
(* The download and its observer.                                          *)

\* The record is stored before the browser is asked.
LEMMA RemembersKeeps == ASSUME IInv, NEW s \in Stages, Remembers(s) PROVE IInv'
<1> DEFINE u == [task[s] EXCEPT !.watch = "asking", !.record = "provisional"]
<1>1. /\ task[s] \in Task /\ task[s].at = "outputs" /\ task[s].watch = "remembering" /\ Sound(s)
      /\ registry' = [registry EXCEPT ![s] = "provisional"]
      /\ download' = [download EXCEPT ![s] = "asked"]
      /\ active' = active \cup {s}
      /\ UNCHANGED <<kind, bytes, urls, document, erased, notices, aged, leases, timer, told,
                     recovery, spent>>
  BY DEF IInv, TypeOK, Remembers
<1>2. task' = [task EXCEPT ![s] = u]
  <2>1. task' = [task EXCEPT ![s].watch = "asking", ![s].record = "provisional"]
    BY DEF Remembers
  <2>2. task \in [Stages -> Task]
    BY DEF IInv, TypeOK
  <2> QED BY <2>1, <2>2
<1>3. /\ u \in Task /\ u.at = "outputs" /\ u.watch = "asking" /\ u.result = task[s].result
      /\ u.cleanup = task[s].cleanup /\ u.settled = task[s].settled /\ u.terminal = task[s].terminal
      /\ u.obsidian = task[s].obsidian
  BY <1>1 DEF Task, Records
<1> HIDE DEF u
<1>4. task' \in [Stages -> Task] /\ task'[s] = u /\ \A x \in Stages \ {s} : task'[x] = task[x]
  BY <1>2, <1>3, TaskMoves DEF IInv
<1>5. /\ registry'[s] = "provisional" /\ registry' \in [Stages -> Records]
      /\ download'[s] = "asked"
      /\ download' \in [Stages -> {"none", "asked", "running", "complete", "interrupted"}]
      /\ \A x \in Stages \ {s} : registry'[x] = registry[x] /\ download'[x] = download[x]
  BY <1>1 DEF IInv, TypeOK, Records
<1>6. TypeOK'
  BY <1>1, <1>4, <1>5 DEF IInv, TypeOK
<1>7. \A x \in Stages \ {s} : Same(x)
  BY <1>1, <1>4, <1>5 DEF Same, SameFiles, SameDownload, SameRecord, BusyWith
<1>8. Sound(s)'
  <2>1. ProgressOf(task[s])'
    BY <1>1, <1>3, <1>4, <1>5 DEF Sound, ProgressOf, Watching
  <2>2. Unasked(s)'
    BY <1>1, <1>3, <1>4, <1>5 DEF Sound, ProgressOf, Unasked, BusyWith, Holding, Watching
  <2>3. Known(s)'
    BY <1>1, <1>3, <1>4, <1>5 DEF Sound, ProgressOf, Unasked, Known, Terminal, Watching
  <2>4. Held(s)'
    BY <1>1, <1>3, <1>4, <1>5 DEF Sound, ProgressOf, Unasked, Known, Held, Watching
  <2>5. Recoverable(s)'
    BY <1>1, <1>3, <1>4, <1>5
    DEF Sound, ProgressOf, Unasked, Known, Recoverable, Done, BusyWith, Holding, Terminal, Watching
  <2> QED BY <2>1, <2>2, <2>3, <2>4, <2>5 DEF Sound
<1> QED BY <1>6, <1>7, <1>8, StepKeeps

\* The record is refused: an archive stage is not downloaded, a binary one is.
LEMMA RememberRefusedKeeps == ASSUME IInv, NEW s \in Stages, RememberRefused(s) PROVE IInv'
<1> DEFINE given == [task[s] EXCEPT !.watch = "over", !.settled = TRUE, !.terminal = TRUE,
                                    !.result = "not dispatched"]
           asked == [task[s] EXCEPT !.watch = "asking"]
           u == IF kind = "archive" THEN given ELSE asked
<1>1. /\ task[s] \in Task /\ task[s].at = "outputs" /\ task[s].watch = "remembering" /\ Sound(s)
      /\ download' = [download EXCEPT ![s] = IF kind = "archive" THEN @ ELSE "asked"]
      /\ active' = active \ {s}
      /\ UNCHANGED <<kind, bytes, urls, document, erased, notices, registry, aged, leases, timer, told,
                     recovery, spent>>
  BY DEF IInv, TypeOK, RememberRefused, WithoutRecord, DownloadAnyway
<1>2. task' = [task EXCEPT ![s] = u]
  BY <1>1 DEF IInv, TypeOK, RememberRefused, WithoutRecord, DownloadAnyway
<1>3. /\ u \in Task /\ u.at = "outputs" /\ u.cleanup = task[s].cleanup
      /\ u.obsidian = task[s].obsidian
      /\ kind = "archive" => /\ u.watch = "over" /\ u.settled /\ u.terminal
                             /\ u.result = "not dispatched"
      /\ kind # "archive" => /\ u.watch = "asking" /\ u.settled = task[s].settled
                             /\ u.terminal = task[s].terminal /\ u.result = task[s].result
  BY <1>1 DEF Task
<1> HIDE DEF u
<1>4. task' \in [Stages -> Task] /\ task'[s] = u /\ \A x \in Stages \ {s} : task'[x] = task[x]
  BY <1>2, <1>3, TaskMoves DEF IInv
<1>5. /\ download'[s] = IF kind = "archive" THEN download[s] ELSE "asked"
      /\ download' \in [Stages -> {"none", "asked", "running", "complete", "interrupted"}]
      /\ \A x \in Stages \ {s} : download'[x] = download[x]
  BY <1>1 DEF IInv, TypeOK
<1>6. TypeOK'
  BY <1>1, <1>4, <1>5 DEF IInv, TypeOK
<1>7. \A x \in Stages \ {s} : Same(x)
  BY <1>1, <1>4, <1>5 DEF Same, SameFiles, SameDownload, SameRecord, BusyWith
<1>8. Sound(s)'
  <2>1. ProgressOf(task[s])'
    BY <1>1, <1>3, <1>4, <1>5 DEF Sound, ProgressOf, Watching
  <2>2. Unasked(s)'
    BY <1>1, <1>3, <1>4, <1>5 DEF Sound, ProgressOf, Unasked, BusyWith, Holding, Watching
  <2>3. Known(s)'
    BY <1>1, <1>3, <1>4, <1>5 DEF Sound, ProgressOf, Unasked, Known, Terminal, Watching
  <2>4. Held(s)'
    BY <1>1, <1>3, <1>4, <1>5 DEF Sound, ProgressOf, Unasked, Known, Held, Watching
  <2>5. Recoverable(s)'
    BY <1>1, <1>3, <1>4, <1>5
    DEF Sound, ProgressOf, Unasked, Known, Recoverable, Done, BusyWith, Holding, Terminal, Watching
  <2> QED BY <2>1, <2>2, <2>3, <2>4, <2>5 DEF Sound
<1> QED BY <1>6, <1>7, <1>8, StepKeeps

\* The download has an id, and the record is to get it.
LEMMA CallbackArrivesKeeps == ASSUME IInv, NEW s \in Stages, CallbackArrives(s) PROVE IInv'
<1> DEFINE u == [task[s] EXCEPT !.watch = IF task[s].record = "provisional"
                                          THEN "assigning" ELSE "inspecting"]
<1>1. /\ task[s] \in Task /\ Sound(s) /\ task[s].watch = "asking"
      /\ download[s] \in {"running", "complete", "interrupted"}
  BY DEF IInv, TypeOK, CallbackArrives
<1>2. /\ u \in Task /\ u.at = task[s].at /\ u.watch \in Watching /\ u.result = task[s].result
      /\ u.cleanup = task[s].cleanup /\ u.settled = task[s].settled /\ u.terminal = task[s].terminal
      /\ u.obsidian = task[s].obsidian
  BY <1>1 DEF Task, Watching
<1>3. task' = [task EXCEPT ![s] = u] /\ UNCHANGED <<beyondTask, spent>>
  BY DEF IInv, TypeOK, CallbackArrives
<1> HIDE DEF u
<1>4. /\ TypeOK' /\ task'[s] = u /\ \A x \in Stages \ {s} : Same(x)
      /\ UNCHANGED <<kind, bytes, urls, download, erased, notices, registry, aged, leases, active, told,
                     recovery, spent>>
  BY <1>2, <1>3, TaskOnly
<1>5. u.watch \notin {"none", "remembering", "over"} /\ task[s].watch \in Watching
  BY <1>1, <1>2 DEF Watching
<1>6. ProgressOf(u) /\ Unasked(s)' /\ Known(s)'
  BY <1>1, <1>2, <1>4, <1>5 DEF Sound, ProgressOf, Unasked, Known, Terminal
<1>7. Held(s)' /\ Recoverable(s)'
  BY <1>1, <1>2, <1>4, <1>5 DEF Sound, Held, Recoverable, Done, BusyWith, Holding, Terminal
<1>8. Sound(s)'
  BY <1>4, <1>6, <1>7 DEF Sound
<1> QED BY <1>4, <1>8, StepKeeps

\* There will be no download.
LEMMA DownloadRefusedKeeps == ASSUME IInv, NEW s \in Stages, DownloadRefused(s) PROVE IInv'
<1>1. /\ task[s] \in Task /\ Sound(s) /\ download[s] = "asked"
      /\ download' = [download EXCEPT ![s] = "none"]
      /\ UNCHANGED <<kind, bytes, urls, document, erased, notices, registry, aged, leases, timer,
                     active, told, recovery, spent>>
  BY DEF IInv, TypeOK, DownloadRefused
<1>2. /\ download'[s] = "none"
      /\ download' \in [Stages -> {"none", "asked", "running", "complete", "interrupted"}]
      /\ \A x \in Stages \ {s} : download'[x] = download[x]
  BY <1>1 DEF IInv, TypeOK
<1>3. CASE task[s].watch = "asking"
  <2>1. /\ ProgressOf(task[s]) /\ task[s].watch \in Watching
        /\ task' = [task EXCEPT ![s] = Ended(task[s], "not dispatched")]
    BY <1>1, <1>3 DEF DownloadRefused, Sound, Watching
  <2>2. TypeOK /\ "not dispatched" \in {"unknown", "confirmed", "not dispatched"}
    BY DEF IInv
  <2>3. /\ task' \in [Stages -> Task] /\ \A x \in Stages \ {s} : task'[x] = task[x]
        /\ task'[s].at = task[s].at /\ task'[s].obsidian = task[s].obsidian
        /\ task'[s].terminal /\ task'[s].settled /\ task'[s].watch = "over"
        /\ task[s].settled => task'[s].result = task[s].result
        /\ ~task[s].settled => task'[s].result = "not dispatched"
        /\ task[s].settled /\ task[s].at = "returned" => task'[s].cleanup = "releasing"
        /\ ~(task[s].settled /\ task[s].at = "returned") => task'[s].cleanup = "none"
    BY <2>1, <2>2, EndsTask
  <2>4. TypeOK'
    BY <1>1, <1>2, <2>3 DEF IInv, TypeOK
  <2>5. \A x \in Stages \ {s} : Same(x)
    BY <1>1, <1>2, <2>3 DEF Same, SameFiles, SameDownload, SameRecord, BusyWith
  <2>6. Sound(s)'
    <3>1. ProgressOf(task[s])'
      BY <1>1, <1>2, <1>3, <2>3 DEF Sound, ProgressOf, Watching
    <3>2. Unasked(s)'
      BY <1>1, <1>2, <1>3, <2>3 DEF Sound, ProgressOf, Unasked, BusyWith, Holding, Watching
    <3>3. Known(s)'
      BY <1>1, <1>2, <1>3, <2>3 DEF Sound, ProgressOf, Unasked, Known, Terminal, Watching
    <3>4. Held(s)'
      BY <1>1, <1>2, <1>3, <2>3 DEF Sound, ProgressOf, Unasked, Known, Held, Watching
    <3>5. Recoverable(s)'
      BY <1>1, <1>2, <1>3, <2>3
      DEF Sound, ProgressOf, Unasked, Known, Recoverable, Done, BusyWith, Holding, Terminal, Watching
    <3> QED BY <3>1, <3>2, <3>3, <3>4, <3>5 DEF Sound
  <2> QED BY <2>4, <2>5, <2>6, StepKeeps
<1>4. CASE task[s].watch # "asking"
  <2>1. UNCHANGED task
    BY <1>4 DEF DownloadRefused
  <2>2. TypeOK'
    BY <1>1, <1>2, <2>1 DEF IInv, TypeOK
  <2>3. \A x \in Stages \ {s} : Same(x)
    BY <1>1, <1>2, <2>1 DEF Same, SameFiles, SameDownload, SameRecord, BusyWith
  <2>4. Sound(s)'
    <3>1. ProgressOf(task[s])'
      BY <1>1, <1>2, <2>1 DEF Sound, ProgressOf, Watching
    <3>2. Unasked(s)'
      BY <1>1, <1>2, <2>1 DEF Sound, ProgressOf, Unasked, BusyWith, Holding, Watching
    <3>3. Known(s)'
      BY <1>1, <1>2, <2>1 DEF Sound, ProgressOf, Unasked, Known, Terminal, Watching
    <3>4. Held(s)'
      BY <1>1, <1>2, <2>1 DEF Sound, ProgressOf, Unasked, Known, Held, Watching
    <3>5. Recoverable(s)'
      BY <1>1, <1>2, <2>1
      DEF Sound, ProgressOf, Unasked, Known, Recoverable, Done, BusyWith, Holding, Terminal, Watching
    <3> QED BY <3>1, <3>2, <3>3, <3>4, <3>5 DEF Sound
  <2> QED BY <2>2, <2>3, <2>4, StepKeeps
<1> QED BY <1>3, <1>4

\* The record gets the id, or keeps none.
LEMMA AssignsKeeps == ASSUME IInv, NEW s \in Stages, Assigns(s) PROVE IInv'
<1>1. PICK record \in Records, stored \in Records :
         /\ task' = [task EXCEPT ![s] = [task[s] EXCEPT !.watch = "inspecting", !.record = record]]
         /\ registry' = [registry EXCEPT ![s] = stored]
         /\ stored = "none" <=> registry[s] = "none"
         /\ UNCHANGED spent \/ Spend("storage failure")
  <2>1. task[s] \in Task /\ task \in [Stages -> Task] /\ registry \in [Stages -> Records]
    BY DEF IInv, TypeOK
  <2>2. CASE /\ registry[s] = "provisional"
             /\ registry' = [registry EXCEPT ![s] = "assigned"]
             /\ task' = [task EXCEPT ![s].watch = "inspecting", ![s].record = "assigned"]
             /\ UNCHANGED spent
    <3>1. task' = [task EXCEPT ![s] = [task[s] EXCEPT !.watch = "inspecting", !.record = "assigned"]]
      BY <2>1, <2>2
    <3> QED BY <2>2, <3>1 DEF Records
  <2>3. CASE /\ UNCHANGED spent \/ Spend("storage failure")
             /\ task' = [task EXCEPT ![s].watch = "inspecting"]
             /\ UNCHANGED registry
    <3>1. task[s] = [task[s] EXCEPT !.record = task[s].record] /\ task[s].record \in Records
      BY <2>1 DEF Task
    <3>2. [task[s] EXCEPT !.watch = "inspecting"] =
             [task[s] EXCEPT !.watch = "inspecting", !.record = task[s].record]
      BY <2>1 DEF Task
    <3>3. task' = [task EXCEPT ![s] =
                      [task[s] EXCEPT !.watch = "inspecting", !.record = task[s].record]]
      BY <2>1, <2>3, <3>2
    <3>4. registry' = [registry EXCEPT ![s] = registry[s]] /\ registry[s] \in Records
      BY <2>1, <2>3
    <3> QED BY <2>3, <3>1, <3>3, <3>4
  <2> QED BY <2>2, <2>3 DEF Assigns
<1> DEFINE u == [task[s] EXCEPT !.watch = "inspecting", !.record = record]
<1>2. /\ task[s] \in Task /\ task[s].watch = "assigning" /\ Sound(s)
      /\ active' = active \cup {s}
      /\ UNCHANGED <<kind, bytes, urls, document, download, erased, notices, aged, leases, timer, told,
                     recovery>>
  BY DEF IInv, TypeOK, Assigns, browser
<1>3. /\ u \in Task /\ u.at = task[s].at /\ u.watch = "inspecting" /\ u.result = task[s].result
      /\ u.cleanup = task[s].cleanup /\ u.settled = task[s].settled /\ u.terminal = task[s].terminal
      /\ u.obsidian = task[s].obsidian
  BY <1>2 DEF Task
<1>4. task' = [task EXCEPT ![s] = u]
  BY <1>1
<1> HIDE DEF u
<1>5. task' \in [Stages -> Task] /\ task'[s] = u /\ \A x \in Stages \ {s} : task'[x] = task[x]
  BY <1>3, <1>4, TaskMoves DEF IInv
<1>6. /\ registry'[s] = stored /\ registry' \in [Stages -> Records]
      /\ \A x \in Stages \ {s} : registry'[x] = registry[x]
  BY <1>1 DEF IInv, TypeOK
<1>7. /\ spent' \in [Disturbances -> Nat]
      /\ spent'["lease failure"] = 0 => spent["lease failure"] = 0
  BY <1>1, SpendTyped DEF IInv, Disturbances
<1>8. TypeOK'
  BY <1>2, <1>5, <1>6, <1>7 DEF IInv, TypeOK
<1>9. \A x \in Stages \ {s} : Same(x)
  BY <1>2, <1>5, <1>6, <1>7 DEF Same, SameFiles, SameDownload, SameRecord, BusyWith
<1>10. Sound(s)'
  <2>1. ProgressOf(task[s])'
    BY <1>1, <1>2, <1>3, <1>5, <1>6, <1>7 DEF Sound, ProgressOf, Watching
  <2>2. Unasked(s)'
    BY <1>1, <1>2, <1>3, <1>5, <1>6, <1>7 DEF Sound, ProgressOf, Unasked, BusyWith, Holding, Watching
  <2>3. Known(s)'
    BY <1>1, <1>2, <1>3, <1>5, <1>6, <1>7 DEF Sound, ProgressOf, Unasked, Known, Terminal, Watching
  <2>4. Held(s)'
    BY <1>1, <1>2, <1>3, <1>5, <1>6, <1>7 DEF Sound, ProgressOf, Unasked, Known, Held, Watching
  <2>5. Recoverable(s)'
    BY <1>1, <1>2, <1>3, <1>5, <1>6, <1>7
    DEF Sound, ProgressOf, Unasked, Known, Recoverable, Done, BusyWith, Holding, Terminal, Watching
  <2> QED BY <2>1, <2>2, <2>3, <2>4, <2>5 DEF Sound
<1> QED BY <1>8, <1>9, <1>10, StepKeeps


\* An observer that knows the end of its download settles its caller, or cleans up
\* after one that has left.
LEMMA EndsKeep ==
    ASSUME IInv, NEW s \in Stages, task[s].watch \in {"inspecting", "watching"}, Terminal(s),
           Ends(s), UNCHANGED <<beyondTask, spent>>
    PROVE  IInv'
<1>1. PICK result \in Results(s) : task' = [task EXCEPT ![s] = Ended(task[s], result)]
  BY DEF Ends
<1>2. /\ result \in {"unknown", "confirmed", "not dispatched"} /\ result # "not dispatched"
      /\ result = "confirmed" => download[s] = "complete"
  BY DEF Results
<1>3. TypeOK /\ Sound(s) /\ ProgressOf(task[s]) /\ task[s].watch \in Watching
  BY DEF IInv, Sound, Watching
<1>4. /\ task' \in [Stages -> Task] /\ \A x \in Stages \ {s} : task'[x] = task[x]
      /\ task'[s].at = task[s].at /\ task'[s].obsidian = task[s].obsidian
      /\ task'[s].terminal /\ task'[s].settled /\ task'[s].watch = "over"
      /\ task[s].settled => task'[s].result = task[s].result
      /\ ~task[s].settled => task'[s].result = result
      /\ task[s].settled /\ task[s].at = "returned" => task'[s].cleanup = "releasing"
      /\ ~(task[s].settled /\ task[s].at = "returned") => task'[s].cleanup = "none"
  BY <1>1, <1>2, <1>3, EndsTask
<1>5. UNCHANGED <<kind, bytes, urls, document, download, erased, notices, registry, aged, leases, timer,
                  active, told, recovery, spent>>
  BY DEF beyondTask, browser
<1>6. TypeOK'
  BY <1>3, <1>4, <1>5 DEF TypeOK
<1>7. \A x \in Stages \ {s} : Same(x)
  BY <1>4, <1>5 DEF Same, SameFiles, SameDownload, SameRecord, BusyWith
<1>8. ProgressOf(task[s])' /\ Unasked(s)' /\ Known(s)'
  BY <1>2, <1>3, <1>4, <1>5 DEF Sound, ProgressOf, Unasked, Known, Terminal, Watching
<1>9. Held(s)' /\ Recoverable(s)'
  BY <1>3, <1>4, <1>5
  DEF Sound, ProgressOf, Held, Recoverable, Done, BusyWith, Holding, Watching, Terminal
<1>10. Sound(s)'
  BY <1>8, <1>9 DEF Sound
<1> QED BY <1>6, <1>7, <1>10, StepKeeps

\* What was announced has ended, and what the list tells has.
LEMMA ToldIsTerminal == ASSUME IInv, NEW s \in Stages, s \in told \/ Listed(s) PROVE Terminal(s)
<1>1. Known(s)
  BY DEF IInv, Sound
<1> QED BY <1>1 DEF Known, Listed

\* A record of a commit whose only change is that its observer goes on watching,
\* or that its caller leaves.
LEMMA WatchesKeep ==
    ASSUME IInv, NEW s \in Stages, task[s].watch \in Watching, NEW u \in Task,
           task' = [task EXCEPT ![s] = u], UNCHANGED <<beyondTask, spent>>,
           u.watch \in Watching, u.at = task[s].at, u.obsidian = task[s].obsidian,
           u.terminal = task[s].terminal, u.cleanup = task[s].cleanup,
           \/ u.settled = task[s].settled /\ u.result = task[s].result
           \/ u.settled /\ u.result = "unknown"
    PROVE  IInv'
<1>1. /\ TypeOK' /\ task'[s] = u /\ \A x \in Stages \ {s} : Same(x)
      /\ UNCHANGED <<kind, bytes, urls, download, erased, notices, registry, aged, leases, active, told,
                     recovery, spent>>
  BY TaskOnly
<1>2. /\ u.watch \notin {"none", "remembering", "over"}
      /\ task[s].watch \notin {"none", "remembering", "over"}
  BY DEF Watching
<1>3. Sound(s)
  BY DEF IInv
<1>4. ProgressOf(u) /\ Unasked(s)' /\ Known(s)'
  BY <1>1, <1>2, <1>3 DEF Sound, ProgressOf, Unasked, Known, Terminal
<1>5. Held(s)' /\ Recoverable(s)'
  BY <1>1, <1>2, <1>3 DEF Sound, Held, Recoverable, Done, BusyWith, Holding, Terminal
<1>6. Sound(s)'
  BY <1>1, <1>4, <1>5 DEF Sound
<1> QED BY <1>1, <1>6, StepKeeps

\* After the callback the observer looks whether the download has ended.
LEMMA InspectsKeeps == ASSUME IInv, NEW s \in Stages, Inspects(s) PROVE IInv'
<1>1. task[s] \in Task /\ task \in [Stages -> Task]
  BY DEF IInv, TypeOK
<1>2. task[s].watch = "inspecting" /\ UNCHANGED <<beyondTask, spent>>
  BY DEF Inspects
<1>3. CASE (s \in told \/ Listed(s)) /\ Ends(s)
  BY <1>2, <1>3, ToldIsTerminal, EndsKeep
<1>4. CASE task' = [task EXCEPT ![s].watch = "watching"]
  <2> DEFINE u == [task[s] EXCEPT !.watch = "watching"]
  <2>1. task' = [task EXCEPT ![s] = u]
    BY <1>1, <1>4
  <2>2. /\ u \in Task /\ u.watch \in Watching /\ u.at = task[s].at /\ u.obsidian = task[s].obsidian
        /\ u.terminal = task[s].terminal /\ u.cleanup = task[s].cleanup
        /\ u.settled = task[s].settled /\ u.result = task[s].result /\ task[s].watch \in Watching
    BY <1>1, <1>2 DEF Task, Watching
  <2> HIDE DEF u
  <2> QED BY <1>2, <2>1, <2>2, WatchesKeep
<1> QED BY <1>3, <1>4 DEF Inspects

\* The observer learns the end, from the announcement or from the list.
LEMMA NoticesKeeps == ASSUME IInv, NEW s \in Stages, Notices(s) PROVE IInv'
<1>1. task[s].watch = "watching" /\ Ends(s) /\ UNCHANGED <<beyondTask, spent>>
  BY DEF Notices
<1>2. Terminal(s)
  BY ToldIsTerminal DEF Notices
<1> QED BY <1>1, <1>2, EndsKeep

\* The caller leaves without a confirmation.
LEMMA GivesUpKeeps == ASSUME IInv, NEW s \in Stages, GivesUp(s) PROVE IInv'
<1> DEFINE u == [task[s] EXCEPT !.settled = TRUE, !.result = "unknown"]
<1>1. task[s] \in Task /\ task \in [Stages -> Task]
  BY DEF IInv, TypeOK
<1>2. task[s].watch \in {"asking", "watching"} /\ UNCHANGED <<beyondTask, spent>>
  BY DEF GivesUp
<1>3. task' = [task EXCEPT ![s].settled = TRUE, ![s].result = "unknown"]
  BY DEF GivesUp
<1>4. task' = [task EXCEPT ![s] = u]
  BY <1>1, <1>3
<1>5. /\ u \in Task /\ u.watch = task[s].watch /\ u.at = task[s].at /\ u.obsidian = task[s].obsidian
      /\ u.terminal = task[s].terminal /\ u.cleanup = task[s].cleanup
      /\ u.settled /\ u.result = "unknown"
  BY <1>1 DEF Task
<1> HIDE DEF u
<1>6. u.watch \in Watching /\ task[s].watch \in Watching
  BY <1>2, <1>5 DEF Watching
<1> QED BY <1>2, <1>4, <1>5, <1>6, WatchesKeep

-----------------------------------------------------------------------------
(* The cleanup by the commit itself.                                       *)

\* A step of a cleanup: it may take the bytes and the URL of the stage, its lease,
\* its mark and, once the bytes are gone, its record.
CleansUp(s, next) ==
    /\ task[s].cleanup \notin {"none", "over"}
    /\ bytes' \in {bytes, bytes \ {s}} /\ urls' \in {urls, urls \ {s}}
    /\ leases' \in {leases, leases \ {s}} /\ timer' \in BOOLEAN
    /\ active' \in {active, active \ {s}}
    /\ registry' \in [Stages -> Records]
    /\ \A x \in Stages \ {s} : registry'[x] = registry[x]
    /\ registry'[s] = registry[s] \/ (s \notin bytes' /\ registry'[s] = "none")
    /\ next = "aborting" => leases' = leases
    /\ next = "forgetting" => s \notin bytes'
    /\ next # "aborting" => s \notin leases'
    /\ next # "over" => active' = active
    /\ spent' \in [Disturbances -> Nat]
    /\ spent'["lease failure"] = 0 => spent["lease failure"] = 0
    /\ UNCHANGED <<kind, document, download, erased, notices, aged, told, recovery>>

LEMMA CleanupKeeps ==
    ASSUME IInv, NEW s \in Stages, NEW next \in {"aborting", "forgetting", "over"},
           task' = [task EXCEPT ![s].cleanup = next], CleansUp(s, next)
    PROVE  IInv'
<1> USE DEF CleansUp
<1> DEFINE u == [task[s] EXCEPT !.cleanup = next]
<1>1. task[s] \in Task /\ task \in [Stages -> Task] /\ Sound(s)
  BY DEF IInv, TypeOK
<1>2. task' = [task EXCEPT ![s] = u]
  BY <1>1
<1>3. /\ u \in Task /\ u.cleanup = next /\ u.at = task[s].at /\ u.watch = task[s].watch
      /\ u.settled = task[s].settled /\ u.terminal = task[s].terminal /\ u.result = task[s].result
  BY <1>1 DEF Task
<1> HIDE DEF u
<1>4. task' \in [Stages -> Task] /\ task'[s] = u /\ \A x \in Stages \ {s} : task'[x] = task[x]
  BY <1>2, <1>3, TaskMoves DEF IInv
<1>6. TypeOK'
  BY <1>4 DEF IInv, TypeOK
<1>7. \A x \in Stages \ {s} : Same(x)
  BY <1>4 DEF Same, SameFiles, SameDownload, SameRecord, BusyWith
<1>8. task[s].at = "returned" /\ task[s].terminal /\ task[s].watch \in {"none", "over"}
  BY <1>1 DEF Sound, ProgressOf
<1>9. ProgressOf(u)
  BY <1>1, <1>3, <1>8 DEF Sound, ProgressOf
<1>10. Unasked(s)' /\ Known(s)'
  BY <1>1, <1>3, <1>4 DEF Sound, Unasked, Known, Terminal, BusyWith
<1>11. Held(s)'
  BY <1>1, <1>3, <1>4, <1>8 DEF Sound, Held, Known
<1>12. Recoverable(s)'
  BY <1>1, <1>3, <1>4, <1>8 DEF Sound, Recoverable, Done, BusyWith, Holding, Terminal
<1>13. Sound(s)'
  BY <1>4, <1>9, <1>10, <1>11, <1>12 DEF Sound
<1> QED BY <1>6, <1>7, <1>13, StepKeeps

\* The document revokes the URL and removes the files, or does not.
LEMMA ReleasesKeeps == ASSUME IInv, NEW s \in Stages, Releases(s) PROVE IInv'
<1>1. PICK next \in {"forgetting", "aborting"} :
         /\ task' = [task EXCEPT ![s].cleanup = next]
         /\ bytes' \in {bytes, bytes \ {s}} /\ urls' \in {urls, urls \ {s}}
         /\ next = "forgetting" => bytes' = bytes \ {s} /\ GiveBack(s)
         /\ next = "aborting" => UNCHANGED <<leases, timer>>
         /\ Spend("message failure") \/ UNCHANGED spent
  BY DEF Releases, ReleaseRefused
<1>2. /\ task[s].cleanup \notin {"none", "over"}
      /\ registry \in [Stages -> Records] /\ timer \in BOOLEAN
      /\ UNCHANGED <<kind, document, download, erased, notices, registry, aged, active, told, recovery>>
  BY DEF Releases, browser, IInv, TypeOK
<1>3. /\ leases' \in {leases, leases \ {s}} /\ timer' \in BOOLEAN
      /\ next \in {"aborting", "forgetting", "over"}
      /\ next = "aborting" => leases' = leases
      /\ next # "aborting" => s \notin leases'
      /\ next = "forgetting" => s \notin bytes'
  BY <1>1, <1>2 DEF GiveBack
<1>4. /\ spent' \in [Disturbances -> Nat]
      /\ spent'["lease failure"] = 0 => spent["lease failure"] = 0
  BY <1>1, SpendTyped DEF IInv, Disturbances
<1>8. CleansUp(s, next)
  BY <1>1, <1>2, <1>3, <1>4 DEF CleansUp
<1>9. next \in {"aborting", "forgetting", "over"} /\ task' = [task EXCEPT ![s].cleanup = next]
  BY <1>1
<1> QED BY <1>8, <1>9, CleanupKeeps

\* The fallback removes the files, or leaves them to recovery.
LEMMA AbortsKeeps == ASSUME IInv, NEW s \in Stages, Aborts(s) PROVE IInv'
<1>1. PICK next \in {"forgetting", "over"} :
         /\ task' = [task EXCEPT ![s].cleanup = next]
         /\ bytes' \in {bytes, bytes \ {s}} /\ active' \in {active, active \ {s}}
         /\ next = "forgetting" => bytes' = bytes \ {s} /\ active' = active
         /\ Spend("message failure") \/ UNCHANGED spent
  BY DEF Aborts
<1>2. /\ task[s].cleanup \notin {"none", "over"} /\ registry \in [Stages -> Records]
      /\ leases' = leases \ {s} /\ timer' \in BOOLEAN
      /\ UNCHANGED <<kind, urls, document, download, erased, notices, registry, aged, told, recovery>>
  BY DEF Aborts, GiveBack, browser, IInv, TypeOK
<1>3. /\ next \in {"aborting", "forgetting", "over"} /\ next # "aborting" /\ s \notin leases'
      /\ next = "forgetting" => s \notin bytes'
      /\ next # "over" => active' = active
  BY <1>1, <1>2
<1>4. /\ spent' \in [Disturbances -> Nat]
      /\ spent'["lease failure"] = 0 => spent["lease failure"] = 0
  BY <1>1, SpendTyped DEF IInv, Disturbances
<1>8. CleansUp(s, next)
  BY <1>1, <1>2, <1>3, <1>4 DEF CleansUp
<1>9. next \in {"aborting", "forgetting", "over"} /\ task' = [task EXCEPT ![s].cleanup = next]
  BY <1>1
<1> QED BY <1>8, <1>9, CleanupKeeps

\* The record goes, or stays if its storage fails.
LEMMA ForgetsKeeps == ASSUME IInv, NEW s \in Stages, Forgets(s) PROVE IInv'
<1>1. PICK next \in {"over"} : task' = [task EXCEPT ![s].cleanup = next]
  BY DEF Forgets
<1>2. /\ task[s].cleanup = "forgetting" /\ registry \in [Stages -> Records] /\ timer \in BOOLEAN
      /\ UNCHANGED <<kind, bytes, urls, document, download, erased, notices, aged, leases, timer, told,
                     recovery>>
  BY DEF Forgets, browser, IInv, TypeOK
<1>3. /\ registry' = registry \/ registry' = [registry EXCEPT ![s] = "none"]
      /\ active' \in {active, active \ {s}}
      /\ Spend("storage failure") \/ UNCHANGED spent
  BY DEF Forgets, Without
<1>4. /\ task[s].cleanup \notin {"none", "over"} /\ next \in {"aborting", "forgetting", "over"}
      /\ next = "over" /\ s \notin bytes' /\ s \notin leases'
  BY <1>1, <1>2 DEF IInv, Sound, Held
<1>5. /\ registry' \in [Stages -> Records] /\ \A x \in Stages \ {s} : registry'[x] = registry[x]
      /\ registry'[s] = registry[s] \/ registry'[s] = "none"
  BY <1>2, <1>3 DEF Records
<1>6. /\ spent' \in [Disturbances -> Nat]
      /\ spent'["lease failure"] = 0 => spent["lease failure"] = 0
  BY <1>3, SpendTyped DEF IInv, Disturbances
<1>8. CleansUp(s, next)
  BY <1>1, <1>2, <1>3, <1>4, <1>5, <1>6 DEF CleansUp
<1>9. next \in {"aborting", "forgetting", "over"} /\ task' = [task EXCEPT ![s].cleanup = next]
  BY <1>1
<1> QED BY <1>8, <1>9, CleanupKeeps

-----------------------------------------------------------------------------
(* The browser, its user, and time.                                        *)

DownloadStates == {"none", "asked", "running", "complete", "interrupted"}

\* A download starts or ends, of itself or because it is cancelled.
LEMMA DownloadMoves ==
    ASSUME IInv, NEW s \in Stages, NEW state \in {"running", "complete", "interrupted"},
           download[s] \in {"asked", "running"}, download' = [download EXCEPT ![s] = state],
           notices' = notices \/ (notices' = notices \cup {s} /\ state # "running"),
           UNCHANGED <<kind, bytes, urls, document, erased, registry, aged, leases, timer, active,
                       told, task, recovery, spent>>
    PROVE  IInv'
<1>1. /\ Sound(s) /\ download'[s] = state /\ download' \in [Stages -> DownloadStates]
      /\ \A x \in Stages \ {s} : download'[x] = download[x]
  BY DEF IInv, TypeOK, DownloadStates
<1>2. TypeOK'
  BY <1>1 DEF IInv, TypeOK, DownloadStates
<1>3. \A x \in Stages \ {s} : Same(x)
  BY <1>1 DEF Same, SameFiles, SameDownload, SameRecord, BusyWith
<1>4. ProgressOf(task[s])' /\ Unasked(s)' /\ Known(s)'
  BY <1>1 DEF Sound, ProgressOf, Unasked, Known, Terminal, BusyWith
<1>5. Held(s)' /\ Recoverable(s)'
  BY <1>1 DEF Sound, Known, Held, Recoverable, Done, BusyWith, Holding, Terminal
<1>6. Sound(s)'
  BY <1>4, <1>5 DEF Sound
<1> QED BY <1>2, <1>3, <1>6, StepKeeps

LEMMA DownloadStartsKeeps == ASSUME IInv, NEW s \in Stages, DownloadStarts(s) PROVE IInv'
<1>1. PICK state \in {"running"} : download' = [download EXCEPT ![s] = state]
  BY DEF DownloadStarts
<1>2. /\ state \in {"running", "complete", "interrupted"} /\ download[s] \in {"asked", "running"}
      /\ notices' = notices
      /\ UNCHANGED <<kind, bytes, urls, document, erased, registry, aged, leases, timer, active,
                     told, task, recovery, spent>>
  BY DEF DownloadStarts, OnlyBrowser, worker
<1> QED BY <1>1, <1>2, DownloadMoves

LEMMA DownloadEndsKeeps == ASSUME IInv, NEW s \in Stages, DownloadEnds(s) PROVE IInv'
<1>1. PICK state \in {"complete", "interrupted"} : download' = [download EXCEPT ![s] = state]
  BY DEF DownloadEnds
<1>2. /\ state \in {"running", "complete", "interrupted"} /\ download[s] \in {"asked", "running"}
      /\ notices' = notices \cup {s} /\ state # "running"
      /\ UNCHANGED <<kind, bytes, urls, document, erased, registry, aged, leases, timer, active,
                     told, task, recovery, spent>>
  BY DEF DownloadEnds, OnlyBrowser, worker
<1> QED BY <1>1, <1>2, DownloadMoves

LEMMA CancelsKeeps == ASSUME IInv, NEW s \in Stages, Cancels(s) PROVE IInv'
<1>1. PICK state \in {"interrupted"} : download' = [download EXCEPT ![s] = state]
  BY DEF Cancels
<1>2. /\ state \in {"running", "complete", "interrupted"} /\ download[s] \in {"asked", "running"}
      /\ notices' = notices \cup {s} /\ state # "running"
      /\ UNCHANGED <<kind, bytes, urls, document, erased, registry, aged, leases, timer, active,
                     told, task, recovery, spent>>
  BY DEF Cancels, worker
<1> QED BY <1>1, <1>2, DownloadMoves

\* The user removes an ended download from the list.
LEMMA ErasesKeeps == ASSUME IInv, NEW s \in Stages, Erases(s) PROVE IInv'
<1>1. /\ Terminal(s) /\ erased' = erased \cup {s} /\ Sound(s)
      /\ UNCHANGED <<kind, bytes, urls, document, download, notices, registry, aged, leases, timer,
                     active, told, task, recovery, spent>>
  BY DEF Erases, OnlyBrowser, worker, IInv
<1>2. TypeOK'
  BY <1>1 DEF IInv, TypeOK
<1>3. \A x \in Stages \ {s} : Same(x)
  BY <1>1 DEF Same, SameFiles, SameDownload, SameRecord, BusyWith
<1>4. ProgressOf(task[s])' /\ Unasked(s)' /\ Known(s)'
  BY <1>1 DEF Sound, ProgressOf, Unasked, Known, Terminal, BusyWith
<1>5. Held(s)' /\ Recoverable(s)'
  BY <1>1 DEF Sound, Held, Recoverable, Done, BusyWith, Terminal
<1>6. Sound(s)'
  BY <1>4, <1>5 DEF Sound
<1> QED BY <1>2, <1>3, <1>6, StepKeeps

\* The end of a download is announced; recovery is wakened.
LEMMA AnnouncesKeeps == ASSUME IInv, NEW s \in Stages, Announces(s) PROVE IInv'
<1>1. /\ s \in notices /\ notices' = notices \ {s} /\ told' = told \cup {s} /\ Sound(s)
      /\ recovery' = Reconciling /\ recovery \in Recovery
      /\ UNCHANGED <<kind, bytes, urls, document, download, erased, registry, aged, leases, timer,
                     active, task, spent>>
  BY DEF Announces, IInv, TypeOK
<1>2. /\ recovery' \in Recovery
      /\ recovery' # recovery => /\ recovery'.at = "reading"
                                 /\ \A x \in Stages : recovery'.left[x] = "none"
  <2>1. CASE recovery.at = "idle"
    <3>1. recovery' = [NoRecovery EXCEPT !.at = "reading"]
      BY <1>1, <2>1 DEF Reconciling
    <3>2. NoRecovery \in Recovery /\ \A x \in Stages : NoRecovery.left[x] = "none"
      BY DefaultsTyped DEF NoRecovery, NothingLeft
    <3> QED BY <3>1, <3>2 DEF Recovery
  <2>2. CASE recovery.at # "idle"
    BY <1>1, <2>2 DEF Reconciling
  <2> QED BY <2>1, <2>2
<1>3. \A x \in Stages : SameRecord(x)
  BY <1>1, <1>2 DEF SameRecord, BusyWith, Holding
<1>4. TypeOK'
  BY <1>1, <1>2 DEF IInv, TypeOK
<1>5. \A x \in Stages \ {s} : Same(x)
  BY <1>1, <1>3 DEF Same, SameFiles, SameDownload
<1>6. ProgressOf(task[s])' /\ Unasked(s)' /\ Known(s)'
  BY <1>1, <1>3 DEF Sound, ProgressOf, Unasked, Known, Terminal, SameRecord
<1>7. Held(s)'
  BY <1>1, <1>2 DEF Sound, Held
<1>8. Recoverable(s)'
  BY <1>1, <1>3 DEF Sound, Recoverable, Done, BusyWith, Terminal, SameRecord
<1>9. Sound(s)'
  BY <1>6, <1>7, <1>8 DEF Sound
<1> QED BY <1>4, <1>5, <1>9, StepKeeps

\* A record comes of age.
LEMMA AgesKeeps == ASSUME IInv, NEW s \in Stages, Ages(s) PROVE IInv'
<1>1. /\ registry[s] # "none" /\ aged' = aged \cup {s} /\ Sound(s)
      /\ UNCHANGED <<kind, bytes, urls, document, download, erased, notices, registry, leases, timer,
                     active, told, task, recovery, spent>>
  BY DEF Ages, browser, worker, IInv
<1>2. TypeOK'
  BY <1>1 DEF IInv, TypeOK
<1>3. \A x \in Stages \ {s} : Same(x)
  BY <1>1 DEF Same, SameFiles, SameDownload, SameRecord, BusyWith
<1>4. ProgressOf(task[s])' /\ Unasked(s)' /\ Known(s)'
  BY <1>1 DEF Sound, ProgressOf, Unasked, Known, Terminal, BusyWith
<1>5. Held(s)' /\ Recoverable(s)'
  BY <1>1 DEF Sound, Held, Recoverable
<1>6. Sound(s)'
  BY <1>4, <1>5 DEF Sound
<1> QED BY <1>2, <1>3, <1>6, StepKeeps

\* The document is closed for want of leases: no output was reading a Blob.
LEMMA DocumentClosesKeeps == ASSUME IInv, DocumentCloses PROVE IInv'
<1>1. /\ leases = {} /\ document' = FALSE /\ urls' = {} /\ timer' = FALSE
      /\ UNCHANGED <<kind, bytes, download, erased, notices, registry, aged, leases, active, told, task,
                     recovery, spent>>
  BY DEF DocumentCloses
<1>2. TypeOK'
  BY <1>1 DEF IInv, TypeOK
<1>3. ASSUME NEW x \in Stages PROVE Sound(x)'
  <2>1. Sound(x)
    BY DEF IInv
  <2>2. ProgressOf(task[x])' /\ Unasked(x)' /\ Known(x)'
    BY <1>1, <2>1 DEF Sound, ProgressOf, Unasked, Known, Terminal, BusyWith
  <2>3. Held(x)'
    BY <1>1, <2>1 DEF Sound, Held
  <2>4. Recoverable(x)'
    BY <1>1, <2>1 DEF Sound, Recoverable, Done, BusyWith, Terminal
  <2> QED BY <2>2, <2>3, <2>4 DEF Sound
<1> QED BY <1>2, <1>3 DEF IInv

LEMMA OtherWorkKeeps == ASSUME IInv, OtherWork PROVE IInv'
<1>1. /\ Spend("other work") /\ document' = TRUE /\ timer' \in BOOLEAN
      /\ UNCHANGED <<kind, bytes, urls, download, erased, notices, registry, aged, leases, active, told,
                     task, recovery>>
  BY DEF OtherWork
<1>2. /\ spent' \in [Disturbances -> Nat]
      /\ spent'["lease failure"] = 0 => spent["lease failure"] = 0
  BY <1>1, SpendTyped DEF IInv, Disturbances
<1>3. TypeOK'
  BY <1>1, <1>2 DEF IInv, TypeOK
<1>4. \A x \in Stages : Same(x)
  BY <1>1, <1>2 DEF Same, SameFiles, SameDownload, SameRecord, BusyWith
<1> QED BY <1>3, <1>4, FrameKeeps DEF IInv

-----------------------------------------------------------------------------
(* Recovery.                                                               *)

\* A step of the recovery of a stage leaves the commits and the downloads alone, and
\* of the other stages everything.
RecoveryStep(s) ==
    /\ recovery' \in Recovery
    /\ bytes' \in {bytes, bytes \ {s}} /\ urls' \in {urls, urls \ {s}}
    /\ leases' \in {leases, leases \cup {"recovery"}, leases \ {"recovery"}} /\ timer' \in BOOLEAN
    /\ document' \in BOOLEAN
    /\ active' \in {active, active \ {s}}
    /\ registry' \in [Stages -> Records]
    /\ \A x \in Stages \ {s} : registry'[x] = registry[x]
    /\ \A x \in Stages : recovery'.left[x] \in {recovery.left[x], "none"}
    /\ recovery'.at \in {"searching"} \cup Holding => recovery'.on = s
    /\ spent' \in [Disturbances -> Nat]
    /\ spent'["lease failure"] = 0 => spent["lease failure"] = 0
    /\ UNCHANGED <<kind, download, erased, notices, aged, told, task>>

\* What it must respect of the stage itself: it takes only one that is done with,
\* and the record last.
Respects(s) ==
    /\ Recoverable(s)'
    /\ recovery.left[s] # "none" \/ BusyWith(s)
    /\ bytes' = bytes \/ (s \in aged \/ (Done(s) /\ (kind = "archive" => Terminal(s))))
    /\ urls' = urls \/ (s \in aged \/ Done(s))
    /\ registry' = registry \/ s \notin bytes'
    /\ recovery'.at = "forgetting" /\ recovery'.on = s => s \notin bytes'

LEMMA RecoveryKeeps ==
    ASSUME IInv, NEW s \in Stages, RecoveryStep(s), Respects(s) PROVE IInv'
<1>1. Sound(s) /\ TypeOK
  BY DEF IInv
<1>2. TypeOK'
  BY <1>1 DEF TypeOK, RecoveryStep
<1>3. \A x \in Stages : s # "recovery" /\ x # "recovery"
  BY StagedDownloadParameters
<1>4. \A x \in Stages \ {s} : Same(x)
  <2> TAKE x \in Stages \ {s}
  <2>1. task'[x] = task[x] /\ SameDownload(x)
    BY DEF SameDownload, RecoveryStep
  <2>2. SameFiles(x)
    BY <1>3 DEF SameFiles, RecoveryStep
  <2>3. SameRecord(x)
    BY DEF SameRecord, RecoveryStep, BusyWith
  <2> QED BY <2>1, <2>2, <2>3 DEF Same
<1>5. ProgressOf(task[s])' /\ Known(s)'
  BY <1>1 DEF Sound, ProgressOf, Known, Terminal, RecoveryStep
<1>6. Unasked(s)'
  BY <1>1 DEF Sound, Unasked, Respects, RecoveryStep
<1>7. Held(s)'
  BY <1>1, <1>3 DEF Sound, ProgressOf, Held, Respects, RecoveryStep, Done, Terminal
<1>8. Sound(s)'
  BY <1>5, <1>6, <1>7 DEF Sound, Respects
<1> QED BY <1>2, <1>4, <1>8, StepKeeps

\* The records of this moment are those to be looked at.
LEMMA RecoveryReadsKeeps == ASSUME IInv, RecoveryReads PROVE IInv'
<1>1. /\ recovery \in Recovery /\ registry \in [Stages -> Records]
      /\ UNCHANGED spent \/ Spend("storage failure")
      /\ UNCHANGED <<kind, bytes, urls, document, download, erased, notices, registry, aged, leases,
                     timer, active, told, task>>
  BY DEF RecoveryReads, OnlyRecovery, IInv, TypeOK
<1>2. /\ recovery' \in Recovery /\ recovery'.at \in {"idle", "next"}
      /\ \A x \in Stages : recovery'.left[x] \in {registry[x], "none"}
  <2>1. CASE recovery' = [recovery EXCEPT !.at = "next", !.left = registry]
    BY <1>1, <2>1 DEF Recovery
  <2>2. CASE recovery' = NoRecovery
    BY <2>2, DefaultsTyped DEF NoRecovery, NothingLeft
  <2> QED BY <2>1, <2>2 DEF RecoveryReads
<1>3. /\ spent' \in [Disturbances -> Nat]
      /\ spent'["lease failure"] = 0 => spent["lease failure"] = 0
  BY <1>1, SpendTyped DEF IInv, Disturbances
<1>4. TypeOK'
  BY <1>1, <1>2, <1>3 DEF IInv, TypeOK
<1>5. ASSUME NEW x \in Stages PROVE Sound(x)'
  <2>1. Sound(x) /\ ~BusyWith(x)'
    BY <1>2 DEF IInv, BusyWith, Holding
  <2>2. ProgressOf(task[x])' /\ Unasked(x)' /\ Known(x)'
    BY <1>1, <1>2, <2>1 DEF Sound, ProgressOf, Unasked, Known, Terminal
  <2>3. Held(x)'
    BY <1>1, <1>2, <1>3, <2>1 DEF Sound, Held
  <2>4. Recoverable(x)'
    BY <1>1, <1>2, <2>1 DEF Sound, Recoverable, Done
  <2> QED BY <2>2, <2>3, <2>4 DEF Sound
<1> QED BY <1>4, <1>5 DEF IInv

\* A record is judged: nobody of this worker answers for it, or it waits.
LEMMA RecoveryJudgesKeeps == ASSUME IInv, NEW s \in Stages, RecoveryJudges(s) PROVE IInv'
<1> DEFINE record == recovery.left[s]
           skip == [recovery EXCEPT !.left[s] = "none"]
           go(step) == [skip EXCEPT !.at = step, !.seen = record, !.on = s]
<1>1. /\ recovery \in Recovery /\ recovery.at = "next" /\ record # "none" /\ Sound(s)
      /\ registry \in [Stages -> Records] /\ leases \in SUBSET (Stages \cup {"recovery"})
      /\ timer \in BOOLEAN /\ document \in BOOLEAN
      /\ UNCHANGED <<kind, bytes, urls, download, erased, notices, registry, aged, active, told, task>>
  BY DEF RecoveryJudges, OnlyRecovery, IInv, TypeOK
<1>2. /\ skip \in Recovery /\ skip.at = "next" /\ skip.left[s] = "none"
      /\ \A x \in Stages \ {s} : skip.left[x] = recovery.left[x]
  BY <1>1 DEF Recovery, Records
<1>3. /\ go("releasing") \in Recovery /\ go("releasing").at = "releasing" /\ go("releasing").on = s
      /\ go("releasing").left = skip.left
  BY <1>1, <1>2 DEF Recovery
<1>4. /\ go("searching") \in Recovery /\ go("searching").at = "searching" /\ go("searching").on = s
      /\ go("searching").left = skip.left
  BY <1>1, <1>2 DEF Recovery
<1>5. /\ recovery' \in {skip, go("releasing"), go("searching")}
      /\ recovery' = go("releasing") => Due(record, s)
      /\ recovery' = go("searching") => Orphan(record, s)
      /\ leases' \in {leases, leases \cup {"recovery"}} /\ timer' \in BOOLEAN /\ document' \in BOOLEAN
      /\ UNCHANGED spent \/ Spend("lease failure")
  <2>1. CASE Due(record, s) /\ StartsRelease(go("releasing"), skip)
    BY <1>1, <1>2, <1>3, <1>4, <2>1 DEF StartsRelease, Lend
  <2>2. CASE /\ recovery' = IF Orphan(record, s) THEN go("searching") ELSE skip
             /\ UNCHANGED <<leases, timer, document, spent>>
    BY <1>1, <1>2, <1>3, <1>4, <2>2
  <2> QED BY <2>1, <2>2 DEF RecoveryJudges
<1> HIDE DEF skip, go
<1>6. /\ recovery' \in Recovery /\ recovery'.left[s] = "none"
      /\ \A x \in Stages \ {s} : recovery'.left[x] = recovery.left[x]
      /\ recovery'.at \in {"next", "releasing", "searching"}
      /\ recovery'.at # "next" => recovery'.on = s
      /\ recovery'.at = "releasing" => Due(record, s)
      /\ recovery'.at = "searching" => Orphan(record, s)
  BY <1>2, <1>3, <1>4, <1>5
<1>7. /\ spent' \in [Disturbances -> Nat]
      /\ spent'["lease failure"] = 0 => spent["lease failure"] = 0
  BY <1>5, SpendTyped DEF IInv, Disturbances
<1>8. RecoveryStep(s)
  BY <1>1, <1>5, <1>6, <1>7 DEF RecoveryStep, Holding
<1>9. Recoverable(s)'
  BY <1>1, <1>6 DEF Sound, Recoverable, Done, BusyWith, Holding, Due, Orphan, Terminal
<1>10. Respects(s)
  BY <1>1, <1>6, <1>9 DEF Respects
<1> QED BY <1>8, <1>10, RecoveryKeeps

\* The recovery goes on to the next record.
LEMMA NextRecordFits ==
    ASSUME recovery \in Recovery
    PROVE  /\ NextRecord \in Recovery /\ NextRecord.at = "next" /\ NextRecord.left = recovery.left
  BY DefaultsTyped DEF NextRecord, Recovery, Records

\* The download is looked up: only one that has ended, or is not known any more,
\* gives its stage free.
LEMMA RecoverySearchesKeeps == ASSUME IInv, RecoverySearches PROVE IInv'
<1>1. PICK s \in Stages : s = recovery.on
  BY DEF IInv, TypeOK, Recovery
<1>2. /\ recovery \in Recovery /\ recovery.at = "searching" /\ Sound(s)
      /\ registry \in [Stages -> Records] /\ timer \in BOOLEAN /\ document \in BOOLEAN
      /\ UNCHANGED <<kind, bytes, urls, download, erased, notices, registry, aged, active, told, task>>
  BY DEF RecoverySearches, OnlyRecovery, IInv, TypeOK
<1> DEFINE go == [recovery EXCEPT !.at = "releasing"]
<1>3. go \in Recovery /\ go.at = "releasing" /\ go.on = s /\ go.left = recovery.left
  BY <1>1, <1>2 DEF Recovery
<1>4. s \in erased => Terminal(s)
  BY <1>2 DEF Sound, Known
<1>5. /\ recovery' = NextRecord \/ (recovery' = go /\ Terminal(s))
      /\ leases' \in {leases, leases \cup {"recovery"}} /\ timer' \in BOOLEAN /\ document' \in BOOLEAN
      /\ UNCHANGED spent \/ Spend("lease failure") \/ Spend("lookup failure")
  BY <1>1, <1>2, <1>4 DEF RecoverySearches, StartsRelease, Lend
<1> HIDE DEF go
<1>6. /\ recovery' \in Recovery /\ recovery'.left = recovery.left
      /\ recovery'.at \in {"next", "releasing"}
      /\ recovery'.at = "releasing" => recovery'.on = s /\ Terminal(s)
  BY <1>2, <1>3, <1>5, NextRecordFits
<1>7. /\ spent' \in [Disturbances -> Nat]
      /\ spent'["lease failure"] = 0 => spent["lease failure"] = 0
  BY <1>5, SpendTyped DEF IInv, Disturbances
<1>8. RecoveryStep(s)
  BY <1>2, <1>5, <1>6, <1>7 DEF RecoveryStep, Holding
<1>9. BusyWith(s)
  BY <1>1, <1>2 DEF BusyWith
<1>10. Recoverable(s)'
  BY <1>2, <1>6, <1>9 DEF Sound, Recoverable, Done, BusyWith, Holding, Terminal
<1>11. Respects(s)
  BY <1>2, <1>6, <1>9, <1>10 DEF Respects
<1> QED BY <1>8, <1>11, RecoveryKeeps

\* What recovery holds is free to be taken.
LEMMA HeldIsFree ==
    ASSUME IInv, NEW s \in Stages, BusyWith(s), recovery.at \in Holding
    PROVE  s \in aged \/ (Done(s) /\ (kind = "archive" => Terminal(s)))
  BY DEF IInv, Sound, Recoverable

\* A stage that recovery has taken stays free until recovery is done with it.
LEMMA StaysRecoverable ==
    ASSUME IInv, NEW s \in Stages, BusyWith(s), recovery.at \in Holding,
           UNCHANGED <<kind, download, aged, task>>
    PROVE  Recoverable(s)'
<1>1. s \in aged \/ (Done(s) /\ (kind = "archive" => Terminal(s)))
  BY HeldIsFree
<1> QED BY <1>1 DEF Recoverable, Done, Terminal

LEMMA RecoveryReleasesKeeps == ASSUME IInv, RecoveryReleases PROVE IInv'
<1>1. PICK s \in Stages : s = recovery.on
  BY DEF IInv, TypeOK, Recovery
<1>2. /\ recovery \in Recovery /\ recovery.at = "releasing"
      /\ registry \in [Stages -> Records] /\ timer \in BOOLEAN /\ document \in BOOLEAN
      /\ UNCHANGED <<kind, document, download, erased, notices, registry, aged, active, told, task>>
  BY DEF RecoveryReleases, OnlyRecovery, IInv, TypeOK
<1>3. PICK next \in {"forgetting", "aborting"} :
         /\ recovery' = [recovery EXCEPT !.at = next]
         /\ bytes' \in {bytes, bytes \ {s}} /\ urls' \in {urls, urls \ {s}}
         /\ next = "forgetting" => bytes' = bytes \ {s}
         /\ leases' \in {leases, leases \ {"recovery"}} /\ timer' \in BOOLEAN
         /\ UNCHANGED spent \/ Spend("message failure")
  BY <1>1, <1>2 DEF RecoveryReleases, ReleaseRefused, GiveBack
<1>4. /\ recovery' \in Recovery /\ recovery'.left = recovery.left /\ recovery'.at = next
      /\ recovery'.on = s
  BY <1>1, <1>2, <1>3 DEF Recovery
<1>5. /\ spent' \in [Disturbances -> Nat]
      /\ spent'["lease failure"] = 0 => spent["lease failure"] = 0
  BY <1>3, SpendTyped DEF IInv, Disturbances
<1>6. RecoveryStep(s)
  BY <1>2, <1>3, <1>4, <1>5 DEF RecoveryStep
<1>7. BusyWith(s) /\ recovery.at \in Holding
  BY <1>1, <1>2 DEF BusyWith, Holding
<1>8. Recoverable(s)'
  BY <1>2, <1>7, StaysRecoverable
<1>9. s \in aged \/ (Done(s) /\ (kind = "archive" => Terminal(s)))
  BY <1>7, HeldIsFree
<1>10. Respects(s)
  BY <1>2, <1>3, <1>4, <1>7, <1>8, <1>9 DEF Respects
<1> QED BY <1>6, <1>10, RecoveryKeeps

LEMMA RecoveryAbortsKeeps == ASSUME IInv, RecoveryAborts PROVE IInv'
<1>1. PICK s \in Stages : s = recovery.on
  BY DEF IInv, TypeOK, Recovery
<1>2. /\ recovery \in Recovery /\ recovery.at = "aborting"
      /\ registry \in [Stages -> Records] /\ timer \in BOOLEAN /\ document \in BOOLEAN
      /\ UNCHANGED <<kind, urls, document, download, erased, notices, registry, aged, active, told, task>>
  BY DEF RecoveryAborts, OnlyRecovery, IInv, TypeOK
<1> DEFINE go == [recovery EXCEPT !.at = "forgetting"]
<1>3. /\ recovery' = NextRecord \/ (recovery' = go /\ bytes' = bytes \ {s})
      /\ bytes' \in {bytes, bytes \ {s}}
      /\ leases' = leases \ {"recovery"} /\ timer' \in BOOLEAN
      /\ UNCHANGED spent \/ Spend("message failure")
  BY <1>1, <1>2 DEF RecoveryAborts, GiveBack
<1>4. go \in Recovery /\ go.left = recovery.left /\ go.at = "forgetting" /\ go.on = s
  BY <1>1, <1>2 DEF Recovery
<1> HIDE DEF go
<1>5. /\ recovery' \in Recovery /\ recovery'.left = recovery.left
      /\ recovery'.at \in {"next", "forgetting"}
      /\ recovery'.at = "forgetting" => recovery'.on = s /\ s \notin bytes'
  BY <1>2, <1>3, <1>4, NextRecordFits
<1>6. /\ spent' \in [Disturbances -> Nat]
      /\ spent'["lease failure"] = 0 => spent["lease failure"] = 0
  BY <1>3, SpendTyped DEF IInv, Disturbances
<1>7. RecoveryStep(s)
  BY <1>2, <1>3, <1>5, <1>6 DEF RecoveryStep, Holding
<1>8. BusyWith(s) /\ recovery.at \in Holding
  BY <1>1, <1>2 DEF BusyWith, Holding
<1>9. Recoverable(s)'
  BY <1>2, <1>8, StaysRecoverable
<1>10. s \in aged \/ (Done(s) /\ (kind = "archive" => Terminal(s)))
  BY <1>8, HeldIsFree
<1>11. Respects(s)
  BY <1>2, <1>5, <1>8, <1>9, <1>10 DEF Respects
<1> QED BY <1>7, <1>11, RecoveryKeeps

LEMMA RecoveryForgetsKeeps == ASSUME IInv, RecoveryForgets PROVE IInv'
<1>1. PICK s \in Stages : s = recovery.on
  BY DEF IInv, TypeOK, Recovery
<1>2. /\ recovery \in Recovery /\ recovery.at = "forgetting"
      /\ registry \in [Stages -> Records] /\ timer \in BOOLEAN /\ document \in BOOLEAN
      /\ active' = active \ {s} /\ recovery' = NextRecord
      /\ UNCHANGED <<kind, bytes, urls, document, download, erased, notices, aged, leases, timer, told,
                     task>>
  BY <1>1 DEF RecoveryForgets, OnlyRecovery, IInv, TypeOK
<1>3. /\ registry' = registry \/ registry' = [registry EXCEPT ![s] = "none"]
      /\ UNCHANGED spent \/ Spend("storage failure")
  BY <1>1 DEF RecoveryForgets, Without
<1>4. registry' \in [Stages -> Records] /\ \A x \in Stages \ {s} : registry'[x] = registry[x]
  BY <1>2, <1>3 DEF Records
<1>5. recovery' \in Recovery /\ recovery'.left = recovery.left /\ recovery'.at = "next"
  BY <1>2, NextRecordFits
<1>6. /\ spent' \in [Disturbances -> Nat]
      /\ spent'["lease failure"] = 0 => spent["lease failure"] = 0
  BY <1>3, SpendTyped DEF IInv, Disturbances
<1>7. RecoveryStep(s)
  BY <1>2, <1>4, <1>5, <1>6 DEF RecoveryStep, Holding
<1>8. BusyWith(s) /\ recovery.at \in Holding
  BY <1>1, <1>2 DEF BusyWith, Holding
<1>9. Recoverable(s)'
  BY <1>2, <1>8, StaysRecoverable
<1>10. s \notin bytes
  BY <1>1, <1>2 DEF IInv, Sound, Held
<1>11. Respects(s)
  BY <1>2, <1>5, <1>8, <1>9, <1>10 DEF Respects
<1> QED BY <1>7, <1>11, RecoveryKeeps

LEMMA RecoveryEndsKeeps == ASSUME IInv, RecoveryEnds PROVE IInv'
<1>1. /\ recovery' = NoRecovery
      /\ UNCHANGED <<kind, bytes, urls, document, download, erased, notices, registry, aged, leases, timer,
                     active, told, task, spent>>
  BY DEF RecoveryEnds, OnlyRecovery
<1>2. /\ recovery' \in Recovery /\ recovery'.at = "idle"
      /\ \A x \in Stages : recovery'.left[x] = "none"
  BY <1>1, DefaultsTyped DEF NoRecovery, NothingLeft
<1>3. TypeOK'
  BY <1>1, <1>2 DEF IInv, TypeOK
<1>4. \A x \in Stages : Same(x)
  BY <1>1, <1>2 DEF Same, SameFiles, SameDownload, SameRecord, BusyWith, Holding
<1> QED BY <1>3, <1>4, FrameKeeps DEF IInv

-----------------------------------------------------------------------------
(* A worker that is lost, and the theorems.                                *)

\* A fresh worker knows nothing, and its recovery may take every stage that was
\* begun.
LEMMA FreshWorkerKeeps ==
    ASSUME IInv, FreshWorker,
           urls' \subseteq urls, notices' \subseteq notices, document' \in BOOLEAN,
           download' \in [Stages -> {"none", "asked", "running", "complete", "interrupted"}],
           \A x \in Stages : \/ download'[x] = download[x]
                             \/ download[x] = "asked" /\ download'[x] = "none"
                             \/ download[x] = "running" /\ download'[x] = "interrupted",
           spent' \in [Disturbances -> Nat],
           UNCHANGED <<kind, bytes, erased, registry, aged>>
    PROVE  IInv'
<1>1. /\ leases' = {} /\ timer' = FALSE /\ active' = {} /\ told' = {}
      /\ task' \in [Stages -> Task]
      /\ \A x \in Stages : task'[x] = IF task[x].at = "idle" THEN task[x] ELSE LostTask
  BY DefaultsTyped DEF FreshWorker, IInv, TypeOK
<1>2. /\ recovery' \in Recovery /\ recovery'.at = "reading"
      /\ \A x \in Stages : recovery'.left[x] = "none"
  BY DefaultsTyped DEF FreshWorker, NoRecovery, NothingLeft, Recovery
<1>3. TypeOK'
  BY <1>1, <1>2 DEF IInv, TypeOK
<1>4. ASSUME NEW x \in Stages PROVE Sound(x)'
  <2>1. Sound(x) /\ ~BusyWith(x)'
    BY <1>2 DEF IInv, BusyWith, Holding
  <2>2. CASE task[x].at = "idle"
    <3>1. task'[x] = task[x] /\ task[x].watch = "none"
      BY <1>1, <2>1, <2>2 DEF Sound, ProgressOf
    <3>2. download[x] = "none" /\ registry[x] = "none" /\ x \notin aged
      BY <2>1, <2>2, <3>1 DEF Sound, Unasked
    <3>3. ProgressOf(task[x])' /\ Unasked(x)' /\ Known(x)'
      BY <1>1, <1>2, <2>1, <2>2, <3>1, <3>2 DEF Sound, ProgressOf, Unasked, Known, Terminal
    <3>4. Held(x)' /\ Recoverable(x)'
      BY <1>1, <1>2, <2>1, <2>2, <3>1, <3>2 DEF Sound, ProgressOf, Held, Recoverable
    <3> QED BY <3>3, <3>4 DEF Sound
  <2>3. CASE task[x].at # "idle"
    <3>1. /\ task'[x].at = "lost" /\ task'[x].watch = "none" /\ ~task'[x].terminal
          /\ ~task'[x].settled /\ task'[x].result = "none" /\ task'[x].cleanup = "none"
      BY <1>1, <2>3 DEF LostTask, NoTask
    <3>2. ProgressOf(task[x])' /\ Unasked(x)'
      BY <3>1 DEF ProgressOf, Unasked, Watching
    <3>3. Known(x)'
      BY <1>1, <2>1, <3>1 DEF Sound, Known, Terminal
    <3>4. Held(x)' /\ Recoverable(x)'
      BY <1>1, <1>2, <2>1, <3>1 DEF Sound, Held, Recoverable, Done
    <3> QED BY <3>2, <3>3, <3>4 DEF Sound
  <2> QED BY <2>2, <2>3
<1> QED BY <1>3, <1>4 DEF IInv

LEMMA CrashesKeeps == ASSUME IInv, Crashes PROVE IInv'
<1>1. spent' \in [Disturbances -> Nat]
  BY SpendTyped DEF Crashes, IInv, Disturbances
<1> QED BY <1>1, FreshWorkerKeeps DEF Crashes, browser, IInv, TypeOK

LEMMA SleepsKeeps == ASSUME IInv, Sleeps PROVE IInv'
  BY FreshWorkerKeeps DEF Sleeps, browser, IInv, TypeOK

LEMMA BrowserRestartsKeeps == ASSUME IInv, BrowserRestarts PROVE IInv'
<1>1. spent' \in [Disturbances -> Nat]
  BY SpendTyped DEF BrowserRestarts, IInv, Disturbances
<1>2. /\ download' \in [Stages -> {"none", "asked", "running", "complete", "interrupted"}]
      /\ \A x \in Stages : \/ download'[x] = download[x]
                           \/ download[x] = "asked" /\ download'[x] = "none"
                           \/ download[x] = "running" /\ download'[x] = "interrupted"
  BY DEF BrowserRestarts, IInv, TypeOK
<1>3. /\ urls' \subseteq urls /\ notices' \subseteq notices /\ document' \in BOOLEAN
      /\ FreshWorker /\ UNCHANGED <<kind, bytes, erased, registry, aged>>
  BY DEF BrowserRestarts
<1> QED BY <1>1, <1>2, <1>3, FreshWorkerKeeps

-----------------------------------------------------------------------------

LEMMA InitSound == ASSUME Init PROVE IInv
<1>1. TypeOK
  BY StagedDownloadParameters, DefaultsTyped DEF Init, TypeOK, Records
<1>2. ASSUME NEW x \in Stages PROVE Sound(x)
  <2>1. ProgressOf(task[x]) /\ Unasked(x) /\ Known(x)
    BY DEF Init, NoTask, NoRecovery, NothingLeft, ProgressOf, Unasked, Known, BusyWith, Holding, Watching
  <2>2. Held(x) /\ Recoverable(x)
    BY DEF Init, NoTask, NoRecovery, NothingLeft, Held, Recoverable, BusyWith, Holding
  <2> QED BY <2>1, <2>2 DEF Sound
<1> QED BY <1>1, <1>2 DEF IInv

LEMMA NextKeeps == ASSUME IInv, [Next]_vars PROVE IInv'
<1>1. ASSUME NEW s \in Stages, Handler(s) PROVE IInv'
  BY <1>1, OpensKeeps, OpenFailsKeeps, UndoesKeep, ObsidianEndsKeeps, ReturnsKeeps, RemembersKeeps,
     RememberRefusedKeeps, CallbackArrivesKeeps, AssignsKeeps, InspectsKeeps, NoticesKeeps,
     GivesUpKeeps, ReleasesKeeps, AbortsKeeps, ForgetsKeeps
  DEF Handler
<1>2. ASSUME NEW s \in Stages, Download(s) PROVE IInv'
  BY <1>2, DownloadStartsKeeps, DownloadRefusedKeeps, DownloadEndsKeeps, AnnouncesKeeps, ErasesKeeps
  DEF Download
<1>3. ASSUME Recover PROVE IInv'
  BY <1>3, RecoveryReadsKeeps, RecoverySearchesKeeps, RecoveryReleasesKeeps, RecoveryAbortsKeeps,
     RecoveryForgetsKeeps, RecoveryEndsKeeps, RecoveryJudgesKeeps
  DEF Recover
<1>4. ASSUME NEW s \in Stages, Begin(s) \/ BeginFails(s) \/ Cancels(s) \/ Ages(s) PROVE IInv'
  BY <1>4, BeginKeeps, BeginFailsKeeps, CancelsKeeps, AgesKeeps
<1>5. CASE DocumentCloses \/ OtherWork \/ Crashes \/ Sleeps \/ BrowserRestarts
  BY <1>5, DocumentClosesKeeps, OtherWorkKeeps, CrashesKeeps, SleepsKeeps, BrowserRestartsKeeps
<1>6. CASE UNCHANGED vars
  <2>1. UNCHANGED <<kind, bytes, urls, document, download, erased, notices, registry, aged, leases,
                    timer, active, told, task, recovery, spent>>
    BY <1>6 DEF vars, browser, worker
  <2>2. TypeOK'
    BY <2>1 DEF IInv, TypeOK
  <2>3. \A x \in Stages : Same(x)
    BY <2>1 DEF Same, SameFiles, SameDownload, SameRecord, BusyWith
  <2> QED BY <2>2, <2>3, FrameKeeps DEF IInv
<1> QED BY <1>1, <1>2, <1>3, <1>4, <1>5, <1>6 DEF Next

\* The invariant, whatever fails and however many workers are lost.
THEOREM StagesStaySound == Spec => []IInv
<1>1. Init => IInv
  BY InitSound
<1>2. IInv /\ [Next]_vars => IInv'
  BY NextKeeps
<1> QED BY <1>1, <1>2, PTL DEF Spec

\* Every variable keeps its shape.
THEOREM TypesHold == Spec => []TypeOK
<1>1. IInv => TypeOK
  BY DEF IInv
<1> QED BY <1>1, StagesStaySound, PTL

\* The files of an archive stage are there while its download reads them, and the
\* Obsidian destination is never robbed of its Blob.
THEOREM BytesAreKept == Spec => []BytesOutliveReaders
<1>1. IInv => BytesOutliveReaders
  BY DEF IInv, Sound, Held, BytesOutliveReaders, BytesOutliveDownload
<1> QED BY <1>1, StagesStaySound, PTL

\* What a caller is told of the file is true.
THEOREM ReportsAreTrue == Spec => []ReportIsHonest
<1>1. IInv => ReportIsHonest
  BY DEF IInv, Sound, Known, ReportIsHonest
<1> QED BY <1>1, StagesStaySound, PTL

\* Nothing a commit leaves behind is forgotten.
THEOREM CleanupsAreAssured == Spec => []CleanupIsAssured
<1>1. ASSUME IInv PROVE Recorded
  BY <1>1 DEF IInv, Sound, Held, Recorded
<1>2. ASSUME IInv PROVE Leased
  <2> SUFFICES ASSUME NEW s \in leases \cap Stages, task[s].at = "returned",
                      spent["lease failure"] = 0
               PROVE  Observing(s) \/ task[s].cleanup \in {"releasing", "aborting"}
    BY DEF Leased
  <2>1. Held(s)
    BY <1>2 DEF IInv, Sound
  <2> QED BY <2>1 DEF Held, Watching, Observing
<1>3. IInv => CleanupIsAssured
  BY <1>1, <1>2 DEF CleanupIsAssured
<1> QED BY <1>3, StagesStaySound, PTL
=============================================================================

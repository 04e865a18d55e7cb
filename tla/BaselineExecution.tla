--------------------------- MODULE BaselineExecution ---------------------------
(***************************************************************************)
(* One-shot executions of reserved operations (execution-coordinator/      *)
(* index.ts) on the durable owner of BaselineOwner.                        *)
(*                                                                         *)
(* An execution claims its operation, spends the token of the claim at the *)
(* request to the provider, captures, hands the files of the archive to a  *)
(* sink and records the evidence; or it marks the operation as unknown.    *)
(* It may be told to stop at any time: what was started is awaited,        *)
(* nothing later is started.  What the capture and the producer make of    *)
(* the response, the leases on stages in which large files travel and the  *)
(* acquisition of attachments are not in this module.                      *)
(***************************************************************************)
EXTENDS BaselineOwner

CONSTANT
    Transports          \* subset of {"inline", "staged"}

ASSUME ExecutionBounds == Transports \subseteq {"inline", "staged"} /\ Transports # {}

VARIABLE
    run                 \* the executions

vars == <<ownerVars, run>>

Steps ==
    {"none", "claim", "capture", "consume", "request", "write", "mark", "evidence", "done", "lost"}

Run ==
    [at : Steps, staged : BOOLEAN, stopped : BOOLEAN, effect : BOOLEAN,
     then : {"end", "evidence"}, claim : Outcomes, consumption : Outcomes,
     evidence : Outcomes, uncertainty : Outcomes]

NoRun ==
    [at |-> "none", staged |-> FALSE, stopped |-> FALSE, effect |-> FALSE, then |-> "end",
     claim |-> "not-attempted", consumption |-> "not-attempted", evidence |-> "not-attempted",
     uncertainty |-> "not-attempted"]

\* Stores, handles, calls and executions keep their shape; what is stored keeps
\* within the limits of a checkpoint.
TypeOK == OwnerTypeOK /\ run \in [Executions -> Run]

Init == OwnerInit /\ run = [x \in Executions |-> NoRun]

Awaiting == {"claim", "consume", "mark", "evidence"}
Live(x) == run[x].at \notin {"none", "done", "lost"}

(***************************************************************************)
(* Where an execution goes when a call to its store has ended.             *)
(***************************************************************************)
Marking(r, then) == [r EXCEPT !.at = "mark", !.then = then]
Over(r) == [r EXCEPT !.at = "done", !.staged = FALSE, !.stopped = FALSE, !.then = "end"]

AfterClaim(r, outcome) ==
    LET s == [r EXCEPT !.claim = outcome]
    IN  IF outcome # "committed" THEN Over(s)
        ELSE IF r.stopped THEN Marking(s, "end")
        ELSE [s EXCEPT !.at = "capture"]

\* Mutant: the latch is not looked at.
AfterConsumeAnyway(r, outcome) ==
    LET s == [r EXCEPT !.consumption = outcome]
    IN  CASE outcome = "outcome-unknown" -> Over(s)
          [] outcome = "failed" -> Marking(s, "end")
          [] OTHER -> [s EXCEPT !.at = "request", !.effect = TRUE]

\* In the continuation of the consumed token the effect begins, unless the
\* execution was told to stop.
AfterConsume(r, outcome) ==
    LET s == [r EXCEPT !.consumption = outcome]
    IN  IF outcome = "outcome-unknown" THEN Over(s)
        ELSE IF outcome = "failed" \/ r.stopped THEN Marking(s, "end")
        ELSE [s EXCEPT !.at = "request", !.effect = TRUE]

\* Evidence follows the mark of an incomplete producer, not that of an unknown
\* outcome nor, in a staged execution, of one that was told to stop.
AfterMark(r, outcome) ==
    LET s == [r EXCEPT !.uncertainty = outcome]
    IN  IF r.then = "evidence" /\ outcome # "outcome-unknown" /\ ~(r.staged /\ r.stopped)
        THEN [s EXCEPT !.at = "evidence"] ELSE Over(s)

\* An unknown outcome may already contain the commit: nothing compensates it.
AfterEvidence(r, outcome) ==
    LET s == [r EXCEPT !.evidence = outcome]
    IN  IF outcome = "failed" /\ r.uncertainty = "not-attempted"
        THEN Marking(s, "end") ELSE Over(s)

Continued(r, outcome) ==
    CASE r.at = "claim" -> AfterClaim(r, outcome)
      [] r.at = "consume" -> AfterConsume(r, outcome)
      [] r.at = "mark" -> AfterMark(r, outcome)
      [] OTHER -> AfterEvidence(r, outcome)

\* A step of a call of x, and x goes on if it ended the call.
Continue(x) ==
    run' = IF call'[x].kind = "none"
           THEN [run EXCEPT ![x] = Continued(@, call'[x].outcome)] ELSE run

To(x, r) == run' = [run EXCEPT ![x] = r] /\ UNCHANGED ownerVars

(***************************************************************************)
(* Store calls.                                                            *)
(***************************************************************************)
\* A port is created and the execution makes its claim.
Claim(x) ==
    /\ run[x].at = "none"
    /\ \E h \in Handles, i \in Items :
          /\ CanBind(h, i)
          /\ port' = [port EXCEPT ![x] = [handle |-> h, item |-> i]]
          /\ PortCall(x, h, i, "claim", 0)
          /\ run' = IF call'[x].kind = "none"
                    THEN [run EXCEPT ![x] = AfterClaim(NoRun, "failed")]
                    ELSE [run EXCEPT ![x] = [NoRun EXCEPT !.at = "claim"]]

\* The capture asks for the conversation: the token is spent.
Consume(x) ==
    /\ run[x].at = "capture"
    /\ BoundCall(x, "consume", 0)
    /\ run' = IF call'[x].kind = "none"
              THEN [run EXCEPT ![x] = AfterConsume(@, "failed")]
              ELSE [run EXCEPT ![x].at = "consume"]

\* The operation's current revision is read first; a closed handle has none.
RecordOf(x) == disk.records[port[x].item]

ReadThenCall(x, kind) ==
    /\ call[x].kind = "none"
    /\ \/ /\ handle[port[x].handle].open /\ Admissible(disk)
          /\ BoundCall(x, kind, RecordOf(x).revision)
       \/ /\ ~handle[port[x].handle].open \/ ~Admissible(disk)
          /\ End(x, "failed") /\ UNCHANGED <<disk, port, spent>>
       \/ EndUnknown(x) /\ UNCHANGED <<disk, port>>

Mark(x) == run[x].at = "mark" /\ ReadThenCall(x, "mark") /\ Continue(x)

\* A staged execution that was told to stop begins no evidence.
RecordEvidence(x) ==
    /\ run[x].at = "evidence"
    /\ ~(run[x].staged /\ run[x].stopped)
    /\ ReadThenCall(x, "evidence") /\ Continue(x)

SkipEvidence(x) ==
    /\ run[x].at = "evidence" /\ call[x].kind = "none"
    /\ run[x].staged /\ run[x].stopped
    /\ To(x, IF run[x].uncertainty = "not-attempted" THEN Marking(run[x], "end") ELSE Over(run[x]))

StoreStep(x) == run[x].at \in Awaiting /\ CallStep(x) /\ Continue(x)

(***************************************************************************)
(* The capture and the producer.  Whatever fails in the capture is marked. *)
(***************************************************************************)
CaptureFails(x) ==
    /\ run[x].at \in {"capture", "request"}
    /\ To(x, Marking(run[x], "end"))

\* The provider has answered, and the raw file is written, then the files of each
\* destination that has it; a write that has begun is awaited (`guardedSink`).
Write(x) ==
    /\ run[x].at = "request" /\ ~run[x].stopped
    /\ To(x, [run[x] EXCEPT !.at = "write"])

Produced(r, complete) ==
    IF r.stopped \/ ~complete THEN Marking(r, "evidence") ELSE [r EXCEPT !.at = "evidence"]

Written(x) ==
    /\ run[x].at = "write"
    /\ \E complete \in BOOLEAN : To(x, Produced(run[x], complete))

\* The producer throws, or it ends without a write.
ProducerFails(x) ==
    \/ run[x].at \in {"request", "write"} /\ To(x, Marking(run[x], "end"))
    \/ run[x].at = "request" /\ To(x, Produced(run[x], FALSE))

\* The caller aborts: only a latch, which every later start looks at.  Nothing
\* before depends on the transport, so that it is chosen here.
Stop(x) ==
    /\ Live(x) /\ ~run[x].stopped /\ Event
    /\ \E t \in Transports :
          run' = [run EXCEPT ![x].stopped = TRUE, ![x].staged = t = "staged"]
    /\ UNCHANGED <<disk, handle, call, port, token, lastWord>>

Progress(x) ==
    \/ Claim(x) \/ Consume(x) \/ CaptureFails(x) \/ Write(x) \/ Written(x)
    \/ ProducerFails(x) \/ Mark(x) \/ RecordEvidence(x) \/ SkipEvidence(x) \/ StoreStep(x)

(***************************************************************************)
(* The operators of the handles, and what happens to their pages.          *)
(***************************************************************************)
Operate(h) ==
    /\ \/ \E kind \in StopKinds \cup PlanKinds : Request(h, kind)
       \/ \E lane \in Lanes : CallStep(<<h, lane>>)
       \/ Close(h)
    /\ UNCHANGED run

\* The page of a handle is lost, with the executions that use it.
LosePage(h) ==
    LET lost(x) == port[x].handle = h /\ Live(x)
    IN  /\ Restart(h)
        /\ run' = [x \in Executions |->
                      IF lost(x) THEN [NoRun EXCEPT !.at = "lost", !.effect = run[x].effect]
                      ELSE run[x]]

Next ==
    \/ \E x \in Executions : Progress(x) \/ Stop(x)
    \/ \E h \in Handles : Operate(h) \/ LosePage(h)

Spec == Init /\ [][Next]_vars

(***************************************************************************)
(* Properties.                                                             *)
(***************************************************************************)
\* "At most one invocation": for an item of the plan the provider is asked at
\* most once, by any execution of any handle, before or after any restart; and
\* never before the stored record says that it is asked.
AskedAtMostOnce ==
    /\ \A x, y \in Executions :
          run[x].effect /\ run[y].effect /\ port[x].item = port[y].item => x = y
    /\ \A x \in Executions :
          run[x].effect => RecordOf(x).phase \notin {"untouched", "reserved"}

\* "A failed pause does not restore authority": the provider is only asked through
\* a handle whose operator last said go.  A pause, a recovery, a mark or a close
\* holds from the moment it is called, whether or not it is stored, and an
\* activation that was asked for earlier does not undo it.  Nor does an execution
\* that was told to stop ask, wherever in its calls the stop has found it.
NoEffectAfterStop ==
    [][\A x \in Executions :
          run'[x].effect /\ ~run[x].effect =>
              lastWord[port[x].handle] = "go" /\ ~run[x].stopped]_vars

\* An execution that has ended told the truth about what is stored: evidence that
\* it reports is there, evidence it says failed is not, and an operation that it
\* leaves in flight is reported as one whose outcome is not recorded.
OutcomesAreHonest ==
    \A x \in Executions :
        run[x].at = "done" =>
            LET phase == RecordOf(x).phase
                r == run[x]
            IN  /\ r.evidence = "committed" => phase = "awaiting-resolution"
                /\ r.claim = "committed" /\ r.evidence \in {"failed", "not-attempted"} =>
                      phase # "awaiting-resolution"
                /\ r.uncertainty = "committed" => phase \in {"unknown", "awaiting-resolution"}
                /\ r.claim = "committed" /\ phase = "in-flight" =>
                      {r.consumption, r.evidence, r.uncertainty} \cap {"failed", "outcome-unknown"}
                         # {}
                /\ r.claim # "committed" => ~r.effect
=============================================================================

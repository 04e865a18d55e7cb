---------------------------- MODULE MCCaptures ----------------------------
(* The values with which TLC checks Captures: every disturbance of the      *)
(* temporary tab, and every happening of a preview, in some mixture.        *)
EXTENDS Captures, TLC

Calm == [d \in Disturbances |-> 0]

McMixes ==
    {[Calm EXCEPT !["navigation"] = 3],
     [Calm EXCEPT !["navigation"] = 1, !["reload"] = 1],
     [Calm EXCEPT !["bad-page"] = 2, !["refused-store"] = 1],
     [Calm EXCEPT !["bad-page"] = 1, !["closed-tab"] = 1],
     [Calm EXCEPT !["refused-tab"] = 1, !["worker-lost"] = 1, !["reload"] = 1]}

\* The happenings of a preview: those named, as often as told, and no others.
Of(some) == some @@ [h \in Happenings |-> 0]

Started == Of([start |-> 1])
Selected == Of([deadline |-> 1] @@ "selected-start" :> 1)

McAllowances ==
    {Of([start |-> 2, cleared |-> 1]),
     [Started EXCEPT !.stage = 1, !.reload = 1, !["refused-abort"] = 1],
     [Started EXCEPT !.stage = 1, !.deadline = 2, !["refused-abort"] = 1],
     [Started EXCEPT !.stage = 1, !["closed-window"] = 1, !["refused-abort"] = 1],
     [Started EXCEPT !["slow-answer"] = 1, !["reloaded-window"] = 1, !["closed-source"] = 1],
     [Started EXCEPT !.export = 1, !.wander = 1],
     [Started EXCEPT !.export = 1, !.settings = 1],
     [Started EXCEPT !.start = 2, !["other-leases"] = 1, !["refused-window"] = 1,
                     !["failed-capture"] = 1],
     [Selected EXCEPT !.reload = 1]}
=============================================================================

----------------------------- MODULE CommandLine -----------------------------
(***************************************************************************)
(* What the board promises to the host of a line sent to it: lines are     *)
(* executed one at a time, each is answered once, and the retcode of a     *)
(* line is reported after its answer and before the next line begins;      *)
(* unless the board stops for good.                                        *)
(***************************************************************************)
EXTENDS Integers

CONSTANT MaxLines  \* bound on the lines that wait

VARIABLES pending,  \* lines sent and not begun
          state,    \* of the line being executed, if any
          stopped   \* the board does nothing any more

vars == <<pending, state, stopped>>

Init == pending = 0 /\ state = "idle" /\ stopped = FALSE

Send ==
    /\ pending < MaxLines
    /\ pending' = pending + 1
    /\ UNCHANGED <<state, stopped>>

(* A line that is answered at once is reported at once too.                *)
Begin ==
    /\ ~stopped
    /\ state = "idle" /\ pending > 0
    /\ pending' = pending - 1
    /\ state' \in {"idle", "executing"}
    /\ UNCHANGED stopped

Answer ==
    /\ ~stopped
    /\ state = "executing"
    /\ state' = "answered"
    /\ UNCHANGED <<pending, stopped>>

Report ==
    /\ ~stopped
    /\ state = "answered"
    /\ state' = "idle"
    /\ UNCHANGED <<pending, stopped>>

(* The board may stop as it begins a line or ends one.                     *)
Stop ==
    /\ ~stopped
    /\ stopped' = TRUE
    /\ pending' \in {pending, pending - 1} \intersect Nat
    /\ state' \in {"idle", "executing", "answered"}

Next == Send \/ Begin \/ Answer \/ Report \/ Stop

Fairness == WF_vars(Begin) /\ WF_vars(Answer) /\ WF_vars(Report)

Safety == Init /\ [][Next]_vars
Spec == Safety /\ Fairness
=============================================================================

----------------------------- MODULE RowPipeline -----------------------------
(***************************************************************************)
(* What the row scheduler promises its frames, with no worker, lock or     *)
(* wake-up in sight: rows of a frame run one at a time and in order, a row *)
(* starts only when the rows it reads are published, and a frame publishes *)
(* a row before it counts as run.                                          *)
(***************************************************************************)
EXTENDS Naturals

CONSTANTS NumFrames, NumRows, Lag, Needs, Failing

Frame == 1 .. NumFrames

FAILED == NumRows + 1

VARIABLES
    pushed,     \* frames handed to the scheduler
    rowsRun,    \* rows of each frame that have run
    active,     \* frames with a row running
    published   \* rows each frame published, FAILED after a failure

vars == <<pushed, rowsRun, active, published>>

(* Rows of the input that row r needs before it can run. *)
Need(r) == IF r + Lag < NumRows THEN r + Lag ELSE NumRows

Init ==
    /\ pushed = 0
    /\ rowsRun = [f \in Frame |-> 0]
    /\ active = {}
    /\ published \in [0 .. NumFrames -> {0, NumRows}]
    /\ \A f \in Frame : published[f] = 0

Enter ==
    /\ pushed < NumFrames
    /\ pushed' = pushed + 1
    /\ UNCHANGED <<rowsRun, active, published>>

Begin(f) ==
    /\ f <= pushed
    /\ f \notin active
    /\ rowsRun[f] < NumRows
    /\ published[Needs[f]] >= Need(rowsRun[f])
    /\ active' = active \cup {f}
    /\ UNCHANGED <<pushed, rowsRun, published>>

Publish(f) ==
    /\ f \in active
    /\ \E value \in {rowsRun[f] + 1} \cup (IF f \in Failing THEN {FAILED} ELSE {}) :
         /\ published[f] < value
         /\ published' = [published EXCEPT ![f] = value]
    /\ UNCHANGED <<pushed, rowsRun, active>>

End(f) ==
    /\ f \in active
    /\ published[f] > rowsRun[f]
    /\ rowsRun' = [rowsRun EXCEPT ![f] = @ + 1]
    /\ active' = active \ {f}
    /\ UNCHANGED <<pushed, published>>

(* The counter outside the frames is raised. *)
External ==
    /\ \E value \in 1 .. NumRows :
         /\ published[0] < value
         /\ published' = [published EXCEPT ![0] = value]
    /\ UNCHANGED <<pushed, rowsRun, active>>

Next ==
    \/ Enter \/ External
    \/ \E f \in Frame : Begin(f) \/ Publish(f) \/ End(f)

Spec == Init /\ [][Next]_vars
=============================================================================

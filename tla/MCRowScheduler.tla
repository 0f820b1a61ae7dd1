--------------------------- MODULE MCRowScheduler ---------------------------
(* Small instances of RowScheduler: the dependency chain of the tests of   *)
(* rows.rs, one driver.                                                    *)
EXTENDS RowScheduler, TLC

CONSTANT d1

SoleDriver == [f \in 1 .. NumFrames |-> d1]

Chain == [f \in 1 .. NumFrames |-> f - 1]

WorkerSymmetry == Permutations(Workers)
=============================================================================

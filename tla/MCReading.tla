------------------------------ MODULE MCReading ------------------------------
(***************************************************************************)
(* A small instance of Reading for TLC.                                    *)
(***************************************************************************)
EXTENDS Reading, TLC

Three == 1..3
One == {1}
Limits == -1..2

WorkerSymmetry == Permutations(Workers)
=============================================================================

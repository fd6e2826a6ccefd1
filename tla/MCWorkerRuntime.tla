-------------------------- MODULE MCWorkerRuntime --------------------------
(***************************************************************************)
(* Small instances of WorkerRuntime for TLC.                               *)
(***************************************************************************)
EXTENDS WorkerRuntime

Two == 1..2
=============================================================================

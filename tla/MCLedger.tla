------------------------------ MODULE MCLedger ------------------------------
(***************************************************************************)
(* Small instances of Ledger for TLC.                                      *)
(***************************************************************************)
EXTENDS Ledger

Three  == 1..3
OneTwo == {1, 2}
=============================================================================

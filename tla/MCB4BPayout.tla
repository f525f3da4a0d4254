------------------------------ MODULE MCB4BPayout ------------------------------
(***************************************************************************)
(* Instances of B4BPayout for TLC.                                         *)
(***************************************************************************)
EXTENDS B4BPayout
=============================================================================

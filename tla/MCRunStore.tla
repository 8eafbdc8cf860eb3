------------------------------ MODULE MCRunStore ------------------------------
(***************************************************************************)
(* Instance of RunStore for TLC.                                           *)
(***************************************************************************)
EXTENDS RunStore, TLC
CONSTANTS c1, c2
=============================================================================

------------------------------ MODULE MCRunStore ------------------------------
(* Instances of RunStore for TLC. *)
EXTENDS RunStore, TLC
=============================================================================

------------------------------ MODULE MCAiLoop ------------------------------
(* Instances of AiLoop for TLC. *)
EXTENDS AiLoop, TLC
=============================================================================

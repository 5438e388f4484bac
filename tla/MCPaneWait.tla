----------------------------- MODULE MCPaneWait -----------------------------
(* Instances of PaneWait for TLC. *)
EXTENDS PaneWait, TLC

CONSTANTS c1, p1, sweep
=============================================================================

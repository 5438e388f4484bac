---------------------------- MODULE MCRunDriver ----------------------------
(* Instances of RunDriver for TLC. *)
EXTENDS RunDriver, TLC

\* Every mixture of a bound on steps, a bound on cost and a clock.
MCRails == [iterations : {None, 2}, cost : {None, 3}, duration : {None, 2}]
=============================================================================

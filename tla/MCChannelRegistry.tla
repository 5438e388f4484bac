-------------------------- MODULE MCChannelRegistry --------------------------
(* Instances of ChannelRegistry for TLC. *)
EXTENDS ChannelRegistry, TLC

CONSTANTS s1, s2, n1, n2, n3, c1, w1

\* Names and sessions are interchangeable.
Symmetry == Permutations(Names) \cup Permutations(Sessions)
=============================================================================

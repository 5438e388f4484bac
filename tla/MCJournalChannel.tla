-------------------------- MODULE MCJournalChannel --------------------------
(* Instances of JournalChannel for TLC. *)
EXTENDS JournalFeed, TLC

CONSTANTS c1, c2, a1, a2

\* c1 follows everything; c2 only what is announced and the creations.
MCFilter == [c \in Conns |-> IF c = c1 THEN Events
                             ELSE {e \in Events : e.kind # "closed"}]
=============================================================================

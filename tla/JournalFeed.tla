----------------------------- MODULE JournalFeed -----------------------------
(***************************************************************************)
(* JournalChannel implements EventFeed where every record has a revision   *)
(* of its own group: a client's place is what its cursor stands for.       *)
(***************************************************************************)
EXTENDS JournalChannel

Feed == INSTANCE EventFeed WITH
    Clients <- Conns,
    Wanted  <- Filter,
    feed    <- [n \in 1..Len(landed) |-> landed[n].event],
    place   <- [c \in Conns |->
                   Cardinality({n \in 1..Len(landed) : landed[n].revision <= cursor[c]})],
    have    <- [c \in Conns |-> {n \in got[c] : landed[n].event \in Filter[c]}],
    hole    <- reread

\* What a client is handed is what the feed holds between its place and the
\* next: the ring, its eviction, the cursors and the two ways of being told
\* (events/waitFor, events/subscribe) are not visible to it.
FeedSpec == Feed!Spec
=============================================================================

------------------------------ MODULE EventFeed ------------------------------
(***************************************************************************)
(* What following a session's changes promises, with no ring, no lock, no  *)
(* revision and no wait: a feed of events that only grows, and for each    *)
(* client a place in it.  A client is handed what it asked for between its *)
(* place and a later one, and its place moves there; or it is told of a    *)
(* hole, and reads everything again.                                       *)
(***************************************************************************)
EXTENDS Integers, Sequences

CONSTANTS
    Clients,
    Wanted      \* the events each client asks for

VARIABLES
    feed,       \* every event, in the order it happened
    place,      \* how much of it each client is done with
    have,       \* the positions each client was handed of what it wants
    hole        \* the position up to which it re-read everything

vars == <<feed, place, have, hole>>

Init ==
    /\ feed = <<>>
    /\ place = [c \in Clients |-> 0]
    /\ have = [c \in Clients |-> {}]
    /\ hole = [c \in Clients |-> 0]

Happen ==
    /\ \E n \in 0..Len(feed') : feed = SubSeq(feed', 1, n)
    /\ UNCHANGED <<place, have, hole>>

WantedBetween(c, from, to) == {n \in (from + 1)..to : feed[n] \in Wanted[c]}

Hand(c) ==
    /\ \E to \in place[c]..Len(feed) :
          /\ place' = [place EXCEPT ![c] = to]
          /\ have'  = [have EXCEPT ![c] = @ \cup WantedBetween(c, place[c], to)]
    /\ UNCHANGED <<feed, hole>>

HandHole(c) ==
    /\ \E to \in place[c]..Len(feed) :
          /\ place' = [place EXCEPT ![c] = to]
          /\ \E some \in SUBSET WantedBetween(c, place[c], to) :
                have' = [have EXCEPT ![c] = @ \cup some]
    /\ hole' = [hole EXCEPT ![c] = Len(feed)]
    /\ UNCHANGED feed

Next == Happen \/ \E c \in Clients : Hand(c) \/ HandHole(c)

Spec == Init /\ [][Next]_vars
=============================================================================

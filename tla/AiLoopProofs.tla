----------------------------- MODULE AiLoopProofs -----------------------------
(***************************************************************************)
(* Theorems about AiLoop, for every budget and every number of crashes.     *)
(*                                                                         *)
(* The invariant says, of the run as it is and of the place it would be put *)
(* back at, that an ending has its reason and that the budget of a recovery *)
(* stays spent as long as that recovery is the last one tried.  Every walk  *)
(* keeps it for the same reason, so there is one lemma for a walk and one   *)
(* for an error that is told to the statechart; the steps below say what    *)
(* each action walks with.                                                  *)
(***************************************************************************)
EXTENDS AiLoop, TLAPS

\* The reason of an ending, in a state, under an order, with a datamodel.
Settled(w, o, e) ==
    /\ w \in {"closing", "converged"} => e.doneReason # None \/ o = "standing_down"
    /\ e.doneReason = "stood_down" => o = "standing_down"

\* The recovery tried last has its budget spent.
Spent(e) ==
    /\ e.restartReason = "unasked" => e.unaskedSeen
    /\ e.restartReason = "wrote_nothing" => e.emptySeen

Inv ==
    /\ TypeOK
    /\ Settled(work, orders, d)
    /\ Spent(d)
    /\ place # None => Settled(place.work, place.orders, place.d) /\ Spent(place.d)
    /\ HeldIsParked

\* What NoRecoveryTwice says of one step.
Once ==
    work # "restarting" /\ work' = "restarting" /\ crashes' = crashes
    /\ d'.restartReason \in {"unasked", "wrote_nothing"}
    => d'.restartReason # d.restartReason

States == Working \cup Finals

-----------------------------------------------------------------------------
(***************************************************************************)
(* The walks.                                                              *)
(***************************************************************************)
LEMMA Reflecting ==
    ASSUME NEW e \in Data, NEW because
    PROVE  /\ EnterReflecting(e, because) \in Data
           /\ EnterReflecting(e, because).doneReason = e.doneReason
           /\ EnterReflecting(e, because).restartReason = e.restartReason
           /\ EnterReflecting(e, because).unaskedSeen = e.unaskedSeen
           /\ EnterReflecting(e, because).emptySeen = e.emptySeen
  <1> DEFINE r == IF because = "reask" THEN e.reasked ELSE 0
  <1>1. 0 \in 0 .. ReaskMax
    BY LoopAssumption
  <1>2. r \in 0 .. ReaskMax
    BY <1>1 DEF Data
  <1>3. EnterReflecting(e, because) =
          [e EXCEPT !.since = 0, !.refusals = 0, !.silences = 0,
                    !.instructed = FALSE, !.reasked = r]
    BY DEF EnterReflecting, Data
  <1> HIDE DEF r
  <1> DEFINE f == EnterReflecting(e, because)
  <1>4. f \in Data
    <2> DEFINE g == [e EXCEPT !.since = 0, !.refusals = 0]
               h == [g EXCEPT !.silences = 0, !.instructed = FALSE]
    <2>1. g \in Data
      BY DEF Data
    <2> HIDE DEF g
    <2>2. h \in Data
      BY <2>1 DEF Data
    <2> HIDE DEF h
    <2>3. [h EXCEPT !.reasked = r] \in Data
      BY <2>2, <1>2 DEF Data
    <2>4. f = [h EXCEPT !.reasked = r]
      BY <1>3, <1>2 DEF Data, g, h
    <2> QED BY <2>3, <2>4
  <1>5. f.doneReason = e.doneReason /\ f.restartReason = e.restartReason
    BY <1>3 DEF Data
  <1>6. f.unaskedSeen = e.unaskedSeen /\ f.emptySeen = e.emptySeen
    BY <1>3 DEF Data
  <1> QED BY <1>4, <1>5, <1>6

LEMMA Saying ==
    ASSUME NEW to, NEW because, say \in Sentences \cup {None}
    PROVE  EntrySays(to, because) \in Sentences \cup {None}
  BY DEF EntrySays, Sentences

\* A walk keeps the invariant when the datamodel it walks with does.
LEMMA WalkKeeps ==
    ASSUME Inv, NEW to \in States, NEW e \in Data, NEW because \in Whys,
           Settled(to, orders, e), Spent(e),
           WalkBecause(to, e, because),
           UNCHANGED <<orders, heldFor, place, crashes>>
    PROVE  /\ Inv'
           /\ to # "restarting" => Once
           /\ to = "restarting" /\ e.restartReason # d.restartReason => Once
  <1>1. /\ d' \in Data
        /\ d'.doneReason = e.doneReason
        /\ d'.restartReason = e.restartReason
        /\ d'.unaskedSeen = e.unaskedSeen
        /\ d'.emptySeen = e.emptySeen
    BY Reflecting DEF WalkBecause
  <1>2. say' \in Sentences \cup {None}
    BY Saying DEF WalkBecause, Inv, TypeOK
  <1>3. TypeOK'
    BY <1>1, <1>2 DEF WalkBecause, Inv, TypeOK, States
  <1>4. Settled(work, orders, d)' /\ Spent(d)'
    BY <1>1 DEF WalkBecause, Settled, Spent
  <1>5. HeldIsParked'
    BY DEF WalkBecause, HeldIsParked
  <1>6. (place # None => Settled(place.work, place.orders, place.d) /\ Spent(place.d))'
    BY DEF Inv, Settled, Spent
  <1>7. /\ to # "restarting" => Once
        /\ to = "restarting" /\ e.restartReason # d.restartReason => Once
    BY <1>1 DEF WalkBecause, Once
  <1> QED BY <1>3, <1>4, <1>5, <1>6, <1>7 DEF Inv

\* An event nothing takes.
LEMMA UnmovedKeeps ==
    ASSUME Inv, Unmoved, UNCHANGED <<orders, heldFor, place, crashes>>
    PROVE  Inv' /\ Once
  BY DEF Inv, Unmoved, TypeOK, Settled, Spent, HeldIsParked, Once

\* A walk to working that says something.
LEMMA SayingKeeps ==
    ASSUME Inv, NEW e \in Data, NEW sentence \in Sentences,
           e.doneReason = d.doneReason, Spent(e),
           WalkSaying(e, sentence),
           UNCHANGED <<orders, heldFor, place, crashes>>
    PROVE  Inv' /\ Once
  <1>1. TypeOK'
    BY DEF WalkSaying, Inv, TypeOK, Working, Whys
  <1>2. Settled(work, orders, d)' /\ Spent(d)'
    BY DEF WalkSaying, Inv, Settled, Spent
  <1>3. HeldIsParked' /\ Once
    BY DEF WalkSaying, HeldIsParked, Once
  <1> QED BY <1>1, <1>2, <1>3 DEF Inv, Settled, Spent

\* The place reported at the end of a pump is one the invariant holds of.
LEMMA ReportKeeps ==
    ASSUME Inv, Report, UNCHANGED <<work, orders, d, why, heldFor, crashes>>,
           say' \in Sentences \cup {None}
    PROVE  Inv' /\ Once
  <1>1. place' \in Places \cup {None}
    BY DEF Report, Place, Inv, TypeOK, Places
  <1>2. (place # None => Settled(place.work, place.orders, place.d) /\ Spent(place.d))'
    BY DEF Report, Place, Inv, Settled, Spent
  <1>3. TypeOK'
    BY <1>1 DEF Report, Inv, TypeOK
  <1>4. HeldIsParked' /\ Once
    BY DEF Report, HeldIsParked, Once
  <1> QED BY <1>2, <1>3, <1>4 DEF Inv, Settled, Spent

LEMMA ToldKeeps ==
    ASSUME Inv, NEW to \in States, NEW e \in Data,
           Settled(to, orders, e), Spent(e),
           ToldOf(to, e), UNCHANGED <<heldFor, crashes>>
    PROVE  /\ Inv'
           /\ to # "restarting" => Once
           /\ to = "restarting" /\ e.restartReason # d.restartReason => Once
  <1>1. place' \in Places \cup {None}
    BY DEF ToldOf, Place, Inv, TypeOK, Places, States, Whys
  <1>2. (place # None => Settled(place.work, place.orders, place.d) /\ Spent(place.d))'
    BY DEF ToldOf, Place, Settled, Spent
  <1>3. TypeOK'
    BY <1>1 DEF ToldOf, Inv, TypeOK, States, Whys
  <1>4. HeldIsParked'
    BY DEF ToldOf, HeldIsParked
  <1>5. Settled(work, orders, d)' /\ Spent(d)'
    BY DEF ToldOf, Settled, Spent
  <1>6. /\ to # "restarting" => Once
        /\ to = "restarting" /\ e.restartReason # d.restartReason => Once
    BY DEF ToldOf, Once
  <1> QED BY <1>2, <1>3, <1>4, <1>5, <1>6 DEF Inv

\* A walk to a state that is no ending and no replacement, with a datamodel
\* that has the reasons it had.
LEMMA WalkOn ==
    ASSUME Inv, NEW to \in States \ {"closing", "converged", "restarting"},
           NEW e \in Data, NEW because \in Whys,
           e.doneReason = d.doneReason, Spent(e),
           WalkBecause(to, e, because),
           UNCHANGED <<orders, heldFor, place, crashes>>
    PROVE  Inv' /\ Once
  <1>1. Settled(to, orders, e)
    BY DEF Inv, Settled
  <1> QED BY <1>1, WalkKeeps

LEMMA Plain ==
    ASSUME Inv, NEW to \in States \ {"closing", "converged", "restarting"},
           Walk(to, d), Walked
    PROVE  Inv' /\ Once
  <1>1. None \in Whys /\ d \in Data /\ Spent(d)
    BY DEF Whys, Inv, TypeOK
  <1> QED BY <1>1, WalkOn DEF Walk, Walked, host

\* What ends a wait anywhere ends the run, or passes.
LEMMA Passing ==
    ASSUME Inv, Cancelled \/ Gone \/ Unreadable \/ Nothing \/ (Unmoved /\ Walked)
    PROVE  Inv' /\ Once
  <1>1. CASE Nothing
    BY <1>1, ReportKeeps DEF Nothing, Null, host, Inv, TypeOK
  <1>2. CASE Unmoved /\ Walked
    BY <1>2, UnmovedKeeps DEF Walked, host
  <1>3. CASE Cancelled \/ Gone \/ Unreadable
    BY <1>3, Plain DEF Cancelled, Gone, Unreadable, States, Finals
  <1> QED BY <1>1, <1>2, <1>3

LEMMA Counted ==
    ASSUME NEW n \in Nat, NEW max \in Nat \cup {Never}
    PROVE  UpTo(n, max) \in Nat
  BY LoopAssumption DEF UpTo

LEMMA TurnDoneKeeps ==
    ASSUME Inv, TurnDone, Walked
    PROVE  Inv' /\ Once
  <1>1. PICK produced \in Produced :
          WalkBecause("judging",
             [d EXCEPT !.turns = UpTo(@ + 1, MaxTurns),
                       !.since = UpTo(@ + 1, ReflectEvery),
                       !.empties = CASE produced = "nothing" -> UpTo(@ + 1, EmptyMax)
                                     [] produced = "something" -> 0
                                     [] OTHER -> @,
                       !.unbanked = IF produced = "refused" THEN @ ELSE 0],
             IF produced = "refused" THEN "refused" ELSE None)
    BY DEF TurnDone
  <1> DEFINE empties == CASE produced = "nothing" -> UpTo(d.empties + 1, EmptyMax)
                          [] produced = "something" -> 0
                          [] OTHER -> d.empties
             unbanked == IF produced = "refused" THEN d.unbanked ELSE 0
             turns == UpTo(d.turns + 1, MaxTurns)
             since == UpTo(d.since + 1, ReflectEvery)
             because == IF produced = "refused" THEN "refused" ELSE None
             e == [d EXCEPT !.turns = turns, !.since = since,
                            !.empties = empties, !.unbanked = unbanked]
  <1>2. d \in Data
    BY DEF Inv, TypeOK
  <1>3. turns \in Nat /\ since \in Nat /\ UpTo(d.empties + 1, EmptyMax) \in Nat
    <2>1. {MaxTurns, ReflectEvery, EmptyMax} \subseteq Nat \cup {Never}
      BY LoopAssumption
    <2>2. d.turns + 1 \in Nat /\ d.since + 1 \in Nat /\ d.empties + 1 \in Nat
      BY <1>2 DEF Data
    <2> QED BY <2>1, <2>2, Counted
  <1>4. empties \in Nat /\ unbanked \in Nat
    BY <1>2, <1>3 DEF Data
  <1>5. WalkBecause("judging", e, because)
    BY <1>1, <1>2 DEF Data
  <1>6. because \in Whys
    BY DEF Whys
  <1> HIDE DEF turns, since, empties, unbanked, because
  <1>7. /\ e \in Data
        /\ e.doneReason = d.doneReason
        /\ e.restartReason = d.restartReason
        /\ e.unaskedSeen = d.unaskedSeen
        /\ e.emptySeen = d.emptySeen
    BY <1>2, <1>3, <1>4 DEF Data
  <1>8. Spent(e)
    BY <1>7 DEF Inv, Spent
  <1> HIDE DEF e
  <1>9. "judging" \in States \ {"closing", "converged", "restarting"}
    BY DEF States, Working
  <1> QED BY <1>5, <1>6, <1>7, <1>8, <1>9, WalkOn DEF Walked, host

LEMMA TurnBlockedKeeps ==
    ASSUME Inv, TurnBlocked, Walked
    PROVE  Inv' /\ Once
  BY Plain DEF TurnBlocked, States, Working

-----------------------------------------------------------------------------
(***************************************************************************)
(* The steps.                                                              *)
(***************************************************************************)
LEMMA PumpKeeps ==
    ASSUME Inv, Pump
    PROVE  Inv' /\ Once
  <1> USE DEF Pump, Over
  <1>1. PICK standDown \in {FALSE, "stand_down" \in Told} : OrdersWalk(standDown)
    OBVIOUS
  <1>2. orders' \in Orders /\ heldFor' \in 0 .. HoldWithin \cup {None}
    BY <1>1, LoopAssumption DEF OrdersWalk, Inv, TypeOK, Orders
  <1>3. /\ Ordered \in States
        /\ Ordered = work \/ Ordered \in {"awaiting_human", "working"}
        /\ held => Ordered # "working"
    BY DEF Ordered, Parked, LetGo, Inv, TypeOK, States, Working
  <1>4. /\ work' \in States
        /\ held => work' # "working"
        /\ work' \in {"closing", "converged"} => work \in {"closing", "converged"}
        /\ work' = "restarting" => work = "restarting"
    BY <1>3 DEF AfterRestart, States, Working, Finals
  <1>5. orders = "standing_down" => orders' = "standing_down"
    BY <1>1 DEF OrdersWalk
  <1>6. heldFor' # None => held /\ orders' \in {"held", "standing_down"}
    BY <1>1 DEF OrdersWalk, Inv, TypeOK, Orders
  <1>7. TypeOK'
    BY <1>2, <1>4 DEF Inv, TypeOK, States, Whys, Sentences
  <1>8. Settled(work, orders, d)' /\ Spent(d)'
    BY <1>4, <1>5 DEF Inv, Settled, Spent
  <1>9. HeldIsParked' /\ Once
    BY <1>4, <1>6 DEF HeldIsParked, Once
  <1> QED BY <1>7, <1>8, <1>9 DEF Inv, Settled, Spent

LEMMA WatchKeeps ==
    ASSUME Inv, StartReady \/ Sent \/ Watch \/ WatchClosing \/ WatchStopping
    PROVE  Inv' /\ Once
  <1>1. CASE StartReady
    BY <1>1, Plain, Passing DEF StartReady, States, Working
  <1>2. CASE Sent
    BY <1>2, Plain DEF Sent, States, Working
  <1>3. CASE Watch
    <2>1. ASSUME WalkBecause("service_down", d, "resumes"), Walked
          PROVE  Inv' /\ Once
      BY <2>1, WalkOn DEF Walked, host, States, Working, Whys, Inv, TypeOK
    <2> QED BY <1>3, <2>1, TurnDoneKeeps, TurnBlockedKeeps, Plain, Passing
            DEF Watch, States, Working
  <1>4. CASE WatchClosing
    <2>1. ASSUME In({"closing"}), Walk("converged", d), Walked
          PROVE  Inv' /\ Once
      <3>1. Settled("converged", orders, d)
        BY <2>1 DEF In, Inv, Settled
      <3> QED BY <2>1, <3>1, WalkKeeps
              DEF Walk, Walked, host, States, Finals, Whys, Inv, TypeOK
    <2> QED BY <1>4, <2>1, Plain, Passing DEF WatchClosing, States, Working
  <1>5. CASE WatchStopping
    BY <1>5, Plain, Passing DEF WatchStopping, States, Finals
  <1> QED BY <1>1, <1>2, <1>3, <1>4, <1>5

\* A walk to closing for a reason.
LEMMA ClosingKeeps ==
    ASSUME Inv, NEW reason \in DoneReasons, reason = "stood_down" => orders = "standing_down",
           Walk("closing", [d EXCEPT !.doneReason = reason]), Walked
    PROVE  Inv' /\ Once
  <1> DEFINE e == [d EXCEPT !.doneReason = reason]
  <1>1. /\ e \in Data
        /\ e.doneReason = reason
        /\ e.restartReason = d.restartReason
        /\ e.unaskedSeen = d.unaskedSeen
        /\ e.emptySeen = d.emptySeen
    BY DEF Inv, TypeOK, Data
  <1>2. reason # None
    BY LoopAssumption
  <1>3. Settled("closing", orders, e) /\ Spent(e)
    BY <1>1, <1>2 DEF Settled, Spent, Inv
  <1>4. Walk("closing", e)
    OBVIOUS
  <1> HIDE DEF e
  <1>5. "closing" \in States /\ None \in Whys
    BY DEF States, Working, Whys
  <1> QED BY <1>1, <1>3, <1>4, <1>5, WalkKeeps DEF Walk, Walked, host

\* A replacement for a reason that is not the last one's.
LEMMA RestartingKeeps ==
    ASSUME Inv, NEW reason \in {"wrote_nothing", "planned"},
           reason = "wrote_nothing" => ~d.emptySeen,
           Restarting(reason), Walked
    PROVE  Inv' /\ Once
  <1> DEFINE seen == d.emptySeen \/ reason = "wrote_nothing"
             e == [d EXCEPT !.restartReason = reason, !.emptySeen = seen]
  <1>1. d \in Data /\ seen \in BOOLEAN /\ reason \in RestartReasons
    BY DEF Inv, TypeOK, Data, RestartReasons
  <1>2. Walk("restarting", e)
    BY <1>1 DEF Restarting, Data
  <1>3. reason = "wrote_nothing" => seen
    OBVIOUS
  <1> HIDE DEF seen
  <1>4. /\ e \in Data
        /\ e.doneReason = d.doneReason
        /\ e.restartReason = reason
        /\ e.emptySeen = seen
    BY <1>1 DEF Data
  <1>5. Settled("restarting", orders, e) /\ Spent(e)
    BY <1>3, <1>4 DEF Settled, Spent, Inv
  <1> HIDE DEF e
  <1>6. "restarting" \in States /\ None \in Whys
    BY DEF States, Working, Whys
  <1>7. /\ Inv'
        /\ e.restartReason # d.restartReason => Once
    BY <1>2, <1>4, <1>5, <1>6, WalkKeeps DEF Walk, Walked, host
  <1>8. CASE reason = "wrote_nothing"
    <2>1. d.restartReason # "wrote_nothing"
      BY <1>8 DEF Inv, Spent
    <2> QED BY <1>4, <1>7, <1>8, <2>1
  <1>9. CASE reason = "planned"
    <2>1. d'.restartReason = "planned"
      BY <1>2, <1>4, <1>9 DEF Walk, WalkBecause
    <2> QED BY <1>7, <2>1 DEF Once
  <1> QED BY <1>8, <1>9

\* A judged turn, by the branch of the verdict it takes.
LEMMA JudgeKeeps ==
    ASSUME Inv, Judge
    PROVE  Inv' /\ Once
  <1>0. /\ In({"judging"}) /\ Walked
        /\ d \in Data /\ Spent(d) /\ None \in Whys
    BY DEF Judge, Inv, TypeOK, Whys
  <1>1. CASE stopShort /\ Walk("stopping", d)
    BY <1>0, <1>1, Plain DEF States, Working
  <1>2. CASE Unreadable
    BY <1>2, Passing
  <1>3. ASSUME NEW checked \in {"passed", "failed", "silent"}, Claimed(checked)
        PROVE  Inv' /\ Once
    <2>1. CASE orders = "standing_down" /\ Walk("closing", [d EXCEPT !.doneReason = "stood_down"])
      BY <1>0, <2>1, ClosingKeeps DEF DoneReasons
    <2>2. CASE Walk("reflecting", d)
      BY <1>0, <2>2, Plain DEF States, Working
    <2>3. CASE Walk("disputing", [d EXCEPT !.refusals = @ + 1])
      <3> DEFINE e == [d EXCEPT !.refusals = d.refusals + 1]
      <3>1. e \in Data /\ e.doneReason = d.doneReason /\ Spent(e)
        BY <1>0 DEF Data, Spent
      <3>2. Walk("disputing", e)
        BY <1>0, <2>3 DEF Data
      <3> HIDE DEF e
      <3> QED BY <1>0, <3>1, <3>2, WalkOn DEF Walk, Walked, host, States, Working
    <2>4. CASE Walk("unverified", [d EXCEPT !.silences = @ + 1])
      <3> DEFINE e == [d EXCEPT !.silences = d.silences + 1]
      <3>1. e \in Data /\ e.doneReason = d.doneReason /\ Spent(e)
        BY <1>0 DEF Data, Spent
      <3>2. Walk("unverified", e)
        BY <1>0, <2>4 DEF Data
      <3> HIDE DEF e
      <3> QED BY <1>0, <3>1, <3>2, WalkOn DEF Walk, Walked, host, States, Working
    <2>5. CASE WalkBecause("reflecting", d, "milestone")
      BY <1>0, <2>5, WalkOn DEF Walked, host, States, Working, Whys
    <2> QED BY <1>3, <2>1, <2>2, <2>3, <2>4, <2>5 DEF Claimed
  <1>4. ASSUME NEW full \in BOOLEAN, Unclaimed(full)
        PROVE  Inv' /\ Once
    <2>1. ASSUME NEW to \in {"service_down", "stopping", "failed", "reflecting"}, Walk(to, d)
          PROVE  Inv' /\ Once
      BY <1>0, <2>1, Plain DEF States, Working, Finals
    <2>2. CASE ~d.emptySeen /\ Restarting("wrote_nothing")
      BY <1>0, <2>2, RestartingKeeps
    <2>3. CASE WalkSaying(d, "turn")
      BY <1>0, <2>3, SayingKeeps DEF Walked, host, Sentences
    <2> QED BY <1>4, <2>1, <2>2, <2>3 DEF Unclaimed
  <1> QED BY <1>1, <1>2, <1>3, <1>4 DEF Judge

LEMMA DialogKeeps ==
    ASSUME Inv, Screen \/ Redirect \/ Widen
    PROVE  Inv' /\ Once
  <1>1. ASSUME Walk("working", [d EXCEPT !.instructed = TRUE]), Walked
        PROVE  Inv' /\ Once
    <2> DEFINE e == [d EXCEPT !.instructed = TRUE]
    <2>1. e \in Data /\ e.doneReason = d.doneReason /\ Spent(e)
      BY DEF Inv, TypeOK, Data, Spent
    <2>2. Walk("working", e)
      BY <1>1
    <2> HIDE DEF e
    <2> QED BY <1>1, <2>1, <2>2, WalkOn DEF Walk, Walked, host, States, Working, Whys
  <1>2. ASSUME NEW to \in {"working", "awaiting_human"}, Walk(to, d), Walked
        PROVE  Inv' /\ Once
    BY <1>2, Plain DEF States, Working
  <1> QED BY <1>1, <1>2, Passing DEF Screen, Redirect, Widen

LEMMA WaitOutServiceKeeps ==
    ASSUME Inv, WaitOutService
    PROVE  Inv' /\ Once
  <1> DEFINE unbanked == UpTo(d.unbanked + 1, Cap)
             e == [d EXCEPT !.unbanked = unbanked]
  <1>1. d \in Data /\ Spent(d) /\ None \in Whys
    BY DEF Inv, TypeOK, Whys
  <1>2. unbanked \in Nat
    <2>1. d.unbanked + 1 \in Nat /\ Cap \in Nat
      BY <1>1, LoopAssumption DEF Data
    <2> QED BY <2>1, Counted
  <1>3. [d EXCEPT !.unbanked = UpTo(@ + 1, Cap)] = e
    BY <1>1 DEF Data
  <1> HIDE DEF unbanked
  <1>4. e \in Data /\ e.doneReason = d.doneReason /\ Spent(e)
    BY <1>1, <1>2 DEF Data, Spent
  <1> HIDE DEF e
  <1>5. ASSUME NEW to \in {"awaiting_human", "failed"}, Walk(to, d), Walked
        PROVE  Inv' /\ Once
    BY <1>5, Plain DEF States, Working, Finals
  <1>6. ASSUME Walk("working", e), Walked
        PROVE  Inv' /\ Once
    BY <1>1, <1>4, <1>6, WalkOn DEF Walk, Walked, host, States, Working
  <1>7. ASSUME WalkSaying(e, "retry"), Walked
        PROVE  Inv' /\ Once
    BY <1>4, <1>7, SayingKeeps DEF Walked, host, Sentences
  <1> QED BY <1>3, <1>5, <1>6, <1>7, Passing DEF WaitOutService, OutageOver, Retry

\* Where a reflection's proposal leads.
LEMMA ProposedKeeps ==
    ASSUME Inv, NEW changed \in BOOLEAN, NEW fresh \in BOOLEAN,
           NEW admitted \in {"unasked", "admitted", "refused"},
           Proposed(changed, fresh, admitted), Walked
    PROVE  Inv' /\ Once
  <1>1. d \in Data /\ Spent(d) /\ {None, "reask"} \subseteq Whys
    BY DEF Inv, TypeOK, Whys
  <1>2. CASE Walk("closing", [d EXCEPT !.doneReason = "deferred"])
    BY <1>2, ClosingKeeps DEF DoneReasons
  <1>3. CASE /\ ~(d.reasked >= ReaskMax)
             /\ WalkBecause("reflecting", [d EXCEPT !.reasked = @ + 1], "reask")
    <2> DEFINE e == [d EXCEPT !.reasked = d.reasked + 1]
    <2>1. d.reasked + 1 \in 0 .. ReaskMax
      BY <1>1, <1>3, LoopAssumption DEF Data
    <2>2. e \in Data /\ e.doneReason = d.doneReason /\ Spent(e)
      BY <1>1, <2>1 DEF Data, Spent
    <2>3. WalkBecause("reflecting", e, "reask")
      BY <1>1, <1>3 DEF Data
    <2> HIDE DEF e
    <2> QED BY <1>1, <2>2, <2>3, WalkOn DEF Walked, host, States, Working
  <1>4. CASE WalkSaying(d, "turn")
    BY <1>1, <1>4, SayingKeeps DEF Walked, host, Sentences
  <1>5. CASE Walk("reviewing", [d EXCEPT !.reaimed = IF changed /\ ~fresh
                                                    THEN UpTo(@ + 1, ReaimMax) ELSE @])
    <2> DEFINE reaimed == IF changed /\ ~fresh
                          THEN UpTo(d.reaimed + 1, ReaimMax) ELSE d.reaimed
               e == [d EXCEPT !.reaimed = reaimed]
    <2>1. reaimed \in Nat
      <3>1. d.reaimed + 1 \in Nat /\ d.reaimed \in Nat /\ ReaimMax \in Nat \cup {Never}
        BY <1>1, LoopAssumption DEF Data
      <3> QED BY <3>1, Counted
    <2>2. Walk("reviewing", e)
      BY <1>1, <1>5 DEF Data
    <2> HIDE DEF reaimed
    <2>3. e \in Data /\ e.doneReason = d.doneReason /\ Spent(e)
      BY <1>1, <2>1 DEF Data, Spent
    <2> HIDE DEF e
    <2> QED BY <1>1, <2>2, <2>3, WalkOn DEF Walk, Walked, host, States, Working
  <1> QED BY <1>2, <1>3, <1>4, <1>5 DEF Proposed

LEMMA ReflectKeeps ==
    ASSUME Inv, Reflect
    PROVE  Inv' /\ Once
  <1>1. ASSUME Walk("closing", [d EXCEPT !.doneReason = "reached"]), Walked
        PROVE  Inv' /\ Once
    BY <1>1, ClosingKeeps DEF DoneReasons
  <1>2. ASSUME WalkSaying(d, "turn"), Walked
        PROVE  Inv' /\ Once
    BY <1>2, SayingKeeps DEF Walked, host, Sentences, Inv, TypeOK
  <1>3. ASSUME NEW changed \in BOOLEAN, NEW fresh \in BOOLEAN,
               NEW admitted \in {"unasked", "admitted", "refused"},
               Proposed(changed, fresh, admitted), Walked
        PROVE  Inv' /\ Once
    BY <1>3, ProposedKeeps
  <1>4. ASSUME Walk("awaiting_human", d), Walked
        PROVE  Inv' /\ Once
    BY <1>4, Plain DEF States, Working
  <1> QED BY <1>1, <1>2, <1>3, <1>4, Passing DEF Reflect

LEMMA ReviewKeeps ==
    ASSUME Inv, Review
    PROVE  Inv' /\ Once
  <1>1. ASSUME Walk("priming", [d EXCEPT !.since = 0]), Walked
        PROVE  Inv' /\ Once
    <2> DEFINE e == [d EXCEPT !.since = 0]
    <2>1. e \in Data /\ e.doneReason = d.doneReason /\ Spent(e)
      BY DEF Inv, TypeOK, Data, Spent
    <2>2. Walk("priming", e)
      BY <1>1
    <2> HIDE DEF e
    <2> QED BY <1>1, <2>1, <2>2, WalkOn DEF Walk, Walked, host, States, Working, Whys
  <1> QED BY <1>1, RestartingKeeps DEF Review

LEMMA ReplaceKeeps ==
    ASSUME Inv, Replace
    PROVE  Inv' /\ Once
  <1> DEFINE unasked == IF d.restartReason = "unasked" THEN d.unaskedSeen ELSE FALSE
             empty == IF d.restartReason = "wrote_nothing" THEN d.emptySeen ELSE FALSE
             e == [d EXCEPT !.empties = 0, !.unaskedSeen = unasked, !.emptySeen = empty]
  <1>1. d \in Data /\ None \in Whys
    BY DEF Inv, TypeOK, Whys
  <1>2. unasked \in BOOLEAN /\ empty \in BOOLEAN
    BY <1>1 DEF Data
  <1>3. Walk("resuming", e)
    BY <1>1 DEF Replace, Replaced, Data
  <1>4. /\ d.restartReason = "unasked" => unasked
        /\ d.restartReason = "wrote_nothing" => empty
    BY DEF Inv, Spent
  <1> HIDE DEF unasked, empty
  <1>5. /\ e \in Data
        /\ e.doneReason = d.doneReason
        /\ e.restartReason = d.restartReason
        /\ e.unaskedSeen = unasked
        /\ e.emptySeen = empty
    BY <1>1, <1>2 DEF Data
  <1>6. Spent(e)
    BY <1>4, <1>5 DEF Spent
  <1> HIDE DEF e
  <1> QED BY <1>1, <1>3, <1>5, <1>6, WalkOn DEF Replace, Walk, host, States, Working

LEMMA AttendKeeps ==
    ASSUME Inv, Resume \/ AttendHeld \/ Unattended \/ AttendPerson
    PROVE  Inv' /\ Once
  <1>1. CASE Resume
    BY <1>1, Plain, Passing DEF Resume, States, Working
  <1>2. CASE AttendHeld
    BY <1>2, Plain, Passing DEF AttendHeld, States, Finals
  <1>3. CASE Unattended
    BY <1>3, Plain, Passing DEF Unattended, States, Finals
  <1>4. CASE AttendPerson
    BY <1>4, TurnDoneKeeps, Passing DEF AttendPerson
  <1> QED BY <1>1, <1>2, <1>3, <1>4

LEMMA TypedKeeps ==
    ASSUME Inv, NothingToSay \/ Typed
    PROVE  Inv' /\ Once
  <1>1. CASE NothingToSay
    BY <1>1, ReportKeeps DEF NothingToSay, Null, host, Inv, TypeOK
  <1>2. CASE Typed
    BY <1>2, ReportKeeps DEF Typed, host
  <1> QED BY <1>1, <1>2

\* An error told to the statechart keeps the datamodel, mostly.
LEMMA ErrorKeeps ==
    ASSUME Inv, Error
    PROVE  Inv' /\ Once
  <1>1. d \in Data /\ Spent(d) /\ Settled(work, orders, d)
    BY DEF Inv, TypeOK
  <1>2. ASSUME NEW to \in States \ {"restarting"}, ToldOf(to, d), UNCHANGED <<heldFor, crashes>>,
               to \in {"closing", "converged"} =>
                  work = "closing" \/ orders = "standing_down"
        PROVE  Inv' /\ Once
    <2>1. Settled(to, orders, d)
      BY <1>1, <1>2 DEF Settled
    <2> QED BY <1>1, <1>2, <2>1, ToldKeeps
  <1>3. CASE Unasked
    <2>1. ASSUME ~d.unaskedSeen,
                 ToldOf("restarting", [d EXCEPT !.restartReason = "unasked",
                                                !.unaskedSeen = TRUE])
          PROVE  Inv' /\ Once
      <3> DEFINE e == [d EXCEPT !.restartReason = "unasked", !.unaskedSeen = TRUE]
      <3>1. /\ e \in Data
            /\ e.doneReason = d.doneReason
            /\ e.restartReason = "unasked"
            /\ e.unaskedSeen
            /\ e.emptySeen = d.emptySeen
        BY <1>1 DEF Data, RestartReasons
      <3>2. ToldOf("restarting", e)
        BY <2>1
      <3> HIDE DEF e
      <3>3. Settled("restarting", orders, e) /\ Spent(e)
        BY <1>1, <3>1 DEF Settled, Spent
      <3>4. e.restartReason # d.restartReason
        BY <1>1, <2>1, <3>1 DEF Spent
      <3> QED BY <1>3, <3>1, <3>2, <3>3, <3>4, ToldKeeps DEF Unasked, States, Working
    <2>2. PICK retyped \in {FALSE, again} :
          IF work = "closing" THEN ToldOf("converged", d)
          ELSE IF work = "stopping" THEN ToldOf("exhausted", d)
          ELSE IF retyped \/ d.unaskedSeen THEN ToldOf("failed", d)
          ELSE ToldOf("restarting", [d EXCEPT !.restartReason = "unasked",
                                            !.unaskedSeen = TRUE])
      BY <1>3 DEF Unasked
    <2> QED BY <1>2, <1>3, <2>1, <2>2 DEF Unasked, States, Finals
  <1>4. CASE Asking
    BY <1>2, <1>4 DEF Asking, host, States, Working, Finals
  <1>5. CASE PeerLost
    BY <1>2, <1>5 DEF PeerLost, host, States, Finals
  <1>6. CASE StepFails
    BY <1>6 DEF StepFails, Over, host, Inv, TypeOK, Settled, Spent, HeldIsParked, Once
  <1> QED BY <1>3, <1>4, <1>5, <1>6 DEF Error

\* What the Driver and the world do.  A run put back is where the invariant
\* held when it was reported.
LEMMA WorldKeeps ==
    ASSUME Inv, DriverCuts \/ World
    PROVE  Inv' /\ Once
  <1>1. CASE DriverCuts
    BY <1>1 DEF DriverCuts, Over, host, Inv, TypeOK, Settled, Spent, HeldIsParked, Once
  <1>2. CASE PersonHolds
    BY <1>2 DEF PersonHolds, Inv, TypeOK, Settled, Spent, HeldIsParked, Once
  <1>3. CASE Tick
    <2>1. heldFor' \in 0 .. HoldWithin /\ heldFor # None
      BY <1>3, LoopAssumption DEF Tick, Inv, TypeOK
    <2> QED BY <1>3, <2>1 DEF Tick, Inv, TypeOK, Settled, Spent, HeldIsParked, Once
  <1>4. ASSUME NEW by \in {"driver", "boot"}, PutBack(by)
        PROVE  Inv' /\ Once
    <2>1. place \in Places
      BY <1>4 DEF PutBack, Inv, TypeOK
    <2>2. TypeOK'
      <3>1. crashes' \in 0 .. MaxCrashes
        BY <1>4, LoopAssumption DEF PutBack, Inv, TypeOK
      <3> QED BY <1>4, <2>1, <3>1 DEF PutBack, Inv, TypeOK, Places
    <2>3. HeldIsParked' /\ Once
      BY <1>4 DEF PutBack, HeldIsParked, Once, Inv, TypeOK
    <2> QED BY <1>4, <2>2, <2>3 DEF PutBack, Inv, Settled, Spent
  <1> QED BY <1>1, <1>2, <1>3, <1>4 DEF World

-----------------------------------------------------------------------------
(***************************************************************************)
(* The brief.  A program nobody briefed is one the run is about to brief:   *)
(* it is in a state that leads to priming and to no other sentence, a boot's *)
(* fact is still to be told, or the brief is what is typed next.  Whatever   *)
(* the driver that replaces this one is put back at says so too.            *)
(***************************************************************************)
Fresh == {"idle", "restarting", "resuming"} \cup Finals

BriefComesNext ==
    Unbriefed =>
        \/ pc = "out"
        \/ say = None /\ (rescued \/ work \in Fresh)
        \/ pc = "say" /\ work = "priming" /\ say = "brief"

\* Between two walks only a run let go of by a person has something to say.
NothingPending ==
    pc \in {"top", "act"} /\ say # None => work \in {"working", "awaiting_human"} \cup Finals

\* A run put back by a boot has not moved yet.
Rescue == rescued => pc \in {"top", "out"} /\ say = None /\ heldFor = None

PlaceKnows ==
    place # None =>
        /\ place.after \in 0 .. crashes
        /\ briefed = "no" \/ (briefed = "rebooted" /\ place.after = crashes)
               => place.work \in Fresh
        /\ pc \in {"top", "act"} /\ work = "restarting" => place.work = "restarting"

Greeted == BriefComesNext /\ NothingPending /\ Rescue /\ PlaceKnows

\* In the middle of a pump an unbriefed run is where a brief comes from.
LEMMA Acting ==
    ASSUME Greeted, pc = "act"
    PROVE  /\ ~rescued
           /\ Unbriefed => work \in Fresh /\ say = None
           /\ work \in {"working", "awaiting_human"} \cup Finals \/ say = None
  BY DEF Greeted, BriefComesNext, NothingPending, Rescue

\* A walk is over with what it says, so what it says is what matters.
LEMMA WalkGreets ==
    ASSUME Greeted, pc = "act", NEW to, NEW e, NEW because,
           Unbriefed => to \in Fresh \cup {"priming"},
           WalkBecause(to, e, because), Walked
    PROVE  Greeted'
  <1>1. BriefComesNext'
    <2>1. CASE to \in Fresh
      <3>1. Unbriefed => EntrySays(to, because) = None
        BY <2>1, Acting DEF Fresh, Finals, EntrySays
      <3> QED BY <2>1, <3>1 DEF WalkBecause, Walked, BriefComesNext, Unbriefed
    <2>2. CASE to = "priming"
      BY <2>2 DEF WalkBecause, EntrySays, BriefComesNext
    <2>3. CASE ~Unbriefed
      BY <2>3 DEF Walked, BriefComesNext, Unbriefed
    <2> QED BY <2>1, <2>2, <2>3
  <1>2. NothingPending' /\ Rescue'
    BY Acting DEF WalkBecause, Walked, host, NothingPending, Rescue
  <1>3. PlaceKnows'
    BY DEF WalkBecause, Walked, host, Greeted, PlaceKnows
  <1> QED BY <1>1, <1>2, <1>3 DEF Greeted

\* From a state no unbriefed run is in, a walk may lead anywhere.
LEMMA BriefedWalks ==
    ASSUME Greeted, pc = "act", work \notin Fresh, NEW to, NEW e, NEW because,
           WalkBecause(to, e, because), Walked
    PROVE  Greeted'
  BY Acting, WalkGreets

LEMMA BriefedSays ==
    ASSUME Greeted, pc = "act", work \notin Fresh, NEW e, NEW sentence,
           WalkSaying(e, sentence), Walked
    PROVE  Greeted'
  <1>1. BriefComesNext'
    BY Acting DEF WalkSaying, Walked, BriefComesNext, Unbriefed
  <1>2. NothingPending' /\ Rescue'
    BY Acting DEF WalkSaying, Walked, host, NothingPending, Rescue
  <1>3. PlaceKnows'
    BY DEF WalkSaying, Walked, host, Greeted, PlaceKnows
  <1> QED BY <1>1, <1>2, <1>3 DEF Greeted

\* A report leaves a place that knows what the run knows.
LEMMA ReportGreets ==
    ASSUME Inv, Greeted, pc \in {"act", "say"}, NEW w, NEW e, NEW because,
           Place(w, e, because), work' = w, pc' = "top", UNCHANGED <<heldFor, rescued, crashes>>,
           Unbriefed' => w \in Fresh /\ say' = None,
           say' # None => w \in {"working", "awaiting_human"} \cup Finals
    PROVE  Greeted'
  <1>1. ~rescued
    BY DEF Greeted, Rescue
  <1>2. BriefComesNext' /\ NothingPending' /\ Rescue'
    BY <1>1 DEF BriefComesNext, NothingPending, Rescue
  <1>3. place' # None => place'.work = w /\ place'.after = crashes
    BY DEF Place
  <1>4. crashes \in 0 .. crashes
    BY LoopAssumption DEF Inv, TypeOK
  <1>5. PlaceKnows'
    BY <1>3, <1>4 DEF PlaceKnows, Unbriefed
  <1> QED BY <1>2, <1>5 DEF Greeted

LEMMA NothingGreets ==
    ASSUME Inv, Greeted, pc = "act", Nothing
    PROVE  Greeted'
  <1>1. Place(work, d, why) /\ work' = work
    BY DEF Nothing, Null, Report
  <1>2. Unbriefed' => work \in Fresh /\ say' = None
    BY Acting DEF Nothing, Null, Unbriefed
  <1>3. say' # None => work \in {"working", "awaiting_human"} \cup Finals
    BY Acting DEF Nothing, Null
  <1> QED BY <1>1, <1>2, <1>3, ReportGreets DEF Nothing, Null, Report, host

LEMMA UnmovedGreets ==
    ASSUME Greeted, pc = "act", work \notin Fresh, Unmoved, Walked
    PROVE  Greeted'
  BY Acting DEF Unmoved, Walked, host, Greeted, BriefComesNext, NothingPending, Rescue,
     PlaceKnows, Unbriefed

\* What ends a wait anywhere.
LEMMA EndsGreet ==
    ASSUME Inv, Greeted, pc = "act", Cancelled \/ Gone \/ Unreadable \/ Nothing
    PROVE  Greeted'
  <1>1. CASE Nothing
    BY <1>1, NothingGreets
  <1>2. ASSUME NEW to \in Finals, Walk(to, d), Walked
        PROVE  Greeted'
    BY <1>2, WalkGreets DEF Walk, Fresh
  <1> QED BY <1>1, <1>2 DEF Cancelled, Gone, Unreadable, Finals

\* An error told to the statechart: an unbriefed run is replaced or over.
LEMMA ToldGreets ==
    ASSUME Inv, Greeted, pc \in {"act", "say"}, NEW to, NEW e,
           Unbriefed => to \in Fresh,
           pc = "act" /\ say # None => to \in {"working", "awaiting_human"} \cup Finals,
           ToldOf(to, e), UNCHANGED <<heldFor, rescued, crashes>>
    PROVE  Greeted'
  <1>1. Unbriefed' => to \in Fresh /\ say' = None
    BY Acting DEF ToldOf, Unbriefed
  <1>2. say' # None => to \in {"working", "awaiting_human"} \cup Finals
    BY DEF ToldOf
  <1> QED BY <1>1, <1>2, ReportGreets DEF ToldOf

LEMMA PumpGreets ==
    ASSUME Inv, Greeted, Pump
    PROVE  Greeted'
  <1> USE DEF Pump, Over
  <1>1. CASE rescued
    <2>1. say = None /\ heldFor = None /\ Ordered \in {work, "awaiting_human"}
      BY <1>1 DEF Greeted, Rescue, Ordered, LetGo
    <2>2. say' = None /\ ~rescued'
      BY <2>1 DEF LetGo
    <2>3. CASE Ordered = "awaiting_human"
      <3>1. work' = "awaiting_human" /\ briefed' = "yes"
        BY <1>1, <2>3 DEF AfterRestart
      <3> QED BY <2>2, <3>1 DEF Greeted, BriefComesNext, NothingPending, Rescue,
              PlaceKnows, Unbriefed
    <2>4. CASE Ordered # "awaiting_human"
      <3>1. work' \in Fresh /\ work' # "restarting" /\ briefed' = briefed
        BY <1>1, <2>4 DEF AfterRestart, Fresh, Finals
      <3> QED BY <2>2, <3>1 DEF Greeted, BriefComesNext, NothingPending, Rescue,
              PlaceKnows
    <2> QED BY <2>3, <2>4
  <1>2. CASE ~rescued
    <2>1. /\ work' = Ordered /\ briefed' = briefed /\ ~rescued'
          /\ Ordered = work \/ (work \in {"working", "awaiting_human"}
                                /\ Ordered \in {"working", "awaiting_human"})
      BY <1>2 DEF Ordered, Parked, LetGo
    <2>2. Unbriefed => work \in Fresh /\ say = None
      BY <1>2 DEF Greeted, BriefComesNext
    <2>3. say' # None => work' \in {"working", "awaiting_human"} \cup Finals
      BY <2>1 DEF Greeted, NothingPending, Ordered, Parked, LetGo
    <2>4. BriefComesNext'
      <3>1. work \in Fresh => Ordered = work /\ ~LetGo
        BY DEF Fresh, Finals, Ordered, Parked, LetGo
      <3> QED BY <2>1, <2>2, <3>1 DEF BriefComesNext, Unbriefed
    <2>5. PlaceKnows'
      BY <2>1 DEF Greeted, PlaceKnows
    <2> QED BY <2>1, <2>3, <2>4, <2>5 DEF Greeted, NothingPending, Rescue
  <1> QED BY <1>1, <1>2

LEMMA StartGreets ==
    ASSUME Inv, Greeted, StartReady \/ Resume
    PROVE  Greeted'
  <1>1. ASSUME pc = "act", Walk("priming", d), Walked
        PROVE  Greeted'
    BY <1>1, WalkGreets DEF Walk
  <1> QED BY <1>1, EndsGreet DEF StartReady, Resume, In

\* Every action that starts where the program has been briefed.
LEMMA BriefedActs ==
    ASSUME Inv, Greeted,
           \/ Sent \/ Watch \/ WatchClosing \/ WatchStopping \/ Judge \/ Screen
           \/ Redirect \/ Widen \/ WaitOutService \/ Reflect \/ Review
           \/ AttendHeld \/ Unattended \/ AttendPerson
    PROVE  Greeted'
  <1>1. pc = "act" /\ work \notin Fresh
    BY DEF In, Sent, Watch, WatchClosing, WatchStopping, Judge, Screen, Redirect, Widen,
       WaitOutService, OutageOver, Reflect, Review, AttendHeld, Unattended, AttendPerson,
       Fresh, Finals
  <1>2. ASSUME NEW to, NEW e, NEW because, WalkBecause(to, e, because), Walked
        PROVE  Greeted'
    BY <1>1, <1>2, BriefedWalks
  <1>3. ASSUME NEW to, NEW e, Walk(to, e), Walked
        PROVE  Greeted'
    BY <1>2, <1>3 DEF Walk
  <1>4. ASSUME NEW e, NEW sentence, WalkSaying(e, sentence), Walked
        PROVE  Greeted'
    BY <1>1, <1>4, BriefedSays
  <1>5. ASSUME Unmoved, Walked
        PROVE  Greeted'
    BY <1>1, <1>5, UnmovedGreets
  <1>6. ASSUME Cancelled \/ Gone \/ Unreadable \/ Nothing
        PROVE  Greeted'
    BY <1>1, <1>6, EndsGreet
  <1>7. ASSUME TurnDone \/ TurnBlocked, Walked
        PROVE  Greeted'
    BY <1>2, <1>3, <1>7 DEF TurnDone, TurnBlocked
  <1>8. CASE Sent \/ Screen \/ Redirect \/ Widen
    BY <1>3, <1>6, <1>8 DEF Sent, Screen, Redirect, Widen
  <1>9. CASE Watch \/ WatchClosing \/ WatchStopping
    BY <1>2, <1>3, <1>5, <1>6, <1>7, <1>9 DEF Watch, WatchClosing, WatchStopping
  <1>10. CASE Judge
    <2>1. ASSUME NEW checked, Claimed(checked), Walked
          PROVE  Greeted'
      BY <1>2, <1>3, <2>1 DEF Claimed
    <2>2. ASSUME NEW full, Unclaimed(full), Walked
          PROVE  Greeted'
      BY <1>3, <1>4, <2>2 DEF Unclaimed, Restarting
    <2> QED BY <1>3, <1>6, <1>10, <2>1, <2>2 DEF Judge
  <1>11. CASE WaitOutService
    BY <1>3, <1>4, <1>6, <1>11 DEF WaitOutService, OutageOver, Retry
  <1>12. CASE Reflect
    <2>1. ASSUME NEW changed, NEW fresh, NEW admitted,
                 Proposed(changed, fresh, admitted), Walked
          PROVE  Greeted'
      BY <1>2, <1>3, <1>4, <2>1 DEF Proposed
    <2> QED BY <1>3, <1>4, <1>5, <1>6, <1>12, <2>1 DEF Reflect
  <1>13. CASE Review
    BY <1>3, <1>13 DEF Review, Restarting
  <1>14. CASE AttendHeld \/ Unattended \/ AttendPerson
    BY <1>3, <1>5, <1>6, <1>7, <1>14 DEF AttendHeld, Unattended, AttendPerson
  <1> QED BY <1>8, <1>9, <1>10, <1>11, <1>12, <1>13, <1>14

\* The run put a new program into the pane.
LEMMA ReplaceGreets ==
    ASSUME Greeted, Replace
    PROVE  Greeted'
  <1>1. pc = "act" /\ work = "restarting"
    BY DEF Replace, In
  <1>2. work' = "resuming" /\ say' = say /\ say = None /\ pc' = "say"
    BY <1>1, Acting DEF Replace, Replaced, Walk, WalkBecause, EntrySays, Finals
  <1>3. place # None => place.work \in Fresh
    BY <1>1 DEF Greeted, PlaceKnows, Fresh
  <1>4. ~rescued
    BY <1>1, Acting
  <1> QED BY <1>2, <1>3, <1>4 DEF Replace, host, Greeted, BriefComesNext, NothingPending,
          Rescue, PlaceKnows, Fresh

LEMMA TypedGreets ==
    ASSUME Inv, Greeted, NothingToSay \/ Typed
    PROVE  Greeted'
  <1>1. pc = "say" /\ Place(work, d, why) /\ work' = work /\ pc' = "top"
    BY DEF NothingToSay, Typed, Null, Report
  <1>2. say' = None /\ UNCHANGED <<heldFor, rescued, crashes>>
    BY DEF NothingToSay, Typed, Null, host
  <1>3. Unbriefed' => Unbriefed /\ (say = None \/ say # "brief")
    BY LoopAssumption DEF NothingToSay, Typed, Null, Unbriefed, Sentences
  <1>4. Unbriefed' => work \in Fresh
    BY <1>1, <1>3, LoopAssumption DEF Greeted, BriefComesNext, Rescue, Sentences
  <1> QED BY <1>1, <1>2, <1>4, ReportGreets

LEMMA ErrorGreets ==
    ASSUME Inv, Greeted, Error
    PROVE  Greeted'
  <1>1. CASE Unasked
    <2>1. pc \in {"act", "say"} /\ (pc = "act" => say = None)
      BY <1>1, Acting DEF Unasked, Typing, Finals
    <2>2. ASSUME NEW e, NEW to \in {"converged", "exhausted", "failed", "restarting"},
                 ToldOf(to, e)
          PROVE  Greeted'
      BY <1>1, <2>1, <2>2, ToldGreets DEF Unasked, Fresh, Finals
    <2>3. PICK retyped \in {FALSE, again} :
          IF work = "closing" THEN ToldOf("converged", d)
          ELSE IF work = "stopping" THEN ToldOf("exhausted", d)
          ELSE IF retyped \/ d.unaskedSeen THEN ToldOf("failed", d)
          ELSE ToldOf("restarting", [d EXCEPT !.restartReason = "unasked",
                                            !.unaskedSeen = TRUE])
      BY <1>1 DEF Unasked
    <2> QED BY <2>2, <2>3
  <1>2. CASE Asking
    <2>1. /\ pc \in {"act", "say"} /\ (pc = "act" => say = None)
          /\ ~Unbriefed
      BY <1>2, Acting DEF Asking, Typing, Greeted, BriefComesNext, Rescue, Fresh, Finals
    <2>2. ASSUME NEW to, ToldOf(to, d), UNCHANGED host
          PROVE  Greeted'
      BY <2>1, <2>2, ToldGreets DEF host
    <2> QED BY <1>2, <2>2 DEF Asking
  <1>3. CASE PeerLost
    <2>1. pc \in {"act", "say"}
      BY <1>3 DEF PeerLost, Typing, In
    <2>2. ASSUME NEW to \in Finals, ToldOf(to, d), UNCHANGED host
          PROVE  Greeted'
      BY <2>1, <2>2, ToldGreets DEF host, Fresh
    <2> QED BY <1>3, <2>2 DEF PeerLost, Finals
  <1>4. CASE StepFails
    BY <1>4 DEF StepFails, Over, host, Greeted, BriefComesNext, NothingPending, Rescue,
       PlaceKnows, Unbriefed
  <1> QED BY <1>1, <1>2, <1>3, <1>4 DEF Error

LEMMA WorldGreets ==
    ASSUME Inv, Greeted, DriverCuts \/ World
    PROVE  Greeted'
  <1>1. CASE DriverCuts \/ PersonHolds \/ Tick
    BY <1>1 DEF DriverCuts, Over, host, PersonHolds, Tick, Greeted, BriefComesNext, NothingPending,
       Rescue, PlaceKnows, Unbriefed
  <1>2. ASSUME NEW by \in {"driver", "boot"}, PutBack(by)
        PROVE  Greeted'
    <2>1. place.after \in 0 .. crashes /\ crashes \in Nat /\ crashes' = crashes + 1
      BY <1>2 DEF PutBack, Greeted, PlaceKnows, Inv, TypeOK
    <2>2. place.after \in 0 .. crashes' /\ place.after # crashes'
      BY <2>1
    <2>3. briefed' = "no" => place.work \in Fresh
      BY <1>2 DEF PutBack, Greeted, PlaceKnows
    <2>4. PlaceKnows'
      BY <1>2, <2>2, <2>3 DEF PutBack, PlaceKnows
    <2>5. briefed' = "rebooted" => rescued'
      BY <1>2 DEF PutBack
    <2>6. BriefComesNext' /\ NothingPending' /\ Rescue'
      BY <1>2, <2>3, <2>5 DEF PutBack, BriefComesNext, NothingPending, Rescue, Unbriefed
    <2> QED BY <2>4, <2>6 DEF Greeted
  <1> QED BY <1>1, <1>2 DEF World

-----------------------------------------------------------------------------
(***************************************************************************)
(* The theorems.                                                           *)
(***************************************************************************)
LEMMA Starts == Init => Inv
  <1> SUFFICES ASSUME Init PROVE Inv
    OBVIOUS
  <1>1. Datamodel \in Data
    BY LoopAssumption DEF Datamodel, Data
  <1>2. TypeOK
    BY <1>1, LoopAssumption DEF Init, TypeOK, Working, Orders, Whys
  <1>3. Settled(work, orders, d) /\ Spent(d)
    BY LoopAssumption DEF Init, Datamodel, Settled, Spent, RestartReasons, DoneReasons
  <1> QED BY <1>2, <1>3 DEF Init, Inv, HeldIsParked

LEMMA Steps == Inv /\ [Next]_vars => Inv' /\ (Once \/ UNCHANGED vars)
  <1> SUFFICES ASSUME Inv, [Next]_vars PROVE Inv' /\ (Once \/ UNCHANGED vars)
    OBVIOUS
  <1>1. CASE UNCHANGED vars
    BY <1>1 DEF vars, Inv, TypeOK, Settled, Spent, HeldIsParked
  <1>2. CASE Pump
    BY <1>2, PumpKeeps
  <1>3. CASE Act
    BY <1>3, WatchKeeps, JudgeKeeps, DialogKeeps, WaitOutServiceKeeps, ReflectKeeps,
       ReviewKeeps, ReplaceKeeps, AttendKeeps DEF Act
  <1>4. CASE NothingToSay \/ Typed
    BY <1>4, TypedKeeps
  <1>5. CASE Error
    BY <1>5, ErrorKeeps
  <1>6. CASE DriverCuts \/ World
    BY <1>6, WorldKeeps
  <1> QED BY <1>1, <1>2, <1>3, <1>4, <1>5, <1>6 DEF Next

LEMMA Invariant == Spec => []Inv
  BY Starts, Steps, PTL DEF Spec

LEMMA Greets == Spec => []Greeted
  <1>1. Init => Greeted
    BY DEF Init, Greeted, BriefComesNext, NothingPending, Rescue, PlaceKnows, Fresh
  <1>2. Inv /\ Greeted /\ [Next]_vars => Greeted'
    <2> SUFFICES ASSUME Inv, Greeted, [Next]_vars PROVE Greeted'
      OBVIOUS
    <2>1. CASE UNCHANGED vars
      BY <2>1 DEF vars, Greeted, BriefComesNext, NothingPending, Rescue, PlaceKnows,
         Unbriefed
    <2>2. CASE Act
      BY <2>2, StartGreets, BriefedActs, ReplaceGreets DEF Act
    <2> QED BY <2>1, <2>2, PumpGreets, TypedGreets, ErrorGreets, WorldGreets DEF Next
  <1> QED BY <1>1, <1>2, Invariant, PTL DEF Spec

\* Every variable has its type, and no run is asked again more often than
\* reask_max (ai_loop.scxml, reflecting).
THEOREM TypeCorrect == Spec => []TypeOK
  <1>1. Inv => TypeOK
    BY DEF Inv
  <1> QED BY <1>1, Invariant, PTL

\* A hold parks the run whatever it was doing, and leaves it under an order
\* that says so (outer.rs pump).
THEOREM HeldParks == Spec => []HeldIsParked
  <1>1. Inv => HeldIsParked
    BY DEF Inv
  <1> QED BY <1>1, Invariant, PTL

\* A converged run has a reason for its ending, and stood down only if told,
\* through every crash and put back (ai_loop.scxml, judging to closing).
THEOREM ConvergesForAReason == Spec => []ConvergedForAReason
  <1>1. Inv => ConvergedForAReason
    BY DEF Inv, Settled, ConvergedForAReason
  <1> QED BY <1>1, Invariant, PTL

\* A recovery that did not help is not tried again, whatever is replaced in
\* between (ai_loop.scxml, restarting).
THEOREM NeverRecoversTwice == Spec => NoRecoveryTwice
  <1>1. Inv /\ [Next]_vars => [Once]_vars
    BY Steps
  <1>2. [Once]_vars =>
        [work # "restarting" /\ work' = "restarting" /\ crashes' = crashes
         /\ d'.restartReason \in {"unasked", "wrote_nothing"}
         => d'.restartReason # d.restartReason]_vars
    BY DEF Once
  <1> QED BY <1>1, <1>2, Invariant, PTL DEF Spec, NoRecoveryTwice

\* Nothing but the brief is the first thing said to a program the run or a boot
\* put into the pane, whatever dies when, unless what the boot said was lost
\* with the driver it was said to (outer.rs pump and peer_restarted).
THEOREM GreetsFirst == Spec => []GreetedFirst
  <1>1. Greeted => GreetedFirst
    BY LoopAssumption DEF Greeted, BriefComesNext, GreetedFirst
  <1> QED BY <1>1, Greets, PTL
=============================================================================

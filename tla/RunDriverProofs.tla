--------------------------- MODULE RunDriverProofs ---------------------------
(***************************************************************************)
(* What RunDriver keeps for any guardrails, any costs, any windows and any *)
(* length of the journal.                                                  *)
(*                                                                         *)
(* The properties are inductive together with Place, which says where the  *)
(* statechart and the loop can be at once, and Windowed, which ties the    *)
(* deadline and the ceiling to the one window a run may be given.          *)
(***************************************************************************)
EXTENDS RunDriver, TLAPS

\* The loop is in its body exactly while the statechart runs; nothing is
\* stopped before the loop is left.
Place ==
    /\ pc \in {"top", "step"} => orch = "running"
    /\ pc = "left" => orch # "running"
    /\ pc # "out" => stopped = None

\* Without a window, the deadline is the one the run was given, and a run
\* that is going has met no ceiling.
Windowed ==
    /\ ~winding => deadline = rails.duration
    /\ ~winding /\ orch = "running" => ceiling = None

Inv == /\ TypeOK /\ Place /\ Windowed
       /\ WithinCeilings /\ CeilingIsTrue /\ CutShortIsStopped /\ RecallIsHonest

LEMMA InitInv == Init => Inv
  <1> SUFFICES ASSUME Init PROVE Inv
    OBVIOUS
  <1> USE DriverAssumption DEF Init
  <1>1. rails \in [iterations : Bounds, cost : Bounds, duration : Bounds]
    OBVIOUS
  <1>2. TypeOK
    <2>1. /\ journal.kept = <<>> /\ journal.forgotten = 0 /\ journal.written = {}
          /\ deadline \in Bounds
      BY <1>1
    <2>2. <<>> \in Seq(Kinds) /\ 0 \in 0 .. Cap
      OBVIOUS
    <2>3. /\ rails \in Rails /\ orch \in Finals \cup {"running"}
          /\ pc \in {"top", "step", "left", "out"} /\ now \in Nat
          /\ cancelled \in BOOLEAN /\ winding \in BOOLEAN /\ cutShort \in BOOLEAN
          /\ ceiling \in Ceilings \cup {None} /\ stopped \in Stops \cup {None}
      OBVIOUS
    <2>4. iterations \in 0 .. Cap /\ cost \in 0 .. Cap
      BY <2>2
    <2> QED
      BY <2>1, <2>2, <2>3, <2>4 DEF TypeOK
  <1>3. Place /\ Windowed /\ WithinCeilings /\ CutShortIsStopped
    BY DEF Place, Windowed, WithinCeilings, CutShortIsStopped
  <1>4. CeilingIsTrue
    BY DEF CeilingIsTrue, Ceilings
  <1>5. RecallIsHonest
    BY DEF RecallIsHonest, Recall, Kinds
  <1> QED
    BY <1>2, <1>3, <1>4, <1>5 DEF Inv

\* What a journal is, and what it may be asked.
Kept(j) ==
    /\ j.kept \in Seq(Kinds) /\ j.forgotten \in 0 .. Cap /\ j.written \in SUBSET Kinds
    /\ Len(j.kept) <= JournalLimit
    /\ \A i \in 1 .. Len(j.kept) : j.kept[i] \in j.written
    /\ j.forgotten = 0 => \A kind \in j.written : \E i \in 1 .. Len(j.kept) : j.kept[i] = kind

\* A record remembered is found, and what is dropped is counted.
LEMMA RememberKeeps ==
  ASSUME NEW j, Kept(j), NEW kind \in Kinds
  PROVE  Kept(Remember(j, kind))
  <1> USE DriverAssumption
  <1> DEFINE full == Len(j.kept) = JournalLimit
             old == IF full THEN Tail(j.kept) ELSE j.kept
             r == Remember(j, kind)
  <1>0. /\ r.kept = Append(old, kind)
        /\ r.forgotten = IF full THEN AtMost(j.forgotten + 1) ELSE j.forgotten
        /\ r.written = j.written \cup {kind}
    BY DEF Remember
  <1>1. j.kept \in Seq(Kinds) /\ (full => j.kept # <<>>)
    BY DEF Kept
  <1>2. /\ old \in Seq(Kinds) /\ Len(old) < JournalLimit
        /\ \A i \in 1 .. Len(old) : old[i] \in j.written
    <2>1. CASE full
      <3>1. /\ Tail(j.kept) \in Seq(Kinds) /\ Len(Tail(j.kept)) = Len(j.kept) - 1
            /\ \A i \in 1 .. Len(Tail(j.kept)) : Tail(j.kept)[i] = j.kept[i + 1]
        BY <1>1, <2>1
      <3> QED
        BY <2>1, <3>1 DEF Kept
    <2>2. CASE ~full
      BY <2>2 DEF Kept
    <2> QED
      BY <2>1, <2>2
  <1>3. /\ r.kept \in Seq(Kinds) /\ Len(r.kept) = Len(old) + 1
        /\ \A i \in 1 .. Len(old) : r.kept[i] = old[i]
        /\ r.kept[Len(old) + 1] = kind
    BY <1>0, <1>2
  <1>4. r.forgotten \in 0 .. Cap /\ (r.forgotten = 0 => ~full /\ j.forgotten = 0)
    BY <1>0 DEF AtMost, Kept
  <1>5. \A i \in 1 .. Len(r.kept) : r.kept[i] \in r.written
    <2> TAKE i \in 1 .. Len(r.kept)
    <2>1. CASE i = Len(old) + 1
      BY <2>1, <1>0, <1>3
    <2>2. CASE i # Len(old) + 1
      <3>1. i \in 1 .. Len(old)
        BY <2>2, <1>2, <1>3
      <3> QED
        BY <3>1, <1>0, <1>2, <1>3
    <2> QED
      BY <2>1, <2>2
  <1>6. ASSUME r.forgotten = 0, NEW k \in r.written
        PROVE  \E i \in 1 .. Len(r.kept) : r.kept[i] = k
    <2>1. CASE k = kind
      BY <2>1, <1>2, <1>3
    <2>2. CASE k # kind
      <3>1. k \in j.written /\ old = j.kept
        BY <2>2, <1>0, <1>4, <1>6
      <3>2. PICK i \in 1 .. Len(j.kept) : j.kept[i] = k
        BY <3>1, <1>4, <1>6 DEF Kept
      <3>3. i \in 1 .. Len(old)
        BY <3>1, <3>2
      <3>4. Len(old) \in Nat /\ i \in 1 .. Len(r.kept)
        <4>1. Len(old) \in Nat
          BY <1>2
        <4> HIDE DEF old, r
        <4> QED
          BY <4>1, <3>3, <1>3
      <3> QED
        BY <3>1, <3>2, <3>3, <3>4, <1>3
    <2> QED
      BY <2>1, <2>2
  <1>7. r.written \in SUBSET Kinds
    BY <1>0 DEF Kept
  <1>8. Len(r.kept) <= JournalLimit
    BY <1>2, <1>3
  <1> QED
    BY <1>3, <1>4, <1>5, <1>6, <1>7, <1>8 DEF Kept

LEMMA KeptIsHonest == TypeOK => (Kept(journal) <=> RecallIsHonest)
  <1> SUFFICES ASSUME TypeOK PROVE Kept(journal) <=> RecallIsHonest
    OBVIOUS
  <1> USE DEF TypeOK
  <1>1. ASSUME Kept(journal) PROVE RecallIsHonest
    BY <1>1 DEF Kept, RecallIsHonest, Recall
  <1>2. ASSUME RecallIsHonest PROVE Kept(journal)
    <2>1. \A i \in 1 .. Len(journal.kept) : journal.kept[i] \in journal.written
      <3> TAKE i \in 1 .. Len(journal.kept)
      <3>1. journal.kept[i] \in Kinds
        OBVIOUS
      <3>2. Recall(journal.kept[i]) = "found"
        BY DEF Recall
      <3> QED
        BY <1>2, <3>1, <3>2 DEF RecallIsHonest
    <2>2. ASSUME journal.forgotten = 0, NEW kind \in journal.written
          PROVE  \E i \in 1 .. Len(journal.kept) : journal.kept[i] = kind
      BY <1>2, <2>2 DEF RecallIsHonest, Recall
    <2> QED
      BY <1>2, <2>1, <2>2 DEF Kept, RecallIsHonest
  <1> QED
    BY <1>1, <1>2

\* Whatever a step writes in the journal, the journal stays honest.
LEMMA WalkStep == TypeOK /\ Kept(journal) /\ [Next]_vars => Kept(journal')
  <1> SUFFICES ASSUME TypeOK, Kept(journal), [Next]_vars PROVE Kept(journal')
    OBVIOUS
  <1> DEFINE One(k) == Remember(journal, k)
             Two == Remember(One("step"), "account")
  <1>1. \A k \in Kinds : Kept(One(k))
    BY RememberKeeps
  <1>2. Kept(Two)
    <2>1. Kept(One("step"))
      BY <1>1 DEF Kinds
    <2> QED
      BY <2>1, RememberKeeps DEF Kinds
  <1>3. \/ journal' = journal
        \/ \E k \in Kinds : journal' = One(k)
        \/ journal' = Two
    <2>1. CASE CutAtTop
      BY <2>1 DEF CutAtTop, EndedFromOutside, SpendOrAccount, Kinds
    <2>2. CASE BeginStep \/ Leave \/ Cancel \/ Tick \/ UNCHANGED vars
      BY <2>2 DEF BeginStep, Leave, Cancel, Tick, vars
    <2>3. CASE StepFails \/ StepUnwinds
      BY <2>3 DEF StepFails, StepUnwinds, Kinds
    <2>4. ASSUME NEW c \in Costs, NEW final, StepConcludes(final, c)
          PROVE  journal' = One("step")
      BY <2>4 DEF StepConcludes
    <2>5. ASSUME NEW c \in Costs, NEW own, StepExhausts(own, c)
          PROVE  journal' = One("step")
      BY <2>5 DEF StepExhausts
    <2>6. ASSUME NEW c \in Costs, StepContinues(c)
          PROVE  journal' = One("step") \/ journal' = Two
      BY <2>6 DEF StepContinues, EndedFromOutside, SpendOrAccount
    <2> QED
      BY <2>1, <2>2, <2>3, <2>4, <2>5, <2>6 DEF Next, StepReturns, Kinds
  <1> HIDE DEF One, Two
  <1> QED
    BY <1>1, <1>2, <1>3

\* The parts of the invariant that do not look at the journal.
Body == /\ TypeOK /\ Place /\ Windowed
        /\ WithinCeilings /\ CeilingIsTrue /\ CutShortIsStopped

\* What a ceiling of the Driver's that really fell due does: the run ends, or
\* goes on under its one window, and either way it says which ceiling it was.
LEMMA SpendKeeps ==
  ASSUME Body, Kept(journal'), pc \in {"top", "step"},
         NEW c \in {"iterations", "cost", "duration"}, NEW j, NEW to \in {"top", "step"},
         SpendOrAccount(c, j, to),
         iterations' \in 0 .. Cap, iterations <= iterations',
         cost' \in 0 .. Cap, cost <= cost',
         c = "iterations" => rails.iterations # None /\ iterations' >= rails.iterations,
         c = "cost" => rails.cost # None /\ cost' >= rails.cost,
         c = "duration" => Expired,
         cutShort' = (cutShort \/ Expired), cutShort' \in BOOLEAN,
         UNCHANGED <<rails, cancelled, now, stopped>>
  PROVE  Body'
  <1> USE DriverAssumption
  <1>0. /\ rails \in Rails /\ rails \in [iterations : Bounds, cost : Bounds, duration : Bounds]
        /\ now \in Nat /\ deadline \in Bounds /\ orch = "running" /\ stopped = None
        /\ winding \in BOOLEAN /\ ceiling \in Ceilings \cup {None} /\ iterations \in 0 .. Cap
        /\ cost \in 0 .. Cap /\ cutShort \in BOOLEAN /\ cancelled \in BOOLEAN
        /\ (~winding => deadline = rails.duration /\ ceiling = None)
        /\ (winding => ceiling # None)
    BY DEF Body, TypeOK, Place, Windowed, CeilingIsTrue
  <1>1. /\ ceiling' = First(c) /\ ceiling' # None /\ ceiling' \in Ceilings
        /\ (winding => ceiling' = ceiling) /\ (~winding => ceiling' = c)
    BY <1>0 DEF SpendOrAccount, Exhaust, First, Ceilings
  <1>2. \/ /\ orch' = "exhausted" /\ pc' = "left"
           /\ winding' = winding /\ deadline' = deadline
        \/ /\ ~winding /\ winding' = TRUE /\ deadline' \in Nat
           /\ orch' = "running" /\ pc' = to
    BY <1>0 DEF SpendOrAccount, Exhaust, Ends, GoesOn
  <1>3. TypeOK'
    BY <1>0, <1>1, <1>2 DEF TypeOK, Kept, Finals, Bounds
  <1>4. Place' /\ Windowed' /\ WithinCeilings'
    BY <1>0, <1>1, <1>2 DEF Place, Windowed, WithinCeilings, Going
  <1>5. CeilingIsTrue'
    <2>1. CASE winding
      <3>1. /\ ceiling' = ceiling /\ orch' # "blocked" /\ orch' # "taken_over"
        BY <2>1, <1>1, <1>2
      <3>2. rails.iterations # None => rails.iterations \in Nat
        BY <1>0 DEF Bounds
      <3>3. rails.cost # None => rails.cost \in Nat
        BY <1>0 DEF Bounds
      <3> QED
        BY <3>1, <3>2, <3>3, <1>0, <1>1
        DEF Body, CeilingIsTrue, SpentIterations, SpentCost
    <2>2. CASE ~winding
      <3>1. ceiling' = c
        BY <2>2, <1>1
      <3> QED
        BY <3>1, <1>0, <1>1, <1>2, <2>2
        DEF CeilingIsTrue, SpentIterations, SpentCost, Expired
    <2> QED
      BY <2>1, <2>2
  <1>6. CutShortIsStopped'
    <2>1. pc' # "out" /\ orch' # "cancelled"
      BY <1>2
    <2>2. cutShort' => cancelled' \/ (deadline' # None /\ ceiling' # None)
      BY <1>0, <1>1, <1>2 DEF Body, CutShortIsStopped, Expired
    <2> QED
      BY <2>1, <2>2 DEF CutShortIsStopped
  <1> QED
    BY <1>3, <1>4, <1>5, <1>6 DEF Body

\* A step that comes back while the Driver decides nothing of its own.
LEMMA CountedFacts ==
  ASSUME TypeOK, NEW c \in Costs, Counted(c)
  PROVE  /\ iterations' \in 1 .. Cap /\ iterations <= iterations'
         /\ (iterations < Cap => iterations' = iterations + 1)
         /\ cost' \in 0 .. Cap /\ cost <= cost'
         /\ rails' = rails /\ cancelled' = cancelled /\ now' = now /\ stopped' = stopped
         /\ pc = "step"
  BY DriverAssumption DEF Counted, AtMost, TypeOK

\* Ending from outside is a cancel, or the clock's ceiling.
LEMMA OutsideKeeps ==
  ASSUME Body, Kept(journal'), pc \in {"top", "step"}, cancelled \/ Expired,
         NEW j, NEW to \in {"top", "step"}, EndedFromOutside(j, to),
         iterations' \in 0 .. Cap, iterations <= iterations',
         cost' \in 0 .. Cap, cost <= cost',
         UNCHANGED <<rails, cancelled, now, stopped>>
  PROVE  Body'
  <1>1. CASE cancelled
    <2>1. /\ orch' = "cancelled" /\ pc' = "left" /\ cutShort' = TRUE
          /\ UNCHANGED <<ceiling, winding, deadline>>
      BY <1>1 DEF EndedFromOutside, Ends
    <2>2. TypeOK'
      BY <2>1 DEF Body, TypeOK, Kept, Finals
    <2>3. Place' /\ Windowed' /\ WithinCeilings' /\ CutShortIsStopped'
      BY <1>1, <2>1
      DEF Body, Place, Windowed, WithinCeilings, Going, CutShortIsStopped
    <2>4. CeilingIsTrue'
      <3>1. /\ rails \in [iterations : Bounds, cost : Bounds, duration : Bounds]
            /\ iterations \in Nat /\ cost \in Nat /\ iterations' \in Nat /\ cost' \in Nat
        BY DriverAssumption DEF Body, TypeOK
      <3> QED
        BY <2>1, <3>1 DEF Body, CeilingIsTrue, SpentIterations, SpentCost, Bounds
    <2> QED
      BY <2>2, <2>3, <2>4 DEF Body
  <1>2. CASE ~cancelled
    <2>1. Expired /\ SpendOrAccount("duration", j, to) /\ cutShort' = TRUE
      BY <1>2 DEF EndedFromOutside
    <2> QED
      BY <2>1, SpendKeeps
  <1> QED
    BY <1>1, <1>2 DEF Body, TypeOK

\* Nothing the plugin, the clock or a person does breaks the body.
LEMMA BodyStep == Inv /\ [Next]_vars => Body'
  <1> SUFFICES ASSUME Inv, [Next]_vars PROVE Body'
    OBVIOUS
  <1> USE DriverAssumption
  <1>0. Body /\ TypeOK /\ Kept(journal')
    BY WalkStep, KeptIsHonest DEF Inv, Body
  <1>a. /\ rails \in [iterations : Bounds, cost : Bounds, duration : Bounds]
        /\ iterations \in Nat /\ cost \in Nat /\ now \in Nat /\ deadline \in Bounds
    BY <1>0 DEF TypeOK
  <1>1. CASE CutAtTop
    <2>1. /\ pc = "top" /\ (cancelled \/ Expired) /\ EndedFromOutside(journal, "step")
          /\ UNCHANGED <<rails, cancelled, now, iterations, cost, stopped>>
      BY <1>1 DEF CutAtTop
    <2>2. iterations \in 0 .. Cap /\ cost \in 0 .. Cap
      BY <1>0 DEF TypeOK
    <2> QED
      BY <1>0, <1>a, <2>1, <2>2, OutsideKeeps
  <1>2. CASE BeginStep
    <2> USE <1>2, <1>0 DEF BeginStep
    <2>1. TypeOK'
      BY DEF TypeOK
    <2>2. Place' /\ Windowed' /\ WithinCeilings' /\ CutShortIsStopped'
      BY DEF Body, Place, Windowed, WithinCeilings, Going, CutShortIsStopped
    <2>3. CeilingIsTrue'
      BY DEF Body, CeilingIsTrue, SpentIterations, SpentCost
    <2> QED
      BY <2>1, <2>2, <2>3 DEF Body
  <1>3. CASE StepFails
    <2> USE <1>3, <1>0 DEF StepFails, Ends
    <2>1. TypeOK'
      BY DEF TypeOK, Kept, Finals
    <2>2. Place' /\ Windowed' /\ WithinCeilings' /\ CutShortIsStopped'
      BY DEF Body, Place, Windowed, WithinCeilings, Going, CutShortIsStopped
    <2>3. CeilingIsTrue'
      BY DEF Body, CeilingIsTrue, SpentIterations, SpentCost
    <2> QED
      BY <2>1, <2>2, <2>3 DEF Body
  <1>4. CASE StepUnwinds
    <2> USE <1>4, <1>0 DEF StepUnwinds
    <2>1. TypeOK'
      BY DEF TypeOK
    <2>2. stopped' # None /\ orch' = "running"
      BY DEF Body, Place
    <2>3. Place' /\ Windowed' /\ WithinCeilings' /\ CutShortIsStopped'
      BY <2>2 DEF Body, Place, Windowed, WithinCeilings, Going, CutShortIsStopped
    <2>4. CeilingIsTrue'
      BY DEF Body, CeilingIsTrue, SpentIterations, SpentCost
    <2> QED
      BY <2>1, <2>3, <2>4 DEF Body
  <1>5. ASSUME NEW c \in Costs, NEW final \in {"converged", "blocked", "taken_over", "failed"},
               StepConcludes(final, c)
        PROVE  Body'
    <2>1. /\ Counted(c) /\ pc' = "left" /\ orch' \in Finals \ {"cancelled"}
          /\ UNCHANGED <<deadline, ceiling, winding, cutShort>>
          /\ (winding => orch' \notin {"blocked", "taken_over"})
          /\ (orch' = "exhausted" => winding)
      BY <1>5 DEF StepConcludes, Ends, OnlyAnAccount, Finals
    <2> USE <1>0, <2>1, CountedFacts
    <2>2. TypeOK'
      BY DEF TypeOK, Kept
    <2>3. Place' /\ Windowed' /\ WithinCeilings' /\ CutShortIsStopped'
      BY DEF Body, Place, Windowed, WithinCeilings, Going, CutShortIsStopped, Finals
    <2>4. CeilingIsTrue'
      BY <1>a DEF Body, CeilingIsTrue, SpentIterations, SpentCost, Bounds
    <2> QED
      BY <2>2, <2>3, <2>4 DEF Body
  <1>6. ASSUME NEW c \in Costs, NEW own \in {"turns", "hold"}, StepExhausts(own, c)
        PROVE  Body'
    <2>1. /\ Counted(c) /\ pc' = "left" /\ orch' = "exhausted" /\ ceiling' = First(own)
          /\ UNCHANGED <<deadline, winding, cutShort>>
      BY <1>6 DEF StepExhausts, Exhaust, Ends
    <2>2. ceiling' \in Ceilings /\ ceiling' # None
          /\ (ceiling' = ceiling \/ ceiling' \in {"turns", "hold"})
          /\ (ceiling # None => ceiling' = ceiling)
      BY <1>0, <2>1 DEF First, TypeOK, Ceilings
    <2> USE <1>0, <2>1, <2>2, CountedFacts
    <2>3. TypeOK'
      BY DEF TypeOK, Kept, Finals
    <2>4. Place' /\ Windowed' /\ WithinCeilings' /\ CutShortIsStopped'
      BY DEF Body, Place, Windowed, WithinCeilings, Going, CutShortIsStopped
    <2>5. CeilingIsTrue'
      BY <1>a DEF Body, CeilingIsTrue, SpentIterations, SpentCost, Bounds
    <2> QED
      BY <2>3, <2>4, <2>5 DEF Body
  <1>7. ASSUME NEW c \in Costs, StepContinues(c) PROVE Body'
    <2> DEFINE walk == Remember(journal, "step")
               due == BudgetExhausted(iterations', cost')
    <2>1. Counted(c)
      BY <1>7 DEF StepContinues
    <2>2. /\ iterations' \in 1 .. Cap /\ iterations' \in 0 .. Cap /\ iterations <= iterations'
          /\ cost' \in 0 .. Cap /\ cost <= cost' /\ pc = "step"
          /\ UNCHANGED <<rails, cancelled, now, stopped>>
      BY <1>0, <2>1, CountedFacts
    <2>3. CASE (cancelled \/ Expired) /\ EndedFromOutside(walk, "top")
      BY <1>0, <2>2, <2>3, OutsideKeeps
    <2>4. CASE /\ ~cancelled /\ ~Expired /\ (winding \/ due = None) /\ GoesOn("top")
               /\ UNCHANGED <<deadline, ceiling, winding, cutShort>>
      <3>1. orch' = orch /\ pc' = "top"
        BY <2>4 DEF GoesOn
      <3>2. ~winding => ~SpentIterations(iterations') /\ ~SpentCost(cost')
        BY <2>4, <2>2 DEF BudgetExhausted, SpentIterations, SpentCost, Ceilings
      <3> USE <1>0, <2>2, <2>4, <3>1, <3>2
      <3>3. TypeOK'
        BY DEF TypeOK, Kept
      <3>4. Place' /\ Windowed' /\ CutShortIsStopped'
        BY DEF Body, Place, Windowed, CutShortIsStopped
      <3>5. WithinCeilings'
        BY <1>a DEF Body, Windowed, Place, WithinCeilings, Going, SpentIterations, SpentCost, Bounds
      <3>6. CeilingIsTrue'
        BY <1>a DEF Body, CeilingIsTrue, SpentIterations, SpentCost, Bounds
      <3> QED
        BY <3>3, <3>4, <3>5, <3>6 DEF Body
    <2>5. CASE /\ ~cancelled /\ ~Expired /\ ~winding /\ due # None
               /\ SpendOrAccount(due, walk, "top") /\ UNCHANGED cutShort
      <3>1. /\ due \in {"iterations", "cost"}
            /\ (due = "iterations" => SpentIterations(iterations'))
            /\ (due = "cost" => SpentCost(cost'))
        BY <2>5 DEF BudgetExhausted
      <3>2. /\ due = "iterations" => rails.iterations # None /\ iterations' >= rails.iterations
            /\ due = "cost" => rails.cost # None /\ cost' >= rails.cost
        BY <3>1, <2>2 DEF SpentIterations, SpentCost
      <3>3. cutShort' = (cutShort \/ Expired) /\ cutShort' \in BOOLEAN
        BY <2>5, <1>0 DEF TypeOK
      <3> HIDE DEF due, walk
      <3> QED
        BY <1>0, <2>2, <2>5, <3>1, <3>2, <3>3, SpendKeeps
    <2> QED
      BY <1>7, <2>3, <2>4, <2>5 DEF StepContinues
  <1>8. CASE Leave
    <2>1. /\ pc = "left" /\ pc' = "out" /\ UNCHANGED <<rails, orch, cancelled, now, deadline,
                iterations, cost, ceiling, winding, cutShort>>
          /\ (cutShort => stopped' \in Stops) /\ (~cutShort => stopped' = stopped)
      BY <1>8 DEF Leave
    <2> USE <1>0, <2>1
    <2>2. TypeOK'
      BY DEF TypeOK, Kept
    <2>3. Place' /\ Windowed' /\ WithinCeilings'
      BY DEF Body, Place, Windowed, WithinCeilings, Going
    <2>4. CutShortIsStopped'
      BY DEF Body, Place, CutShortIsStopped, TypeOK
    <2>5. CeilingIsTrue'
      BY DEF Body, CeilingIsTrue, SpentIterations, SpentCost
    <2> QED
      BY <2>2, <2>3, <2>4, <2>5 DEF Body
  <1>9. CASE Cancel \/ Tick \/ UNCHANGED vars
    <2>1. /\ UNCHANGED <<rails, orch, pc, deadline, iterations, cost, ceiling,
                         winding, cutShort, stopped>>
          /\ now' \in Nat /\ now <= now' /\ cancelled' \in BOOLEAN
          /\ (cancelled => cancelled')
      <3>1. CASE Cancel
        BY <3>1, <1>0 DEF Cancel, TypeOK
      <3>3. CASE UNCHANGED vars
        <4>1. /\ UNCHANGED <<rails, orch, pc, deadline, iterations, cost, ceiling,
                             winding, cutShort, stopped>>
              /\ now' = now /\ cancelled' = cancelled
          BY <3>3 DEF vars
        <4>2. now \in Nat /\ cancelled \in BOOLEAN
          BY <1>0 DEF TypeOK
        <4> QED
          BY <4>1, <4>2
      <3>2. CASE Tick
        BY <3>2, <1>0 DEF Tick, TypeOK
      <3> QED
        BY <1>9, <3>1, <3>2, <3>3
    <2> USE <1>0, <1>a, <2>1
    <2>2. TypeOK'
      BY DEF TypeOK, Kept
    <2>3. Place' /\ Windowed' /\ WithinCeilings' /\ CutShortIsStopped'
      BY DEF Body, Place, Windowed, WithinCeilings, Going, CutShortIsStopped
    <2>4. CeilingIsTrue'
      BY DEF Body, CeilingIsTrue, SpentIterations, SpentCost, Bounds
    <2> QED
      BY <2>2, <2>3, <2>4 DEF Body
  <1> QED
    BY <1>1, <1>2, <1>3, <1>4, <1>5, <1>6, <1>7, <1>8, <1>9 DEF Next, StepReturns

LEMMA InvStep == Inv /\ [Next]_vars => Inv'
  <1> SUFFICES ASSUME Inv, [Next]_vars PROVE Inv'
    OBVIOUS
  <1>1. Body' /\ Kept(journal')
    BY BodyStep, WalkStep, KeptIsHonest DEF Inv
  <1>2. RecallIsHonest'
    <2>1. Kept(journal)'
      BY <1>1
    <2>2. (TypeOK => (Kept(journal) <=> RecallIsHonest))'
      BY KeptIsHonest, PTL
    <2> QED
      BY <1>1, <2>1, <2>2 DEF Body
  <1> QED
    BY <1>1, <1>2 DEF Inv, Body

\* The state of a run is what the code's types say.
THEOREM TypeCorrect == Spec => []TypeOK
  BY InitInv, InvStep, PTL DEF Spec, Inv

\* A run is never stepped past its steps or its cost.
THEOREM StepsWithinCeilings == Spec => []WithinCeilings
  BY InitInv, InvStep, PTL DEF Spec, Inv

\* The ceiling an exhausted run reports is one that fell due, and an account
\* that goes wrong does not replace it.
THEOREM CeilingTold == Spec => []CeilingIsTrue
  BY InitInv, InvStep, PTL DEF Spec, Inv

\* Work is stopped for the runs that were cut short and for no other.
THEOREM CutShortStops == Spec => []CutShortIsStopped
  BY InitInv, InvStep, PTL DEF Spec, Inv

\* A search of the bounded walk never denies what the run did.
THEOREM RecallHonest == Spec => []RecallIsHonest
  BY InitInv, InvStep, PTL DEF Spec, Inv

\* The first ceiling stays, the deadline moves once, and no step is begun
\* after a cancel or after the window has run out.
THEOREM DecisionsStay == Spec => Decided
  <1> DEFINE A == /\ ceiling # None => ceiling' = ceiling
                  /\ deadline' # deadline => ~winding /\ winding'
                  /\ pc = "top" /\ pc' = "step" => ~cancelled /\ (Expired => ~winding)
  <1>1. Inv /\ [Next]_vars => [A]_vars
    <2> SUFFICES ASSUME Inv, Next PROVE A
      OBVIOUS
    <2>1. CASE CutAtTop
      BY <2>1 DEF CutAtTop, EndedFromOutside, SpendOrAccount, Exhaust, Ends, GoesOn, First
    <2>2. CASE BeginStep
      BY <2>2 DEF BeginStep
    <2>3. CASE StepFails \/ StepUnwinds \/ Leave \/ Cancel \/ Tick
      BY <2>3 DEF StepFails, StepUnwinds, Leave, Cancel, Tick, Ends
    <2>4. ASSUME NEW c \in Costs, NEW final, StepConcludes(final, c) PROVE A
      BY <2>4 DEF StepConcludes, Counted
    <2>5. ASSUME NEW c \in Costs, NEW own, StepExhausts(own, c) PROVE A
      BY <2>5 DEF StepExhausts, Counted, Exhaust, First
    <2>6. ASSUME NEW c \in Costs, StepContinues(c) PROVE A
      BY <2>6 DEF StepContinues, Counted, EndedFromOutside, SpendOrAccount, Exhaust, First
    <2> QED
      BY <2>1, <2>2, <2>3, <2>4, <2>5, <2>6 DEF Next, StepReturns
  <1> QED
    BY <1>1, InitInv, InvStep, PTL DEF Spec, Decided
=============================================================================

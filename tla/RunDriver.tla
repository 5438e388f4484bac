------------------------------ MODULE RunDriver ------------------------------
(***************************************************************************)
(* One run of sprag-plugin/src/driver.rs: the Driver steps a plugin until  *)
(* its orchestration statechart is in a final state.  The plugin is the    *)
(* environment here: a step of it may answer anything the Plugin trait     *)
(* allows, and it may be asked, once, to account for the run when one of   *)
(* the Driver's own ceilings falls due.  A person may cancel at any time   *)
(* and the clock moves during a step as well as between two.               *)
(***************************************************************************)
EXTENDS Integers, Sequences

CONSTANTS
    Rails,          \* the Guardrails a run may be given
    Costs,          \* what one step may cost
    Windows,        \* the windows a plugin may ask for
    JournalLimit,   \* how many records a run remembers
    Horizon,        \* bound: the clock stops here, unless a deadline lies ahead
    Cap,            \* bound: where the counters saturate
    None            \* an absent bound, an absent ceiling

Finals == {"converged", "exhausted", "failed", "cancelled", "blocked", "taken_over"}
Ceilings == {"iterations", "cost", "duration", "turns", "hold"}
Stops == {"nothing", "unsupported", "job", "unreached"}
Kinds == {"step", "failure", "account"}
Bounds == Nat \cup {None}

ASSUME DriverAssumption ==
    /\ None \notin Nat \cup Ceilings \cup Stops
    /\ Rails \subseteq [iterations : Bounds, cost : Bounds, duration : Bounds]
    /\ Costs \subseteq Nat
    /\ Windows \subseteq Nat
    /\ JournalLimit \in Nat \ {0}
    /\ Horizon \in Nat
    /\ Cap \in Nat \ {0}
    /\ \A r \in Rails : /\ r.iterations = None \/ r.iterations <= Cap
                        /\ r.cost = None \/ r.cost <= Cap

VARIABLES
    rails,      \* the guardrails of this run
    orch,       \* the orchestration statechart
    pc,         \* where the Driver is: "top" of its loop, in a "step", "left", "out"
    cancelled,  \* the cancel flag of the RunContext
    now,        \* the clock
    deadline,   \* the RunContext's deadline
    iterations, \* steps that completed
    cost,       \* what they cost
    ceiling,    \* exhausted_by
    winding,    \* a window for the account has been granted
    cutShort,   \* ended, or sent to its account, from outside
    stopped,    \* what stop_the_work answered
    journal     \* the records kept, how many were dropped, and the kinds ever written

vars == <<rails, orch, pc, cancelled, now, deadline, iterations, cost, ceiling,
          winding, cutShort, stopped, journal>>

Expired == deadline # None /\ now >= deadline

Init ==
    /\ rails \in Rails
    /\ orch = "running"
    /\ pc = "top"
    /\ cancelled = FALSE
    /\ now = 0
    /\ deadline = rails.duration
    /\ iterations = 0
    /\ cost = 0
    /\ ceiling = None
    /\ winding = FALSE
    /\ cutShort = FALSE
    /\ stopped = None
    /\ journal = [kept |-> <<>>, forgotten |-> 0, written |-> {}]

(***************************************************************************)
(* The pieces the loop is made of.                                         *)
(***************************************************************************)
AtMost(n) == IF n <= Cap THEN n ELSE Cap

\* Mutant of Remember: what is dropped is not counted.
RememberQuietly(j, kind) ==
    LET full == Len(j.kept) = JournalLimit
    IN [kept |-> Append(IF full THEN Tail(j.kept) ELSE j.kept, kind),
        forgotten |-> j.forgotten, written |-> j.written \cup {kind}]

\* Keep a record, the oldest dropped and counted when the journal is full.
Remember(j, kind) ==
    LET full == Len(j.kept) = JournalLimit
    IN [kept |-> Append(IF full THEN Tail(j.kept) ELSE j.kept, kind),
        forgotten |-> IF full THEN AtMost(j.forgotten + 1) ELSE j.forgotten,
        written |-> j.written \cup {kind}]

\* An event that takes the statechart to a final state ends the loop.
Ends(final) ==
    /\ orch' = final
    /\ pc' = "left"

GoesOn(to) ==
    /\ orch' = orch
    /\ pc' = to

\* Mutant of First: the last ceiling wins.
Latest(c) == c

\* The first ceiling wins.
First(c) == IF ceiling = None THEN c ELSE ceiling

Exhaust(c) ==
    /\ ceiling' = First(c)
    /\ Ends("exhausted")

\* Mutant of SpendOrAccount: the window is granted again.
AccountAgain(c, j, to) ==
    /\ \E w \in Windows : deadline' = now + w
    /\ winding' = TRUE
    /\ ceiling' = First(c)
    /\ journal' = Remember(j, "account")
    /\ GoesOn(to)

\* A ceiling of the Driver's fell due: the run ends, or its plugin is given a
\* window, once, to say where it got to.  j is the journal so far.
SpendOrAccount(c, j, to) ==
    \/ /\ winding
       /\ Exhaust(c)
       /\ journal' = Remember(j, "account")
       /\ UNCHANGED <<winding, deadline>>
    \/ /\ ~winding
       /\ Exhaust(c)
       /\ journal' \in {j, Remember(j, "account")}
       /\ UNCHANGED <<winding, deadline>>
    \/ /\ ~winding
       /\ \E w \in Windows : deadline' = now + w
       /\ winding' = TRUE
       /\ ceiling' = First(c)
       /\ journal' = Remember(j, "account")
       /\ GoesOn(to)

\* Mutant of EndedFromOutside: a window that has run out is not looked at.
EndedBeforeAWindow(j, to) ==
    /\ cutShort' = TRUE
    /\ \/ /\ cancelled
          /\ Ends("cancelled")
          /\ journal' = j
          /\ UNCHANGED <<ceiling, winding, deadline>>
       \/ /\ ~cancelled /\ winding
          /\ GoesOn(to)
          /\ journal' = j
          /\ UNCHANGED <<ceiling, winding, deadline>>
       \/ /\ ~cancelled /\ ~winding
          /\ SpendOrAccount("duration", j, to)

\* How the run ended from outside: cancel is asked before the clock.
EndedFromOutside(j, to) ==
    /\ cutShort' = TRUE
    /\ \/ /\ cancelled
          /\ Ends("cancelled")
          /\ journal' = j
          /\ UNCHANGED <<ceiling, winding, deadline>>
       \/ /\ ~cancelled
          /\ Expired
          /\ SpendOrAccount("duration", j, to)

\* Nothing that goes wrong while the run accounts for itself changes its ending.
OnlyAnAccount(final) ==
    IF winding /\ final \in {"blocked", "taken_over"} THEN "exhausted" ELSE final

SpentIterations(n) == rails.iterations # None /\ n >= rails.iterations
SpentCost(c) == rails.cost # None /\ c >= rails.cost

\* Mutant of BudgetExhausted: off by one.
BudgetOverrun(n, c) ==
    IF rails.iterations # None /\ n > rails.iterations THEN "iterations"
    ELSE IF rails.cost # None /\ c > rails.cost THEN "cost" ELSE None

BudgetExhausted(n, c) ==
    IF SpentIterations(n) THEN "iterations" ELSE IF SpentCost(c) THEN "cost" ELSE None

(***************************************************************************)
(* The loop.                                                               *)
(***************************************************************************)
\* The top of the loop: the run ended from outside; a window granted here is
\* entered at once, with no second look at the clock.
CutAtTop ==
    /\ pc = "top"
    /\ cancelled \/ Expired
    /\ EndedFromOutside(journal, "step")
    /\ UNCHANGED <<rails, cancelled, now, iterations, cost, stopped>>

BeginStep ==
    /\ pc = "top"
    /\ ~cancelled /\ ~Expired
    /\ pc' = "step"
    /\ UNCHANGED <<rails, orch, cancelled, now, deadline, iterations, cost, ceiling,
                   winding, cutShort, stopped, journal>>

\* A step that could not be taken.
StepFails ==
    /\ pc = "step"
    /\ journal' = Remember(journal, "failure")
    /\ Ends("failed")
    /\ UNCHANGED <<rails, cancelled, now, deadline, iterations, cost, ceiling,
                   winding, cutShort, stopped>>

\* A step that panics: the work is stopped and the panic goes on.
StepUnwinds ==
    /\ pc = "step"
    /\ stopped' \in Stops
    /\ pc' = "out"
    /\ UNCHANGED <<rails, orch, cancelled, now, deadline, iterations, cost, ceiling,
                   winding, cutShort, journal>>

\* What every step that returns does before its verdict is read.
Counted(c) ==
    /\ pc = "step"
    /\ iterations' = AtMost(iterations + 1)
    /\ cost' = AtMost(cost + c)
    /\ UNCHANGED <<rails, cancelled, now, stopped>>

\* Converged, Blocked, TakenOver, PeerGone: the plugin ends the run.
StepConcludes(final, c) ==
    /\ Counted(c)
    /\ journal' = Remember(journal, "step")
    /\ Ends(OnlyAnAccount(final))
    /\ UNCHANGED <<deadline, ceiling, winding, cutShort>>

\* Exhausted (its own budget) and Abandoned (a hold nobody came back to).
StepExhausts(own, c) ==
    /\ Counted(c)
    /\ journal' = Remember(journal, "step")
    /\ Exhaust(own)
    /\ UNCHANGED <<deadline, winding, cutShort>>

\* Continue, Answered, Screened: the Driver decides.
StepContinues(c) ==
    /\ Counted(c)
    /\ LET walk == Remember(journal, "step")
           due == BudgetExhausted(iterations', cost')
       IN \/ /\ cancelled \/ Expired
             /\ EndedFromOutside(walk, "top")
          \/ /\ ~cancelled /\ ~Expired
             /\ winding \/ due = None
             /\ GoesOn("top")
             /\ journal' = walk
             /\ UNCHANGED <<deadline, ceiling, winding, cutShort>>
          \/ /\ ~cancelled /\ ~Expired
             /\ ~winding /\ due # None
             /\ SpendOrAccount(due, walk, "top")
             /\ UNCHANGED cutShort

StepReturns ==
    \/ StepFails
    \/ StepUnwinds
    \/ \E c \in Costs :
        \/ \E final \in {"converged", "blocked", "taken_over", "failed"} :
              StepConcludes(final, c)
        \/ \E own \in {"turns", "hold"} : StepExhausts(own, c)
        \/ StepContinues(c)

\* Mutant of Leave: the work goes on.
LeaveWorking ==
    /\ pc = "left"
    /\ pc' = "out"
    /\ UNCHANGED <<rails, orch, cancelled, now, deadline, iterations, cost, ceiling,
                   winding, cutShort, stopped, journal>>

\* After the loop: a run that was cut short stops the work it had going.
Leave ==
    /\ pc = "left"
    /\ IF cutShort THEN stopped' \in Stops ELSE UNCHANGED stopped
    /\ pc' = "out"
    /\ UNCHANGED <<rails, orch, cancelled, now, deadline, iterations, cost, ceiling,
                   winding, cutShort, journal>>

(***************************************************************************)
(* The world.                                                              *)
(***************************************************************************)
Cancel ==
    /\ pc # "out"
    /\ ~cancelled
    /\ cancelled' = TRUE
    /\ UNCHANGED <<rails, orch, pc, now, deadline, iterations, cost, ceiling,
                   winding, cutShort, stopped, journal>>

Tick ==
    /\ pc # "out"
    /\ now < Horizon \/ (deadline # None /\ now < deadline)
    /\ now' = now + 1
    /\ UNCHANGED <<rails, orch, pc, cancelled, deadline, iterations, cost, ceiling,
                   winding, cutShort, stopped, journal>>

\* A step under way when the run is over returns: its waits poll the context.
CutStepReturns == (cancelled \/ Expired) /\ StepReturns

Next == CutAtTop \/ BeginStep \/ StepReturns \/ Leave \/ Cancel \/ Tick

Fairness ==
    /\ WF_vars(CutAtTop) /\ WF_vars(BeginStep) /\ WF_vars(Leave)
    /\ WF_vars(CutStepReturns)
    /\ WF_vars(Tick)

Spec == Init /\ [][Next]_vars /\ Fairness
-----------------------------------------------------------------------------
(***************************************************************************)
(* Properties.                                                             *)
(***************************************************************************)
TypeOK ==
    /\ rails \in Rails
    /\ orch \in Finals \cup {"running"}
    /\ pc \in {"top", "step", "left", "out"}
    /\ cancelled \in BOOLEAN
    /\ now \in Nat
    /\ deadline \in Bounds
    /\ iterations \in 0 .. Cap
    /\ cost \in 0 .. Cap
    /\ ceiling \in Ceilings \cup {None}
    /\ winding \in BOOLEAN
    /\ cutShort \in BOOLEAN
    /\ stopped \in Stops \cup {None}
    /\ journal.kept \in Seq(Kinds)
    /\ journal.forgotten \in 0 .. Cap
    /\ journal.written \in SUBSET Kinds

Going == orch = "running" /\ pc \in {"top", "step"}

\* A step is only begun under the ceilings: while no window has been granted,
\* a run about to be stepped has steps and cost left (a ceiling of zero lets
\* the first step through: it is looked at once a step has completed).
WithinCeilings ==
    Going /\ ~winding =>
        /\ rails.iterations # None /\ iterations > 0 => iterations < rails.iterations
        /\ rails.cost # None /\ iterations > 0 => cost < rails.cost
        /\ ceiling = None

\* An exhausted run says which ceiling bound it, and says the truth: the
\* Driver's own ceilings are named only once they have been reached, whatever
\* falls due later, inside the window.
CeilingIsTrue ==
    /\ orch = "exhausted" \/ winding => ceiling # None
    /\ ceiling = "iterations" => SpentIterations(iterations)
    /\ ceiling = "cost" => SpentCost(cost)
    /\ ceiling = "duration" => rails.duration # None /\ now >= rails.duration
    /\ winding => orch \notin {"blocked", "taken_over"}

\* The work of a run is stopped exactly when the run was cut short (or its
\* step panicked), and a run is cut short only by a cancel or a clock.
CutShortIsStopped ==
    /\ pc = "out" => (stopped # None <=> cutShort \/ orch = "running")
    /\ cutShort => cancelled \/ (deadline # None /\ ceiling # None)
    /\ orch = "cancelled" => cutShort

\* A search of the walk never denies what the run did: it answers "absent"
\* only if nothing was forgotten, and then nothing of that kind was written.
Recall(kind) ==
    IF \E i \in 1 .. Len(journal.kept) : journal.kept[i] = kind THEN "found"
    ELSE IF journal.forgotten = 0 THEN "absent" ELSE "beyond"

RecallIsHonest ==
    /\ Len(journal.kept) <= JournalLimit
    /\ \A kind \in Kinds :
        /\ Recall(kind) = "absent" => kind \notin journal.written
        /\ Recall(kind) = "found" => kind \in journal.written

\* What a ceiling has decided stays decided: the first ceiling is the one the
\* run reports, the deadline moves once, for the window, and no step begins
\* after a cancel or after the window has run out.
Decided ==
    [][ /\ ceiling # None => ceiling' = ceiling
        /\ deadline' # deadline => ~winding /\ winding'
        /\ pc = "top" /\ pc' = "step" => ~cancelled /\ (Expired => ~winding)
      ]_vars

\* A run that is cancelled, or has a clock, ends: whatever its plugin answers,
\* and whatever window it is given.
RunEnds == (cancelled \/ deadline # None) ~> pc = "out"

\* What driver.rs says of stop_the_work: a run that converged, and answered on
\* its own terms, leaves its pane as it found it.
ConvergedUntouched == pc = "out" /\ orch = "converged" => stopped # "job"
=============================================================================

-------------------------------- MODULE AiLoop --------------------------------
(***************************************************************************)
(* One run of the AI loop: the statechart of sprag-plugin/src/ai_loop.scxml *)
(* and the outer loop of sprag-plugin/src/outer.rs that pumps it.           *)
(*                                                                         *)
(* The statechart has two regions.  `work` is what the run is doing,        *)
(* `orders` what a person told it.  One pump reads the person's orders and  *)
(* a restart (pc = "top"), does what the state it finds asks for and walks  *)
(* the one event that came of it (pc = "act"), and types the sentence that  *)
(* walk asked for (pc = "say").  A pump that ends reports its place, and a  *)
(* driver that dies is put back at the last place reported.                *)
(*                                                                         *)
(* The peer is the environment: it may do, and its screen may show,         *)
(* anything at all.  The Driver (RunDriver) is one too: it may cut the run  *)
(* between two pumps, and may ask it to stop short.                         *)
(***************************************************************************)
EXTENDS Integers

CONSTANTS
    MaxTurns,       \* max_turns, or Never
    ReflectEvery,   \* reflect_every
    ReflectAfter,   \* reflect_after_refusals
    ReaimMax,       \* reaim_max, or Never
    ReaskMax,       \* reask_max
    EmptyMax,       \* empty_max
    RetryMax,       \* service_retry_max, or Never
    ResumesMax,     \* service_resumes_max, or Never
    HoldWithin,     \* hold_within_ms, in ticks
    Told,           \* bound: what people say to the runs of an instance
    MaxCrashes,     \* bound: how often the driver or the daemon dies
    Cap,            \* bound: where a count nobody limits saturates
    Never,          \* a budget that is switched off
    None

Finals == {"converged", "exhausted", "failed", "cancelled", "blocked", "peer_gone",
           "abandoned"}
Working == {"idle", "priming", "working", "screening", "service_down",
            "awaiting_human", "judging", "disputing", "unverified", "reflecting",
            "reviewing", "restarting", "resuming", "redirecting", "widening",
            "closing", "stopping"}
Sentences == {"brief", "turn", "retry", "dispute", "uncertified", "reflection",
              "reask", "account", "handover"}
Produced == {"something", "nothing", "refused", "unread"}
Orders == {"standing", "held", "standing_down"}
Whys == {"refused", "resumes", "milestone", "reask", None}
DoneReasons == {"reached", "deferred", "stood_down"}
RestartReasons == {"unasked", "wrote_nothing", "planned"}

ASSUME LoopAssumption ==
    /\ {ReflectEvery, ReflectAfter, EmptyMax, Cap} \subseteq Nat \ {0}
    /\ ReaskMax \in Nat /\ HoldWithin \in Nat /\ MaxCrashes \in Nat
    /\ {MaxTurns, ReaimMax, RetryMax, ResumesMax} \subseteq Nat \cup {Never}
    /\ Never \notin Nat
    /\ None \notin Nat \cup Sentences \cup DoneReasons \cup RestartReasons
    /\ Told \subseteq {"hold", "stand_down", "stop_short"}

VARIABLES
    work,       \* the region work, or the final state the machine is in
    orders,     \* the region orders
    d,          \* the datamodel
    why,        \* what the state was entered for, where the datamodel says
    pc,         \* where the pump is: "top", "act", "say", or "out" when the run is over
    say,        \* the Say slot: a sentence asked for and not yet typed
    stopShort,  \* stopping_short: a ceiling asked for the account
    held,       \* the person's hold flag, as the RunContext has it
    heldFor,    \* how long the loop has seen it up, None while it has not
    again,      \* some text was refused by the peer before
    rescued,    \* a boot put this run back and it has not been told
    place,      \* the place last reported
    crashes,    \* how often the run was put back
    briefed     \* history: the program in the pane was given the brief ("yes", and
                \* also where it came up in a pane a person has, which is left to
                \* them).  It was not: the run put it there ("no"), or a boot did and
                \* no report tells of it yet ("rebooted").  The driver that knew of
                \* the boot died before it reported ("missed").

vars == <<work, orders, d, why, pc, say, stopShort, held, heldFor, again, rescued, place,
          crashes, briefed>>
host == <<stopShort, held, heldFor, again, rescued, crashes>>

Limited(n, max) == max # Never /\ n >= max
UpTo(n, max) == LET top == IF max = Never THEN Cap ELSE max
                IN IF n <= top THEN n ELSE top

Datamodel == [turns |-> 0, since |-> 0, unbanked |-> 0, empties |-> 0,
              emptySeen |-> FALSE, unaskedSeen |-> FALSE, refusals |-> 0,
              silences |-> 0, instructed |-> FALSE, reaimed |-> 0, reasked |-> 0,
              restartReason |-> None, doneReason |-> None]

Init ==
    /\ work = "idle" /\ orders = "standing" /\ d = Datamodel /\ why = None
    /\ pc = "top" /\ say = None /\ stopShort = FALSE
    /\ held = FALSE /\ heldFor = None
    /\ again = FALSE /\ rescued = FALSE /\ place = None /\ crashes = 0
    /\ briefed = "no"

(***************************************************************************)
(* Transitions.  Entering some states asks for a sentence, and two of them  *)
(* assign; the sentence replaces whatever was in the Say slot.              *)
(***************************************************************************)
EntrySays(to, because) ==
    CASE to = "priming" -> "brief"
      [] to = "disputing" -> "dispute"
      [] to = "unverified" -> "uncertified"
      [] to = "reflecting" -> IF because = "reask" THEN "reask" ELSE "reflection"
      [] to = "closing" -> "account"
      [] to = "stopping" -> "handover"
      [] OTHER -> say

\* Reflecting starts the counts of what led to it again, and, unless it is
\* asked again, the count of how often it was.
EnterReflecting(e, because) ==
    [e EXCEPT !.since = 0, !.refusals = 0, !.silences = 0, !.instructed = FALSE,
              !.reasked = IF because = "reask" THEN @ ELSE 0]

\* A walk to a state, for a reason the state reads, saying what it says on entry.
WalkBecause(to, e, because) ==
    /\ work' = to
    /\ d' = IF to = "reflecting" THEN EnterReflecting(e, because) ELSE e
    /\ why' = because
    /\ say' = EntrySays(to, because)
    /\ pc' = "say"

Walk(to, e) == WalkBecause(to, e, None)

\* A walk to working whose edge says something.
WalkSaying(e, sentence) ==
    /\ work' = "working"
    /\ d' = e
    /\ why' = None
    /\ say' = sentence
    /\ pc' = "say"

\* An event nothing in the state takes: the walk still empties the Say slot.
Unmoved ==
    /\ pc' = "say"
    /\ UNCHANGED <<work, d, why, say>>

\* The place a pump reports at its end; kept while there are crashes to come.
\* after is history: the deaths there had been.
Place(w, e, because) ==
    place' = IF crashes < MaxCrashes
             THEN [work |-> w, orders |-> orders, d |-> e, why |-> because,
                   after |-> crashes] ELSE None

\* The run is over: the place it reported is read no more.
Over == pc' = "out" /\ place' = None

\* A pass on which nothing happened: the pump is over, and reports.
Report ==
    /\ pc' = "top"
    /\ Place(work, d, why)
Null ==
    /\ Report
    /\ UNCHANGED <<work, orders, d, why, say, briefed>>

\* A turn ended: what it produced is judged on.
TurnDone ==
    \E produced \in Produced :
        WalkBecause("judging",
             [d EXCEPT !.turns = UpTo(@ + 1, MaxTurns),
                       !.since = UpTo(@ + 1, ReflectEvery),
                       !.empties = CASE produced = "nothing" -> UpTo(@ + 1, EmptyMax)
                                     [] produced = "something" -> 0
                                     [] OTHER -> @,
                       !.unbanked = IF produced = "refused" THEN @ ELSE 0],
             IF produced = "refused" THEN "refused" ELSE None)

\* A dialog, as working reads it.
TurnBlocked ==
    \/ Walk("service_down", d)
    \/ \E to \in {"widening", "redirecting", "screening"} : Walk(to, d)

Restarting(reason) ==
    Walk("restarting",
         [d EXCEPT !.restartReason = reason,
                   !.emptySeen = @ \/ reason = "wrote_nothing"])

(***************************************************************************)
(* The top of a pump: what the Driver, a person and a restart have to say.  *)
(***************************************************************************)
\* The Driver ends the run: cancelled, a ceiling, or a clock.
DriverCuts ==
    /\ pc = "top"
    /\ Over
    /\ UNCHANGED <<work, orders, d, why, say, host, briefed>>

\* stand.down is raised on every pump once the person has said it, and hold on
\* every pump the flag is up.  The first pump to see it down lets go.
OrdersWalk(standDown) ==
    LET stood == IF standDown /\ orders = "standing" THEN "standing_down" ELSE orders
    IN IF held
       THEN /\ orders' = IF stood = "standing" THEN "held" ELSE stood
            /\ heldFor' = IF heldFor = None THEN 0 ELSE heldFor
       ELSE /\ orders' = IF heldFor # None /\ stood = "held" THEN "standing" ELSE stood
            /\ heldFor' = None

\* Mutant of Parked: only the pump that first sees the flag parks.
ParkedOnce == held /\ heldFor = None /\ work = "working"

\* The same events, where the region work takes them.
Parked == held /\ work = "working"
LetGo == ~held /\ heldFor # None /\ work = "awaiting_human"
Ordered == IF Parked THEN "awaiting_human" ELSE IF LetGo THEN "working" ELSE work

\* peer.restarted, raised once.
AfterRestart(w) ==
    CASE w = "closing" -> "converged"
      [] w = "stopping" -> "exhausted"
      [] w \in Finals \cup {"awaiting_human"} -> w
      [] OTHER -> "resuming"

Pump ==
    /\ pc = "top"
    /\ \E standDown \in {FALSE, "stand_down" \in Told} : OrdersWalk(standDown)
    \* a stall, or the Driver asking for the account
    /\ stopShort' \in {stopShort, "stop_short" \in Told \/ stopShort}
    /\ say' = IF LetGo THEN "turn" ELSE say
    /\ work' = IF rescued THEN AfterRestart(Ordered) ELSE Ordered
    /\ why' = IF work' = work THEN why ELSE None
    /\ rescued' = FALSE
    /\ IF work' \in Finals THEN Over ELSE pc' = "act" /\ UNCHANGED place
    /\ briefed' = IF rescued /\ Ordered = "awaiting_human" THEN "yes" ELSE briefed
    /\ UNCHANGED <<d, held, again, crashes>>

(***************************************************************************)
(* What a pump does in each state, and the event it walks.                  *)
(***************************************************************************)
In(states) == pc = "act" /\ work \in states
Walked == UNCHANGED <<orders, host, place, briefed>>
Nothing == Null /\ UNCHANGED host

\* Events every state but a few takes: the peer went, the run was cancelled
\* under a wait, the datamodel cannot be read.
Gone == Walk("peer_gone", d) /\ Walked
Cancelled == Walk("cancelled", d) /\ Walked
Unreadable == Walk("failed", d) /\ Walked

StartReady ==
    /\ In({"idle"})
    /\ \/ Walk("priming", d) /\ Walked
       \/ Nothing

Sent ==
    /\ In({"priming", "disputing", "unverified"})
    /\ Walk("working", d) /\ Walked

Watch ==
    /\ In({"working"})
    /\ \/ TurnDone /\ Walked
       \/ TurnBlocked /\ Walked
       \/ Walk("awaiting_human", d) /\ Walked      \* turn.interrupted, peer.silent
       \/ WalkBecause("service_down", d, "resumes") /\ Walked
       \/ Cancelled \/ Gone \/ Unreadable
       \/ Nothing

WatchClosing ==
    /\ In({"closing"})
    /\ \/ Walk("converged", d) /\ Walked           \* turn.done
       \/ Walk("screening", d) /\ Walked           \* turn.blocked
       \/ Walk("awaiting_human", d) /\ Walked      \* turn.interrupted
       \/ Gone \/ Unreadable
       \/ Unmoved /\ Walked                        \* cancel, peer.silent
       \/ Nothing

WatchStopping ==
    /\ In({"stopping"})
    /\ \/ Walk("exhausted", d) /\ Walked           \* turn.done, .blocked, .interrupted
       \/ Cancelled \/ Gone \/ Unreadable
       \/ Unmoved /\ Walked                        \* peer.silent
       \/ Nothing

\* Mutant of Claimed: the disputes are not counted.
ClaimedUncounted(checked) ==
    \/ orders = "standing_down" /\ Walk("closing", [d EXCEPT !.doneReason = "stood_down"])
    \/ orders # "standing_down" /\ checked = "failed" /\ Walk("disputing", d)
    \/ orders # "standing_down" /\ checked = "silent" /\ Walk("unverified", d)
    \/ orders # "standing_down" /\ checked = "passed"
       /\ WalkBecause("reflecting", d, "milestone")

\* A turn that claims the milestone, and what the milestone check made of it.
Claimed(checked) ==
    \/ /\ orders = "standing_down"
       /\ Walk("closing", [d EXCEPT !.doneReason = "stood_down"])
    \/ /\ orders # "standing_down"
       /\ checked = "failed"
       /\ IF d.refusals + 1 >= ReflectAfter
          THEN Walk("reflecting", d)
          ELSE Walk("disputing", [d EXCEPT !.refusals = @ + 1])
    \/ /\ orders # "standing_down"
       /\ checked = "silent"
       /\ IF d.silences + 1 >= ReflectAfter
          THEN Walk("reflecting", d)
          ELSE Walk("unverified", [d EXCEPT !.silences = @ + 1])
    \/ /\ orders # "standing_down"
       /\ checked = "passed"
       /\ WalkBecause("reflecting", d, "milestone")

\* A turn that does not, in document order; full says the context is at its
\* ceiling.
Unclaimed(full) ==
    IF why = "refused" THEN Walk("service_down", d)
    ELSE IF Limited(d.turns, MaxTurns) THEN Walk("stopping", d)
    ELSE IF d.empties >= EmptyMax
         THEN IF d.emptySeen THEN Walk("failed", d) ELSE Restarting("wrote_nothing")
    ELSE IF d.instructed \/ full \/ d.since >= ReflectEvery
         THEN Walk("reflecting", d)
    ELSE WalkSaying(d, "turn")

\* Mutant of Judge: the ceiling that asked for the account is forgotten.
JudgeRegardless ==
    /\ In({"judging"})
    /\ \/ \E checked \in {"passed", "failed", "silent"} : Claimed(checked)
       \/ \E full \in BOOLEAN : Unclaimed(full)
       \/ Unreadable
    /\ Walked

Judge ==
    /\ In({"judging"})
    /\ \/ stopShort /\ Walk("stopping", d)
       \/ ~stopShort /\ \E checked \in {"passed", "failed", "silent"} : Claimed(checked)
       \/ ~stopShort /\ \E full \in BOOLEAN : Unclaimed(full)
       \/ Unreadable
    /\ Walked

\* A dialog one of the run's own rules may answer.
Screen ==
    /\ In({"screening"})
    /\ \/ Walk("working", [d EXCEPT !.instructed = TRUE]) /\ Walked    \* matched
       \/ Walk("working", d) /\ Walked                                 \* moot
       \/ Walk("awaiting_human", d) /\ Walked                          \* none
       \/ Gone \/ Unreadable

Redirect ==
    /\ In({"redirecting"})
    /\ \/ \E to \in {"working", "awaiting_human"} : Walk(to, d) /\ Walked
       \/ Gone \/ Unreadable

Widen ==
    /\ In({"widening"})
    /\ \/ \E to \in {"working", "awaiting_human"} : Walk(to, d) /\ Walked
       \/ Gone \/ Unreadable

\* Mutant of Retry: the retry that is typed is not counted.
RetryUncounted ==
    LET max == IF why = "resumes" THEN ResumesMax ELSE RetryMax
    IN IF Limited(d.unbanked, max) THEN Walk("awaiting_human", d)
       ELSE IF why = "resumes" THEN Walk("working", [d EXCEPT !.unbanked = UpTo(@ + 1, Cap)])
       ELSE WalkSaying(d, "retry")

\* An outage is waited out, and the turn tried again while its budget lasts.
\* A service that resumes by itself is only watched again.
Retry ==
    LET max == IF why = "resumes" THEN ResumesMax ELSE RetryMax
        retried == [d EXCEPT !.unbanked = UpTo(@ + 1, Cap)]
    IN IF Limited(d.unbanked, max) THEN Walk("awaiting_human", d)
       ELSE IF why = "resumes" THEN Walk("working", retried)
       ELSE WalkSaying(retried, "retry")

OutageOver == In({"service_down"}) /\ Retry /\ Walked

WaitOutService ==
    \/ OutageOver
    \/ In({"service_down"}) /\ (Unreadable \/ Nothing)

\* What the turn of a reflection proposes.  changed: another milestone; fresh:
\* one that starts a chain; admitted: what the successor check said, if asked.
Proposed(changed, fresh, admitted) ==
    LET spent == Limited(d.reaimed, ReaimMax) /\ ~fresh
        unadmitted == admitted = "refused"
        onMilestone == why \in {"milestone", "reask"}
        refused == changed /\ (spent \/ unadmitted)
    IN IF refused /\ onMilestone /\ d.reasked >= ReaskMax
       THEN Walk("closing", [d EXCEPT !.doneReason = "deferred"])
       ELSE IF refused /\ onMilestone
       THEN WalkBecause("reflecting", [d EXCEPT !.reasked = @ + 1], "reask")
       ELSE IF refused
       THEN WalkSaying(d, "turn")
       ELSE Walk("reviewing", [d EXCEPT !.reaimed = IF changed /\ ~fresh
                                                    THEN UpTo(@ + 1, ReaimMax) ELSE @])

Reflect ==
    /\ In({"reflecting"})
    /\ \/ Walk("closing", [d EXCEPT !.doneReason = "reached"]) /\ Walked
       \/ why # None /\ Walk("closing", [d EXCEPT !.doneReason = "reached"]) /\ Walked
       \/ why = None /\ WalkSaying(d, "turn") /\ Walked  \* reflect.none
       \/ why = None /\ Proposed(FALSE, FALSE, "unasked") /\ Walked  \* no proposal
       \/ \E changed, fresh \in BOOLEAN, admitted \in {"unasked", "admitted", "refused"} :
             Proposed(changed, fresh, admitted) /\ Walked
       \/ Walk("awaiting_human", d) /\ Walked     \* turn.blocked, turn.interrupted
       \/ Cancelled \/ Gone \/ Unreadable
       \/ Unmoved /\ Walked                       \* peer.silent
       \/ Nothing

\* A new milestone: the same session is told of it if its context has room
\* and replacing it would not pay, and replaced otherwise.
Review ==
    /\ In({"reviewing"})
    /\ \/ Walk("priming", [d EXCEPT !.since = 0])
       \/ Restarting("planned")
    /\ Walked

\* Mutant of Replaced: every budget is given back.
ReplacedForgiving ==
    Walk("resuming", [d EXCEPT !.empties = 0, !.unaskedSeen = FALSE, !.emptySeen = FALSE])

\* A replacement gives back the budgets of the recoveries it was not.
Replaced ==
    Walk("resuming",
         [d EXCEPT !.empties = 0,
                   !.unaskedSeen = IF d.restartReason = "unasked" THEN @ ELSE FALSE,
                   !.emptySeen = IF d.restartReason = "wrote_nothing" THEN @ ELSE FALSE])

Replace ==
    /\ In({"restarting"})
    /\ Replaced
    /\ briefed' = "no"
    /\ UNCHANGED <<orders, host, place>>

\* Mutant of Resume: the new session is put to work.
ResumeAtWork ==
    /\ In({"resuming"})
    /\ WalkSaying(d, "turn") /\ Walked

Resume ==
    /\ In({"resuming"})
    /\ \/ Walk("priming", d) /\ Walked
       \/ Cancelled \/ Gone \/ Unreadable
       \/ Nothing

\* Mutant of AttendHeld: a hold has no ceiling.
AttendHeldForEver == In({"awaiting_human"}) /\ held /\ Nothing

\* A person has the pane.  While the hold is up only its ceiling ends the
\* wait, and abandon is taken by the order the run is under, not by the wait.
AttendHeld ==
    /\ In({"awaiting_human"})
    /\ held
    /\ IF heldFor # None /\ heldFor >= HoldWithin
       THEN /\ IF orders = "held" THEN Walk("abandoned", d) ELSE Unmoved
            /\ Walked
       ELSE Nothing

\* Nobody came: the wait for a person is over, unless the run is on hold.
Unattended ==
    /\ In({"awaiting_human"})
    /\ ~held
    /\ IF orders # "held" THEN Walk("blocked", d) ELSE Unmoved
    /\ Walked

AttendPerson ==
    /\ In({"awaiting_human"})
    /\ ~held
    /\ \/ TurnDone /\ Walked
       \/ Cancelled \/ Gone \/ Unreadable
       \/ Nothing

(***************************************************************************)
(* Typing what the walk asked for.                                         *)
(***************************************************************************)
NothingToSay == pc = "say" /\ say = None /\ Null /\ UNCHANGED host

Typed ==
    /\ pc = "say" /\ say # None
    /\ say' = None
    /\ briefed' = IF say = "brief" THEN "yes" ELSE briefed
    /\ Report
    /\ UNCHANGED <<work, orders, d, why, host>>

(***************************************************************************)
(* What goes wrong while a pump works or types is told to the statechart,   *)
(* and the pump is over.                                                    *)
(***************************************************************************)
Typing == \/ pc = "say" /\ say # None
          \/ pc = "act" /\ work \in {"screening", "redirecting"}

ToldOf(to, e) ==
    /\ work' = to /\ d' = e /\ why' = None
    /\ say' = IF pc = "say" THEN None ELSE say
    /\ pc' = "top"
    /\ Place(to, e, None)
    /\ UNCHANGED <<orders, briefed>>

\* prompt.unasked: the peer did not take a text.  One it refused before ends
\* the run; otherwise the session is replaced, once.
Unasked ==
    /\ Typing
    /\ work \notin Finals
    /\ \E retyped \in {FALSE, again} :
          IF work = "closing" THEN ToldOf("converged", d)
          ELSE IF work = "stopping" THEN ToldOf("exhausted", d)
          ELSE IF retyped \/ d.unaskedSeen THEN ToldOf("failed", d)
          ELSE ToldOf("restarting", [d EXCEPT !.restartReason = "unasked",
                                            !.unaskedSeen = TRUE])
    /\ again' = TRUE
    /\ UNCHANGED <<stopShort, held, heldFor, rescued, crashes>>

\* turn.blocked: the peer raised a dialog instead.  Where nothing takes it the
\* step fails.
Asking ==
    /\ Typing
    /\ \/ work = "working" /\ ToldOf("service_down", d)
       \/ work = "working" /\ \E to \in {"widening", "redirecting", "screening"} : ToldOf(to, d)
       \/ work = "closing" /\ ToldOf("screening", d)
       \/ work = "stopping" /\ ToldOf("exhausted", d)
       \/ work = "reflecting" /\ ToldOf("awaiting_human", d)
    /\ UNCHANGED host

\* Mutant of PeerLost: a judged run whose peer is gone had converged.
PeerLostConverged ==
    /\ Typing \/ In({"working", "judging", "reflecting"})
    /\ work \notin Finals
    /\ IF work = "judging" THEN ToldOf("converged", d) ELSE ToldOf("peer_gone", d)
    /\ UNCHANGED host

PeerLost ==
    /\ Typing \/ In({"idle", "working", "closing", "stopping", "judging", "widening",
                     "reflecting", "restarting", "resuming", "awaiting_human"})
    /\ work \notin Finals
    /\ IF work = "judging" /\ orders = "standing_down" THEN ToldOf("converged", d)
       ELSE ToldOf("peer_gone", d)
    /\ UNCHANGED host

\* An error that is not an event: the step fails, and the run with it.
StepFails ==
    /\ pc \in {"act", "say"}
    /\ Over
    /\ UNCHANGED <<work, orders, d, why, say, host, briefed>>

(***************************************************************************)
(* The world.                                                              *)
(***************************************************************************)
PersonHolds ==
    /\ pc # "out"
    /\ "hold" \in Told
    /\ held' = ~held
    /\ UNCHANGED <<work, orders, d, why, pc, say, stopShort, heldFor, again, rescued, place,
                   crashes, briefed>>

Tick ==
    /\ pc # "out"
    /\ heldFor # None /\ heldFor < HoldWithin
    /\ heldFor' = heldFor + 1
    /\ UNCHANGED <<work, orders, d, why, pc, say, stopShort, held, again, rescued, place,
                   crashes, briefed>>

\* The driver dies, or the daemon with every program of its panes: the run is
\* put back at the place it last reported, under orders nobody has given yet,
\* and everything the statechart does not hold is forgotten.  A boot may find
\* an older place, the last one filed; since nothing but the place outlives the
\* driver, what follows it is what follows a boot right after that report.
PutBack(by) ==
    /\ pc # "out"
    /\ crashes < MaxCrashes
    /\ place # None
    /\ work' = place.work /\ orders' = place.orders /\ d' = place.d /\ why' = place.why
    /\ pc' = "top" /\ say' = None
    /\ stopShort' = FALSE /\ held' = FALSE /\ heldFor' = None /\ again' = FALSE
    /\ rescued' = (by = "boot")
    /\ briefed' = IF by = "boot"
                  THEN IF work' = "awaiting_human" THEN "yes" ELSE "rebooted"
                  ELSE IF briefed = "rebooted"
                  THEN IF place.after = crashes THEN "no" ELSE "missed"
                  ELSE briefed
    /\ crashes' = crashes + 1
    /\ UNCHANGED place

Act == \/ StartReady \/ Sent \/ Watch \/ WatchClosing \/ WatchStopping \/ Judge
       \/ Screen \/ Redirect \/ Widen \/ WaitOutService \/ Reflect \/ Review
       \/ Replace \/ Resume \/ AttendHeld \/ AttendPerson \/ Unattended
Error == Unasked \/ Asking \/ PeerLost \/ StepFails
World == PersonHolds \/ Tick \/ \E by \in {"driver", "boot"} : PutBack(by)
Next == DriverCuts \/ Pump \/ Act \/ NothingToSay \/ Typed \/ Error \/ World

\* A pump goes on: its waits have ends of their own, and so have, over many
\* pumps, the wait for a service and the wait for a person.  The clock of a hold
\* runs.  Nothing is assumed of the peer or of a person.
Fairness ==
    /\ WF_vars(Pump) /\ WF_vars(Act) /\ WF_vars(NothingToSay \/ Typed)
    /\ SF_vars(OutageOver) /\ SF_vars(Unattended)
    /\ WF_vars(Tick)

Spec == Init /\ [][Next]_vars /\ Fairness
-----------------------------------------------------------------------------
(***************************************************************************)
(* Properties.                                                             *)
(***************************************************************************)
Data == [turns : Nat, since : Nat, unbanked : Nat, empties : Nat,
         emptySeen : BOOLEAN, unaskedSeen : BOOLEAN, refusals : Nat,
         silences : Nat, instructed : BOOLEAN, reaimed : Nat,
         reasked : 0 .. ReaskMax, restartReason : RestartReasons \cup {None},
         doneReason : DoneReasons \cup {None}]
Places == [work : Working \cup Finals, orders : Orders, d : Data, why : Whys,
           after : Nat]

TypeOK ==
    /\ work \in Working \cup Finals
    /\ orders \in Orders
    /\ d \in Data
    /\ why \in Whys
    /\ pc \in {"top", "act", "say", "out"}
    /\ say \in Sentences \cup {None}
    /\ heldFor \in 0 .. HoldWithin \cup {None}
    /\ place \in Places \cup {None}
    /\ crashes \in 0 .. MaxCrashes

\* A hold parks the run whatever it was doing: from the pump that sees the flag
\* up no turn is watched for the loop, only for the person, until it is let go.
HeldIsParked ==
    heldFor # None /\ pc = "act" =>
        /\ work # "working"
        /\ orders \in {"held", "standing_down"}

\* A run that says it converged reached its milestone and was offered none it
\* may aim at, or was told to stand down; it says it stood down only if told.
ConvergedForAReason ==
    /\ work = "converged" => d.doneReason # None \/ orders = "standing_down"
    /\ d.doneReason = "stood_down" => orders = "standing_down"

Unbriefed == briefed \in {"no", "rebooted"}

\* A program that was just put into the pane, by the run or by a boot, is
\* greeted with the brief before anything else is said to it, unless what the
\* boot said was lost with the driver it was said to.
GreetedFirst == pc = "say" /\ say \notin {None, "brief"} => ~Unbriefed

\* The same without the exception.
AlwaysGreeted == pc = "say" /\ say \notin {None, "brief"} => briefed = "yes"

\* A recovery that did not help is not tried again: no session is replaced for
\* a sentence not taken, or for turns that wrote nothing, when the replacement
\* before it was for the same.
NoRecoveryTwice ==
    [][work # "restarting" /\ work' = "restarting" /\ crashes' = crashes
       /\ d'.restartReason \in {"unasked", "wrote_nothing"}
       => d'.restartReason # d.restartReason]_vars

\* A run asked to stop short judges no endless row of turns, whatever they claim.
StopShortStops == []<>In({"judging"}) => <>[]~stopShort

\* An outage that never ends is given up to a person: without one, some turn
\* in between was answered.
OutagesAsk ==
    []<>In({"service_down"}) =>
        []<>(work = "awaiting_human" \/ (work = "judging" /\ why # "refused"))

\* A run does not argue for ever about a claim its check does not confirm.
ClaimsAreReflected ==
    []<>In({"disputing", "unverified"}) => []<>(work = "reflecting")

\* A hold ends, once the person has had their last word: they let go of it, or
\* its ceiling ends the run.
HoldEnds ==
    <>[][UNCHANGED held]_vars =>
        (orders = "held" /\ work = "awaiting_human" ~>
            orders # "held" \/ work # "awaiting_human" \/ pc = "out")

\* What ai_loop.scxml says of closing: a run that is already ending does not
\* buy a session.
EndingBuysNothing == d.doneReason # None => work \notin {"restarting", "resuming"}
=============================================================================

---------------------------- MODULE AgentSettles ----------------------------
(***************************************************************************)
(* What an agent in a pane is doing, as the daemon publishes it: one       *)
(* pane's tracker (sprag-detect, track.rs), the clock that drives it       *)
(* (AgentClock in agent.rs, the waker of sprag-term.rs, sweep_once), the   *)
(* readers that look at the pane for reasons of their own, the reporter    *)
(* inside the pane, and a wait on the verdict.                             *)
(*                                                                         *)
(* Time is kept as ages.  A look compares the age of a candidate with the  *)
(* window at the instant `now' its caller read, which lies `lag' ticks     *)
(* back.  What a screen and its title read as is a constant of the         *)
(* manifests (Claimed, Kept, Asking); the composer's reading is left out.  *)
(***************************************************************************)
EXTENDS Integers

CONSTANTS
    None,
    Screens,      \* what the pane can show, its title included
    Agents,       \* the agents the manifests know
    Rules,        \* revisions of the manifests
    Claimed,      \* [Rules -> [Screens -> verdict]]: detect, by fingerprint
    Kept,         \* [Agents -> [Rules -> [Screens -> verdict]]]: Manifest::verdict
    Asking,       \* the screens that hold an unanswered dialog
    ReportStates, \* what a reporter says
    Seqs,         \* the numbers it puts on what it says; None is no number
    Windows,      \* the settings of agent-settle-time
    MaxWindow,    \* the longest of them
    Interval,     \* SWEEP_INTERVAL, in ticks
    MaxLag,       \* a bound: the ticks between reading the clock and a look
    MaxActs       \* a bound: what the pane, its reporter and the user do

ActiveStates == {"working", "blocked", "holding"}
States == ActiveStates \cup {"idle", "unknown"}

\* A rule's name matters where it tells verdicts apart: "outranks" is
\* DIALOG_OUTRANKS_REPORT.
Verdicts == [state : States, agent : Agents \cup {None}, rule : {None, "outranks"}]
Default == [state |-> "unknown", agent |-> None, rule |-> None]
Active(v) == v.state \in ActiveStates

\* Ages are not told apart past this one.
Oldest == MaxWindow + MaxLag
Later(age, oldest) == IF age < oldest THEN age + 1 ELSE oldest

(* A manifest's own verdict names its agent. *)
ASSUME AgentAssumption ==
    /\ None \notin Agents \cup Seqs
    /\ MaxWindow \in Nat /\ Windows \subseteq 0..MaxWindow /\ None \notin Windows
    /\ Seqs \subseteq Nat /\ MaxLag \in Nat /\ MaxActs \in Nat
    /\ Interval \in Nat /\ Interval > 0
    /\ ReportStates \subseteq States /\ Asking \subseteq Screens
    /\ Claimed \in [Rules -> [Screens -> Verdicts]]
    /\ Kept \in [Agents -> [Rules -> [Screens -> Verdicts]]]
    /\ \A a \in Agents, r \in Rules, s \in Screens : Kept[a][r][s].agent = a

VARIABLES
    screen, rules, window,  \* the pane, the manifests in force, the option
    gone,      \* the process that reported is gone
    broken,    \* the reporter has left word that it cannot deliver
    printing,  \* the reader thread has yet to move the pane's revision
    telling,   \* report_agent has yet to move it
    published, pending, seen, identity, reported, mute, owes_look,
    policy,    \* the tracker's window; None while there is no tracker
    spoken,    \* history: a report came after the last look that evaluated
    pc, sleep, lag, since_sweep, discover,   \* the waker
    waiter,    \* somebody parked on the verdict it has read
    acts

tracker == <<published, pending, seen, identity, reported, mute, owes_look,
             policy, spoken>>
env == <<screen, rules, window, gone, broken, printing, telling, acts>>
waker == <<pc, sleep, lag, since_sweep, discover>>
vars == <<tracker, env, waker, waiter>>

\* What the waiter holds: a deadline of its own, a move of the pane.  History:
\* whether the verdict it read was known, whether another was published since,
\* and whether since then the pane was given back to its screen, muted or read
\* by other rules.
Waiters == [deadline : BOOLEAN, bumped : BOOLEAN,
            known : BOOLEAN, stale : BOOLEAN, redone : BOOLEAN]

Init ==
    /\ screen \in Screens /\ rules \in Rules /\ window \in Windows
    /\ gone = FALSE /\ broken = FALSE /\ printing = FALSE /\ telling = FALSE
    /\ published = Default /\ pending = None /\ seen = None /\ identity = None
    /\ reported = None /\ mute = FALSE /\ owes_look = FALSE /\ policy = None
    /\ spoken = FALSE
    /\ pc = "top" /\ sleep = 0 /\ lag = 0 /\ since_sweep = 0 /\ discover = FALSE
    /\ waiter = None
    /\ acts = 0

(* None is no record.                                                      *)
ASSUME NoneAssumption ==
    /\ None \notin [candidate : Verdicts, age : 0..Oldest]
    /\ None \notin [current : BOOLEAN, rules : Rules]
    /\ None \notin [state : ReportStates, seq : Seqs \cup {None}]
    /\ None \notin Waiters

-----------------------------------------------------------------------------
(* The tracker.                                                            *)

Publish(v, id) ==
    [published |-> v, pending |-> None,
     identity |-> IF v.agent = None THEN None ELSE id]

\* A candidate has been held for the window at the instant `back' ticks ago.
Held(p, pol, back) == p # None /\ p.age >= pol + back

Settle(p, id, pol, back) ==
    IF Held(p, pol, back) THEN Publish(p.candidate, id)
    ELSE [published |-> published, pending |-> p, identity |-> id]

Consider(v, id, pol, back) ==
    IF v = published
    THEN [published |-> published, pending |-> None, identity |-> id]
    ELSE IF Active(v)
    THEN Publish(v, id)
    ELSE Settle(IF pending # None /\ pending.candidate = v THEN pending
                ELSE [candidate |-> v, age |-> back], id, pol, back)

\* The report that outranks the screen.
InForce == reported # None /\ ~mute

\* What the screen reads as, for an agent last identified as `id'.
Evaluate(s, r, id) ==
    IF Claimed[r][s].agent # None THEN Claimed[r][s]
    ELSE IF id # None /\ Active(Kept[id][r][s]) THEN Kept[id][r][s]
    ELSE Default

\* A report in force, against the one thing on the screen that outranks it.
Overruled(s, said, id) ==
    [state |-> IF s \in Asking THEN "blocked" ELSE said, agent |-> id,
     rule |-> IF s \in Asking THEN "outranks" ELSE None]

Candidate(r) ==
    IF InForce THEN Overruled(screen, reported.state, identity)
    ELSE Evaluate(screen, r, identity)

\* The evaluation identifies the pane, whether or not it is published.
Identified ==
    IF ~InForce /\ Claimed[rules][screen].agent # None
    THEN Claimed[rules][screen].agent ELSE identity

Unchanged == seen # None /\ seen.current /\ seen.rules = rules

\* The window is read from the options where somebody waits on it.
Consulted == IF policy = None \/ pending # None THEN window ELSE policy

Looked(back) ==
    IF Unchanged THEN Settle(pending, identity, Consulted, back)
    ELSE Consider(Candidate(rules), Identified, Consulted, back)

\* When the candidate falls due, in ticks from now.
Deadline(p, pol) == IF p = None THEN None ELSE pol - p.age

\* A parked waker is told; one that is not parked is not.
Notify(told) == pc' = IF told /\ pc = "parked" THEN "told" ELSE pc

\* AgentClock::observe, by anybody.
Observe(back) ==
    LET after == Looked(back)
    IN /\ published' = after.published
       /\ pending' = after.pending
       /\ identity' = after.identity
       /\ seen' = [current |-> TRUE, rules |-> rules]
       /\ owes_look' = (owes_look /\ (Unchanged \/ InForce))
       /\ spoken' = (spoken /\ Unchanged)
       /\ policy' = IF pending' # None THEN window ELSE Consulted
       /\ UNCHANGED <<reported, mute>>

\* Mutant of Redo: what was seen is kept.
RedoRemembering ==
    /\ owes_look' = TRUE
    /\ UNCHANGED <<published, pending, seen, identity, policy, spoken>>

\* release_report and set_reporter_mute: a look is owed that no screen asks for.
Redo ==
    /\ seen' = None
    /\ owes_look' = TRUE
    /\ UNCHANGED <<published, pending, identity, policy, spoken>>

Redone == waiter' = IF waiter = None THEN None ELSE [waiter EXCEPT !.redone = TRUE]

\* A verdict the waiter read may be another now; the pane may have moved.
Heard(bump) ==
    waiter' = IF waiter = None THEN None
              ELSE [waiter EXCEPT !.stale = @ \/ published' # published,
                                  !.bumped = @ \/ bump]
-----------------------------------------------------------------------------
(* The pane, its reporter, the requests and the readers.                   *)

Act == acts < MaxActs /\ acts' = acts + 1

Output(s) ==
    /\ Act /\ ~printing /\ screen' = s
    /\ seen' = IF seen = None THEN None ELSE [seen EXCEPT !.current = FALSE]
    /\ printing' = TRUE
    /\ UNCHANGED <<rules, window, gone, broken, telling, waker, waiter, published,
                   pending, identity, reported, mute, owes_look, policy, spoken>>

\* The reader thread moves the revision after it has shown the batch.
OutputBump ==
    /\ printing /\ printing' = FALSE
    /\ UNCHANGED published /\ Heard(TRUE)
    /\ UNCHANGED <<screen, rules, window, gone, broken, telling, acts, waker,
                   pending, seen, identity, reported, mute, owes_look, policy, spoken>>

\* Late: the same speaker has said something newer.
Late(seq) ==
    reported # None /\ reported.seq # None /\ seq # None /\ seq <= reported.seq

\* report_agent, up to the moment it moves the pane.
Report(state, agent, seq) ==
    /\ Act /\ ~telling
    /\ IF Late(seq)
       THEN UNCHANGED <<tracker, gone, telling, waiter>>
       ELSE LET id    == IF agent # None THEN agent ELSE identity
                said  == [state |-> state, agent |-> id, rule |-> None]
                after == IF said # published THEN Publish(said, id)
                         ELSE [published |-> published, identity |-> id]
            IN /\ published' = after.published
               /\ identity' = after.identity
               /\ pending' = None
               /\ reported' = [state |-> state, seq |-> seq]
               /\ owes_look' = FALSE /\ mute' = FALSE
               /\ policy' = IF policy = None THEN window ELSE policy
               /\ spoken' = TRUE
               /\ gone' = FALSE
               /\ telling' = (said # published)
               /\ Heard(FALSE)
               /\ UNCHANGED seen
    /\ UNCHANGED <<screen, rules, window, broken, printing, waker>>

\* The pass over a pool holds its lock, which a reader and a bump need.
PassHoldsPool == pc \in {"release", "owes", "look"}

\* Mutant of ReportBump: the session is told, and the pane does not move.
ReportTells ==
    /\ telling /\ ~PassHoldsPool
    /\ telling' = FALSE
    /\ UNCHANGED <<screen, rules, window, gone, broken, printing, acts, waker,
                   tracker, waiter>>

ReportBump ==
    /\ telling /\ ~PassHoldsPool
    /\ telling' = FALSE
    /\ UNCHANGED published /\ Heard(TRUE)
    /\ UNCHANGED <<screen, rules, window, gone, broken, printing, acts, waker,
                   pending, seen, identity, reported, mute, owes_look, policy, spoken>>

\* AgentClock::release, by a request or by the sweep.
Release ==
    IF reported = None
    THEN UNCHANGED <<tracker, waiter>>
    ELSE reported' = None /\ UNCHANGED mute /\ Redo /\ Redone

ReleaseAgent ==
    /\ Act /\ ~telling /\ reported # None
    /\ Release
    /\ Notify(TRUE)
    /\ UNCHANGED <<screen, rules, window, gone, broken, printing, telling,
                   sleep, lag, since_sweep, discover>>

ReporterGoes ==
    /\ Act /\ reported # None /\ gone' = TRUE
    /\ UNCHANGED <<tracker, screen, rules, window, broken, printing, telling, waker, waiter>>

\* A hook leaves word that its delivery failed, or takes it back.
Hook ==
    /\ Act /\ broken' = ~broken
    /\ UNCHANGED <<tracker, screen, rules, window, gone, printing, telling, waker, waiter>>

SetOption(w) ==
    /\ Act /\ w # window /\ window' = w
    /\ UNCHANGED <<tracker, screen, rules, gone, broken, printing, telling, waker, waiter>>

\* The pane list, a client's verdict, a run's look: whoever looks, with a
\* clock it read a moment ago.
ReaderLook ==
    /\ ~PassHoldsPool
    /\ \E back \in 0..MaxLag : Observe(back)
    /\ Notify(pending' # None /\ Deadline(pending', policy') # Deadline(pending, policy))
    /\ UNCHANGED <<env, sleep, lag, since_sweep, discover>>

\* A look of somebody else's, or of the waiter, which then parks again.  Of a
\* verdict that is not known no deadline is told (state? in observe).
Read ==
    /\ ReaderLook
    /\ \/ Heard(FALSE)
       \/ waiter' = [deadline |-> published'.state # "unknown" /\ pending' # None,
                     known |-> published'.state # "unknown",
                     bumped |-> FALSE, stale |-> FALSE, redone |-> FALSE]

-----------------------------------------------------------------------------
(* The waker and its pass over the pane.                                   *)

Due == Held(pending, policy, lag)

\* park_until_due: until the candidate is due, or for the cap.
Park ==
    /\ pc = "top"
    /\ LET left == IF policy > pending.age THEN policy - pending.age ELSE 0
           wait == IF pending # None /\ left < Interval THEN left ELSE Interval
       IN /\ sleep' = wait
          /\ pc' = IF wait = 0 THEN "told" ELSE "parked"
    /\ UNCHANGED <<tracker, env, lag, since_sweep, discover, waiter>>

\* It wakes and reads the clock.
Wake ==
    /\ pc = "told" \/ (pc = "parked" /\ sleep = 0)
    /\ pc' = "begun" /\ lag' = 0 /\ sleep' = 0
    /\ UNCHANGED <<tracker, env, since_sweep, discover, waiter>>

\* A pass that sweeps reads the manifests again.
Begin ==
    /\ pc = "begun"
    /\ LET sweep == since_sweep >= Interval + lag
       IN IF ~sweep /\ ~Due /\ ~owes_look
          THEN pc' = "top" /\ UNCHANGED <<rules, since_sweep, discover, acts, waiter>>
          ELSE /\ pc' = "check" /\ discover' = sweep
               /\ since_sweep' = IF sweep THEN lag ELSE since_sweep
               /\ \/ UNCHANGED <<rules, acts, waiter>>
                  \/ sweep /\ Act /\ rules' \in Rules \ {rules} /\ Redone
    /\ UNCHANGED <<tracker, screen, window, gone, broken, printing, telling, sleep, lag>>

\* Whether the reporter is gone is asked under one lock, the report dropped
\* under another.
Check ==
    /\ pc = "check"
    /\ pc' = IF reported # None /\ gone THEN "release" ELSE "owes"
    /\ UNCHANGED <<tracker, env, sleep, lag, since_sweep, discover, waiter>>

Drop ==
    /\ pc = "release" /\ pc' = "owes"
    /\ Release
    /\ UNCHANGED <<env, sleep, lag, since_sweep, discover>>

Stale == seen # None /\ seen.rules # rules

\* Mutants of OwesEvaluation: the clock alone, and the clock forgotten.
OwesDue == Due \/ (discover /\ (policy = None \/ Stale))
OwesDiscovery == owes_look \/ (discover /\ (policy = None \/ Stale))

OwesEvaluation == Due \/ owes_look \/ (discover /\ (policy = None \/ Stale))

\* Whether its reporter's word is to be read is decided here too.
Owes ==
    /\ pc = "owes"
    /\ discover' = (discover /\ reported # None)
    /\ pc' = IF OwesEvaluation THEN "look" ELSE "word"
    /\ UNCHANGED <<tracker, env, sleep, lag, since_sweep, waiter>>

\* What the look publishes moves the pane; its announcement is the channels'
\* affair.  A report that comes between the two readings of the sequence
\* number only makes the pass move the pane once more.
Look ==
    /\ pc = "look" /\ pc' = "word"
    /\ Observe(lag)
    /\ Heard(published' # published)
    /\ UNCHANGED <<env, sleep, lag, since_sweep, discover>>

\* The reporter's word is read from its file, and set under the lock later.
Word ==
    /\ pc = "word"
    /\ pc' = IF ~discover THEN "top" ELSE IF broken THEN "mute" ELSE "unmute"
    /\ UNCHANGED <<tracker, env, sleep, lag, since_sweep, discover, waiter>>

SetReporterMute ==
    /\ pc \in {"mute", "unmute"} /\ pc' = "top"
    /\ IF mute = (pc = "mute")
       THEN UNCHANGED <<tracker, waiter>>
       ELSE mute' = (pc = "mute") /\ UNCHANGED reported /\ Redo /\ Redone
    /\ UNCHANGED <<env, sleep, lag, since_sweep, discover>>

Tick ==
    /\ lag < MaxLag \/ pc \in {"top", "parked", "told"}
    /\ pending' = IF pending = None THEN None
                  ELSE [pending EXCEPT !.age = Later(@, Oldest)]
    /\ sleep' = IF sleep > 0 THEN sleep - 1 ELSE 0
    /\ lag' = IF pc \in {"top", "parked", "told"} THEN 0 ELSE lag + 1
    /\ since_sweep' = Later(since_sweep, Interval + MaxLag)
    /\ UNCHANGED <<published, seen, identity, reported, mute, owes_look, policy,
                   spoken, env, pc, discover, waiter>>

WakerStep ==
    Park \/ Wake \/ Begin \/ Check \/ Drop \/ Owes \/ Look \/ Word \/ SetReporterMute

Environment ==
    \/ \E s \in Screens : Output(s)
    \/ \E st \in ReportStates, a \in Agents \cup {None}, q \in Seqs \cup {None} :
           Report(st, a, q)
    \/ ReleaseAgent \/ ReporterGoes \/ Hook
    \/ \E w \in Windows : SetOption(w)
    \/ Read

Next == Environment \/ OutputBump \/ ReportBump \/ WakerStep \/ Tick

Spec == Init /\ [][Next]_vars /\ WF_vars(WakerStep) /\ WF_vars(Tick)
             /\ WF_vars(OutputBump) /\ WF_vars(ReportBump)

-----------------------------------------------------------------------------
(* The state keeps its shape.                                              *)
TypeOK ==
    /\ screen \in Screens /\ rules \in Rules /\ window \in Windows
    /\ gone \in BOOLEAN /\ broken \in BOOLEAN
    /\ printing \in BOOLEAN /\ telling \in BOOLEAN
    /\ published \in Verdicts
    /\ pending = None \/ pending \in [candidate : Verdicts, age : 0..Oldest]
    /\ seen = None \/ seen \in [current : BOOLEAN, rules : Rules]
    /\ identity \in Agents \cup {None}
    /\ reported = None \/ reported \in [state : ReportStates, seq : Seqs \cup {None}]
    /\ mute \in BOOLEAN /\ owes_look \in BOOLEAN
    /\ policy \in Windows \cup {None}
    /\ spoken \in BOOLEAN
    /\ pc \in {"top", "parked", "told", "begun", "check", "release", "owes",
               "look", "word", "mute", "unmute"}
    /\ sleep \in 0..Interval /\ lag \in 0..MaxLag
    /\ since_sweep \in 0..(Interval + MaxLag) /\ discover \in BOOLEAN
    /\ waiter = None \/ waiter \in Waiters
    /\ acts \in 0..MaxActs

(* The skip of Tracker::observe is exact (track.rs:689): where nothing the  *)
(* rules read has moved, what stands - published, or settling - is what a   *)
(* reading of the screen would find now, whatever was reported, released,   *)
(* muted, reloaded and identified in between; but that a report is not held *)
(* against a dialog that was on the screen when it came.                    *)
Standing == IF pending # None THEN pending.candidate ELSE published

Said == [state |-> reported.state, agent |-> identity, rule |-> None]

SkipIsExact ==
    Unchanged => Standing = IF InForce /\ spoken THEN Said ELSE Candidate(rules)

(* Somebody who waits on a verdict that is no longer the one he read holds  *)
(* a deadline of his own or a move of the pane, made or to be made          *)
(* (workspace.rs:1538).  It is kept for one who read a verdict that was     *)
(* known, of a pane that was not handed back to its screen since.           *)
HoldsOne ==
    waiter # None /\ waiter.stale =>
        waiter.deadline \/ waiter.bumped \/ printing \/ telling

StillHeard == waiter # None /\ waiter.known /\ ~waiter.redone => HoldsOne

(* "A settling candidate publishes on a clock, and Settling::At puts that   *)
(* instant in the waiter's own hand" (workspace.rs:1545): of an unknown     *)
(* verdict none is told, whatever is settling.                              *)
CandidateIsInHand == waiter # None /\ ~waiter.redone => HoldsOne

(* A report is dropped when its reporter is gone, and not for what another  *)
(* reporter did (sweep.rs:261).  Not kept: Check and Drop are two steps.    *)
DropsTheDead == [][pc = "release" /\ pc' = "owes" /\ reported # None => gone]_vars

(* No pane is due after it was looked at (the assertion at sweep.rs:349).   *)
(* Kept where agent-settle-time is never set to 0.                          *)
NotStillDue == [][pc = "look" /\ pc' = "word" => ~Due']_vars

(* A candidate does not wait past its window for ever: it is published or  *)
(* gives way, though nothing is printed and nobody but the waker looks.     *)
Overdue == pending # None /\ pending.age = Oldest
CandidateResolves == Overdue ~> ~Overdue

(* A look that is owed is taken, or a report in force stands in its place.  *)
OwedLookServed == owes_look ~> (~owes_look \/ InForce)
=============================================================================

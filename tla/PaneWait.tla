------------------------------ MODULE PaneWait ------------------------------
(***************************************************************************)
(* One session's parked questions about a pane: PaneWaitChannel in         *)
(* crates/sprag-host/src/notify.rs, once for pane/waitForOutput and once   *)
(* for pane/waitForRevision, with the threads that wake it.                *)
(*                                                                         *)
(* A pane's reader thread applies a batch of output to the screen, bumps   *)
(* the pane's revision, then the session's; the settle sweep bumps a       *)
(* pane's revision when it publishes a verdict, then announces in the      *)
(* session.  The session's bump runs the observer on the bumping thread:   *)
(* two atomics per kind and, on an edge, one message to the dispatch       *)
(* owner, who alone parks, searches and answers.                           *)
(*                                                                         *)
(* A screen is one bit: whether it holds what the output waits look for.   *)
(***************************************************************************)
EXTENDS Integers, FiniteSets

CONSTANTS
    Clients,
    Panes,                  \* each is its own reader thread
    Sweep,                  \* the settle sweep
    Silent,                 \* the panes born through the plugin surface (a
                            \* respawn, an offstage window): no on_dirty hook
    MaxMoves, MaxParks      \* bounds of a checked instance

Kinds   == {"output", "revision"}
Threads == Panes \cup {Sweep}

ASSUME PaneWaitAssumption ==
    /\ Sweep \notin Panes /\ Silent \subseteq Panes
    /\ MaxMoves \in Nat /\ MaxParks \in Nat

VARIABLES
    said,       \* the screen of each pane holds what is looked for
    held,       \* its program holds a synchronized update open
    life,       \* where its reader thread is in the pane's life
    moved,      \* its revision
    roster,     \* the panes that are in the session
    pc, kind, edge,     \* each waking thread: where it is, the channel it is
                        \* arming, whether one of its arms answered true
    parked,     \* the parked waits of each kind
    queued,     \* PaneWaitChannel::queued
    any,        \* PaneWaitChannel::parked_any
    passes,     \* OutputMoved messages in the dispatch queue
    step, pass, more,   \* the dispatch owner: what it is doing, the kind it is
                        \* evaluating, whether the revision pass follows
    todo, fire, \* the waits taken and not looked at, and those to answer
    parks       \* how many waits were ever parked

pane  == <<said, held, life, moved, roster>>
waker == <<pc, kind, edge>>
chan  == <<parked, queued, any>>
owner == <<step, pass, more, todo, fire>>
vars  == <<pane, waker, chan, passes, owner, parks>>

Waits == [conn : Clients, pane : Panes, since : Nat]

Init ==
    /\ said = [p \in Panes |-> FALSE] /\ held = [p \in Panes |-> FALSE]
    /\ life = [p \in Panes |-> "reading"] /\ moved = [p \in Panes |-> 0]
    /\ roster = Panes
    /\ pc = [t \in Threads |-> "idle"] /\ kind = [t \in Threads |-> "output"]
    /\ edge = [t \in Threads |-> FALSE]
    /\ parked = [k \in Kinds |-> {}]
    /\ queued = [k \in Kinds |-> FALSE] /\ any = [k \in Kinds |-> FALSE]
    /\ passes = 0 /\ step = "idle" /\ pass = "output" /\ more = FALSE
    /\ todo = {} /\ fire = {} /\ parks = 0

\* What `look` answers for a wait of each kind.
Met(k, w) ==
    /\ w.pane \in roster
    /\ IF k = "output" THEN said[w.pane] ELSE moved[w.pane] > w.since

(***************************************************************************)
(* The threads that wake.                                                  *)
(***************************************************************************)
\* The reader thread applies a batch.  One that leaves a synchronized update
\* open moves nothing yet (DEC 2026): nobody is to see half a frame.
Batch(p) ==
    /\ pc[p] = "idle" /\ life[p] = "reading" /\ moved[p] < MaxMoves
    /\ \E now, open \in BOOLEAN :
          /\ said' = [said EXCEPT ![p] = now]
          /\ held' = [held EXCEPT ![p] = open]
          /\ pc'   = [pc EXCEPT ![p] = IF open THEN "idle" ELSE "bump"]
    /\ UNCHANGED <<life, moved, roster, kind, edge, chan, passes, owner, parks>>

\* Mutant of Ending: the wake of the end waits for the update to be closed.
EndingHeld(p) ==
    /\ pc[p] = "idle" /\ life[p] # "reaped" /\ moved[p] < MaxMoves
    /\ life' = [life EXCEPT ![p] = IF @ = "reading" THEN "ended" ELSE "reaped"]
    /\ pc' = [pc EXCEPT ![p] = IF held[p] THEN "idle" ELSE "bump"]
    /\ UNCHANGED <<said, held, moved, roster, kind, edge, chan, passes, owner, parks>>

\* End of file, and then the exit status: the revision moves both times,
\* whatever was held.
Ending(p) ==
    /\ pc[p] = "idle" /\ life[p] # "reaped" /\ moved[p] < MaxMoves
    /\ life' = [life EXCEPT ![p] = IF @ = "reading" THEN "ended" ELSE "reaped"]
    /\ pc' = [pc EXCEPT ![p] = "bump"]
    /\ UNCHANGED <<said, held, moved, roster, kind, edge, chan, passes, owner, parks>>

\* Mutant of Notify: the output channel is not armed.
NotifyRevision(t) ==
    /\ pc'   = [pc EXCEPT ![t] = "load"]
    /\ kind' = [kind EXCEPT ![t] = "revision"]
    /\ edge' = [edge EXCEPT ![t] = FALSE]

\* The thread starts the observer: the output channel is armed first.
Notify(t) ==
    /\ pc'   = [pc EXCEPT ![t] = "load"]
    /\ kind' = [kind EXCEPT ![t] = "output"]
    /\ edge' = [edge EXCEPT ![t] = FALSE]

\* The pane's revision moves, and its on_dirty hook (bump_on_dirty) moves the
\* session's; a pane with no hook wakes nobody.
BumpPane(p) ==
    /\ pc[p] = "bump"
    /\ moved' = [moved EXCEPT ![p] = @ + 1]
    /\ IF p \in Silent THEN pc' = [pc EXCEPT ![p] = "idle"] /\ UNCHANGED <<kind, edge>>
       ELSE Notify(p)
    /\ UNCHANGED <<said, held, life, roster, chan, passes, owner, parks>>

\* The sweep publishes the verdicts of one or several panes ...
Publish(p) ==
    /\ pc[Sweep] \in {"idle", "published"} /\ moved[p] < MaxMoves
    /\ pc' = [pc EXCEPT ![Sweep] = "published"]
    /\ moved' = [moved EXCEPT ![p] = @ + 1]
    /\ UNCHANGED <<said, held, life, roster, kind, edge, chan, passes, owner, parks>>

\* ... and announces them in the session once.
Announce ==
    /\ pc[Sweep] = "published" /\ Notify(Sweep)
    /\ UNCHANGED <<pane, chan, passes, owner, parks>>

\* What a thread does after it armed one channel.  Both are armed, whatever
\* the first answered (`|`, not `||`).
Armed(t, answer) ==
    IF kind[t] = "output"
    THEN /\ pc'   = [pc EXCEPT ![t] = "load"]
         /\ kind' = [kind EXCEPT ![t] = "revision"]
         /\ edge' = [edge EXCEPT ![t] = answer]
    ELSE /\ pc'   = [pc EXCEPT ![t] = IF answer \/ edge[t] THEN "fire" ELSE "idle"]
         /\ UNCHANGED <<kind, edge>>

\* PaneWaitChannel::arm loads parked_any ...
Load(t) ==
    /\ pc[t] = "load"
    /\ IF any[kind[t]] THEN pc' = [pc EXCEPT ![t] = "swap"] /\ UNCHANGED <<kind, edge>>
       ELSE Armed(t, FALSE)
    /\ UNCHANGED <<pane, chan, passes, owner, parks>>

\* ... and swaps queued.
Swap(t) ==
    /\ pc[t] = "swap"
    /\ Armed(t, ~queued[kind[t]])
    /\ queued' = [queued EXCEPT ![kind[t]] = TRUE]
    /\ UNCHANGED <<pane, parked, any, passes, owner, parks>>

\* OutputSignal::fire: one send on the dispatch owner's unbounded queue.
Fire(t) ==
    /\ pc[t] = "fire"
    /\ pc' = [pc EXCEPT ![t] = "idle"] /\ passes' = passes + 1
    /\ UNCHANGED <<pane, kind, edge, chan, owner, parks>>

(***************************************************************************)
(* The dispatch owner.                                                     *)
(***************************************************************************)
Evaluate(k, both) == step' = "clear" /\ pass' = k /\ more' = both

\* pane/waitForOutput and pane/waitForRevision: a second question from one
\* client about one pane replaces the first, and the pass that answers it the
\* first time runs at once.  A client has accounted for a revision it was told.
Park(c, p, k) ==
    /\ step = "idle" /\ p \in roster /\ parks < MaxParks
    /\ \E since \in IF k = "revision" THEN 0..moved[p] ELSE {0} :
          parked' = [parked EXCEPT ![k] =
                        {w \in @ : w.conn # c \/ w.pane # p}
                            \cup {[conn |-> c, pane |-> p, since |-> since]}]
    /\ any' = [any EXCEPT ![k] = TRUE]
    /\ parks' = parks + 1 /\ Evaluate(k, FALSE)
    /\ UNCHANGED <<pane, waker, queued, passes, todo, fire>>

\* The OutputMoved message: both kinds, output first.
TakePass ==
    /\ step = "idle" /\ passes > 0
    /\ passes' = passes - 1 /\ Evaluate("output", TRUE)
    /\ UNCHANGED <<pane, waker, chan, todo, fire, parks>>

\* PaneWaitChannel::evaluate clears the flag FIRST, and takes the waits.
Clear ==
    /\ step = "clear"
    /\ queued' = [queued EXCEPT ![pass] = FALSE]
    /\ step' = "look" /\ todo' = parked[pass] /\ fire' = {}
    /\ UNCHANGED <<pane, waker, parked, any, passes, pass, more, parks>>

\* One wait is looked at; screens and revisions move under the pass.
Look ==
    /\ step = "look"
    /\ \E w \in todo :
          /\ todo' = todo \ {w}
          /\ fire' = IF Met(pass, w) THEN fire \cup {w} ELSE fire
    /\ UNCHANGED <<pane, waker, chan, passes, step, pass, more, parks>>

\* The rest stays parked, parked_any is stored, the answers are sent.
Store ==
    /\ step = "look" /\ todo = {}
    /\ parked' = [parked EXCEPT ![pass] = @ \ fire]
    /\ any' = [any EXCEPT ![pass] = parked'[pass] # {}]
    /\ fire' = {}
    /\ IF more THEN Evaluate("revision", FALSE)
       ELSE step' = "idle" /\ UNCHANGED <<pass, more>>
    /\ UNCHANGED <<pane, waker, queued, passes, todo, parks>>

\* A connection closed: its waits of both kinds are dropped.
Disconnect(c) ==
    /\ step = "idle"
    /\ \E k \in Kinds : \E w \in parked[k] : w.conn = c
    /\ parked' = [k \in Kinds |-> {w \in parked[k] : w.conn # c}]
    /\ any' = [k \in Kinds |-> parked'[k] # {}]
    /\ UNCHANGED <<pane, waker, queued, passes, owner, parks>>

\* A pane is closed.  A question about it stays until its client leaves.
ClosePane(p) ==
    /\ step = "idle" /\ p \in roster /\ roster' = roster \ {p}
    /\ UNCHANGED <<said, held, life, moved, waker, chan, passes, owner, parks>>

\* Any request that touches no wait.
OtherRequest == step = "idle" /\ UNCHANGED vars

(***************************************************************************)
(* The specification.                                                      *)
(***************************************************************************)
Wake(t) == Load(t) \/ Swap(t) \/ Fire(t)

WakerStep(t) == Wake(t) \/ (t \in Panes /\ BumpPane(t)) \/ (t = Sweep /\ Announce)

OwnerStep == TakePass \/ Clear \/ Look \/ Store

Request == \/ \E c \in Clients, p \in Panes, k \in Kinds : Park(c, p, k)
           \/ \E c \in Clients : Disconnect(c)
           \/ \E p \in Panes : ClosePane(p)

Next ==
    \/ \E p \in Panes : Batch(p) \/ Ending(p) \/ Publish(p)
    \/ \E t \in Threads : WakerStep(t)
    \/ OwnerStep \/ Request \/ OtherRequest

\* A thread that has moved a pane goes on to wake, and the dispatch owner runs
\* what it has begun; its queue is first in first out, so a message in it is
\* reached however many requests there are.
Fairness ==
    /\ \A t \in Threads : WF_vars(WakerStep(t))
    /\ WF_vars(Clear \/ Look \/ Store) /\ SF_vars(TakePass)

Spec == Init /\ [][Next]_vars /\ Fairness

(***************************************************************************)
(* Properties.                                                             *)
(***************************************************************************)
TypeOK ==
    /\ said \in [Panes -> BOOLEAN] /\ held \in [Panes -> BOOLEAN]
    /\ life \in [Panes -> {"reading", "ended", "reaped"}]
    /\ moved \in [Panes -> Nat] /\ roster \subseteq Panes
    /\ pc \in [Threads -> {"idle", "bump", "published", "load", "swap", "fire"}]
    /\ kind \in [Threads -> Kinds] /\ edge \in [Threads -> BOOLEAN]
    /\ parked \in [Kinds -> SUBSET Waits]
    /\ queued \in [Kinds -> BOOLEAN] /\ any \in [Kinds -> BOOLEAN]
    /\ passes \in Nat /\ parks \in Nat
    /\ step \in {"idle", "clear", "look"} /\ pass \in Kinds /\ more \in BOOLEAN
    /\ todo \subseteq Waits /\ fire \subseteq Waits

\* A message is in the queue, or a thread is bound to send one.
MessageComing ==
    \/ passes > 0
    \/ \E t \in Threads : pc[t] = "fire" \/ (pc[t] \in {"load", "swap"} /\ kind[t] = "revision"
                                               /\ edge[t])

\* A thread has yet to arm channel k.
ArmComing(k) ==
    \E t \in Threads :
        \/ pc[t] = "published" \/ (pc[t] = "bump" /\ t \notin Silent)
        \/ pc[t] \in {"load", "swap"} /\ kind[t] \in {"output", k}

\* The dispatch owner has yet to clear channel k's flag in what it is doing.
ClearComing(k) ==
    \/ step = "clear" /\ pass = k
    \/ step # "idle" /\ more /\ k = "revision" /\ pass = "output"

\* The pass that is running has yet to look at w, or has decided to answer it.
Looking(k, w) == step = "look" /\ pass = k /\ w \in todo \cup fire

\* A wait whose answer anyone may see: no update of its pane is held open, or
\* its program is gone and nothing will close it.
Shown(k, w) == Met(k, w) /\ (k = "output" => ~held[w.pane] \/ life[w.pane] # "reading")

\* ... and whose pane has a hook.
Owed(k, w) == Shown(k, w) /\ w.pane \notin Silent

\* Something that will look at w is on its way, or is looking.
LookComing(k, w) == MessageComing \/ ArmComing(k) \/ ClearComing(k) \/ Looking(k, w)

\* A flag that is up stands for a pass on its way; one that stood for none
\* would silence its channel for good.
QueuedIsTrue == \A k \in Kinds : queued[k] => MessageComing \/ ClearComing(k)

\* No wakeup is lost: a parked question whose answer has come is about to be
\* looked at, or something that will look is on its way ("the ordering that
\* makes a missed match unrepresentable").
NoLostWakeup ==
    \A k \in Kinds : \A w \in parked[k] :
        Owed(k, w) => LookComing(k, w)

\* The same of every pane, however it was born: "each pane this surface SPAWNS
\* is wired with a bump_on_dirty hook over ITS SESSION's token (so its output
\* wakes the waits on that session, like the boot pane)" (workspace.rs).
EveryPaneWakes ==
    \A k \in Kinds : \A w \in parked[k] : Shown(k, w) => LookComing(k, w)

\* parked_any says what the vector says, so an observer that reads it without
\* the lock skips nobody and sends for no one in vain.
AnyIsExact == \A k \in Kinds : any[k] <=> parked[k] # {}

\* A client holds at most one question of a kind per pane, so what it abandons
\* does not accumulate.
OneParkPerPane ==
    \A k \in Kinds : \A v, w \in parked[k] : v.conn = w.conn /\ v.pane = w.pane => v = w

\* A question whose answer anyone may see, from one client about one pane.
Overdue(c, p, k) == \E w \in parked[k] : w.conn = c /\ w.pane = p /\ Owed(k, w)

\* A parked revision wait whose pane has moved does not stay so.
MoveIsAnswered ==
    \A c \in Clients, p \in Panes : Overdue(c, p, "revision") ~> ~Overdue(c, p, "revision")

\* Nor does an output wait: it is answered, or what it looks for has gone.
MatchIsAnswered ==
    \A c \in Clients, p \in Panes : Overdue(c, p, "output") ~> ~Overdue(c, p, "output")
=============================================================================

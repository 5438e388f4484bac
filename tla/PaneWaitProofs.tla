--------------------------- MODULE PaneWaitProofs ---------------------------
(***************************************************************************)
(* What PaneWait keeps for any number of clients, panes and waits.         *)
(*                                                                         *)
(* NoLostWakeup is inductive together with QueuedIsTrue and AnyIsExact: a  *)
(* thread that finds a flag up relies on the pass it stands for, and one   *)
(* that finds nothing parked relies on parked_any.                         *)
(***************************************************************************)
EXTENDS PaneWait, TLAPS

Inv == TypeOK /\ AnyIsExact /\ OneParkPerPane /\ QueuedIsTrue /\ NoLostWakeup

USE DEF Threads, Kinds

\* Nothing is parked and no flag is up when the session begins.
LEMMA InitInv == Init => Inv
  <1> SUFFICES ASSUME Init PROVE Inv
    OBVIOUS
  <1> USE DEF Init
  <1>1. TypeOK
    BY DEF TypeOK
  <1>2. AnyIsExact /\ OneParkPerPane /\ QueuedIsTrue /\ NoLostWakeup
    BY DEF AnyIsExact, OneParkPerPane, QueuedIsTrue, NoLostWakeup
  <1> QED
    BY <1>1, <1>2 DEF Inv

\* Every step keeps the shape of the state.
LEMMA TypeStep == TypeOK /\ [Next]_vars => TypeOK'
  <1> SUFFICES ASSUME TypeOK, [Next]_vars PROVE TypeOK'
    OBVIOUS
  <1> USE PaneWaitAssumption DEF TypeOK
  <1>1. ASSUME NEW p \in Panes, Batch(p) PROVE TypeOK'
    BY <1>1 DEF Batch, chan, owner
  <1>2. ASSUME NEW p \in Panes, Ending(p) PROVE TypeOK'
    BY <1>2 DEF Ending, chan, owner
  <1>3. ASSUME NEW p \in Panes, Publish(p) PROVE TypeOK'
    BY <1>3 DEF Publish, chan, owner
  <1>4. ASSUME NEW p \in Panes, BumpPane(p) PROVE TypeOK'
    <2>1. CASE p \in Silent
      <3>1. /\ pc' = [pc EXCEPT ![p] = "idle"] /\ UNCHANGED <<kind, edge>>
            /\ moved' = [moved EXCEPT ![p] = @ + 1]
            /\ UNCHANGED <<said, held, life, roster, chan, passes, owner, parks>>
        BY <1>4, <2>1 DEF BumpPane
      <3> QED
        BY <3>1 DEF chan, owner
    <2>2. CASE p \notin Silent
      <3>1. /\ pc' = [pc EXCEPT ![p] = "load"] /\ kind' = [kind EXCEPT ![p] = "output"]
            /\ edge' = [edge EXCEPT ![p] = FALSE] /\ moved' = [moved EXCEPT ![p] = @ + 1]
            /\ UNCHANGED <<said, held, life, roster, chan, passes, owner, parks>>
        BY <1>4, <2>2 DEF BumpPane, Notify
      <3> QED
        BY <3>1 DEF chan, owner
    <2> QED
      BY <2>1, <2>2
  <1>5. CASE Announce
    BY <1>5 DEF Announce, Notify, pane, chan, owner
  <1>6. ASSUME NEW t \in Threads, Load(t) PROVE TypeOK'
    BY <1>6 DEF Load, Armed, pane, chan, owner
  <1>7. ASSUME NEW t \in Threads, Swap(t) PROVE TypeOK'
    BY <1>7 DEF Swap, Armed, pane, owner
  <1>8. ASSUME NEW t \in Threads, Fire(t) PROVE TypeOK'
    BY <1>8 DEF Fire, pane, chan, owner
  <1>9. ASSUME NEW c \in Clients, NEW p \in Panes, NEW k \in Kinds, Park(c, p, k)
        PROVE TypeOK'
    <2>1. PICK since \in IF k = "revision" THEN 0..moved[p] ELSE {0} :
             parked' = [parked EXCEPT ![k] =
                           {w \in @ : w.conn # c \/ w.pane # p}
                               \cup {[conn |-> c, pane |-> p, since |-> since]}]
      BY <1>9 DEF Park
    <2>2. [conn |-> c, pane |-> p, since |-> since] \in Waits
      BY <2>1 DEF Waits
    <2>3. parked' \in [Kinds -> SUBSET Waits]
      BY <2>1, <2>2
    <2>4. /\ any' = [any EXCEPT ![k] = TRUE] /\ parks' = parks + 1
          /\ step' = "clear" /\ pass' = k /\ more' = FALSE
          /\ UNCHANGED <<pane, waker, queued, passes, todo, fire>>
      BY <1>9 DEF Park, Evaluate
    <2>5. any' \in [Kinds -> BOOLEAN]
      BY <2>4
    <2>6. parks' \in Nat
      BY <2>4
    <2>7. step' = "clear" /\ pass' \in Kinds
      BY <2>4
    <2>8. more' \in BOOLEAN
      BY <2>4
    <2>9. UNCHANGED <<said, held, life, moved, roster, pc, kind, edge, queued, passes, todo, fire>>
      BY <2>4 DEF pane, waker
    <2> QED
      BY <2>3, <2>5, <2>6, <2>7, <2>8, <2>9
  <1>10. CASE TakePass
    BY <1>10 DEF TakePass, Evaluate, pane, waker, chan
  <1>11. CASE Clear
    BY <1>11 DEF Clear, pane, waker
  <1>12. CASE Look
    BY <1>12 DEF Look, pane, waker, chan
  <1>13. CASE Store
    BY <1>13 DEF Store, Evaluate, pane, waker
  <1>14. ASSUME NEW c \in Clients, Disconnect(c) PROVE TypeOK'
    BY <1>14 DEF Disconnect, pane, waker, owner
  <1>15. ASSUME NEW p \in Panes, ClosePane(p) PROVE TypeOK'
    BY <1>15 DEF ClosePane, waker, chan, owner
  <1>16. CASE UNCHANGED vars
    BY <1>16 DEF vars, pane, waker, chan, owner
  <1> QED
    BY <1>1, <1>2, <1>3, <1>4, <1>5, <1>6, <1>7, <1>8, <1>9, <1>10, <1>11, <1>12, <1>13,
       <1>14, <1>15, <1>16
    DEF Next, WakerStep, Wake, OwnerStep, Request, OtherRequest

\* Only the dispatch owner moves the vector, and it stores the flag with it.
LEMMA AnyStep == TypeOK /\ AnyIsExact /\ [Next]_vars => AnyIsExact'
  <1> SUFFICES ASSUME TypeOK, AnyIsExact, [Next]_vars, NEW j \in Kinds
               PROVE any'[j] <=> parked'[j] # {}
    BY DEF AnyIsExact
  <1>0. any[j] <=> parked[j] # {}
    BY DEF AnyIsExact
  <1>a. any \in [Kinds -> BOOLEAN] /\ parked \in [Kinds -> SUBSET Waits] /\ pass \in Kinds
    BY DEF TypeOK
  <1>1. CASE UNCHANGED <<parked, any>>
    BY <1>0, <1>1
  <1>2. ASSUME NEW c \in Clients, NEW p \in Panes, NEW k \in Kinds, Park(c, p, k)
        PROVE any'[j] <=> parked'[j] # {}
    <2>1. PICK since \in IF k = "revision" THEN 0..moved[p] ELSE {0} :
             parked' = [parked EXCEPT ![k] =
                           {w \in @ : w.conn # c \/ w.pane # p}
                               \cup {[conn |-> c, pane |-> p, since |-> since]}]
      BY <1>2 DEF Park
    <2>2. any' = [any EXCEPT ![k] = TRUE]
      BY <1>2 DEF Park
    <2>3. CASE j = k
      <3>1. parked'[j] # {}
        BY <2>1, <2>3, <1>a
      <3>2. any'[j]
        BY <2>2, <2>3, <1>a
      <3> QED
        BY <3>1, <3>2
    <2>4. CASE j # k
      BY <2>1, <2>2, <2>4, <1>0, <1>a
    <2> QED
      BY <2>3, <2>4
  <1>3. CASE Store
    <2>1. parked' = [parked EXCEPT ![pass] = @ \ fire] /\ any' = [any EXCEPT ![pass] = parked'[pass] # {}]
      BY <1>3 DEF Store
    <2>2. CASE j = pass
      BY <2>1, <2>2, <1>a
    <2>3. CASE j # pass
      BY <2>1, <2>3, <1>0, <1>a
    <2> QED
      BY <2>2, <2>3
  <1>4. ASSUME NEW c \in Clients, Disconnect(c) PROVE any'[j] <=> parked'[j] # {}
    BY <1>4 DEF Disconnect
  <1> QED
    BY <1>1, <1>2, <1>3, <1>4
    DEF Next, WakerStep, Wake, OwnerStep, Request, OtherRequest, vars, chan,
        Batch, Ending, Publish, BumpPane, Announce, Load, Swap, Fire, TakePass, Clear, Look,
        ClosePane

\* A park replaces what its client asked about the pane before.
LEMMA OneParkStep == TypeOK /\ OneParkPerPane /\ [Next]_vars => OneParkPerPane'
  <1> SUFFICES ASSUME TypeOK, OneParkPerPane, [Next]_vars, NEW j \in Kinds,
                      NEW v \in parked'[j], NEW w \in parked'[j],
                      v.conn = w.conn, v.pane = w.pane
               PROVE v = w
    BY DEF OneParkPerPane
  <1>a. parked \in [Kinds -> SUBSET Waits] /\ pass \in Kinds
    BY DEF TypeOK
  <1>1. CASE v \in parked[j] /\ w \in parked[j]
    BY <1>1 DEF OneParkPerPane
  <1>2. ASSUME NEW c \in Clients, NEW p \in Panes, NEW k \in Kinds, Park(c, p, k)
        PROVE v = w
    <2>1. PICK since \in IF k = "revision" THEN 0..moved[p] ELSE {0} :
             parked' = [parked EXCEPT ![k] =
                           {u \in @ : u.conn # c \/ u.pane # p}
                               \cup {[conn |-> c, pane |-> p, since |-> since]}]
      BY <1>2 DEF Park
    <2>2. CASE j = k
      <3> DEFINE new == [conn |-> c, pane |-> p, since |-> since]
      <3>1. \A u \in parked'[j] : u = new \/ (u \in parked[j] /\ (u.conn # c \/ u.pane # p))
        BY <2>1, <2>2, <1>a
      <3>2. new.conn = c /\ new.pane = p
        OBVIOUS
      <3> HIDE DEF new
      <3> QED
        BY <3>1, <3>2, <1>1
    <2>3. CASE j # k
      BY <2>1, <2>3, <1>a, <1>1
    <2> QED
      BY <2>2, <2>3
  <1>3. CASE Store
    BY <1>3, <1>a, <1>1 DEF Store
  <1>4. ASSUME NEW c \in Clients, Disconnect(c) PROVE v = w
    BY <1>4, <1>a, <1>1 DEF Disconnect
  <1>5. CASE UNCHANGED parked
    BY <1>5, <1>1
  <1> QED
    BY <1>2, <1>3, <1>4, <1>5
    DEF Next, WakerStep, Wake, OwnerStep, Request, OtherRequest, vars, chan,
        Batch, Ending, Publish, BumpPane, Announce, Load, Swap, Fire, TakePass, Clear, Look,
        ClosePane

\* A message stays on its way while a thread moves that was bound to send none.
LEMMA OthersSend ==
  ASSUME TypeOK, MessageComing, passes' = passes, NEW u \in Threads,
         ~(pc[u] = "fire" \/ (pc[u] \in {"load", "swap"} /\ kind[u] = "revision" /\ edge[u])),
         \A t \in Threads \ {u} : pc'[t] = pc[t] /\ kind'[t] = kind[t] /\ edge'[t] = edge[t]
  PROVE  MessageComing'
  BY DEF MessageComing

\* ... and while nothing of it moves.
LEMMA MessageStays == ASSUME UNCHANGED <<waker, passes>>, MessageComing PROVE MessageComing'
  BY DEF MessageComing, waker

\* Flags go up with a message bound to be sent, and the pass it brings takes
\* them down before anything else.
LEMMA QueuedStep == TypeOK /\ QueuedIsTrue /\ [Next]_vars => QueuedIsTrue'
  <1> SUFFICES ASSUME TypeOK, QueuedIsTrue, [Next]_vars, NEW j \in Kinds, queued'[j]
               PROVE MessageComing' \/ ClearComing(j)'
    BY DEF QueuedIsTrue
  <1>0. queued[j] => MessageComing \/ ClearComing(j)
    BY DEF QueuedIsTrue
  <1>a. /\ queued \in [Kinds -> BOOLEAN] /\ pass \in Kinds /\ passes \in Nat
        /\ pc \in [Threads -> {"idle", "bump", "published", "load", "swap", "fire"}]
        /\ kind \in [Threads -> Kinds] /\ edge \in [Threads -> BOOLEAN]
    BY DEF TypeOK
  <1>b. ASSUME UNCHANGED owner, ClearComing(j) PROVE ClearComing(j)'
    BY <1>b DEF ClearComing, owner
  <1>1. ASSUME NEW u \in Threads, pc[u] \in {"idle", "bump", "published"},
               \A t \in Threads \ {u} : pc'[t] = pc[t] /\ kind'[t] = kind[t] /\ edge'[t] = edge[t],
               UNCHANGED <<chan, passes, owner>>
        PROVE MessageComing' \/ ClearComing(j)'
    <2>1. queued[j]
      BY <1>1 DEF chan
    <2>2. CASE MessageComing
      BY <1>1, <2>2, OthersSend
    <2>3. CASE ClearComing(j)
      BY <1>1, <2>3, <1>b
    <2> QED
      BY <2>1, <2>2, <2>3, <1>0
  <1>2. ASSUME NEW p \in Panes, Batch(p) \/ Ending(p) \/ BumpPane(p)
        PROVE MessageComing' \/ ClearComing(j)'
    <2>1. \A t \in Threads \ {p} : pc'[t] = pc[t] /\ kind'[t] = kind[t] /\ edge'[t] = edge[t]
      BY <1>2, <1>a DEF Batch, Ending, BumpPane, Notify
    <2>2. pc[p] \in {"idle", "bump", "published"} /\ UNCHANGED <<chan, passes, owner>>
      BY <1>2 DEF Batch, Ending, BumpPane
    <2> QED
      BY <2>1, <2>2, <1>1
  <1>3. ASSUME Announce \/ \E p \in Panes : Publish(p) PROVE MessageComing' \/ ClearComing(j)'
    <2>1. \A t \in Threads \ {Sweep} : pc'[t] = pc[t] /\ kind'[t] = kind[t] /\ edge'[t] = edge[t]
      BY <1>3, <1>a DEF Publish, Announce, Notify
    <2>2. pc[Sweep] \in {"idle", "bump", "published"} /\ UNCHANGED <<chan, passes, owner>>
      BY <1>3 DEF Publish, Announce
    <2> QED
      BY <2>1, <2>2, <1>1
  <1>4. ASSUME NEW t \in Threads, Load(t) PROVE MessageComing' \/ ClearComing(j)'
    <2>1. UNCHANGED <<chan, passes, owner>> /\ queued[j]
      BY <1>4 DEF Load, chan
    <2>2. CASE ClearComing(j)
      BY <2>1, <2>2, <1>b
    <2>3. CASE MessageComing
      <3>1. CASE kind[t] = "revision" /\ edge[t]
        <4>1. kind' = kind /\ edge' = edge /\ pc'[t] \in {"swap", "fire"}
          BY <1>4, <3>1, <1>a DEF Load, Armed
        <4> QED
          BY <4>1, <3>1 DEF MessageComing
      <3>2. CASE ~(kind[t] = "revision" /\ edge[t])
        <4>1. \A u \in Threads \ {t} : pc'[u] = pc[u] /\ kind'[u] = kind[u] /\ edge'[u] = edge[u]
          BY <1>4, <1>a DEF Load, Armed
        <4>2. pc[t] = "load"
          BY <1>4 DEF Load
        <4> QED
          BY <2>1, <2>3, <3>2, <4>1, <4>2, OthersSend
      <3> QED
        BY <3>1, <3>2
    <2> QED
      BY <2>1, <2>2, <2>3, <1>0
  <1>5. ASSUME NEW t \in Threads, Swap(t) PROVE MessageComing' \/ ClearComing(j)'
    <2>1. /\ pc[t] = "swap" /\ Armed(t, ~queued[kind[t]]) /\ UNCHANGED <<passes, owner>>
          /\ queued' = [queued EXCEPT ![kind[t]] = TRUE]
      BY <1>5 DEF Swap
    <2>2. CASE ~queued[kind[t]]
      <3>1. CASE kind[t] = "output"
        <4>1. pc'[t] = "load" /\ kind'[t] = "revision" /\ edge'[t]
          BY <2>1, <2>2, <3>1, <1>a DEF Armed
        <4> QED
          BY <4>1 DEF MessageComing
      <3>2. CASE kind[t] = "revision"
        <4>1. pc'[t] = "fire"
          BY <2>1, <2>2, <3>2, <1>a DEF Armed
        <4> QED
          BY <4>1 DEF MessageComing
      <3> QED
        BY <3>1, <3>2, <1>a
    <2>3. CASE queued[kind[t]]
      <3>1. queued[j]
        BY <2>1, <2>3, <1>a
      <3>2. CASE ClearComing(j)
        BY <2>1, <3>2, <1>b
      <3>3. CASE MessageComing
        <4>1. CASE kind[t] = "revision" /\ edge[t]
          <5>1. pc'[t] = "fire"
            BY <2>1, <4>1, <1>a DEF Armed
          <5> QED
            BY <5>1 DEF MessageComing
        <4>2. CASE ~(kind[t] = "revision" /\ edge[t])
          <5>1. \A u \in Threads \ {t} : pc'[u] = pc[u] /\ kind'[u] = kind[u] /\ edge'[u] = edge[u]
            BY <2>1, <1>a DEF Armed
          <5> QED
            BY <2>1, <3>3, <4>2, <5>1, OthersSend
        <4> QED
          BY <4>1, <4>2
      <3> QED
        BY <3>1, <3>2, <3>3, <1>0
    <2> QED
      BY <2>2, <2>3
  <1>6. ASSUME NEW t \in Threads, Fire(t) PROVE MessageComing' \/ ClearComing(j)'
    BY <1>6, <1>a DEF Fire, MessageComing
  <1>7. CASE TakePass
    BY <1>7 DEF TakePass, Evaluate, ClearComing
  <1>8. CASE Clear
    <2>1. UNCHANGED <<waker, passes>> /\ queued[j] /\ j # pass
      BY <1>8, <1>a DEF Clear
    <2>2. CASE MessageComing
      BY <2>1, <2>2, MessageStays
    <2>3. CASE ClearComing(j)
      BY <2>1, <2>3, <1>8 DEF Clear, ClearComing
    <2> QED
      BY <2>1, <2>2, <2>3, <1>0
  <1>9. CASE Look \/ Store
    <2>1. UNCHANGED <<waker, passes>> /\ queued[j]
      BY <1>9 DEF Look, Store, chan
    <2>2. CASE MessageComing
      BY <2>1, <2>2, MessageStays
    <2>3. CASE ClearComing(j)
      BY <2>3, <1>9 DEF Look, Store, Evaluate, ClearComing
    <2> QED
      BY <2>1, <2>2, <2>3, <1>0
  <1>10. CASE Request
    <2>1. UNCHANGED <<waker, passes>> /\ queued[j] /\ step = "idle"
      BY <1>10 DEF Request, Park, Disconnect, ClosePane, chan
    <2>2. ~ClearComing(j)
      BY <2>1 DEF ClearComing
    <2> QED
      BY <2>1, <2>2, <1>0, MessageStays
  <1>11. CASE UNCHANGED vars
    <2>1. UNCHANGED <<waker, passes>> /\ UNCHANGED owner /\ queued[j]
      BY <1>11 DEF vars, chan
    <2> QED
      BY <2>1, <1>0, <1>b, MessageStays
  <1> QED
    BY <1>2, <1>3, <1>4, <1>5, <1>6, <1>7, <1>8, <1>9, <1>10, <1>11
    DEF Next, WakerStep, Wake, OwnerStep, OtherRequest

\* A thread with nothing to arm and nothing to send takes no look away when it
\* moves alone.
LEMMA OthersLook ==
  ASSUME TypeOK, NEW j \in Kinds, NEW w, LookComing(j, w), UNCHANGED <<passes, owner>>,
         NEW u \in Threads, pc[u] = "idle" \/ (pc[u] = "bump" /\ u \in Silent),
         \A t \in Threads \ {u} : pc'[t] = pc[t] /\ kind'[t] = kind[t] /\ edge'[t] = edge[t]
  PROVE  LookComing(j, w)'
  <1>1. CASE MessageComing
    <2>1. MessageComing'
      BY <1>1, OthersSend
    <2> QED
      BY <2>1 DEF LookComing
  <1>2. CASE ArmComing(j)
    <2>1. ArmComing(j)'
      BY <1>2 DEF ArmComing
    <2> QED
      BY <2>1 DEF LookComing
  <1>3. CASE ClearComing(j) \/ Looking(j, w)
    BY <1>3 DEF ClearComing, Looking, LookComing, owner
  <1> QED
    BY <1>1, <1>2, <1>3 DEF LookComing

\* What the threads have yet to do stays to be done while none of them moves.
LEMMA ThreadsStay ==
  ASSUME NEW j \in Kinds, UNCHANGED <<waker, passes>>, MessageComing \/ ArmComing(j)
  PROVE  MessageComing' \/ ArmComing(j)'
  BY DEF MessageComing, ArmComing, waker

\* Whether a question is owed an answer is read off the panes.
LEMMA OwedOfPanes ==
  ASSUME NEW j \in Kinds, NEW w, w.pane \in roster' => w.pane \in roster,
         said'[w.pane] = said[w.pane] \/ j = "revision", held'[w.pane] = held[w.pane] \/ j = "revision",
         life'[w.pane] = life[w.pane] \/ j = "revision",
         moved'[w.pane] = moved[w.pane], Owed(j, w)'
  PROVE  Owed(j, w)
  BY DEF Owed, Shown, Met

\* No step of a thread, of the owner or of a client leaves a question that has
\* its answer with nothing on its way to it.
LEMMA WakeupStep ==
  ASSUME TypeOK, AnyIsExact, QueuedIsTrue', NoLostWakeup, [Next]_vars
  PROVE  NoLostWakeup'
  <1> SUFFICES ASSUME NEW j \in Kinds, NEW w \in parked'[j], Owed(j, w)'
               PROVE LookComing(j, w)'
    BY DEF NoLostWakeup
  <1>a. /\ queued \in [Kinds -> BOOLEAN] /\ pass \in Kinds /\ passes \in Nat
        /\ pc \in [Threads -> {"idle", "bump", "published", "load", "swap", "fire"}]
        /\ kind \in [Threads -> Kinds] /\ edge \in [Threads -> BOOLEAN]
    BY DEF TypeOK
  <1>b. /\ said \in [Panes -> BOOLEAN] /\ held \in [Panes -> BOOLEAN]
        /\ moved \in [Panes -> Nat] /\ parked \in [Kinds -> SUBSET Waits]
        /\ life \in [Panes -> {"reading", "ended", "reaped"}]
    BY DEF TypeOK
  <1>c. w \in parked[j] /\ Owed(j, w) => LookComing(j, w)
    BY DEF NoLostWakeup
  <1>d. UNCHANGED <<said, held, life, moved, roster>> => Owed(j, w)
    BY OwedOfPanes
  <1>1. ASSUME NEW p \in Panes, Batch(p) PROVE LookComing(j, w)'
    <2>1. PICK now \in BOOLEAN, open \in BOOLEAN :
             /\ said' = [said EXCEPT ![p] = now] /\ held' = [held EXCEPT ![p] = open]
             /\ pc' = [pc EXCEPT ![p] = IF open THEN "idle" ELSE "bump"]
      BY <1>1 DEF Batch
    <2>2. /\ pc[p] = "idle" /\ w \in parked[j]
          /\ life[p] = "reading" /\ UNCHANGED <<life, moved, roster, kind, edge, passes, owner>>
      BY <1>1 DEF Batch, chan
    <2>3. \A t \in Threads \ {p} : pc'[t] = pc[t] /\ kind'[t] = kind[t] /\ edge'[t] = edge[t]
      BY <2>1, <2>2, <1>a
    <2>4. CASE Owed(j, w)
      BY <2>2, <2>3, <2>4, <1>c, OthersLook
    <2>5. CASE ~Owed(j, w)
      <3>1. w.pane = p /\ j = "output"
        BY <2>1, <2>2, <2>5, <1>b, OwedOfPanes DEF Waits
      <3>2. ~held'[p] /\ p \notin Silent
        BY <2>2, <3>1 DEF Owed, Shown
      <3>3. pc'[p] = "bump"
        BY <2>1, <3>2, <1>a, <1>b
      <3> QED
        BY <3>2, <3>3 DEF LookComing, ArmComing
    <2> QED
      BY <2>4, <2>5
  <1>2. ASSUME NEW p \in Panes, Ending(p) PROVE LookComing(j, w)'
    <2>1. /\ pc[p] = "idle" /\ pc' = [pc EXCEPT ![p] = "bump"] /\ w \in parked[j]
          /\ life' = [life EXCEPT ![p] = IF @ = "reading" THEN "ended" ELSE "reaped"]
          /\ UNCHANGED <<said, held, moved, roster, kind, edge, passes, owner>>
      BY <1>2 DEF Ending, chan
    <2>2. CASE p \notin Silent
      <3>1. pc'[p] = "bump"
        BY <2>1, <1>a
      <3> QED
        BY <2>2, <3>1 DEF LookComing, ArmComing
    <2>3. CASE p \in Silent
      <3>1. w.pane # p /\ w.pane \in Panes
        BY <2>1, <2>3, <1>b DEF Owed, Waits
      <3>2. life'[w.pane] = life[w.pane]
        BY <2>1, <3>1, <1>b
      <3>3. Owed(j, w)
        BY <2>1, <3>2, OwedOfPanes
      <3>4. \A t \in Threads \ {p} : pc'[t] = pc[t] /\ kind'[t] = kind[t] /\ edge'[t] = edge[t]
        BY <2>1, <1>a
      <3> QED
        BY <2>1, <3>3, <3>4, <1>c, OthersLook
    <2> QED
      BY <2>2, <2>3
  <1>3. ASSUME NEW p \in Panes, Publish(p) PROVE LookComing(j, w)'
    <2>1. pc'[Sweep] = "published"
      BY <1>3, <1>a DEF Publish
    <2> QED
      BY <2>1 DEF LookComing, ArmComing
  <1>4. ASSUME NEW p \in Panes, BumpPane(p) PROVE LookComing(j, w)'
    <2>1. CASE p \notin Silent
      <3>1. pc'[p] = "load" /\ kind'[p] = "output"
        BY <1>4, <2>1, <1>a DEF BumpPane, Notify
      <3> QED
        BY <3>1 DEF LookComing, ArmComing
    <2>2. CASE p \in Silent
      <3>1. /\ pc[p] = "bump" /\ pc' = [pc EXCEPT ![p] = "idle"] /\ w \in parked[j]
            /\ moved' = [moved EXCEPT ![p] = @ + 1]
            /\ UNCHANGED <<said, held, life, roster, kind, edge, passes, owner>>
        BY <1>4, <2>2 DEF BumpPane, chan
      <3>2. \A t \in Threads \ {p} : pc'[t] = pc[t] /\ kind'[t] = kind[t] /\ edge'[t] = edge[t]
        BY <3>1, <1>a
      <3>3. w.pane # p /\ w.pane \in Panes
        BY <2>2, <3>1, <1>b DEF Owed, Waits
      <3>4. moved'[w.pane] = moved[w.pane]
        BY <3>1, <3>3, <1>b
      <3>5. Owed(j, w)
        BY <3>1, <3>4, OwedOfPanes
      <3> QED
        BY <2>2, <3>1, <3>2, <3>5, <1>c, OthersLook
    <2> QED
      BY <2>1, <2>2
  <1>5. CASE Announce
    <2>1. pc'[Sweep] = "load" /\ kind'[Sweep] = "output"
      BY <1>5, <1>a DEF Announce, Notify
    <2> QED
      BY <2>1 DEF LookComing, ArmComing
  <1>6. ASSUME NEW t \in Threads, Load(t) PROVE LookComing(j, w)'
    <2>1. /\ pc[t] = "load" /\ w \in parked[j]
          /\ UNCHANGED <<said, held, life, moved, roster, passes, owner>>
      BY <1>6 DEF Load, pane, chan
    <2>2. LookComing(j, w)
      BY <2>1, <1>c, <1>d
    <2>3. \A u \in Threads \ {t} : pc'[u] = pc[u] /\ kind'[u] = kind[u] /\ edge'[u] = edge[u]
      BY <1>6, <1>a DEF Load, Armed
    <2>4. any[j]
      BY <2>1 DEF AnyIsExact
    <2>5. CASE MessageComing
      <3>1. CASE kind[t] = "revision" /\ edge[t]
        <4>1. kind' = kind /\ edge' = edge /\ pc'[t] \in {"swap", "fire"}
          BY <1>6, <3>1, <1>a DEF Load, Armed
        <4> QED
          BY <4>1, <3>1 DEF LookComing, MessageComing
      <3>2. CASE ~(kind[t] = "revision" /\ edge[t])
        BY <2>1, <2>3, <2>5, <3>2, OthersSend DEF LookComing
      <3> QED
        BY <3>1, <3>2
    <2>6. CASE ArmComing(j)
      <3>1. CASE kind[t] \in {"output", j}
        <4>1. CASE any[kind[t]]
          <5>1. pc'[t] = "swap" /\ kind'[t] = kind[t]
            BY <1>6, <4>1, <1>a DEF Load
          <5> QED
            BY <3>1, <5>1 DEF LookComing, ArmComing
        <4>2. CASE ~any[kind[t]]
          <5>1. kind[t] = "output" /\ j = "revision"
            BY <2>4, <3>1, <4>2
          <5>2. pc'[t] = "load" /\ kind'[t] = "revision"
            BY <1>6, <4>2, <5>1, <1>a DEF Load, Armed
          <5> QED
            BY <5>1, <5>2 DEF LookComing, ArmComing
        <4> QED
          BY <4>1, <4>2
      <3>2. CASE kind[t] \notin {"output", j}
        BY <2>1, <2>3, <2>6, <3>2 DEF LookComing, ArmComing
      <3> QED
        BY <3>1, <3>2
    <2>7. CASE ClearComing(j) \/ Looking(j, w)
      BY <2>1, <2>7 DEF LookComing, ClearComing, Looking, owner
    <2> QED
      BY <2>2, <2>5, <2>6, <2>7 DEF LookComing
  <1>7. ASSUME NEW t \in Threads, Swap(t) PROVE LookComing(j, w)'
    <2>1. /\ pc[t] = "swap" /\ w \in parked[j] /\ Armed(t, ~queued[kind[t]])
          /\ queued' = [queued EXCEPT ![kind[t]] = TRUE]
          /\ UNCHANGED <<said, held, life, moved, roster, passes, owner>>
      BY <1>7 DEF Swap, pane
    <2>2. CASE kind[t] = j
      <3>1. queued'[j]
        BY <2>1, <2>2, <1>a
      <3> QED
        BY <3>1 DEF QueuedIsTrue, LookComing
    <2>3. CASE kind[t] = "output" /\ j = "revision"
      <3>1. pc'[t] = "load" /\ kind'[t] = "revision"
        BY <2>1, <2>3, <1>a DEF Armed
      <3> QED
        BY <2>3, <3>1 DEF LookComing, ArmComing
    <2>4. CASE kind[t] = "revision" /\ j = "output"
      <3>1. LookComing(j, w)
        BY <2>1, <1>c, <1>d
      <3>2. \A u \in Threads \ {t} : pc'[u] = pc[u] /\ kind'[u] = kind[u] /\ edge'[u] = edge[u]
        BY <2>1, <1>a DEF Armed
      <3>3. CASE MessageComing
        <4>1. CASE edge[t]
          <5>1. pc'[t] = "fire"
            BY <2>1, <2>4, <4>1, <1>a DEF Armed
          <5> QED
            BY <5>1 DEF LookComing, MessageComing
        <4>2. CASE ~edge[t]
          BY <2>1, <3>2, <3>3, <4>2, OthersSend DEF LookComing
        <4> QED
          BY <4>1, <4>2
      <3>4. CASE ArmComing(j)
        BY <2>1, <2>4, <3>2, <3>4 DEF LookComing, ArmComing
      <3>5. CASE ClearComing(j) \/ Looking(j, w)
        BY <2>1, <3>5 DEF LookComing, ClearComing, Looking, owner
      <3> QED
        BY <3>1, <3>3, <3>4, <3>5 DEF LookComing
    <2> QED
      BY <2>2, <2>3, <2>4, <1>a
  <1>8. ASSUME NEW t \in Threads, Fire(t) PROVE LookComing(j, w)'
    BY <1>8, <1>a DEF Fire, LookComing, MessageComing
  <1>9. CASE TakePass
    BY <1>9 DEF TakePass, Evaluate, LookComing, ClearComing
  <1>10. CASE Clear
    <2>1. /\ step = "clear" /\ step' = "look" /\ todo' = parked[pass] /\ w \in parked[j]
          /\ UNCHANGED <<said, held, life, moved, roster, waker, passes, pass, more>>
      BY <1>10 DEF Clear, pane
    <2>2. CASE pass = j
      BY <2>1, <2>2 DEF LookComing, Looking
    <2>3. CASE pass # j
      <3>1. MessageComing \/ ArmComing(j) \/ (more /\ j = "revision" /\ pass = "output")
        BY <2>1, <2>3, <1>c, <1>d DEF LookComing, ClearComing, Looking
      <3> QED
        BY <2>1, <3>1, ThreadsStay DEF LookComing, ClearComing
    <2> QED
      BY <2>2, <2>3
  <1>11. CASE Look
    <2>1. /\ step = "look" /\ w \in parked[j]
          /\ UNCHANGED <<said, held, life, moved, roster, waker, passes, step, pass, more>>
      BY <1>11 DEF Look, pane, chan
    <2>2. CASE Looking(j, w)
      <3>1. Met(j, w) /\ pass = j
        BY <2>1, <2>2, <1>d DEF Owed, Shown, Looking
      <3>2. w \in todo' \cup fire'
        BY <1>11, <2>2, <3>1 DEF Look, Looking
      <3> QED
        BY <2>1, <3>1, <3>2 DEF LookComing, Looking
    <2>3. CASE ~Looking(j, w)
      <3>1. MessageComing \/ ArmComing(j) \/ ClearComing(j)
        BY <2>1, <2>3, <1>c, <1>d DEF LookComing
      <3> QED
        BY <2>1, <3>1, ThreadsStay DEF LookComing, ClearComing
    <2> QED
      BY <2>2, <2>3
  <1>12. CASE Store
    <2>1. /\ step = "look" /\ todo = {} /\ parked' = [parked EXCEPT ![pass] = @ \ fire]
          /\ UNCHANGED <<said, held, life, moved, roster, waker, passes>>
      BY <1>12 DEF Store, pane
    <2>2. w \in parked[j] /\ (pass = j => w \notin fire)
      BY <2>1, <1>a, <1>b
    <2>3. MessageComing \/ ArmComing(j) \/ (more /\ j = "revision")
      BY <2>1, <2>2, <1>c, <1>d DEF LookComing, ClearComing, Looking
    <2>4. more => step' = "clear" /\ pass' = "revision"
      BY <1>12 DEF Store, Evaluate
    <2> QED
      BY <2>1, <2>3, <2>4, ThreadsStay DEF LookComing, ClearComing
  <1>13. ASSUME NEW c \in Clients, NEW p \in Panes, NEW k \in Kinds, Park(c, p, k)
         PROVE LookComing(j, w)'
    <2>1. CASE j = k
      BY <1>13, <2>1 DEF Park, Evaluate, LookComing, ClearComing
    <2>2. CASE j # k
      <3>1. PICK since \in IF k = "revision" THEN 0..moved[p] ELSE {0} :
               parked' = [parked EXCEPT ![k] =
                             {v \in @ : v.conn # c \/ v.pane # p}
                                 \cup {[conn |-> c, pane |-> p, since |-> since]}]
        BY <1>13 DEF Park
      <3>2. w \in parked[j]
        BY <2>2, <3>1, <1>b
      <3>3. step = "idle" /\ UNCHANGED <<said, held, life, moved, roster, waker, passes>>
        BY <1>13 DEF Park, pane
      <3>4. MessageComing \/ ArmComing(j)
        BY <3>2, <3>3, <1>c, <1>d DEF LookComing, ClearComing, Looking
      <3> QED
        BY <3>3, <3>4, ThreadsStay DEF LookComing
    <2> QED
      BY <2>1, <2>2
  <1>14. ASSUME NEW c \in Clients, Disconnect(c) PROVE LookComing(j, w)'
    <2>1. w \in parked[j] /\ step = "idle" /\ UNCHANGED <<said, held, life, moved, roster, waker, passes>>
      BY <1>14 DEF Disconnect, pane
    <2>2. MessageComing \/ ArmComing(j)
      BY <2>1, <1>c, <1>d DEF LookComing, ClearComing, Looking
    <2> QED
      BY <2>1, <2>2, ThreadsStay DEF LookComing
  <1>15. ASSUME NEW p \in Panes, ClosePane(p) PROVE LookComing(j, w)'
    <2>1. /\ w \in parked[j] /\ step = "idle" /\ roster' \subseteq roster
          /\ UNCHANGED <<said, held, life, moved, waker, passes>>
      BY <1>15 DEF ClosePane, chan
    <2>2. Owed(j, w)
      BY <2>1, OwedOfPanes
    <2>3. MessageComing \/ ArmComing(j)
      BY <2>1, <2>2, <1>c DEF LookComing, ClearComing, Looking
    <2> QED
      BY <2>1, <2>3, ThreadsStay DEF LookComing
  <1>16. CASE UNCHANGED vars
    <2>1. /\ w \in parked[j] /\ UNCHANGED <<said, held, life, moved, roster>>
          /\ UNCHANGED <<waker, passes>> /\ UNCHANGED owner
      BY <1>16 DEF vars, pane, chan
    <2>2. LookComing(j, w)
      BY <2>1, <1>c, <1>d
    <2>3. CASE MessageComing \/ ArmComing(j)
      BY <2>1, <2>3, ThreadsStay DEF LookComing
    <2>4. CASE ClearComing(j) \/ Looking(j, w)
      BY <2>1, <2>4 DEF LookComing, ClearComing, Looking, owner
    <2> QED
      BY <2>2, <2>3, <2>4 DEF LookComing
  <1> QED
    BY <1>1, <1>2, <1>3, <1>4, <1>5, <1>6, <1>7, <1>8, <1>9, <1>10, <1>11, <1>12, <1>13,
       <1>14, <1>15, <1>16
    DEF Next, WakerStep, Wake, OwnerStep, Request, OtherRequest

\* The conjunction is inductive.
LEMMA InvStep == Inv /\ [Next]_vars => Inv'
  BY TypeStep, AnyStep, OneParkStep, QueuedStep, WakeupStep DEF Inv

\* The state keeps its shape: of any number of clients and panes, whatever the
\* bounds.
THEOREM TypeCorrect == Spec => []TypeOK
  <1>1. Inv => TypeOK
    BY DEF Inv
  <1> QED
    BY InitInv, InvStep, <1>1, PTL DEF Spec

\* No wakeup is lost, whatever the number of readers, clients and questions.
THEOREM WakeupsKept == Spec => []NoLostWakeup
  <1>1. Inv => NoLostWakeup
    BY DEF Inv
  <1> QED
    BY InitInv, InvStep, <1>1, PTL DEF Spec

\* A flag that is up stands for a pass on its way, so no channel falls silent.
THEOREM FlagsStand == Spec => []QueuedIsTrue
  <1>1. Inv => QueuedIsTrue
    BY DEF Inv
  <1> QED
    BY InitInv, InvStep, <1>1, PTL DEF Spec

\* The flag readers read without the lock says what the vector says.
THEOREM FlagsExact == Spec => []AnyIsExact
  <1>1. Inv => AnyIsExact
    BY DEF Inv
  <1> QED
    BY InitInv, InvStep, <1>1, PTL DEF Spec

\* What a client abandons does not accumulate: one question a kind and pane.
THEOREM ParksReplace == Spec => []OneParkPerPane
  <1>1. Inv => OneParkPerPane
    BY DEF Inv
  <1> QED
    BY InitInv, InvStep, <1>1, PTL DEF Spec
=============================================================================

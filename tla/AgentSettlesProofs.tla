------------------------- MODULE AgentSettlesProofs -------------------------
(***************************************************************************)
(* That the skip of Tracker::observe is exact, whatever the manifests, the *)
(* windows and the reporters, and however long.  The invariant speaks of   *)
(* the manifests the screen was last read by, which need not be those in   *)
(* force: they may come back.                                              *)
(***************************************************************************)
EXTENDS AgentSettles, TLAPS

\* A candidate is weighed against some window.
Armed == pending # None => policy # None

\* What stands is what the manifests of the last look make of the screen.
SeenExact ==
    seen # None /\ seen.current =>
        Standing = IF InForce /\ spoken THEN Said ELSE Candidate(seen.rules)

Inv == TypeOK /\ Armed /\ SeenExact

\* The tracker's half of TypeOK.
TrackerOK ==
    /\ published \in Verdicts
    /\ pending = None \/ pending \in [candidate : Verdicts, age : 0..Oldest]
    /\ seen = None \/ seen \in [current : BOOLEAN, rules : Rules]
    /\ identity \in Agents \cup {None}
    /\ reported = None \/ reported \in [state : ReportStates, seq : Seqs \cup {None}]
    /\ mute \in BOOLEAN /\ owes_look \in BOOLEAN
    /\ policy \in Windows \cup {None}
    /\ spoken \in BOOLEAN

\* The other half.
RestOK ==
    /\ screen \in Screens /\ rules \in Rules /\ window \in Windows
    /\ gone \in BOOLEAN /\ broken \in BOOLEAN
    /\ printing \in BOOLEAN /\ telling \in BOOLEAN
    /\ pc \in {"top", "parked", "told", "begun", "check", "release", "owes",
               "look", "word", "mute", "unmute"}
    /\ sleep \in 0..Interval /\ lag \in 0..MaxLag
    /\ since_sweep \in 0..(Interval + MaxLag) /\ discover \in BOOLEAN
    /\ waiter = None \/ waiter \in Waiters
    /\ acts \in 0..MaxActs

LEMMA Halves == TypeOK <=> TrackerOK /\ RestOK
  BY DEF TypeOK, TrackerOK, RestOK

LEMMA InvHalves ==
    ASSUME TrackerOK', RestOK', Armed', SeenExact'
    PROVE  Inv'
  BY DEF TypeOK, TrackerOK, RestOK, Inv

-----------------------------------------------------------------------------
(* What a look makes of the tracker.                                       *)

(* A reading is a verdict; one that names no agent is the same for a pane   *)
(* nobody was identified in (the identity is then dropped, in publish).     *)
LEMMA Readings ==
    ASSUME NEW s \in Screens, NEW r \in Rules, NEW id \in Agents \cup {None}
    PROVE  /\ Evaluate(s, r, id) \in Verdicts
           /\ Evaluate(s, r, id).agent = None =>
                  Evaluate(s, r, None) = Evaluate(s, r, id)
           /\ Claimed[r][s].agent \in Agents \cup {None}
           /\ Claimed[r][s].agent # None =>
                  \A i \in Agents \cup {None} : Evaluate(s, r, i) = Evaluate(s, r, id)
<1>1. Claimed[r][s] \in Verdicts /\ Default \in Verdicts
  BY AgentAssumption DEF Verdicts, Default, States, ActiveStates
<1>2. id # None => Kept[id][r][s] \in Verdicts /\ Kept[id][r][s].agent = id
  BY AgentAssumption
<1>3. QED
  BY <1>1, <1>2, AgentAssumption DEF Evaluate, Verdicts, Default

(* A report in force, and what it says, are verdicts.                       *)
LEMMA Reports ==
    ASSUME NEW s \in Screens, NEW st \in ReportStates, NEW id \in Agents \cup {None}
    PROVE  /\ Overruled(s, st, id) \in Verdicts
           /\ Overruled(s, st, id).agent = id
           /\ [state |-> st, agent |-> id, rule |-> None] \in Verdicts
  BY AgentAssumption DEF Overruled, Verdicts, States, ActiveStates

LEMMA CandidateTyped ==
    ASSUME TypeOK
    PROVE  /\ Candidate(rules) \in Verdicts
           /\ Identified \in Agents \cup {None}
  BY Readings, Reports, NoneAssumption DEF TypeOK, Candidate, InForce, Identified

(* Publishing and settling keep what stands, and drop the identity only     *)
(* with a verdict that names nobody.                                        *)
LEMMA SettleStands ==
    ASSUME TypeOK, NEW p, p = None \/ p \in [candidate : Verdicts, age : 0..Oldest],
           NEW id \in Agents \cup {None}, NEW pol, NEW back
    PROVE  LET after == Settle(p, id, pol, back)
           IN /\ after.published \in Verdicts
              /\ after.pending = None \/ (after.pending = p /\ p # None)
              /\ after.identity \in {id, None}
              /\ (IF after.pending # None THEN after.pending.candidate ELSE after.published)
                   = (IF p # None THEN p.candidate ELSE published)
              /\ after.identity # id =>
                   /\ after.identity = None
                   /\ (IF p # None THEN p.candidate ELSE published).agent = None
  BY NoneAssumption DEF TypeOK, Settle, Publish, Held

LEMMA ConsiderStands ==
    ASSUME TypeOK, NEW v \in Verdicts, NEW id \in Agents \cup {None},
           NEW pol, NEW back \in 0..MaxLag
    PROVE  LET after == Consider(v, id, pol, back)
           IN /\ after.published \in Verdicts
              /\ \/ after.pending = None
                 \/ after.pending \in [candidate : Verdicts, age : 0..Oldest]
              /\ after.identity \in {id, None}
              /\ (IF after.pending # None THEN after.pending.candidate ELSE after.published) = v
              /\ after.identity # id => after.identity = None /\ v.agent = None
<1> DEFINE p == IF pending # None /\ pending.candidate = v THEN pending
                ELSE [candidate |-> v, age |-> back]
<1>1. p \in [candidate : Verdicts, age : 0..Oldest] /\ p # None /\ p.candidate = v
  BY AgentAssumption, NoneAssumption DEF TypeOK, Oldest
<1>2. CASE v = published
  BY <1>2 DEF Consider, TypeOK
<1>3. CASE v # published /\ Active(v)
  BY <1>3 DEF Consider, Publish, TypeOK
<1>4. CASE v # published /\ ~Active(v)
  <2>1. Consider(v, id, pol, back) = Settle(p, id, pol, back)
    BY <1>4 DEF Consider
  <2> HIDE DEF p
  <2>2. QED  BY <1>1, <2>1, SettleStands
<1>5. QED  BY <1>2, <1>3, <1>4

(* After a look the candidate is what stands, and for the identity the look *)
(* leaves it would be found again.                                          *)
LEMMA LookedStands ==
    ASSUME Inv, NEW back \in 0..MaxLag
    PROVE  LET after == Looked(back)
           IN /\ after.published \in Verdicts
              /\ \/ after.pending = None
                 \/ after.pending \in [candidate : Verdicts, age : 0..Oldest]
              /\ after.identity \in Agents \cup {None}
              /\ (IF after.pending # None THEN after.pending.candidate ELSE after.published)
                   = (IF Unchanged THEN Standing ELSE Candidate(rules))
              /\ Unchanged /\ after.identity # identity =>
                     after.identity = None /\ Standing.agent = None
              /\ ~Unchanged /\ after.identity # Identified =>
                     after.identity = None /\ Candidate(rules).agent = None
<1>0. TypeOK  BY DEF Inv
<1>1. CASE Unchanged
  <2>1. Looked(back) = Settle(pending, identity, Consulted, back)
    BY <1>1 DEF Looked
  <2>2. /\ pending = None \/ pending \in [candidate : Verdicts, age : 0..Oldest]
        /\ identity \in Agents \cup {None}
    BY <1>0 DEF TypeOK
  <2>3. QED  BY <1>0, <1>1, <2>1, <2>2, SettleStands DEF Standing
<1>2. CASE ~Unchanged
  <2>1. Looked(back) = Consider(Candidate(rules), Identified, Consulted, back)
    BY <1>2 DEF Looked
  <2>2. Candidate(rules) \in Verdicts /\ Identified \in Agents \cup {None}
    BY <1>0, CandidateTyped
  <2>3. QED  BY <1>0, <1>2, <2>1, <2>2, ConsiderStands
<1>3. QED  BY <1>1, <1>2

LEMMA ObserveKeeps ==
    ASSUME Inv, NEW back \in 0..MaxLag, Observe(back), UNCHANGED <<screen, rules, window>>
    PROVE  TrackerOK' /\ Armed' /\ SeenExact'
<1>0. TypeOK /\ Armed /\ SeenExact  BY DEF Inv
<1> DEFINE after == Looked(back)
<1>1. /\ published' = after.published /\ pending' = after.pending
      /\ identity' = after.identity /\ reported' = reported /\ mute' = mute
      /\ seen' = [current |-> TRUE, rules |-> rules]
      /\ spoken' = (spoken /\ Unchanged)
      /\ policy' = IF pending' # None THEN window ELSE Consulted
      /\ owes_look' = (owes_look /\ (Unchanged \/ InForce))
  BY DEF Observe
<1>2. /\ after.published \in Verdicts
      /\ after.pending = None \/ after.pending \in [candidate : Verdicts, age : 0..Oldest]
      /\ after.identity \in Agents \cup {None}
      /\ (IF after.pending # None THEN after.pending.candidate ELSE after.published)
           = (IF Unchanged THEN Standing ELSE Candidate(rules))
      /\ Unchanged /\ after.identity # identity =>
             after.identity = None /\ Standing.agent = None
      /\ ~Unchanged /\ after.identity # Identified =>
             after.identity = None /\ Candidate(rules).agent = None
  BY LookedStands
<1> HIDE DEF after
<1>3. TrackerOK'
  <2>1. window \in Windows /\ Consulted \in Windows \cup {None} /\ rules \in Rules
    BY <1>0 DEF TypeOK, Consulted
  <2>2. /\ owes_look' \in BOOLEAN /\ spoken' \in BOOLEAN
        /\ mute' \in BOOLEAN
    BY <1>0, <1>1 DEF TypeOK
  <2>3. QED  BY <1>0, <1>1, <1>2, <2>1, <2>2 DEF TypeOK, TrackerOK
<1>4. Armed'
  BY <1>0, <1>1, AgentAssumption DEF Armed, TypeOK
<1>5. /\ seen' # None /\ seen'.current /\ seen'.rules = rules
      /\ Standing' = (IF Unchanged THEN Standing ELSE Candidate(rules))
      /\ InForce' = InForce
  <2>1. seen' \in [current : BOOLEAN, rules : Rules]
    BY <1>0, <1>1 DEF TypeOK
  <2>2. QED  BY <1>1, <1>2, <2>1, NoneAssumption DEF Standing, InForce
<1>6. Candidate(seen.rules)' = (IF InForce THEN Overruled(screen, reported.state, identity')
                                 ELSE Evaluate(screen, rules, identity'))
  BY <1>1, <1>5 DEF Candidate
<1>7. reported # None => reported.state \in ReportStates
  BY <1>0 DEF TypeOK
<1>8. /\ screen \in Screens /\ rules \in Rules /\ identity \in Agents \cup {None}
      /\ identity' \in Agents \cup {None}
  BY <1>0, <1>1, <1>2 DEF TypeOK
<1>9. CASE Unchanged
  <2>1. Standing = IF InForce /\ spoken THEN Said ELSE Candidate(rules)
    BY <1>0, <1>9 DEF SeenExact, Unchanged
  <2>2. identity' = identity \/ (identity' = None /\ Standing.agent = None)
    BY <1>1, <1>2, <1>9
  <2>3. Said' = (IF identity' = identity THEN Said ELSE [Said EXCEPT !.agent = None])
    BY <1>1, <2>2 DEF Said
  <2>4. CASE InForce
    <3>1. Standing.agent = identity
      BY <1>7, <1>8, <2>1, <2>4, Reports DEF Said, Candidate, InForce
    <3>2. identity' = identity  BY <2>2, <3>1
    <3>3. Said' = Said  BY <1>1, <3>2 DEF Said
    <3>4. Candidate(seen.rules)' = Candidate(rules)
      BY <1>6, <2>4, <3>2 DEF Candidate
    <3>5. QED
      BY <1>1, <1>3, <1>4, <1>5, <1>9, <2>1, <2>4, <3>3, <3>4 DEF SeenExact
  <2>5. CASE ~InForce
    <3>1. Candidate(rules) = Evaluate(screen, rules, identity)  BY <2>5 DEF Candidate
    <3>2. Candidate(seen.rules)' = Candidate(rules)
      BY <1>6, <1>8, <2>1, <2>2, <2>5, <3>1, Readings
    <3>3. QED  BY <1>3, <1>4, <1>5, <1>9, <2>1, <2>5, <3>2 DEF SeenExact
  <2>6. QED  BY <2>4, <2>5
<1>10. CASE ~Unchanged
  <2>1. identity' = Identified \/ (identity' = None /\ Candidate(rules).agent = None)
    BY <1>1, <1>2, <1>10
  <2>2. CASE InForce
    <3>1. Candidate(rules).agent = identity /\ Identified = identity
      BY <1>7, <1>8, <2>2, Reports DEF Candidate, InForce, Identified
    <3>2. identity' = identity  BY <2>1, <3>1
    <3>3. QED
      BY <1>1, <1>3, <1>4, <1>5, <1>6, <1>10, <2>2, <3>2 DEF SeenExact, Candidate
  <2>3. CASE ~InForce
    <3>1. Candidate(rules) = Evaluate(screen, rules, identity)  BY <2>3 DEF Candidate
    <3>2. Identified = IF Claimed[rules][screen].agent # None
                       THEN Claimed[rules][screen].agent ELSE identity
      BY <2>3 DEF Identified
    <3>3. Evaluate(screen, rules, identity') = Evaluate(screen, rules, identity)
      BY <1>8, <2>1, <3>1, <3>2, Readings
    <3>4. QED
      BY <1>1, <1>3, <1>4, <1>5, <1>6, <1>10, <2>3, <3>1, <3>3 DEF SeenExact, Candidate
  <2>4. QED  BY <2>2, <2>3
<1>11. QED  BY <1>9, <1>10

-----------------------------------------------------------------------------
(* What the other steps do to the tracker.                                 *)

(* A step that leaves the tracker and the screen alone, whatever it does to *)
(* the manifests in force.                                                  *)
LEMMA Untouched ==
    ASSUME Inv, UNCHANGED <<tracker, screen>>
    PROVE  TrackerOK' /\ Armed' /\ SeenExact'
<1>1. TrackerOK'
  BY Halves DEF Inv, TrackerOK, tracker
<1>2. Armed'
  BY DEF Inv, Armed, tracker
<1>3. SeenExact'
  BY DEF Inv, SeenExact, Standing, InForce, Said, Candidate, tracker
<1>4. QED  BY <1>1, <1>2, <1>3

LEMMA OutputKeeps ==
    ASSUME Inv, NEW s \in Screens, Output(s)
    PROVE  TrackerOK' /\ Armed' /\ SeenExact'
<1>1. TrackerOK /\ Armed  BY Halves DEF Inv
<1>2. /\ published' = published /\ pending' = pending /\ identity' = identity
      /\ reported' = reported /\ mute' = mute /\ owes_look' = owes_look
      /\ policy' = policy /\ spoken' = spoken
      /\ seen' = IF seen = None THEN None ELSE [seen EXCEPT !.current = FALSE]
  BY DEF Output
<1>3. seen' = None \/ (seen' \in [current : BOOLEAN, rules : Rules] /\ ~seen'.current)
  BY <1>1, <1>2 DEF TrackerOK
<1>4. QED  BY <1>1, <1>2, <1>3 DEF TrackerOK, Armed, SeenExact

LEMMA RedoKeeps ==
    ASSUME Inv, Redo, reported' \in {reported, None}, mute' \in BOOLEAN
    PROVE  TrackerOK' /\ Armed' /\ SeenExact'
<1>1. TrackerOK /\ Armed  BY Halves DEF Inv
<1>2. QED  BY <1>1 DEF Redo, TrackerOK, Armed, SeenExact

LEMMA ReleaseKeeps ==
    ASSUME Inv, Release, UNCHANGED screen
    PROVE  TrackerOK' /\ Armed' /\ SeenExact'
<1>1. CASE reported = None
  BY <1>1, Untouched DEF Release
<1>2. CASE reported # None
  <2>1. mute' \in BOOLEAN  BY <1>2 DEF Release, Inv, TypeOK
  <2>2. QED  BY <1>2, <2>1, RedoKeeps DEF Release
<1>3. QED  BY <1>1, <1>2

(* A report stands, and names whoever the pane is then taken to be.         *)
LEMMA ReportKeeps ==
    ASSUME Inv, NEW state \in ReportStates, NEW agent \in Agents \cup {None},
           NEW seq \in Seqs \cup {None}, Report(state, agent, seq)
    PROVE  TrackerOK' /\ Armed' /\ SeenExact'
<1>1. TrackerOK /\ RestOK /\ Armed  BY Halves DEF Inv
<1>2. CASE Late(seq)
  BY <1>2, Untouched DEF Report, tracker
<1>3. CASE ~Late(seq)
  <2> DEFINE id == IF agent # None THEN agent ELSE identity
             said == [state |-> state, agent |-> id, rule |-> None]
             after == IF said # published THEN Publish(said, id)
                      ELSE [published |-> published, identity |-> id]
  <2>1. /\ published' = after.published /\ identity' = after.identity
        /\ pending' = None /\ reported' = [state |-> state, seq |-> seq]
        /\ owes_look' = FALSE /\ mute' = FALSE /\ spoken' = TRUE /\ seen' = seen
        /\ policy' = IF policy = None THEN window ELSE policy
    BY <1>3 DEF Report
  <2>2. id \in Agents \cup {None}  BY <1>1 DEF TrackerOK
  <2>3. said \in Verdicts /\ said.agent = id /\ said.state = state
    <3>1. Screens # {}  BY <1>1 DEF RestOK
    <3>2. QED  BY <2>2, <3>1, Reports
  <2>4. published' = said /\ identity' = id
    <3>1. id = None => said.agent = None  BY <2>3
    <3>2. QED  BY <2>1, <2>3, <3>1 DEF Publish
  <2>5. reported' \in [state : ReportStates, seq : Seqs \cup {None}] /\ reported' # None
    BY <2>1, NoneAssumption
  <2>6. TrackerOK' /\ Armed'
    BY <1>1, <2>1, <2>2, <2>3, <2>4, <2>5 DEF TrackerOK, RestOK, Armed
  <2>7. SeenExact'
    <3>1. InForce' /\ spoken'  BY <2>1, <2>5 DEF InForce
    <3>2. Said' = said  BY <2>1, <2>4 DEF Said
    <3>3. Standing' = said  BY <2>1, <2>4 DEF Standing
    <3>4. QED  BY <3>1, <3>2, <3>3 DEF SeenExact
  <2>8. QED  BY <2>6, <2>7
<1>4. QED  BY <1>2, <1>3

LEMMA TickKeeps ==
    ASSUME Inv, Tick
    PROVE  TrackerOK' /\ Armed' /\ SeenExact'
<1>1. TrackerOK /\ RestOK /\ Armed /\ SeenExact  BY Halves DEF Inv
<1>2. /\ published' = published /\ seen' = seen /\ identity' = identity
      /\ reported' = reported /\ mute' = mute /\ owes_look' = owes_look
      /\ policy' = policy /\ spoken' = spoken /\ screen' = screen
      /\ pending' = IF pending = None THEN None
                    ELSE [pending EXCEPT !.age = Later(@, Oldest)]
  BY DEF Tick, env
<1>3. pending # None =>
          /\ pending' \in [candidate : Verdicts, age : 0..Oldest] /\ pending' # None
          /\ pending'.candidate = pending.candidate
  <2>1. Oldest \in Nat  BY AgentAssumption DEF Oldest
  <2>2. pending # None => Later(pending.age, Oldest) \in 0..Oldest
    BY <1>1, <2>1 DEF TrackerOK, Later
  <2>3. pending # None =>
            pending' = [candidate |-> pending.candidate, age |-> Later(pending.age, Oldest)]
    BY <1>1, <1>2 DEF TrackerOK
  <2>4. pending # None =>
            pending' \in [candidate : Verdicts, age : 0..Oldest]
    BY <1>1, <2>2, <2>3 DEF TrackerOK
  <2>5. QED  BY <2>3, <2>4, NoneAssumption
<1>4. Standing' = Standing  BY <1>2, <1>3 DEF Standing
<1>5. QED
  BY <1>1, <1>2, <1>3, <1>4
  DEF TrackerOK, Armed, SeenExact, InForce, Said, Candidate

-----------------------------------------------------------------------------
(* The other half of the state.                                            *)

LEMMA HeardTyped ==
    ASSUME waiter = None \/ waiter \in Waiters, NEW bump \in BOOLEAN, Heard(bump)
    PROVE  waiter' = None \/ waiter' \in Waiters
  BY DEF Heard, Waiters

LEMMA RedoneTyped ==
    ASSUME waiter = None \/ waiter \in Waiters, Redone
    PROVE  waiter' = None \/ waiter' \in Waiters
  BY DEF Redone, Waiters

LEMMA ReleaseTyped ==
    ASSUME waiter = None \/ waiter \in Waiters, Release
    PROVE  waiter' = None \/ waiter' \in Waiters
  BY RedoneTyped DEF Release

LEMMA NotifyTyped ==
    ASSUME NEW told \in BOOLEAN, Notify(told)
    PROVE  pc' \in {pc, "told"}
  BY DEF Notify

LEMMA EnvironmentTyped ==
    ASSUME Inv, Environment
    PROVE  RestOK'
<1>1. RestOK  BY Halves DEF Inv
<1>2. acts \in Nat /\ MaxActs \in Nat  BY <1>1, AgentAssumption DEF RestOK
<1>3. Act => acts' \in 0..MaxActs  BY <1>2, <1>1 DEF Act, RestOK
<1>4. ASSUME NEW s \in Screens, Output(s)  PROVE RestOK'
  BY <1>1, <1>3, <1>4 DEF Output, RestOK, waker
<1>5. ASSUME NEW st \in ReportStates, NEW a \in Agents \cup {None},
             NEW q \in Seqs \cup {None}, Report(st, a, q)
      PROVE  RestOK'
  <2>1. Act /\ UNCHANGED <<screen, rules, window, broken, printing, waker>>
    BY <1>5 DEF Report
  <2>2. CASE Late(q)
    BY <1>1, <1>3, <1>5, <2>1, <2>2 DEF Report, RestOK, waker
  <2>3. CASE ~Late(q)
    <3>1. gone' = FALSE /\ telling' \in BOOLEAN /\ Heard(FALSE)
      BY <1>5, <2>3 DEF Report
    <3>2. waiter' = None \/ waiter' \in Waiters  BY <1>1, <3>1, HeardTyped DEF RestOK
    <3>3. QED  BY <1>1, <1>3, <2>1, <3>1, <3>2 DEF RestOK, waker
  <2>4. QED  BY <2>2, <2>3
<1>6. ASSUME ReleaseAgent  PROVE RestOK'
  <2>1. waiter' = None \/ waiter' \in Waiters
    BY <1>1, <1>6, ReleaseTyped DEF ReleaseAgent, RestOK
  <2>2. pc' \in {pc, "told"}  BY <1>6, NotifyTyped DEF ReleaseAgent
  <2>3. QED  BY <1>1, <1>3, <1>6, <2>1, <2>2 DEF ReleaseAgent, RestOK
<1>7. ASSUME ReporterGoes  PROVE RestOK'
  BY <1>1, <1>3, <1>7 DEF ReporterGoes, RestOK, waker
<1>8. ASSUME Hook  PROVE RestOK'
  BY <1>1, <1>3, <1>8 DEF Hook, RestOK, waker
<1>9. ASSUME NEW w \in Windows, SetOption(w)  PROVE RestOK'
  BY <1>1, <1>3, <1>9 DEF SetOption, RestOK, waker
<1>10. ASSUME Read  PROVE RestOK'
  <2>1. pc' \in {pc, "told"}  BY <1>10 DEF Read, ReaderLook, Notify
  <2>2. waiter' = None \/ waiter' \in Waiters
    <3>1. CASE Heard(FALSE)  BY <1>1, <3>1, HeardTyped DEF RestOK
    <3>2. CASE ~Heard(FALSE)
      <4>1. waiter' = [deadline |-> published'.state # "unknown" /\ pending' # None,
                       known |-> published'.state # "unknown",
                       bumped |-> FALSE, stale |-> FALSE, redone |-> FALSE]
        BY <1>10, <3>2 DEF Read
      <4>2. QED  BY <4>1 DEF Waiters
    <3>3. QED  BY <3>1, <3>2
  <2>3. UNCHANGED <<env, sleep, lag, since_sweep, discover>>
    BY <1>10 DEF Read, ReaderLook
  <2>4. QED  BY <1>1, <2>1, <2>2, <2>3 DEF RestOK, env
<1>11. QED
  BY <1>4, <1>5, <1>6, <1>7, <1>8, <1>9, <1>10 DEF Environment

LEMMA WakerTyped ==
    ASSUME Inv, WakerStep
    PROVE  RestOK'
<1>1. TrackerOK /\ RestOK /\ Armed  BY Halves DEF Inv
<1>2. /\ Interval \in Nat /\ Interval > 0 /\ MaxLag \in Nat
      /\ lag \in Nat /\ acts \in Nat /\ MaxActs \in Nat
  BY <1>1, AgentAssumption DEF RestOK
<1>3. ASSUME Park  PROVE RestOK'
  <2> DEFINE left == IF policy > pending.age THEN policy - pending.age ELSE 0
             wait == IF pending # None /\ left < Interval THEN left ELSE Interval
  <2>1. pc' \in {"told", "parked"} /\ sleep' = wait
        /\ UNCHANGED <<env, lag, since_sweep, discover, waiter>>
    BY <1>3 DEF Park
  <2>2. wait \in 0..Interval
    <3>1. CASE pending = None  BY <1>2, <3>1
    <3>2. CASE pending # None
      <4>1. policy \in Int  BY <1>1, <3>2, AgentAssumption DEF Armed, TrackerOK
      <4>2. pending.age \in Nat  BY <1>1, <3>2 DEF TrackerOK
      <4>3. left \in Nat  BY <4>1, <4>2
      <4> HIDE DEF left
      <4>4. QED  BY <1>2, <3>2, <4>3
    <3>3. QED  BY <3>1, <3>2
  <2> HIDE DEF wait
  <2>3. QED  BY <1>1, <2>1, <2>2 DEF RestOK, env
<1>4. ASSUME Wake  PROVE RestOK'
  BY <1>1, <1>2, <1>4 DEF Wake, RestOK, env
<1>5. ASSUME Begin  PROVE RestOK'
  <2>1. /\ pc' \in {"top", "check"} /\ discover' \in BOOLEAN
        /\ since_sweep' \in {since_sweep, lag}
    <3> DEFINE sweep == since_sweep >= Interval + lag
    <3>1. sweep \in BOOLEAN  OBVIOUS
    <3>2. \/ pc' = "top" /\ UNCHANGED <<since_sweep, discover>>
          \/ /\ pc' = "check" /\ discover' = sweep
             /\ since_sweep' = IF sweep THEN lag ELSE since_sweep
      BY <1>5 DEF Begin
    <3> HIDE DEF sweep
    <3>3. QED  BY <1>1, <3>1, <3>2 DEF RestOK
  <2>2. UNCHANGED <<screen, window, gone, broken, printing, telling, sleep, lag>>
    BY <1>5 DEF Begin
  <2>3. \/ UNCHANGED <<rules, acts, waiter>>
        \/ Act /\ rules' \in Rules /\ Redone
    BY <1>5 DEF Begin
  <2>4. rules' \in Rules /\ acts' \in 0..MaxActs
    BY <1>1, <1>2, <2>3 DEF Act, RestOK
  <2>5. waiter' = None \/ waiter' \in Waiters
    BY <1>1, <2>3, RedoneTyped DEF RestOK
  <2>6. since_sweep' \in 0..(Interval + MaxLag)
    BY <1>1, <1>2, <2>1 DEF RestOK
  <2>7. QED  BY <1>1, <2>1, <2>2, <2>4, <2>5, <2>6 DEF RestOK
<1>6. ASSUME Check  PROVE RestOK'
  BY <1>1, <1>6 DEF Check, RestOK, env
<1>7. ASSUME Drop  PROVE RestOK'
  <2>1. waiter' = None \/ waiter' \in Waiters
    BY <1>1, <1>7, ReleaseTyped DEF Drop, RestOK
  <2>2. QED  BY <1>1, <1>7, <2>1 DEF Drop, RestOK, env
<1>8. ASSUME Owes  PROVE RestOK'
  BY <1>1, <1>8 DEF Owes, RestOK, env
<1>9. ASSUME Look  PROVE RestOK'
  <2>1. waiter' = None \/ waiter' \in Waiters
    BY <1>1, <1>9, HeardTyped DEF Look, RestOK
  <2>2. QED  BY <1>1, <1>9, <2>1 DEF Look, RestOK, env
<1>10. ASSUME Word  PROVE RestOK'
  BY <1>1, <1>10 DEF Word, RestOK, env
<1>11. ASSUME SetReporterMute  PROVE RestOK'
  <2>1. waiter' = None \/ waiter' \in Waiters
    BY <1>1, <1>11, RedoneTyped DEF SetReporterMute, RestOK
  <2>2. QED  BY <1>1, <1>11, <2>1 DEF SetReporterMute, RestOK, env
<1>12. QED
  BY <1>3, <1>4, <1>5, <1>6, <1>7, <1>8, <1>9, <1>10, <1>11 DEF WakerStep

LEMMA ClocksTyped ==
    ASSUME Inv, OutputBump \/ ReportBump \/ Tick
    PROVE  RestOK'
<1>1. RestOK  BY Halves DEF Inv
<1>2. CASE OutputBump
  <2>1. waiter' = None \/ waiter' \in Waiters
    BY <1>1, <1>2, HeardTyped DEF OutputBump, RestOK
  <2>2. QED  BY <1>1, <1>2, <2>1 DEF OutputBump, RestOK, waker
<1>3. CASE ReportBump
  <2>1. waiter' = None \/ waiter' \in Waiters
    BY <1>1, <1>3, HeardTyped DEF ReportBump, RestOK
  <2>2. QED  BY <1>1, <1>3, <2>1 DEF ReportBump, RestOK, waker
<1>4. CASE Tick
  <2>1. Interval \in Nat /\ MaxLag \in Nat /\ Interval + MaxLag \in Nat
    BY AgentAssumption
  <2>2. sleep' \in 0..Interval  BY <1>1, <1>4, <2>1 DEF Tick, RestOK
  <2>3. lag' \in 0..MaxLag  BY <1>1, <1>4, <2>1 DEF Tick, RestOK
  <2>4. since_sweep' \in 0..(Interval + MaxLag)
    BY <1>1, <1>4, <2>1 DEF Tick, RestOK, Later
  <2>5. UNCHANGED <<env, pc, discover, waiter>>  BY <1>4 DEF Tick
  <2>6. QED  BY <1>1, <2>2, <2>3, <2>4, <2>5 DEF RestOK, env
<1>5. QED  BY <1>2, <1>3, <1>4

-----------------------------------------------------------------------------
(* The invariant.                                                          *)

LEMMA InitInv == Init => Inv
<1> SUFFICES ASSUME Init PROVE Inv  OBVIOUS
<1>1. /\ Interval \in Nat /\ MaxLag \in Nat /\ MaxActs \in Nat /\ MaxWindow \in Nat
  BY AgentAssumption
<1>2. TrackerOK
  BY DEF Init, TrackerOK, Default, Verdicts, States, ActiveStates
<1>3. RestOK
  <2>1. /\ 0 \in 0..Interval /\ 0 \in 0..MaxLag /\ 0 \in 0..(Interval + MaxLag)
        /\ 0 \in 0..MaxActs
    BY <1>1
  <2>2. QED  BY <2>1 DEF Init, RestOK
<1>4. Armed /\ SeenExact  BY DEF Init, Armed, SeenExact
<1>5. QED  BY <1>2, <1>3, <1>4, Halves DEF Inv

LEMMA InvStep == Inv /\ [Next]_vars => Inv'
<1> SUFFICES ASSUME Inv, [Next]_vars PROVE Inv'  OBVIOUS
<1> DEFINE Kept_ == TrackerOK' /\ Armed' /\ SeenExact'
<1>1. TypeOK /\ RestOK  BY Halves DEF Inv
<1>2. CASE Environment
  <2>1. ASSUME NEW s \in Screens, Output(s)  PROVE Kept_
    BY <2>1, OutputKeeps
  <2>2. ASSUME NEW st \in ReportStates, NEW a \in Agents \cup {None},
               NEW q \in Seqs \cup {None}, Report(st, a, q)
        PROVE  Kept_
    BY <2>2, ReportKeeps
  <2>3. ASSUME ReleaseAgent  PROVE Kept_
    BY <2>3, ReleaseKeeps DEF ReleaseAgent
  <2>4. ASSUME ReporterGoes \/ Hook \/ \E w \in Windows : SetOption(w)
        PROVE  Kept_
    BY <2>4, Untouched DEF ReporterGoes, Hook, SetOption
  <2>5. ASSUME Read  PROVE Kept_
    BY <2>5, ObserveKeeps DEF Read, ReaderLook, env
  <2>6. Kept_
    BY <1>2, <2>1, <2>2, <2>3, <2>4, <2>5 DEF Environment
  <2>7. QED  BY <1>2, <2>6, EnvironmentTyped, InvHalves
<1>3. CASE OutputBump
  BY <1>3, Untouched, ClocksTyped, InvHalves DEF OutputBump, tracker
<1>4. CASE ReportBump
  BY <1>4, Untouched, ClocksTyped, InvHalves DEF ReportBump, tracker
<1>5. CASE WakerStep
  <2>1. ASSUME Park \/ Wake \/ Begin \/ Check \/ Owes \/ Word  PROVE Kept_
    BY <2>1, Untouched DEF Park, Wake, Begin, Check, Owes, Word, env
  <2>2. ASSUME Drop  PROVE Kept_
    BY <2>2, ReleaseKeeps DEF Drop, env
  <2>3. ASSUME Look  PROVE Kept_
    <3>1. lag \in 0..MaxLag  BY <1>1 DEF RestOK
    <3>2. QED  BY <2>3, <3>1, ObserveKeeps DEF Look, env
  <2>4. ASSUME SetReporterMute  PROVE Kept_
    <3>1. UNCHANGED screen  BY <2>4 DEF SetReporterMute, env
    <3>2. CASE mute = (pc = "mute")
      BY <2>4, <3>1, <3>2, Untouched DEF SetReporterMute
    <3>3. CASE mute # (pc = "mute")
      BY <2>4, <3>3, RedoKeeps DEF SetReporterMute
    <3>4. QED  BY <3>2, <3>3
  <2>5. Kept_  BY <1>5, <2>1, <2>2, <2>3, <2>4 DEF WakerStep
  <2>6. QED  BY <1>5, <2>5, WakerTyped, InvHalves
<1>6. CASE Tick
  BY <1>6, TickKeeps, ClocksTyped, InvHalves
<1>7. CASE UNCHANGED vars
  <2>1. Kept_  BY <1>7, Untouched DEF vars, env
  <2>2. RestOK'  BY <1>1, <1>7 DEF RestOK, vars, env, waker
  <2>3. QED  BY <2>1, <2>2, InvHalves
<1>8. QED  BY <1>2, <1>3, <1>4, <1>5, <1>6, <1>7 DEF Next

(* The tracker, its clock and whoever waits on it keep their shape, under   *)
(* any manifests, windows and reports (track.rs, agent.rs, sweep.rs).       *)
THEOREM TypeCorrect == Spec => []TypeOK
<1>1. Inv => TypeOK  BY DEF Inv
<1>2. QED  BY InitInv, InvStep, <1>1, PTL DEF Spec

(* The skip of Tracker::observe is exact (track.rs:689), for every set of   *)
(* manifests and however reports, releases, mutings, reloads and looks with *)
(* a late clock follow each other: an unchanged screen is not read again,   *)
(* and reading it again would find what stands.                             *)
THEOREM ExactSkip == Spec => []SkipIsExact
<1>1. Inv => SkipIsExact
  BY DEF Inv, SeenExact, SkipIsExact, Unchanged
<1>2. QED  BY InitInv, InvStep, <1>1, PTL DEF Spec

-----------------------------------------------------------------------------
(* Whoever waits hears.                                                    *)

\* Somebody waits on a known verdict with no deadline, and was told nothing.
Untold ==
    waiter # None /\ waiter.known /\ ~waiter.redone /\ ~waiter.deadline /\ ~waiter.bumped

\* Then, if nobody is about to tell him, there is nothing to tell: nothing is
\* settling, and no look would find the screen other than it was.
NothingToTell ==
    Untold /\ ~printing /\ ~telling => ~waiter.stale /\ pending = None /\ Unchanged

(* What Heard makes of a waiter.                                            *)
LEMMA HeardWaiter ==
    ASSUME Inv, NEW bump \in BOOLEAN, Heard(bump)
    PROVE  /\ bump => ~Untold'
           /\ Untold' => Untold
           /\ published' = published /\ waiter # None => waiter'.stale = waiter.stale
<1>1. waiter = None \/ waiter \in Waiters  BY DEF Inv, TypeOK
<1>2. waiter = None => waiter' = None  BY DEF Heard
<1>3. waiter # None =>
        /\ waiter'.known = waiter.known /\ waiter'.redone = waiter.redone
        /\ waiter'.deadline = waiter.deadline
        /\ waiter'.stale = (waiter.stale \/ published' # published)
        /\ waiter'.bumped = (waiter.bumped \/ bump)
  BY <1>1 DEF Heard, Waiters
<1>4. waiter # None => waiter.stale \in BOOLEAN  BY <1>1 DEF Waiters
<1>5. QED  BY <1>2, <1>3, <1>4 DEF Untold

LEMMA RedoneWaiter == ASSUME Inv, Redone  PROVE ~Untold'
<1>1. waiter = None \/ waiter \in Waiters  BY DEF Inv, TypeOK
<1>2. waiter = None => waiter' = None  BY DEF Redone
<1>3. waiter # None => waiter'.redone  BY <1>1 DEF Redone, Waiters
<1>4. QED  BY <1>2, <1>3 DEF Untold

(* A look at a screen that is known publishes nothing when nothing settles;  *)
(* after any look the screen is known.                                      *)
LEMMA LookKnows ==
    ASSUME Inv, NEW back, Observe(back), rules' = rules
    PROVE  /\ Unchanged'
           /\ pending = None /\ Unchanged => published' = published /\ pending' = None
<1>1. rules \in Rules  BY DEF Inv, TypeOK
<1>2. seen' = [current |-> TRUE, rules |-> rules]  BY DEF Observe
<1>3. seen' # None
  <2>1. seen' \in [current : BOOLEAN, rules : Rules]  BY <1>1, <1>2
  <2>2. QED  BY <2>1, NoneAssumption
<1>4. Unchanged'  BY <1>2, <1>3 DEF Unchanged
<1>5. ASSUME pending = None, Unchanged
      PROVE  published' = published /\ pending' = None
  BY <1>5 DEF Observe, Looked, Settle, Held
<1>6. QED  BY <1>4, <1>5

\* What leaves all of it alone.
LEMMA ToldStays ==
    ASSUME NothingToTell, UNCHANGED <<waiter, printing, telling, pending, seen, rules>>
    PROVE  NothingToTell'
  BY DEF NothingToTell, Untold, Unchanged

LEMMA TellStep ==
    ASSUME Inv, NothingToTell, [Next]_vars
    PROVE  NothingToTell'
<1>1. ASSUME NEW s \in Screens, Output(s)  PROVE NothingToTell'
  BY <1>1 DEF Output, NothingToTell
<1>2. ASSUME OutputBump \/ ReportBump  PROVE NothingToTell'
  BY <1>2, HeardWaiter DEF OutputBump, ReportBump, NothingToTell
<1>3. ASSUME NEW st \in ReportStates, NEW a \in Agents \cup {None},
             NEW q \in Seqs \cup {None}, Report(st, a, q)
      PROVE  NothingToTell'
  <2>1. UNCHANGED <<rules, printing>> /\ ~telling  BY <1>3 DEF Report
  <2>2. CASE Late(q)
    BY <1>3, <2>1, <2>2, ToldStays DEF Report, tracker
  <2>3. CASE ~Late(q) /\ telling'
    BY <2>3 DEF NothingToTell
  <2>4. CASE ~Late(q) /\ ~telling'
    <3>1. published' = published /\ pending' = None /\ seen' = seen /\ Heard(FALSE)
      BY <1>3, <2>4 DEF Report
    <3>2. (Untold' => Untold) /\ (waiter # None => waiter'.stale = waiter.stale)
      BY <3>1, HeardWaiter
    <3>3. QED  BY <2>1, <3>1, <3>2 DEF NothingToTell, Untold, Unchanged
  <2>5. QED  BY <2>2, <2>3, <2>4
<1>4. ASSUME Release, UNCHANGED <<rules, printing, telling>>  PROVE NothingToTell'
  <2>1. CASE reported = None
    BY <1>4, <2>1, ToldStays DEF Release, tracker
  <2>2. CASE reported # None
    BY <1>4, <2>2, RedoneWaiter DEF Release, NothingToTell
  <2>3. QED  BY <2>1, <2>2
<1>5. ASSUME ReporterGoes \/ Hook \/ \E w \in Windows : SetOption(w)
      PROVE  NothingToTell'
  BY <1>5, ToldStays DEF ReporterGoes, Hook, SetOption, tracker
<1>6. ASSUME NEW back, Observe(back), Heard(published' # published) \/ Heard(FALSE),
             UNCHANGED <<rules, printing, telling>>
      PROVE  NothingToTell'
  <2>1. /\ Untold' => Untold
        /\ published' = published /\ waiter # None => waiter'.stale = waiter.stale
    BY <1>6, HeardWaiter
  <2>2. /\ Unchanged'
        /\ pending = None /\ Unchanged => published' = published /\ pending' = None
    BY <1>6, LookKnows
  <2>3. QED  BY <1>6, <2>1, <2>2 DEF NothingToTell, Untold
<1>7. ASSUME Read  PROVE NothingToTell'
  <2>1. UNCHANGED <<rules, printing, telling>>  BY <1>7 DEF Read, ReaderLook, env
  <2>2. PICK back \in 0..MaxLag : Observe(back)  BY <1>7 DEF Read, ReaderLook
  <2>3. CASE Heard(FALSE)  BY <1>6, <2>1, <2>2, <2>3
  <2>4. CASE ~Heard(FALSE)
    <3>1. waiter' = [deadline |-> published'.state # "unknown" /\ pending' # None,
                     known |-> published'.state # "unknown",
                     bumped |-> FALSE, stale |-> FALSE, redone |-> FALSE]
      BY <1>7, <2>4 DEF Read
    <3>2. Untold' => pending' = None  BY <3>1 DEF Untold
    <3>3. ~waiter'.stale  BY <3>1
    <3>4. Unchanged'  BY <2>1, <2>2, LookKnows
    <3>5. QED  BY <3>2, <3>3, <3>4 DEF NothingToTell
  <2>5. QED  BY <2>3, <2>4
<1>8. ASSUME Environment  PROVE NothingToTell'
  <2>1. ReleaseAgent => NothingToTell'  BY <1>4 DEF ReleaseAgent
  <2>2. QED  BY <1>1, <1>3, <1>5, <1>7, <1>8, <2>1 DEF Environment
<1>9. ASSUME WakerStep  PROVE NothingToTell'
  <2>1. Park \/ Wake \/ Check \/ Owes \/ Word => NothingToTell'
    BY ToldStays DEF Park, Wake, Check, Owes, Word, env, tracker
  <2>2. ASSUME Begin  PROVE NothingToTell'
    <3>1. UNCHANGED <<printing, telling, pending, seen>>  BY <2>2 DEF Begin, tracker
    <3>2. CASE Redone  BY <3>2, RedoneWaiter DEF NothingToTell
    <3>3. CASE UNCHANGED <<rules, waiter>>  BY <3>1, <3>3, ToldStays
    <3>4. QED  BY <2>2, <3>2, <3>3 DEF Begin
  <2>3. Drop => NothingToTell'  BY <1>4 DEF Drop, env
  <2>4. Look => NothingToTell'  BY <1>6 DEF Look, env
  <2>5. ASSUME SetReporterMute  PROVE NothingToTell'
    <3>1. CASE mute = (pc = "mute")
      BY <2>5, <3>1, ToldStays DEF SetReporterMute, env, tracker
    <3>2. CASE mute # (pc = "mute")
      BY <2>5, <3>2, RedoneWaiter DEF SetReporterMute, NothingToTell
    <3>3. QED  BY <3>1, <3>2
  <2>6. QED  BY <1>9, <2>1, <2>2, <2>3, <2>4, <2>5 DEF WakerStep
<1>10. ASSUME Tick  PROVE NothingToTell'
  BY <1>10 DEF Tick, env, NothingToTell, Untold, Unchanged
<1>11. ASSUME UNCHANGED vars  PROVE NothingToTell'
  BY <1>11, ToldStays DEF vars, env, tracker
<1>12. QED  BY <1>2, <1>8, <1>9, <1>10, <1>11 DEF Next

(* One who waits on a known verdict of a pane that was not handed back to    *)
(* its screen has a deadline, a move of the pane, or one that is on its way, *)
(* whenever another verdict was published (workspace.rs:1538, sweep.rs:320,  *)
(* whoever of the sweep, a report or a reader published it).                *)
THEOREM WaitersHear == Spec => []StillHeard
<1>1. Init => NothingToTell  BY DEF Init, NothingToTell, Untold
<1>2. Inv /\ NothingToTell => StillHeard
  BY DEF NothingToTell, Untold, StillHeard, HoldsOne
<1>3. Inv /\ NothingToTell /\ [Next]_vars => (Inv /\ NothingToTell)'
  BY InvStep, TellStep
<1>4. QED  BY InitInv, <1>1, <1>2, <1>3, PTL DEF Spec
=============================================================================

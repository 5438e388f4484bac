---------------------------- MODULE RunStoreProofs ----------------------------
(***************************************************************************)
(* Theorems about RunStore, for any number of drivers, deaths and daemons.  *)
(*                                                                         *)
(* What makes them true is a token: in one daemon's life at most one driver *)
(* is active, that is, has a collector that is waiting for it, has found it *)
(* dead, or is replacing it, and only who holds the token hands it on.      *)
(***************************************************************************)
EXTENDS RunStore, TLAPS

Active(d) == collector[d] \in {"waiting", "lost", "reviving"}
Quiet == \A e \in Drivers : collector[e] = "none"

\* One driver at a time is active.
OneAtATime == \A d, e \in Drivers : Active(d) /\ Active(e) => d = e

\* What a collector has done agrees with the process and with the state it wrote.
Collected ==
    \A d \in Drivers :
        /\ collector[d] # "none" => of[d] = gen /\ life[d] # "unborn"
        /\ life[d] = "running" /\ of[d] = gen => collector[d] = "waiting"
        /\ cell[d] = "Running" <=> collector[d] \in {"none", "waiting"}
        /\ collector[d] \in {"lost", "reviving"} => cell[d] = "Panicked"
        /\ cell[d] = "Reported" => \A e \in Drivers : ~Active(e)

\* A driver that was started is on its way into the row, or is in it.
InSight ==
    \A d \in Drivers :
        /\ pending[d] # "no" => collector[d] # "none"
        /\ pending[d] # "no" => row = None \/ row.driver # d
        /\ pending[d] = "submit" =>
              row = None /\ \A e \in Drivers : e # d => collector[e] = "none"
        /\ pending[d] \in {"revival", "boot"} => row # None
        /\ pending[d] = "boot" =>
              phase = "boot" /\ \A e \in Drivers : pending[e] = "boot" => e = d
        /\ collector[d] = "reviving" => row # None
        /\ collector[d] = "waiting" /\ pending[d] = "no" =>
              row # None /\ row.driver = d

\* What the row says of a run that was restored.
Inherited ==
    /\ row # None /\ row.driver # None => collector[row.driver] # "none"
    /\ row # None /\ row.driver = None /\ row.restored = "Done" => Quiet
    /\ row # None /\ row.driver = None /\ row.restored = "Interrupted"
       /\ ~row.withheld /\ ~row.not_resumed => phase = "boot"
    /\ phase = "boot" => row.restored = "Interrupted"

\* The lives of the daemon.
Phases ==
    /\ phase = "boot" => row # None
    /\ phase = "boot" /\ (\A d \in Drivers : pending[d] # "boot") => Quiet
    /\ phase = "down" => row = None /\ Quiet
    /\ ~asked => row = None /\ file = None /\ Quiet

Inv ==
    /\ TypeOK
    /\ OneAtATime
    /\ Collected
    /\ InSight
    /\ Inherited
    /\ Phases

-----------------------------------------------------------------------------
(***************************************************************************)
(* Types.                                                                  *)
(***************************************************************************)
LEMMA Starting ==
    ASSUME CanStart PROVE Started \in Drivers /\ life[Started] = "unborn"
  BY DEF CanStart, Started

LEMMA RowParts ==
    ASSUME TypeOK, row # None
    PROVE  /\ row \in Rows
           /\ TallyOf \in Counts /\ CarriedIn \in Nat
           /\ CancelledBy \in {"Person", "Shutdown", None}
  <1>1. row \in Rows
    BY DEF TypeOK
  <1>2. TallyOf \in Counts /\ CarriedIn \in Nat
    BY <1>1 DEF Rows, Counts, TallyOf, CarriedIn
  <1>3. CancelledBy \in {"Person", "Shutdown", None}
    BY <1>1 DEF Rows, CancelledBy, TypeOK
  <1> QED BY <1>1, <1>2, <1>3

LEMMA DriveTypes ==
    ASSUME TypeOK, NEW d \in Drivers, NEW why \in {"submit", "revival", "boot"},
           NEW count \in Nat, DriveInAProcess(d, why, count)
    PROVE  /\ life' \in [Drivers -> {"unborn", "running", "reported", "lost"}]
           /\ of' \in [Drivers -> 0 .. gen] /\ tally' \in [Drivers -> Nat]
           /\ pending' \in [Drivers -> {"no", "submit", "revival", "boot"}]
  BY DEF TypeOK, DriveInAProcess

LEMMA DirectoryTypes ==
    ASSUME Inv, NEW d \in Drivers, Directory(d) PROVE TypeOK'
  <1> USE DEF Inv
  <1>1. CASE Submit(d)
    BY <1>1, StoreAssumption DEF Submit, TypeOK, Rows, Counts, daemon, drivers, history
  <1>2. CASE PutBack(d)
    <2>1. row \in Rows
      BY <1>2, RowParts DEF PutBack, InSight
    <2>2. row' \in Rows
      BY <1>2, <2>1 DEF PutBack, Rows
    <2> QED BY <1>2, <2>2 DEF PutBack, TypeOK, drivers, history
  <1>3. CASE Collect(d)
    BY <1>3 DEF Collect, TypeOK, daemon, drivers, history
  <1>4. CASE Revival(d)
    <2>1. Revivable => [row EXCEPT !.revived_at = row.reports] \in Rows
      BY RowParts DEF Revivable, Rows, Counts
    <2> QED BY <1>4, <2>1 DEF Revival, TypeOK, daemon, drivers
  <1>5. CASE PutBackALostDriver(d)
    <2>1. CASE CanStart /\ DriveInAProcess(Started, "revival", CarriedIn)
               /\ collector' = [collector EXCEPT ![d] = "done", ![Started] = "waiting"]
      <3>1. CarriedIn \in Nat
        BY <1>5, RowParts DEF PutBackALostDriver, InSight
      <3>2. /\ life' \in [Drivers -> {"unborn", "running", "reported", "lost"}]
            /\ of' \in [Drivers -> 0 .. gen] /\ tally' \in [Drivers -> Nat]
            /\ pending' \in [Drivers -> {"no", "submit", "revival", "boot"}]
        BY <2>1, <3>1, Starting, DriveTypes
      <3> QED BY <1>5, <2>1, <3>2 DEF PutBackALostDriver, DriveInAProcess, TypeOK, daemon,
                 history
    <2>2. CASE collector' = [collector EXCEPT ![d] = "done"]
               /\ UNCHANGED <<drivers, cell, orders, pending>>
      BY <1>5, <2>2 DEF PutBackALostDriver, TypeOK, daemon, drivers, history
    <2> QED BY <1>5, <2>1, <2>2 DEF PutBackALostDriver
  <1> QED BY <1>1, <1>2, <1>3, <1>4, <1>5 DEF Directory

\* What of the row says who drives the run, or why nobody does.
Shape(r) == [driver |-> r.driver, restored |-> r.restored, withheld |-> r.withheld,
             not_resumed |-> r.not_resumed]

LEMMA Counting ==
    ASSUME NEW r \in Rows, NEW n \in Nat
    PROVE  LET q == [r EXCEPT !.reported = n, !.reports = @ + 1]
           IN  q \in Rows /\ Shape(q) = Shape(r)
  <1>1. PICK m \in Nat : m = r.reports + 1
    BY DEF Rows
  <1>2. [r EXCEPT !.reported = n, !.reports = m] \in Rows
    BY DEF Rows, Counts
  <1>3. Shape([r EXCEPT !.reported = n, !.reports = m]) = Shape(r)
    BY DEF Shape, Rows
  <1> QED BY <1>1, <1>2, <1>3

LEMMA DriverTypes ==
    ASSUME Inv, NEW d \in Drivers, Driver(d) PROVE TypeOK'
  <1> USE DEF Inv
  <1>1. CASE Connect(d)
    BY <1>1 DEF Connect, TypeOK, daemon, handles, history
  <1>2. CASE Step(d)
    BY <1>2 DEF Step, TypeOK, daemon, handles, history
  <1>3. CASE ReadRow(d)
    <2>1. flags' \in [Drivers -> BOOLEAN]
      BY <1>3 DEF ReadRow, TypeOK
    <2> QED BY <1>3, <2>1 DEF ReadRow, TypeOK, daemon, handles, history
  <1>4. CASE Finish(d)
    BY <1>4 DEF Finish, Exit, TypeOK, daemon, handles, history
  <1>5. CASE Die(d)
    BY <1>5, StoreAssumption DEF Die, Exit, TypeOK, daemon, handles
  <1>6. CASE Report(d)
    <2>1. flags' \in [Drivers -> BOOLEAN]
      BY <1>6 DEF Report, TypeOK
    <2>2. row' \in Rows \cup {None}
      <3>1. CASE Refused
        BY <1>6, <3>1 DEF Report, TypeOK
      <3>2. CASE ~Refused
        <4>1. row # None
          BY <3>2 DEF Refused
        <4>2. row \in Rows /\ tally[d] \in Nat
          <5>1. row \in Rows
            BY <4>1, RowParts
          <5>2. tally[d] \in Nat
            BY DEF TypeOK
          <5> QED BY <5>1, <5>2
        <4>3. row' = [row EXCEPT !.reported = tally[d], !.reports = @ + 1]
          BY <1>6, <3>2 DEF Report
        <4> QED BY <4>2, <4>3, Counting
      <3> QED BY <3>1, <3>2
    <2> QED BY <1>6, <2>1, <2>2 DEF Report, TypeOK, daemon, handles, history
  <1> QED BY <1>1, <1>2, <1>3, <1>4, <1>5, <1>6 DEF Driver

LEMMA OthersTypes ==
    ASSUME Inv, People \/ Daemon PROVE TypeOK'
  <1> USE DEF Inv
  <1>1. CASE StartRun
    BY <1>1, Starting, DriveTypes DEF StartRun, DriveInAProcess, TypeOK, history
  <1>2. ASSUME NEW who \in {"Person", "Shutdown"}, row # None, Deliver(who)
        PROVE  /\ orders' \in [Drivers -> {"Person", "Shutdown", None}]
               /\ unread' \subseteq Drivers
    BY <1>2 DEF Deliver, TypeOK
  <1>3. CASE Cancel
    BY <1>2, <1>3 DEF Cancel, TypeOK, daemon, history
  <1>4. CASE StopAll
    <2>1. /\ orders' \in [Drivers -> {"Person", "Shutdown", None}]
          /\ unread' \subseteq Drivers
      BY <1>2, <1>4 DEF StopAll, TypeOK
    <2> QED BY <1>4, <2>1 DEF StopAll, TypeOK, history
  <1>5. CASE Save
    <2>1. Persistable \in Files
      <3>1. row \in Rows /\ TallyOf \in Counts /\ CancelledBy \in {"Person", "Shutdown", None}
        BY <1>5, RowParts DEF Save
      <3> QED BY <3>1 DEF Persistable, Files, Rows
    <2> QED BY <1>5, <2>1 DEF Save, TypeOK, daemon, handles, drivers, history
  <1>6. CASE Crash
    <2>1. gen' \in 1 .. MaxGen /\ gen \in 0 .. gen'
      BY <1>6, StoreAssumption DEF Crash, TypeOK
    <2>2. of' \in [Drivers -> 0 .. gen'] /\ at' \in [Drivers -> 0 .. gen']
      BY <1>6, <2>1 DEF Crash, TypeOK
    <2> QED BY <1>6, <2>1, <2>2 DEF Crash, Fresh, TypeOK
  <1>7. CASE Boot
    <2>1. row' \in Rows \cup {None}
      <3>1. CASE file = None
        BY <1>7, <3>1 DEF Boot, TypeOK
      <3>2. CASE file # None
        <4>1. file \in Files
          BY <3>2 DEF TypeOK
        <4>2. PICK foreign \in BOOLEAN : row' = Restored(foreign)
          BY <1>7, <3>2 DEF Boot
        <4> QED BY <4>1, <4>2 DEF Restored, Files, Rows, Counts
      <3> QED BY <3>1, <3>2
    <2>2. /\ life' \in [Drivers -> {"unborn", "running", "reported", "lost"}]
          /\ flags' \in [Drivers -> BOOLEAN] /\ unread' \subseteq Drivers
      BY <1>7 DEF Boot, Exit, TypeOK
    <2>3. phase' \in {"boot", "up"}
      BY <1>7 DEF Boot
    <2> QED BY <1>7, <2>1, <2>2, <2>3 DEF Boot, TypeOK, handles, history
  <1>8. CASE PutBackInheritedRuns
    <2>1. row \in Rows /\ CarriedIn \in Nat
      BY <1>8, RowParts DEF PutBackInheritedRuns, Phases
    <2>2. CASE CanStart /\ DriveInAProcess(Started, "boot", CarriedIn)
               /\ collector' = [collector EXCEPT ![Started] = "waiting"]
               /\ UNCHANGED <<phase, row>>
      BY <1>8, <2>1, <2>2, Starting, DriveTypes
         DEF PutBackInheritedRuns, DriveInAProcess, TypeOK, history
    <2>3. CASE row' = [row EXCEPT !.not_resumed = TRUE] /\ phase' = "up"
               /\ UNCHANGED <<drivers, handles>>
      <3>1. row' \in Rows
        BY <2>1, <2>3 DEF Rows
      <3> QED BY <1>8, <2>3, <3>1 DEF PutBackInheritedRuns, TypeOK, drivers, handles, history
    <2> QED BY <1>8, <2>2, <2>3 DEF PutBackInheritedRuns
  <1> QED BY <1>1, <1>3, <1>4, <1>5, <1>6, <1>7, <1>8 DEF People, Daemon

-----------------------------------------------------------------------------
(***************************************************************************)
(* The token.  A calm step leaves the collectors, their states and what is   *)
(* on its way into the row as they are: a process may end, the row may count *)
(* and the daemon may start to stop.                                        *)
(***************************************************************************)
Calm ==
    /\ UNCHANGED <<cell, collector, pending, of, gen, asked>>
    /\ \A e \in Drivers : life'[e] = life[e]
                          \/ (life[e] = "running" /\ life'[e] \in {"reported", "lost"})
    /\ (row = None) <=> (row' = None)
    /\ row # None => Shape(row') = Shape(row)
    /\ phase' = phase \/ (phase = "up" /\ phase' = "stopping")
    /\ file' = file \/ row # None

Token == OneAtATime /\ Collected /\ InSight /\ Inherited /\ Phases

LEMMA CalmKeepsTheToken ==
    ASSUME Inv, Calm PROVE Token'
  <1> USE DEF Inv, Calm, Active, Quiet
  <1>1. row # None => /\ row'.driver = row.driver /\ row'.restored = row.restored
                      /\ row'.withheld = row.withheld
                      /\ row'.not_resumed = row.not_resumed
    BY DEF Shape
  <1>2. OneAtATime'
    BY DEF OneAtATime
  <1>3. Collected'
    BY DEF Collected
  <1>4. InSight'
    BY <1>1 DEF InSight
  <1>5. Inherited'
    BY <1>1 DEF Inherited
  <1>6. Phases'
    BY DEF Phases
  <1> QED BY <1>2, <1>3, <1>4, <1>5, <1>6 DEF Token

LEMMA CalmSteps ==
    ASSUME Inv,
           \/ \E d \in Drivers : Driver(d)
           \/ Cancel \/ StopAll \/ Save
    PROVE  Calm
  <1> USE DEF Inv, Calm, Shape
  <1>1. ASSUME NEW d \in Drivers, Connect(d) \/ Step(d) \/ ReadRow(d) PROVE Calm
    BY <1>1 DEF Connect, Step, ReadRow, handles, daemon
  <1>2. ASSUME NEW d \in Drivers, Finish(d) \/ Die(d) PROVE Calm
    BY <1>2 DEF Finish, Die, Exit, handles, daemon, TypeOK
  <1>3. ASSUME NEW d \in Drivers, Report(d) PROVE Calm
    <2>1. CASE Refused
      BY <1>3, <2>1 DEF Report, handles, daemon
    <2>2. CASE ~Refused
      <3>1. row # None /\ row' = [row EXCEPT !.reported = tally[d], !.reports = @ + 1]
        BY <1>3, <2>2 DEF Report, Refused
      <3>2. row \in Rows
        BY <3>1, RowParts
      <3>3. tally[d] \in Nat
        BY DEF TypeOK
      <3>4. row' # None /\ Shape(row') = Shape(row)
        BY <3>1, <3>2, <3>3, Counting, NoneIsNoRow
      <3> QED BY <1>3, <3>1, <3>4 DEF Report, handles, daemon
    <2> QED BY <2>1, <2>2
  <1>4. CASE Cancel
    BY <1>4 DEF Cancel, daemon
  <1>5. CASE StopAll
    BY <1>5 DEF StopAll
  <1>6. CASE Save
    BY <1>6 DEF Save, daemon, handles, drivers
  <1> QED BY <1>1, <1>2, <1>3, <1>4, <1>5, <1>6 DEF Driver

\* What a step that starts a driver may count on of the one it starts.
LEMMA TheUnborn ==
    ASSUME Inv, NEW d \in Drivers, life[d] = "unborn"
    PROVE  /\ collector[d] = "none" /\ pending[d] = "no" /\ cell[d] = "Running"
           /\ row # None => row.driver # d
  BY StoreAssumption DEF Inv, Collected, InSight, Inherited

LEMMA StartRunKeepsTheToken ==
    ASSUME Inv, StartRun PROVE Token'
  <1> DEFINE d == Started
  <1> USE DEF Inv, Active, Quiet
  <1>1. d \in Drivers /\ life[d] = "unborn"
    BY Starting DEF StartRun
  <1>2. collector[d] = "none" /\ pending[d] = "no" /\ cell[d] = "Running"
    BY <1>1, TheUnborn
  <1>3. row = None /\ row' = None /\ Quiet
    BY DEF StartRun, Phases
  <1>4. \A e \in Drivers : pending[e] = "no" /\ (life[e] = "running" => of[e] # gen)
    BY <1>3 DEF InSight, Collected
  <1>5. /\ collector' = [collector EXCEPT ![d] = "waiting"]
        /\ pending' = [pending EXCEPT ![d] = "submit"]
        /\ life' = [life EXCEPT ![d] = "running"] /\ of' = [of EXCEPT ![d] = gen]
        /\ gen' = gen /\ cell' = cell /\ phase' = phase /\ phase \in {"up", "stopping"}
        /\ asked'
    BY DEF StartRun, DriveInAProcess, Serving
  <1> HIDE DEF d
  <1>6. OneAtATime'
    BY <1>1, <1>3, <1>5 DEF OneAtATime, TypeOK
  <1>7. Collected'
    BY <1>1, <1>2, <1>3, <1>4, <1>5 DEF Collected, TypeOK
  <1>8. InSight'
    BY <1>1, <1>3, <1>4, <1>5 DEF InSight, TypeOK
  <1>9. Inherited' /\ Phases'
    BY <1>3, <1>5 DEF Inherited, Phases
  <1> QED BY <1>6, <1>7, <1>8, <1>9 DEF Token

LEMMA SubmitKeepsTheToken ==
    ASSUME Inv, NEW d \in Drivers, Submit(d) PROVE Token'
  <1> USE DEF Inv, Active, Quiet
  <1>1. row = None /\ collector[d] # "none" /\ \A e \in Drivers : e # d => collector[e] = "none"
    BY DEF Submit, InSight
  <1>2. row' # None
    <2>1. row' \in Rows
      BY StoreAssumption DEF Submit, Rows, Counts
    <2> QED BY <2>1, NoneIsNoRow
  <1>3. /\ row'.driver = d /\ d # None
        /\ pending' = [pending EXCEPT ![d] = "no"]
        /\ UNCHANGED <<gen, phase, asked, cell, collector, life, of, file>>
    BY StoreAssumption DEF Submit, daemon, drivers
  <1>4. OneAtATime' /\ Collected'
    BY <1>3 DEF OneAtATime, Collected
  <1>5. InSight'
    BY <1>1, <1>2, <1>3 DEF InSight, TypeOK
  <1>6. phase # "down" /\ phase # "boot" /\ asked
    BY <1>1 DEF Phases
  <1>7. Inherited'
    BY <1>1, <1>3, <1>6 DEF Inherited
  <1>8. Phases'
    BY <1>3, <1>6 DEF Phases
  <1> QED BY <1>4, <1>5, <1>7, <1>8 DEF Token

LEMMA PutBackKeepsTheToken ==
    ASSUME Inv, NEW d \in Drivers, PutBack(d) PROVE Token'
  <1> USE DEF Inv, Active, Quiet
  <1>1. row # None /\ row \in Rows /\ collector[d] # "none" /\ row.driver # d /\ d # None
    BY RowParts, StoreAssumption DEF PutBack, InSight
  <1>2. row' \in Rows /\ row' # None
    <2>1. [row EXCEPT !.driver = d] \in Rows /\ [row EXCEPT !.not_resumed = TRUE] \in Rows
      BY <1>1 DEF Rows
    <2>2. row' \in {row, [row EXCEPT !.driver = d], [row EXCEPT !.not_resumed = TRUE]}
      BY DEF PutBack
    <2> QED BY <1>1, <2>1, <2>2, NoneIsNoRow
  <1>3. /\ pending' = [pending EXCEPT ![d] = "no"] /\ pending[d] \in {"revival", "boot"}
        /\ phase' = IF pending[d] = "boot" THEN "up" ELSE phase
        /\ UNCHANGED <<gen, asked, cell, collector, life, of, file>>
    BY DEF PutBack, drivers
  <1>4. OneAtATime' /\ Collected'
    BY <1>3 DEF OneAtATime, Collected
  <1>5. ASSUME Status \in {"Interrupted", "Panicked"} PROVE InSight' /\ Inherited'
    <2>1. row'.driver = d /\ row'.restored = row.restored
      BY <1>1, <1>5 DEF PutBack, Rows
    <2>2. \A e \in Drivers : collector[e] = "waiting" => pending[e] # "no"
      BY <1>5, StoreAssumption DEF InSight, Collected, Status
    <2>3. InSight'
      BY <1>1, <1>2, <1>3, <2>1, <2>2 DEF InSight, TypeOK
    <2>4. Inherited'
      BY <1>1, <1>3, <2>1 DEF Inherited
    <2> QED BY <2>3, <2>4
  <1>6. ASSUME Status \notin {"Interrupted", "Panicked"} PROVE InSight' /\ Inherited'
    <2>1. row' = IF pending[d] = "boot" /\ ~row.withheld
                 THEN [row EXCEPT !.not_resumed = TRUE] ELSE row
      BY <1>6 DEF PutBack
    <2>2. /\ row'.driver = row.driver /\ row'.restored = row.restored
          /\ row'.withheld = row.withheld
          /\ row.not_resumed => row'.not_resumed
          /\ pending[d] = "boot" => row'.withheld \/ row'.not_resumed
      BY <1>1, <2>1 DEF Rows
    <2>3. collector[d] # "waiting"
      <3>1. CASE row.driver = None
        <4>1. row.restored = "Done"
          BY <1>1, <1>6, <3>1 DEF Status, Rows
        <4> QED BY <1>1, <3>1, <4>1 DEF Inherited
      <3>2. CASE row.driver # None
        <4>1. row.driver \in Drivers /\ cell[row.driver] \in {"Running", "Reported"}
          BY <1>1, <1>6, <3>2 DEF Status, Rows, TypeOK
        <4>2. CASE cell[row.driver] = "Running"
          <5>1. collector[row.driver] = "waiting"
            BY <1>1, <3>2, <4>1, <4>2 DEF Collected, Inherited
          <5> QED BY <1>1, <4>1, <5>1 DEF OneAtATime
        <4>3. CASE cell[row.driver] = "Reported"
          BY <4>1, <4>3 DEF Collected
        <4> QED BY <4>1, <4>2, <4>3
      <3> QED BY <3>1, <3>2
    <2>4. InSight'
      BY <1>1, <1>2, <1>3, <2>2, <2>3 DEF InSight, TypeOK
    <2>5. Inherited'
      BY <1>1, <1>2, <1>3, <2>2 DEF Inherited
    <2> QED BY <2>4, <2>5
  <1>7. phase # "down" /\ asked
    BY <1>1 DEF Phases
  <1>8. Phases'
    <2>1. CASE pending[d] = "boot"
      BY <1>2, <1>3, <1>7, <2>1 DEF Phases
    <2>2. CASE pending[d] # "boot"
      BY <1>2, <1>3, <1>7, <2>2 DEF Phases, TypeOK
    <2> QED BY <2>1, <2>2
  <1> QED BY <1>4, <1>5, <1>6, <1>8 DEF Token

LEMMA CollectKeepsTheToken ==
    ASSUME Inv, NEW d \in Drivers, Collect(d) PROVE Token'
  <1> USE DEF Inv, Active, Quiet
  <1>1. /\ collector[d] = "waiting" /\ life[d] \in {"reported", "lost"}
        /\ cell' = [cell EXCEPT ![d] = IF life[d] = "reported" THEN "Reported" ELSE "Panicked"]
        /\ collector' = [collector EXCEPT ![d] = IF life[d] = "reported" THEN "done" ELSE "lost"]
        /\ UNCHANGED <<gen, phase, asked, row, file, pending, life, of>>
    BY DEF Collect, daemon, drivers
  <1>2. \A e \in Drivers : e # d => ~Active(e)
    BY <1>1 DEF OneAtATime
  <1>3. OneAtATime'
    BY <1>1, <1>2 DEF OneAtATime, TypeOK
  <1>4. Collected'
    BY <1>1, <1>2 DEF Collected, TypeOK
  <1>5. InSight'
    BY <1>1 DEF InSight, TypeOK
  <1>6. Inherited' /\ Phases'
    BY <1>1 DEF Inherited, Phases, TypeOK
  <1> QED BY <1>3, <1>4, <1>5, <1>6 DEF Token

LEMMA RevivalKeepsTheToken ==
    ASSUME Inv, NEW d \in Drivers, Revival(d) PROVE Token'
  <1> USE DEF Inv, Active, Quiet
  <1>1. PICK next \in {"reviving", "done"} :
           /\ collector' = [collector EXCEPT ![d] = next]
           /\ next = "reviving" => row # None
    BY DEF Revival, Revivable
  <1>2. /\ collector[d] = "lost"
        /\ UNCHANGED <<gen, phase, asked, cell, file, pending, life, of>>
    BY DEF Revival, daemon, drivers
  <1>3. row' = row \/ (row # None /\ row' # None /\ Shape(row') = Shape(row))
    <2>1. CASE Revivable
      <3>1. row \in Rows /\ row # None
        BY <2>1, RowParts DEF Revivable
      <3>2. [row EXCEPT !.revived_at = row.reports] \in Rows
        BY <3>1 DEF Rows, Counts
      <3>3. Shape([row EXCEPT !.revived_at = row.reports]) = Shape(row)
        BY <3>1 DEF Shape, Rows
      <3> QED BY <2>1, <3>1, <3>2, <3>3, NoneIsNoRow DEF Revival
    <2>2. CASE ~Revivable
      BY <2>2 DEF Revival
    <2> QED BY <2>1, <2>2
  <1>4. /\ (row = None) <=> (row' = None)
        /\ row # None => /\ row'.driver = row.driver /\ row'.restored = row.restored
                         /\ row'.withheld = row.withheld
                         /\ row'.not_resumed = row.not_resumed
    BY <1>3 DEF Shape
  <1>5. OneAtATime'
    BY <1>1, <1>2 DEF OneAtATime, TypeOK
  <1>6. Collected'
    BY <1>1, <1>2 DEF Collected, TypeOK
  <1>7. InSight'
    BY <1>1, <1>2, <1>4 DEF InSight, TypeOK
  <1>8. Inherited'
    BY <1>1, <1>2, <1>4 DEF Inherited, TypeOK
  <1>9. Phases'
    BY <1>1, <1>2, <1>4 DEF Phases, TypeOK
  <1> QED BY <1>5, <1>6, <1>7, <1>8, <1>9 DEF Token

LEMMA PutBackALostDriverKeepsTheToken ==
    ASSUME Inv, NEW d \in Drivers, PutBackALostDriver(d) PROVE Token'
  <1> USE DEF Inv, Active, Quiet
  <1>1. /\ collector[d] = "reviving" /\ row # None
        /\ UNCHANGED <<gen, phase, asked, row, file>>
    BY DEF PutBackALostDriver, InSight, daemon
  <1>2. /\ \A e \in Drivers : e # d => ~Active(e)
        /\ cell[d] = "Panicked" /\ life[d] # "unborn" /\ of[d] = gen
    BY <1>1 DEF OneAtATime, Collected
  <1>3. ASSUME collector' = [collector EXCEPT ![d] = "done"],
               UNCHANGED <<drivers, cell, orders, pending>>
        PROVE  Token'
    <2>1. OneAtATime'
      BY <1>2, <1>3 DEF OneAtATime, TypeOK
    <2>2. Collected'
      BY <1>1, <1>2, <1>3 DEF Collected, TypeOK, drivers
    <2>3. InSight'
      BY <1>1, <1>3 DEF InSight, TypeOK
    <2>4. Inherited' /\ Phases'
      BY <1>1, <1>3 DEF Inherited, Phases, TypeOK
    <2> QED BY <2>1, <2>2, <2>3, <2>4 DEF Token
  <1>4. ASSUME NEW s \in Drivers, life[s] = "unborn", NEW count,
               DriveInAProcess(s, "revival", count),
               collector' = [collector EXCEPT ![d] = "done", ![s] = "waiting"]
        PROVE  Token'
    <2>1. s # d /\ collector[s] = "none" /\ pending[s] = "no" /\ cell[s] = "Running"
          /\ row.driver # s
      BY <1>1, <1>2, <1>4, TheUnborn
    <2>2. /\ pending' = [pending EXCEPT ![s] = "revival"]
          /\ life' = [life EXCEPT ![s] = "running"] /\ of' = [of EXCEPT ![s] = gen]
          /\ cell' = cell
      BY <1>4 DEF DriveInAProcess
    <2>3. OneAtATime'
      BY <1>2, <1>4 DEF OneAtATime, TypeOK
    <2>4. Collected'
      BY <1>1, <1>2, <1>4, <2>1, <2>2 DEF Collected, TypeOK
    <2>5. InSight'
      BY <1>1, <1>4, <2>1, <2>2 DEF InSight, TypeOK
    <2>6. Inherited'
      <3>1. row.driver \in Drivers \cup {None}
        BY <1>1, RowParts DEF Rows
      <3>2. \A e \in Drivers : collector[e] # "none" => collector'[e] # "none"
        BY <1>4 DEF TypeOK
      <3> QED BY <1>1, <2>1, <3>1, <3>2 DEF Inherited
    <2>7. phase = "boot" => \E e \in Drivers : pending[e] = "boot" /\ pending'[e] = "boot"
      BY <1>1, <2>1, <2>2 DEF Phases, TypeOK
    <2>8. Phases'
      BY <1>1, <2>7 DEF Phases
    <2> QED BY <2>3, <2>4, <2>5, <2>6, <2>8 DEF Token
  <1> QED BY <1>3, <1>4, Starting DEF PutBackALostDriver

LEMMA CrashKeepsTheToken ==
    ASSUME Inv, Crash PROVE Token'
  <1> USE DEF Inv, Active, Quiet
  <1>1. /\ phase' = "down" /\ gen' = gen + 1 /\ row' = None /\ asked' = asked /\ file' = file
        /\ \A d \in Drivers : collector'[d] = "none" /\ pending'[d] = "no"
                              /\ cell'[d] = "Running"
        /\ UNCHANGED <<life, of>>
    BY DEF Crash, Fresh
  <1>2. \A d \in Drivers : of'[d] # gen'
    BY <1>1 DEF TypeOK
  <1>3. OneAtATime' /\ Collected' /\ InSight'
    BY <1>1, <1>2 DEF OneAtATime, Collected, InSight
  <1>4. Inherited' /\ Phases'
    BY <1>1 DEF Inherited, Phases
  <1> QED BY <1>3, <1>4 DEF Token

LEMMA BootKeepsTheToken ==
    ASSUME Inv, Boot PROVE Token'
  <1> USE DEF Inv, Active, Quiet
  <1>1. /\ Quiet /\ row = None
        /\ UNCHANGED <<gen, asked, file, cell, collector, pending, of>>
        /\ \A e \in Drivers : life'[e] = "running" => life[e] = "running"
    BY DEF Boot, Phases, handles, Exit, TypeOK
  <1>2. OneAtATime'
    BY <1>1 DEF OneAtATime
  <1>3. Collected'
    BY <1>1 DEF Collected
  <1>4. InSight'
    BY <1>1 DEF InSight
  <1>5. CASE file = None
    <2>1. row' = None /\ phase' = "up"
      BY <1>1, <1>5 DEF Boot
    <2>2. Inherited' /\ Phases'
      BY <1>1, <2>1 DEF Inherited, Phases
    <2> QED BY <1>2, <1>3, <1>4, <2>2 DEF Token
  <1>6. CASE file # None
    <2>1. PICK foreign \in BOOLEAN : row' = Restored(foreign)
      BY <1>6 DEF Boot
    <2>2. row' \in Rows /\ row'.driver = None
      BY <1>6, <2>1 DEF TypeOK, Restored, Files, Rows, Counts
    <2>3. phase' = IF row'.restored = "Done" \/ row'.withheld THEN "up" ELSE "boot"
      BY <1>6 DEF Boot
    <2>4. Inherited'
      BY <1>1, <2>2, <2>3 DEF Inherited, Rows
    <2>5. asked /\ row' # None
      BY <1>6, <2>2, NoneIsNoRow DEF Phases
    <2>6. Phases'
      BY <1>1, <2>3, <2>5 DEF Phases
    <2> QED BY <1>2, <1>3, <1>4, <2>4, <2>6 DEF Token
  <1> QED BY <1>5, <1>6

LEMMA PutBackInheritedKeepsTheToken ==
    ASSUME Inv, PutBackInheritedRuns PROVE Token'
  <1> USE DEF Inv, Active, Quiet
  <1>1. /\ phase = "boot" /\ Quiet /\ row # None /\ row \in Rows /\ asked
        /\ UNCHANGED <<gen, asked, file>>
    BY RowParts DEF PutBackInheritedRuns, Phases
  <1>2. row.driver = None
    BY <1>1 DEF Inherited, Rows
  <1>3. \A e \in Drivers : pending[e] = "no" /\ (life[e] = "running" => of[e] # gen)
    BY <1>1 DEF InSight, Collected
  <1>4. ASSUME row' = [row EXCEPT !.not_resumed = TRUE], phase' = "up",
               UNCHANGED <<drivers, handles>>
        PROVE  Token'
    <2>1. /\ row' \in Rows /\ row'.driver = None /\ row'.restored = row.restored
          /\ row'.not_resumed
      BY <1>1, <1>2, <1>4 DEF Rows
    <2>2. OneAtATime' /\ Collected'
      BY <1>1, <1>4 DEF OneAtATime, Collected, drivers, handles
    <2>3. InSight'
      BY <1>1, <1>3, <1>4 DEF InSight, handles
    <2>4. Inherited' /\ Phases'
      BY <1>1, <1>4, <2>1, NoneIsNoRow DEF Inherited, Phases, handles
    <2> QED BY <2>2, <2>3, <2>4 DEF Token
  <1>5. ASSUME NEW s \in Drivers, life[s] = "unborn", NEW count,
               DriveInAProcess(s, "boot", count),
               collector' = [collector EXCEPT ![s] = "waiting"],
               UNCHANGED <<phase, row>>
        PROVE  Token'
    <2>1. collector[s] = "none" /\ pending[s] = "no" /\ cell[s] = "Running"
      BY <1>5, TheUnborn
    <2>2. /\ pending' = [pending EXCEPT ![s] = "boot"]
          /\ life' = [life EXCEPT ![s] = "running"] /\ of' = [of EXCEPT ![s] = gen]
          /\ cell' = cell
      BY <1>5 DEF DriveInAProcess
    <2>3. OneAtATime'
      BY <1>1, <1>5 DEF OneAtATime, TypeOK
    <2>4. Collected'
      BY <1>1, <1>3, <1>5, <2>1, <2>2 DEF Collected, TypeOK
    <2>5. InSight'
      BY <1>1, <1>2, <1>3, <1>5, <2>1, <2>2, StoreAssumption DEF InSight, TypeOK
    <2>6. Inherited'
      BY <1>1, <1>2, <1>5 DEF Inherited
    <2>7. Phases'
      BY <1>1, <1>5, <2>2 DEF Phases, TypeOK
    <2> QED BY <2>3, <2>4, <2>5, <2>6, <2>7 DEF Token
  <1> QED BY <1>1, <1>4, <1>5, Starting DEF PutBackInheritedRuns

-----------------------------------------------------------------------------
(***************************************************************************)
(* Revivals are counted against reports.                                    *)
(***************************************************************************)
Earned ==
    /\ row = None => revivals = 0
    /\ row # None => /\ row.revived_at = None => revivals = 0
                     /\ row.revived_at # None =>
                           /\ row.revived_at <= row.reports
                           /\ revivals <= row.revived_at + 1

LEMMA StepsKeepEarned ==
    ASSUME Inv, Earned, Next PROVE Earned'
  <1> USE DEF Earned, Inv
  <1>1. ASSUME row' = row, revivals' = revivals PROVE Earned'
    BY <1>1
  <1>2. ASSUME NEW d \in Drivers, Submit(d) PROVE Earned'
    <2>1. row = None /\ revivals' = revivals /\ row'.revived_at = None
      BY <1>2 DEF Submit, InSight, history
    <2> QED BY <2>1 DEF TypeOK
  <1>3. ASSUME NEW d \in Drivers, PutBack(d) PROVE Earned'
    <2>1. row # None /\ row \in Rows /\ revivals' = revivals
      BY <1>3, RowParts DEF PutBack, InSight, history
    <2>2. row' \in {row, [row EXCEPT !.driver = d], [row EXCEPT !.not_resumed = TRUE]}
      BY <1>3 DEF PutBack
    <2>3. row'.revived_at = row.revived_at /\ row'.reports = row.reports
      BY <2>1, <2>2 DEF Rows
    <2>4. row' # None
      <3>1. [row EXCEPT !.driver = d] \in Rows /\ [row EXCEPT !.not_resumed = TRUE] \in Rows
        BY <2>1 DEF Rows
      <3> QED BY <2>1, <2>2, <3>1, NoneIsNoRow
    <2> QED BY <2>1, <2>3, <2>4
  <1>4. ASSUME NEW d \in Drivers, Revival(d) PROVE Earned'
    <2>1. CASE Revivable
      <3>1. row # None /\ row \in Rows
        BY <2>1, RowParts DEF Revivable
      <3>2. row' = [row EXCEPT !.revived_at = row.reports] /\ revivals' = revivals + 1
        BY <1>4, <2>1 DEF Revival
      <3>3. row'.revived_at = row.reports /\ row'.reports = row.reports /\ row.reports \in Nat
        BY <3>1, <3>2 DEF Rows
      <3>4. row' \in Rows /\ row' # None
        BY <3>1, <3>2, NoneIsNoRow DEF Rows, Counts
      <3>5. revivals <= row.reports
        <4>1. CASE row.revived_at = None
          BY <3>1, <3>3, <4>1
        <4>2. CASE row.revived_at # None
          <5>1. row.revived_at \in Nat /\ row.reports > row.revived_at
            BY <2>1, <3>1, <4>2 DEF Revivable, Rows, Counts
          <5> QED BY <3>1, <3>3, <4>2, <5>1 DEF TypeOK
        <4> QED BY <4>1, <4>2
      <3>6. row'.revived_at # None /\ revivals \in Nat
        BY <3>3, StoreAssumption DEF TypeOK
      <3> QED BY <3>2, <3>3, <3>4, <3>5, <3>6
    <2>2. CASE ~Revivable
      BY <1>1, <1>4, <2>2 DEF Revival
    <2> QED BY <2>1, <2>2
  <1>5. ASSUME NEW d \in Drivers, Report(d) PROVE Earned'
    <2>1. CASE Refused
      BY <1>1, <1>5, <2>1 DEF Report, history
    <2>2. CASE ~Refused
      <3>1. row # None /\ revivals' = revivals
            /\ row' = [row EXCEPT !.reported = tally[d], !.reports = @ + 1]
        BY <1>5, <2>2 DEF Report, Refused, history
      <3>2. row \in Rows /\ tally[d] \in Nat
        <4>1. row \in Rows
          BY <3>1, RowParts
        <4>2. tally[d] \in Nat
          BY DEF TypeOK
        <4> QED BY <4>1, <4>2
      <3>3. row' # None
        BY <3>1, <3>2, Counting, NoneIsNoRow
      <3>4. row'.revived_at = row.revived_at /\ row'.reports = row.reports + 1
        BY <3>1, <3>2 DEF Rows
      <3>5. row.reports \in Nat /\ row.revived_at \in Nat \cup {None}
        BY <3>2 DEF Rows, Counts
      <3> QED BY <3>1, <3>3, <3>4, <3>5 DEF TypeOK
    <2> QED BY <2>1, <2>2
  <1>6. CASE Crash
    BY <1>6 DEF Crash
  <1>7. CASE Boot
    <2>1. row = None /\ revivals' = 0
      BY <1>7 DEF Boot, Phases, history
    <2>2. row' = None \/ row'.revived_at = None
      BY <1>7 DEF Boot, Restored, Phases
    <2> QED BY <2>1, <2>2
  <1>8. CASE PutBackInheritedRuns
    <2>1. row # None /\ row \in Rows /\ revivals' = revivals
      BY <1>8, RowParts DEF PutBackInheritedRuns, Phases, history
    <2>2. row' \in {row, [row EXCEPT !.not_resumed = TRUE]}
      BY <1>8 DEF PutBackInheritedRuns
    <2>3. row'.revived_at = row.revived_at /\ row'.reports = row.reports
      BY <2>1, <2>2 DEF Rows
    <2>4. row' # None
      <3>1. row' \in Rows
        BY <2>1, <2>2 DEF Rows
      <3> QED BY <3>1, NoneIsNoRow
    <2> QED BY <2>1, <2>3, <2>4
  <1>9. ASSUME NEW d \in Drivers,
               Collect(d) \/ PutBackALostDriver(d) \/ Connect(d) \/ Step(d) \/ ReadRow(d)
               \/ Finish(d) \/ Die(d)
        PROVE  Earned'
    BY <1>1, <1>9 DEF Collect, PutBackALostDriver, Connect, Step, ReadRow, Finish, Die, history
  <1>10. CASE StartRun \/ Cancel \/ StopAll \/ Save
    BY <1>1, <1>10 DEF StartRun, Cancel, StopAll, Save, history
  <1> QED BY <1>2, <1>3, <1>4, <1>5, <1>6, <1>7, <1>8, <1>9, <1>10
             DEF Next, Directory, Driver, People, Daemon

-----------------------------------------------------------------------------
(***************************************************************************)
(* The theorems.                                                           *)
(***************************************************************************)
LEMMA Starts == Init => Inv /\ Earned
  <1> SUFFICES ASSUME Init PROVE Inv /\ Earned
    OBVIOUS
  <1>1. TypeOK
    <2>1. gen \in 1 .. MaxGen /\ deaths \in 0 .. MaxDeaths /\ revivals \in Nat
      BY StoreAssumption DEF Init
    <2>2. /\ of \in [Drivers -> 0 .. gen] /\ at \in [Drivers -> 0 .. gen]
          /\ tally \in [Drivers -> Nat]
      BY DEF Init
    <2> QED BY <2>1, <2>2 DEF Init, Fresh, TypeOK
  <1>2. OneAtATime /\ Collected /\ InSight
    BY DEF Init, Fresh, OneAtATime, Collected, InSight, Active
  <1>3. Inherited /\ Phases /\ Earned
    BY DEF Init, Fresh, Inherited, Phases, Earned, Quiet
  <1> QED BY <1>1, <1>2, <1>3 DEF Inv

LEMMA Stutters ==
    ASSUME Inv, Earned, UNCHANGED vars PROVE Inv' /\ Earned'
  <1> USE DEF vars, daemon, handles, drivers, history
  <1>1. TypeOK'
    BY DEF Inv, TypeOK
  <1>2. OneAtATime' /\ Collected' /\ InSight'
    BY DEF Inv, OneAtATime, Collected, InSight, Active
  <1>3. Inherited' /\ Phases' /\ Earned'
    BY DEF Inv, Inherited, Phases, Earned, Quiet
  <1> QED BY <1>1, <1>2, <1>3 DEF Inv

LEMMA Steps ==
    ASSUME Inv, Earned, [Next]_vars PROVE Inv' /\ Earned'
  <1>1. ASSUME NEW d \in Drivers, Directory(d) PROVE Inv'
    <2>1. Token'
      BY <1>1, SubmitKeepsTheToken, PutBackKeepsTheToken, CollectKeepsTheToken,
         RevivalKeepsTheToken, PutBackALostDriverKeepsTheToken DEF Directory
    <2> QED BY <1>1, <2>1, DirectoryTypes DEF Token, Inv
  <1>2. ASSUME NEW d \in Drivers, Driver(d) PROVE Inv'
    <2>1. Token'
      BY <1>2, CalmSteps, CalmKeepsTheToken
    <2> QED BY <1>2, <2>1, DriverTypes DEF Token, Inv
  <1>3. ASSUME People \/ Daemon PROVE Inv'
    <2>1. Token'
      <3>1. Cancel \/ StopAll \/ Save => Token'
        BY CalmSteps, CalmKeepsTheToken
      <3>2. StartRun \/ Crash => Token'
        BY StartRunKeepsTheToken, CrashKeepsTheToken
      <3>3. Boot \/ PutBackInheritedRuns => Token'
        BY BootKeepsTheToken, PutBackInheritedKeepsTheToken
      <3> QED BY <1>3, <3>1, <3>2, <3>3 DEF People, Daemon
    <2> QED BY <1>3, <2>1, OthersTypes DEF Token, Inv
  <1>4. Next => Inv'
    BY <1>1, <1>2, <1>3 DEF Next
  <1> QED BY <1>4, StepsKeepEarned, Stutters

LEMMA Invariant == Spec => [](Inv /\ Earned)
  BY Starts, Steps, PTL DEF Spec

\* The type invariant: what the directory, the handles and the processes hold.
THEOREM TypeCorrect == Spec => []TypeOK
  BY Invariant, PTL DEF Inv

\* One daemon drives a run with one process at a time, whoever of a person, a
\* revival or a boot starts it, and its row shows that process or is about to.
THEOREM OneProcessAtATime == Spec => []OneOfOurs
  <1>1. Inv => OneOfOurs
    BY DEF Inv, OneOfOurs, Ours, OneAtATime, Collected, InSight, Active
  <1> QED BY <1>1, Invariant, PTL

\* A row that says how the run ended speaks for a run with no process of this
\* daemon left: an outcome is never told while a replacement is on its way.
THEOREM AnEndIsTheEnd == Spec => []EndedIsOver
  <1>1. Inv => EndedIsOver
    <2> SUFFICES ASSUME Inv, row # None, Status \in {"Done", "Reported"} PROVE Ours = {}
      BY DEF EndedIsOver
    <2>1. row \in Rows
      BY RowParts DEF Inv
    <2>2. CASE row.driver = None
      <3>1. Quiet
        BY <2>1, <2>2 DEF Inv, Inherited, Status, Rows
      <3> QED BY <3>1 DEF Inv, Collected, Quiet, Ours
    <2>3. CASE row.driver # None
      <3>1. row.driver \in Drivers /\ cell[row.driver] = "Reported"
        BY <2>1, <2>3 DEF Inv, TypeOK, Status, Rows
      <3> QED BY <3>1 DEF Inv, Collected, Active, Ours
    <2> QED BY <2>2, <2>3
  <1> QED BY <1>1, Invariant, PTL

\* When a daemon serves, a run it inherited as interrupted and does not drive
\* says why: its place was withheld, or putting it back was refused.
THEOREM InterruptionsAreExplained == Spec => []InterruptedIsExplained
  <1>1. Inv => InterruptedIsExplained
    <2> SUFFICES ASSUME Inv, Serving, row # None, Status = "Interrupted"
                 PROVE  row.withheld \/ row.not_resumed
      BY DEF InterruptedIsExplained
    <2>1. row.driver = None /\ row.restored = "Interrupted"
      <3>1. row \in Rows
        BY RowParts DEF Inv
      <3> QED BY <3>1 DEF Inv, Status, Rows, TypeOK
    <2>2. phase # "boot"
      BY DEF Serving
    <2> QED BY <2>1, <2>2 DEF Inv, Inherited
  <1> QED BY <1>1, Invariant, PTL

\* A run is revived once, and then at most once for every report its drivers made.
THEOREM RevivalsAreBounded == Spec => []RevivalsAreEarned
  <1>1. Inv /\ Earned => RevivalsAreEarned
    <2> SUFFICES ASSUME Inv, Earned, row # None PROVE revivals <= row.reports + 1
      BY DEF RevivalsAreEarned
    <2>1. row.reports \in Nat /\ row.revived_at \in Nat \cup {None} /\ revivals \in Nat
      BY RowParts DEF Inv, TypeOK, Rows, Counts
    <2> QED BY <2>1 DEF Earned
  <1> QED BY <1>1, Invariant, PTL
=============================================================================

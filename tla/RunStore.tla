------------------------------- MODULE RunStore -------------------------------
(***************************************************************************)
(* The row of one run: sprag-host/src/runs.rs, plugins.rs, durability.rs,   *)
(* drive.rs and the boot of bin/sprag-term.rs.                              *)
(*                                                                         *)
(* A run is driven by a process of its own.  The daemon keeps a row for it, *)
(* a thread that collects its driver, and what people ordered; the driver   *)
(* reports each step, and reads its orders off the row whenever the journal *)
(* tells of something.  A driver that dies without an outcome is replaced   *)
(* where its last report left the run.  A daemon that dies leaves the row   *)
(* its saver last filed, and its drivers; the next one kills the driver the *)
(* file names and puts the run back.                                        *)
(***************************************************************************)
EXTENDS Integers

CONSTANTS
    Drivers,    \* bound: the processes that can be started; when none is left, starting one fails
    MaxTally,   \* bound: the steps a run counts
    MaxDeaths,  \* bound: how many drivers die
    MaxGen,     \* bound: how many daemons there are, one after the other
    None

ASSUME StoreAssumption ==
    /\ None \notin Drivers
    /\ MaxTally \in Nat /\ MaxDeaths \in Nat /\ MaxGen \in Nat \ {0}
    /\ None \notin Nat \cup {"Person", "Shutdown"}

VARIABLES
    gen,        \* which daemon it is
    phase,      \* "boot" while it puts the inherited run back, "up", "stopping", "down"
    asked,      \* somebody started the run
    row,        \* the run's record, None while there is none
    file,       \* what the saver filed of it, None before
    cell,       \* the state a driver's collector writes, and the row shows
    orders,     \* who cancelled the handle of a driver
    collector,  \* what the thread that collects a driver is about to do
    pending,    \* a driver that was started and whose row is still to be written
    life,       \* a driver's process
    of,         \* the daemon that started it
    at,         \* the daemon it is connected to, 0 before
    flags,      \* the cancel flag it steers by
    unread,     \* drivers with a notification to read
    tally,      \* the steps it has counted
    sent,       \* drivers whose report is on its way; they wait for the answer
    deaths,
    revivals    \* history: how often this daemon replaced the driver

daemon == <<gen, phase, asked>>
handles == <<cell, orders, collector, pending>>
drivers == <<life, of, at, flags, unread, tally, sent>>
history == <<deaths, revivals>>
vars == <<daemon, row, file, handles, drivers, history>>

Fresh == [state |-> [d \in Drivers |-> "Running"],
          orders |-> [d \in Drivers |-> None],
          collector |-> [d \in Drivers |-> "none"],
          pending |-> [d \in Drivers |-> "no"]]

Init ==
    /\ gen = 1 /\ phase = "up" /\ asked = FALSE
    /\ row = None /\ file = None
    /\ cell = Fresh.state /\ orders = Fresh.orders
    /\ collector = Fresh.collector /\ pending = Fresh.pending
    /\ life = [d \in Drivers |-> "unborn"]
    /\ of = [d \in Drivers |-> 0] /\ at = [d \in Drivers |-> 0]
    /\ flags = [d \in Drivers |-> FALSE]
    /\ unread = {} /\ sent = {}
    /\ tally = [d \in Drivers |-> 0]
    /\ deaths = 0 /\ revivals = 0

Serving == phase \in {"up", "stopping"}
Connected(d) == life[d] = "running" /\ at[d] = gen

\* What the row says of the run, of its cancelling, and of its count.
Status == IF row.driver = None THEN row.restored ELSE cell[row.driver]
CancelledBy == IF row.driver = None THEN row.cancelled ELSE orders[row.driver]
TallyOf == IF row.reported # None THEN row.reported ELSE row.progress
CarriedIn == IF row.progress = None THEN 0 ELSE row.progress

(***************************************************************************)
(* Starting a driver, and writing it into the directory.                    *)
(***************************************************************************)
CanStart == \E d \in Drivers : life[d] = "unborn"
Started == CHOOSE d \in Drivers : life[d] = "unborn"

\* drive_in_a_process: the process and its collector, under orders nobody gave.
DriveInAProcess(d, why, count) ==
    /\ life' = [life EXCEPT ![d] = "running"]
    /\ of' = [of EXCEPT ![d] = gen]
    /\ tally' = [tally EXCEPT ![d] = count]
    /\ pending' = [pending EXCEPT ![d] = why]
    /\ UNCHANGED <<at, flags, unread, sent, cell, orders>>

StartRun ==
    /\ Serving /\ ~asked
    /\ asked' = TRUE
    /\ CanStart
    /\ DriveInAProcess(Started, "submit", 0)
    /\ collector' = [collector EXCEPT ![Started] = "waiting"]
    /\ UNCHANGED <<gen, phase, row, file, history>>

Submit(d) ==
    /\ pending[d] = "submit"
    /\ pending' = [pending EXCEPT ![d] = "no"]
    /\ row' = [driver |-> d, restored |-> "Interrupted", left |-> None, cancelled |-> None,
               progress |-> None, reported |-> None, reports |-> 0, revived_at |-> None,
               withheld |-> FALSE, not_resumed |-> FALSE]
    /\ UNCHANGED <<daemon, file, cell, orders, collector, drivers, history>>

\* Mutant of PutBack: the row takes whoever comes.
PutBackOver(d) ==
    /\ pending[d] \in {"revival", "boot"}
    /\ pending' = [pending EXCEPT ![d] = "no"]
    /\ row' = [row EXCEPT !.driver = d]
    /\ phase' = IF pending[d] = "boot" THEN "up" ELSE phase
    /\ UNCHANGED <<gen, asked, file, cell, orders, collector, drivers, history>>

\* Only a run nothing drives is put back; a driver that came too late is told
\* to stop, on a handle no row shows.
PutBack(d) ==
    /\ pending[d] \in {"revival", "boot"}
    /\ pending' = [pending EXCEPT ![d] = "no"]
    /\ IF Status \in {"Interrupted", "Panicked"}
       THEN row' = [row EXCEPT !.driver = d] /\ UNCHANGED orders
       ELSE /\ row' = IF pending[d] = "boot" /\ ~row.withheld
                      THEN [row EXCEPT !.not_resumed = TRUE] ELSE row
            /\ orders' = [orders EXCEPT ![d] = "Shutdown"]
    /\ phase' = IF pending[d] = "boot" THEN "up" ELSE phase
    /\ UNCHANGED <<gen, asked, file, cell, collector, drivers, history>>

(***************************************************************************)
(* The thread that collects a driver.                                      *)
(***************************************************************************)
\* Mutants of Collect: every driver is replaced; one that died is not noticed.
CollectAsLost(d) ==
    /\ collector[d] = "waiting"
    /\ life[d] \in {"reported", "lost"}
    /\ cell' = [cell EXCEPT ![d] = IF life[d] = "reported" THEN "Reported" ELSE "Panicked"]
    /\ collector' = [collector EXCEPT ![d] = "lost"]
    /\ UNCHANGED <<daemon, row, file, orders, pending, drivers, history>>

CollectReported(d) ==
    /\ collector[d] = "waiting"
    /\ life[d] = "reported"
    /\ cell' = [cell EXCEPT ![d] = "Reported"]
    /\ collector' = [collector EXCEPT ![d] = "done"]
    /\ UNCHANGED <<daemon, row, file, orders, pending, drivers, history>>

Collect(d) ==
    /\ collector[d] = "waiting"
    /\ life[d] \in {"reported", "lost"}
    /\ cell' = [cell EXCEPT ![d] = IF life[d] = "reported" THEN "Reported" ELSE "Panicked"]
    /\ collector' = [collector EXCEPT ![d] = IF life[d] = "reported" THEN "done" ELSE "lost"]
    /\ UNCHANGED <<daemon, row, file, orders, pending, drivers, history>>

\* Mutant of Revivable: whenever there is a place.
RevivableAlways == row # None /\ TallyOf # None

\* A run is put back where its driver said it was, once for every time some
\* driver said anything.
Revivable ==
    /\ row # None
    /\ row.revived_at = None \/ row.reports > row.revived_at
    /\ TallyOf # None

Revival(d) ==
    /\ collector[d] = "lost"
    /\ IF Revivable
       THEN /\ row' = [row EXCEPT !.revived_at = row.reports]
            /\ collector' = [collector EXCEPT ![d] = "reviving"]
            /\ revivals' = revivals + 1
       ELSE /\ collector' = [collector EXCEPT ![d] = "done"]
            /\ UNCHANGED <<row, revivals>>
    /\ UNCHANGED <<daemon, file, cell, orders, pending, drivers, deaths>>

\* put_back up to the driver it starts, or its refusal.
PutBackALostDriver(d) ==
    /\ collector[d] = "reviving"
    /\ \/ /\ CanStart
          /\ DriveInAProcess(Started, "revival", CarriedIn)
          /\ collector' = [collector EXCEPT ![d] = "done", ![Started] = "waiting"]
       \/ /\ collector' = [collector EXCEPT ![d] = "done"]
          /\ UNCHANGED <<drivers, cell, orders, pending>>
    /\ UNCHANGED <<daemon, row, file, history>>

(***************************************************************************)
(* The driver.                                                             *)
(***************************************************************************)
Connect(d) ==
    /\ life[d] = "running" /\ at[d] = 0 /\ Serving
    /\ at' = [at EXCEPT ![d] = gen]
    /\ unread' = unread \cup {d}
    /\ UNCHANGED <<daemon, row, file, handles, life, of, flags, tally, sent, history>>

Step(d) ==
    /\ Connected(d) /\ d \notin sent
    /\ tally[d] < MaxTally
    /\ tally' = [tally EXCEPT ![d] = @ + 1]
    /\ sent' = sent \cup {d}
    /\ UNCHANGED <<daemon, row, file, handles, life, of, at, flags, unread, history>>

\* The row is read whole, whatever the notification was about.
ReadRow(d) ==
    /\ Connected(d) /\ Serving
    /\ unread' = unread \ {d}
    /\ flags' = IF row = None THEN flags
                ELSE [flags EXCEPT ![d] = @ \/ CancelledBy # None]
    /\ UNCHANGED <<daemon, row, file, handles, life, of, at, tally, sent, history>>

\* A process ends, and what it knew is gone.
Exit(d, how) ==
    /\ life' = [life EXCEPT ![d] = how]
    /\ flags' = [flags EXCEPT ![d] = FALSE]
    /\ unread' = unread \ {d}

\* An outcome is reported: the run ended, or was told to.
Finish(d) ==
    /\ life[d] = "running" /\ at[d] # 0 /\ d \notin sent
    /\ Exit(d, "reported")
    /\ UNCHANGED <<daemon, row, file, handles, of, at, tally, sent, history>>

Obey(d) == (flags[d] \/ at[d] \notin {0, gen}) /\ Finish(d)

Die(d) ==
    /\ life[d] = "running"
    /\ deaths < MaxDeaths
    /\ Exit(d, "lost")
    /\ deaths' = deaths + 1
    /\ UNCHANGED <<daemon, row, file, handles, of, at, tally, sent, revivals>>

(***************************************************************************)
(* Requests.                                                               *)
(***************************************************************************)
Refused ==
    \/ row = None
    \/ Status \in {"Done", "Reported"}
    \/ Status = "Interrupted" /\ (row.withheld \/ row.not_resumed)

\* A refusal tells the driver that its run is over.
Report(d) ==
    /\ d \in sent /\ at[d] = gen /\ Serving
    /\ sent' = sent \ {d}
    /\ IF Refused
       THEN /\ flags' = [flags EXCEPT ![d] = @ \/ life[d] = "running"]
            /\ UNCHANGED row
       ELSE /\ row' = [row EXCEPT !.reported = tally[d], !.reports = @ + 1]
            /\ UNCHANGED flags
    /\ UNCHANGED <<daemon, file, handles, life, of, at, unread, tally, history>>

\* Mutant of Deliver: nobody is told.
DeliverQuietly(who) ==
    IF row.driver = None THEN UNCHANGED <<orders, unread>>
    ELSE /\ orders' = [orders EXCEPT ![row.driver] = IF @ = None THEN who ELSE @]
         /\ UNCHANGED unread

\* A cancel is written to the handle of the row, the first who asked for it
\* kept, and announced.  A run nothing drives has nobody to tell.
Deliver(who) ==
    IF row.driver = None THEN UNCHANGED <<orders, unread>>
    ELSE /\ orders' = [orders EXCEPT ![row.driver] = IF @ = None THEN who ELSE @]
         /\ unread' = unread \cup {d \in Drivers : Connected(d)}

Cancel ==
    /\ Serving /\ row # None
    /\ Deliver("Person")
    /\ UNCHANGED <<daemon, row, file, cell, collector, pending, life, of, at, flags, tally,
                   sent, history>>

(***************************************************************************)
(* The daemon.                                                             *)
(***************************************************************************)
\* A signal cancels every run; what is waited for after it is bounded.
StopAll ==
    /\ phase = "up"
    /\ phase' = "stopping"
    /\ IF row = None THEN UNCHANGED <<orders, unread>> ELSE Deliver("Shutdown")
    /\ UNCHANGED <<gen, asked, row, file, cell, collector, pending, life, of, at, flags, tally,
                   sent, history>>

Persistable ==
    [finished |-> Status \in {"Done", "Reported", "Panicked"},
     tally |-> TallyOf,
     cancelled |-> CancelledBy,
     driver |-> IF row.driver = None THEN row.left ELSE row.driver]

Save ==
    /\ phase # "down" /\ row # None
    /\ file' = Persistable
    /\ UNCHANGED <<daemon, row, handles, drivers, history>>

Crash ==
    /\ phase # "down" /\ gen < MaxGen
    /\ phase' = "down" /\ gen' = gen + 1
    /\ row' = None
    /\ cell' = Fresh.state /\ orders' = Fresh.orders
    /\ collector' = Fresh.collector /\ pending' = Fresh.pending
    /\ unread' = {} /\ sent' = {} /\ revivals' = 0
    /\ UNCHANGED <<asked, file, life, of, at, flags, tally, deaths>>

\* A run whose place is not in the file, or is not spelled in this build's
\* statecharts, is left where it is.
Restored(foreign) ==
    [driver |-> None, restored |-> IF file.finished THEN "Done" ELSE "Interrupted",
     left |-> file.driver, cancelled |-> file.cancelled,
     progress |-> IF foreign THEN None ELSE file.tally, reported |-> None,
     reports |-> 0, revived_at |-> None,
     withheld |-> ~file.finished /\ (foreign \/ file.tally = None), not_resumed |-> FALSE]

\* The log is read back, and the driver it names is killed.
Boot ==
    /\ phase = "down"
    /\ IF file = None
       THEN phase' = "up" /\ UNCHANGED <<row, life, flags, unread>>
       ELSE /\ \E foreign \in BOOLEAN : row' = Restored(foreign)
            /\ phase' = IF row'.restored = "Done" \/ row'.withheld THEN "up" ELSE "boot"
            /\ IF ~file.finished /\ file.driver # None /\ life[file.driver] = "running"
               THEN Exit(file.driver, "lost")
               ELSE UNCHANGED <<life, flags, unread>>
    /\ UNCHANGED <<gen, asked, file, handles, of, at, tally, sent, history>>

\* Mutant of PutBackInheritedRuns: a refusal is not written into the row.
PutBackInheritedQuietly ==
    /\ phase = "boot"
    /\ \A d \in Drivers : pending[d] # "boot"
    /\ \/ /\ CanStart
          /\ DriveInAProcess(Started, "boot", CarriedIn)
          /\ collector' = [collector EXCEPT ![Started] = "waiting"]
          /\ UNCHANGED phase
       \/ phase' = "up" /\ UNCHANGED <<drivers, handles>>
    /\ UNCHANGED <<gen, asked, row, file, history>>

PutBackInheritedRuns ==
    /\ phase = "boot"
    /\ \A d \in Drivers : pending[d] # "boot"
    /\ \/ /\ CanStart
          /\ DriveInAProcess(Started, "boot", CarriedIn)
          /\ collector' = [collector EXCEPT ![Started] = "waiting"]
          /\ UNCHANGED <<phase, row>>
       \/ /\ row' = [row EXCEPT !.not_resumed = TRUE]       \* no pane, or refused
          /\ phase' = "up"
          /\ UNCHANGED <<drivers, handles>>
    /\ UNCHANGED <<gen, asked, file, history>>

Directory(d) == Submit(d) \/ PutBack(d) \/ Collect(d) \/ Revival(d) \/ PutBackALostDriver(d)
Driver(d) == Connect(d) \/ Step(d) \/ ReadRow(d) \/ Finish(d) \/ Die(d) \/ Report(d)
People == StartRun \/ Cancel \/ StopAll
Daemon == Save \/ Crash \/ Boot \/ PutBackInheritedRuns
Next == (\E d \in Drivers : Directory(d) \/ Driver(d)) \/ People \/ Daemon

\* Threads go on, a daemon that went down comes back, a driver connects, reads
\* what it is notified of and ends when told.  Nothing is assumed of the steps
\* of a run, of people, of the saver or of what dies.
Fairness ==
    /\ WF_vars(Boot) /\ WF_vars(PutBackInheritedRuns)
    /\ \A d \in Drivers :
          /\ WF_vars(Directory(d)) /\ WF_vars(Connect(d)) /\ WF_vars(Report(d))
          /\ WF_vars(d \in unread /\ ReadRow(d)) /\ WF_vars(Obey(d))

Spec == Init /\ [][Next]_vars /\ Fairness
-----------------------------------------------------------------------------
(***************************************************************************)
(* Properties.                                                             *)
(***************************************************************************)
Counts == Nat \cup {None}
Rows == [driver : Drivers \cup {None}, restored : {"Interrupted", "Done"},
         left : Drivers \cup {None}, cancelled : {"Person", "Shutdown", None},
         progress : Counts, reported : Counts, reports : Nat, revived_at : Counts,
         withheld : BOOLEAN, not_resumed : BOOLEAN]
Files == [finished : BOOLEAN, tally : Counts, cancelled : {"Person", "Shutdown", None},
          driver : Drivers \cup {None}]

ASSUME NoneIsNoRow == None \notin Rows \cup Files

TypeOK ==
    /\ gen \in 1 .. MaxGen /\ phase \in {"boot", "up", "stopping", "down"}
    /\ asked \in BOOLEAN
    /\ row \in Rows \cup {None} /\ file \in Files \cup {None}
    /\ cell \in [Drivers -> {"Running", "Reported", "Panicked"}]
    /\ orders \in [Drivers -> {"Person", "Shutdown", None}]
    /\ collector \in [Drivers -> {"none", "waiting", "lost", "reviving", "done"}]
    /\ pending \in [Drivers -> {"no", "submit", "revival", "boot"}]
    /\ life \in [Drivers -> {"unborn", "running", "reported", "lost"}]
    /\ of \in [Drivers -> 0 .. gen] /\ at \in [Drivers -> 0 .. gen]
    /\ flags \in [Drivers -> BOOLEAN]
    /\ unread \subseteq Drivers /\ sent \subseteq Drivers
    /\ tally \in [Drivers -> Nat]
    /\ deaths \in 0 .. MaxDeaths /\ revivals \in Nat

Ours == {d \in Drivers : life[d] = "running" /\ of[d] = gen}

\* A daemon drives a run with one process at a time, whoever starts them, and
\* none of them is out of sight: it is the one the row shows, or about to be.
OneOfOurs ==
    /\ \A d, e \in Ours : d = e
    /\ phase # "down" => \A d \in Ours : pending[d] # "no" \/ (row # None /\ row.driver = d)

\* A row that says how its run ended speaks for a run nothing of this daemon drives.
EndedIsOver == row # None /\ Status \in {"Done", "Reported"} => Ours = {}

\* Once a daemon serves, a run it inherited and does not drive says why.
InterruptedIsExplained ==
    Serving /\ row # None /\ Status = "Interrupted" => row.withheld \/ row.not_resumed

\* A run whose drivers die is not started for ever: once, and then once for
\* every time one of them got as far as a report.
RevivalsAreEarned == row # None => revivals <= row.reports + 1

\* A driver that is gone is known to be: the row does not go on saying that the
\* run is running.
FateIsTold ==
    \A d \in Drivers :
        (row # None /\ row.driver = d /\ life[d] # "running" /\ cell[d] = "Running") ~>
            ~(row # None /\ row.driver = d /\ cell[d] = "Running")

\* A cancel that is accepted for a driver stops it, however the notification
\* races its connecting.
CancelStops ==
    \A d \in Drivers :
        (row # None /\ row.driver = d /\ orders[d] # None) ~>
            (life[d] # "running" \/ row = None)

\* What plugins.rs says of the tallies handed to a driver: the count of a row
\* does not go backwards.
TallyKept ==
    [][row # None /\ row' # None /\ TallyOf # None => TallyOf' >= TallyOf]_vars

\* What runs.rs says of a cancel: the run ends as cancelled, so no other driver
\* is started for it.
CancelIsKept ==
    [][\A d \in Drivers : life[d] = "unborn" /\ life'[d] = "running" =>
          row = None \/ CancelledBy # "Person"]_vars

\* What sprag-term.rs says of a boot: the run is put back on one driver rather
\* than two.
OneDriver == \A d, e \in Drivers : Connected(d) /\ Connected(e) => d = e
=============================================================================

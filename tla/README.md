# sprag: what is modelled, checked and proved

sprag is a terminal multiplexer: a daemon (`sprag-host`) holds sessions of
windows of panes, each pane a program on a pty behind an emulator, and clients
(a terminal client, a GUI, an MCP server, a CLI, drivers of AI agents) reach it
by JSON-RPC. Two things it does are hard to get right and hard to test, and
this directory models both: it makes others *wait* (for a change of their
session, for a text on a pane, for an agent to come to rest), and it *drives*
AI agents in its panes through runs that outlive the processes they need.

Paths below are under `crates/`.

## 1. The system

| part | state | operations | talks to |
|---|---|---|---|
| change log (`sprag-host/src/events.rs`: `EventLog`, `SessionJournal`, `SessionShape`) | a bounded ring of records keyed by the session's scene revision; what of the ring is gone; the last shape observed | `record`, `since`, `observe` (difference of two shapes), `emit` | held by the journal channel under its lock |
| journal channel (`sprag-host/src/notify.rs`: `JournalChannel`) | the log, the parked `events/waitFor` replies, the subscriptions with their cursors | `observe`, `announce`, `park_or_answer`, `subscribe`, `arm`, `unsubscribe`, `since`, `release`, `drain` | the dispatch owner, the settle sweep, the workers of runs |
| pane wait channels (`notify.rs`: `PaneWaitChannel`, twice a session) | the parked questions, `queued`, `parked_any` | `park`, `arm`, `evaluate`, `release`, `drain` | armed on the thread that bumps, evaluated by the dispatch owner |
| channel registry (`notify.rs`: `ChannelRegistry`, `SessionChannel`) | a channel per session *name*, each with an address | `entry`, `bump`, `announce`, `observe`, `release`, `close`, `rename` | everybody who holds a name |
| dispatch (`sprag-host/src/rpc.rs`) | one queue of requests, disconnections and `OutputMoved` messages | `dispatch_one`, the wait and subscription handlers, `evaluate_*_waits`, the reaper | runs every request, one at a time |
| session requests (`sprag-host/src/workspace.rs`) | the registry of sessions, windows, panes (`sprag-terminal/src/registry.rs`) | create, rename, kill, split, move ... | bumps, announces, closes and renames channels |
| settle sweep and agent tracker (`sprag-host/src/sweep.rs`, `agent.rs`; `sprag-detect/src/track.rs`) | for each pane what is published of its agent, a candidate that is settling, the screen last read, the report in force, whether a look is owed | `observe` (the sweep, and whoever reads a verdict), `report`, `release`, `set_reporter_mute`, a waker that parks until the next candidate is due | bumps pane revisions, announces by captured name, reads the manifests and the options |
| run driver (`sprag-plugin/src/driver.rs`, `run.rs`) | guardrails, counts, the ceiling met, the window for an account, a bounded journal of what was done | one step of a plugin after the other, until it says it is over, a ceiling falls due, a person cancels or the clock runs out | a plugin; a `RunContext` with the cancel flag and the deadline |
| AI loop (`sprag-plugin/src/ai_loop.scxml`, `outer.rs`, `ai_loop.rs`) | a statechart of two regions (the work, the orders), its datamodel of budgets, a sentence to be typed, the place reported | `pump`: read the orders, do what the state asks for, walk one event, type; `put_back` at a place | the driver steps it; the agent's pane; judges, checks and reviewers |
| runs of the daemon (`sprag-host/src/runs.rs`, `plugins.rs`, `durability.rs`, `drive.rs`; `bin/sprag-term.rs`) | a row for each run, the handle of its driver process, the saved file | start, report, order, collect, revive, save, and at the next boot kill and put back | driver processes, which read their orders off the row |
| pane reader (`sprag-terminal/src/pane_pty.rs`, `revision.rs`) | the emulator, the pane's revision, end of file, exit | one batch, end of file, exit | bumps the pane, then the session through its `on_dirty` hook |
| RPC client (`sprag-rpc/src/client.rs`) | one outstanding request, notifications set aside | call, begin/settle, next_notification | the daemon's socket |

Threads: the dispatch owner (every request), a reader thread for each pane, the
waker that sweeps, the thread that collects each driver, the saver, and the
drivers, which are processes. They meet at the journal's lock, at the two
atomics of a pane wait channel, at the owner's queue, at the registry of
sessions, at the lock of the trackers, and at the row of a run.

What is hard about it:

* *Check and park.* Deciding that nothing has happened and parking must be one
  step against every appender; for panes the code replaces the lock by having
  one thread park and evaluate, and two atomics tell it there is work.
* *The revision is two things.* It is the token a client waits on
  (`scene/waitFor`) and the key of the records it then reads. Panes move it
  without recording anything; the owner bumps first and records later, at
  whatever the revision is *then*.
* *Frames leave after the lock.* What is collected under the journal's lock is
  written without it.
* *Names move.* A channel outlives its key; messages, runs and requests hold
  names.
* *A verdict moves with the clock.* Nothing is printed when a candidate has been
  held long enough; somebody has to look then, and whoever waits has to hear.
  A screen that has not changed is not read again, so what was reported, muted
  or reloaded in between must not have changed what reading it would find.
* *Budgets meet.* A run has ceilings of its driver and budgets of its loop;
  they fall due in one step, inside a window another granted, or after a restart
  that gave some of them back.
* *Anything dies.* A driver, or the daemon, dies between any two of: started,
  entered in the row, reported, ordered, collected, revived, saved.
* *Ends.* A client leaves with frames under way; a session is killed with waits
  parked, by itself or from another; a pane dies with a synchronized update open.

## 2. The modules

| module | models | proved about |
|---|---|---|
| `EventLog` | the ring as a value: `Record`, `Since`, the assertion | |
| `JournalChannel` (EXTENDS `EventLog`) | one session's journal, its readers, the owner, the announcers, the panes, the wire | `JournalChannelProofs` |
| `EventFeed` | the promise: a growing feed and a place in it for each client | |
| `JournalFeed` (EXTENDS `JournalChannel`) | the refinement of `EventFeed` | `JournalFeedProofs` |
| `PaneWait` | one session's two pane wait channels and the threads that arm them | `PaneWaitProofs` |
| `ChannelRegistry` | names, channels, addresses, the requests and threads that hold names | `ChannelRegistryProofs` |
| `AgentSettles` | one pane's agent tracker, the waker and its pass, reporters, readers and a waiter | `AgentSettlesProofs` |
| `RunDriver` | one run of the `Driver`, with any plugin | `RunDriverProofs` |
| `AiLoop` | one run of the AI loop, with any agent, person and driver | `AiLoopProofs` |
| `RunStore` | the row of one run, its drivers, and the daemons that follow each other | `RunStoreProofs` |
| `MC*` | instances for TLC | |

`PaneWait` and `ChannelRegistry` meet in the session's observer, which the first
models atomic by atomic and the second as one step. `AgentSettles` ends where it
moves a pane's revision: from there on a wait is `PaneWait`'s. `AiLoop` is one of
the plugins `RunDriver` steps: what `RunDriver` allows a plugin to answer includes
what `AiLoop` does, and what `AiLoop` is asked by its driver (`DriverCuts`, and
"stop short" among what it is `Told`) is what `RunDriver` does to a plugin. A
driver process of `RunStore` runs a `RunDriver`; its steps there are a count.

### EventLog and JournalChannel

`log` is the `EventLog` value; `landed`, `got` and `reread` are history: every
record that ever landed, the positions each client was handed, and up to where
it re-read the world after being told of a loss. A batch carries *positions in
`landed`* instead of contents, so "skipped", "twice" and "out of order" are
plain statements about sets of numbers.

A request is a walk of `pc[Owner]`: taken (the handler's own effect and, for a
mutating method, the bump that follows it), `observe`, then what its method
leaves to do (`park`, `enroll` / `open` / `arm`, `read`, `drain`). An announcer
walks `idle`, `append`, and holds `lock` in between; that is the only place
where the journal's lock is held across another step, because `announce` calls
the bump, whose observer answers `scene/waitFor`, inside it. Every append ends
in `Land`: the records, then the parked waits they satisfy, then the armed
subscriptions, whose cursors move under the lock; the frames go to `out[t]` and
are written one at a time by `Send`, with no lock.

A client has one thing outstanding: a wait, a read, or a subscription. It keeps
the last `next` it received and resumes from it after it left for any reason;
`Deliver` drops a frame whose id is not the outstanding one, as the client's
connection does. `Filter` is what it asked to match.

A shape is the set of entries it lists and its difference is a creation for each
that came and a closing for each that went, in the order of their ids: the code's
order within each kind. Details of events (names, places) are left out; so is
the number `delivered` a subscription reports when it is closed.

### PaneWait

`Batch`, `Ending`, `BumpPane` are a reader thread (a batch, end of file, exit; a
synchronized update held open moves nothing); `Publish`, `Announce` are the
sweep. `Notify`, `Load`, `Swap`, `Fire` are the session's observer on whichever
thread bumped, one atomic operation each: both channels are armed, output first,
and one message is sent if either answered true. `TakePass`, `Clear`, `Look`,
`Store` are the owner's evaluation, one wait looked at per step while panes go
on moving. `Park`, `Disconnect`, `ClosePane` are requests; a park evaluates its
own kind at once, as the handler does.

An agent's own report (`report_agent`) moves a pane's revision on the owner's
thread and announces; it takes the steps the sweep takes here and meets no
request, so it is not separate. `Disconnect` releases both channels in one step:
the owner runs it between requests and no other thread reads the vectors.

### ChannelRegistry

`Sessions` are identities, `Names` what moves. `channel` is the registry's map,
`address` what a channel believes it is called, `token[s]` the channel the panes
of `s` captured. A request changes the registry of sessions and leaves a
`script` of what it does to channels: the owner runs it to the end before it
takes anything else, while panes and announcers go on. `PaneWait`'s channel is
here one set of revision waits and one flag; arming and a pass are one step
each (`PaneWait` is their detail). A rename to the name a session has and the
kill of the last session (which ends the daemon) are left out.

### AgentSettles

`published`, `pending`, `seen`, `identity`, `reported`, `mute` and `owes_look`
are the `Tracker`'s fields, `policy` its settle window. `Looked` is
`Tracker::observe`, `Observe` with it what `AgentPanes::observe` adds: the option
is read where there is no tracker yet, and where a candidate is settling after
the look. What a manifest makes of a screen is a constant: `Claimed` is the
verdict of the manifest that recognises it, `Kept` that of the manifest of the
agent the pane is already taken for, `Asking` the screens with an unanswered
dialog. `None` stands for an absent agent, rule, report, number or tracker.

The waker is `pc`: `Park`, `Wake`, `Begin` are its loop in `sprag-term.rs`;
`Check`, `Drop`, `Owes`, `Look`, `Word`, `SetReporterMute` are `sweep_once` for
the pane, split where the code lets go of the trackers' lock. While a pass holds the
pool no reader looks. Anybody else's look is `ReaderLook`; `Read` is one
whose reader may park on the verdict (`completion.rs`, `access.rs`): it holds a
deadline if the verdict told it of one, and hears of moves of the pane.

Time is ages: a candidate's age grows with `Tick`, and a look compares it with
the window at an instant its caller read up to `MaxLag` ticks ago, because the
code passes `now` in and takes locks afterwards. Left out: the composer's
reading, what a report says beside its state, the announcement (its channel is
`JournalChannel`'s), spurious wakes (they are looks that find nothing due), the
jobs of a pane, and that a report may land between the two readings of the
sequence number in a pass (the pass then bumps once more).

### RunDriver

`pc` is the place in `step_to_a_terminal_state`: at the `top` of the loop, where
a cancel and the clock are looked at; in a `step`; `left`, when the orchestration
has ended and the work is to be stopped; `out`. `StepReturns` has a disjunct for
every verdict a plugin may return and for its failing and panicking; the counts,
then the ceilings in the code's order, then the window for an account. `winding`
says that a window was granted, `cutShort` that the run was ended, or sent to
its account, from outside. The clock moves during a step. The walk (`journal`)
keeps `JournalLimit` records and counts what it dropped.

### AiLoop

`work` and `orders` are the two regions of the statechart, `d` its datamodel,
`why` the entry reason where the document branches on it. A pump is three
steps: `top` reads the person's flags and a restart and walks the region
`orders`; `act` does what the state it finds asks for and walks the one event
that came of it; `say` types the sentence that walk asked for, or finds there is
none. Each action is named for the state's handler (`Watch`, `Judge`, `Screen`,
`Reflect`, `Review`, `Replace`, ...). What the agent, its judge, its check and
its reviewer answer is any of the answers the handler tells apart. A pump that
ends reports `place`; `PutBack` is a driver or a daemon that died and a new one
that resumes at the last place reported. `UpTo` saturates counts at the limit
that is compared, which loses nothing. `briefed` and the `after` of a place
are history.

### RunStore

A driver process is `unborn`, `running`, `reported` (it wrote its outcome and
left) or `lost`. `cell` and `collector` are the state its collecting thread
writes and what that thread does next; `pending` is a driver that was started
and whose row is not written yet, which is where the races are: `StartRun` and
`Submit`, `PutBackALostDriver` and `PutBack`, `PutBackInheritedRuns` and
`PutBack` are two steps each. `flags` is the cancel flag a driver steers by,
`unread` the notification it has to read. `Save` files what `Persistable` makes
of the row; `Crash` leaves file and processes; `Boot` kills the driver the file
names, `PutBackInheritedRuns` puts the run back or writes why not.

Left out: runs driven on a thread, holds and stand-downs (`AiLoop` has them), a
graceful shutdown's last save (the model exits without one, which is a crash the
code also allows), and the plugins other than the AI loop. The place and the
tally of a report are one number. A report of a driver that has died counts as
progress; a driver that dies before it is submitted is answered "no such run".

## 3. The runs

Every run ends within three minutes with two workers.

| run | question | bounds | result |
|---|---|---|---|
| `JournalOwner` | owner alone appends: exactly once, nothing skipped, and what a client sees is `EventFeed` | 2 clients with different filters, ring of 2, 4 records, 3 requests | holds |
| `JournalAnnounced` | announcers: a woken read is complete; a parked wait is answered; a kill answers all | 2 announcers, 1 client, ring of 2, 4 revisions | holds |
| `JournalAll` | owner, announcer, panes, changes elsewhere: the log never goes backwards, `lost` is exact, nobody is owed, no notification before its opening | 1 client, 2 entries, ring of 2, no append begun after 3 records | holds |
| `PaneWaits` | no lost wakeup, and a question whose answer stands is answered | 1 pane and the sweep (two wakers), 1 client, 3 parks over both kinds | holds |
| `RegistryNames` | names, channels, tokens and waits agree between requests; with no rename nothing is stranded | 2 sessions, 3 names, 4 channels, a rename, a park, an announcement | holds |
| `AgentSettles` | the skip is exact; whoever waits hears; a candidate resolves; an owed look is taken | 3 screens, 2 revisions of the manifests, windows of 1 and 2 ticks, a lag of 1, 2 acts of pane, reporter and user | holds |
| `RunEnds` | ceilings, the window, what is stopped, what is recalled, and that a run ends | all 8 mixtures of a bound on steps, on cost and a clock; windows of 1 and 2 | holds |
| `LoopBudgets` | briefed first; no recovery twice; outages ask; claims are reflected | no limit on turns, 1 typed retry, 1 resumption, 1 empty turn, a reflection due after 2 refused claims, 2 silences or 2 turns, no re-aim or re-ask, 2 deaths, nobody says anything | holds |
| `LoopOrders` | a hold parks and ends; a converged run had a reason; a run asked to stop short does | hold, stand-down and stop-short at any moment, 1 turn, 1 re-aim, 1 re-ask, 1 empty turn, a reflection due after 1, no retry, no death | holds |
| `RunRow` | one process at a time; ends, interruptions, revivals, fates and cancels are what the row says | 3 drivers, 2 deaths, 2 daemons | holds |
| `JournalShared` | `NothingSkipped` with an announcer | 1 client | violated |
| `RunTallies` | `TallyKept` | 3 drivers, 1 death, 2 daemons | violated |

Why the bounds are enough. A ring of two evicts, and evicts in the middle of a
group of two records keyed by one revision, after which two more land. Two
clients differ in their filter, so one is served what another is not. Three
requests are enough to open, leave and resume. In `PaneWaits` one pane and the
sweep are two threads in the observer at once, three parks put both kinds in
play and replace one question, and `MaxMoves` bounds what a move may *start*
from, so a pane that is moving still moves again under the sweep. In
`RegistryNames` three names for two sessions leave one to rename to and one to
reuse, and four channels let each session have one, a stale one be closed and
one be minted too many; `Bounded` ends an instance when its channels are spent.

In `AgentSettles` the screens are an agent at work, one at rest and a dialog that
covers the agent's fingerprint; the second manifests read the agent at rest as at
work, so a reload changes a verdict; two acts are a report and what follows it
(with three acts the safety half and the inductive invariant were also checked,
over four and a half million states). Two windows tell "due" from "not yet" with
a lag of one. In `RunEnds` the first ceiling, a second in the same step and one
inside the window all happen below `Cap`. Of the budgets of the loop each is
spent in one of its two runs and has something left in one of them: retries that
are typed, resumptions that are watched for, and the claims, refusals and silences
that bring on a reflection in `LoopBudgets`, re-aims and re-asks in
`LoopOrders`, empty turns in both. The limit on turns is met in `LoopOrders` and
switched off in `LoopBudgets`, so that an outage can come back turn after turn
with nothing but its own budget to end it. That every branch of `Retry`, `Claimed`,
`Unclaimed` and `Proposed` is taken by one run or the other was read off the
coverage TLC reports. The two deaths of `LoopBudgets` are a boot and the driver it
started, before or after that driver's first report. `LoopOrders` has all the
orders. Three drivers in `RunRow` are
the one that started, the one that replaced it and the one of the next boot.

Every safety property of a passing run is proved without any bound (section 5),
and so is the refinement, those of `JournalOwner` and `JournalAnnounced` for the
sessions they hold in; there the runs are what found the formulas. What rests on
the runs alone is liveness. Type invariants are proved, not run.

Some properties are conditional. `NoWaitStranded` fails once a session is renamed
(section 4), and `StillNoWaitStranded` holds it while `renames = 0`. `GreetedFirst`
excludes the program whose boot was lost with a driver (section 4), and no other. `HoldsOne` fails
for one who read a verdict that was unknown or whose pane was handed back to its
screen, and `StillHeard` holds it for the others. `HoldEnds` is checked of a driver that
lives, and fails with a death; `CancelStops` says of the driver that is cancelled
that it stops, and not that no other is started in its place (section 4 for both). For the same reason the journal is
checked in three runs and not one: `NothingSkipped` and `NeverTwice` hold where
the owner alone appends, `WokenReadIsComplete` where announcers do and nobody
streams. The proofs name these sessions (`Apart`, `OneWriter` in
`JournalFeedProofs`), and section 4 has what happens outside of them.

Every property has a mutant of the code that breaks it: an off-by-one in a
ceiling, a budget that is not counted, a step that leaves out a bump, a row
written over. They stand beside the definition they replace, as "Mutant of".

`CHECK_DEADLOCK FALSE` is set where the system really stops: a run ends
(`RunEnds`, the two `Loop` runs), the last daemon has exited (`RunRow`,
`RunTallies`). In `AgentSettles` the clock never stops, and it is set so that
saturated ages and spent acts are no error.

### What the invariants say

* `NothingSkipped`: what lies at or below a client's cursor and matches its
  filter was handed to it, or it was told of a loss and re-read everything
  after it landed.
* `NeverTwice`: no record is on its way twice, or to one who has it.
* `WokenReadIsComplete`: a client woken at a revision that reads the slot has
  every record keyed at or below it.
* `NeverBackwards`: `EventLog::record`'s assertion does not fire.
* `LostIsExact`: for every cursor, `lost` if and only if a record above it is gone.
* `NobodyIsOwed`: no parked wait and no armed stream has a batch in the log.
* `NoLostWakeup`: a parked question whose answer has come has a look on its way:
  a message, a thread bound to send one or to arm its channel, or a pass that
  has not passed it. What an open synchronized update hides is owed to nobody
  while its program may still close it, and is owed once the program is gone.
* `PanesWakeTheirSession`, `WaitsOfTheLiving`, `WaitsAreReachable`: three ways in
  which a name, a channel, a pane and a wait could come apart, each between two
  requests.
* `SkipIsExact`: while the tracker says the screen has not changed, what stands
  (published, or settling) is what reading it would find now; the one exception
  is a report that came after the last reading, which stands as it was made.
* `StillHeard`: one who waits on a verdict that is no longer the one he read has
  a deadline of his own, or the pane was moved since, or is about to be.
* `CandidateResolves`, `OwedLookServed`: no candidate stays past its window, and
  an owed look is taken or a report in force stands in its place.
* `WithinCeilings`, `CeilingIsTrue`, `Decided`: no step is begun past a ceiling; the
  one reported is the one met first; the deadline moves once. `CutShortIsStopped`:
  work is stopped exactly for runs that were cut short. `RecallIsHonest`: a search
  of the bounded walk never says "never" of something that was dropped.
  `RunEnds`: a run with a clock or a cancel ends, whatever its plugin answers.
* `HeldIsParked`, `HoldEnds`, `StopShortStops`: what a person or a ceiling asks of a
  loop comes about. `ConvergedForAReason`, `GreetedFirst`, `NoRecoveryTwice`,
  `OutagesAsk`, `ClaimsAreReflected`: how its budgets meet.
* `OneOfOurs`, `EndedIsOver`, `InterruptedIsExplained`, `RevivalsAreEarned`,
  `FateIsTold`, `CancelStops`: the row of a run against the processes there are.

### Fairness

`JournalChannel`: weak fairness of the owner's steps and of each announcer's
append and writes. A thread that has begun a pass runs it: nothing in it blocks
but the journal lock, which its holder gives up in one step. No client is
obliged to ask, no pane to print, no announcer to speak. `PaneWait`: weak
fairness of a thread that has moved a pane and of the owner's pass, and *strong*
fairness of taking a message: the owner is interrupted by other requests, each
of which disables `TakePass` for a while, but its queue is first in first out
and a message in it is reached. `ChannelRegistry` states no fairness; it is
checked for safety only.

`AgentSettles`: weak fairness of the waker, the clock and the two bumps that are
owed. The waker never blocks for good: its park is capped by `SWEEP_INTERVAL`,
and a thread that has shown a batch goes on to the bump. No pane, reporter or
reader is obliged to do anything.

`RunDriver`: weak fairness of the loop's own steps and of the clock, and of
`CutStepReturns`: a step is only obliged to return once the run was cancelled or
its deadline has passed, because every wait of a plugin polls the `RunContext`
(`poll_until`, `run.rs:237`); before that a plugin may stay in a step for ever.

`AiLoop`: weak fairness of the parts of a pump, whose waits all have ends, and of
the age of a hold; *strong* fairness of `OutageOver` and `Unattended`:
`service_retry_ms` and the patience for a person are measured from a fixed start
across many pumps, each of which may be interrupted by a hold, so they are
enabled again and again and must then be taken. Nothing is assumed of the agent
or of people.

`RunStore`: weak fairness of the daemon's threads, of the boot, and of a driver's
connecting, reporting, reading what it was notified of and ending when told. No
step of a run, no order, no save and no death is obliged to happen.

## 4. Where the code and what it says differ

Two runs end in a violation and stand in PROJECT.json as findings.

1. **An observation can record at a revision already read** (`JournalShared`,
   `notify.rs:390`). A request bumps to R; an announcer takes the lock, bumps to
   R+1 and appends; a reader is handed `next = R+1`; the request's observation
   records its own change, at `revision.current()`, which is R+1. The reader asks
   for what is above R+1. `client.rs:1553`: "Nothing is skipped".
2. **A replacement counts on from an old number** (`RunTallies`,
   `plugins.rs:3775`). `put_back` hands the new driver the tallies of
   `inherited.progress`, a cell of the daemon that a driver in a process of its
   own never moves. After a boot and a report, a driver that dies is replaced by
   one that starts at the boot's count, and its first report takes the row
   backwards. `plugins.rs:3769`: "a monotonic counter going backwards".

The rest was refuted in the same way, with the property named here, which is
still in its module; adding it to a cfg shows the trace.

* *A change that bumps nothing here* (`NothingSkipped` with `Elsewhere` not
  empty, `events.rs:216`): the shape lists the registry's sessions, and panes can
  be born on a plugin's thread; their difference is recorded by the next
  observation at an unmoved revision.
* *Frames of one subscription in either order* (`InOrder` with two announcers,
  `notify.rs:641`): collected under the lock, written after it. `client.rs:1563`:
  "delivered in cursor order".
* *A pane with no hook* (`EveryPaneWakes` with a pane in `Silent`,
  `sprag-plugin/src/access.rs:3312`): a wait parked on it is not looked at when
  it prints, only when something else wakes the session.
* *A rename with a message under way* (`NoWaitStranded`, `notify.rs:1307`): the
  message names the old name, its pass clears the flag of a channel minted there,
  and the session's own flag stays up: its pane waits are deaf until a new one is
  parked. *An announcer's name is captured* (`AnnouncementsLand`, `lib.rs:656`). *A
  dead name is minted again* (`MapIsLive`, `rpc.rs:2278`).
* *A hold without an end* (`HoldEnds` with `MaxCrashes = 1`, `plugins.rs:3591`): a
  held run's place is in the region `held`; its replacement is started with a
  hold flag that is down, so nothing is seen to go down, and `ai_loop.scxml:5194`
  takes `unattended` only outside `held`. `ai_loop.scxml:2407`: "An unbounded hold
  has no ending anybody can be told about".
* *An ending that buys a session* (`EndingBuysNothing`, `ai_loop.scxml:7500`): a
  dialog during the closing account leads through `screening` to `working` and
  on to `restarting`. Around line 7759: "a run that is already ending must not buy
  a session".
* *A boot that is forgotten* (`AlwaysGreeted`, `plugins.rs:3846`): the driver a boot
  started dies before it reports, and is replaced as one that died under a live
  pane, at the place from before the boot: the program the boot started is told
  to go on and was never briefed. `runs.rs:4725`: "A boot that puts a run back
  primes its peer afresh".
* *A cancelled run is started again* (`CancelIsKept`, `plugins.rs:3590`): the
  handle that was cancelled dies before it reads of it, and the replacement gets
  a fresh one. `runs.rs:7360`: "The worker observes it at its next loop-top /
  wait-poll and ends".
* *Two drivers for a moment* (`OneDriver`, `sprag-term.rs:887`): a driver whose
  name was not saved when the daemon died reconnects beside the new one.
* *A converged run whose job is stopped* (`ConvergedUntouched`, `driver.rs:2841`):
  a run cut short inside its window may still converge.
* *A pane that is handed back* (`HoldsOne`, `CandidateIsInHand`,
  `workspace.rs:1545`): "A settling candidate publishes on a clock, and
  `Settling::At` puts that instant in the waiter's own hand". A verdict that is
  published as unknown tells nobody of the candidate that is settling
  (`agent.rs:893`, `completion.rs:1466`), and after a release, a muting or a reload a
  reader's own look publishes without moving the pane.
* *A fresh report is dropped* (`DropsTheDead`, three acts, `sweep.rs:279`): whether
  the reporter is gone and the release are two locks.
* *Still due after a look* (`NotStillDue` with `Windows = {0, 2}`, `sweep.rs:349`):
  the debug assertion says it cannot happen; the window is read after the look
  (`agent.rs:887`), so an `agent-settle-time` set to 0 in between makes the candidate
  due at once.

Remarks read off the code while it was translated, with no property of their own:
`notify.rs:821` says at most one pass per session is in flight, and two can be;
a hold on a run that was told to stand down has no ceiling, since the `abandon` it
raises (`outer.rs:13604`) is taken in `held` only; a hold raised in the middle of a pump does not keep
`unattended` from ending it (`ai_loop.scxml`, around 7991); `awaiting_human` does not
take `peer.restarted` (5214); a sentence in the Say slot may be typed pumps
later (`outer.rs:15516`); a put-back at `restarting`, after the respawn and before
the report, replaces the session twice (`outer.rs:14836`); a run whose driver has
died and is not replaced yet is filed as finished (`runs.rs:7745`), so a daemon
that dies then does not put it back; `track.rs:744` calls it structural that a
screen is never older than a report, which a batch printed before the report and
read after it is not; and a dialog that is glimpsed is published at once, not
guarded by the settle window (`track.rs:755`), since blocked is an active state.

## 5. What is proved

`PaneWaitProofs` proves, for any sets of clients and panes, any number of waits
and no bound on moves:

* `TypeCorrect`: `Spec => []TypeOK`
* `WakeupsKept`: `Spec => []NoLostWakeup`
* `FlagsStand`: `Spec => []QueuedIsTrue`
* `FlagsExact`: `Spec => []AnyIsExact`
* `ParksReplace`: `Spec => []OneParkPerPane`

from the one assumption `PaneWaitAssumption` (the sweep is no pane; a pane with
no hook is a pane; the bounds are numbers, and every number is allowed).

`NoLostWakeup` is not inductive alone. The argument: a thread that finds
`parked_any` down sends nothing, so the flag must say what the vector says
(`AnyIsExact`); one that finds `queued` up sends nothing, so that flag must stand
for a pass that has yet to clear it (`QueuedIsTrue`); a pass clears the flag
*before* it takes the waits, so a move after that either is seen by the pass or
arms again. `Inv` is the conjunction, each conjunct has a lemma with a step for
each action, and `InvStep` puts them together. `OthersSend`, `OthersLook` and
`ThreadsStay` are the frame of it: what one thread does takes no other thread's
duty away.

`JournalChannelProofs` proves, for any clients with any filters, any number of
announcers, any shapes, any capacity and no bound on what lands:

* `TypeCorrect`: `Spec => []TypeOK`
* `NeverFires`: `Spec => []NeverBackwards`
* `LostExact`: `Spec => []LostIsExact`
* `NobodyLeftBehind`: `Spec => []NobodyIsOwed`
* `OpeningFirst`: `Spec => []NotifiedAfterOpening`
* `KillReleases`: `Spec => []KillReleasesAll`, that a drained channel keeps nobody

from `CapacityAssumption` (the ring holds something: `EventLog::new` asserts it)
and `JournalAssumption` (what a shape lists is finite and numbered, the owner is
no announcer, filters are sets of events).

The inductive invariant `Inv` has eight parts. `History`: the ring is the tail
of what landed, `evictedThrough` is the key of the last record gone, what landed
is ordered, and nothing is above the revision. `Appending`: an announcer between
its bump and its append holds the lock, and nothing above its stamp has landed;
without it a second append could come in between and `History` would not be
inductive. `NobodyIsOwed` itself. `Dispatching`: the owner's place says which
request it runs. `Closing`: after a drain it runs none. `Issued` and `Opening`:
ids are fresh, and a client waiting for its opening response has nothing coming
under its id. The steps rest on lemmas about the ring: `RecordTail` (record keeps
the tail), `LandOrdered`, `ReadDefined` (the skip of `since` exists, by counting
the records at or below the cursor: no induction is needed), `SinceAnswer` and
`BatchCaughtUp` (a reader whose cursor is an answer's own `next` is owed
nothing, so advancing a stream under the lock leaves it not due).
`LandStep`, `ParkStep`, `ArmStep` and `DrainStep` say once what each pass does
to readers and frames; every lemma about a part of `Inv` uses them. `Inv` was
model-checked on the instance of `JournalAll` before it was proved.

`JournalFeedProofs` proves what a client gets to see, for any clients, filters and
capacity and no bound on what lands:

* `OnceOnly`: `OneWriter => (Spec => []NeverTwice)`
* `LandingOrder`: `OneWriter => (Spec => InOrder)`
* `AnnouncementsReach`: `OneWriter => (Spec => []AnnouncedInFull)`
* `ExactResume`: `Apart => (Spec => []NothingSkipped)`
* `WokenReads`: `Apart => (Spec => []WokenReadIsComplete)`
* `Implements`: `Apart => (Spec => FeedSpec)`, the channel implements `EventFeed`

from the same two assumptions and a hypothesis on the session, written here as an
implication and in the module as `ASSUME`. `OneWriter`: there are no announcers,
or nobody subscribes; the frames of a subscription are then written by the owner
alone. `Apart`: nothing but the owner appends and nothing changes without a bump
of the session (`OwnerAlone`), or nothing is observed and nobody subscribes
(`NobodyStreams`). `AnnouncedInFull` is what `NothingSkipped` and
`WokenReadIsComplete` say together, of announcements only: that much is owed to
those who wait whatever is observed beside it and whatever changes elsewhere. The
hypotheses are the sessions in which each promise is kept, and not a convenience
of the proof: with an announcer beside an observed shape, with
an announcer beside a subscriber, or with one entry that changes elsewhere, TLC
finds `NothingSkipped` or `WokenReadIsComplete` violated; with one announcer beside
a subscriber `AnnouncedInFull`, and with two `NeverTwice` and `InOrder` (section
4 tells how).

A client's state and the frames on their way to it are in different places, so
the argument follows the *id* of a request. `Single`: an id is at hand in the
owner (`AtHand`), parked, enrolled, or answered by one frame, and never two of these,
but for a stream the owner is just writing to; `Busy` is what the owner's place
says of the request at hand. `Follows`: a wait and a stream are where their
client's cursor is, and a frame for it holds only what is after that. `Base` is
these with `Inv`, is inductive under `OneWriter`, and gives `OnceOnly` and
`LandingOrder`. That nothing is left *out* of a frame needs `Fresh`: whatever is
owed (`Sure`: everything in a session that is `Apart`, announcements in any other)
and may yet land, at the next revision, at the stamp of the announcer in its
section, at the revision of the observation under way, lands above every cursor
there is: a client's, a wait's, a stream's or a frame's. With it `Feeds` is inductive:
the frames are exact (`Coming`), a client has all it is owed up to its cursor
(`Whole`) and, once it has read, up to where it was woken (`Woken`). `FInv` is all
of this; it was checked on the instances of `JournalOwner` and `JournalAnnounced`
and on two mixed ones.

There are 21 actions and a dozen facts for each, so a step is first put into one of
six kinds by what it does to clients and frames (`StepKinds`): nothing (`Still`),
the enrolment of the request at hand (`Enrolled`), a request (`Asked`), a departure
(`Left`), a frame written (`Wrote` with `Received`), or a pass under the lock
(`Passing`), whose frames are complete up to the end of what landed (`Full`). Each
fact is then shown kind by kind. For the refinement the place of a client is the
number of records at or below its cursor, which are the first ones
(`PlaceFirst`); a pass is `Happen`, since it appends only above every place
(`Grows`), a frame that reaches its client is `Hand` or, with a loss, `HandHole`
(`Hands`), and any other step leaves the feed as it is.

`ChannelRegistryProofs` proves, for any sessions, names, clients, announcers and
channels, and no bound on renames:

* `TypeCorrect`: `Spec => []TypeOK`
* `PanesWake`: `Spec => []PanesWakeTheirSession`
* `LivingWait`: `Spec => []WaitsOfTheLiving`
* `WaitsReachable`: `Spec => []WaitsAreReachable`
* `KeysAddress`: `Spec => []AddressIsKey`, at every moment
* `UnrenamedWaits`: `Spec => []StillNoWaitStranded`

from `RegistryAssumption` (sessions are not announcers, `None` is neither a
session nor a name, the bounds are numbers). What the properties say between two
requests must be said in the middle of one too, and there the *script* says what
is the case: `Plain` (everything in its place), `Killing` (who waited on the
session killed is still where its name led, until the drain) and `Renaming` (the
panes of the session are where its *old* name leads, until the move). `Doing`
reads the phase off the next step of the script; each step of it takes one phase
to the next, and what other threads do leaves it (`PhaseStays`: a mint moves no
channel from its key). `UnrenamedWaits` needs four facts more (`Calm`), which a
rename destroys: a wait stays where its session's panes bump, a pane that moved
has raised the channel's flag or is about to, a flag that is up has a message
under the channel's name, and a channel yet to be minted has no flag.

`AgentSettlesProofs` proves, for any screens, agents, manifests, windows and
reports, any lag and no bound on acts, `TypeCorrect`, `ExactSkip`: `Spec =>
[]SkipIsExact`, and `WaitersHear`: `Spec => []StillHeard`. `AgentAssumption` says
that a manifest's own verdict names its agent and that the bounds are numbers;
`NoneAssumption` that `None` is no record.
`SkipIsExact` is not inductive: manifests may be replaced and come back, and a
screen that is unchanged *then* must still be what it was. `SeenExact` says it of
the manifests the screen was last read by, whether or not they are in force.
Three facts carry it. A look leaves as what stands either what stood or the
candidate (`LookedStands`), whatever is published of it. It changes the identity
only to what the reading found, or to nobody when what it publishes names nobody,
and then reading again for nobody finds the same (`Readings`). What takes a
report out of force forgets what was seen (`RedoKeeps`). `Armed`, that a
candidate has a window, is what the waker's sleep needs to be a number. For
`WaitersHear` the case to exclude is one who waits on a known verdict with no
deadline, was told nothing and has nobody about to tell him: then nothing is
settling and the screen is unchanged (`NothingToTell`), so no look can find
anything else without telling him.

`RunDriverProofs` proves, for any guardrails, costs, windows and journal limit:
`TypeCorrect`, `StepsWithinCeilings`, `CeilingTold`, `CutShortStops`,
`RecallHonest`, and the action property `DecisionsStay`. The invariant adds to the
type two facts: `Place` ties the loop's place to the statechart, and `Windowed`
says that without a window the deadline is the one given and a run that goes
on has met no ceiling. What touches the journal and what does not are proved
apart: a step writes one or two records, and `Remember` keeps the kinds.

`AiLoopProofs` proves, for any budgets (also switched off) and any number of
deaths: `TypeCorrect`, `HeldParks`, `ConvergesForAReason`, `NeverRecoversTwice`,
`GreetsFirst`. Its invariant must hold of the *reported place* as well as of the state, since a
death makes the one the other: `Settled` (the reason an ending has) and `Spent`
(the recovery tried last has spent its budget) are operators applied to both. `Greeted`, on top of it, says where a program that
was not briefed can be: before `priming` with nothing to say, with a boot still to
be told of, or with the brief as what is typed next; and that a place which knows
of that program is one of the first kind.

`RunStoreProofs` proves, for any drivers, deaths and daemons: `TypeCorrect`,
`OneProcessAtATime`, `AnEndIsTheEnd`, `InterruptionsAreExplained`,
`RevivalsAreBounded`. The argument is a token: a driver is *active* when its
collector waits for it, has found it dead, or is replacing it; at most one is
(`OneAtATime`), and only its holder hands it on. `Collected` ties a collector to
the process and to what the row shows, `InSight` a started driver to the row or
to the step that will write it, `Inherited` and `Phases` say what a boot has to
do still. Steps that leave all that alone are `Calm`, which one lemma deals with.
`Earned` counts revivals against reports. `StoreAssumption` and `NoneIsNoRow` are
about the constants only.

Liveness stays with TLC, since the prover has no rule for fairness:
`MatchIsAnswered` (of the journal and of the panes), `KillAnswers`,
`CandidateResolves`, `OwedLookServed`, `RunEnds`, the four of the loop,
`FateIsTold`, `CancelStops`. Of the two violated properties nothing is proved.

## 6. What is not modelled, and the plan

Not modelled, and why: the emulator and the grid (sequential data), rendering
and input of the clients, the parsing of options, keys and configuration, hooks
and files, the repository's own gates and test peers. `scene/waitFor` itself
belongs to a library; it appears as a client that may have been woken at the last
bump. The map covers a small part of the lines there are: most of the source is
tests, wire vocabulary, screens read by pattern and prose, and the parts where
order, failure and time matter are in the modules above.

That `AiLoop` is a plugin `RunDriver` allows, and a driver of `RunStore` runs one,
is argued in section 2 and not stated as a refinement: a step of the loop is
several pumps, and the counts of the driver are no state of the loop.

To come, in this order:

1. `Attachments` (`attach.rs`) and `SessionRegistry` (`registry.rs`, layouts):
   windows, panes and who sees which; `spawn_reaper` with the birth pin.
2. `HostConn` (`client.rs`, `sprag-client/src/wire.rs`): deadlines, slices,
   abandoned ids and redialling, composed with `JournalChannel`.
3. Runs driven on a thread, and holds and stand-downs carried by the row, in
   `RunStore`.

--------------------------- MODULE JournalChannel ---------------------------
(***************************************************************************)
(* One session's change journal, the readers waiting on it, and the        *)
(* threads that append to it: JournalChannel in                            *)
(* crates/sprag-host/src/notify.rs, with the handlers of                   *)
(* crates/sprag-host/src/rpc.rs that drive it.                             *)
(*                                                                         *)
(* Threads.  The dispatch owner runs every request, one at a time; the     *)
(* announcers (the settle sweep, the workers that drive runs) append on    *)
(* their own; each pane's reader thread moves the scene revision and       *)
(* appends nothing.  The journal has one lock.  Frames are collected under *)
(* it and written after it is released, so collecting and writing are two  *)
(* steps and every pass is a thread's own.                                 *)
(*                                                                         *)
(* Data.  A shape is the set of entries it lists (the session's panes and  *)
(* windows, the registry's sessions); its differences are creations and    *)
(* closings.  A batch holds the POSITIONS of its records in the history of *)
(* everything that ever landed, so two records are never confused.         *)
(***************************************************************************)
EXTENDS EventLog, FiniteSets

CONSTANTS
    Conns,          \* clients
    Subscribers,    \* those of them that subscribe as well as wait
    Announcers,     \* threads that call announce
    Owner,          \* the dispatch owner
    None,           \* no shape observed yet; nobody holds the lock
    Entries,        \* what a shape can list, by id (the code sorts by id)
    Elsewhere,      \* the entries that change with no bump of this session:
                    \* by a request scoped to another one, by a plugin thread
    Filter,         \* the events each client asks for
    MaxRevision, MaxLanded, MaxRequests     \* bounds of a checked instance

Threads == Announcers \cup {Owner}

Events == [kind : {"created", "closed"}, of : Entries]
              \cup [kind : {"announced"}, of : Announcers]

ASSUME JournalAssumption ==
    /\ IsFiniteSet(Entries) /\ Entries \subseteq Nat /\ Elsewhere \subseteq Entries
    /\ Subscribers \subseteq Conns
    /\ Owner \notin Announcers /\ None \notin Threads
    /\ Filter \in [Conns -> SUBSET Events]
    /\ MaxRevision \in Nat /\ MaxLanded \in Nat /\ MaxRequests \in Nat

VARIABLES
    revision,   \* the session's scene revision
    entries,    \* what the registry holds of the session now
    shape,      \* what the journal last saw of it
    log,        \* the ring
    parked,     \* events/waitFor replies waiting for a record
    streams,    \* events/subscribe subscriptions
    lock,       \* who holds the journal lock across steps
    stamp,      \* the revision the holder's own bump answered
    closed,     \* the session was killed and its channel drained
    pc,         \* where each thread is
    task,       \* the request the dispatch owner is running
    out,        \* the frames each thread collected and has not written
    mode,       \* what each client is doing
    open,       \* the id of its outstanding request or subscription
    cursor,     \* the last `next` it received
    told,       \* the scene revision it was last woken at and read the slot for
    nextId,
    landed,     \* history: every record that ever landed, in landing order
    got,        \* history: the positions of the records each client received
    reread      \* history: the position up to which it re-read everything

channel == <<log, parked, streams>>
client  == <<mode, open, cursor, told, got, reread>>
vars == <<revision, entries, shape, channel, lock, stamp, closed, pc, task, out,
          client, nextId, landed>>

(***************************************************************************)
(* Batches: EventLog::since through filter_batch, and who has one coming.  *)
(* `l` is the log and `total` the number of records ever landed.           *)
(***************************************************************************)
Batch(l, total, from, wanted) ==
    LET answer == Since(l, from)
        base   == total - Len(answer.records)
    IN  [events |-> {base + i : i \in {j \in 1..Len(answer.records) :
                                          answer.records[j].event \in wanted}},
         next |-> answer.next, lost |-> answer.lost]

Satisfied(batch) == batch.lost \/ batch.events # {}

BatchOf(l, total, reader) == Batch(l, total, reader.cursor, Filter[reader.conn])

Frame(id, batch) == [id |-> id, events |-> batch.events,
                     next |-> batch.next, lost |-> batch.lost]

Frames(l, total, readers) == {Frame(r.id, BatchOf(l, total, r)) : r \in readers}

\* Mutant of Fired: only a reader that lost records is woken.
FiredLost(l, total) == {w \in parked : BatchOf(l, total, w).lost}

\* take_satisfied, the waits it takes.
Fired(l, total) == {w \in parked : Satisfied(BatchOf(l, total, w))}

\* take_streamable, the subscriptions it writes to ...
Due(subs, l, total) == {s \in subs : s.armed /\ Satisfied(BatchOf(l, total, s))}

\* Mutant of Advanced: the cursor stays where the client asked from.
AdvancedNever(subs, l, total) == subs

\* ... whose cursors it advances under the lock.
Advanced(subs, l, total) ==
    (subs \ Due(subs, l, total))
        \cup {[s EXCEPT !.cursor = BatchOf(l, total, s).next] : s \in Due(subs, l, total)}

(***************************************************************************)
(* Threads.                                                                *)
(***************************************************************************)
\* Where a thread goes when it has nothing left to write.
After(t) == IF t # Owner THEN "idle"
            ELSE CASE task.kind = "wait"      -> "park"
                   [] task.kind = "subscribe" -> "enroll"
                   [] OTHER                   -> "idle"

Flush(t, frames, next) ==
    /\ out' = [out EXCEPT ![t] = @ \cup frames]
    /\ pc'  = [pc EXCEPT ![t] = IF out'[t] = {} THEN next ELSE "write"]

Goto(t, place) == pc' = [pc EXCEPT ![t] = place]

\* The tail every append shares: land the group, take who it satisfies.
\* With nothing landed both passes are skipped.
Land(t, at, events) ==
    LET l == Record(log, at, events)  total == Len(landed) + Len(events)
    IN  /\ log' = l
        /\ landed' = landed \o Keyed(at, events)
        /\ IF events = <<>>
           THEN UNCHANGED <<parked, streams>> /\ Flush(t, {}, After(t))
           ELSE /\ parked'  = parked \ Fired(l, total)
                /\ streams' = Advanced(streams, l, total)
                /\ Flush(t, Frames(l, total, Fired(l, total) \cup Due(streams, l, total)),
                         After(t))

\* A session's birth has bumped its revision (new_session).
Init ==
    /\ revision = 1 /\ entries = {} /\ shape = None /\ log = NewLog
    /\ parked = {} /\ streams = {} /\ lock = None /\ stamp = 0 /\ closed = FALSE
    /\ pc = [t \in Threads |-> "idle"] /\ task = [kind |-> "query", conn |-> None]
    /\ out = [t \in Threads |-> {}]
    /\ mode = [c \in Conns |-> "idle"] /\ open = [c \in Conns |-> 0]
    /\ cursor = [c \in Conns |-> 0] /\ told = [c \in Conns |-> 0]
    /\ nextId = 1 /\ landed = <<>>
    /\ got = [c \in Conns |-> {}] /\ reread = [c \in Conns |-> 0]

(***************************************************************************)
(* Requests, as the dispatch owner takes them (dispatch_one).              *)
(***************************************************************************)
Take(kind, c, place) ==
    /\ pc[Owner] = "idle" /\ ~closed
    /\ task' = [kind |-> kind, conn |-> c]
    /\ Goto(Owner, place)

\* A mutating method: it changes the registry, and the dispatcher bumps the
\* scoped revision after it succeeds.  A keystroke changes no shape.
Mutate(now) ==
    /\ Take("query", None, "observe")
    /\ revision < MaxRevision /\ Len(landed) < MaxLanded
    /\ entries' = now /\ revision' = revision + 1
    /\ UNCHANGED <<shape, channel, lock, stamp, closed, out, client, nextId, landed>>

\* A method that mutates nothing is observed after all the same.
Query ==
    /\ Take("query", None, "observe")
    /\ UNCHANGED <<revision, entries, shape, channel, lock, stamp, closed, out, client,
                   nextId, landed>>

\* A client sends a request that gets an id of its own.
Ask(c, doing) ==
    /\ mode[c] = "idle" /\ nextId <= MaxRequests
    /\ mode' = [mode EXCEPT ![c] = doing] /\ open' = [open EXCEPT ![c] = nextId]
    /\ nextId' = nextId + 1

WaitFor(c) ==
    /\ Take("wait", c, "observe") /\ Ask(c, "waiting")
    /\ UNCHANGED <<revision, entries, shape, channel, lock, stamp, closed, out,
                   cursor, told, got, reread, landed>>

Subscribe(c) ==
    /\ c \in Subscribers /\ Take("subscribe", c, "observe") /\ Ask(c, "opening")
    /\ UNCHANGED <<revision, entries, shape, channel, lock, stamp, closed, out,
                   cursor, told, got, reread, landed>>

\* A client woken from scene/waitFor reads the events.<since> slot.  The bump
\* that woke it may be any up to now; the latest asks the most of the read.
ReadSlot(c) ==
    /\ Take("read", c, "read") /\ Ask(c, "reading")
    /\ revision > told[c] /\ told' = [told EXCEPT ![c] = revision]
    /\ UNCHANGED <<revision, entries, shape, channel, lock, stamp, closed, out,
                   cursor, got, reread, landed>>

Unsubscribe(c) ==
    /\ pc[Owner] = "idle" /\ ~closed /\ lock = None /\ mode[c] = "streaming"
    /\ streams' = {s \in streams : s.id # open[c]}
    /\ mode' = [mode EXCEPT ![c] = "idle"] /\ open' = [open EXCEPT ![c] = 0]
    /\ UNCHANGED <<revision, entries, shape, log, parked, lock, stamp, closed, pc, task, out,
                   cursor, told, got, reread, nextId, landed>>

\* The connection closed, however it closed; its waits and its subscriptions
\* go.  A client that comes back resumes from the last `next` it received.
Disconnect(c) ==
    /\ pc[Owner] = "idle" /\ lock = None /\ mode[c] # "idle"
    /\ parked'  = {w \in parked : w.conn # c}
    /\ streams' = {s \in streams : s.conn # c}
    /\ mode' = [mode EXCEPT ![c] = "idle"] /\ open' = [open EXCEPT ![c] = 0]
    /\ told' = [told EXCEPT ![c] = 0]
    /\ UNCHANGED <<revision, entries, shape, log, lock, stamp, closed, pc, task, out,
                   cursor, got, reread, nextId, landed>>

\* kill_session from another session's request: ChannelRegistry::close bumps
\* first and drains the journal after.
Kill ==
    /\ Take("query", None, "drain")
    /\ revision < MaxRevision /\ revision' = revision + 1
    /\ UNCHANGED <<entries, shape, channel, lock, stamp, closed, out, client, nextId, landed>>

\* No request resolves to a killed session.
Refused == closed /\ pc[Owner] = "idle" /\ UNCHANGED vars

(***************************************************************************)
(* The steps of a request.                                                 *)
(***************************************************************************)
\* The strictly increasing enumerations of a finite set of numbers (one).
Sorted(S) == {f \in [1..Cardinality(S) -> S] :
                  \A i, j \in 1..Cardinality(S) : i < j => f[i] < f[j]}

Changes(kind, ids) == [i \in 1..Len(ids) |-> [kind |-> kind, of |-> ids[i]]]

\* SessionShape::diff: the entries that appeared, then those that went.
Diffs(before, now) ==
    {Changes("created", ids[1]) \o Changes("closed", ids[2]) :
        ids \in Sorted(now \ before) \X Sorted(before \ now)}

\* JournalChannel::observe.  It reads the revision under the lock and does not
\* move it; the first observation establishes the shape and records nothing.
Observe ==
    /\ pc[Owner] = "observe" /\ lock = None
    /\ \E events \in IF shape = None THEN {<<>>} ELSE Diffs(shape, entries) :
          Land(Owner, revision, events)
    /\ shape' = entries
    /\ UNCHANGED <<revision, entries, lock, stamp, closed, task, client, nextId>>

\* Mutant of ParkOrAnswer: park without looking.
ParkBlind ==
    /\ pc[Owner] = "park" /\ lock = None
    /\ task' = [task EXCEPT !.kind = "query"] /\ Goto(Owner, "idle")
    /\ parked' = parked \cup
           {[id |-> open[task.conn], conn |-> task.conn, cursor |-> cursor[task.conn]]}
    /\ UNCHANGED <<revision, entries, shape, log, streams, lock, stamp, closed, out, client,
                   nextId, landed>>

\* park_or_answer: decide and park in one lock hold.
ParkOrAnswer ==
    LET wait  == [id |-> open[task.conn], conn |-> task.conn, cursor |-> cursor[task.conn]]
        batch == BatchOf(log, Len(landed), wait)
    IN  /\ pc[Owner] = "park" /\ lock = None
        /\ task' = [task EXCEPT !.kind = "query"]
        /\ IF Satisfied(batch)
           THEN Flush(Owner, {Frame(wait.id, batch)}, "idle") /\ UNCHANGED parked
           ELSE Flush(Owner, {}, "idle") /\ parked' = parked \cup {wait}
        /\ UNCHANGED <<revision, entries, shape, log, streams, lock, stamp, closed, client,
                       nextId, landed>>

\* Mutant of Enroll: the stream is armed before its opening response is out.
EnrollArmed ==
    LET c == task.conn
    IN  /\ pc[Owner] = "enroll" /\ lock = None
        /\ streams' = streams \cup
               {[id |-> open[c], conn |-> c, cursor |-> cursor[c], armed |-> TRUE]}
        /\ Goto(Owner, "open")
        /\ UNCHANGED <<revision, entries, shape, log, parked, lock, stamp, closed, task, out,
                       client, nextId, landed>>

\* JournalChannel::subscribe registers the stream DISARMED; only then does the
\* opening response go out, and only then is the stream armed.
Enroll ==
    LET c == task.conn
    IN  /\ pc[Owner] = "enroll" /\ lock = None
        /\ streams' = streams \cup
               {[id |-> open[c], conn |-> c, cursor |-> cursor[c], armed |-> FALSE]}
        /\ Goto(Owner, "open")
        /\ UNCHANGED <<revision, entries, shape, log, parked, lock, stamp, closed, task, out,
                       client, nextId, landed>>

Opened ==
    /\ pc[Owner] = "open" /\ Goto(Owner, "arm")
    /\ mode' = [mode EXCEPT ![task.conn] = "streaming"]
    /\ UNCHANGED <<revision, entries, shape, channel, lock, stamp, closed, task, out,
                   open, cursor, told, got, reread, nextId, landed>>

\* JournalChannel::arm, and the catch-up pass it runs over every stream.
Arm ==
    LET armed == {IF s.id = open[task.conn] THEN [s EXCEPT !.armed = TRUE] ELSE s :
                      s \in streams}
    IN  /\ pc[Owner] = "arm" /\ lock = None
        /\ streams' = Advanced(armed, log, Len(landed))
        /\ task' = [task EXCEPT !.kind = "query"]
        /\ Flush(Owner, Frames(log, Len(landed), Due(armed, log, Len(landed))), "idle")
        /\ UNCHANGED <<revision, entries, shape, log, parked, lock, stamp, closed, client,
                       nextId, landed>>

\* The slot is read, unfiltered; its reply goes out after the observation.
ReadSince ==
    LET c == task.conn
    IN  /\ pc[Owner] = "read" /\ lock = None
        /\ out' = [out EXCEPT ![Owner] =
                      {Frame(open[c], Batch(log, Len(landed), cursor[c], Events))}]
        /\ Goto(Owner, "observe")
        /\ UNCHANGED <<revision, entries, shape, channel, lock, stamp, closed, task, client,
                       nextId, landed>>

\* Mutant of Drain: the waits go unanswered.
DrainDropsWaits ==
    /\ pc[Owner] = "drain" /\ lock = None
    /\ Flush(Owner, Frames(log, Len(landed), Due(streams, log, Len(landed))), "idle")
    /\ parked' = {} /\ streams' = {} /\ closed' = TRUE
    /\ UNCHANGED <<revision, entries, shape, log, lock, stamp, task, client, nextId, landed>>

\* JournalChannel::drain: every wait is answered with what its cursor sees, and
\* every subscription gets its last batch.
Drain ==
    /\ pc[Owner] = "drain" /\ lock = None
    /\ Flush(Owner, Frames(log, Len(landed), parked \cup Due(streams, log, Len(landed))), "idle")
    /\ parked' = {} /\ streams' = {} /\ closed' = TRUE
    /\ UNCHANGED <<revision, entries, shape, log, lock, stamp, task, client, nextId, landed>>

(***************************************************************************)
(* The other threads, and the wire.                                        *)
(***************************************************************************)
\* Mutant of AnnounceBump: the lock is taken only for the append.
AnnounceUnlocked(a) ==
    /\ pc[a] = "idle" /\ lock = None
    /\ revision < MaxRevision /\ Len(landed) < MaxLanded
    /\ revision' = revision + 1 /\ lock' = lock /\ stamp' = revision' /\ Goto(a, "append")
    /\ UNCHANGED <<entries, shape, channel, closed, task, out, client, nextId, landed>>

\* JournalChannel::announce holds the lock across the bump, whose observer
\* answers the parked scene/waitFor replies before the record is in.  A thread
\* that fetched the channel before a kill may still announce into it.
AnnounceBump(a) ==
    /\ pc[a] = "idle" /\ lock = None
    /\ revision < MaxRevision /\ Len(landed) < MaxLanded
    /\ revision' = revision + 1 /\ lock' = a /\ stamp' = revision' /\ Goto(a, "append")
    /\ UNCHANGED <<entries, shape, channel, closed, task, out, client, nextId, landed>>

\* The record's key is the number its own bump answered; a pane may have moved
\* the revision since.
AnnounceAppend(a) ==
    /\ pc[a] = "append"
    /\ Land(a, stamp, <<[kind |-> "announced", of |-> a]>>)
    /\ lock' = None
    /\ UNCHANGED <<revision, entries, shape, stamp, closed, task, client, nextId>>

\* A frame reaches the client if it is still the answer it is waiting for, or
\* the subscription it holds.
Deliver(c, f) ==
    /\ got'    = [got EXCEPT ![c] = @ \cup f.events]
    /\ cursor' = [cursor EXCEPT ![c] = f.next]
    /\ reread' = [reread EXCEPT ![c] = IF f.lost THEN Len(landed) ELSE @]
    /\ IF mode[c] = "streaming" THEN UNCHANGED <<mode, open>>
       ELSE mode' = [mode EXCEPT ![c] = "idle"] /\ open' = [open EXCEPT ![c] = 0]

\* JournalChannel::answer and write_all, with no lock held.
Send(t) ==
    /\ pc[t] = "write"
    /\ \E f \in out[t] :
          /\ out' = [out EXCEPT ![t] = @ \ {f}]
          /\ IF \E c \in Conns : open[c] = f.id
             THEN \E c \in Conns : open[c] = f.id /\ Deliver(c, f)
             ELSE UNCHANGED <<got, cursor, reread, mode, open>>
    /\ Goto(t, IF out'[t] = {} THEN After(t) ELSE "write")
    /\ UNCHANGED <<revision, entries, shape, channel, lock, stamp, closed, task, told,
                   nextId, landed>>

\* A batch of pane output: bump_on_dirty.
PaneOutput ==
    /\ revision < MaxRevision /\ revision' = revision + 1
    /\ UNCHANGED <<entries, shape, channel, lock, stamp, closed, pc, task, out, client,
                   nextId, landed>>

\* The registry changes and this session's revision does not.
ChangeElsewhere(e) ==
    /\ Len(landed) < MaxLanded
    /\ entries' = IF e \in entries THEN entries \ {e} ELSE entries \cup {e}
    /\ UNCHANGED <<revision, shape, channel, lock, stamp, closed, pc, task, out, client,
                   nextId, landed>>

(***************************************************************************)
(* The specification.                                                      *)
(***************************************************************************)
Request ==
    \/ \E now \in SUBSET Entries : Mutate(now)
    \/ Query \/ Kill \/ Refused
    \/ \E c \in Conns : \/ WaitFor(c) \/ Subscribe(c) \/ ReadSlot(c)
                        \/ Unsubscribe(c) \/ Disconnect(c)

OwnerStep ==
    Observe \/ ParkOrAnswer \/ Enroll \/ Opened \/ Arm \/ ReadSince \/ Drain \/ Send(Owner)

AnnouncerStep(a) == AnnounceAppend(a) \/ Send(a)

Next ==
    \/ Request \/ OwnerStep \/ PaneOutput
    \/ \E a \in Announcers : AnnounceBump(a) \/ AnnouncerStep(a)
    \/ \E e \in Elsewhere : ChangeElsewhere(e)

\* A thread that has begun a pass finishes it: no step of one blocks on
\* anything but the journal lock, which its holder releases in one step.
\* Nothing obliges a client to ask, a pane to print or an announcer to speak.
Fairness == WF_vars(OwnerStep) /\ \A a \in Announcers : WF_vars(AnnouncerStep(a))

Spec == Init /\ [][Next]_vars /\ Fairness

(***************************************************************************)
(* Properties.                                                             *)
(***************************************************************************)
\* Every variable has the shape its code has, and the ring keeps its bound.
TypeOK ==
    /\ revision \in Nat /\ stamp \in Nat /\ nextId \in Nat \ {0}
    /\ entries \subseteq Entries /\ shape \in (SUBSET Entries) \cup {None}
    /\ landed \in Seq([revision : Nat, event : Events])
    /\ log \in [records : Seq([revision : Nat, event : Events]), evictedThrough : Nat]
    /\ Len(log.records) <= Capacity
    /\ parked \subseteq [id : Nat, conn : Conns, cursor : Nat]
    /\ streams \subseteq [id : Nat, conn : Conns, cursor : Nat, armed : BOOLEAN]
    /\ lock \in Announcers \cup {None} /\ closed \in BOOLEAN
    /\ pc \in [Threads -> {"idle", "observe", "park", "enroll", "open", "arm",
                           "read", "drain", "append", "write"}]
    /\ task \in [kind : {"query", "wait", "subscribe", "read"}, conn : Conns \cup {None}]
    /\ out \in [Threads -> SUBSET [id : Nat, events : SUBSET Nat, next : Nat, lost : BOOLEAN]]
    /\ mode \in [Conns -> {"idle", "waiting", "opening", "reading", "streaming"}]
    /\ open \in [Conns -> Nat] /\ cursor \in [Conns -> Nat] /\ told \in [Conns -> Nat]
    /\ got \in [Conns -> SUBSET Nat] /\ reread \in [Conns -> Nat]

\* The assertion in EventLog::record never fires: whoever appends next, an
\* observation at the current revision or an announcer at its own stamp, does
\* not go backwards.  Two threads and a reader moving the revision in between
\* are what could break it.
NeverBackwards ==
    /\ RecordGuard(log, revision)
    /\ \A a \in Announcers : pc[a] = "append" => RecordGuard(log, stamp)

\* `lost` says exactly that a record this cursor had not read was evicted, for
\* every cursor, also when an eviction splits a group keyed by one revision.
LostIsExact ==
    \A from \in 0..revision :
        Since(log, from).lost <=>
            \E n \in 1..(Len(landed) - Len(log.records)) : landed[n].revision > from

\* Nobody is left behind: no parked wait and no armed subscription has a batch
\* coming to it.  A wait parked between the check and an append would have.
NobodyIsOwed ==
    /\ Fired(log, Len(landed)) = {}
    /\ Due(streams, log, Len(landed)) = {}

Mine(c, t) == {f \in out[t] : f.id = open[c]}

\* A client holding the cursor `next` has been given every record up to it that
\* matches its filter, or was told of the hole and re-read everything: the
\* exact resume of events/subscribe ("Nothing is skipped and nothing is
\* replayed", crates/sprag-rpc/src/client.rs) and the ring's "a reader is never
\* handed a silently truncated list" (events.rs).
NothingSkipped ==
    \A c \in Conns : \A n \in 1..Len(landed) :
        landed[n].revision <= cursor[c] /\ landed[n].event \in Filter[c]
            => n \in got[c] \/ n <= reread[c]

\* No record is on its way to a client that has it, or twice on its way: the
\* cursor advances under the lock of the append, "exactly once" in notify.rs.
NeverTwice ==
    \A c \in Conns : \A t, u \in Threads : \A f \in Mine(c, t), g \in Mine(c, u) :
        /\ f.events \cap got[c] = {}
        /\ t # u \/ f # g => f.events \cap g.events = {}

\* A notification is never written for a subscription whose id its client has
\* not learned yet: streams are enrolled disarmed.
NotifiedAfterOpening ==
    \A c \in Conns : mode[c] = "opening" => \A t \in Threads : Mine(c, t) = {}

\* A client woken from scene/waitFor that has read the slot holds every record
\* keyed by the revision it was woken at or below: the reason announce holds
\* the lock across its bump.
WokenReadIsComplete ==
    \A c \in Conns : mode[c] # "reading" =>
        \A n \in 1..Len(landed) :
            landed[n].revision <= told[c] /\ landed[n].event \in Filter[c]
                => n \in got[c] \/ n <= reread[c]

\* Records reach a client in the order they landed.
InOrder ==
    [][\A c \in Conns : \A n \in got'[c] \ got[c] : \A m \in got[c] : m < n]_vars

\* A killed session keeps nobody: nothing stays parked or subscribed.
KillReleasesAll == closed => parked = {} /\ streams = {}

\* A parked client whose record is in the journal is answered, unless it goes.
MatchIsAnswered ==
    \A c \in Conns :
        (/\ mode[c] = "waiting"
         /\ \E n \in 1..Len(landed) : landed[n].revision > cursor[c]
                                      /\ landed[n].event \in Filter[c])
            ~> mode[c] # "waiting"

\* Killing the session answers every client waiting on it.
KillAnswers == closed ~> \A c \in Conns : mode[c] # "waiting"
=============================================================================

--------------------------- MODULE ChannelRegistry ---------------------------
(***************************************************************************)
(* The daemon's map from session NAME to change channel: ChannelRegistry   *)
(* in crates/sprag-host/src/notify.rs, as the requests of                  *)
(* crates/sprag-host/src/workspace.rs and rpc.rs drive it.                 *)
(*                                                                         *)
(* A session has an identity and a name; only the name moves.  A pane      *)
(* captured its session's revision token at birth, so a channel is an      *)
(* object that outlives its key; a parked wait is on a channel; a message  *)
(* to the dispatch owner, the work of a request and the announcers of a    *)
(* run hold a NAME.  What goes wrong here goes wrong between the two.      *)
(*                                                                         *)
(* A session has one pane, and a wait is a question about its revision:    *)
(* the arming and the passes of a channel are PaneWait's subject and are   *)
(* one step each.                                                          *)
(***************************************************************************)
EXTENDS Integers, Sequences, FiniteSets

CONSTANTS
    Sessions, Names, Clients,
    Workers,        \* threads that announce for a session by name
    None,
    MaxChannels, MaxMoves, MaxParks, MaxRenames, MaxSpoken

ASSUME RegistryAssumption ==
    /\ Sessions \cap Workers = {} /\ None \notin Names \cup Sessions
    /\ MaxChannels \in Nat /\ MaxMoves \in Nat /\ MaxParks \in Nat
    /\ MaxRenames \in Nat /\ MaxSpoken \in Nat

Channels == 1..MaxChannels
Threads  == Sessions \cup Workers       \* a pane's reader thread, and workers

VARIABLES
    name,       \* the registry: each live session's name
    born,       \* the sessions there have been
    token,      \* the channel each session's pane captured (0: no pane yet)
    moved,      \* the revision of the pane
    channel,    \* ChannelRegistry::channels (0: no channel)
    minted,     \* how many channels there have been
    address,    \* SessionChannel::address
    waits,      \* the revision waits parked in each channel
    queued,     \* their PaneWaitChannel::queued
    at, on, to, \* each waking thread: where it is, the channel it bumped, the
                \* name it read for its message
    caught,     \* the session a worker speaks for and the name it captured
    fifo,       \* the OutputMoved messages to the dispatch owner, by name
    script,     \* what is left of the request the owner is running
    scope,      \* the session it is scoped to, and its name as it was resolved
    parks, renames, spoken, \* how often
    astray      \* history: announcements that landed in another channel than
                \* their live session's

registry == <<name, born, token, moved>>
map      == <<channel, minted, address>>
thread   == <<at, on, to, caught>>
counts   == <<parks, renames, spoken>>
vars == <<registry, map, waits, queued, thread, fifo, script, scope, counts, astray>>

Live == {s \in Sessions : name[s] # None}

Init ==
    /\ name = [s \in Sessions |-> None] /\ born = {}
    /\ token = [s \in Sessions |-> 0] /\ moved = [s \in Sessions |-> 0]
    /\ channel = [n \in Names |-> 0] /\ minted = 0
    /\ address = [ch \in Channels |-> None]
    /\ waits = [ch \in Channels |-> {}] /\ queued = [ch \in Channels |-> FALSE]
    /\ at = [t \in Threads |-> "idle"] /\ on = [t \in Threads |-> 0]
    /\ to = [t \in Threads |-> None]
    /\ caught = [w \in Workers |-> [session |-> None, name |-> None]]
    /\ fifo = <<>> /\ script = <<>> /\ scope = [session |-> None, name |-> None]
    /\ parks = 0 /\ renames = 0 /\ spoken = 0 /\ astray = {}

(***************************************************************************)
(* Channels.                                                               *)
(***************************************************************************)
\* ChannelRegistry::entry: the channel of a name, minted on first use ...
Entry(n) == IF channel[n] # 0 THEN channel[n] ELSE minted + 1

\* ... which leaves it in the map under that address.
Mint(n) ==
    /\ Entry(n) <= MaxChannels
    /\ channel' = [channel EXCEPT ![n] = Entry(n)]
    /\ minted'  = IF Entry(n) > minted THEN Entry(n) ELSE minted
    /\ address' = [address EXCEPT ![Entry(n)] = n]

\* PaneWaitChannel::arm.
Arms(ch) == waits[ch] # {} /\ ~queued[ch]

\* A bump by the dispatch owner: it runs the observer itself, and can meet no
\* rename.  The name of a channel just reached by its key is that key.
Signal(ch, n) ==
    IF Arms(ch) THEN queued' = [queued EXCEPT ![ch] = TRUE] /\ fifo' = Append(fifo, n)
    ELSE UNCHANGED <<queued, fifo>>

\* evaluate, with a look that finds panes through the session's NAME.
Answered(ch, n) ==
    {w \in waits[ch] : name[w.session] = n /\ moved[w.session] > w.since}

(***************************************************************************)
(* Requests: each changes the registry and leaves a script of what it does *)
(* to the channels, which the owner runs before it takes anything else.    *)
(***************************************************************************)
Do(what, n) == [do |-> what, name |-> n]

\* SessionScope::resolve, and the channel dispatch_one reaches for the name.
Scoped(s) ==
    /\ script = <<>> /\ s \in Live
    /\ scope' = [session |-> s, name |-> name[s]]

\* The daemon's first session, and new_session's.
New(s, n) ==
    /\ script = <<>> /\ s \notin born /\ \A other \in Live : name[other] # n
    /\ IF Live = {} THEN scope' = [session |-> s, name |-> n]
       ELSE \E asking \in Live : Scoped(asking)
    /\ born' = born \cup {s} /\ name' = [name EXCEPT ![s] = n]
    /\ Mint(n) /\ token' = [token EXCEPT ![s] = Entry(n)]
    /\ script' = <<Do("bump", n), Do("bump", scope'.name), Do("observe", scope'.name)>>
    /\ UNCHANGED <<moved, waits, queued, thread, fifo, counts, astray>>

Query(s) ==
    /\ Scoped(s) /\ script' = <<Do("observe", name[s])>>
    /\ UNCHANGED <<registry, map, waits, queued, thread, fifo, counts, astray>>

\* rename_session, to another name; the registry moves first.
Rename(s, n) ==
    /\ Scoped(s) /\ renames < MaxRenames /\ renames' = renames + 1
    /\ \A other \in Live : name[other] # n
    /\ name' = [name EXCEPT ![s] = n]
    /\ script' = <<Do("check", n), [do |-> "move", from |-> name[s], name |-> n],
                   Do("bump", n), Do("observe", n)>>
    /\ UNCHANGED <<born, token, moved, map, waits, queued, thread, fifo, parks, spoken, astray>>

\* Mutant of Kill: the channel is forgotten before it is drained.
KillForgetsFirst(asking, s) ==
    /\ Scoped(asking) /\ s \in Live /\ Live # {s}
    /\ name' = [name EXCEPT ![s] = None]
    /\ script' = <<Do("forget", name[s]), Do("drain", name[s]),
                   Do("bump", name[asking]), Do("observe", name[asking])>>
    /\ UNCHANGED <<born, token, moved, map, waits, queued, thread, fifo, counts, astray>>

\* kill_session, from any session's request, its own included; the last
\* session is not removed, its death is the server's.
Kill(asking, s) ==
    /\ Scoped(asking) /\ s \in Live /\ Live # {s}
    /\ name' = [name EXCEPT ![s] = None]
    /\ script' = <<Do("drain", name[s]), Do("forget", name[s]),
                   Do("bump", name[asking]), Do("observe", name[asking])>>
    /\ UNCHANGED <<born, token, moved, map, waits, queued, thread, fifo, counts, astray>>

\* pane/waitForRevision: park, and evaluate at once.
Park(c, s) ==
    LET ch == Entry(name[s])
        w  == [conn |-> c, session |-> s, since |-> moved[s]]
    IN  /\ Scoped(s) /\ parks < MaxParks /\ parks' = parks + 1
        /\ Mint(name[s])
        /\ waits' = [waits EXCEPT ![ch] = {v \in @ : v.conn # c \/ v.session # s} \cup {w}]
        /\ script' = <<Do("evaluate", name[s])>>
        /\ UNCHANGED <<registry, queued, thread, fifo, renames, spoken, astray>>

\* Disconnect: ChannelRegistry::release walks the channels in the map.
Disconnect(c) ==
    /\ script = <<>> /\ \E ch \in Channels : \E w \in waits[ch] : w.conn = c
    /\ waits' = [ch \in Channels |->
                    IF \E n \in Names : channel[n] = ch
                    THEN {w \in waits[ch] : w.conn # c} ELSE waits[ch]]
    /\ UNCHANGED <<registry, map, queued, thread, fifo, script, scope, counts, astray>>

\* A message is taken: its name is looked up now.
TakePass ==
    /\ script = <<>> /\ fifo # <<>>
    /\ fifo' = Tail(fifo) /\ script' = <<Do("evaluate", Head(fifo))>>
    /\ UNCHANGED <<registry, map, waits, queued, thread, scope, counts, astray>>

(***************************************************************************)
(* The steps of a script.                                                  *)
(***************************************************************************)
Step(what) == script # <<>> /\ Head(script).do = what

\* ChannelRegistry::bump.
Bump ==
    LET n == Head(script).name  IN
    /\ Step("bump") /\ Mint(n) /\ Signal(Entry(n), n) /\ script' = Tail(script)
    /\ UNCHANGED <<registry, waits, thread, scope, counts, astray>>

\* dispatch_one observes the scoped session under the name it has now, or under
\* the one it was resolved by if it is gone.
Observe ==
    LET s == scope.session
        n == IF name[s] # None THEN name[s] ELSE scope.name
    IN  /\ Step("observe") /\ Mint(n) /\ script' = Tail(script)
        /\ UNCHANGED <<registry, waits, queued, thread, fifo, scope, counts, astray>>

\* Mutant of Evaluate: the flag stays up.
EvaluateFlagged ==
    LET n == Head(script).name  IN
    /\ Step("evaluate") /\ Mint(n) /\ script' = Tail(script)
    /\ waits'  = [waits EXCEPT ![Entry(n)] = @ \ Answered(Entry(n), n)]
    /\ UNCHANGED <<registry, queued, thread, fifo, scope, counts, astray>>

\* evaluate_revision_waits.
Evaluate ==
    LET n == Head(script).name  IN
    /\ Step("evaluate") /\ Mint(n) /\ script' = Tail(script)
    /\ queued' = [queued EXCEPT ![Entry(n)] = FALSE]
    /\ waits'  = [waits EXCEPT ![Entry(n)] = @ \ Answered(Entry(n), n)]
    /\ UNCHANGED <<registry, thread, fifo, scope, counts, astray>>

\* Mutant of Drain: the waits are left in the channel.
DrainNothing ==
    LET n == Head(script).name  IN
    /\ Step("drain") /\ Mint(n) /\ Signal(Entry(n), n) /\ script' = Tail(script)
    /\ UNCHANGED <<registry, waits, thread, scope, counts, astray>>

\* ChannelRegistry::close bumps and drains ...
Drain ==
    LET n == Head(script).name  IN
    /\ Step("drain") /\ Mint(n) /\ Signal(Entry(n), n) /\ script' = Tail(script)
    /\ waits' = [waits EXCEPT ![Entry(n)] = {}]
    /\ UNCHANGED <<registry, thread, scope, counts, astray>>

\* ... and then removes.
Forget ==
    /\ Step("forget") /\ script' = Tail(script)
    /\ channel' = [channel EXCEPT ![Head(script).name] = 0]
    /\ UNCHANGED <<registry, minted, address, waits, queued, thread, fifo, scope, counts, astray>>

\* ChannelRegistry::rename: a stale channel on the new name is closed ...
Check ==
    LET n == Head(script).name  IN
    /\ Step("check")
    /\ script' = (IF channel[n] # 0 THEN <<Do("drain", n), Do("forget", n)>> ELSE <<>>)
                     \o Tail(script)
    /\ UNCHANGED <<registry, map, waits, queued, thread, fifo, scope, counts, astray>>

\* Mutant of Move: the channel is minted afresh.
MoveMints ==
    /\ Step("move") /\ script' = Tail(script)
    /\ channel' = [channel EXCEPT ![Head(script).from] = 0]
    /\ UNCHANGED <<registry, minted, address, waits, queued, thread, fifo, scope, counts, astray>>

\* ... and the session's own is carried over, address and all.
Move ==
    LET from == Head(script).from  n == Head(script).name  IN
    /\ Step("move") /\ script' = Tail(script)
    /\ IF channel[from] = 0 THEN UNCHANGED <<channel, address>>
       ELSE /\ channel' = [channel EXCEPT ![from] = 0, ![n] = channel[from]]
            /\ address' = [address EXCEPT ![channel[from]] = n]
    /\ UNCHANGED <<registry, minted, waits, queued, thread, fifo, scope, counts, astray>>

(***************************************************************************)
(* The other threads.                                                      *)
(***************************************************************************)
\* A pane moves, then bumps the token it captured; the last bumps of a dying
\* pane come after its session is gone.
PaneMoves(s) ==
    /\ at[s] = "idle" /\ token[s] # 0 /\ moved[s] < MaxMoves
    /\ moved' = [moved EXCEPT ![s] = @ + 1]
    /\ at' = [at EXCEPT ![s] = "arm"] /\ on' = [on EXCEPT ![s] = token[s]]
    /\ UNCHANGED <<name, born, token, map, waits, queued, to, caught, fifo, script, scope,
                   counts, astray>>

\* A run is started in a session (run_announcers), or the sweep lists its
\* sessions: the name is captured.
Catch(w, s) ==
    /\ caught[w].session = None /\ s \in Live
    /\ caught' = [caught EXCEPT ![w] = [session |-> s, name |-> name[s]]]
    /\ UNCHANGED <<registry, map, waits, queued, at, on, to, fifo, script, scope, counts, astray>>

\* ChannelRegistry::announce: the entry of the captured name, and its bump.
Speak(w) ==
    LET s == caught[w].session  n == caught[w].name  IN
    /\ at[w] = "idle" /\ s # None /\ spoken < MaxSpoken /\ spoken' = spoken + 1
    /\ Mint(n)
    /\ at' = [at EXCEPT ![w] = "arm"] /\ on' = [on EXCEPT ![w] = Entry(n)]
    /\ astray' = IF s \in Live /\ Entry(n) # token[s] THEN astray \cup {w} ELSE astray
    /\ UNCHANGED <<registry, waits, queued, to, caught, fifo, script, scope, parks, renames>>

\* The observer, on the thread that bumped: arm ...
Arm(t) ==
    /\ at[t] = "arm"
    /\ IF Arms(on[t])
       THEN queued' = [queued EXCEPT ![on[t]] = TRUE] /\ at' = [at EXCEPT ![t] = "fire"]
       ELSE at' = [at EXCEPT ![t] = "idle"] /\ UNCHANGED queued
    /\ UNCHANGED <<registry, map, waits, on, to, caught, fifo, script, scope, counts, astray>>

\* ... read the address ...
Fire(t) ==
    /\ at[t] = "fire" /\ at' = [at EXCEPT ![t] = "send"]
    /\ to' = [to EXCEPT ![t] = address[on[t]]]
    /\ UNCHANGED <<registry, map, waits, queued, on, caught, fifo, script, scope, counts, astray>>

\* ... and send.
Send(t) ==
    /\ at[t] = "send" /\ at' = [at EXCEPT ![t] = "idle"]
    /\ fifo' = Append(fifo, to[t])
    /\ UNCHANGED <<registry, map, waits, queued, on, to, caught, script, scope, counts, astray>>

(***************************************************************************)
(* The specification.                                                      *)
(***************************************************************************)
Request ==
    \/ \E s \in Sessions : \/ Query(s)
                           \/ \E n \in Names : New(s, n) \/ Rename(s, n)
                           \/ \E asking \in Sessions : Kill(asking, s)
                           \/ \E c \in Clients : Park(c, s)
    \/ \E c \in Clients : Disconnect(c)

OwnerStep ==
    TakePass \/ Bump \/ Observe \/ Evaluate \/ Drain \/ Forget \/ Check \/ Move

\* A checked instance ends where its channels do.
Bounded == minted = MaxChannels /\ UNCHANGED vars

Next ==
    \/ Request \/ OwnerStep \/ Bounded
    \/ \E s \in Sessions : PaneMoves(s) \/ \E w \in Workers : Catch(w, s)
    \/ \E w \in Workers : Speak(w)
    \/ \E t \in Threads : Arm(t) \/ Fire(t) \/ Send(t)

Spec == Init /\ [][Next]_vars

(***************************************************************************)
(* Properties.                                                             *)
(***************************************************************************)
TypeOK ==
    /\ name \in [Sessions -> Names \cup {None}] /\ born \subseteq Sessions
    /\ token \in [Sessions -> 0..MaxChannels] /\ moved \in [Sessions -> Nat]
    /\ channel \in [Names -> 0..minted] /\ minted \in 0..MaxChannels
    /\ address \in [Channels -> Names \cup {None}]
    /\ waits \in [Channels -> SUBSET [conn : Clients, session : Sessions, since : Nat]]
    /\ queued \in [Channels -> BOOLEAN]
    /\ at \in [Threads -> {"idle", "arm", "fire", "send"}]
    /\ on \in [Threads -> 0..MaxChannels] /\ to \in [Threads -> Names \cup {None}]
    /\ caught \in [Workers -> [session : Sessions \cup {None}, name : Names \cup {None}]]
    /\ fifo \in Seq(Names)
    /\ scope \in [session : Sessions \cup {None}, name : Names \cup {None}]
    /\ astray \subseteq Workers

\* Between requests: a live session's panes bump the channel its name reaches,
\* so its clients hear it however it has been renamed.
PanesWakeTheirSession ==
    script = <<>> => \A s \in Live : token[s] = channel[name[s]]

\* A channel answers to the key it is under, so a message names a session that
\* was there when the name was read.
AddressIsKey == \A n \in Names : channel[n] # 0 => address[channel[n]] = n

\* A client that leaves takes all its waits with it: each is in a channel that
\* release walks over.
WaitsAreReachable ==
    \A ch \in Channels : waits[ch] # {} => \E n \in Names : channel[n] = ch

\* Between requests: nobody waits on a session that is gone, and everybody who
\* waits is where the session's panes will wake him.
WaitsOfTheLiving ==
    script = <<>> =>
        \A ch \in Channels : \A w \in waits[ch] : w.session \in Live /\ token[w.session] = ch

\* Between requests: a wait whose pane has moved has a pass coming, sent or
\* about to be sent under the name its session has.
NoWaitStranded ==
    script = <<>> =>
        \A ch \in Channels : \A w \in waits[ch] :
            moved[w.session] > w.since =>
                \/ \E i \in 1..Len(fifo) : fifo[i] = name[w.session]
                \/ \E t \in Threads : \/ at[t] \in {"arm", "fire"} /\ on[t] = ch
                                      \/ at[t] = "send" /\ to[t] = name[w.session]

\* The same where nothing was renamed, whatever was born and killed.
StillNoWaitStranded == renames = 0 => NoWaitStranded

\* What is announced for a live session lands in the channel its clients read.
AnnouncementsLand == astray = {}

\* The same where nothing was renamed.
StillAnnouncementsLand == renames = 0 => AnnouncementsLand

\* The map is "the size of the LIVE session set rather than of every session
\* the daemon has ever held" (notify.rs).
MapIsLive ==
    script = <<>> => \A n \in Names : channel[n] # 0 => \E s \in Live : name[s] = n
=============================================================================

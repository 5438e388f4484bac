------------------------ MODULE ChannelRegistryProofs ------------------------
(***************************************************************************)
(* That names, channels, panes and waits agree, for any sessions, names,   *)
(* clients and announcers.  What a request leaves to be done is said by    *)
(* its script: while a session is being renamed its panes are where its    *)
(* old name leads, and while one is being killed what waited on it is      *)
(* where its name led.                                                     *)
(***************************************************************************)
EXTENDS ChannelRegistry, TLAPS, SequenceTheorems

\* What stands behind TypeOK: a channel that was minted has an address, and a
\* thread that bumped one holds a channel, then a name.
Typed ==
    /\ TypeOK
    /\ \A ch \in 1..minted : address[ch] \in Names
    /\ \A s \in Sessions : token[s] \in 0..minted
    /\ \A t \in Threads : at[t] # "idle" => on[t] \in 1..minted
    /\ \A t \in Threads : at[t] = "send" => to[t] \in Names
    /\ \A w \in Workers : caught[w].session # None => caught[w].name \in Names

Waiters == [conn : Clients, session : Sessions, since : Nat]

Keyed ==
    /\ AddressIsKey
    /\ Live \subseteq born
    /\ \A s, o \in Live : name[s] = name[o] => s = o

\* The panes of a session bump the channel that a name leads to.
Placed(s, k) == token[s] # 0 /\ token[s] = channel[k]
Settled == \A s \in Live : Placed(s, name[s])

InPlace(w, ch) == w.session \in Live /\ token[w.session] = ch
Waiting == \A ch \in Channels : \A w \in waits[ch] : InPlace(w, ch)

\* What a request leaves to be done.
Moves(f, n)  == [do |-> "move", from |-> f, name |-> n]
Last(m)      == <<Do("observe", m)>>
After(m)     == <<Do("bump", m), Do("observe", m)>>
Bearing(n, m) == <<Do("bump", n), Do("bump", m), Do("observe", m)>>
Kill1(k, m)  == <<Do("drain", k), Do("forget", k), Do("bump", m), Do("observe", m)>>
Kill2(k, m)  == <<Do("forget", k), Do("bump", m), Do("observe", m)>>
Rename1(f, n) == <<Do("check", n), Moves(f, n), Do("bump", n), Do("observe", n)>>
Rename2(f, n) == <<Do("drain", n), Do("forget", n), Moves(f, n), Do("bump", n),
                   Do("observe", n)>>
Rename3(f, n) == <<Do("forget", n), Moves(f, n), Do("bump", n), Do("observe", n)>>
Rename4(f, n) == <<Moves(f, n), Do("bump", n), Do("observe", n)>>

Observing == scope \in [session : Sessions, name : Names]

Plain ==
    /\ Settled /\ Waiting
    /\ \/ script = <<>>
       \/ \E n \in Names : script = <<Do("evaluate", n)>>
       \/ /\ Observing
          /\ \E n, m \in Names : script \in {Bearing(n, m), After(m), Last(m)}

Killing(k, m) ==
    /\ Observing /\ Settled
    /\ \A s \in Live : name[s] # k
    /\ \/ /\ script = Kill1(k, m)
          /\ \A ch \in Channels : \A w \in waits[ch] : InPlace(w, ch) \/ channel[k] = ch
       \/ script = Kill2(k, m) /\ Waiting

Renaming(s, f) ==
    /\ Observing /\ Waiting
    /\ s \in Live /\ Placed(s, f)
    /\ \A o \in Live : name[o] # f
    /\ \A o \in Live \ {s} : Placed(o, name[o])
    /\ script \in {Rename1(f, name[s]), Rename2(f, name[s]), Rename3(f, name[s]),
                   Rename4(f, name[s])}

Phase ==
    \/ Plain
    \/ \E k, m \in Names : Killing(k, m)
    \/ \E s \in Sessions, f \in Names : Renaming(s, f)

Inv == Typed /\ Keyed /\ Phase

\* A wait is where its session's panes have always bumped, and a channel yet to
\* be minted has no pass.
Fresh == \A ch \in Channels : ch > minted => ~queued[ch]
Touched == \A ch \in Channels : \A w \in waits[ch] :
               w.session \in born /\ token[w.session] = ch

\* A pass that is coming for a name, and what one comes for where nothing was
\* renamed: the flag of every channel in the map, and every pane that moved.
Coming(n) ==
    \/ script = <<Do("evaluate", n)>>
    \/ \E i \in 1..Len(fifo) : fifo[i] = n
    \/ \E t \in Threads : \/ at[t] = "fire" /\ on[t] = channel[n]
                          \/ at[t] = "send" /\ to[t] = n

FlagComes == \A n \in Names : channel[n] # 0 /\ queued[channel[n]] => Coming(n)

Flagged(ch) == queued[ch] \/ \E t \in Threads : at[t] = "arm" /\ on[t] = ch

MovedIsFlagged ==
    \A ch \in Channels : \A w \in waits[ch] :
        moved[w.session] > w.since => Flagged(ch)

Deeds == [do : {"bump", "observe", "evaluate", "drain", "forget"}, name : Names]

Calm == Fresh /\ Touched /\ script \in Seq(Deeds) /\ FlagComes /\ MovedIsFlagged

Awake == renames \in Nat /\ (renames = 0 => Calm)

-----------------------------------------------------------------------------
(* Names and channels.                                                     *)

\* No channel is under two keys.
LEMMA OneKey ==
    ASSUME Keyed, NEW n \in Names, NEW m \in Names, channel[n] = channel[m], channel[n] # 0
    PROVE  n = m
  BY DEF Keyed, AddressIsKey

LEMMA LiveNamed == ASSUME Typed, NEW s \in Live  PROVE s \in Sessions /\ name[s] \in Names
  BY DEF Typed, TypeOK, Live

\* Minting leaves the channels there are where they are.
LEMMA Mints ==
    ASSUME Typed, Keyed, NEW n \in Names, Mint(n)
    PROVE  /\ Entry(n) \in Channels /\ Entry(n) \in 1..minted' /\ minted <= minted'
           /\ minted' \in 0..MaxChannels
           /\ channel' \in [Names -> 0..minted'] /\ channel'[n] = Entry(n)
           /\ \A m \in Names : m # n => channel'[m] = channel[m]
           /\ \A m \in Names : channel[m] # 0 => channel'[m] = channel[m]
           /\ address' \in [Channels -> Names \cup {None}]
           /\ \A ch \in 1..minted' : address'[ch] \in Names
           /\ AddressIsKey'
<1>1. /\ channel \in [Names -> 0..minted] /\ minted \in 0..MaxChannels /\ MaxChannels \in Nat
      /\ address \in [Channels -> Names \cup {None}]
      /\ \A ch \in 1..minted : address[ch] \in Names
      /\ AddressIsKey
  BY RegistryAssumption DEF Typed, TypeOK, Keyed
<1>2. /\ Entry(n) <= MaxChannels
      /\ channel' = [channel EXCEPT ![n] = Entry(n)]
      /\ minted'  = IF Entry(n) > minted THEN Entry(n) ELSE minted
      /\ address' = [address EXCEPT ![Entry(n)] = n]
  BY DEF Mint
<1>3. CASE channel[n] # 0
  <2>1. Entry(n) = channel[n] /\ channel[n] \in 1..minted  BY <1>1, <1>3 DEF Entry
  <2>2. minted' = minted /\ channel' = channel  BY <1>1, <1>2, <2>1
  <2>3. Entry(n) \in Channels  BY <1>1, <2>1 DEF Channels
  <2>4. address' = address  BY <1>1, <1>2, <1>3, <2>1, <2>3 DEF AddressIsKey
  <2>5. QED  BY <1>1, <2>1, <2>2, <2>3, <2>4 DEF AddressIsKey
<1>4. CASE channel[n] = 0
  <2>1. Entry(n) = minted + 1  BY <1>4 DEF Entry
  <2>2. minted' = minted + 1 /\ minted + 1 <= MaxChannels  BY <1>1, <1>2, <2>1
  <2>3. Entry(n) \in Channels /\ Entry(n) \in 1..minted'
    BY <1>1, <2>1, <2>2 DEF Channels
  <2>4. channel' \in [Names -> 0..minted'] /\ channel'[n] = Entry(n)
    BY <1>1, <1>2, <2>1, <2>2
  <2>5. \A m \in Names : m # n => channel'[m] = channel[m]  BY <1>1, <1>2
  <2>6. address' \in [Channels -> Names \cup {None}] /\ address'[Entry(n)] = n
    BY <1>1, <1>2, <2>3
  <2>7. \A ch \in Channels : ch # Entry(n) => address'[ch] = address[ch]
    BY <1>1, <1>2
  <2>8. \A ch \in 1..minted' : address'[ch] \in Names
    <3> SUFFICES ASSUME NEW ch \in 1..minted', ch # Entry(n) PROVE address'[ch] \in Names
      BY <2>6
    <3>1. ch \in 1..minted /\ ch \in Channels  BY <1>1, <2>1, <2>2 DEF Channels
    <3>2. QED  BY <1>1, <2>7, <3>1
  <2>9. AddressIsKey'
    <3> SUFFICES ASSUME NEW m \in Names, channel'[m] # 0 PROVE address'[channel'[m]] = m
      BY DEF AddressIsKey
    <3>1. CASE m = n  BY <2>4, <2>6, <3>1
    <3>2. CASE m # n
      <4>1. channel'[m] = channel[m] /\ channel[m] \in 1..minted  BY <1>1, <2>5, <3>2
      <4>2. channel[m] \in Channels /\ channel[m] # Entry(n)
        BY <1>1, <2>1, <4>1 DEF Channels
      <4>3. QED  BY <1>1, <2>7, <4>1, <4>2 DEF AddressIsKey
    <3>3. QED  BY <3>1, <3>2
  <2>10. minted' \in 0..MaxChannels /\ minted <= minted'  BY <1>1, <2>2
  <2>11. QED  BY <1>4, <2>3, <2>4, <2>5, <2>6, <2>8, <2>9, <2>10
<1>5. QED  BY <1>3, <1>4

\* A step that leaves every channel under its key leaves the phase.
LEMMA PhaseStays ==
    ASSUME Inv, UNCHANGED <<name, token, waits, script, scope>>,
           \A m \in Names : channel[m] # 0 => channel'[m] = channel[m]
    PROVE  Phase'
<1>0. Typed /\ Keyed  BY DEF Inv
<1>1. Live' = Live /\ (Observing <=> Observing')  BY DEF Live, Observing
<1>2. \A s \in Live : \A k \in Names : Placed(s, k) => Placed(s, k)'
  BY DEF Placed
<1>3. Settled => Settled'
  BY <1>0, <1>1, <1>2, LiveNamed DEF Settled
<1>4. \A w, ch : InPlace(w, ch) => InPlace(w, ch)'  BY <1>1 DEF InPlace
<1>5. Waiting => Waiting'  BY <1>4 DEF Waiting
<1>6. CASE Plain  BY <1>1, <1>3, <1>5, <1>6 DEF Plain, Phase
<1>7. ASSUME NEW k \in Names, NEW m \in Names, Killing(k, m)  PROVE Killing(k, m)'
  <2>1. \A ch \in Channels : channel[k] = ch => channel'[k] = ch
    BY RegistryAssumption DEF Channels
  <2>2. QED  BY <1>1, <1>3, <1>4, <1>5, <1>7, <2>1 DEF Killing
<1>8. ASSUME NEW s \in Sessions, NEW f \in Names, Renaming(s, f)  PROVE Renaming(s, f)'
  BY <1>0, <1>1, <1>2, <1>5, <1>8, LiveNamed DEF Renaming
<1>9. QED  BY <1>6, <1>7, <1>8 DEF Inv, Phase

\* A step that mints at most, and ends waits at most, moves nobody.
LEMMA Kept ==
    ASSUME Typed, Keyed, UNCHANGED <<name, born, token, scope>>,
           \A m \in Names : channel[m] # 0 => channel'[m] = channel[m],
           \A ch \in Channels : waits'[ch] \subseteq waits[ch]
    PROVE  /\ Live' = Live /\ (Observing => Observing')
           /\ Settled => Settled'
           /\ Waiting => Waiting'
           /\ \A s \in Live : \A k \in Names : Placed(s, k) => Placed(s, k)'
           /\ \A w, ch : InPlace(w, ch) => InPlace(w, ch)'
           /\ \A k \in Names, ch \in Channels : channel[k] = ch => channel'[k] = ch
<1>1. Live' = Live /\ (Observing => Observing')  BY DEF Live, Observing
<1>2. \A s \in Live : \A k \in Names : Placed(s, k) => Placed(s, k)'  BY DEF Placed
<1>3. Settled => Settled'  BY <1>1, <1>2, LiveNamed DEF Settled
<1>4. \A w, ch : InPlace(w, ch) => InPlace(w, ch)'  BY <1>1 DEF InPlace
<1>5. Waiting => Waiting'  BY <1>4 DEF Waiting
<1>6. \A k \in Names, ch \in Channels : channel[k] = ch => channel'[k] = ch
  BY RegistryAssumption DEF Channels
<1>7. QED  BY <1>1, <1>2, <1>3, <1>4, <1>5, <1>6

LEMMA MintKeyed ==
    ASSUME Typed, Keyed, NEW n \in Names, Mint(n), UNCHANGED <<name, born>>
    PROVE  Keyed'
  BY Mints DEF Keyed, Live

-----------------------------------------------------------------------------
(* Scripts.                                                                *)

\* What each script does first, and what it leaves.
LEMMA Scripts ==
    ASSUME NEW n, NEW m
    PROVE  /\ Head(Bearing(n, m)) = Do("bump", n) /\ Tail(Bearing(n, m)) = After(m)
           /\ Head(After(m)) = Do("bump", m) /\ Tail(After(m)) = Last(m)
           /\ Head(Last(m)) = Do("observe", m) /\ Tail(Last(m)) = <<>>
           /\ Head(Kill1(n, m)) = Do("drain", n) /\ Tail(Kill1(n, m)) = Kill2(n, m)
           /\ Head(Kill2(n, m)) = Do("forget", n) /\ Tail(Kill2(n, m)) = After(m)
           /\ Head(Rename1(m, n)) = Do("check", n) /\ Tail(Rename1(m, n)) = Rename4(m, n)
           /\ Head(Rename2(m, n)) = Do("drain", n) /\ Tail(Rename2(m, n)) = Rename3(m, n)
           /\ Head(Rename3(m, n)) = Do("forget", n) /\ Tail(Rename3(m, n)) = Rename4(m, n)
           /\ Head(Rename4(m, n)) = Moves(m, n) /\ Tail(Rename4(m, n)) = After(n)
           /\ Head(<<Do("evaluate", n)>>) = Do("evaluate", n)
           /\ Tail(<<Do("evaluate", n)>>) = <<>>
  BY DEF Last, After, Bearing, Kill1, Kill2, Rename1, Rename2, Rename3, Rename4

LEMMA Dos ==
    /\ \A what, n : Do(what, n).do = what /\ Do(what, n).name = n
    /\ \A m, n : /\ Moves(m, n).do = "move" /\ Moves(m, n).name = n
                 /\ Moves(m, n).from = m
  BY DEF Do, Moves

\* The phase by the step that comes next.
LEMMA Doing ==
    ASSUME Inv, NEW what, Step(what)
    PROVE  /\ what = "evaluate" => Plain /\ \E n \in Names : script = <<Do("evaluate", n)>>
           /\ what = "bump" => /\ Plain /\ Observing
                               /\ \E n, m \in Names : script \in {Bearing(n, m), After(m)}
           /\ what = "observe" => /\ Plain /\ Observing
                                  /\ \E m \in Names : script = Last(m)
           /\ what = "drain" =>
                \/ \E k, m \in Names : Killing(k, m) /\ script = Kill1(k, m)
                \/ \E s \in Sessions, f \in Names :
                      Renaming(s, f) /\ script = Rename2(f, name[s])
           /\ what = "forget" =>
                \/ \E k, m \in Names : Killing(k, m) /\ script = Kill2(k, m)
                \/ \E s \in Sessions, f \in Names :
                      Renaming(s, f) /\ script = Rename3(f, name[s])
           /\ what = "check" => \E s \in Sessions, f \in Names :
                      Renaming(s, f) /\ script = Rename1(f, name[s])
           /\ what = "move" => \E s \in Sessions, f \in Names :
                      Renaming(s, f) /\ script = Rename4(f, name[s])
<1>1. script # <<>> /\ Head(script).do = what  BY DEF Step
<1>2. CASE Plain
  <2>1. CASE \E n \in Names : script = <<Do("evaluate", n)>>
    <3>1. PICK n \in Names : script = <<Do("evaluate", n)>>  BY <2>1
    <3>2. what = "evaluate"  BY <1>1, <3>1, Scripts, Dos
    <3>3. QED  BY <1>2, <3>1, <3>2
  <2>2. ASSUME Observing, NEW n \in Names, NEW m \in Names,
               script \in {Bearing(n, m), After(m), Last(m)}
        PROVE  \/ what = "bump" /\ script \in {Bearing(n, m), After(m)}
               \/ what = "observe" /\ script = Last(m)
    <3>1. /\ Head(Bearing(n, m)).do = "bump" /\ Head(After(m)).do = "bump"
          /\ Head(Last(m)).do = "observe"
      BY Scripts, Dos
    <3>2. QED  BY <1>1, <2>2, <3>1
  <2>3. QED  BY <1>1, <1>2, <2>1, <2>2 DEF Plain
<1>3. ASSUME NEW k \in Names, NEW m \in Names, Killing(k, m)
      PROVE  \/ what = "drain" /\ script = Kill1(k, m)
             \/ what = "forget" /\ script = Kill2(k, m)
  <2>1. script = Kill1(k, m) \/ script = Kill2(k, m)  BY <1>3 DEF Killing
  <2>2. Head(Kill1(k, m)).do = "drain" /\ Head(Kill2(k, m)).do = "forget"
    BY Scripts, Dos
  <2>3. QED  BY <1>1, <2>1, <2>2
<1>4. ASSUME NEW s \in Sessions, NEW f \in Names, Renaming(s, f)
      PROVE  \/ what = "check" /\ script = Rename1(f, name[s])
             \/ what = "drain" /\ script = Rename2(f, name[s])
             \/ what = "forget" /\ script = Rename3(f, name[s])
             \/ what = "move" /\ script = Rename4(f, name[s])
  <2>1. script \in {Rename1(f, name[s]), Rename2(f, name[s]), Rename3(f, name[s]),
                    Rename4(f, name[s])}
    BY <1>4 DEF Renaming
  <2>2. /\ Head(Rename1(f, name[s])).do = "check" /\ Head(Rename2(f, name[s])).do = "drain"
        /\ Head(Rename3(f, name[s])).do = "forget" /\ Head(Rename4(f, name[s])).do = "move"
    BY Scripts, Dos
  <2>3. QED  BY <1>1, <2>1, <2>2
<1>5. CASE \E k, m \in Names : Killing(k, m)
  <2>1. PICK k \in Names, m \in Names : Killing(k, m)  BY <1>5
  <2>2. QED  BY <1>3, <2>1
<1>6. CASE \E s \in Sessions, f \in Names : Renaming(s, f)
  <2>1. PICK s \in Sessions, f \in Names : Renaming(s, f)  BY <1>6
  <2>2. QED  BY <1>4, <2>1
<1>7. QED  BY <1>2, <1>5, <1>6 DEF Inv, Phase

\* Between requests everything is in its place.
LEMMA Idle == ASSUME Inv, script = <<>>  PROVE Plain
<1>1. \A a, b, c : /\ Kill1(a, b) # <<>> /\ Kill2(a, b) # <<>>
                   /\ Rename1(a, b) # <<>> /\ Rename2(a, b) # <<>>
                   /\ Rename3(a, b) # <<>> /\ Rename4(a, b) # <<>>
  BY DEF Kill1, Kill2, Rename1, Rename2, Rename3, Rename4
<1>2. QED  BY <1>1 DEF Inv, Phase, Killing, Renaming

-----------------------------------------------------------------------------
(* The steps of the owner.                                                 *)

LEMMA SignalTyped ==
    ASSUME Typed, NEW ch \in Channels, NEW n \in Names, Signal(ch, n)
    PROVE  queued' \in [Channels -> BOOLEAN] /\ fifo' \in Seq(Names)
<1>1. queued \in [Channels -> BOOLEAN] /\ fifo \in Seq(Names)  BY DEF Typed, TypeOK
<1>2. Append(fifo, n) \in Seq(Names)  BY <1>1
<1>3. QED  BY <1>1, <1>2 DEF Signal

\* A step of a script that reaches a channel by its name.
LEMMA StepTyped ==
    ASSUME Typed, Keyed, NEW n \in Names, Mint(n), UNCHANGED <<registry, thread, scope, astray>>,
           waits' \in [Channels -> SUBSET Waiters],
           queued' \in [Channels -> BOOLEAN], fifo' \in Seq(Names)
    PROVE  /\ Typed' /\ Keyed'
           /\ \A m \in Names : channel[m] # 0 => channel'[m] = channel[m]
<1>1. /\ channel' \in [Names -> 0..minted'] /\ minted' \in 0..MaxChannels
      /\ address' \in [Channels -> Names \cup {None}]
      /\ \A ch \in 1..minted' : address'[ch] \in Names
      /\ minted <= minted' /\ minted \in Nat /\ minted' \in Nat
      /\ \A m \in Names : channel[m] # 0 => channel'[m] = channel[m]
  <2>1. minted \in 0..MaxChannels /\ MaxChannels \in Nat
    BY RegistryAssumption DEF Typed, TypeOK
  <2>2. QED  BY <2>1, Mints
<1>2. /\ name' = name /\ born' = born /\ token' = token /\ moved' = moved
      /\ at' = at /\ on' = on /\ to' = to /\ caught' = caught
      /\ scope' = scope /\ astray' = astray
  BY DEF registry, thread
<1>3. waits' \in [Channels -> SUBSET [conn : Clients, session : Sessions, since : Nat]]
  BY DEF Waiters
<1>4. TypeOK'  BY <1>1, <1>2, <1>3 DEF Typed, TypeOK
<1>5. \A ch \in Int : ch \in 1..minted => ch \in 1..minted'  BY <1>1
<1>6. (\A s \in Sessions : token[s] \in 0..minted)' /\
      (\A t \in Threads : at[t] # "idle" => on[t] \in 1..minted)'
  BY <1>1, <1>2, <1>5 DEF Typed
<1>7. (\A t \in Threads : at[t] = "send" => to[t] \in Names)' /\
      (\A w \in Workers : caught[w].session # None => caught[w].name \in Names)'
  BY <1>2 DEF Typed
<1>8. Typed'  BY <1>1, <1>4, <1>6, <1>7 DEF Typed
<1>9. Keyed'  BY <1>2, MintKeyed
<1>10. QED  BY <1>1, <1>8, <1>9

LEMMA BumpStep == ASSUME Inv, Bump  PROVE Inv'
<1> DEFINE n == Head(script).name
<1>0. Typed /\ Keyed /\ Step("bump") /\ Mint(n) /\ Signal(Entry(n), n)
      /\ script' = Tail(script)
      /\ UNCHANGED <<registry, waits, thread, scope, counts, astray>>
  BY DEF Bump, Inv
<1>1. PICK k \in Names, m \in Names : script \in {Bearing(k, m), After(m)}
  BY <1>0, Doing
<1>2. Plain /\ Observing  BY <1>0, Doing
<1>3. n \in Names /\ (script' = After(m) \/ script' = Last(m))
  BY <1>0, <1>1, Scripts, Dos
<1> HIDE DEF n
<1>4. Entry(n) \in Channels  BY <1>0, <1>3, Mints
<1>5. queued' \in [Channels -> BOOLEAN] /\ fifo' \in Seq(Names)
  BY <1>0, <1>3, <1>4, SignalTyped
<1>6. waits' \in [Channels -> SUBSET Waiters]  BY <1>0 DEF Typed, TypeOK, Waiters
<1>7. /\ Typed' /\ Keyed'
      /\ \A o \in Names : channel[o] # 0 => channel'[o] = channel[o]
  BY <1>0, <1>3, <1>5, <1>6, StepTyped
<1>8. Settled' /\ Waiting' /\ Observing'
  BY <1>0, <1>2, <1>7, Kept DEF Plain, registry
<1>9. Plain'  BY <1>1, <1>3, <1>8 DEF Plain
<1>10. QED  BY <1>7, <1>9 DEF Inv, Phase

LEMMA ObserveStep == ASSUME Inv, Observe  PROVE Inv'
<1> DEFINE n == IF name[scope.session] # None THEN name[scope.session] ELSE scope.name
<1>0. Typed /\ Keyed /\ Step("observe") /\ Mint(n) /\ script' = Tail(script)
      /\ UNCHANGED <<registry, waits, queued, thread, fifo, scope, counts, astray>>
  BY DEF Observe, Inv
<1>1. PICK m \in Names : script = Last(m)  BY <1>0, Doing
<1>2. Plain /\ Observing  BY <1>0, Doing
<1>3. script' = <<>>  BY <1>0, <1>1, Scripts
<1>4. n \in Names  BY <1>0, <1>2 DEF Observing, Typed, TypeOK
<1> HIDE DEF n
<1>5. queued' \in [Channels -> BOOLEAN] /\ fifo' \in Seq(Names)
  BY <1>0 DEF Typed, TypeOK
<1>6. waits' \in [Channels -> SUBSET Waiters]  BY <1>0 DEF Typed, TypeOK, Waiters
<1>7. /\ Typed' /\ Keyed'
      /\ \A o \in Names : channel[o] # 0 => channel'[o] = channel[o]
  BY <1>0, <1>4, <1>5, <1>6, StepTyped
<1>8. Settled' /\ Waiting'
  BY <1>0, <1>2, <1>7, Kept DEF Plain, registry
<1>9. QED  BY <1>3, <1>7, <1>8 DEF Inv, Phase, Plain

LEMMA EvaluateStep == ASSUME Inv, Evaluate  PROVE Inv'
<1> DEFINE n == Head(script).name
<1>0. /\ Typed /\ Keyed /\ Step("evaluate") /\ Mint(n) /\ script' = Tail(script)
      /\ queued' = [queued EXCEPT ![Entry(n)] = FALSE]
      /\ waits' = [waits EXCEPT ![Entry(n)] = @ \ Answered(Entry(n), n)]
      /\ UNCHANGED <<registry, thread, fifo, scope, counts, astray>>
  BY DEF Evaluate, Inv
<1>1. PICK k \in Names : script = <<Do("evaluate", k)>>  BY <1>0, Doing
<1>2. Plain  BY <1>0, Doing
<1>3. n \in Names /\ script' = <<>>  BY <1>0, <1>1, Scripts, Dos
<1> HIDE DEF n
<1>4. queued' \in [Channels -> BOOLEAN] /\ fifo' \in Seq(Names)
  BY <1>0 DEF Typed, TypeOK
<1>5. \A ch \in Channels : waits'[ch] \subseteq waits[ch]
  BY <1>0 DEF Typed, TypeOK
<1>6. waits' \in [Channels -> SUBSET Waiters]  BY <1>0 DEF Typed, TypeOK, Waiters
<1>7. /\ Typed' /\ Keyed'
      /\ \A o \in Names : channel[o] # 0 => channel'[o] = channel[o]
  BY <1>0, <1>3, <1>4, <1>6, StepTyped
<1>8. Settled' /\ Waiting'
  BY <1>0, <1>2, <1>5, <1>7, Kept DEF Plain, registry
<1>9. QED  BY <1>3, <1>7, <1>8 DEF Inv, Phase, Plain

\* What a kill drains is everything that waited on the session killed.
LEMMA DrainStep == ASSUME Inv, Drain  PROVE Inv'
<1> DEFINE n == Head(script).name
<1>0. /\ Typed /\ Keyed /\ Step("drain") /\ Mint(n) /\ Signal(Entry(n), n)
      /\ script' = Tail(script) /\ waits' = [waits EXCEPT ![Entry(n)] = {}]
      /\ UNCHANGED <<registry, thread, scope, counts, astray>>
  BY DEF Drain, Inv
<1>1. \/ \E k, m \in Names : Killing(k, m) /\ script = Kill1(k, m)
      \/ \E s \in Sessions, f \in Names : Renaming(s, f) /\ script = Rename2(f, name[s])
  BY <1>0, Doing
<1>2. n \in Names
  <2>1. ASSUME NEW k \in Names, NEW m \in Names, script = Kill1(k, m)
        PROVE  n = k
    BY <2>1, Scripts, Dos
  <2>2. ASSUME NEW s \in Sessions, NEW f \in Names, script = Rename2(f, name[s])
        PROVE  n = name[s]
    BY <2>2, Scripts, Dos
  <2>3. \A s \in Sessions, f \in Names : Renaming(s, f) => name[s] \in Names
    BY <1>0, LiveNamed DEF Renaming
  <2>4. QED  BY <1>1, <2>1, <2>2, <2>3
<1>3. /\ Entry(n) \in Channels /\ channel'[n] = Entry(n)  BY <1>0, <1>2, Mints
<1>4. queued' \in [Channels -> BOOLEAN] /\ fifo' \in Seq(Names)
  BY <1>0, <1>2, <1>3, SignalTyped
<1>5. \A ch \in Channels : waits'[ch] \subseteq waits[ch] /\ (ch = Entry(n) => waits'[ch] = {})
  BY <1>0, <1>3 DEF Typed, TypeOK
<1>6. waits' \in [Channels -> SUBSET Waiters]  BY <1>0 DEF Typed, TypeOK, Waiters
<1>7. /\ Typed' /\ Keyed'
      /\ \A o \in Names : channel[o] # 0 => channel'[o] = channel[o]
  BY <1>0, <1>2, <1>4, <1>6, StepTyped
<1>8. UNCHANGED <<name, born, token, scope>>  BY <1>0 DEF registry
<1>9. Live' = Live /\ (Observing => Observing') /\ (Settled => Settled')
      /\ (Waiting => Waiting')
      /\ (\A s \in Live : \A k \in Names : Placed(s, k) => Placed(s, k)')
      /\ (\A w, ch : InPlace(w, ch) => InPlace(w, ch)')
  BY <1>0, <1>5, <1>7, <1>8, Kept
<1>10. ASSUME NEW k \in Names, NEW m \in Names, Killing(k, m), script = Kill1(k, m)
       PROVE  Killing(k, m)'
  <2>1. n = k /\ script' = Kill2(k, m)  BY <1>0, <1>10, Scripts, Dos
  <2>2. Kill1(k, m) # Kill2(k, m)
    <3>1. Head(Kill1(k, m)).do = "drain" /\ Head(Kill2(k, m)).do = "forget"
      BY Scripts, Dos
    <3>2. QED  BY <3>1
  <2>3. \A ch \in Channels : \A w \in waits[ch] : InPlace(w, ch) \/ channel[k] = ch
    BY <1>10, <2>2 DEF Killing
  <2>4. \A ch \in Channels : channel[k] = ch => ch = Entry(n)
    BY <2>1, RegistryAssumption DEF Entry, Channels
  <2>5. \A ch \in Channels : \A w \in waits'[ch] : InPlace(w, ch)
    BY <1>5, <2>3, <2>4
  <2>6. Waiting'  BY <1>9, <2>5 DEF Waiting
  <2>7. QED  BY <1>8, <1>9, <1>10, <2>1, <2>6 DEF Killing
<1>11. ASSUME NEW s \in Sessions, NEW f \in Names, Renaming(s, f), script = Rename2(f, name[s])
       PROVE  Renaming(s, f)'
  <2>1. script' = Rename3(f, name'[s])  BY <1>0, <1>8, <1>11, Scripts
  <2>2. QED  BY <1>0, <1>8, <1>9, <1>11, <2>1, LiveNamed DEF Renaming
<1>12. QED  BY <1>1, <1>7, <1>10, <1>11 DEF Inv, Phase

\* A step of a script that moves the keys of channels.
LEMMA KeysTyped ==
    ASSUME Typed, Keyed, UNCHANGED <<registry, minted, waits, queued, thread, fifo, scope, astray>>,
           channel' \in [Names -> 0..minted], address' \in [Channels -> Names \cup {None}],
           \A ch \in 1..minted : address'[ch] \in Names, AddressIsKey'
    PROVE  Typed' /\ Keyed'
<1>1. /\ name' = name /\ born' = born /\ token' = token /\ moved' = moved
      /\ at' = at /\ on' = on /\ to' = to /\ caught' = caught /\ minted' = minted
  BY DEF registry, thread
<1>2. Typed'  BY <1>1 DEF Typed, TypeOK
<1>3. QED  BY <1>1, <1>2 DEF Keyed, Live

\* The name that is forgotten is nobody's.
LEMMA ForgetStep == ASSUME Inv, Forget  PROVE Inv'
<1> DEFINE n == Head(script).name
<1>0. /\ Typed /\ Keyed /\ Step("forget") /\ script' = Tail(script)
      /\ channel' = [channel EXCEPT ![n] = 0]
      /\ UNCHANGED <<registry, minted, address, waits, queued, thread, fifo, scope, astray>>
  BY DEF Forget, Inv
<1>1. \/ \E k, m \in Names : Killing(k, m) /\ script = Kill2(k, m)
      \/ \E s \in Sessions, f \in Names : Renaming(s, f) /\ script = Rename3(f, name[s])
  BY <1>0, Doing
<1> HIDE DEF n
<1>2. Typed' /\ Keyed'
  <2>1. channel \in [Names -> 0..minted] /\ 0 \in 0..minted
    BY <1>0, RegistryAssumption DEF Typed, TypeOK
  <2>2. channel' \in [Names -> 0..minted]  BY <1>0, <2>1
  <2>3. AddressIsKey'  BY <1>0, <2>1 DEF Keyed, AddressIsKey
  <2>4. QED  BY <1>0, <2>2, <2>3, KeysTyped DEF Typed, TypeOK
<1>3. /\ \A m \in Names : m # n => channel'[m] = channel[m]
      /\ name' = name /\ token' = token /\ waits' = waits /\ scope' = scope /\ Live' = Live
  BY <1>0 DEF Typed, TypeOK, registry, Live
<1>4. \A w, ch : InPlace(w, ch) <=> InPlace(w, ch)'  BY <1>3 DEF InPlace
<1>5. Waiting => Waiting'  BY <1>3, <1>4 DEF Waiting
<1>6. ASSUME NEW k \in Names, NEW m \in Names, Killing(k, m), script = Kill2(k, m)
      PROVE  Plain'
  <2>1. n = k /\ script' = After(m)  BY <1>0, <1>6, Scripts, Dos DEF n
  <2>2. Kill1(k, m) # Kill2(k, m)
    <3>1. Head(Kill1(k, m)).do = "drain" /\ Head(Kill2(k, m)).do = "forget"
      BY Scripts, Dos
    <3>2. QED  BY <3>1
  <2>3. Observing /\ Settled /\ Waiting /\ \A s \in Live : name[s] # n
    BY <1>6, <2>1, <2>2 DEF Killing
  <2>4. Settled'
    BY <1>0, <1>3, <2>3, LiveNamed DEF Settled, Placed
  <2>5. QED  BY <1>3, <1>5, <2>1, <2>3, <2>4 DEF Plain, Observing
<1>7. ASSUME NEW s \in Sessions, NEW f \in Names, Renaming(s, f), script = Rename3(f, name[s])
      PROVE  Renaming(s, f)'
  <2>1. n = name[s] /\ script' = Rename4(f, name'[s])
    BY <1>0, <1>3, <1>7, Scripts, Dos DEF n
  <2>2. s \in Live /\ f # n /\ Placed(s, f)  BY <1>7, <2>1 DEF Renaming
  <2>3. Placed(s, f)'  BY <1>3, <2>2 DEF Placed
  <2>4. ASSUME NEW o \in Live \ {s}  PROVE Placed(o, name[o])'
    <3>1. name[o] \in Names /\ name[o] # n /\ Placed(o, name[o])
      BY <1>0, <1>7, <2>1, <2>2, LiveNamed DEF Renaming, Keyed
    <3>2. QED  BY <1>3, <3>1 DEF Placed
  <2>5. Observing' /\ Waiting' /\ s \in Live' /\ \A o \in Live' : name'[o] # f
    BY <1>3, <1>5, <1>7 DEF Renaming, Observing
  <2>6. QED  BY <1>3, <2>1, <2>3, <2>4, <2>5 DEF Renaming
<1>8. QED  BY <1>1, <1>2, <1>6, <1>7 DEF Inv, Phase

LEMMA Checks ==
    ASSUME NEW f, NEW n
    PROVE  /\ <<Do("drain", n), Do("forget", n)>> \o Rename4(f, n) = Rename2(f, n)
           /\ <<>> \o Rename4(f, n) = Rename4(f, n)
<1> DEFINE a == <<Do("drain", n), Do("forget", n)>>
           b == Rename4(f, n)
           S == {Do("drain", n), Do("forget", n), Moves(f, n), Do("bump", n), Do("observe", n)}
<1>1. a \in Seq(S) /\ Len(a) = 2 /\ a[1] = Do("drain", n) /\ a[2] = Do("forget", n)
  OBVIOUS
<1>2. /\ b \in Seq(S) /\ Len(b) = 3 /\ b[1] = Moves(f, n) /\ b[2] = Do("bump", n)
      /\ b[3] = Do("observe", n)
  BY DEF Rename4
<1>3. /\ Rename2(f, n) \in Seq(S) /\ Len(Rename2(f, n)) = 5
      /\ Rename2(f, n)[1] = Do("drain", n) /\ Rename2(f, n)[2] = Do("forget", n)
      /\ Rename2(f, n)[3] = Moves(f, n) /\ Rename2(f, n)[4] = Do("bump", n)
      /\ Rename2(f, n)[5] = Do("observe", n)
  BY DEF Rename2
<1> HIDE DEF a, b, S
<1>4. /\ a \o b \in Seq(S) /\ Len(a \o b) = 5
      /\ \A i \in 1..5 : (a \o b)[i] = IF i <= 2 THEN a[i] ELSE b[i - 2]
  <2>1. a \o b \in Seq(S) /\ Len(a \o b) = Len(a) + Len(b)
        /\ \A i \in 1..(Len(a) + Len(b)) :
              (a \o b)[i] = IF i <= Len(a) THEN a[i] ELSE b[i - Len(a)]
    BY <1>1, <1>2, ConcatProperties
  <2>2. QED  BY <1>1, <1>2, <2>1
<1>5. \A i \in 1..5 : (a \o b)[i] = Rename2(f, n)[i]
  <2>1. /\ (a \o b)[1] = a[1] /\ (a \o b)[2] = a[2] /\ (a \o b)[3] = b[1]
        /\ (a \o b)[4] = b[2] /\ (a \o b)[5] = b[3]
    BY <1>4
  <2>2. \A i \in 1..5 : i \in {1, 2, 3, 4, 5}  OBVIOUS
  <2>3. QED  BY <1>1, <1>2, <1>3, <2>1, <2>2
<1>6. a \o b = Rename2(f, n)  BY <1>3, <1>4, <1>5, SeqEqual
<1>7. <<>> \o b = b  BY <1>2
<1>8. QED  BY <1>6, <1>7 DEF a, b

LEMMA CheckStep == ASSUME Inv, Check  PROVE Inv'
<1> DEFINE n == Head(script).name
<1>0. /\ Typed /\ Keyed /\ Step("check")
      /\ script' = (IF channel[n] # 0 THEN <<Do("drain", n), Do("forget", n)>> ELSE <<>>)
                       \o Tail(script)
      /\ UNCHANGED <<registry, map, waits, queued, thread, fifo, scope, astray>>
  BY DEF Check, Inv
<1>1. PICK s \in Sessions, f \in Names : Renaming(s, f) /\ script = Rename1(f, name[s])
  BY <1>0, Doing
<1>2. n = name[s] /\ Tail(script) = Rename4(f, n)  BY <1>1, Scripts, Dos
<1> HIDE DEF n
<1>3. script' = Rename2(f, n) \/ script' = Rename4(f, n)  BY <1>0, <1>2, Checks
<1>4. /\ UNCHANGED <<name, born, token, moved, channel, minted, address, at, on, to, caught>>
      /\ Live' = Live /\ UNCHANGED <<waits, scope>>
  BY <1>0 DEF registry, map, thread, Live
<1>5. Typed' /\ Keyed'
  <2>1. Typed'  BY <1>0, <1>4 DEF Typed, TypeOK
  <2>2. Keyed'  BY <1>0, <1>4 DEF Keyed, AddressIsKey
  <2>3. QED  BY <2>1, <2>2
<1>6. Observing' /\ Waiting' /\ Placed(s, f)' /\ \A o \in Live \ {s} : Placed(o, name[o])'
  BY <1>1, <1>4 DEF Renaming, Observing, Waiting, InPlace, Placed
<1>7. Renaming(s, f)'  BY <1>1, <1>2, <1>3, <1>4, <1>6 DEF Renaming
<1>8. QED  BY <1>5, <1>7 DEF Inv, Phase

\* The channel the panes bump goes where the name went.
LEMMA MoveStep == ASSUME Inv, Move  PROVE Inv'
<1> DEFINE f == Head(script).from
           n == Head(script).name
<1>0. /\ Typed /\ Keyed /\ Step("move") /\ script' = Tail(script)
      /\ IF channel[f] = 0 THEN UNCHANGED <<channel, address>>
         ELSE /\ channel' = [channel EXCEPT ![f] = 0, ![n] = channel[f]]
              /\ address' = [address EXCEPT ![channel[f]] = n]
      /\ UNCHANGED <<registry, minted, waits, queued, thread, fifo, scope, astray>>
  BY DEF Move, Inv
<1>1. PICK s \in Sessions, from \in Names :
          Renaming(s, from) /\ script = Rename4(from, name[s])
  BY <1>0, Doing
<1>2. f = from /\ n = name[s] /\ script' = After(n)  BY <1>0, <1>1, Scripts, Dos
<1> HIDE DEF f, n
<1>3. s \in Live /\ f \in Names /\ n \in Names /\ f # n /\ Placed(s, f)
  BY <1>0, <1>1, <1>2, LiveNamed DEF Renaming
<1>4. channel[f] \in 1..minted /\ channel[f] \in Channels /\ token[s] = channel[f]
  BY <1>0, <1>3, RegistryAssumption DEF Typed, TypeOK, Placed, Channels
<1>5. /\ channel' = [channel EXCEPT ![f] = 0, ![n] = channel[f]]
      /\ address' = [address EXCEPT ![channel[f]] = n]
  BY <1>0, <1>4
<1>6. channel \in [Names -> 0..minted] /\ minted \in Nat
      /\ address \in [Channels -> Names \cup {None}]
      /\ \A ch \in 1..minted : address[ch] \in Names
  BY <1>0 DEF Typed, TypeOK
<1>7. /\ channel' \in [Names -> 0..minted] /\ channel'[n] = channel[f] /\ channel'[f] = 0
      /\ \A m \in Names : m # f /\ m # n => channel'[m] = channel[m]
  BY <1>3, <1>4, <1>5, <1>6
<1>8. /\ address' \in [Channels -> Names \cup {None}] /\ address'[channel[f]] = n
      /\ \A ch \in Channels : ch # channel[f] => address'[ch] = address[ch]
  BY <1>3, <1>4, <1>5, <1>6
<1>9. \A ch \in 1..minted : ch \in Channels
  BY <1>0, RegistryAssumption DEF Typed, TypeOK, Channels
<1>10. \A ch \in 1..minted : address'[ch] \in Names  BY <1>3, <1>6, <1>8, <1>9
<1>11. AddressIsKey'
  <2> SUFFICES ASSUME NEW m \in Names, channel'[m] # 0 PROVE address'[channel'[m]] = m
    BY DEF AddressIsKey
  <2>1. CASE m = n  BY <1>7, <1>8, <2>1
  <2>2. CASE m # n
    <3>1. m # f /\ channel'[m] = channel[m] /\ channel[m] # 0  BY <1>7, <2>2
    <3>2. channel[m] # channel[f]  BY <1>0, <1>3, <3>1, OneKey
    <3>3. channel[m] \in Channels  BY <1>6, <1>9, <3>1
    <3>4. QED  BY <1>0, <1>8, <3>1, <3>2, <3>3 DEF Keyed, AddressIsKey
  <2>3. QED  BY <2>1, <2>2
<1>12. Typed' /\ Keyed'  BY <1>0, <1>7, <1>8, <1>10, <1>11, KeysTyped
<1>13. /\ name' = name /\ token' = token /\ waits' = waits /\ scope' = scope /\ Live' = Live
  BY <1>0 DEF registry, Live
<1>14. Settled'
  <2> SUFFICES ASSUME NEW o \in Live PROVE Placed(o, name[o])'  BY <1>13 DEF Settled
  <2>1. CASE o = s  BY <1>2, <1>4, <1>6, <1>7, <1>13, <2>1 DEF Placed
  <2>2. CASE o # s
    <3>1. name[o] \in Names /\ name[o] # n /\ name[o] # f /\ Placed(o, name[o])
      BY <1>0, <1>1, <1>2, <1>3, <2>2, LiveNamed DEF Renaming, Keyed
    <3>2. QED  BY <1>7, <1>13, <3>1 DEF Placed
  <2>3. QED  BY <2>1, <2>2
<1>15. Waiting' /\ Observing'
  BY <1>1, <1>13 DEF Renaming, Waiting, InPlace, Observing
<1>16. QED  BY <1>2, <1>3, <1>12, <1>14, <1>15 DEF Inv, Phase, Plain

-----------------------------------------------------------------------------
(* Requests.                                                               *)

LEMMA ScopedIs ==
    ASSUME Inv, NEW s, Scoped(s)
    PROVE  /\ Plain /\ script = <<>> /\ Settled /\ Waiting
           /\ s \in Sessions /\ s \in Live /\ name[s] \in Names /\ Placed(s, name[s])
           /\ scope' \in [session : Sessions, name : Names] /\ scope'.name = name[s]
<1>1. script = <<>> /\ s \in Live /\ scope' = [session |-> s, name |-> name[s]]
  BY DEF Scoped
<1>2. Plain  BY <1>1, Idle
<1>3. s \in Sessions /\ name[s] \in Names  BY <1>1, LiveNamed DEF Inv
<1>4. QED  BY <1>1, <1>2, <1>3 DEF Plain, Settled

\* A request that reaches no channel of its own.
LEMMA RequestTyped ==
    ASSUME Typed, UNCHANGED <<born, token, moved, map, waits, queued, thread, fifo, astray>>,
           name' \in [Sessions -> Names \cup {None}],
           scope' \in [session : Sessions, name : Names]
    PROVE  Typed'
<1>1. /\ born' = born /\ token' = token /\ moved' = moved /\ waits' = waits /\ queued' = queued
      /\ at' = at /\ on' = on /\ to' = to /\ caught' = caught /\ fifo' = fifo
      /\ channel' = channel /\ minted' = minted /\ address' = address /\ astray' = astray
  BY DEF thread, map
<1>2. scope' \in [session : Sessions \cup {None}, name : Names \cup {None}]
  OBVIOUS
<1>3. TypeOK'  BY <1>1, <1>2 DEF Typed, TypeOK
<1>4. QED  BY <1>1, <1>3 DEF Typed

LEMMA QueryStep == ASSUME Inv, NEW s \in Sessions, Query(s)  PROVE Inv'
<1>0. Typed /\ Keyed  BY DEF Inv
<1>1. /\ Scoped(s) /\ script' = Last(name[s])
      /\ UNCHANGED <<registry, map, waits, queued, thread, fifo, counts, astray>>
  BY DEF Query, Last
<1>2. /\ Settled /\ Waiting /\ name[s] \in Names
      /\ scope' \in [session : Sessions, name : Names]
  BY <1>1, ScopedIs
<1>3. /\ UNCHANGED <<name, born, token, moved, channel, address, waits>> /\ Live' = Live
  BY <1>1 DEF registry, map, Live
<1>4. Typed'  BY <1>0, <1>1, <1>2, <1>3, RequestTyped DEF Typed, TypeOK
<1>5. Keyed'  BY <1>0, <1>3 DEF Keyed, AddressIsKey
<1>6. Settled' /\ Waiting'
  BY <1>2, <1>3 DEF Settled, Placed, Waiting, InPlace
<1>7. QED  BY <1>1, <1>2, <1>4, <1>5, <1>6 DEF Inv, Phase, Plain, Observing

\* The panes of the renamed session stay where its old name leads.
LEMMA RenameStep ==
    ASSUME Inv, NEW s \in Sessions, NEW n \in Names, Rename(s, n)
    PROVE  Inv'
<1>0. Typed /\ Keyed  BY DEF Inv
<1>f. PICK f \in Names : f = name[s]  BY ScopedIs DEF Rename
<1>1. /\ Scoped(s) /\ name' = [name EXCEPT ![s] = n]
      /\ \A other \in Live : name[other] # n
      /\ script' = Rename1(f, n)
      /\ UNCHANGED <<born, token, moved, map, waits, queued, thread, fifo, astray>>
  BY <1>f DEF Rename, Rename1, Moves
<1>2. /\ Settled /\ Waiting /\ s \in Live /\ Placed(s, f)
      /\ scope' \in [session : Sessions, name : Names]
  BY <1>f, <1>1, ScopedIs
<1>3. /\ name' \in [Sessions -> Names \cup {None}] /\ name'[s] = n
      /\ \A o \in Sessions : o # s => name'[o] = name[o]
  BY <1>0, <1>1 DEF Typed, TypeOK
<1>4. Live' = Live  BY <1>2, <1>3, RegistryAssumption DEF Live
<1>5. UNCHANGED <<token, channel, address, waits>>  BY <1>1 DEF map
<1>6. Typed'  BY <1>0, <1>1, <1>2, <1>3, RequestTyped
<1>7. Keyed'
  <2>1. AddressIsKey'  BY <1>0, <1>5 DEF Keyed, AddressIsKey
  <2>2. \A o, q \in Live : name'[o] = name'[q] => o = q
    BY <1>0, <1>1, <1>3, LiveNamed DEF Keyed
  <2>3. QED  BY <1>0, <1>1, <1>4, <2>1, <2>2 DEF Keyed
<1>8. \A o \in Live : name'[o] # f
  <2>1. f # n  BY <1>f, <1>1, <1>2
  <2>2. \A o \in Live : o # s => name[o] # f  BY <1>f, <1>0, <1>2 DEF Keyed
  <2>3. QED  BY <1>0, <1>3, <2>1, <2>2, LiveNamed
<1>9. \A o \in Live \ {s} : Placed(o, name[o])'
  BY <1>0, <1>2, <1>3, <1>5, LiveNamed DEF Settled, Placed
<1>10. Waiting' /\ Placed(s, f)'
  BY <1>2, <1>4, <1>5 DEF Waiting, InPlace, Placed
<1>11. Renaming(s, f)'
  BY <1>1, <1>2, <1>3, <1>4, <1>8, <1>9, <1>10 DEF Renaming, Observing
<1>12. QED  BY <1>2, <1>6, <1>7, <1>11 DEF Inv, Phase

\* Who waits on the session that is killed is where its name leads.
LEMMA KillStep ==
    ASSUME Inv, NEW asking \in Sessions, NEW s \in Sessions, Kill(asking, s)
    PROVE  Inv'
<1>0. Typed /\ Keyed  BY DEF Inv
<1>k. PICK k \in Names : k = name[s]  BY <1>0, LiveNamed DEF Kill
<1>m. PICK m \in Names : m = name[asking]  BY ScopedIs DEF Kill
<1>1. /\ Scoped(asking) /\ s \in Live /\ name' = [name EXCEPT ![s] = None]
      /\ script' = Kill1(k, m)
      /\ UNCHANGED <<born, token, moved, map, waits, queued, thread, fifo, astray>>
  BY <1>k, <1>m DEF Kill, Kill1
<1>2. /\ Settled /\ Waiting
      /\ scope' \in [session : Sessions, name : Names]
  BY <1>1, ScopedIs
<1>3. /\ name' \in [Sessions -> Names \cup {None}] /\ name'[s] = None
      /\ \A o \in Sessions : o # s => name'[o] = name[o]
  BY <1>0, <1>1 DEF Typed, TypeOK
<1>4. Live' = Live \ {s}  BY <1>1, <1>3 DEF Live
<1>5. UNCHANGED <<token, channel, address, waits>>  BY <1>1 DEF map
<1>6. Typed'  BY <1>0, <1>1, <1>2, <1>3, RequestTyped
<1>7. Keyed'
  <2>1. AddressIsKey'  BY <1>0, <1>5 DEF Keyed, AddressIsKey
  <2>2. \A o \in Live' : o \in Live /\ name'[o] = name[o]  BY <1>3, <1>4 DEF Live
  <2>3. QED  BY <1>0, <1>1, <2>1, <2>2 DEF Keyed
<1>8. \A o \in Live' : name'[o] # k
  <2>1. \A o \in Live' : name'[o] = name[o] /\ o # s /\ o \in Live
    BY <1>3, <1>4 DEF Live
  <2>2. QED  BY <1>k, <1>0, <1>1, <2>1 DEF Keyed
<1>9. Settled'
  <2> SUFFICES ASSUME NEW o \in Live' PROVE Placed(o, name[o])'  BY DEF Settled
  <2>1. o \in Live /\ name'[o] = name[o]  BY <1>3, <1>4 DEF Live
  <2>2. Placed(o, name[o])  BY <1>2, <2>1 DEF Settled
  <2>3. QED  BY <1>5, <2>1, <2>2 DEF Placed
<1>10. ASSUME NEW ch \in Channels, NEW w \in waits[ch]
       PROVE  InPlace(w, ch)' \/ channel[k] = ch
  <2>1. w.session \in Live /\ token[w.session] = ch  BY <1>2 DEF Waiting, InPlace
  <2>2. CASE w.session = s
    <3>1. Placed(s, k)  BY <1>k, <1>1, <1>2 DEF Settled
    <3>2. QED  BY <2>1, <2>2, <3>1 DEF Placed
  <2>3. CASE w.session # s  BY <1>4, <1>5, <2>1, <2>3 DEF InPlace
  <2>4. QED  BY <2>2, <2>3
<1>11. Killing(k, m)'
  BY <1>1, <1>2, <1>5, <1>8, <1>9, <1>10 DEF Killing, Observing
<1>12. QED  BY <1>6, <1>7, <1>11 DEF Inv, Phase

LEMMA DisconnectStep == ASSUME Inv, NEW c \in Clients, Disconnect(c)  PROVE Inv'
<1>0. Typed /\ Keyed  BY DEF Inv
<1>1. /\ script = <<>> /\ script' = <<>>
      /\ waits' = [ch \in Channels |->
                      IF \E n \in Names : channel[n] = ch
                      THEN {w \in waits[ch] : w.conn # c} ELSE waits[ch]]
      /\ UNCHANGED <<registry, map, queued, thread, fifo, scope, astray>>
  BY DEF Disconnect
<1>2. /\ \A ch \in Channels : waits'[ch] \subseteq waits[ch]
      /\ waits' \in [Channels -> SUBSET Waiters]
  BY <1>0, <1>1 DEF Typed, TypeOK, Waiters
<1>3. /\ UNCHANGED <<name, born, token, scope, moved, channel, minted, address, at, on, to,
                     caught, fifo, queued, astray>>
      /\ Live' = Live
  BY <1>1 DEF registry, map, thread, Live
<1>4. Typed'
  <2>1. TypeOK'  BY <1>0, <1>2, <1>3 DEF Typed, TypeOK, Waiters
  <2>2. QED  BY <1>0, <1>3, <2>1 DEF Typed
<1>5. Keyed'  BY <1>0, <1>3 DEF Keyed, AddressIsKey
<1>6. Settled /\ Waiting  BY <1>1, Idle DEF Plain
<1>7. Settled' /\ Waiting'
  BY <1>0, <1>2, <1>3, <1>6, Kept
<1>8. QED  BY <1>1, <1>4, <1>5, <1>7 DEF Inv, Phase, Plain

LEMMA TakePassStep == ASSUME Inv, TakePass  PROVE Inv'
<1>0. Typed /\ Keyed  BY DEF Inv
<1>1. /\ script = <<>> /\ fifo # <<>> /\ fifo' = Tail(fifo)
      /\ script' = <<Do("evaluate", Head(fifo))>>
      /\ UNCHANGED <<registry, map, waits, queued, thread, scope, astray>>
  BY DEF TakePass
<1>2. fifo \in Seq(Names)  BY <1>0 DEF Typed, TypeOK
<1>3. Head(fifo) \in Names /\ fifo' \in Seq(Names)  BY <1>1, <1>2
<1>4. /\ UNCHANGED <<name, born, token, scope, moved, channel, minted, address, at, on, to,
                     caught, waits, queued, astray>>
      /\ Live' = Live
  BY <1>1 DEF registry, map, thread, Live
<1>5. Typed'
  <2>1. TypeOK'  BY <1>0, <1>3, <1>4 DEF Typed, TypeOK
  <2>2. QED  BY <1>0, <1>4, <2>1 DEF Typed
<1>6. Keyed'  BY <1>0, <1>4 DEF Keyed, AddressIsKey
<1>7. Settled /\ Waiting  BY <1>1, Idle DEF Plain
<1>8. Settled' /\ Waiting'
  BY <1>0, <1>4, <1>7, Kept
<1>9. QED  BY <1>1, <1>3, <1>5, <1>6, <1>8 DEF Inv, Phase, Plain

\* A session is born into a channel of its own name, which nothing waits in.
LEMMA NewStep ==
    ASSUME Inv, NEW s \in Sessions, NEW n \in Names, New(s, n)
    PROVE  Inv'
<1>0. Typed /\ Keyed  BY DEF Inv
<1>1. /\ script = <<>> /\ s \notin born /\ \A other \in Live : name[other] # n
      /\ IF Live = {} THEN scope' = [session |-> s, name |-> n]
         ELSE \E asking \in Live : Scoped(asking)
      /\ born' = born \cup {s} /\ name' = [name EXCEPT ![s] = n]
      /\ Mint(n) /\ token' = [token EXCEPT ![s] = Entry(n)]
      /\ script' = Bearing(n, scope'.name)
      /\ UNCHANGED <<moved, waits, queued, thread, fifo, astray>>
  BY DEF New, Bearing
<1>2. Settled /\ Waiting  BY <1>1, Idle DEF Plain
<1>3. scope' \in [session : Sessions, name : Names]
  <2>1. CASE Live = {}  BY <1>1, <2>1
  <2>2. CASE Live # {}
    <3>1. PICK asking \in Live : Scoped(asking)  BY <1>1, <2>2
    <3>2. QED  BY <3>1, ScopedIs
  <2>3. QED  BY <2>1, <2>2
<1>4. scope'.name \in Names  BY <1>3
<1>5. PICK m \in Names : m = scope'.name  BY <1>4
<1>6. /\ Entry(n) \in Channels /\ Entry(n) \in 1..minted' /\ minted <= minted'
      /\ minted' \in 0..MaxChannels
      /\ channel' \in [Names -> 0..minted'] /\ channel'[n] = Entry(n)
      /\ \A o \in Names : channel[o] # 0 => channel'[o] = channel[o]
      /\ address' \in [Channels -> Names \cup {None}]
      /\ \A ch \in 1..minted' : address'[ch] \in Names
      /\ AddressIsKey'
  BY <1>0, <1>1, Mints
<1>7. /\ name' \in [Sessions -> Names \cup {None}] /\ name'[s] = n
      /\ \A o \in Sessions : o # s => name'[o] = name[o]
      /\ token' \in [Sessions -> 0..MaxChannels] /\ token'[s] = Entry(n)
      /\ \A o \in Sessions : o # s => token'[o] = token[o]
  BY <1>0, <1>1, <1>6 DEF Typed, TypeOK, Channels
<1>8. s \notin Live /\ Live' = Live \cup {s}
  BY <1>0, <1>1, <1>7, RegistryAssumption DEF Live, Keyed
<1>9. /\ at' = at /\ on' = on /\ to' = to /\ caught' = caught
      /\ moved' = moved /\ waits' = waits /\ queued' = queued /\ fifo' = fifo
      /\ astray' = astray /\ born' \subseteq Sessions
  BY <1>0, <1>1 DEF Typed, TypeOK, thread
<1>10. minted \in Nat /\ minted' \in Nat
  BY <1>0, <1>6, RegistryAssumption DEF Typed, TypeOK
<1>11. Typed'
  <2>1. scope' \in [session : Sessions \cup {None}, name : Names \cup {None}]
    BY <1>3
  <2>2. TypeOK'  BY <1>0, <1>6, <1>7, <1>9, <2>1 DEF Typed, TypeOK
  <2>3. \A o \in Sessions : token'[o] \in 0..minted'
    BY <1>0, <1>6, <1>7, <1>10 DEF Typed
  <2>4. \A t \in Threads : at'[t] # "idle" => on'[t] \in 1..minted'
    BY <1>0, <1>6, <1>9, <1>10 DEF Typed
  <2>5. QED  BY <1>0, <1>6, <1>9, <2>2, <2>3, <2>4 DEF Typed
<1>12. Keyed'
  <2>1. \A o \in Live : o \in Sessions /\ o # s /\ name'[o] = name[o] /\ name[o] # n
    BY <1>0, <1>1, <1>7, <1>8, LiveNamed
  <2>2. \A o, q \in Live' : name'[o] = name'[q] => o = q
    BY <1>0, <1>7, <1>8, <2>1 DEF Keyed
  <2>3. QED  BY <1>0, <1>1, <1>6, <1>8, <2>2 DEF Keyed
<1>13. Settled'
  <2> SUFFICES ASSUME NEW o \in Live' PROVE Placed(o, name[o])'  BY DEF Settled
  <2>1. CASE o = s  BY <1>6, <1>7, <2>1 DEF Placed
  <2>2. CASE o # s
    <3>1. o \in Live /\ o \in Sessions /\ name[o] \in Names /\ Placed(o, name[o])
      BY <1>0, <1>2, <1>8, <2>2, LiveNamed DEF Settled
    <3>2. QED  BY <1>6, <1>7, <2>2, <3>1 DEF Placed
  <2>3. QED  BY <2>1, <2>2
<1>14. Waiting'
  <2> SUFFICES ASSUME NEW ch \in Channels, NEW w \in waits[ch] PROVE InPlace(w, ch)'
    BY <1>9 DEF Waiting
  <2>1. w.session \in Live /\ token[w.session] = ch  BY <1>2 DEF Waiting, InPlace
  <2>2. QED  BY <1>7, <1>8, <2>1 DEF InPlace, Live
<1>15. QED
  BY <1>1, <1>3, <1>5, <1>11, <1>12, <1>13, <1>14 DEF Inv, Phase, Plain, Observing

\* A client waits where the panes he asks about will wake him.
LEMMA ParkStep ==
    ASSUME Inv, NEW c \in Clients, NEW s \in Sessions, Park(c, s)
    PROVE  Inv'
<1>0. Typed /\ Keyed  BY DEF Inv
<1>n. PICK n \in Names : n = name[s]  BY ScopedIs DEF Park
<1>1. PICK ch \in Channels : ch = Entry(n)
  BY <1>0, <1>n, Mints DEF Park
<1> DEFINE w == [conn |-> c, session |-> s, since |-> moved[s]]
<1>2. /\ Scoped(s) /\ Mint(n)
      /\ waits' = [waits EXCEPT ![ch] = {v \in @ : v.conn # c \/ v.session # s} \cup {w}]
      /\ script' = <<Do("evaluate", n)>>
      /\ UNCHANGED <<registry, queued, thread, fifo, astray>>
  BY <1>n, <1>1 DEF Park
<1>3. /\ Settled /\ Waiting /\ s \in Live /\ Placed(s, n)
      /\ scope' \in [session : Sessions, name : Names]
  BY <1>n, <1>2, ScopedIs
<1>4. ch = token[s]  BY <1>1, <1>3 DEF Placed, Entry
<1>5. w \in Waiters  BY <1>0 DEF Typed, TypeOK, Waiters
<1>6. w.session = s  OBVIOUS
<1> HIDE DEF w
<1>7. /\ waits' \in [Channels -> SUBSET Waiters]
      /\ \A o \in Channels : \A v \in waits'[o] : v \in waits[o] \/ (v = w /\ o = ch)
  BY <1>0, <1>2, <1>5 DEF Typed, TypeOK, Waiters
<1>8. /\ channel' \in [Names -> 0..minted'] /\ minted' \in 0..MaxChannels
      /\ address' \in [Channels -> Names \cup {None}]
      /\ \A o \in 1..minted' : address'[o] \in Names
      /\ minted <= minted'
      /\ \A o \in Names : channel[o] # 0 => channel'[o] = channel[o]
  BY <1>0, <1>2, Mints
<1>9. /\ name' = name /\ born' = born /\ token' = token /\ moved' = moved
      /\ at' = at /\ on' = on /\ to' = to /\ caught' = caught
      /\ queued' = queued /\ fifo' = fifo /\ astray' = astray /\ Live' = Live
  BY <1>2 DEF registry, thread, Live
<1>10. minted \in Nat /\ minted' \in Nat
  BY <1>0, <1>8, RegistryAssumption DEF Typed, TypeOK
<1>11. Typed'
  <2>1. scope' \in [session : Sessions \cup {None}, name : Names \cup {None}]
    BY <1>3
  <2>2. TypeOK'  BY <1>0, <1>7, <1>8, <1>9, <2>1 DEF Typed, TypeOK, Waiters
  <2>3. \A o \in Sessions : token'[o] \in 0..minted'
    BY <1>0, <1>8, <1>9, <1>10 DEF Typed
  <2>4. \A t \in Threads : at'[t] # "idle" => on'[t] \in 1..minted'
    BY <1>0, <1>8, <1>9, <1>10 DEF Typed
  <2>5. QED  BY <1>0, <1>8, <1>9, <2>2, <2>3, <2>4 DEF Typed
<1>12. Keyed'  BY <1>0, <1>2, <1>9, MintKeyed
<1>13. Settled'
  BY <1>0, <1>3, <1>8, <1>9, LiveNamed DEF Settled, Placed
<1>14. Waiting'
  <2> SUFFICES ASSUME NEW o \in Channels, NEW v \in waits'[o] PROVE InPlace(v, o)'
    BY DEF Waiting
  <2>1. CASE v \in waits[o]  BY <1>3, <1>9, <2>1 DEF Waiting, InPlace
  <2>2. CASE v = w /\ o = ch  BY <1>3, <1>4, <1>6, <1>9, <2>2 DEF InPlace
  <2>3. QED  BY <1>7, <2>1, <2>2
<1>15. QED  BY <1>2, <1>11, <1>12, <1>13, <1>14 DEF Inv, Phase, Plain

-----------------------------------------------------------------------------
(* The other threads.                                                      *)

\* A step of a thread that reaches no channel by a name.
LEMMA ThreadStays ==
    ASSUME Inv, UNCHANGED <<name, born, token, map, waits, script, scope, astray>>,
           moved' \in [Sessions -> Nat], queued' \in [Channels -> BOOLEAN],
           at' \in [Threads -> {"idle", "arm", "fire", "send"}],
           on' \in [Threads -> 0..MaxChannels], to' \in [Threads -> Names \cup {None}],
           fifo' \in Seq(Names),
           \A t \in Threads : at'[t] # "idle" => on'[t] \in 1..minted,
           \A t \in Threads : at'[t] = "send" => to'[t] \in Names,
           caught' \in [Workers -> [session : Sessions \cup {None}, name : Names \cup {None}]],
           \A w \in Workers : caught'[w].session # None => caught'[w].name \in Names
    PROVE  Inv'
<1>0. Typed /\ Keyed  BY DEF Inv
<1>1. channel' = channel /\ minted' = minted /\ address' = address  BY DEF map
<1>2. TypeOK'  BY <1>0, <1>1 DEF Typed, TypeOK
<1>3. Typed'  BY <1>0, <1>1, <1>2 DEF Typed
<1>4. Keyed'  BY <1>0, <1>1 DEF Keyed, AddressIsKey, Live
<1>5. Phase'  BY <1>1, PhaseStays
<1>6. QED  BY <1>3, <1>4, <1>5 DEF Inv

LEMMA PaneMovesStep == ASSUME Inv, NEW s \in Sessions, PaneMoves(s)  PROVE Inv'
<1>1. Typed  BY DEF Inv
<1>2. /\ token[s] # 0 /\ moved' = [moved EXCEPT ![s] = @ + 1]
      /\ at' = [at EXCEPT ![s] = "arm"] /\ on' = [on EXCEPT ![s] = token[s]]
      /\ UNCHANGED <<name, born, token, map, waits, queued, to, caught, fifo, script, scope,
                     astray>>
  BY DEF PaneMoves
<1>3. s \in Threads /\ token[s] \in 1..minted /\ token[s] \in 0..MaxChannels
  BY <1>1, <1>2, RegistryAssumption DEF Typed, TypeOK, Threads
<1>4. \A t \in Threads : at'[t] # "idle" => on'[t] \in 1..minted
  BY <1>1, <1>2, <1>3 DEF Typed, TypeOK
<1>5. \A t \in Threads : at'[t] = "send" => to'[t] \in Names
  BY <1>1, <1>2, <1>3 DEF Typed, TypeOK
<1>6. moved' \in [Sessions -> Nat]  BY <1>1, <1>2 DEF Typed, TypeOK
<1>7. /\ at' \in [Threads -> {"idle", "arm", "fire", "send"}]
      /\ on' \in [Threads -> 0..MaxChannels]
  BY <1>1, <1>2, <1>3 DEF Typed, TypeOK
<1>8. QED  BY <1>1, <1>2, <1>4, <1>5, <1>6, <1>7, ThreadStays DEF Typed, TypeOK

LEMMA CatchStep == ASSUME Inv, NEW w \in Workers, NEW s \in Sessions, Catch(w, s)  PROVE Inv'
<1>1. Typed  BY DEF Inv
<1>2. /\ s \in Live
      /\ caught' = [caught EXCEPT ![w] = [session |-> s, name |-> name[s]]]
      /\ UNCHANGED <<name, born, token, moved, map, waits, queued, at, on, to, fifo, script,
                     scope, astray>>
  BY DEF Catch, registry
<1>3. name[s] \in Names  BY <1>1, <1>2, LiveNamed
<1>4. /\ caught' \in [Workers -> [session : Sessions \cup {None}, name : Names \cup {None}]]
      /\ \A o \in Workers : caught'[o].session # None => caught'[o].name \in Names
  BY <1>1, <1>2, <1>3 DEF Typed, TypeOK
<1>5. QED  BY <1>1, <1>2, <1>4, ThreadStays DEF Typed, TypeOK

LEMMA SpeakStep == ASSUME Inv, NEW w \in Workers, Speak(w)  PROVE Inv'
<1>0. Typed /\ Keyed  BY DEF Inv
<1> DEFINE n == caught[w].name
<1>1. /\ caught[w].session # None /\ Mint(n)
      /\ at' = [at EXCEPT ![w] = "arm"] /\ on' = [on EXCEPT ![w] = Entry(n)]
      /\ astray' = astray \cup {w} \/ astray' = astray
      /\ UNCHANGED <<registry, waits, queued, to, caught, fifo, script, scope>>
  BY DEF Speak
<1>2. n \in Names /\ w \in Threads  BY <1>0, <1>1 DEF Typed, Threads
<1> HIDE DEF n
<1>3. /\ Entry(n) \in Channels /\ Entry(n) \in 1..minted' /\ minted <= minted'
      /\ minted' \in 0..MaxChannels
      /\ channel' \in [Names -> 0..minted']
      /\ \A o \in Names : channel[o] # 0 => channel'[o] = channel[o]
      /\ address' \in [Channels -> Names \cup {None}]
      /\ \A ch \in 1..minted' : address'[ch] \in Names
  BY <1>0, <1>1, <1>2, Mints
<1>4. /\ UNCHANGED <<name, born, token, moved, waits, queued, to, caught, fifo, script, scope>>
  BY <1>1 DEF registry
<1>5. minted \in Nat /\ minted' \in Nat
  BY <1>0, <1>3, RegistryAssumption DEF Typed, TypeOK
<1>6. /\ at' \in [Threads -> {"idle", "arm", "fire", "send"}]
      /\ on' \in [Threads -> 0..MaxChannels] /\ astray' \subseteq Workers
  <2>1. /\ at \in [Threads -> {"idle", "arm", "fire", "send"}]
        /\ on \in [Threads -> 0..MaxChannels] /\ astray \subseteq Workers
    BY <1>0 DEF Typed, TypeOK
  <2>2. Entry(n) \in 0..MaxChannels  BY <1>3, RegistryAssumption DEF Channels
  <2>3. astray' \subseteq Workers  BY <1>1, <2>1
  <2>4. QED  BY <1>1, <1>2, <2>1, <2>2, <2>3
<1>7. /\ \A t \in Threads : at'[t] # "idle" => on'[t] \in 1..minted'
      /\ \A t \in Threads : at'[t] = "send" => to'[t] \in Names
  <2>1. at \in [Threads -> {"idle", "arm", "fire", "send"}] /\ on \in [Threads -> 0..MaxChannels]
    BY <1>0 DEF Typed, TypeOK
  <2>2. \A t \in Threads : at[t] # "idle" => on[t] \in 1..minted'
    BY <1>0, <1>3, <1>5 DEF Typed
  <2>3. \A t \in Threads : at[t] = "send" => to'[t] \in Names
    BY <1>0, <1>4 DEF Typed
  <2>4. QED  BY <1>1, <1>2, <1>3, <2>1, <2>2, <2>3
<1>8. Typed'
  <2>1. TypeOK'  BY <1>0, <1>3, <1>4, <1>6 DEF Typed, TypeOK
  <2>2. \A o \in Sessions : token'[o] \in 0..minted'
    BY <1>0, <1>3, <1>4, <1>5 DEF Typed
  <2>3. QED  BY <1>0, <1>3, <1>4, <1>7, <2>1, <2>2 DEF Typed
<1>9. Keyed'  BY <1>0, <1>1, <1>2, <1>4, MintKeyed
<1>10. Phase'  BY <1>3, <1>4, PhaseStays
<1>11. QED  BY <1>8, <1>9, <1>10 DEF Inv

LEMMA ArmStep == ASSUME Inv, NEW t \in Threads, Arm(t)  PROVE Inv'
<1>1. Typed  BY DEF Inv
<1>2. /\ at[t] = "arm"
      /\ at' \in {[at EXCEPT ![t] = "fire"], [at EXCEPT ![t] = "idle"]}
      /\ queued' \in {[queued EXCEPT ![on[t]] = TRUE], queued}
      /\ UNCHANGED <<name, born, token, moved, map, waits, on, to, caught, fifo, script, scope,
                     astray>>
  BY DEF Arm, registry
<1>3. /\ at' \in [Threads -> {"idle", "arm", "fire", "send"}]
      /\ queued' \in [Channels -> BOOLEAN]
  BY <1>1, <1>2 DEF Typed, TypeOK
<1>4. \A o \in Threads : at'[o] # "idle" => at[o] # "idle"
  BY <1>1, <1>2 DEF Typed, TypeOK
<1>5. \A o \in Threads : at'[o] = "send" => at[o] = "send"
  BY <1>1, <1>2 DEF Typed, TypeOK
<1>6. QED  BY <1>1, <1>2, <1>3, <1>4, <1>5, ThreadStays DEF Typed, TypeOK

LEMMA FireStep == ASSUME Inv, NEW t \in Threads, Fire(t)  PROVE Inv'
<1>1. Typed  BY DEF Inv
<1>2. /\ at[t] = "fire" /\ at' = [at EXCEPT ![t] = "send"]
      /\ to' = [to EXCEPT ![t] = address[on[t]]]
      /\ UNCHANGED <<name, born, token, moved, map, waits, queued, on, caught, fifo, script,
                     scope, astray>>
  BY DEF Fire, registry
<1>3. on[t] \in 1..minted /\ address[on[t]] \in Names
  BY <1>1, <1>2 DEF Typed
<1>4. /\ at' \in [Threads -> {"idle", "arm", "fire", "send"}]
      /\ to' \in [Threads -> Names \cup {None}]
      /\ \A o \in Threads : at'[o] # "idle" => at[o] # "idle"
      /\ \A o \in Threads : at'[o] = "send" => to'[o] \in Names
  BY <1>1, <1>2, <1>3 DEF Typed, TypeOK
<1>5. QED  BY <1>1, <1>2, <1>4, ThreadStays DEF Typed, TypeOK

LEMMA SendStep == ASSUME Inv, NEW t \in Threads, Send(t)  PROVE Inv'
<1>1. Typed  BY DEF Inv
<1>2. /\ at[t] = "send" /\ at' = [at EXCEPT ![t] = "idle"] /\ fifo' = Append(fifo, to[t])
      /\ UNCHANGED <<name, born, token, moved, map, waits, queued, on, to, caught, script,
                     scope, astray>>
  BY DEF Send, registry
<1>3. fifo' \in Seq(Names)
  <2>1. fifo \in Seq(Names) /\ to[t] \in Names  BY <1>1, <1>2 DEF Typed, TypeOK
  <2>2. QED  BY <1>2, <2>1
<1>4. /\ at' \in [Threads -> {"idle", "arm", "fire", "send"}]
      /\ \A o \in Threads : at'[o] # "idle" => at[o] # "idle"
      /\ \A o \in Threads : at'[o] = "send" => at[o] = "send"
  BY <1>1, <1>2 DEF Typed, TypeOK
<1>5. QED  BY <1>1, <1>2, <1>3, <1>4, ThreadStays DEF Typed, TypeOK

-----------------------------------------------------------------------------
(* The invariant.                                                          *)

LEMMA InitInv == Init => Inv
<1> SUFFICES ASSUME Init PROVE Inv  OBVIOUS
<1>1. Live = {}  BY DEF Init, Live
<1>2. /\ <<>> \in Seq(Names) /\ 0 \in Nat /\ 0 \in 0..MaxChannels
      /\ None \in Names \cup {None} /\ None \in Sessions \cup {None}
  BY RegistryAssumption
<1>3. TypeOK  BY <1>2 DEF Init, TypeOK
<1>4. \A ch \in 1..minted : address[ch] \in Names  BY DEF Init
<1>5. Typed
  <2>1. \A s \in Sessions : token[s] \in 0..minted  BY DEF Init
  <2>2. /\ \A t \in Threads : at[t] = "idle"
        /\ \A w \in Workers : caught[w].session = None
    BY DEF Init
  <2>3. QED  BY <1>3, <1>4, <2>1, <2>2 DEF Typed
<1>6. Keyed  BY <1>1 DEF Init, Keyed, AddressIsKey
<1>7. Settled /\ Waiting /\ script = <<>>  BY <1>1 DEF Init, Settled, Waiting
<1>8. QED  BY <1>5, <1>6, <1>7 DEF Inv, Phase, Plain

LEMMA InvStep == Inv /\ [Next]_vars => Inv'
<1> SUFFICES ASSUME Inv, [Next]_vars PROVE Inv'  OBVIOUS
<1>1. CASE Request
  BY <1>1, NewStep, QueryStep, RenameStep, KillStep, ParkStep, DisconnectStep DEF Request
<1>2. CASE OwnerStep
  BY <1>2, TakePassStep, BumpStep, ObserveStep, EvaluateStep, DrainStep, ForgetStep, CheckStep,
     MoveStep DEF OwnerStep
<1>3. CASE \/ \E s \in Sessions : PaneMoves(s) \/ \E w \in Workers : Catch(w, s)
           \/ \E w \in Workers : Speak(w)
           \/ \E t \in Threads : Arm(t) \/ Fire(t) \/ Send(t)
  BY <1>3, PaneMovesStep, CatchStep, SpeakStep, ArmStep, FireStep, SendStep
<1>4. CASE UNCHANGED vars
  <2>1. UNCHANGED <<name, born, token, moved, channel, minted, address, waits, queued, at, on, to,
                    caught, fifo, script, scope, astray, map>>
    BY <1>4 DEF vars, registry, map, thread
  <2>2. QED  BY <2>1, ThreadStays DEF Inv, Typed, TypeOK
<1>5. QED  BY <1>1, <1>2, <1>3, <1>4 DEF Next, Bounded

LEMMA Invariance == Spec => []Inv
  BY InitInv, InvStep, PTL DEF Spec

\* Every variable keeps its type, whatever is born, renamed, killed, waited on
\* and announced.
THEOREM TypeCorrect == Spec => []TypeOK
<1>1. Inv => TypeOK  BY DEF Inv, Typed
<1>2. QED  BY <1>1, Invariance, PTL

\* ChannelRegistry::entry and ::rename: a channel answers to the key it is
\* under, at every moment.
THEOREM KeysAddress == Spec => []AddressIsKey
<1>1. Inv => AddressIsKey  BY DEF Inv, Keyed
<1>2. QED  BY <1>1, Invariance, PTL

\* A live session's panes bump the channel that its name reaches, between any
\* two requests: new_session, kill_session and rename_session leave it so.
THEOREM PanesWake == Spec => []PanesWakeTheirSession
<1>1. Inv => PanesWakeTheirSession
  BY Idle DEF Plain, Settled, Placed, PanesWakeTheirSession
<1>2. QED  BY <1>1, Invariance, PTL

\* A wait is on a session that is alive, where that session's panes will wake
\* it, between any two requests.
THEOREM LivingWait == Spec => []WaitsOfTheLiving
<1>1. Inv => WaitsOfTheLiving
  BY Idle DEF Plain, Waiting, InPlace, WaitsOfTheLiving
<1>2. QED  BY <1>1, Invariance, PTL

\* Each channel that holds a wait is in the map at every moment, in the middle
\* of a rename or a kill too: what ChannelRegistry::release walks over.
THEOREM WaitsReachable == Spec => []WaitsAreReachable
<1>1. ASSUME Inv, NEW ch \in Channels, NEW w \in waits[ch]
      PROVE  \E n \in Names : channel[n] = ch
  <2>1. Typed /\ ch \in Channels  BY <1>1 DEF Inv
  <2>2. ASSUME Settled, InPlace(w, ch)  PROVE \E n \in Names : channel[n] = ch
    BY <2>1, <2>2, LiveNamed DEF Settled, Placed, InPlace
  <2>3. CASE Plain  BY <2>2, <2>3 DEF Plain, Waiting
  <2>4. ASSUME NEW k \in Names, NEW m \in Names, Killing(k, m)
        PROVE  \E n \in Names : channel[n] = ch
    BY <2>2, <2>4 DEF Killing, Waiting
  <2>5. ASSUME NEW s \in Sessions, NEW f \in Names, Renaming(s, f)
        PROVE  \E n \in Names : channel[n] = ch
    <3>1. InPlace(w, ch) /\ Placed(s, f) /\ \A o \in Live \ {s} : Placed(o, name[o])
      BY <2>5 DEF Renaming, Waiting
    <3>2. CASE w.session = s  BY <3>1, <3>2 DEF InPlace, Placed
    <3>3. CASE w.session # s  BY <2>1, <3>1, <3>3, LiveNamed DEF InPlace, Placed
    <3>4. QED  BY <3>2, <3>3
  <2>6. QED  BY <1>1, <2>3, <2>4, <2>5 DEF Inv, Phase
<1>2. Inv => WaitsAreReachable  BY <1>1 DEF WaitsAreReachable
<1>3. QED  BY <1>2, Invariance, PTL

-----------------------------------------------------------------------------
(* No wait is stranded where nothing was renamed.                          *)

LEMMA DoIsDeed ==
    ASSUME NEW what \in {"bump", "observe", "evaluate", "drain", "forget"}, NEW n \in Names
    PROVE  Do(what, n) \in Deeds
  BY DEF Do, Deeds

\* The script goes on, and names a name.
LEMMA StepNamed ==
    ASSUME Calm, NEW what, Step(what)
    PROVE  /\ Head(script).name \in Names /\ Tail(script) \in Seq(Deeds)
           /\ what \in {"bump", "observe", "evaluate", "drain", "forget"}
<1>1. script \in Seq(Deeds) /\ script # <<>> /\ Head(script).do = what
  BY DEF Calm, Step
<1>2. Head(script) \in Deeds /\ Tail(script) \in Seq(Deeds)  BY <1>1
<1>3. QED  BY <1>1, <1>2 DEF Deeds

LEMMA MintedNat == ASSUME Typed  PROVE minted \in Nat
  BY RegistryAssumption DEF Typed, TypeOK

\* What a mint does to the names.
LEMMA MintMap ==
    ASSUME Typed, Keyed, NEW n \in Names, Mint(n)
    PROVE  /\ minted <= minted' /\ minted \in Nat /\ minted' \in Nat
           /\ \A m \in Names : \/ channel'[m] = channel[m]
                               \/ channel'[m] \in Channels /\ channel'[m] > minted
           /\ Entry(n) \in Channels /\ Entry(n) <= minted' /\ channel'[n] = Entry(n)
<1>1. minted \in Nat /\ channel[n] \in Nat
  BY RegistryAssumption DEF Typed, TypeOK
<1>2. /\ minted <= minted' /\ minted' \in Nat /\ Entry(n) \in Channels
      /\ Entry(n) \in 1..minted' /\ channel'[n] = Entry(n)
      /\ \A m \in Names : m # n => channel'[m] = channel[m]
  BY Mints, RegistryAssumption
<1>3. Entry(n) <= minted'  BY <1>2
<1>4. Entry(n) = channel[n] \/ Entry(n) > minted  BY <1>1 DEF Entry
<1>5. QED  BY <1>1, <1>2, <1>3, <1>4

\* A step that sends nothing and flags nothing, and takes a message only to
\* run its pass.
LEMMA Quiet ==
    ASSUME Typed, Calm, UNCHANGED <<moved, queued, at, on, to>>, script' \in Seq(Deeds),
           minted \in Nat, minted' \in Nat, minted <= minted',
           \A m \in Names : \/ channel'[m] \in {0, channel[m]}
                            \/ channel'[m] \in Channels /\ channel'[m] > minted,
           \A m \in Names : (\E i \in 1..Len(fifo) : fifo[i] = m) => Coming(m)',
           \A m \in Names : script = <<Do("evaluate", m)>> => Coming(m)',
           Touched',
           \A ch \in Channels : \A w \in waits'[ch] :
               w \in waits[ch] \/ ~(moved[w.session] > w.since)
    PROVE  Calm'
<1>1. Fresh'
  <2> SUFFICES ASSUME NEW ch \in Channels, ch > minted' PROVE ~queued[ch]  BY DEF Fresh
  <2>1. ch > minted  BY DEF Channels
  <2>2. QED  BY <2>1 DEF Calm, Fresh
<1>2. FlagComes'
  <2> SUFFICES ASSUME NEW m \in Names, channel'[m] # 0, queued[channel'[m]] PROVE Coming(m)'
    BY DEF FlagComes
  <2>1. channel'[m] = channel[m]  BY DEF Calm, Fresh
  <2>2. Coming(m)  BY <2>1 DEF Calm, FlagComes
  <2>3. QED  BY <2>1, <2>2 DEF Coming
<1>3. MovedIsFlagged'
  <2> SUFFICES ASSUME NEW ch \in Channels, NEW w \in waits'[ch], moved[w.session] > w.since
               PROVE  Flagged(ch)'
    BY DEF MovedIsFlagged
  <2>1. Flagged(ch)  BY DEF Calm, MovedIsFlagged
  <2>2. QED  BY <2>1 DEF Flagged
<1>4. QED  BY <1>1, <1>2, <1>3 DEF Calm

LEMMA TouchedStays ==
    ASSUME Touched, token' = token, born \subseteq born',
           \A ch \in Channels : waits'[ch] \subseteq waits[ch]
    PROVE  Touched'
  BY DEF Touched

\* Between requests no pass is being run.
LEMMA IdleScript == ASSUME script = <<>>  PROVE \A m : script # <<Do("evaluate", m)>>
  OBVIOUS

LEMMA CalmQuery == ASSUME Inv, Calm, NEW s \in Sessions, Query(s)  PROVE Calm'
<1>1. /\ Scoped(s) /\ script = <<>> /\ script' = <<Do("observe", name[s])>>
      /\ UNCHANGED <<born, token, moved, channel, minted, waits, queued, at, on, to, fifo>>
  BY DEF Query, Scoped, registry, map, thread
<1>2. name[s] \in Names /\ Typed /\ minted \in Nat
  BY <1>1, ScopedIs, MintedNat DEF Inv
<1>3. script' \in Seq(Deeds)  BY <1>1, <1>2, DoIsDeed
<1>4. Touched'  BY <1>1, TouchedStays DEF Calm
<1>5. \A m \in Names : (\E i \in 1..Len(fifo) : fifo[i] = m) => Coming(m)'
  BY <1>1 DEF Coming
<1>6. QED  BY <1>1, <1>2, <1>3, <1>4, <1>5, IdleScript, Quiet

LEMMA CalmKill ==
    ASSUME Inv, Calm, NEW asking \in Sessions, NEW s \in Sessions, Kill(asking, s)
    PROVE  Calm'
<1>1. /\ Scoped(asking) /\ s \in Live /\ script = <<>>
      /\ script' = <<Do("drain", name[s]), Do("forget", name[s]), Do("bump", name[asking]),
                     Do("observe", name[asking])>>
      /\ UNCHANGED <<born, token, moved, channel, minted, waits, queued, at, on, to, fifo>>
  BY DEF Kill, Scoped, map, thread
<1>2. /\ name[s] \in Names /\ name[asking] \in Names /\ Typed /\ minted \in Nat
  BY <1>1, ScopedIs, LiveNamed, MintedNat DEF Inv
<1>3. script' \in Seq(Deeds)
  <2>1. /\ Do("drain", name[s]) \in Deeds /\ Do("forget", name[s]) \in Deeds
        /\ Do("bump", name[asking]) \in Deeds /\ Do("observe", name[asking]) \in Deeds
    BY <1>2, DoIsDeed
  <2>2. QED  BY <1>1, <2>1
<1>4. Touched'  BY <1>1, TouchedStays DEF Calm
<1>5. \A m \in Names : (\E i \in 1..Len(fifo) : fifo[i] = m) => Coming(m)'
  BY <1>1 DEF Coming
<1>6. QED  BY <1>1, <1>2, <1>3, <1>4, <1>5, IdleScript, Quiet

LEMMA CalmDisconnect == ASSUME Inv, Calm, NEW c \in Clients, Disconnect(c)  PROVE Calm'
<1>1. /\ script = <<>> /\ script' = script
      /\ UNCHANGED <<born, token, moved, channel, minted, queued, at, on, to, fifo>>
      /\ \A ch \in Channels : waits'[ch] \subseteq waits[ch]
  BY DEF Disconnect, registry, map, thread
<1>2. Typed /\ minted \in Nat  BY RegistryAssumption DEF Inv, Typed, TypeOK
<1>3. Touched'  BY <1>1, TouchedStays DEF Calm
<1>4. \A m \in Names : (\E i \in 1..Len(fifo) : fifo[i] = m) => Coming(m)'
  BY <1>1 DEF Coming
<1>5. script' \in Seq(Deeds)  BY <1>1 DEF Calm
<1>6. QED  BY <1>1, <1>2, <1>3, <1>4, <1>5, IdleScript, Quiet

LEMMA CalmTakePass == ASSUME Inv, Calm, TakePass  PROVE Calm'
<1>1. /\ script = <<>> /\ fifo # <<>> /\ fifo' = Tail(fifo)
      /\ script' = <<Do("evaluate", Head(fifo))>>
      /\ UNCHANGED <<born, token, moved, channel, minted, waits, queued, at, on, to>>
  BY DEF TakePass, registry, map, thread
<1>2. Typed /\ minted \in Nat /\ fifo \in Seq(Names)
  BY RegistryAssumption DEF Inv, Typed, TypeOK
<1>3. Head(fifo) \in Names  BY <1>1, <1>2
<1>4. script' \in Seq(Deeds)  BY <1>1, <1>3, DoIsDeed
<1>5. Touched'  BY <1>1, TouchedStays DEF Calm
<1>6. ASSUME NEW m \in Names, NEW i \in 1..Len(fifo), fifo[i] = m  PROVE Coming(m)'
  <2>1. CASE i = 1
    <3>1. Head(fifo) = m  BY <1>1, <1>2, <1>6, <2>1
    <3>2. QED  BY <1>1, <3>1 DEF Coming
  <2>2. CASE i # 1
    <3>1. i - 1 \in 1..Len(fifo') /\ fifo'[i - 1] = m  BY <1>1, <1>2, <1>6, <2>2
    <3>2. QED  BY <3>1 DEF Coming
  <2>3. QED  BY <2>1, <2>2
<1>7. QED  BY <1>1, <1>2, <1>4, <1>5, <1>6, IdleScript, Quiet

LEMMA CalmNew ==
    ASSUME Inv, Calm, NEW s \in Sessions, NEW n \in Names, New(s, n)
    PROVE  Calm'
<1>0. Typed /\ Keyed  BY DEF Inv
<1>1. /\ script = <<>> /\ s \notin born /\ Mint(n)
      /\ IF Live = {} THEN scope' = [session |-> s, name |-> n]
         ELSE \E asking \in Live : Scoped(asking)
      /\ born' = born \cup {s} /\ token' = [token EXCEPT ![s] = Entry(n)]
      /\ script' = <<Do("bump", n), Do("bump", scope'.name), Do("observe", scope'.name)>>
      /\ UNCHANGED <<moved, waits, queued, at, on, to, fifo>>
  BY DEF New, thread
<1>2. scope'.name \in Names
  <2>1. CASE Live = {}  BY <1>1, <2>1
  <2>2. CASE Live # {}  BY <1>1, <2>2, ScopedIs
  <2>3. QED  BY <2>1, <2>2
<1>3. script' \in Seq(Deeds)
  <2>1. Do("bump", n) \in Deeds /\ Do("bump", scope'.name) \in Deeds
        /\ Do("observe", scope'.name) \in Deeds
    BY <1>2, DoIsDeed
  <2>2. QED  BY <1>1, <2>1
<1>4. Touched'
  <2> SUFFICES ASSUME NEW ch \in Channels, NEW w \in waits[ch]
               PROVE  w.session \in born' /\ token'[w.session] = ch
    BY <1>1 DEF Touched
  <2>1. w.session \in born /\ token[w.session] = ch  BY DEF Calm, Touched
  <2>2. born \subseteq Sessions /\ token \in [Sessions -> 0..MaxChannels]
    BY <1>0 DEF Typed, TypeOK
  <2>3. QED  BY <1>1, <2>1, <2>2
<1>5. /\ minted \in Nat /\ minted' \in Nat /\ minted <= minted'
      /\ \A m \in Names : \/ channel'[m] = channel[m]
                          \/ channel'[m] \in Channels /\ channel'[m] > minted
  BY <1>0, <1>1, MintMap
<1>6. \A m \in Names : (\E i \in 1..Len(fifo) : fifo[i] = m) => Coming(m)'
  BY <1>1 DEF Coming
<1>7. QED  BY <1>0, <1>1, <1>3, <1>4, <1>5, <1>6, IdleScript, Quiet

LEMMA CalmPark ==
    ASSUME Inv, Calm, NEW c \in Clients, NEW s \in Sessions, Park(c, s)
    PROVE  Calm'
<1>0. Typed /\ Keyed  BY DEF Inv
<1>n. PICK n \in Names : n = name[s]  BY ScopedIs DEF Park
<1> DEFINE ch == Entry(n)
           w == [conn |-> c, session |-> s, since |-> moved[s]]
<1>1. /\ Scoped(s) /\ script = <<>> /\ Mint(n)
      /\ waits' = [waits EXCEPT ![ch] = {v \in @ : v.conn # c \/ v.session # s} \cup {w}]
      /\ script' = <<Do("evaluate", n)>>
      /\ UNCHANGED <<born, token, moved, queued, at, on, to, fifo>>
  BY <1>n DEF Park, Scoped, registry, thread
<1>2. Placed(s, n) /\ s \in Live  BY <1>n, <1>1, ScopedIs
<1>3. ch = token[s] /\ s \in born  BY <1>0, <1>2 DEF Placed, Entry, Keyed
<1>4. script' \in Seq(Deeds)  BY <1>1, DoIsDeed
<1>5. /\ minted \in Nat /\ minted' \in Nat /\ minted <= minted'
      /\ \A m \in Names : \/ channel'[m] = channel[m]
                          \/ channel'[m] \in Channels /\ channel'[m] > minted
  BY <1>0, <1>1, MintMap
<1>6. w.session = s /\ w.since = moved[s]  OBVIOUS
<1> HIDE DEF ch, w
<1>7. \A o \in Channels : \A v \in waits'[o] : v \in waits[o] \/ (v = w /\ o = ch)
  BY <1>0, <1>1 DEF Typed, TypeOK
<1>8. Touched'  BY <1>1, <1>3, <1>6, <1>7 DEF Calm, Touched
<1>9. ~(moved[w.session] > w.since)  BY <1>0, <1>6 DEF Typed, TypeOK
<1>10. \A m \in Names : (\E i \in 1..Len(fifo) : fifo[i] = m) => Coming(m)'
  BY <1>1 DEF Coming
<1>11. QED  BY <1>0, <1>1, <1>4, <1>5, <1>7, <1>8, <1>9, <1>10, IdleScript, Quiet

\* A bump by the owner: a flag it raises goes up with its message.
LEMMA SignalCalm ==
    ASSUME Typed, Keyed, Keyed', Calm, NEW n \in Names, Mint(n), Signal(Entry(n), n),
           UNCHANGED <<moved, born, token, at, on, to>>,
           script' \in Seq(Deeds), \A m \in Names : script # <<Do("evaluate", m)>>,
           \A ch \in Channels : waits'[ch] \subseteq waits[ch]
    PROVE  Calm'
<1>1. /\ minted <= minted' /\ minted \in Nat /\ minted' \in Nat
      /\ \A m \in Names : \/ channel'[m] = channel[m]
                          \/ channel'[m] \in Channels /\ channel'[m] > minted
      /\ Entry(n) \in Channels /\ Entry(n) <= minted' /\ channel'[n] = Entry(n)
  BY MintMap
<1>2. fifo \in Seq(Names) /\ queued \in [Channels -> BOOLEAN]  BY DEF Typed, TypeOK
<1>3. \/ /\ queued' = [queued EXCEPT ![Entry(n)] = TRUE] /\ fifo' = Append(fifo, n)
      \/ queued' = queued /\ fifo' = fifo
  BY DEF Signal
<1>4. \A ch \in Channels : /\ queued[ch] => queued'[ch]
                           /\ queued'[ch] => queued[ch] \/ ch = Entry(n)
  BY <1>1, <1>2, <1>3
<1>5. Fresh'
  <2> SUFFICES ASSUME NEW ch \in Channels, ch > minted' PROVE ~queued'[ch]  BY DEF Fresh
  <2>1. ch > minted /\ ch # Entry(n)  BY <1>1 DEF Channels
  <2>2. QED  BY <1>4, <2>1 DEF Calm, Fresh
<1>6. \A i \in 1..Len(fifo) : i \in 1..Len(fifo') /\ fifo'[i] = fifo[i]
  BY <1>2, <1>3
<1>7. FlagComes'
  <2> SUFFICES ASSUME NEW m \in Names, channel'[m] # 0, queued'[channel'[m]]
               PROVE  Coming(m)'
    BY DEF FlagComes
  <2>1. CASE channel'[m] = channel[m] /\ queued[channel[m]]
    <3>1. Coming(m)  BY <2>1 DEF Calm, FlagComes
    <3>2. (\E i \in 1..Len(fifo) : fifo[i] = m) => \E i \in 1..Len(fifo') : fifo'[i] = m
      BY <1>6
    <3>3. QED  BY <2>1, <3>1, <3>2 DEF Coming
  <2>2. CASE ~(channel'[m] = channel[m] /\ queued[channel[m]])
    <3>1. channel'[m] \in Channels
      BY <1>1, MintedNat, RegistryAssumption DEF Typed, TypeOK, Channels
    <3>2. ~queued[channel'[m]]  BY <1>1, <2>2, <3>1 DEF Calm, Fresh
    <3>3. channel'[m] = Entry(n)  BY <1>4, <3>1, <3>2
    <3>4. m = n  BY <1>1, <3>3 DEF Keyed, AddressIsKey
    <3>5. queued' # queued  BY <3>2
    <3>6. fifo' = Append(fifo, n)  BY <1>3, <3>5
    <3>7. Len(fifo) + 1 \in 1..Len(fifo') /\ fifo'[Len(fifo) + 1] = n  BY <1>2, <3>6
    <3>8. QED  BY <3>4, <3>7 DEF Coming
  <2>3. QED  BY <2>1, <2>2
<1>8. MovedIsFlagged'
  <2> SUFFICES ASSUME NEW ch \in Channels, NEW w \in waits'[ch], moved[w.session] > w.since
               PROVE  Flagged(ch)'
    BY DEF MovedIsFlagged
  <2>1. Flagged(ch)  BY DEF Calm, MovedIsFlagged
  <2>2. QED  BY <1>4, <2>1 DEF Flagged
<1>9. Touched'  BY TouchedStays DEF Calm
<1>10. QED  BY <1>5, <1>7, <1>8, <1>9 DEF Calm

\* A step of a script is not a pass, unless it is one.
LEMMA OtherStep ==
    ASSUME NEW what, Step(what), what # "evaluate"
    PROVE  \A m \in Names : script # <<Do("evaluate", m)>>
  BY Scripts, Dos DEF Step

LEMMA CalmBump == ASSUME Inv, Inv', Calm, Bump  PROVE Calm'
<1> DEFINE n == Head(script).name
<1>1. /\ Step("bump") /\ Mint(n) /\ Signal(Entry(n), n) /\ script' = Tail(script)
      /\ UNCHANGED <<moved, born, token, at, on, to, waits>>
  BY DEF Bump, registry, thread
<1>2. n \in Names /\ script' \in Seq(Deeds)  BY <1>1, StepNamed
<1> HIDE DEF n
<1>3. \A m \in Names : script # <<Do("evaluate", m)>>  BY <1>1, OtherStep
<1>4. QED  BY <1>1, <1>2, <1>3, SignalCalm DEF Inv

LEMMA CalmDrain == ASSUME Inv, Inv', Calm, Drain  PROVE Calm'
<1> DEFINE n == Head(script).name
<1>1. /\ Step("drain") /\ Mint(n) /\ Signal(Entry(n), n) /\ script' = Tail(script)
      /\ waits' = [waits EXCEPT ![Entry(n)] = {}]
      /\ UNCHANGED <<moved, born, token, at, on, to>>
  BY DEF Drain, registry, thread
<1>2. n \in Names /\ script' \in Seq(Deeds)  BY <1>1, StepNamed
<1> HIDE DEF n
<1>3. \A m \in Names : script # <<Do("evaluate", m)>>  BY <1>1, OtherStep
<1>4. \A ch \in Channels : waits'[ch] \subseteq waits[ch]
  BY <1>1 DEF Inv, Typed, TypeOK
<1>5. QED  BY <1>1, <1>2, <1>3, <1>4, SignalCalm DEF Inv

LEMMA CalmObserve == ASSUME Inv, Calm, Observe  PROVE Calm'
<1> DEFINE n == IF name[scope.session] # None THEN name[scope.session] ELSE scope.name
<1>0. Typed /\ Keyed  BY DEF Inv
<1>1. /\ Step("observe") /\ Mint(n) /\ script' = Tail(script)
      /\ UNCHANGED <<moved, born, token, at, on, to, waits, queued, fifo>>
  BY DEF Observe, registry, thread
<1>2. Observing  BY <1>1, Doing
<1>3. n \in Names  BY <1>0, <1>2 DEF Observing, Typed, TypeOK
<1> HIDE DEF n
<1>4. script' \in Seq(Deeds)  BY <1>1, StepNamed
<1>5. /\ minted \in Nat /\ minted' \in Nat /\ minted <= minted'
      /\ \A m \in Names : \/ channel'[m] = channel[m]
                          \/ channel'[m] \in Channels /\ channel'[m] > minted
  BY <1>0, <1>1, <1>3, MintMap
<1>6. \A m \in Names : script # <<Do("evaluate", m)>>  BY <1>1, OtherStep
<1>7. Touched'  BY <1>1, TouchedStays DEF Calm
<1>8. \A m \in Names : (\E i \in 1..Len(fifo) : fifo[i] = m) => Coming(m)'
  BY <1>1 DEF Coming
<1>9. QED  BY <1>0, <1>1, <1>4, <1>5, <1>6, <1>7, <1>8, Quiet

LEMMA CalmForget == ASSUME Inv, Calm, Forget  PROVE Calm'
<1>0. Typed /\ Keyed  BY DEF Inv
<1>1. /\ Step("forget") /\ script' = Tail(script)
      /\ channel' = [channel EXCEPT ![Head(script).name] = 0]
      /\ UNCHANGED <<moved, born, token, at, on, to, waits, queued, fifo, minted>>
  BY DEF Forget, registry, thread
<1>2. script' \in Seq(Deeds)  BY <1>1, StepNamed
<1>3. \A m \in Names : channel'[m] \in {0, channel[m]}  BY <1>0, <1>1 DEF Typed, TypeOK
<1>4. \A m \in Names : script # <<Do("evaluate", m)>>  BY <1>1, OtherStep
<1>5. Touched'  BY <1>1, TouchedStays DEF Calm
<1>6. \A m \in Names : (\E i \in 1..Len(fifo) : fifo[i] = m) => Coming(m)'
  BY <1>1 DEF Coming
<1>7. minted \in Nat /\ minted' \in Nat /\ minted <= minted'  BY <1>0, <1>1, MintedNat
<1>8. QED  BY <1>0, <1>1, <1>2, <1>3, <1>4, <1>5, <1>6, <1>7, Quiet

\* A pass answers every wait of its channel whose pane has moved.
LEMMA CalmEvaluate == ASSUME Inv, Inv', Calm, Evaluate  PROVE Calm'
<1> DEFINE n == Head(script).name
<1>0. Typed /\ Keyed  BY DEF Inv
<1>1. /\ Step("evaluate") /\ Mint(n) /\ script' = Tail(script)
      /\ queued' = [queued EXCEPT ![Entry(n)] = FALSE]
      /\ waits' = [waits EXCEPT ![Entry(n)] = @ \ Answered(Entry(n), n)]
      /\ UNCHANGED <<name, moved, born, token, at, on, to, fifo>>
  BY DEF Evaluate, registry, thread
<1>2. n \in Names /\ script' \in Seq(Deeds)  BY <1>1, StepNamed
<1>3. PICK k \in Names : script = <<Do("evaluate", k)>>  BY <1>1, Doing
<1>4. n = k  BY <1>3, Scripts, Dos
<1>5. Settled /\ Waiting  BY <1>1, Doing DEF Plain
<1> HIDE DEF n
<1>6. /\ minted <= minted' /\ minted \in Nat /\ minted' \in Nat
      /\ \A m \in Names : \/ channel'[m] = channel[m]
                          \/ channel'[m] \in Channels /\ channel'[m] > minted
      /\ Entry(n) \in Channels /\ Entry(n) <= minted' /\ channel'[n] = Entry(n)
  BY <1>0, <1>1, <1>2, MintMap
<1>7. /\ \A ch \in Channels : waits'[ch] \subseteq waits[ch]
      /\ waits'[Entry(n)] = waits[Entry(n)] \ Answered(Entry(n), n)
      /\ queued'[Entry(n)] = FALSE
      /\ \A ch \in Channels : ch # Entry(n) => queued'[ch] = queued[ch]
  BY <1>0, <1>1, <1>6 DEF Typed, TypeOK
<1>8. Fresh'
  <2> SUFFICES ASSUME NEW ch \in Channels, ch > minted' PROVE ~queued'[ch]  BY DEF Fresh
  <2>1. ch > minted /\ ch # Entry(n)  BY <1>6 DEF Channels
  <2>2. QED  BY <1>7, <2>1 DEF Calm, Fresh
<1>9. FlagComes'
  <2> SUFFICES ASSUME NEW m \in Names, channel'[m] # 0, queued'[channel'[m]]
               PROVE  Coming(m)'
    BY DEF FlagComes
  <2>1. channel'[m] \in Channels
    BY <1>0, <1>6, RegistryAssumption DEF Typed, TypeOK, Channels
  <2>2. channel'[m] # Entry(n) /\ m # n  BY <1>6, <1>7
  <2>3. queued[channel'[m]]  BY <1>7, <2>1, <2>2
  <2>4. channel'[m] = channel[m]  BY <1>6, <2>1, <2>3 DEF Calm, Fresh
  <2>5. Coming(m)  BY <2>3, <2>4 DEF Calm, FlagComes
  <2>6. script # <<Do("evaluate", m)>>
    <3>1. Head(<<Do("evaluate", m)>>).name = m /\ Head(script).name = n
      BY <1>3, <1>4, Scripts, Dos
    <3>2. QED  BY <2>2, <3>1
  <2>7. QED  BY <1>1, <2>4, <2>5, <2>6 DEF Coming
<1>10. MovedIsFlagged'
  <2> SUFFICES ASSUME NEW ch \in Channels, NEW w \in waits'[ch], moved[w.session] > w.since
               PROVE  Flagged(ch)'
    BY <1>1 DEF MovedIsFlagged
  <2>1. w \in waits[ch]  BY <1>7
  <2>2. ch # Entry(n)
    <3> SUFFICES ASSUME ch = Entry(n) PROVE FALSE  OBVIOUS
    <3>1. w.session \in Live /\ token[w.session] = ch
      BY <1>5, <2>1 DEF Waiting, InPlace
    <3>2. /\ name[w.session] \in Names /\ channel[name[w.session]] = ch
          /\ channel[name[w.session]] # 0
      BY <1>0, <1>5, <3>1, LiveNamed DEF Settled, Placed
    <3>3. channel'[name[w.session]] = ch
      BY <1>0, <1>6, <3>2, Mints, <1>1, <1>2
    <3>4. name[w.session] = n
      <4>1. \A m \in Names : channel'[m] # 0 => address'[channel'[m]] = m
        BY DEF Inv, Keyed, AddressIsKey
      <4>2. /\ channel'[n] = ch /\ ch # 0 /\ name[w.session] \in Names
            /\ channel'[name[w.session]] = ch
        BY <1>6, <3>2, <3>3
      <4>3. QED  BY <1>2, <4>1, <4>2
    <3>5. w \in Answered(Entry(n), n)  BY <2>1, <3>4 DEF Answered
    <3>6. QED  BY <1>7, <3>5
  <2>3. Flagged(ch)  BY <2>1 DEF Calm, MovedIsFlagged
  <2>4. QED  BY <1>1, <1>7, <2>2, <2>3 DEF Flagged
<1>11. Touched'  BY <1>1, <1>7, TouchedStays DEF Calm
<1>12. QED  BY <1>2, <1>8, <1>9, <1>10, <1>11 DEF Calm

\* A thread's step that touches no map, no script and no wait.
LEMMA ThreadCalm ==
    ASSUME Calm, UNCHANGED <<born, token, channel, minted, waits, script>>,
           \A ch \in Channels : queued'[ch] => queued[ch] \/ ~(ch > minted),
           FlagComes', MovedIsFlagged'
    PROVE  Calm'
  BY DEF Calm, Fresh, Touched

LEMMA CalmPaneMoves == ASSUME Inv, Calm, NEW s \in Sessions, PaneMoves(s)  PROVE Calm'
<1>0. Typed  BY DEF Inv
<1>1. /\ at[s] = "idle" /\ moved' = [moved EXCEPT ![s] = @ + 1]
      /\ at' = [at EXCEPT ![s] = "arm"] /\ on' = [on EXCEPT ![s] = token[s]]
      /\ UNCHANGED <<born, token, channel, minted, waits, queued, to, fifo, script>>
  BY DEF PaneMoves, map
<1>2. /\ s \in Threads /\ at'[s] = "arm" /\ on'[s] = token[s]
      /\ \A t \in Threads : t # s => at'[t] = at[t] /\ on'[t] = on[t]
  BY <1>0, <1>1 DEF Typed, TypeOK, Threads
<1>3. FlagComes'
  <2> SUFFICES ASSUME NEW m \in Names, Coming(m) PROVE Coming(m)'
    BY <1>1 DEF FlagComes, Calm
  <2>1. \A t \in Threads : at[t] \in {"fire", "send"} => t # s  BY <1>1
  <2>2. QED  BY <1>1, <1>2, <2>1 DEF Coming
<1>4. MovedIsFlagged'
  <2> SUFFICES ASSUME NEW ch \in Channels, NEW w \in waits[ch],
                      moved'[w.session] > w.since
               PROVE  Flagged(ch)'
    BY <1>1 DEF MovedIsFlagged
  <2>1. CASE w.session = s
    <3>1. token[s] = ch  BY <2>1 DEF Calm, Touched
    <3>2. QED  BY <1>2, <3>1 DEF Flagged
  <2>2. CASE w.session # s
    <3>1. w.session \in Sessions  BY <1>0 DEF Typed, TypeOK
    <3>2. moved'[w.session] = moved[w.session]  BY <1>0, <1>1, <2>2, <3>1 DEF Typed, TypeOK
    <3>3. Flagged(ch)  BY <3>2 DEF Calm, MovedIsFlagged
    <3>4. \A t \in Threads : at[t] = "arm" => t # s  BY <1>1
    <3>5. QED  BY <1>1, <1>2, <3>3, <3>4 DEF Flagged
  <2>3. QED  BY <2>1, <2>2
<1>5. QED  BY <1>1, <1>3, <1>4, ThreadCalm

LEMMA CalmSpeak == ASSUME Inv, Calm, NEW u \in Workers, Speak(u)  PROVE Calm'
<1>0. Typed /\ Keyed  BY DEF Inv
<1> DEFINE n == caught[u].name
<1>1. /\ at[u] = "idle" /\ caught[u].session # None /\ Mint(n)
      /\ at' = [at EXCEPT ![u] = "arm"] /\ on' = [on EXCEPT ![u] = Entry(n)]
      /\ UNCHANGED <<born, token, moved, waits, queued, to, fifo, script>>
  BY DEF Speak, registry
<1>2. n \in Names  BY <1>0, <1>1 DEF Typed
<1> HIDE DEF n
<1>3. \A t \in Threads : t # u => at'[t] = at[t] /\ on'[t] = on[t]
  BY <1>0, <1>1 DEF Typed, TypeOK
<1>4. /\ minted <= minted' /\ minted \in Nat /\ minted' \in Nat
      /\ \A m \in Names : \/ channel'[m] = channel[m]
                          \/ channel'[m] \in Channels /\ channel'[m] > minted
  BY <1>0, <1>1, <1>2, MintMap
<1>5. Fresh'
  <2> SUFFICES ASSUME NEW ch \in Channels, ch > minted' PROVE ~queued[ch]
    BY <1>1 DEF Fresh
  <2>1. ch > minted  BY <1>4 DEF Channels
  <2>2. QED  BY <2>1 DEF Calm, Fresh
<1>6. FlagComes'
  <2> SUFFICES ASSUME NEW m \in Names, channel'[m] # 0, queued[channel'[m]]
               PROVE  Coming(m)'
    BY <1>1 DEF FlagComes
  <2>1. channel'[m] = channel[m]  BY <1>4 DEF Calm, Fresh
  <2>2. Coming(m)  BY <2>1 DEF Calm, FlagComes
  <2>3. \A t \in Threads : at[t] \in {"fire", "send"} => t # u  BY <1>1
  <2>4. QED  BY <1>1, <1>3, <2>1, <2>2, <2>3 DEF Coming
<1>7. MovedIsFlagged'
  <2> SUFFICES ASSUME NEW ch \in Channels, NEW w \in waits[ch], moved[w.session] > w.since
               PROVE  Flagged(ch)'
    BY <1>1 DEF MovedIsFlagged
  <2>1. Flagged(ch)  BY DEF Calm, MovedIsFlagged
  <2>2. \A t \in Threads : at[t] = "arm" => t # u  BY <1>1
  <2>3. QED  BY <1>1, <1>3, <2>1, <2>2 DEF Flagged
<1>8. Touched'  BY <1>1, TouchedStays DEF Calm
<1>9. QED  BY <1>1, <1>5, <1>6, <1>7, <1>8 DEF Calm

\* The flag goes up where somebody waits, and stays up where it was.
LEMMA CalmArm == ASSUME Inv, Calm, NEW u \in Threads, Arm(u)  PROVE Calm'
<1>0. Typed  BY DEF Inv
<1>1. /\ at[u] = "arm"
      /\ UNCHANGED <<born, token, channel, minted, moved, waits, on, to, fifo, script>>
  BY DEF Arm, registry, map
<1>2. on[u] \in 1..minted /\ on[u] \in Channels
  BY <1>0, <1>1, RegistryAssumption DEF Typed, TypeOK, Channels
<1>3. \A t \in Threads : t # u => at'[t] = at[t]
  BY <1>0 DEF Arm, Typed, TypeOK
<1>4. CASE Arms(on[u])
  <2>1. /\ queued' = [queued EXCEPT ![on[u]] = TRUE] /\ at'[u] = "fire"
    BY <1>0, <1>4 DEF Arm, Typed, TypeOK
  <2>2. /\ queued'[on[u]]
        /\ \A ch \in Channels : ch # on[u] => queued'[ch] = queued[ch]
    BY <1>0, <1>2, <2>1 DEF Typed, TypeOK
  <2>3. FlagComes'
    <3> SUFFICES ASSUME NEW m \in Names, channel[m] # 0, queued'[channel[m]]
                 PROVE  Coming(m)'
      BY <1>1 DEF FlagComes
    <3>1. CASE channel[m] = on[u]  BY <1>1, <2>1, <3>1 DEF Coming
    <3>2. CASE channel[m] # on[u]
      <4>1. channel[m] \in Channels
        BY <1>0, RegistryAssumption DEF Typed, TypeOK, Channels
      <4>2. Coming(m)  BY <2>2, <3>2, <4>1 DEF Calm, FlagComes
      <4>3. \A t \in Threads : at[t] \in {"fire", "send"} => t # u  BY <1>1
      <4>4. QED  BY <1>1, <1>3, <4>2, <4>3 DEF Coming
    <3>3. QED  BY <3>1, <3>2
  <2>4. MovedIsFlagged'
    <3> SUFFICES ASSUME NEW ch \in Channels, NEW w \in waits[ch], moved[w.session] > w.since
                 PROVE  Flagged(ch)'
      BY <1>1 DEF MovedIsFlagged
    <3>1. CASE ch = on[u]  BY <2>2, <3>1 DEF Flagged
    <3>2. CASE ch # on[u]
      <4>1. Flagged(ch)  BY DEF Calm, MovedIsFlagged
      <4>2. QED  BY <1>1, <1>3, <2>2, <3>2, <4>1 DEF Flagged
    <3>3. QED  BY <3>1, <3>2
  <2>5. \A ch \in Channels : queued'[ch] => queued[ch] \/ ~(ch > minted)
    BY <1>0, <1>2, <2>2, MintedNat
  <2>6. QED  BY <1>1, <2>3, <2>4, <2>5, ThreadCalm
<1>5. CASE ~Arms(on[u])
  <2>1. queued' = queued /\ at'[u] = "idle"  BY <1>0, <1>5 DEF Arm, Typed, TypeOK
  <2>2. FlagComes'
    <3> SUFFICES ASSUME NEW m \in Names, Coming(m) PROVE Coming(m)'
      BY <1>1, <2>1 DEF FlagComes, Calm
    <3>1. \A t \in Threads : at[t] \in {"fire", "send"} => t # u  BY <1>1
    <3>2. QED  BY <1>1, <1>3, <3>1 DEF Coming
  <2>3. MovedIsFlagged'
    <3> SUFFICES ASSUME NEW ch \in Channels, NEW w \in waits[ch], moved[w.session] > w.since
                 PROVE  Flagged(ch)'
      BY <1>1 DEF MovedIsFlagged
    <3>1. CASE ch = on[u]  BY <1>5, <2>1, <3>1 DEF Arms, Flagged
    <3>2. CASE ch # on[u]
      <4>1. Flagged(ch)  BY DEF Calm, MovedIsFlagged
      <4>2. QED  BY <1>1, <1>3, <2>1, <3>2, <4>1 DEF Flagged
    <3>3. QED  BY <3>1, <3>2
  <2>4. QED  BY <1>1, <2>1, <2>2, <2>3, ThreadCalm
<1>6. QED  BY <1>4, <1>5

\* The message that is sent is for the name the channel is under.
LEMMA CalmFire == ASSUME Inv, Calm, NEW u \in Threads, Fire(u)  PROVE Calm'
<1>0. Typed /\ Keyed  BY DEF Inv
<1>1. /\ at[u] = "fire"
      /\ UNCHANGED <<born, token, channel, minted, moved, waits, queued, on, fifo, script>>
  BY DEF Fire, registry, map
<1>2. /\ at'[u] = "send" /\ to'[u] = address[on[u]]
      /\ \A t \in Threads : t # u => at'[t] = at[t] /\ to'[t] = to[t]
  BY <1>0 DEF Fire, Typed, TypeOK
<1>3. FlagComes'
  <2> SUFFICES ASSUME NEW m \in Names, channel[m] # 0, Coming(m) PROVE Coming(m)'
    BY <1>1 DEF FlagComes, Calm
  <2>1. on[u] = channel[m] => to'[u] = m  BY <1>0, <1>2 DEF Keyed, AddressIsKey
  <2>2. \A t \in Threads : at[t] = "send" => t # u  BY <1>1
  <2>3. QED  BY <1>1, <1>2, <2>1, <2>2 DEF Coming
<1>4. MovedIsFlagged'
  <2>1. \A t \in Threads : at[t] = "arm" => t # u  BY <1>1
  <2>2. \A ch \in Channels : Flagged(ch) => Flagged(ch)'
    BY <1>1, <1>2, <2>1 DEF Flagged
  <2>3. QED  BY <1>1, <2>2 DEF Calm, MovedIsFlagged
<1>5. QED  BY <1>1, <1>3, <1>4, ThreadCalm

LEMMA CalmSend == ASSUME Inv, Calm, NEW u \in Threads, Send(u)  PROVE Calm'
<1>0. Typed  BY DEF Inv
<1>1. /\ at[u] = "send" /\ fifo' = Append(fifo, to[u])
      /\ UNCHANGED <<born, token, channel, minted, moved, waits, queued, on, to, script>>
  BY DEF Send, registry, map
<1>2. \A t \in Threads : t # u => at'[t] = at[t]  BY <1>0 DEF Send, Typed, TypeOK
<1>3. /\ \A i \in 1..Len(fifo) : i \in 1..Len(fifo') /\ fifo'[i] = fifo[i]
      /\ Len(fifo) + 1 \in 1..Len(fifo') /\ fifo'[Len(fifo) + 1] = to[u]
  <2>1. fifo \in Seq(Names)  BY <1>0 DEF Typed, TypeOK
  <2>2. to[u] \in Names  BY <1>0, <1>1 DEF Typed
  <2>3. QED  BY <1>1, <2>1, <2>2
<1>4. FlagComes'
  <2> SUFFICES ASSUME NEW m \in Names, Coming(m) PROVE Coming(m)'
    BY <1>1 DEF FlagComes, Calm
  <2>1. CASE \E i \in 1..Len(fifo) : fifo[i] = m  BY <1>3, <2>1 DEF Coming
  <2>2. CASE to[u] = m  BY <1>3, <2>2 DEF Coming
  <2>3. CASE script = <<Do("evaluate", m)>>  BY <1>1, <2>3 DEF Coming
  <2>4. CASE \E t \in Threads : \/ at[t] = "fire" /\ on[t] = channel[m]
                                \/ at[t] = "send" /\ to[t] = m /\ t # u
    <3>1. \A t \in Threads : at[t] = "fire" => t # u  BY <1>1
    <3>2. QED  BY <1>1, <1>2, <2>4, <3>1 DEF Coming
  <2>5. QED  BY <2>1, <2>2, <2>3, <2>4 DEF Coming
<1>5. MovedIsFlagged'
  <2>1. \A t \in Threads : at[t] = "arm" => t # u  BY <1>1
  <2>2. \A ch \in Channels : Flagged(ch) => Flagged(ch)'
    BY <1>1, <1>2, <2>1 DEF Flagged
  <2>3. QED  BY <1>1, <2>2 DEF Calm, MovedIsFlagged
<1>6. QED  BY <1>1, <1>4, <1>5, ThreadCalm

LEMMA CalmStays ==
    ASSUME Inv, Calm,
           UNCHANGED <<born, token, channel, minted, moved, waits, queued, at, on, to, fifo, script>>
    PROVE  Calm'
<1>1. FlagComes'
  <2>1. \A m : Coming(m) => Coming(m)'  BY DEF Coming
  <2>2. QED  BY <2>1 DEF Calm, FlagComes
<1>2. MovedIsFlagged'  BY DEF Calm, MovedIsFlagged, Flagged
<1>3. QED  BY <1>1, <1>2, ThreadCalm

LEMMA AwakeStep == Inv /\ Inv' /\ Awake /\ [Next]_vars => Awake'
<1> SUFFICES ASSUME Inv, Inv', Awake, [Next]_vars PROVE Awake'  OBVIOUS
<1>1. CASE \E s \in Sessions, n \in Names : Rename(s, n)
  BY <1>1 DEF Awake, Rename
<1>2. CASE ~\E s \in Sessions, n \in Names : Rename(s, n)
  <2>1. renames' = renames
    BY <1>2 DEF Next, Request, OwnerStep, Query, New, Kill, Park, Disconnect, TakePass, Bump,
       Observe, Evaluate, Drain, Forget, Check, Move, Bounded, PaneMoves, Catch, Speak, Arm,
       Fire, Send, counts, vars
  <2> SUFFICES ASSUME Calm PROVE Calm'  BY <2>1 DEF Awake
  <2>2. CASE Request
    BY <1>2, <2>2, CalmNew, CalmQuery, CalmKill, CalmPark, CalmDisconnect DEF Request
  <2>3. CASE OwnerStep
    <3>1. ~Check /\ ~Move
      <4>1. ~Step("check") /\ ~Step("move")  BY StepNamed
      <4>2. QED  BY <4>1 DEF Check, Move
    <3>2. QED
      BY <2>3, <3>1, CalmTakePass, CalmBump, CalmObserve, CalmEvaluate, CalmDrain,
         CalmForget DEF OwnerStep
  <2>4. CASE \E u \in Workers, s \in Sessions : Catch(u, s)
    <3>1. UNCHANGED <<born, token, channel, minted, moved, waits, queued, at, on, to, fifo, script>>
      BY <2>4 DEF Catch, registry, map
    <3>2. QED  BY <3>1, CalmStays
  <2>5. CASE \/ \E s \in Sessions : PaneMoves(s)
             \/ \E u \in Workers : Speak(u)
             \/ \E t \in Threads : Arm(t) \/ Fire(t) \/ Send(t)
    BY <2>5, CalmPaneMoves, CalmSpeak, CalmArm, CalmFire, CalmSend
  <2>6. CASE UNCHANGED vars
    <3>1. UNCHANGED <<born, token, channel, minted, moved, waits, queued, at, on, to, fifo, script>>
      BY <2>6 DEF vars, registry, map, thread
    <3>2. QED  BY <3>1, CalmStays
  <2>7. QED  BY <2>2, <2>3, <2>4, <2>5, <2>6 DEF Next, Bounded
<1>3. QED  BY <1>1, <1>2

\* Where nothing was renamed no wait is stranded: a bump by a pane raises the
\* flag or finds it up, a flag that is up has a message under the channel's
\* name, and the pass it brings answers whoever waits there.
THEOREM UnrenamedWaits == Spec => []StillNoWaitStranded
<1>1. Init => Awake
  <2> SUFFICES ASSUME Init PROVE Awake  OBVIOUS
  <2>1. script = <<>> /\ <<>> \in Seq(Deeds)  BY DEF Init
  <2>2. renames = 0 /\ Fresh /\ Touched /\ FlagComes /\ MovedIsFlagged
    BY DEF Init, Fresh, Touched, FlagComes, MovedIsFlagged
  <2>3. QED  BY <2>1, <2>2 DEF Awake, Calm
<1>2. ASSUME Inv, Awake  PROVE StillNoWaitStranded
  <2> SUFFICES ASSUME renames = 0, script = <<>>, NEW ch \in Channels, NEW w \in waits[ch],
                      moved[w.session] > w.since
               PROVE  \/ \E i \in 1..Len(fifo) : fifo[i] = name[w.session]
                      \/ \E t \in Threads : \/ at[t] \in {"arm", "fire"} /\ on[t] = ch
                                            \/ at[t] = "send" /\ to[t] = name[w.session]
    BY DEF StillNoWaitStranded, NoWaitStranded
  <2>1. Typed /\ Settled /\ Waiting /\ Calm
    BY <1>2, Idle DEF Inv, Plain, Awake
  <2>2. Flagged(ch)  BY <2>1 DEF Calm, MovedIsFlagged
  <2>3. w.session \in Live /\ token[w.session] = ch  BY <2>1 DEF Waiting, InPlace
  <2>4. PICK n \in Names : n = name[w.session]  BY <2>1, <2>3, LiveNamed
  <2>5. channel[n] = ch /\ channel[n] # 0  BY <2>1, <2>3, <2>4 DEF Settled, Placed
  <2>6. CASE queued[ch]
    <3>1. Coming(n)  BY <2>1, <2>5, <2>6 DEF Calm, FlagComes
    <3>2. script # <<Do("evaluate", n)>>  BY IdleScript
    <3>3. QED  BY <2>4, <2>5, <3>1, <3>2 DEF Coming
  <2>7. CASE \E t \in Threads : at[t] = "arm" /\ on[t] = ch  BY <2>7
  <2>8. QED  BY <2>2, <2>6, <2>7 DEF Flagged
<1>3. Inv /\ Awake => StillNoWaitStranded  BY <1>2
<1>4. QED  BY <1>1, <1>3, InitInv, InvStep, AwakeStep, PTL DEF Spec
=============================================================================

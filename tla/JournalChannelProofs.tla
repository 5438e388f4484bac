------------------------ MODULE JournalChannelProofs ------------------------
(***************************************************************************)
(* What JournalChannel keeps for any clients, announcers, capacity and     *)
(* filters.                                                                *)
(*                                                                         *)
(* The ring is always the tail of what landed, and what landed is ordered  *)
(* by its revision: the first because every append goes through Record,    *)
(* the second because an announcer holds the lock from its bump to its     *)
(* append, so nothing newer lands in between.  From the two, a cursor that *)
(* has been advanced is owed nothing, and `lost` is exact.                 *)
(***************************************************************************)
EXTENDS JournalChannel, SequenceTheorems, FiniteSetTheorems, TLAPS

Rec    == [revision : Nat, event : Events]
Logs   == [records : Seq(Rec), evictedThrough : Nat]
Waits  == [id : Nat, conn : Conns, cursor : Nat]
Subs   == [id : Nat, conn : Conns, cursor : Nat, armed : BOOLEAN]
Answers == [id : Nat, events : SUBSET Nat, next : Nat, lost : BOOLEAN]

(***************************************************************************)
(* The inductive invariant.                                                *)
(***************************************************************************)
Ordered(h) == \A i, j \in 1..Len(h) : i <= j => h[i].revision <= h[j].revision

UpTo(h, r) == \A n \in 1..Len(h) : h[n].revision <= r

\* r is the end of h: everything but its first `gone` records.
EndOf(r, h, gone) ==
    Len(h) = gone + Len(r) /\ \A i \in 1..Len(r) : r[i] = h[gone + i]

\* The ring holds the newest records of the history and dates the last one gone.
IsTail(l, h) ==
    \E gone \in Nat :
        /\ EndOf(l.records, h, gone)
        /\ l.evictedThrough = IF gone = 0 THEN 0 ELSE h[gone].revision
        /\ Len(l.records) <= Capacity
        /\ gone > 0 => Len(l.records) = Capacity

History == IsTail(log, landed) /\ Ordered(landed) /\ UpTo(landed, revision)

\* An announcer between its bump and its append holds the lock, and nothing
\* newer than its stamp has landed.
Appending ==
    \A a \in Announcers : pc[a] = "append" =>
        lock = a /\ stamp <= revision /\ UpTo(landed, stamp)

\* Where the dispatch owner is says which request it runs, and for whom.
Dispatching ==
    /\ task.kind # "query" => task.conn \in Conns
    /\ pc[Owner] = "park"  => task.kind = "wait"
    /\ pc[Owner] \in {"enroll", "open", "arm"} => task.kind = "subscribe"
    /\ pc[Owner] = "read"  => task.kind = "read"
    /\ pc[Owner] = "drain" => task.kind = "query"

\* A drained channel is taken by no request again.
Closing ==
    closed => /\ parked = {} /\ streams = {}
              /\ pc[Owner] \in {"idle", "write"} /\ task.kind = "query"

Issued ==
    /\ \A w \in parked  : w.id < nextId
    /\ \A s \in streams : s.id < nextId
    /\ \A t \in Threads : \A f \in out[t] : f.id < nextId
    /\ \A c \in Conns   : open[c] < nextId

\* While a client waits for its opening response the owner is running its
\* request, and nothing else is to be answered under its id.
Opening ==
    \A c \in Conns : mode[c] = "opening" =>
        /\ task = [kind |-> "subscribe", conn |-> c]
        /\ pc[Owner] \in {"observe", "write", "enroll", "open"}
        /\ \A t \in Threads : \A f \in out[t] : f.id # open[c]
        /\ \A w \in parked : w.id # open[c]
        /\ \A s \in streams : s.armed => s.id # open[c]

Inv ==
    /\ TypeOK /\ History /\ Appending /\ NobodyIsOwed
    /\ Dispatching /\ Closing /\ Issued /\ Opening

(***************************************************************************)
(* The ring.                                                               *)
(***************************************************************************)
\* The elements of a concatenation.
LEMMA ConcatElements ==
  ASSUME NEW S, NEW s \in Seq(S), NEW t \in Seq(S)
  PROVE  /\ s \o t \in Seq(S) /\ Len(s \o t) = Len(s) + Len(t)
         /\ \A i \in 1..Len(s) : (s \o t)[i] = s[i]
         /\ \A i \in 1..Len(t) : (s \o t)[Len(s) + i] = t[i]
  <1>1. Len(s) \in Nat /\ Len(t) \in Nat
    BY LenProperties
  <1>2. /\ s \o t \in Seq(S) /\ Len(s \o t) = Len(s) + Len(t)
        /\ \A i \in 1..Len(s) + Len(t) :
              (s \o t)[i] = IF i <= Len(s) THEN s[i] ELSE t[i - Len(s)]
    BY ConcatProperties
  <1> DEFINE st == s \o t
  <1> HIDE DEF st
  <1>3. \A i \in 1..Len(s) + Len(t) : st[i] = IF i <= Len(s) THEN s[i] ELSE t[i - Len(s)]
    BY <1>2 DEF st
  <1>4. \A i \in 1..Len(s) : st[i] = s[i]
    BY <1>1, <1>3
  <1>5. ASSUME NEW i \in 1..Len(t) PROVE st[Len(s) + i] = t[i]
    <2>1. /\ Len(s) + i \in 1..Len(s) + Len(t) /\ ~(Len(s) + i <= Len(s))
          /\ (Len(s) + i) - Len(s) = i
      BY <1>1
    <2> QED
      BY <2>1, <1>3
  <1> QED
    BY <1>2, <1>4, <1>5 DEF st

\* A group of events becomes one record each, at one revision.
LEMMA KeyedType ==
  ASSUME NEW at \in Nat, NEW events \in Seq(Events)
  PROVE  /\ Keyed(at, events) \in Seq(Rec) /\ Len(Keyed(at, events)) = Len(events)
         /\ \A i \in 1..Len(events) : Keyed(at, events)[i].revision = at
  <1>1. Len(events) \in Nat /\ \A i \in 1..Len(events) : events[i] \in Events
    BY LenProperties, ElementOfSeq
  <1>2. Keyed(at, events) \in [1..Len(events) -> Rec]
    BY <1>1 DEF Keyed, Rec
  <1>3. Keyed(at, events) \in Seq(Rec)
    BY <1>1, <1>2, SeqDef
  <1> QED
    BY <1>1, <1>2, <1>3, LenProperties DEF Keyed

\* Appending a group at a revision nothing is above keeps the history ordered.
LEMMA LandOrdered ==
  ASSUME NEW h \in Seq(Rec), Ordered(h), NEW at \in Nat, UpTo(h, at),
         NEW events \in Seq(Events)
  PROVE  LET all == h \o Keyed(at, events)
         IN  all \in Seq(Rec) /\ Len(all) = Len(h) + Len(events)
             /\ Ordered(all) /\ UpTo(all, at)
  <1>1. PICK k \in Seq(Rec) : /\ k = Keyed(at, events) /\ Len(k) = Len(events)
                              /\ \A i \in 1..Len(k) : k[i].revision = at
    BY KeyedType
  <1>2. Len(h) \in Nat /\ Len(k) \in Nat
    BY LenProperties
  <1>7. PICK all \in Seq(Rec) : all = h \o k
    BY ConcatElements
  <1>3. /\ Len(all) = Len(h) + Len(k)
        /\ \A i \in 1..Len(h) : all[i] = h[i]
        /\ \A i \in 1..Len(k) : all[Len(h) + i] = k[i]
    BY <1>7, ConcatElements
  <1>4. \A i \in 1..Len(all) : all[i].revision = IF i <= Len(h) THEN h[i].revision ELSE at
    <2> SUFFICES ASSUME NEW i \in 1..Len(all)
                 PROVE  all[i].revision = IF i <= Len(h) THEN h[i].revision ELSE at
      OBVIOUS
    <2>1. CASE i <= Len(h)
      BY <1>2, <1>3, <2>1
    <2>2. CASE ~(i <= Len(h))
      <3>1. i - Len(h) \in 1..Len(k) /\ Len(h) + (i - Len(h)) = i
        BY <1>2, <1>3, <2>2
      <3>2. all[i] = k[i - Len(h)]
        BY <1>3, <3>1
      <3> QED
        BY <1>1, <2>2, <3>1, <3>2
    <2> QED
      BY <2>1, <2>2
  <1>5. UpTo(all, at)
    BY <1>2, <1>3, <1>4 DEF UpTo
  <1>6. Ordered(all)
    <2> SUFFICES ASSUME NEW i \in 1..Len(all), NEW j \in 1..Len(all), i <= j
                 PROVE  all[i].revision <= all[j].revision
      BY DEF Ordered
    <2>1. all[i].revision = IF i <= Len(h) THEN h[i].revision ELSE at
      BY <1>4
    <2>2. all[j].revision = IF j <= Len(h) THEN h[j].revision ELSE at
      BY <1>4
    <2>3. CASE j <= Len(h)
      BY <1>2, <1>3, <2>1, <2>2, <2>3 DEF Ordered
    <2>4. CASE ~(j <= Len(h))
      BY <1>2, <1>3, <2>1, <2>2, <2>4 DEF UpTo
    <2> QED
      BY <2>3, <2>4
  <1> QED
    BY <1>1, <1>3, <1>5, <1>6, <1>7

\* The elements of a history and their keys.
LEMMA RecElements ==
  ASSUME NEW r \in Seq(Rec)
  PROVE  Len(r) \in Nat /\ \A i \in 1..Len(r) : r[i] \in Rec /\ r[i].revision \in Nat
  <1>1. Len(r) \in Nat
    BY LenProperties
  <1>2. \A i \in 1..Len(r) : r[i] \in Rec
    BY ElementOfSeq
  <1>3. \A x \in Rec : x.revision \in Nat
    BY DEF Rec
  <1> QED
    BY <1>1, <1>2, <1>3

\* What is appended to both stays the end of both.
LEMMA EndOfConcat ==
  ASSUME NEW h \in Seq(Rec), NEW r \in Seq(Rec), NEW k \in Seq(Rec), NEW gone \in Nat,
         EndOf(r, h, gone)
  PROVE  EndOf(r \o k, h \o k, gone)
  <1>1. Len(h) \in Nat /\ Len(r) \in Nat /\ Len(k) \in Nat
    BY LenProperties
  <1>2. Len(h) = gone + Len(r)
    BY DEF EndOf
  <1>13. \A i \in 1..Len(r) : r[i] = h[gone + i]
    BY DEF EndOf
  <1>3. PICK all \in Seq(Rec) : all = r \o k
    BY ConcatElements
  <1>4. PICK whole \in Seq(Rec) : whole = h \o k
    BY ConcatElements
  <1>5. Len(all) = Len(r) + Len(k)
    BY <1>3, ConcatElements
  <1>6. \A i \in 1..Len(r) : all[i] = r[i]
    BY <1>3, ConcatElements
  <1>7. \A i \in 1..Len(k) : all[Len(r) + i] = k[i]
    BY <1>3, ConcatElements
  <1>8. Len(whole) = Len(h) + Len(k)
    BY <1>4, ConcatElements
  <1>9. \A i \in 1..Len(h) : whole[i] = h[i]
    BY <1>4, ConcatElements
  <1>10. \A i \in 1..Len(k) : whole[Len(h) + i] = k[i]
    BY <1>4, ConcatElements
  <1>11. ASSUME NEW i \in 1..Len(all) PROVE all[i] = whole[gone + i]
    <2>1. CASE i <= Len(r)
      <3>1. i \in 1..Len(r) /\ gone + i \in 1..Len(h)
        BY <1>1, <1>2, <2>1
      <3> QED
        BY <3>1, <1>13, <1>6, <1>9
    <2>2. CASE ~(i <= Len(r))
      <3>1. PICK j \in 1..Len(k) : Len(r) + j = i
        <4>1. i - Len(r) \in 1..Len(k) /\ Len(r) + (i - Len(r)) = i
          BY <1>1, <1>5, <2>2
        <4> QED
          BY <4>1
      <3>2. Len(h) + j = gone + i
        <4>1. (gone + Len(r)) + j = gone + (Len(r) + j)
          BY <1>1
        <4> QED
          BY <4>1, <1>2, <3>1
      <3> QED
        BY <3>1, <3>2, <1>7, <1>10
    <2> QED
      BY <2>1, <2>2
  <1>12. Len(whole) = gone + Len(all)
    BY <1>1, <1>2, <1>5, <1>8
  <1> QED
    BY <1>3, <1>4, <1>11, <1>12 DEF EndOf

\* What is dropped from the front is gone from the history with the rest.
LEMMA EndOfDrop ==
  ASSUME NEW whole \in Seq(Rec), NEW all \in Seq(Rec), NEW gone \in Nat,
         EndOf(all, whole, gone), NEW n \in Nat, n <= Len(all)
  PROVE  LET rest == SubSeq(all, n + 1, Len(all))
         IN  /\ rest \in Seq(Rec) /\ Len(rest) = Len(all) - n
             /\ EndOf(rest, whole, gone + n)
  <1>1. Len(all) \in Nat /\ Len(whole) = gone + Len(all)
    BY LenProperties DEF EndOf
  <1>2. \A i \in (n + 1)..Len(all) : all[i] \in Rec
    BY <1>1, ElementOfSeq
  <1>3. PICK rest : rest = SubSeq(all, n + 1, Len(all))
    OBVIOUS
  <1>4. rest \in Seq(Rec)
    BY <1>1, <1>2, <1>3, SubSeqProperties
  <1>5. Len(rest) = IF n + 1 <= Len(all) THEN Len(all) - (n + 1) + 1 ELSE 0
    BY <1>1, <1>2, <1>3, SubSeqProperties
  <1>6. \A i \in 1 .. Len(all) - (n + 1) + 1 : rest[i] = all[(n + 1) + i - 1]
    BY <1>1, <1>2, <1>3, SubSeqProperties
  <1>7. Len(rest) = Len(all) - n
    BY <1>1, <1>5
  <1>8. ASSUME NEW i \in 1..Len(rest) PROVE rest[i] = whole[gone + n + i]
    <2>1. /\ i \in 1 .. Len(all) - (n + 1) + 1 /\ (n + 1) + i - 1 = n + i
          /\ n + i \in 1..Len(all) /\ gone + n + i = gone + (n + i)
      BY <1>1, <1>7
    <2>2. rest[i] = all[n + i] /\ all[n + i] = whole[gone + (n + i)]
      BY <2>1, <1>6 DEF EndOf
    <2> QED
      BY <2>1, <2>2
  <1>9. Len(whole) = (gone + n) + Len(rest)
    BY <1>1, <1>7
  <1> QED
    BY <1>3, <1>4, <1>7, <1>8, <1>9 DEF EndOf

\* Record keeps the ring the tail of the history.
LEMMA RecordTail ==
  ASSUME NEW h \in Seq(Rec), NEW l \in Logs, IsTail(l, h),
         NEW at \in Nat, NEW events \in Seq(Events)
  PROVE  /\ Record(l, at, events) \in Logs
         /\ IsTail(Record(l, at, events), h \o Keyed(at, events))
  <1>1. PICK gone \in Nat :
           /\ EndOf(l.records, h, gone)
           /\ l.evictedThrough = IF gone = 0 THEN 0 ELSE h[gone].revision
           /\ Len(l.records) <= Capacity
           /\ gone > 0 => Len(l.records) = Capacity
    BY DEF IsTail
  <1>2. PICK k \in Seq(Rec) : k = Keyed(at, events) /\ Len(k) = Len(events)
    BY KeyedType
  <1>3. PICK r \in Seq(Rec) : r = l.records
    BY DEF Logs
  <1>4. PICK all \in Seq(Rec) : all = r \o k /\ Len(all) = Len(r) + Len(k)
    BY ConcatElements
  <1>5. PICK whole \in Seq(Rec) : whole = h \o k
    BY ConcatElements
  <1>6. Len(h) \in Nat /\ Len(r) \in Nat /\ Len(k) \in Nat
    BY LenProperties
  <1>7. EndOf(all, whole, gone)
    BY <1>1, <1>3, <1>4, <1>5, EndOfConcat
  <1>8. PICK n : n = Excess(l, events)
    OBVIOUS
  <1>9. n = IF Len(all) > Capacity THEN Len(all) - Capacity ELSE 0
    BY <1>2, <1>3, <1>4, <1>8 DEF Excess
  <1>10. n \in Nat /\ n <= Len(all)
    BY <1>4, <1>6, <1>9, CapacityAssumption
  <1>11. PICK rest \in Seq(Rec) :
            /\ rest = SubSeq(all, n + 1, Len(all)) /\ Len(rest) = Len(all) - n
            /\ EndOf(rest, whole, gone + n)
    BY <1>7, <1>10, EndOfDrop
  <1>12. PICK new : new = Record(l, at, events)
    OBVIOUS
  <1>13. new = [records |-> rest, evictedThrough |->
                   IF n = 0 THEN l.evictedThrough ELSE all[n].revision]
    BY <1>2, <1>3, <1>4, <1>8, <1>11, <1>12 DEF Record
  <1>14. n # 0 => all[n] \in Rec /\ all[n] = whole[gone + n]
    <2>1. n # 0 => n \in 1..Len(all)
      BY <1>4, <1>6, <1>10
    <2> QED
      BY <2>1, <1>7, ElementOfSeq DEF EndOf
  <1>15. new \in Logs
    BY <1>13, <1>14 DEF Logs, Rec
  <1>16. new.evictedThrough = IF gone + n = 0 THEN 0 ELSE whole[gone + n].revision
    <2>1. CASE n = 0
      <3>0. Len(h) = gone + Len(r)
        BY <1>1, <1>3 DEF EndOf
      <3>1. gone # 0 => gone \in 1..Len(h)
        BY <3>0, <1>6
      <3>2. gone # 0 => whole[gone] = h[gone]
        BY <3>1, <1>5, ConcatElements
      <3>3. gone + n = gone
        BY <2>1
      <3> QED
        BY <2>1, <3>2, <3>3, <1>1, <1>13
    <2>2. CASE n # 0
      <3>1. gone + n # 0
        BY <2>2, <1>10
      <3> QED
        BY <2>2, <3>1, <1>13, <1>14
    <2> QED
      BY <2>1, <2>2
  <1>17. Len(rest) <= Capacity /\ (gone + n > 0 => Len(rest) = Capacity)
    <2>1. Len(all) \in Nat /\ Len(all) = Len(r) + Len(k) /\ Len(rest) = Len(all) - n
      BY <1>4, <1>6, <1>11
    <2>2. Len(r) <= Capacity /\ (gone > 0 => Len(r) = Capacity)
      BY <1>1, <1>3
    <2>3. CASE Len(all) > Capacity
      <3>1. n = Len(all) - Capacity
        BY <1>9, <2>3
      <3>2. Len(rest) = Capacity
        BY <2>1, <3>1, CapacityAssumption
      <3> QED
        BY <3>2, CapacityAssumption
    <2>4. CASE ~(Len(all) > Capacity)
      <3>1. n = 0
        BY <1>9, <2>4
      <3>2. Len(rest) = Len(all) /\ Len(all) <= Capacity /\ gone + n = gone
        BY <2>1, <2>4, <3>1, CapacityAssumption
      <3>3. gone > 0 => Len(all) = Capacity
        BY <2>1, <2>2, <3>2, <1>6, CapacityAssumption
      <3> QED
        BY <3>2, <3>3
    <2> QED
      BY <2>3, <2>4
  <1>18. IsTail(new, whole)
    <2>1. gone + n \in Nat /\ new.records = rest
      BY <1>10, <1>13
    <2> QED
      BY <2>1, <1>11, <1>16, <1>17 DEF IsTail
  <1> QED
    BY <1>2, <1>5, <1>12, <1>15, <1>18

(***************************************************************************)
(* Reading the ring.                                                       *)
(***************************************************************************)
\* What a reader relies on: the ring is ordered, and what was evicted is no
\* newer than what is left.
Sound(l) ==
    /\ l \in Logs /\ Ordered(l.records)
    /\ \A i \in 1..Len(l.records) : l.evictedThrough <= l.records[i].revision
    /\ Len(l.records) = 0 => l.evictedThrough = 0

\* The tail of an ordered history is sound: the ring is never empty once a
\* record was evicted, because the capacity is not 0.
LEMMA TailSound ==
  ASSUME NEW h \in Seq(Rec), NEW l \in Logs, IsTail(l, h), Ordered(h)
  PROVE  Sound(l) /\ Len(l.records) <= Len(h) /\ Len(l.records) <= Capacity
  <1>1. PICK gone \in Nat :
           /\ EndOf(l.records, h, gone)
           /\ l.evictedThrough = IF gone = 0 THEN 0 ELSE h[gone].revision
           /\ Len(l.records) <= Capacity
           /\ gone > 0 => Len(l.records) = Capacity
    BY DEF IsTail
  <1>2. PICK r \in Seq(Rec) : r = l.records
    BY DEF Logs
  <1>3. Len(r) \in Nat /\ Len(h) \in Nat
    BY LenProperties
  <1>4. Len(h) = gone + Len(r)
    BY <1>1, <1>2 DEF EndOf
  <1>5. \A i \in 1..Len(r) : r[i] = h[gone + i]
    BY <1>1, <1>2 DEF EndOf
  <1>6. \A i \in 1..Len(h) : h[i].revision \in Nat
    BY RecElements
  <1>7. Ordered(r)
    <2> SUFFICES ASSUME NEW i \in 1..Len(r), NEW j \in 1..Len(r), i <= j
                 PROVE  r[i].revision <= r[j].revision
      BY DEF Ordered
    <2>1. gone + i \in 1..Len(h) /\ gone + j \in 1..Len(h) /\ gone + i <= gone + j
      BY <1>3, <1>4
    <2>2. h[gone + i].revision <= h[gone + j].revision
      BY <2>1 DEF Ordered
    <2> QED
      BY <2>2, <1>5
  <1>8. ASSUME NEW i \in 1..Len(r) PROVE l.evictedThrough <= r[i].revision
    <2>1. gone + i \in 1..Len(h) /\ gone <= gone + i /\ (gone # 0 => gone \in 1..Len(h))
      BY <1>3, <1>4
    <2>2. gone # 0 => h[gone].revision <= h[gone + i].revision
      BY <2>1 DEF Ordered
    <2>3. h[gone + i].revision \in Nat /\ r[i] = h[gone + i]
      BY <2>1, <1>5, <1>6
    <2>4. CASE gone = 0
      <3>1. l.evictedThrough = 0
        BY <1>1, <2>4
      <3> QED
        BY <3>1, <2>3
    <2>5. CASE gone # 0
      <3>1. l.evictedThrough = h[gone].revision
        BY <1>1, <2>5
      <3> QED
        BY <3>1, <2>2, <2>3, <2>5
    <2> QED
      BY <2>4, <2>5
  <1>9. Len(r) = 0 => gone = 0
    BY <1>1, <1>2, CapacityAssumption
  <1>10. Len(r) = 0 => l.evictedThrough = 0
    BY <1>1, <1>9
  <1> QED
    BY <1>1, <1>2, <1>3, <1>4, <1>7, <1>8, <1>10 DEF Sound

\* The skip of since() is defined: the records at or below a cursor are the
\* first ones, as many as there are.
LEMMA ReadDefined ==
  ASSUME NEW l, Sound(l), NEW from \in Nat
  PROVE  /\ Read(l, from) \in 0..Len(l.records)
         /\ \A i \in 1..Read(l, from) : l.records[i].revision <= from
         /\ Read(l, from) < Len(l.records) =>
                l.records[Read(l, from) + 1].revision > from
  <1>1. PICK r \in Seq(Rec) : r = l.records
    BY DEF Sound, Logs
  <1>2. Len(r) \in Nat /\ \A i \in 1..Len(r) : r[i].revision \in Nat
    BY RecElements
  <1>3. PICK S \in SUBSET (1..Len(r)) : S = {i \in 1..Len(r) : r[i].revision <= from}
    OBVIOUS
  <1>4. /\ IsFiniteSet(1..Len(r)) /\ Cardinality(1..Len(r)) = Len(r)
        /\ IsFiniteSet(S) /\ Cardinality(S) \in Nat /\ Cardinality(S) <= Len(r)
    <2>1. IsFiniteSet(1..Len(r)) /\ Cardinality(1..Len(r)) = Len(r)
      <3>1. Cardinality(1..Len(r)) = IF 1 > Len(r) THEN 0 ELSE Len(r) - 1 + 1
        BY <1>2, FS_Interval
      <3>2. IsFiniteSet(1..Len(r))
        BY <1>2, FS_Interval
      <3> QED
        BY <3>1, <3>2, <1>2
    <2> QED
      BY <2>1, FS_Subset, FS_CardinalityType
  <1>5. PICK n \in 0..Len(r) : n = Cardinality(S)
    BY <1>2, <1>4
  <1>6. ASSUME NEW i \in S, NEW j \in 1..Len(r), j <= i PROVE j \in S
    <2>1. i \in 1..Len(r) /\ r[i].revision <= from
      BY <1>3
    <2>2. r[j].revision <= r[i].revision
      BY <2>1, <1>1, <1>6 DEF Sound, Ordered
    <2>3. r[j].revision <= from
      BY <2>1, <2>2, <1>2
    <2> QED
      BY <2>3, <1>3
  <1>7. n < Len(r) => n + 1 \notin S
    <2> SUFFICES ASSUME n < Len(r), n + 1 \in S PROVE FALSE
      OBVIOUS
    <2>1. 1..(n + 1) \in SUBSET S
      BY <1>2, <1>6
    <2>2. Cardinality(1..(n + 1)) = n + 1
      BY <1>2, FS_Interval
    <2>3. Cardinality(1..(n + 1)) <= Cardinality(S)
      BY <2>1, <1>4, FS_Subset
    <2> QED
      BY <2>2, <2>3, <1>5
  <1>8. S \in SUBSET (1..n)
    <2> SUFFICES ASSUME NEW i \in S, i > n PROVE FALSE
      BY <1>2
    <2>1. i \in 1..Len(r)
      OBVIOUS
    <2>2. n < Len(r) /\ n + 1 \in 1..Len(r) /\ n + 1 <= i
      BY <2>1, <1>2
    <2> QED
      BY <2>2, <1>6, <1>7
  <1>9. S = 1..n
    <2>1. IsFiniteSet(1..n) /\ Cardinality(1..n) = n
      BY FS_Interval
    <2> QED
      BY <2>1, <1>5, <1>8, FS_Subset
  <1>10. /\ \A i \in 1..n : r[i].revision <= from
         /\ n < Len(r) => r[n + 1].revision > from
    <2>1. \A i \in 1..n : r[i].revision <= from
      BY <1>3, <1>9
    <2>2. ASSUME n < Len(r) PROVE r[n + 1].revision > from
      <3>1. n + 1 \in 1..Len(r)
        BY <2>2, <1>2
      <3>2. ~(r[n + 1].revision <= from)
        BY <3>1, <2>2, <1>3, <1>7
      <3> QED
        BY <3>1, <3>2, <1>2
    <2> QED
      BY <2>1, <2>2
  <1> QED
    BY <1>1, <1>10 DEF Read

\* An answer starts within the ring, and its cursor is past all the ring holds.
LEMMA SinceAnswer ==
  ASSUME NEW l, Sound(l), NEW from \in Nat
  PROVE  LET answer == Since(l, from)
         IN  /\ Len(answer.records) \in Nat /\ Len(answer.records) <= Len(l.records)
             /\ answer.next \in Nat /\ answer.next >= from /\ answer.lost \in BOOLEAN
             /\ \A i \in 1..Len(l.records) : l.records[i].revision <= answer.next
             /\ l.evictedThrough <= answer.next
  <1>1. PICK r \in Seq(Rec) : r = l.records
    BY DEF Sound, Logs
  <1>2. Len(r) \in Nat
    BY LenProperties
  <1>3. \A i \in 1..Len(r) : r[i] \in Rec /\ r[i].revision \in Nat
    BY RecElements
  <1>4. PICK n \in 0..Len(r) : n = Read(l, from)
    BY <1>1, ReadDefined
  <1>5. PICK rest : rest = SubSeq(r, n + 1, Len(r))
    OBVIOUS
  <1>6. Len(rest) = IF n + 1 <= Len(r) THEN Len(r) - (n + 1) + 1 ELSE 0
    <2>1. \A i \in (n + 1)..Len(r) : r[i] \in Rec
      BY <1>2, <1>3
    <2>2. n + 1 \in Int /\ Len(r) \in Int
      BY <1>2
    <2> QED
      BY <2>1, <2>2, <1>5, SubSeqProperties
  <1>7. Len(rest) \in Nat /\ Len(rest) <= Len(r)
    BY <1>2, <1>6
  <1>8. PICK head : head = IF Len(r) = 0 THEN from ELSE r[Len(r)].revision
    OBVIOUS
  <1>9. head \in Nat
    <2>1. Len(r) # 0 => Len(r) \in 1..Len(r)
      BY <1>2
    <2> QED
      BY <2>1, <1>3, <1>8
  <1>10. ASSUME NEW i \in 1..Len(r)
         PROVE  r[i].revision <= head /\ l.evictedThrough <= head
    <2>1. Len(r) # 0 /\ Len(r) \in 1..Len(r) /\ i <= Len(r)
      BY <1>2
    <2>2. r[i].revision <= r[Len(r)].revision
      BY <2>1, <1>1 DEF Sound, Ordered
    <2>3. l.evictedThrough <= r[Len(r)].revision
      BY <2>1, <1>1 DEF Sound
    <2> QED
      BY <2>1, <2>2, <2>3, <1>8
  <1>11. l.evictedThrough \in Nat /\ (Len(r) = 0 => l.evictedThrough = 0)
    BY <1>1 DEF Sound, Logs
  <1>12. PICK next : next = IF head > from THEN head ELSE from
    OBVIOUS
  <1>13. next \in Nat /\ next >= from /\ next >= head
    BY <1>9, <1>12
  <1>14. \A i \in 1..Len(r) : r[i].revision <= next
    BY <1>3, <1>9, <1>10, <1>13
  <1>15. l.evictedThrough <= next
    <2>1. CASE Len(r) = 0
      BY <2>1, <1>11, <1>13
    <2>2. CASE Len(r) # 0
      <3>1. Len(r) \in 1..Len(r)
        BY <2>2, <1>2
      <3>2. l.evictedThrough <= head
        BY <3>1, <1>10
      <3> QED
        BY <3>2, <1>9, <1>11, <1>13
    <2> QED
      BY <2>1, <2>2
  <1>16. Since(l, from) = [records |-> rest, next |-> next, lost |-> from < l.evictedThrough]
    BY <1>1, <1>4, <1>5, <1>8, <1>12 DEF Since
  <1> QED
    BY <1>1, <1>7, <1>13, <1>14, <1>15, <1>16

\* A cursor past all the ring holds or dropped is answered with nothing.
LEMMA SinceNothing ==
  ASSUME NEW l, Sound(l), NEW next \in Nat, l.evictedThrough <= next,
         \A i \in 1..Len(l.records) : l.records[i].revision <= next
  PROVE  Len(Since(l, next).records) = 0 /\ ~Since(l, next).lost
  <1>1. PICK r \in Seq(Rec) : r = l.records
    BY DEF Sound, Logs
  <1>2. Len(r) \in Nat /\ \A i \in 1..Len(r) : r[i].revision \in Nat
    BY RecElements
  <1>3. PICK n \in 0..Len(r) : n = Read(l, next)
    BY <1>1, ReadDefined
  <1>4. n = Len(r)
    <2> SUFFICES ASSUME n < Len(r) PROVE FALSE
      BY <1>2
    <2>1. n + 1 \in 1..Len(r)
      BY <1>2
    <2>2. r[n + 1].revision > next
      BY <1>1, <1>3, ReadDefined
    <2>3. r[n + 1].revision <= next
      BY <2>1, <1>1
    <2> QED
      BY <2>1, <2>2, <2>3, <1>2
  <1>5. PICK rest : rest = SubSeq(r, n + 1, Len(r))
    OBVIOUS
  <1>6. rest = <<>>
    <2>1. n + 1 \in Int /\ Len(r) \in Int /\ Len(r) < n + 1
      BY <1>2, <1>4
    <2> QED
      BY <2>1, <1>5, SubSeqEmpty
  <1>7. Len(rest) = 0
    BY <1>6, EmptySeq
  <1>8. Since(l, next).records = rest
    BY <1>1, <1>3, <1>5 DEF Since
  <1>9. Since(l, next).lost <=> next < l.evictedThrough
    BY DEF Since
  <1>10. l.evictedThrough \in Nat
    BY DEF Sound, Logs
  <1> QED
    BY <1>7, <1>8, <1>9, <1>10

(***************************************************************************)
(* Batches.                                                                *)
(***************************************************************************)
\* A batch carries positions of the history and a cursor.
LEMMA BatchType ==
  ASSUME NEW l, Sound(l), NEW from \in Nat, NEW wanted,
         NEW total \in Nat, Len(l.records) <= total
  PROVE  LET batch == Batch(l, total, from, wanted)
         IN  /\ batch.events \in SUBSET Nat /\ batch.next \in Nat
             /\ batch.lost \in BOOLEAN
  <1>1. PICK answer : answer = Since(l, from)
    OBVIOUS
  <1>2. Len(l.records) \in Nat
    BY LenProperties DEF Sound, Logs
  <1>3. Len(answer.records) \in Nat /\ Len(answer.records) <= Len(l.records)
    BY <1>1, SinceAnswer
  <1>4. answer.next \in Nat /\ answer.lost \in BOOLEAN
    BY <1>1, SinceAnswer
  <1>5. PICK base : base = total - Len(answer.records)
    OBVIOUS
  <1>6. base \in Nat
    BY <1>2, <1>3, <1>5
  <1>7. {base + i : i \in {j \in 1..Len(answer.records) : answer.records[j].event \in wanted}}
           \in SUBSET Nat
    BY <1>3, <1>6
  <1> QED
    BY <1>1, <1>4, <1>5, <1>7 DEF Batch

\* A reader whose cursor is the answer's own `next` is owed nothing.
LEMMA BatchCaughtUp ==
  ASSUME NEW l, Sound(l), NEW from \in Nat, NEW wanted, NEW total
  PROVE  ~Satisfied(Batch(l, total, Batch(l, total, from, wanted).next, wanted))
  <1>1. PICK next : next = Batch(l, total, from, wanted).next
    OBVIOUS
  <1>2. next = Since(l, from).next
    BY <1>1 DEF Batch
  <1>3. /\ next \in Nat /\ l.evictedThrough <= next
        /\ \A i \in 1..Len(l.records) : l.records[i].revision <= next
    BY <1>2, SinceAnswer
  <1>4. Len(Since(l, next).records) = 0 /\ ~Since(l, next).lost
    BY <1>3, SinceNothing
  <1>5. 1..0 = {}
    OBVIOUS
  <1>6. /\ Batch(l, total, next, wanted).events = {}
        /\ Batch(l, total, next, wanted).lost = Since(l, next).lost
    BY <1>4, <1>5 DEF Batch
  <1> QED
    BY <1>1, <1>4, <1>6 DEF Satisfied

\* An answer is a frame under the id it was asked with.
LEMMA AnswerType ==
  ASSUME NEW l, Sound(l), NEW from \in Nat, NEW wanted,
         NEW total \in Nat, Len(l.records) <= total, NEW id \in Nat
  PROVE  /\ Frame(id, Batch(l, total, from, wanted)) \in Answers
         /\ Frame(id, Batch(l, total, from, wanted)).id = id
  <1>1. PICK batch : batch = Batch(l, total, from, wanted)
    OBVIOUS
  <1>2. /\ batch.events \in SUBSET Nat /\ batch.next \in Nat /\ batch.lost \in BOOLEAN
    BY <1>1, BatchType
  <1> QED
    BY <1>1, <1>2 DEF Frame, Answers

\* A frame is addressed to the reader it is for.
LEMMA FramesType ==
  ASSUME NEW l, Sound(l), NEW total \in Nat, Len(l.records) <= total,
         NEW readers, \A r \in readers : r.id \in Nat /\ r.cursor \in Nat
  PROVE  /\ Frames(l, total, readers) \in SUBSET Answers
         /\ \A f \in Frames(l, total, readers) : \E r \in readers : f.id = r.id
  <1> SUFFICES ASSUME NEW r \in readers, NEW f, f = Frame(r.id, BatchOf(l, total, r))
               PROVE  f \in Answers /\ f.id = r.id
    BY DEF Frames
  <1>1. r.id \in Nat /\ r.cursor \in Nat
    OBVIOUS
  <1> QED
    BY <1>1, AnswerType DEF BatchOf

\* Advancing the streams that are due leaves none due, and changes cursors only.
LEMMA AdvancedRest ==
  ASSUME NEW l, Sound(l), NEW total \in Nat, Len(l.records) <= total,
         NEW subs \in SUBSET Subs
  PROVE  /\ Advanced(subs, l, total) \in SUBSET Subs
         /\ Due(Advanced(subs, l, total), l, total) = {}
         /\ \A s \in Advanced(subs, l, total) : \E u \in subs : u.id = s.id /\ u.armed = s.armed
  <1>0. PICK D \in SUBSET subs : D = Due(subs, l, total)
    BY DEF Due
  <1> SUFFICES ASSUME NEW s \in (subs \ D)
                          \cup {[u EXCEPT !.cursor = BatchOf(l, total, u).next] : u \in D}
               PROVE  /\ s \in Subs /\ ~(s.armed /\ Satisfied(BatchOf(l, total, s)))
                      /\ \E u \in subs : u.id = s.id /\ u.armed = s.armed
    BY <1>0 DEF Advanced, Due
  <1>1. CASE s \in subs \ D
    BY <1>0, <1>1 DEF Due
  <1>2. CASE s \notin subs \ D
    <2>1. PICK u \in subs : s = [u EXCEPT !.cursor = BatchOf(l, total, u).next]
      BY <1>2
    <2>2. u \in Subs /\ u.cursor \in Nat
      BY DEF Subs
    <2>3. PICK next \in Nat : next = BatchOf(l, total, u).next
      BY <2>2, BatchType DEF BatchOf
    <2>4. /\ s \in Subs /\ s.cursor = next
          /\ s.id = u.id /\ s.armed = u.armed /\ s.conn = u.conn
      BY <2>1, <2>2, <2>3 DEF Subs
    <2>5. next = Batch(l, total, u.cursor, Filter[u.conn]).next
      BY <2>3 DEF BatchOf
    <2>6. ~Satisfied(Batch(l, total, next, Filter[u.conn]))
      BY <2>2, <2>5, BatchCaughtUp
    <2>7. ~Satisfied(BatchOf(l, total, s))
      BY <2>4, <2>6 DEF BatchOf
    <2> QED
      BY <2>4, <2>7
  <1> QED
    BY <1>1, <1>2

\* An empty group leaves the ring as it is.
LEMMA RecordNothing ==
  ASSUME NEW l \in Logs, Len(l.records) <= Capacity, NEW at
  PROVE  Record(l, at, <<>>) = l /\ Keyed(at, <<>>) = <<>>
  <1>1. PICK r \in Seq(Rec) : r = l.records
    BY DEF Logs
  <1>2. Len(r) \in Nat /\ Len(<<>>) = 0
    BY LenProperties, EmptySeq
  <1>3. Keyed(at, <<>>) = <<>>
    BY <1>2 DEF Keyed
  <1>4. r \o <<>> = r
    BY ConcatEmptySeq
  <1>5. Excess(l, <<>>) = 0
    BY <1>1, <1>2, CapacityAssumption DEF Excess
  <1>6. SubSeq(r, 0 + 1, Len(r)) = r
    BY SubSeqFull
  <1>7. Record(l, at, <<>>) = [records |-> r, evictedThrough |-> l.evictedThrough]
    BY <1>1, <1>3, <1>4, <1>5, <1>6 DEF Record
  <1> QED
    BY <1>1, <1>3, <1>7 DEF Logs

(***************************************************************************)
(* The steps every append and every answer share.                          *)
(***************************************************************************)
Places == {"idle", "observe", "park", "enroll", "open", "arm", "read", "drain",
           "append", "write"}

\* The ring of a reachable state is one a reader can be answered from.
LEMMA LogSound ==
  ASSUME TypeOK, History
  PROVE  /\ log \in Logs /\ landed \in Seq(Rec) /\ Sound(log)
         /\ Len(landed) \in Nat /\ Len(log.records) <= Len(landed)
         /\ parked \in SUBSET Waits /\ streams \in SUBSET Subs
  <1>1. /\ log \in Logs /\ landed \in Seq(Rec)
        /\ parked \in SUBSET Waits /\ streams \in SUBSET Subs
    BY DEF TypeOK, Logs, Rec, Waits, Subs
  <1>2. Len(landed) \in Nat
    BY <1>1, LenProperties
  <1> QED
    BY <1>1, <1>2, TailSound DEF History

\* What Flush does to the frames and to the places: only the thread's own change.
LEMMA FlushStep ==
  ASSUME TypeOK, NEW t \in Threads, NEW frames \in SUBSET Answers, NEW next \in Places,
         Flush(t, frames, next)
  PROVE  /\ out' \in [Threads -> SUBSET Answers] /\ pc' \in [Threads -> Places]
         /\ pc'[t] \in {next, "write"} /\ \A u \in Threads \ {t} : pc'[u] = pc[u]
         /\ \A u \in Threads : \A f \in out'[u] : f \in out[u] \/ f \in frames
  BY DEF Flush, TypeOK, Places, Answers

\* Where a thread goes next is a place its request leads to.
LEMMA AfterType ==
  ASSUME NEW t \in Threads, TypeOK
  PROVE  /\ After(t) \in Places
         /\ t # Owner => After(t) = "idle"
         /\ t = Owner => /\ After(t) \in {"idle", "park", "enroll"}
                         /\ After(t) = "park" => task.kind = "wait"
                         /\ After(t) = "enroll" => task.kind = "subscribe"
                         /\ task.kind = "subscribe" => After(t) = "enroll"
                         /\ task.kind = "query" => After(t) = "idle"
  BY DEF After, Places, TypeOK

\* Nobody has a batch coming to it.
Rested ==
    /\ \A w \in parked  : ~Satisfied(BatchOf(log, Len(landed), w))
    /\ \A s \in streams : ~(s.armed /\ Satisfied(BatchOf(log, Len(landed), s)))

\* A frame under the id of a parked wait or of an armed stream.
Addressed(f) ==
    \/ \E w \in parked  : f.id = w.id
    \/ \E s \in streams : s.armed /\ f.id = s.id

\* Land keeps the ring the tail of an ordered history, frees who it satisfies,
\* leaves nobody else with a batch coming, and addresses frames to those it frees.
LEMMA LandStep ==
  ASSUME TypeOK, History, Rested, NEW t \in Threads, NEW at \in Nat,
         NEW events \in Seq(Events), UpTo(landed, at), Land(t, at, events)
  PROVE  /\ log' \in Logs /\ landed' \in Seq(Rec)
         /\ IsTail(log', landed') /\ Ordered(landed') /\ UpTo(landed', at)
         /\ parked' \in SUBSET parked /\ streams' \in SUBSET Subs /\ Rested'
         /\ \A s \in streams' : \E u \in streams : u.id = s.id /\ u.armed = s.armed
         /\ \E frames \in SUBSET Answers :
               /\ Flush(t, frames, After(t))
               /\ \A f \in frames : Addressed(f)
  <1>1. /\ log \in Logs /\ landed \in Seq(Rec) /\ Len(landed) \in Nat
        /\ parked \in SUBSET Waits /\ streams \in SUBSET Subs
    BY LogSound
  <1>2. PICK l : l = Record(log, at, events)
    OBVIOUS
  <1>3. PICK h : h = landed \o Keyed(at, events)
    OBVIOUS
  <1>4. log' = l /\ landed' = h
    BY <1>2, <1>3 DEF Land
  <1>5. l \in Logs /\ IsTail(l, h)
    BY <1>1, <1>2, <1>3, RecordTail DEF History
  <1>6. h \in Seq(Rec) /\ Len(h) = Len(landed) + Len(events) /\ Ordered(h) /\ UpTo(h, at)
    BY <1>1, <1>3, LandOrdered DEF History
  <1>7. Len(h) \in Nat /\ Sound(l) /\ Len(l.records) <= Len(h)
    BY <1>5, <1>6, TailSound, LenProperties
  <1>8. CASE events = <<>>
    <2>1. Len(log.records) <= Capacity
      BY <1>1, TailSound DEF History
    <2>2. l = log /\ Keyed(at, events) = <<>>
      BY <1>1, <1>2, <1>8, <2>1, RecordNothing
    <2>3. h = landed
      BY <1>1, <1>3, <2>2, ConcatEmptySeq
    <2>4. UNCHANGED <<parked, streams>> /\ Flush(t, {}, After(t))
      BY <1>8 DEF Land
    <2>5. Rested'
      BY <1>4, <2>2, <2>3, <2>4 DEF Rested, BatchOf
    <2> QED
      BY <1>1, <1>4, <1>5, <1>6, <2>4, <2>5
  <1>9. CASE events # <<>>
    <2>1. PICK total : total = Len(h)
      OBVIOUS
    <2>2. PICK fired : fired = Fired(l, total)
      OBVIOUS
    <2>3. PICK due : due = Due(streams, l, total)
      OBVIOUS
    <2>4. /\ parked' = parked \ fired /\ streams' = Advanced(streams, l, total)
          /\ Flush(t, Frames(l, total, fired \cup due), After(t))
      BY <1>2, <1>6, <1>9, <2>1, <2>2, <2>3 DEF Land
    <2>5. \A w \in parked' : ~Satisfied(BatchOf(l, total, w))
      BY <2>2, <2>4 DEF Fired
    <2>6. total \in Nat /\ Len(l.records) <= total
      BY <1>7, <2>1
    <2>7. /\ streams' \in SUBSET Subs /\ Due(streams', l, total) = {}
          /\ \A s \in streams' : \E u \in streams : u.id = s.id /\ u.armed = s.armed
      BY <1>1, <1>7, <2>4, <2>6, AdvancedRest
    <2>8. Rested'
      BY <1>4, <2>1, <2>5, <2>7 DEF Rested, BatchOf, Due
    <2>9. \A r \in fired \cup due : r.id \in Nat /\ r.cursor \in Nat
      BY <1>1, <2>2, <2>3 DEF Fired, Due, Waits, Subs
    <2>10. PICK frames : frames = Frames(l, total, fired \cup due)
      OBVIOUS
    <2>11. frames \in SUBSET Answers /\ \A f \in frames : \E r \in fired \cup due : f.id = r.id
      BY <1>7, <2>6, <2>9, <2>10, FramesType
    <2>12. \A f \in frames : Addressed(f)
      BY <2>2, <2>3, <2>11 DEF Addressed, Fired, Due
    <2> QED
      BY <1>4, <1>5, <1>6, <2>4, <2>7, <2>8, <2>10, <2>11, <2>12
  <1> QED
    BY <1>8, <1>9

\* The differences of two shapes are events.
LEMMA DiffsType ==
  ASSUME NEW before \in SUBSET Entries, NEW now \in SUBSET Entries,
         NEW events \in Diffs(before, now)
  PROVE  events \in Seq(Events)
  <1>1. \A S \in SUBSET Entries : Cardinality(S) \in Nat
    BY JournalAssumption, FS_Subset, FS_CardinalityType
  <1>2. \A S \in SUBSET Entries : \A f \in Sorted(S) : f \in Seq(Entries)
    <2> SUFFICES ASSUME NEW S \in SUBSET Entries, NEW f \in Sorted(S) PROVE f \in Seq(Entries)
      OBVIOUS
    <2>1. f \in [1..Cardinality(S) -> Entries]
      BY DEF Sorted
    <2> QED
      BY <2>1, <1>1, SeqDef
  <1>3. PICK pair \in Sorted(now \ before) \X Sorted(before \ now) :
           events = Changes("created", pair[1]) \o Changes("closed", pair[2])
    BY DEF Diffs
  <1>7. PICK born \in Sorted(now \ before), dead \in Sorted(before \ now) :
           born = pair[1] /\ dead = pair[2]
    OBVIOUS
  <1>4. ASSUME NEW ids \in Seq(Entries), NEW kind \in {"created", "closed"}
        PROVE  Changes(kind, ids) \in Seq(Events)
    <2>1. Len(ids) \in Nat /\ \A i \in 1..Len(ids) : ids[i] \in Entries
      BY LenProperties, ElementOfSeq
    <2>2. \A i \in 1..Len(ids) : [kind |-> kind, of |-> ids[i]] \in Events
      BY <2>1 DEF Events
    <2>3. Changes(kind, ids) \in [1..Len(ids) -> Events]
      BY <2>2 DEF Changes
    <2> QED
      BY <2>1, <2>3, SeqDef
  <1>5. born \in Seq(Entries) /\ dead \in Seq(Entries)
    BY <1>2
  <1>6. Changes("created", born) \in Seq(Events) /\ Changes("closed", dead) \in Seq(Events)
    BY <1>4, <1>5
  <1> QED
    BY <1>3, <1>6, <1>7, ConcatProperties

\* Observe lands one group, at the current revision.
LEMMA ObserveLands ==
  ASSUME TypeOK, Observe
  PROVE  \E events \in Seq(Events) : Land(Owner, revision, events)
  <1>1. entries \in SUBSET Entries /\ shape \in (SUBSET Entries) \cup {None}
    BY DEF TypeOK
  <1>2. PICK events \in IF shape = None THEN {<<>>} ELSE Diffs(shape, entries) :
           Land(Owner, revision, events)
    BY DEF Observe
  <1>3. events \in Seq(Events)
    <2>1. CASE shape = None
      BY <1>2, <2>1, EmptySeq
    <2>2. CASE shape # None
      <3>1. shape \in SUBSET Entries /\ events \in Diffs(shape, entries)
        BY <1>1, <1>2, <2>2
      <3> QED
        BY <3>1, <1>1, DiffsType
    <2> QED
      BY <2>1, <2>2
  <1> QED
    BY <1>2, <1>3

\* AnnounceAppend lands one group, at its own stamp.
LEMMA AnnounceLands ==
  ASSUME NEW a \in Announcers, AnnounceAppend(a)
  PROVE  \E events \in Seq(Events) : Land(a, stamp, events)
  <1>1. [kind |-> "announced", of |-> a] \in Events
    BY DEF Events
  <1>2. <<[kind |-> "announced", of |-> a]>> \in Seq(Events)
    BY <1>1
  <1> QED
    BY <1>2 DEF AnnounceAppend

\* park_or_answer parks only a wait that has nothing coming, and answers the rest.
LEMMA ParkStep ==
  ASSUME TypeOK, History, Rested, Dispatching, ParkOrAnswer
  PROVE  /\ parked' \in SUBSET Waits /\ Rested'
         /\ \A w \in parked' : w \in parked \/ w.id = open[task.conn]
         /\ \E frames \in SUBSET Answers : /\ Flush(Owner, frames, "idle")
                                           /\ \A f \in frames : f.id = open[task.conn]
  <1>1. /\ log \in Logs /\ Sound(log) /\ Len(landed) \in Nat
        /\ Len(log.records) <= Len(landed) /\ parked \in SUBSET Waits
    BY LogSound
  <1>2. task.conn \in Conns
    BY DEF Dispatching, ParkOrAnswer
  <1>3. PICK wait \in Waits :
           wait = [id |-> open[task.conn], conn |-> task.conn, cursor |-> cursor[task.conn]]
    BY <1>2 DEF Waits, TypeOK
  <1>4. wait.id = open[task.conn] /\ wait.id \in Nat /\ wait.cursor \in Nat
    BY <1>3 DEF Waits
  <1>5. PICK batch : batch = BatchOf(log, Len(landed), wait)
    OBVIOUS
  <1>6. UNCHANGED <<log, landed, streams>>
    BY DEF ParkOrAnswer
  <1>7. CASE Satisfied(batch)
    <2>1. Flush(Owner, {Frame(wait.id, batch)}, "idle") /\ UNCHANGED parked
      BY <1>3, <1>5, <1>7 DEF ParkOrAnswer
    <2>2. Frame(wait.id, batch) \in Answers /\ Frame(wait.id, batch).id = wait.id
      BY <1>1, <1>4, <1>5, AnswerType DEF BatchOf
    <2>3. Rested'
      BY <1>6, <2>1 DEF Rested, BatchOf
    <2>4. PICK frames \in SUBSET Answers : frames = {Frame(wait.id, batch)}
      BY <2>2
    <2> QED
      BY <1>1, <1>4, <2>1, <2>2, <2>3, <2>4
  <1>8. CASE ~Satisfied(batch)
    <2>1. Flush(Owner, {}, "idle") /\ parked' = parked \cup {wait}
      BY <1>3, <1>5, <1>8 DEF ParkOrAnswer
    <2>2. Rested'
      BY <1>5, <1>6, <1>8, <2>1 DEF Rested, BatchOf
    <2> QED
      BY <1>1, <1>4, <2>1, <2>2
  <1> QED
    BY <1>7, <1>8

\* arm leaves no stream due, and addresses frames to the streams it caught up.
LEMMA ArmStep ==
  ASSUME TypeOK, History, Rested, Dispatching, Arm
  PROVE  /\ streams' \in SUBSET Subs /\ Rested'
         /\ \A s \in streams' : \E u \in streams :
               u.id = s.id /\ (u.armed = s.armed \/ u.id = open[task.conn])
         /\ \E frames \in SUBSET Answers :
               /\ Flush(Owner, frames, "idle")
               /\ \A f \in frames : Addressed(f) \/ f.id = open[task.conn]
  <1>1. /\ log \in Logs /\ Sound(log) /\ Len(landed) \in Nat
        /\ Len(log.records) <= Len(landed) /\ streams \in SUBSET Subs
    BY LogSound
  <1>2. PICK armed : armed = {IF s.id = open[task.conn] THEN [s EXCEPT !.armed = TRUE] ELSE s :
                                 s \in streams}
    OBVIOUS
  <1>3. ASSUME NEW s \in armed
        PROVE  s \in Subs /\ \E u \in streams :
                  u.id = s.id /\ (u.armed = s.armed \/ u.id = open[task.conn])
    <2>1. PICK u \in streams :
             s = IF u.id = open[task.conn] THEN [u EXCEPT !.armed = TRUE] ELSE u
      BY <1>2
    <2>2. u \in Subs
      BY <1>1
    <2>3. s \in Subs /\ s.id = u.id /\ (u.armed = s.armed \/ u.id = open[task.conn])
      BY <2>1, <2>2 DEF Subs
    <2> QED
      BY <2>3
  <1>4. PICK due \in SUBSET armed : due = Due(armed, log, Len(landed))
    BY DEF Due
  <1>5. /\ streams' = Advanced(armed, log, Len(landed))
        /\ Flush(Owner, Frames(log, Len(landed), due), "idle")
        /\ UNCHANGED <<log, landed, parked>>
    BY <1>2, <1>4 DEF Arm
  <1>6. /\ streams' \in SUBSET Subs /\ Due(streams', log, Len(landed)) = {}
        /\ \A s \in streams' : \E u \in armed : u.id = s.id /\ u.armed = s.armed
    BY <1>1, <1>3, <1>5, AdvancedRest
  <1>7. Rested'
    BY <1>5, <1>6 DEF Rested, BatchOf, Due
  <1>8. ASSUME NEW s \in streams'
        PROVE  \E u \in streams : u.id = s.id /\ (u.armed = s.armed \/ u.id = open[task.conn])
    <2>1. PICK v \in armed : v.id = s.id /\ v.armed = s.armed
      BY <1>6
    <2>2. PICK u \in streams : u.id = v.id /\ (u.armed = v.armed \/ u.id = open[task.conn])
      BY <1>3
    <2> QED
      BY <2>1, <2>2
  <1>9. PICK frames : frames = Frames(log, Len(landed), due)
    OBVIOUS
  <1>10. \A r \in due : r.id \in Nat /\ r.cursor \in Nat
    BY <1>3 DEF Subs
  <1>11. frames \in SUBSET Answers /\ \A f \in frames : \E r \in due : f.id = r.id
    BY <1>1, <1>9, <1>10, FramesType
  <1>12. ASSUME NEW f \in frames PROVE Addressed(f) \/ f.id = open[task.conn]
    <2>1. PICK r \in due : f.id = r.id
      BY <1>11
    <2>2. r.armed
      BY <1>4 DEF Due
    <2>3. PICK u \in streams : u.id = r.id /\ (u.armed = r.armed \/ u.id = open[task.conn])
      BY <1>3
    <2> QED
      BY <2>1, <2>2, <2>3 DEF Addressed
  <1> QED
    BY <1>5, <1>6, <1>7, <1>8, <1>9, <1>11, <1>12

\* drain addresses frames to the waits and the streams it takes.
LEMMA DrainStep ==
  ASSUME TypeOK, History, Drain
  PROVE  \E frames \in SUBSET Answers : /\ Flush(Owner, frames, "idle")
                                        /\ \A f \in frames : Addressed(f)
  <1>1. /\ log \in Logs /\ Sound(log) /\ Len(landed) \in Nat
        /\ Len(log.records) <= Len(landed)
        /\ parked \in SUBSET Waits /\ streams \in SUBSET Subs
    BY LogSound
  <1>2. PICK due : due = Due(streams, log, Len(landed))
    OBVIOUS
  <1>3. Flush(Owner, Frames(log, Len(landed), parked \cup due), "idle")
    BY <1>2 DEF Drain
  <1>4. \A r \in parked \cup due : r.id \in Nat /\ r.cursor \in Nat
    BY <1>1, <1>2 DEF Due, Waits, Subs
  <1>5. PICK frames : frames = Frames(log, Len(landed), parked \cup due)
    OBVIOUS
  <1>6. frames \in SUBSET Answers /\ \A f \in frames : \E r \in parked \cup due : f.id = r.id
    BY <1>1, <1>4, <1>5, FramesType
  <1>7. \A f \in frames : Addressed(f)
    BY <1>2, <1>6 DEF Addressed, Due
  <1> QED
    BY <1>3, <1>5, <1>6, <1>7

\* The slot's answer is one frame, under the id it was asked with.
LEMMA ReadStep ==
  ASSUME TypeOK, History, Dispatching, ReadSince
  PROVE  \E f \in Answers : out' = [out EXCEPT ![Owner] = {f}] /\ f.id = open[task.conn]
  <1>1. /\ Sound(log) /\ Len(landed) \in Nat /\ Len(log.records) <= Len(landed)
    BY LogSound
  <1>2. task.conn \in Conns
    BY DEF Dispatching, ReadSince
  <1>3. open[task.conn] \in Nat /\ cursor[task.conn] \in Nat
    BY <1>2 DEF TypeOK
  <1>4. PICK f : f = Frame(open[task.conn], Batch(log, Len(landed), cursor[task.conn], Events))
    OBVIOUS
  <1>5. f \in Answers /\ f.id = open[task.conn]
    BY <1>1, <1>3, <1>4, AnswerType
  <1> QED
    BY <1>4, <1>5 DEF ReadSince

\* A pass that has collected its frames leaves the thread and its frames typed.
LEMMA FlushType ==
  ASSUME TypeOK, NEW t \in Threads, NEW next \in Places,
         \E frames \in SUBSET Answers : Flush(t, frames, next)
  PROVE  /\ pc' \in [Threads -> Places] /\ out' \in [Threads -> SUBSET Answers]
  BY FlushStep

(***************************************************************************)
(* The steps of the specification, one lemma for each part of Inv.         *)
(***************************************************************************)
LEMMA SendType == ASSUME TypeOK, NEW t \in Threads, Send(t) PROVE TypeOK'
  <1>1. PICK f \in out[t] :
           /\ out' = [out EXCEPT ![t] = @ \ {f}]
           /\ IF \E c \in Conns : open[c] = f.id
              THEN \E c \in Conns : open[c] = f.id /\ Deliver(c, f)
              ELSE UNCHANGED <<got, cursor, reread, mode, open>>
    BY DEF Send
  <1>2. UNCHANGED <<revision, entries, shape, log, parked, streams, lock, stamp, closed, task,
                    told, nextId, landed>>
    BY DEF Send, channel
  <1>3. f.events \in SUBSET Nat /\ f.next \in Nat
    BY DEF TypeOK
  <1>4. out' \in [Threads -> SUBSET Answers]
    BY <1>1 DEF TypeOK, Answers
  <1>5. pc' \in [Threads -> Places]
    BY AfterType DEF Send, Goto, TypeOK, Places
  <1>6. /\ mode' \in [Conns -> {"idle", "waiting", "opening", "reading", "streaming"}]
        /\ open' \in [Conns -> Nat] /\ cursor' \in [Conns -> Nat]
        /\ got' \in [Conns -> SUBSET Nat] /\ reread' \in [Conns -> Nat]
    <2>1. CASE UNCHANGED <<got, cursor, reread, mode, open>>
      BY <2>1 DEF TypeOK
    <2>2. ASSUME NEW c \in Conns, Deliver(c, f)
          PROVE  /\ mode' \in [Conns -> {"idle", "waiting", "opening", "reading", "streaming"}]
                 /\ open' \in [Conns -> Nat] /\ cursor' \in [Conns -> Nat]
                 /\ got' \in [Conns -> SUBSET Nat] /\ reread' \in [Conns -> Nat]
      <3>1. Len(landed) \in Nat
        BY LenProperties DEF TypeOK
      <3>2. reread' \in [Conns -> Nat]
        BY <2>2, <3>1 DEF Deliver, TypeOK
      <3>3. got' \in [Conns -> SUBSET Nat] /\ cursor' \in [Conns -> Nat]
        BY <1>3, <2>2 DEF Deliver, TypeOK
      <3>4. /\ mode' \in [Conns -> {"idle", "waiting", "opening", "reading", "streaming"}]
            /\ open' \in [Conns -> Nat]
        <4>1. CASE UNCHANGED <<mode, open>>
          BY <4>1 DEF TypeOK
        <4>2. CASE mode' = [mode EXCEPT ![c] = "idle"] /\ open' = [open EXCEPT ![c] = 0]
          BY <4>2 DEF TypeOK
        <4> QED
          BY <4>1, <4>2, <2>2 DEF Deliver
      <3> QED
        BY <3>2, <3>3, <3>4
    <2> QED
      BY <1>1, <2>1, <2>2
  <1> QED
    BY <1>2, <1>4, <1>5, <1>6 DEF TypeOK, Places, Answers

\* Every step keeps the shape of the state.
LEMMA TypeStep ==
  ASSUME TypeOK, History, Rested, Appending, Dispatching, [Next]_vars
  PROVE  TypeOK'
  <1> USE DEF channel, client
  <1>0. Owner \in Threads /\ Announcers \subseteq Threads
    BY DEF Threads
  <1>1. ASSUME NEW now \in SUBSET Entries, Mutate(now) PROVE TypeOK'
    BY <1>0, <1>1 DEF Mutate, Take, Goto, TypeOK
  <1>2. CASE Query
    BY <1>0, <1>2 DEF Query, Take, Goto, TypeOK
  <1>3. CASE Kill
    BY <1>0, <1>3 DEF Kill, Take, Goto, TypeOK
  <1>4. ASSUME NEW c \in Conns, WaitFor(c) PROVE TypeOK'
    <2>1. /\ task' = [kind |-> "wait", conn |-> c] /\ pc' = [pc EXCEPT ![Owner] = "observe"]
          /\ mode' = [mode EXCEPT ![c] = "waiting"] /\ open' = [open EXCEPT ![c] = nextId]
          /\ nextId' = nextId + 1
      BY <1>4 DEF WaitFor, Take, Ask, Goto
    <2>2. UNCHANGED <<revision, entries, shape, channel, lock, stamp, closed, out,
                      cursor, told, got, reread, landed>>
      BY <1>4 DEF WaitFor
    <2>3. nextId' \in Nat \ {0}
      BY <2>1 DEF TypeOK
    <2>4. task' \in [kind : {"query", "wait", "subscribe", "read"}, conn : Conns \cup {None}]
      BY <2>1
    <2> QED
      BY <1>0, <2>1, <2>2, <2>3, <2>4 DEF TypeOK
  <1>5. ASSUME NEW c \in Conns, Subscribe(c) PROVE TypeOK'
    <2>1. /\ task' = [kind |-> "subscribe", conn |-> c] /\ pc' = [pc EXCEPT ![Owner] = "observe"]
          /\ mode' = [mode EXCEPT ![c] = "opening"] /\ open' = [open EXCEPT ![c] = nextId]
          /\ nextId' = nextId + 1
      BY <1>5 DEF Subscribe, Take, Ask, Goto
    <2>2. UNCHANGED <<revision, entries, shape, channel, lock, stamp, closed, out,
                      cursor, told, got, reread, landed>>
      BY <1>5 DEF Subscribe
    <2>3. nextId' \in Nat \ {0}
      BY <2>1 DEF TypeOK
    <2>4. task' \in [kind : {"query", "wait", "subscribe", "read"}, conn : Conns \cup {None}]
      BY <2>1
    <2> QED
      BY <1>0, <2>1, <2>2, <2>3, <2>4 DEF TypeOK
  <1>6. ASSUME NEW c \in Conns, ReadSlot(c) PROVE TypeOK'
    BY <1>0, <1>6 DEF ReadSlot, Take, Ask, Goto, TypeOK
  <1>7. ASSUME NEW c \in Conns, Unsubscribe(c) PROVE TypeOK'
    BY <1>7 DEF Unsubscribe, TypeOK
  <1>8. ASSUME NEW c \in Conns, Disconnect(c) PROVE TypeOK'
    BY <1>8 DEF Disconnect, TypeOK
  <1>9. ASSUME NEW t \in Threads, NEW at \in Nat, UpTo(landed, at),
               \E events \in Seq(Events) : Land(t, at, events)
        PROVE  /\ log' \in Logs /\ landed' \in Seq(Rec) /\ Len(log'.records) <= Capacity
               /\ parked' \in SUBSET Waits /\ streams' \in SUBSET Subs
               /\ pc' \in [Threads -> Places] /\ out' \in [Threads -> SUBSET Answers]
    <2>1. PICK events \in Seq(Events) : Land(t, at, events)
      BY <1>9
    <2>2. /\ log' \in Logs /\ landed' \in Seq(Rec) /\ IsTail(log', landed')
          /\ parked' \in SUBSET parked /\ streams' \in SUBSET Subs
          /\ \E frames \in SUBSET Answers : Flush(t, frames, After(t))
      BY <1>9, <2>1, LandStep
    <2>3. After(t) \in Places
      BY AfterType
    <2>4. pc' \in [Threads -> Places] /\ out' \in [Threads -> SUBSET Answers]
      BY <2>2, <2>3, FlushType
    <2> QED
      BY <2>2, <2>4, LogSound DEF IsTail
  <1>10. CASE Observe
    <2>1. revision \in Nat /\ UpTo(landed, revision)
      BY DEF TypeOK, History
    <2>2. UNCHANGED <<revision, entries, lock, stamp, closed, task, client, nextId>>
          /\ shape' = entries
      BY <1>10 DEF Observe
    <2> QED
      BY <1>0, <1>9, <1>10, <2>1, <2>2, ObserveLands
      DEF TypeOK, Logs, Rec, Waits, Subs, Places, Answers
  <1>11. CASE ParkOrAnswer
    <2>1. parked' \in SUBSET Waits
      BY <1>11, ParkStep
    <2>2. \E frames \in SUBSET Answers : Flush(Owner, frames, "idle")
      BY <1>11, ParkStep
    <2>3. pc' \in [Threads -> Places] /\ out' \in [Threads -> SUBSET Answers]
      BY <1>0, <2>2, FlushType DEF Places
    <2>4. /\ UNCHANGED <<revision, entries, shape, log, streams, lock, stamp, closed, client,
                         nextId, landed>>
          /\ task' = [task EXCEPT !.kind = "query"]
      BY <1>11 DEF ParkOrAnswer
    <2> QED
      BY <2>1, <2>3, <2>4 DEF TypeOK, Waits, Places, Answers
  <1>12. CASE Enroll
    <2>1. task.conn \in Conns
      BY <1>12 DEF Enroll, Dispatching
    <2> QED
      <3>1. streams' = streams \cup {[id |-> open[task.conn], conn |-> task.conn,
                                       cursor |-> cursor[task.conn], armed |-> FALSE]}
        BY <1>12 DEF Enroll
      <3>2. streams' \in SUBSET Subs
        <4>1. [id |-> open[task.conn], conn |-> task.conn,
               cursor |-> cursor[task.conn], armed |-> FALSE] \in Subs
          BY <2>1 DEF TypeOK, Subs
        <4> QED
          BY <3>1, <4>1, LogSound
      <3>3. /\ pc' = [pc EXCEPT ![Owner] = "open"]
            /\ UNCHANGED <<revision, entries, shape, log, parked, lock, stamp, closed, task, out,
                           client, nextId, landed>>
        BY <1>12 DEF Enroll, Goto
      <3> QED
        BY <1>0, <3>2, <3>3 DEF TypeOK, Subs
  <1>13. CASE Opened
    BY <1>0, <1>13 DEF Opened, Goto, TypeOK
  <1>14. CASE Arm
    <2>1. streams' \in SUBSET Subs
      BY <1>14, ArmStep
    <2>2. \E frames \in SUBSET Answers : Flush(Owner, frames, "idle")
      BY <1>14, ArmStep
    <2>3. pc' \in [Threads -> Places] /\ out' \in [Threads -> SUBSET Answers]
      BY <1>0, <2>2, FlushType DEF Places
    <2>4. /\ UNCHANGED <<revision, entries, shape, log, parked, lock, stamp, closed, client,
                         nextId, landed>>
          /\ task' = [task EXCEPT !.kind = "query"]
      BY <1>14 DEF Arm
    <2> QED
      BY <2>1, <2>3, <2>4 DEF TypeOK, Subs, Places, Answers
  <1>15. CASE ReadSince
    <2>1. out' \in [Threads -> SUBSET Answers]
      <3>1. PICK f \in Answers : out' = [out EXCEPT ![Owner] = {f}]
        BY <1>15, ReadStep
      <3> QED
        BY <1>0, <3>1 DEF TypeOK, Answers
    <2> QED
      BY <1>0, <1>15, <2>1 DEF ReadSince, Goto, TypeOK, Answers
  <1>16. CASE Drain
    <2>1. \E frames \in SUBSET Answers : Flush(Owner, frames, "idle")
      BY <1>16, DrainStep
    <2>2. pc' \in [Threads -> Places] /\ out' \in [Threads -> SUBSET Answers]
      BY <1>0, <2>1, FlushType DEF Places
    <2>3. /\ UNCHANGED <<revision, entries, shape, log, lock, stamp, task, client, nextId, landed>>
          /\ parked' = {} /\ streams' = {} /\ closed' = TRUE
      BY <1>16 DEF Drain
    <2> QED
      BY <2>2, <2>3 DEF TypeOK, Places, Answers
  <1>17. ASSUME NEW t \in Threads, Send(t) PROVE TypeOK'
    BY <1>17, SendType
  <1>18. CASE PaneOutput
    <2>1. /\ revision' = revision + 1
          /\ UNCHANGED <<entries, shape, channel, lock, stamp, closed, pc, task, out, client,
                         nextId, landed>>
      BY <1>18 DEF PaneOutput
    <2> QED
      BY <2>1 DEF TypeOK
  <1>19. ASSUME NEW a \in Announcers, AnnounceBump(a) PROVE TypeOK'
    BY <1>0, <1>19 DEF AnnounceBump, Goto, TypeOK
  <1>20. ASSUME NEW a \in Announcers, AnnounceAppend(a) PROVE TypeOK'
    <2>1. stamp \in Nat /\ UpTo(landed, stamp)
      BY <1>20 DEF TypeOK, Appending, AnnounceAppend
    <2>2. UNCHANGED <<revision, entries, shape, stamp, closed, task, client, nextId>>
          /\ lock' = None
      BY <1>20 DEF AnnounceAppend
    <2> QED
      BY <1>0, <1>9, <1>20, <2>1, <2>2, AnnounceLands
      DEF TypeOK, Logs, Rec, Waits, Subs, Places, Answers
  <1>21. ASSUME NEW e \in Elsewhere, ChangeElsewhere(e) PROVE TypeOK'
    BY <1>21, JournalAssumption DEF ChangeElsewhere, TypeOK
  <1>22. CASE UNCHANGED vars
    BY <1>22 DEF vars, TypeOK
  <1> QED
    BY <1>0, <1>1, <1>2, <1>3, <1>4, <1>5, <1>6, <1>7, <1>8, <1>10, <1>11, <1>12, <1>13,
       <1>14, <1>15, <1>16, <1>17, <1>18, <1>19, <1>20, <1>21, <1>22
    DEF Next, Request, Refused, OwnerStep, AnnouncerStep

\* The steps that touch neither the ring nor the revision nor an append.
LEMMA JournalMoves ==
  ASSUME TypeOK, [Next]_vars
  PROVE  \/ UNCHANGED <<log, landed, revision, stamp, lock>>
            /\ \A a \in Announcers : pc'[a] = "append" => pc[a] = "append"
         \/ revision' = revision + 1 /\ UNCHANGED <<log, landed, stamp, lock>>
            /\ \A a \in Announcers : pc'[a] = "append" => pc[a] = "append"
         \/ Observe
         \/ \E a \in Announcers : AnnounceBump(a) \/ AnnounceAppend(a)
  <1> DEFINE Still == /\ UNCHANGED <<log, landed, revision, stamp, lock>>
                      /\ \A a \in Announcers : pc'[a] = "append" => pc[a] = "append"
             Moved == /\ revision' = revision + 1 /\ UNCHANGED <<log, landed, stamp, lock>>
                      /\ \A a \in Announcers : pc'[a] = "append" => pc[a] = "append"
  <1>0. pc \in [Threads -> Places] /\ Announcers \subseteq Threads /\ Owner \in Threads
        /\ Owner \notin Announcers
    BY JournalAssumption DEF TypeOK, Places, Threads
  <1>1. ASSUME NEW place, Goto(Owner, place)
        PROVE  \A a \in Announcers : pc'[a] = "append" => pc[a] = "append"
    BY <1>0, <1>1 DEF Goto
  <1>2. ASSUME NEW t \in Threads, NEW frames, NEW next, Flush(t, frames, next),
               t \in Announcers => next = "idle"
        PROVE  \A a \in Announcers : pc'[a] = "append" => pc[a] = "append"
    BY <1>0, <1>2 DEF Flush
  <1>3. ASSUME NEW now \in SUBSET Entries, Mutate(now) PROVE Moved
    BY <1>1, <1>3 DEF Mutate, Take, channel
  <1>4. CASE Kill
    BY <1>1, <1>4 DEF Kill, Take, channel
  <1>5. CASE PaneOutput
    BY <1>5 DEF PaneOutput, channel
  <1>6. CASE Query
    BY <1>1, <1>6 DEF Query, Take, channel
  <1>7. ASSUME NEW c \in Conns, WaitFor(c) PROVE Still
    BY <1>1, <1>7 DEF WaitFor, Take, channel
  <1>8. ASSUME NEW c \in Conns, Subscribe(c) PROVE Still
    BY <1>1, <1>8 DEF Subscribe, Take, channel
  <1>9. ASSUME NEW c \in Conns, ReadSlot(c) PROVE Still
    BY <1>1, <1>9 DEF ReadSlot, Take, channel
  <1>10. ASSUME NEW c \in Conns, Unsubscribe(c) PROVE Still
    BY <1>10 DEF Unsubscribe
  <1>11. ASSUME NEW c \in Conns, Disconnect(c) PROVE Still
    BY <1>11 DEF Disconnect
  <1>12. CASE ParkOrAnswer
    <2>1. \E frames : Flush(Owner, frames, "idle")
      BY <1>12 DEF ParkOrAnswer
    <2> QED
      BY <1>0, <1>2, <1>12, <2>1 DEF ParkOrAnswer
  <1>13. CASE Enroll
    BY <1>1, <1>13 DEF Enroll
  <1>14. CASE Opened
    BY <1>1, <1>14 DEF Opened, channel
  <1>15. CASE Arm
    BY <1>0, <1>2, <1>15 DEF Arm
  <1>16. CASE ReadSince
    BY <1>1, <1>16 DEF ReadSince, channel
  <1>17. CASE Drain
    BY <1>0, <1>2, <1>17 DEF Drain
  <1>18. ASSUME NEW t \in Threads, Send(t) PROVE Still
    <2>1. t # Owner => After(t) = "idle"
      BY AfterType
    <2>2. \A a \in Announcers : pc'[a] = "append" => pc[a] = "append"
      BY <1>0, <1>18, <2>1 DEF Send, Goto
    <2> QED
      BY <1>18, <2>2 DEF Send, channel
  <1>19. ASSUME NEW e \in Elsewhere, ChangeElsewhere(e) PROVE Still
    BY <1>19 DEF ChangeElsewhere, channel
  <1>20. CASE UNCHANGED vars
    BY <1>20 DEF vars, channel
  <1> QED
    BY <1>0, <1>3, <1>4, <1>5, <1>6, <1>7, <1>8, <1>9, <1>10, <1>11, <1>12, <1>13, <1>14,
       <1>15, <1>16, <1>17, <1>18, <1>19, <1>20
    DEF Next, Request, Refused, OwnerStep, AnnouncerStep

\* The ring stays the tail of an ordered history, and an announcer's stamp
\* stays the newest thing there is while it holds the lock.
LEMMA HistoryStep ==
  ASSUME TypeOK, History, Rested, Appending, [Next]_vars
  PROVE  History' /\ Appending'
  <1>0. /\ revision \in Nat /\ stamp \in Nat /\ landed \in Seq(Rec) /\ pc \in [Threads -> Places]
        /\ Announcers \subseteq Threads /\ Owner \in Threads /\ None \notin Threads
        /\ Owner \notin Announcers
    BY JournalAssumption DEF TypeOK, Places, Threads, Rec
  <1>1. ASSUME NEW h \in Seq(Rec), NEW r \in Nat, NEW q \in Nat, r <= q, UpTo(h, r)
        PROVE  UpTo(h, q)
    BY <1>1, RecElements DEF UpTo
  <1>2. CASE /\ UNCHANGED <<log, landed, revision, stamp, lock>>
             /\ \A a \in Announcers : pc'[a] = "append" => pc[a] = "append"
    BY <1>2 DEF History, Appending, IsTail, EndOf, Ordered, UpTo
  <1>3. CASE /\ revision' = revision + 1 /\ UNCHANGED <<log, landed, stamp, lock>>
             /\ \A a \in Announcers : pc'[a] = "append" => pc[a] = "append"
    <2>1. UpTo(landed, revision + 1)
      BY <1>0, <1>1 DEF History
    <2>2. History'
      BY <1>3, <2>1 DEF History, IsTail, EndOf, Ordered, UpTo
    <2>3. stamp <= revision => stamp <= revision + 1
      BY <1>0
    <2> QED
      BY <1>3, <2>2, <2>3 DEF Appending, UpTo
  <1>4. CASE Observe
    <2>1. PICK events \in Seq(Events) : Land(Owner, revision, events)
      BY <1>4, ObserveLands
    <2>2. IsTail(log', landed') /\ Ordered(landed') /\ UpTo(landed', revision)
      BY <1>0, <2>1, LandStep DEF History
    <2>3. UNCHANGED <<revision, stamp, lock>> /\ lock = None
      BY <1>4 DEF Observe
    <2>4. PICK frames \in SUBSET Answers : Flush(Owner, frames, After(Owner))
      BY <1>0, <2>1, LandStep DEF History
    <2>5. \A a \in Announcers : pc'[a] = pc[a]
      BY <1>0, <2>4, FlushStep, AfterType
    <2>6. \A a \in Announcers : pc[a] # "append"
      BY <1>0, <2>3 DEF Appending
    <2>7. Appending'
      BY <2>5, <2>6 DEF Appending
    <2> QED
      BY <2>2, <2>3, <2>7 DEF History, IsTail, EndOf, Ordered, UpTo
  <1>5. ASSUME NEW a \in Announcers, AnnounceBump(a) PROVE History' /\ Appending'
    <2>1. /\ lock = None /\ lock' = a /\ revision' = revision + 1 /\ stamp' = revision + 1
          /\ pc' = [pc EXCEPT ![a] = "append"] /\ UNCHANGED <<log, landed>>
      BY <1>5 DEF AnnounceBump, Goto, channel
    <2>2. UpTo(landed, revision + 1)
      BY <1>0, <1>1 DEF History
    <2>3. History'
      BY <2>1, <2>2 DEF History, IsTail, EndOf, Ordered, UpTo
    <2>4. \A b \in Announcers : pc[b] # "append"
      BY <1>0, <2>1 DEF Appending
    <2>5. Appending'
      <3> SUFFICES ASSUME NEW b \in Announcers, pc'[b] = "append"
                   PROVE  lock' = b /\ stamp' <= revision' /\ UpTo(landed', stamp')
        BY DEF Appending
      <3>1. b = a
        BY <1>0, <2>1, <2>4
      <3> QED
        BY <1>0, <2>1, <2>2, <3>1 DEF UpTo
    <2> QED
      BY <2>3, <2>5
  <1>6. ASSUME NEW a \in Announcers, AnnounceAppend(a) PROVE History' /\ Appending'
    <2>1. lock = a /\ stamp <= revision /\ UpTo(landed, stamp)
      BY <1>6 DEF Appending, AnnounceAppend
    <2>2. PICK events \in Seq(Events) : Land(a, stamp, events)
      BY <1>6, AnnounceLands
    <2>3. /\ landed' \in Seq(Rec) /\ IsTail(log', landed') /\ Ordered(landed')
          /\ UpTo(landed', stamp)
      BY <1>0, <2>1, <2>2, LandStep
    <2>4. UNCHANGED <<revision, stamp>>
      BY <1>6 DEF AnnounceAppend
    <2>5. PICK h \in Seq(Rec) : h = landed'
      BY <2>3
    <2>6. UpTo(h, revision)
      BY <1>0, <1>1, <2>1, <2>3, <2>5
    <2>7. History'
      BY <2>3, <2>4, <2>5, <2>6 DEF History, IsTail, EndOf, Ordered, UpTo
    <2>8. PICK frames \in SUBSET Answers : Flush(a, frames, After(a))
      BY <1>0, <2>1, <2>2, LandStep
    <2>9. pc'[a] \in {"idle", "write"} /\ \A u \in Threads \ {a} : pc'[u] = pc[u]
      <3>1. a \in Threads /\ After(a) = "idle" /\ After(a) \in Places
        BY <1>0, AfterType DEF Places
      <3> QED
        BY <2>8, <3>1, FlushStep
    <2>10. \A b \in Announcers : pc'[b] # "append"
      BY <1>0, <2>1, <2>9 DEF Appending
    <2>11. Appending'
      BY <2>10 DEF Appending
    <2> QED
      BY <2>7, <2>11
  <1> QED
    BY <1>2, <1>3, <1>4, <1>5, <1>6, JournalMoves

\* The steps that touch neither the ring nor a reader.
LEMMA ReaderMoves ==
  ASSUME [Next]_vars
  PROVE  \/ UNCHANGED <<log, landed, parked, streams>>
         \/ Observe \/ ParkOrAnswer \/ Enroll \/ Arm \/ Drain
         \/ \E c \in Conns : Unsubscribe(c) \/ Disconnect(c)
         \/ \E a \in Announcers : AnnounceAppend(a)
  <1> USE DEF channel
  <1>1. ASSUME NEW now \in SUBSET Entries, Mutate(now) PROVE UNCHANGED <<log, landed, parked, streams>>
    BY <1>1 DEF Mutate
  <1>2. CASE Query \/ Kill \/ Opened \/ ReadSince \/ PaneOutput
    BY <1>2 DEF Query, Kill, Opened, ReadSince, PaneOutput
  <1>3. ASSUME NEW c \in Conns, WaitFor(c) \/ Subscribe(c) \/ ReadSlot(c)
        PROVE  UNCHANGED <<log, landed, parked, streams>>
    BY <1>3 DEF WaitFor, Subscribe, ReadSlot
  <1>4. ASSUME NEW t \in Threads, Send(t) PROVE UNCHANGED <<log, landed, parked, streams>>
    BY <1>4 DEF Send
  <1>5. ASSUME NEW a \in Announcers, AnnounceBump(a) PROVE UNCHANGED <<log, landed, parked, streams>>
    BY <1>5 DEF AnnounceBump
  <1>6. ASSUME NEW e \in Elsewhere, ChangeElsewhere(e) PROVE UNCHANGED <<log, landed, parked, streams>>
    BY <1>6 DEF ChangeElsewhere
  <1>7. CASE UNCHANGED vars
    BY <1>7 DEF vars
  <1> QED
    BY <1>1, <1>2, <1>3, <1>4, <1>5, <1>6, <1>7
    DEF Next, Request, Refused, OwnerStep, AnnouncerStep, Threads

\* No step leaves a parked wait or an armed stream with a batch coming to it.
LEMMA RestedStep ==
  ASSUME TypeOK, History, Rested, Appending, Dispatching, [Next]_vars
  PROVE  Rested'
  <1>0. Owner \in Threads /\ Announcers \subseteq Threads /\ revision \in Nat /\ stamp \in Nat
    BY DEF Threads, TypeOK
  <1>1. CASE /\ UNCHANGED <<log, landed>> /\ parked' \in SUBSET parked
             /\ \A s \in streams' : s \in streams \/ ~s.armed
    BY <1>1 DEF Rested, BatchOf
  <1>2. CASE Observe
    <2>1. PICK events \in Seq(Events) : Land(Owner, revision, events)
      BY <1>2, ObserveLands
    <2> QED
      BY <1>0, <2>1, LandStep DEF History
  <1>3. ASSUME NEW a \in Announcers, AnnounceAppend(a) PROVE Rested'
    <2>1. PICK events \in Seq(Events) : Land(a, stamp, events)
      BY <1>3, AnnounceLands
    <2>2. UpTo(landed, stamp)
      BY <1>3 DEF Appending, AnnounceAppend
    <2> QED
      BY <1>0, <2>1, <2>2, LandStep
  <1>4. CASE Enroll
    BY <1>1, <1>4 DEF Enroll
  <1>5. CASE Drain
    BY <1>5 DEF Drain, Rested
  <1>6. ASSUME NEW c \in Conns, Unsubscribe(c) \/ Disconnect(c) PROVE Rested'
    BY <1>1, <1>6 DEF Unsubscribe, Disconnect
  <1>7. CASE UNCHANGED <<log, landed, parked, streams>>
    BY <1>1, <1>7
  <1> QED
    BY <1>2, <1>3, <1>4, <1>5, <1>6, <1>7, ParkStep, ArmStep, ReaderMoves

\* The steps of other threads leave the owner where it is.
LEMMA OthersStep ==
  ASSUME TypeOK, History, Rested, Appending, NEW a \in Announcers,
         AnnounceBump(a) \/ AnnounceAppend(a) \/ Send(a)
  PROVE  pc'[Owner] = pc[Owner] /\ UNCHANGED <<task, closed, nextId>>
  <1>0. /\ pc \in [Threads -> Places] /\ a \in Threads /\ Owner \in Threads \ {a}
        /\ stamp \in Nat
    BY JournalAssumption DEF TypeOK, Places, Threads
  <1>1. CASE AnnounceBump(a)
    BY <1>0, <1>1 DEF AnnounceBump, Goto
  <1>2. CASE Send(a)
    BY <1>0, <1>2 DEF Send, Goto
  <1>3. CASE AnnounceAppend(a)
    <2>1. PICK events \in Seq(Events) : Land(a, stamp, events)
      BY <1>3, AnnounceLands
    <2>2. UpTo(landed, stamp)
      BY <1>3 DEF Appending, AnnounceAppend
    <2>3. PICK frames \in SUBSET Answers : Flush(a, frames, After(a))
      BY <1>0, <2>1, <2>2, LandStep
    <2>4. pc'[Owner] = pc[Owner]
      BY <1>0, <2>3, FlushStep, AfterType
    <2> QED
      BY <1>3, <2>4 DEF AnnounceAppend
  <1> QED
    BY <1>1, <1>2, <1>3

\* The owner is where its request takes it, and nowhere after a drain.
LEMMA DispatchingStep ==
  ASSUME TypeOK, History, Rested, Appending, Dispatching, Closing, [Next]_vars
  PROVE  Dispatching' /\ Closing'
  <1>0. /\ pc \in [Threads -> Places] /\ Owner \in Threads
        /\ task \in [kind : {"query", "wait", "subscribe", "read"}, conn : Conns \cup {None}]
    BY DEF TypeOK, Places, Threads
  <1>1. ASSUME NEW kind, NEW c, NEW place, Take(kind, c, place), UNCHANGED closed,
               kind # "query" => c \in Conns,
               \/ place = "observe"
               \/ place = "read" /\ kind = "read"
               \/ place = "drain" /\ kind = "query"
        PROVE  Dispatching' /\ Closing'
    BY <1>0, <1>1 DEF Take, Goto, Dispatching, Closing
  <1>2. ASSUME NEW now \in SUBSET Entries, Mutate(now) PROVE Dispatching' /\ Closing'
    BY <1>1, <1>2 DEF Mutate
  <1>3. CASE Query
    BY <1>1, <1>3 DEF Query
  <1>4. CASE Kill
    BY <1>1, <1>4 DEF Kill
  <1>5. ASSUME NEW c \in Conns, WaitFor(c) PROVE Dispatching' /\ Closing'
    BY <1>1, <1>5 DEF WaitFor
  <1>6. ASSUME NEW c \in Conns, Subscribe(c) PROVE Dispatching' /\ Closing'
    BY <1>1, <1>6 DEF Subscribe
  <1>7. ASSUME NEW c \in Conns, ReadSlot(c) PROVE Dispatching' /\ Closing'
    BY <1>1, <1>7 DEF ReadSlot
  <1>8. ASSUME NEW c \in Conns, Unsubscribe(c) \/ Disconnect(c) PROVE Dispatching' /\ Closing'
    BY <1>8 DEF Unsubscribe, Disconnect, Dispatching, Closing
  <1>9. ASSUME pc'[Owner] \in {"write", "idle"}, task'.kind = "query", UNCHANGED closed,
               pc[Owner] \notin {"write", "idle"}
        PROVE  Dispatching' /\ Closing'
    BY <1>9 DEF Dispatching, Closing
  <1>10. CASE ParkOrAnswer
    <2>1. \E frames \in SUBSET Answers : Flush(Owner, frames, "idle")
      BY <1>10, ParkStep
    <2>2. pc'[Owner] \in {"write", "idle"}
      BY <1>0, <2>1, FlushStep DEF Places
    <2> QED
      BY <1>0, <1>9, <1>10, <2>2 DEF ParkOrAnswer
  <1>11. CASE Arm
    <2>1. \E frames \in SUBSET Answers : Flush(Owner, frames, "idle")
      BY <1>11, ArmStep
    <2>2. pc'[Owner] \in {"write", "idle"}
      BY <1>0, <2>1, FlushStep DEF Places
    <2> QED
      BY <1>0, <1>9, <1>11, <2>2 DEF Arm
  <1>12. CASE Drain
    <2>1. \E frames \in SUBSET Answers : Flush(Owner, frames, "idle")
      BY <1>12, DrainStep
    <2>2. pc'[Owner] \in {"write", "idle"}
      BY <1>0, <2>1, FlushStep DEF Places
    <2>3. task' = task /\ task.kind = "query" /\ parked' = {} /\ streams' = {}
      BY <1>12 DEF Drain, Dispatching
    <2> QED
      BY <2>2, <2>3 DEF Dispatching, Closing
  <1>13. CASE Observe
    <2>1. PICK events \in Seq(Events) : Land(Owner, revision, events)
      BY <1>13, ObserveLands
    <2>2. PICK frames \in SUBSET Answers : Flush(Owner, frames, After(Owner))
      BY <1>0, <2>1, LandStep DEF History, TypeOK
    <2>3. pc'[Owner] \in {After(Owner), "write"}
      BY <1>0, <2>2, FlushStep, AfterType
    <2>4. UNCHANGED <<task, closed>> /\ ~closed
      BY <1>13 DEF Observe, Closing
    <2> QED
      BY <1>0, <2>3, <2>4, AfterType DEF Dispatching, Closing
  <1>14. CASE Enroll
    BY <1>0, <1>14 DEF Enroll, Goto, Dispatching, Closing
  <1>15. CASE Opened
    BY <1>0, <1>15 DEF Opened, Goto, Dispatching, Closing
  <1>16. CASE ReadSince
    BY <1>0, <1>16 DEF ReadSince, Goto, Dispatching, Closing
  <1>17. CASE Send(Owner)
    <2>1. /\ pc'[Owner] \in {After(Owner), "write"}
          /\ UNCHANGED <<task, closed, parked, streams>>
      BY <1>0, <1>17 DEF Send, Goto, channel
    <2> QED
      BY <1>0, <2>1, AfterType DEF Dispatching, Closing
  <1>18. ASSUME NEW a \in Announcers, AnnounceBump(a) \/ AnnounceAppend(a) \/ Send(a)
         PROVE  Dispatching' /\ Closing'
    <2>1. pc'[Owner] = pc[Owner] /\ UNCHANGED <<task, closed>>
      BY <1>18, OthersStep
    <2>2. parked = {} /\ streams = {} => parked' = {} /\ streams' = {}
      <3>1. CASE AnnounceBump(a) \/ Send(a)
        BY <3>1 DEF AnnounceBump, Send, channel
      <3>2. CASE AnnounceAppend(a)
        <4>1. PICK events \in Seq(Events) : Land(a, stamp, events)
          BY <3>2, AnnounceLands
        <4>2. UpTo(landed, stamp) /\ stamp \in Nat /\ a \in Threads
          BY <3>2 DEF Appending, AnnounceAppend, TypeOK, Threads
        <4> QED
          BY <4>1, <4>2, LandStep
      <3> QED
        BY <1>18, <3>1, <3>2
    <2> QED
      BY <2>1, <2>2 DEF Dispatching, Closing
  <1>19. CASE PaneOutput
    BY <1>19 DEF PaneOutput, channel, Dispatching, Closing
  <1>20. ASSUME NEW e \in Elsewhere, ChangeElsewhere(e) PROVE Dispatching' /\ Closing'
    BY <1>20 DEF ChangeElsewhere, channel, Dispatching, Closing
  <1>21. CASE UNCHANGED vars
    BY <1>21 DEF vars, channel, Dispatching, Closing
  <1> QED
    BY <1>2, <1>3, <1>4, <1>5, <1>6, <1>7, <1>8, <1>10, <1>11, <1>12, <1>13, <1>14, <1>15,
       <1>16, <1>17, <1>18, <1>19, <1>20, <1>21
    DEF Next, Request, Refused, OwnerStep, AnnouncerStep

\* Under whose ids a step parks, enrolls, arms and answers.
Answering(id) == pc[Owner] \in {"park", "arm", "read"} /\ id = open[task.conn]

\* No step parks, streams or answers under an id that was not there before,
\* or is not the id of the request the owner runs.
LEMMA IdMoves ==
  ASSUME TypeOK, History, Rested, Appending, Dispatching, [Next]_vars
  PROVE  /\ \A w \in parked' : (\E v \in parked : v.id = w.id) \/ Answering(w.id)
         /\ \A s \in streams' : \/ \E u \in streams : u.id = s.id /\ u.armed = s.armed
                                \/ (\E u \in streams : u.id = s.id) /\ Answering(s.id)
                                \/ ~s.armed /\ pc[Owner] = "enroll" /\ s.id = open[task.conn]
         /\ \A t \in Threads : \A f \in out'[t] : f \in out[t] \/ Addressed(f) \/ Answering(f.id)
  <1> DEFINE Good ==
         /\ \A w \in parked' : (\E v \in parked : v.id = w.id) \/ Answering(w.id)
         /\ \A s \in streams' : \/ \E u \in streams : u.id = s.id /\ u.armed = s.armed
                                \/ (\E u \in streams : u.id = s.id) /\ Answering(s.id)
                                \/ ~s.armed /\ pc[Owner] = "enroll" /\ s.id = open[task.conn]
         /\ \A t \in Threads : \A f \in out'[t] : f \in out[t] \/ Addressed(f) \/ Answering(f.id)
  <1> SUFFICES Good
    OBVIOUS
  <1>0. /\ Owner \in Threads /\ Announcers \subseteq Threads /\ revision \in Nat /\ stamp \in Nat
        /\ out \in [Threads -> SUBSET Answers]
    BY DEF Threads, TypeOK, Answers
  <1>1. CASE parked' \in SUBSET parked /\ streams' \in SUBSET streams /\ UNCHANGED out
    BY <1>1
  <1>2. ASSUME NEW t \in Threads, NEW at \in Nat, UpTo(landed, at),
               \E events \in Seq(Events) : Land(t, at, events)
        PROVE  Good
    <2>1. PICK events \in Seq(Events) : Land(t, at, events)
      BY <1>2
    <2>2. /\ parked' \in SUBSET parked
          /\ \A s \in streams' : \E u \in streams : u.id = s.id /\ u.armed = s.armed
      BY <1>2, <2>1, LandStep
    <2>3. PICK frames \in SUBSET Answers :
             Flush(t, frames, After(t)) /\ \A f \in frames : Addressed(f)
      BY <1>2, <2>1, LandStep
    <2>4. \A u \in Threads : \A f \in out'[u] : f \in out[u] \/ f \in frames
      BY <1>2, <2>3, FlushStep, AfterType
    <2> QED
      BY <2>2, <2>3, <2>4
  <1>3. CASE Observe
    BY <1>0, <1>2, <1>3, ObserveLands DEF History
  <1>4. ASSUME NEW a \in Announcers, AnnounceAppend(a) PROVE Good
    <2>1. UpTo(landed, stamp)
      BY <1>4 DEF Appending, AnnounceAppend
    <2> QED
      BY <1>0, <1>2, <1>4, <2>1, AnnounceLands
  <1>5. CASE ParkOrAnswer
    <2>1. pc[Owner] = "park" /\ UNCHANGED streams
      BY <1>5 DEF ParkOrAnswer
    <2>2. \A w \in parked' : w \in parked \/ w.id = open[task.conn]
      BY <1>5, ParkStep
    <2>3. PICK frames \in SUBSET Answers :
             Flush(Owner, frames, "idle") /\ \A f \in frames : f.id = open[task.conn]
      BY <1>5, ParkStep
    <2>4. \A u \in Threads : \A f \in out'[u] : f \in out[u] \/ f \in frames
      BY <1>0, <2>3, FlushStep DEF Places
    <2> QED
      BY <2>1, <2>2, <2>3, <2>4 DEF Answering
  <1>6. CASE Arm
    <2>1. pc[Owner] = "arm" /\ UNCHANGED parked
      BY <1>6 DEF Arm
    <2>2. \A s \in streams' : \E u \in streams :
             u.id = s.id /\ (u.armed = s.armed \/ u.id = open[task.conn])
      BY <1>6, ArmStep
    <2>3. PICK frames \in SUBSET Answers :
             /\ Flush(Owner, frames, "idle")
             /\ \A f \in frames : Addressed(f) \/ f.id = open[task.conn]
      BY <1>6, ArmStep
    <2>4. \A u \in Threads : \A f \in out'[u] : f \in out[u] \/ f \in frames
      BY <1>0, <2>3, FlushStep DEF Places
    <2>5. \A s \in streams' : \/ \E u \in streams : u.id = s.id /\ u.armed = s.armed
                              \/ (\E u \in streams : u.id = s.id) /\ Answering(s.id)
      BY <2>1, <2>2 DEF Answering
    <2>6. \A f \in frames : Addressed(f) \/ Answering(f.id)
      BY <2>1, <2>3 DEF Answering
    <2> QED
      BY <2>1, <2>4, <2>5, <2>6
  <1>7. CASE Enroll
    <2>1. /\ streams' = streams \cup {[id |-> open[task.conn], conn |-> task.conn,
                                       cursor |-> cursor[task.conn], armed |-> FALSE]}
          /\ pc[Owner] = "enroll" /\ UNCHANGED <<parked, out>>
      BY <1>7 DEF Enroll
    <2> QED
      BY <2>1
  <1>8. CASE ReadSince
    <2>1. UNCHANGED <<parked, streams>> /\ pc[Owner] = "read"
      BY <1>8 DEF ReadSince, channel
    <2>2. PICK f \in Answers : out' = [out EXCEPT ![Owner] = {f}] /\ f.id = open[task.conn]
      BY <1>8, ReadStep
    <2>3. \A t \in Threads : \A g \in out'[t] : g \in out[t] \/ Answering(g.id)
      BY <1>0, <2>1, <2>2 DEF Answering
    <2> QED
      BY <2>1, <2>3
  <1>9. CASE Drain
    <2>1. PICK frames \in SUBSET Answers :
             Flush(Owner, frames, "idle") /\ \A f \in frames : Addressed(f)
      BY <1>9, DrainStep
    <2>2. \A u \in Threads : \A f \in out'[u] : f \in out[u] \/ f \in frames
      BY <1>0, <2>1, FlushStep DEF Places
    <2>3. parked' = {} /\ streams' = {}
      BY <1>9 DEF Drain
    <2> QED
      BY <2>1, <2>2, <2>3
  <1>10. ASSUME NEW t \in Threads, Send(t) PROVE Good
    <2>1. UNCHANGED <<parked, streams>>
      BY <1>10 DEF Send, channel
    <2>2. \A u \in Threads : \A f \in out'[u] : f \in out[u]
      BY <1>0, <1>10 DEF Send
    <2> QED
      BY <2>1, <2>2
  <1> HIDE DEF Good
  <1>11. ASSUME NEW now \in SUBSET Entries, Mutate(now) PROVE Good
    BY <1>1, <1>11 DEF Mutate, channel
  <1>12. CASE Query \/ Kill \/ Opened \/ PaneOutput
    BY <1>1, <1>12 DEF Query, Kill, Opened, PaneOutput, channel
  <1>13. ASSUME NEW c \in Conns, WaitFor(c) \/ Subscribe(c) \/ ReadSlot(c) PROVE Good
    BY <1>1, <1>13 DEF WaitFor, Subscribe, ReadSlot, channel
  <1>14. ASSUME NEW c \in Conns, Unsubscribe(c) \/ Disconnect(c) PROVE Good
    BY <1>1, <1>14 DEF Unsubscribe, Disconnect
  <1>15. ASSUME NEW a \in Announcers, AnnounceBump(a) PROVE Good
    BY <1>1, <1>15 DEF AnnounceBump, channel
  <1>16. ASSUME NEW e \in Elsewhere, ChangeElsewhere(e) PROVE Good
    BY <1>1, <1>16 DEF ChangeElsewhere, channel
  <1>17. CASE UNCHANGED vars
    BY <1>1, <1>17 DEF vars, channel
  <1> QED
    BY <1>0, <1>3, <1>4, <1>5, <1>6, <1>7, <1>8, <1>9, <1>10, <1>11, <1>12, <1>13, <1>14,
       <1>15, <1>16, <1>17
    DEF Next, Request, Refused, OwnerStep, AnnouncerStep

\* An id is handed out once; a client holds one it was handed, or none.
LEMMA AskMoves ==
  ASSUME TypeOK, [Next]_vars
  PROVE  \/ /\ nextId' = nextId /\ \A c \in Conns : open'[c] \in {open[c], 0}
         \/ /\ nextId' = nextId + 1 /\ \A c \in Conns : open'[c] \in {open[c], nextId}
  <1> USE DEF client
  <1>0. open \in [Conns -> Nat]
    BY DEF TypeOK
  <1>1. ASSUME NEW c \in Conns, NEW doing, Ask(c, doing)
        PROVE  nextId' = nextId + 1 /\ \A d \in Conns : open'[d] \in {open[d], nextId}
    BY <1>0, <1>1 DEF Ask
  <1>2. ASSUME NEW c \in Conns, WaitFor(c) \/ Subscribe(c) \/ ReadSlot(c)
        PROVE  nextId' = nextId + 1 /\ \A d \in Conns : open'[d] \in {open[d], nextId}
    BY <1>1, <1>2 DEF WaitFor, Subscribe, ReadSlot
  <1>3. ASSUME NEW c \in Conns, Unsubscribe(c) \/ Disconnect(c)
        PROVE  nextId' = nextId /\ \A d \in Conns : open'[d] \in {open[d], 0}
    BY <1>0, <1>3 DEF Unsubscribe, Disconnect
  <1>4. ASSUME NEW t \in Threads, Send(t)
        PROVE  nextId' = nextId /\ \A d \in Conns : open'[d] \in {open[d], 0}
    <2>1. nextId' = nextId
      BY <1>4 DEF Send
    <2>2. UNCHANGED open \/ \E c \in Conns : open' = [open EXCEPT ![c] = 0]
      BY <1>4 DEF Send, Deliver
    <2> QED
      BY <1>0, <2>1, <2>2
  <1>5. CASE UNCHANGED <<open, nextId>>
    BY <1>5
  <1>6. ASSUME NEW now \in SUBSET Entries, Mutate(now) PROVE UNCHANGED <<open, nextId>>
    BY <1>6 DEF Mutate
  <1>7. CASE Query \/ Kill \/ Opened \/ PaneOutput
    BY <1>5, <1>7 DEF Query, Kill, Opened, PaneOutput
  <1>8. CASE Observe \/ ParkOrAnswer \/ Enroll \/ Arm \/ ReadSince \/ Drain
    BY <1>5, <1>8 DEF Observe, ParkOrAnswer, Enroll, Arm, ReadSince, Drain
  <1>9. ASSUME NEW a \in Announcers, AnnounceBump(a) \/ AnnounceAppend(a)
        PROVE  UNCHANGED <<open, nextId>>
    BY <1>9 DEF AnnounceBump, AnnounceAppend
  <1>10. ASSUME NEW e \in Elsewhere, ChangeElsewhere(e) PROVE UNCHANGED <<open, nextId>>
    BY <1>10 DEF ChangeElsewhere
  <1>11. CASE UNCHANGED vars
    BY <1>5, <1>11 DEF vars
  <1> QED
    BY <1>2, <1>3, <1>4, <1>5, <1>6, <1>7, <1>8, <1>9, <1>10, <1>11
    DEF Next, Request, Refused, OwnerStep, AnnouncerStep, Threads

\* Every id in use was handed out before.
LEMMA IssuedStep ==
  ASSUME TypeOK, History, Rested, Appending, Dispatching, Issued, [Next]_vars
  PROVE  Issued'
  <1>0. nextId \in Nat \ {0} /\ open \in [Conns -> Nat]
    BY DEF TypeOK
  <1>1. nextId' \in {nextId, nextId + 1} /\ nextId < nextId + 1
    BY <1>0, AskMoves
  <1>2. \A id \in Nat : id < nextId => id < nextId'
    BY <1>0, <1>1
  <1>3. \A c \in Conns : open'[c] < nextId'
    <2> SUFFICES ASSUME NEW c \in Conns PROVE open'[c] < nextId'
      OBVIOUS
    <2>1. open[c] \in Nat /\ open[c] < nextId
      BY <1>0 DEF Issued
    <2>2. CASE nextId' = nextId /\ open'[c] \in {open[c], 0}
      BY <1>0, <2>1, <2>2
    <2>3. CASE nextId' = nextId + 1 /\ open'[c] \in {open[c], nextId}
      BY <1>0, <2>1, <2>3
    <2> QED
      BY <2>2, <2>3, AskMoves
  <1>4. /\ \A w \in parked : w.id \in Nat /\ w.id < nextId
        /\ \A u \in streams : u.id \in Nat /\ u.id < nextId
        /\ \A t \in Threads : \A f \in out[t] : f.id \in Nat /\ f.id < nextId
    BY DEF Issued, TypeOK
  <1>5. pc[Owner] \in {"park", "arm", "read", "enroll"} =>
            open[task.conn] \in Nat /\ open[task.conn] < nextId
    BY <1>0 DEF Dispatching, Issued
  <1>6. \A id : Answering(id) => id \in Nat /\ id < nextId
    BY <1>5 DEF Answering
  <1>7. \A f : Addressed(f) => f.id \in Nat /\ f.id < nextId
    BY <1>4 DEF Addressed
  <1>8. \A w \in parked' : w.id \in Nat /\ w.id < nextId
    BY <1>4, <1>6, IdMoves
  <1>9. \A u \in streams' : u.id \in Nat /\ u.id < nextId
    BY <1>4, <1>5, <1>6, IdMoves
  <1>10. \A t \in Threads : \A f \in out'[t] : f.id \in Nat /\ f.id < nextId
    BY <1>4, <1>6, <1>7, IdMoves
  <1> QED
    BY <1>2, <1>3, <1>8, <1>9, <1>10 DEF Issued

\* Who is waiting for an opening response, before and after a step.
LEMMA OpeningMoves ==
  ASSUME TypeOK, History, Rested, Appending, Dispatching, Opening, [Next]_vars,
         NEW c \in Conns, mode'[c] = "opening"
  PROVE  \/ /\ mode[c] = "opening" /\ open'[c] = open[c] /\ UNCHANGED task
            /\ pc'[Owner] \in {"observe", "write", "enroll", "open"}
         \/ Subscribe(c)
  <1> DEFINE Same == /\ mode[c] = "opening" /\ open'[c] = open[c] /\ UNCHANGED task
                     /\ pc'[Owner] \in {"observe", "write", "enroll", "open"}
  <1> SUFFICES Same \/ Subscribe(c)
    OBVIOUS
  <1>0. /\ pc \in [Threads -> Places] /\ Owner \in Threads /\ Announcers \subseteq Threads
        /\ mode \in [Conns -> {"idle", "waiting", "opening", "reading", "streaming"}]
        /\ open \in [Conns -> Nat] /\ revision \in Nat
    BY DEF TypeOK, Places, Threads
  <1>1. mode[c] = "opening" =>
           /\ task = [kind |-> "subscribe", conn |-> c]
           /\ pc[Owner] \in {"observe", "write", "enroll", "open"}
    BY DEF Opening
  <1>2. ASSUME UNCHANGED <<mode, open, task>>,
               mode[c] = "opening" => pc'[Owner] \in {"observe", "write", "enroll", "open"}
        PROVE  Same
    BY <1>2
  <1>3. ASSUME UNCHANGED <<mode, open, task, pc>> PROVE Same
    BY <1>1, <1>2, <1>3
  <1>4. ASSUME UNCHANGED mode,
               pc[Owner] \in {"idle", "park", "arm", "read", "drain"}
        PROVE  FALSE
    BY <1>1, <1>4
  <1> HIDE DEF Same
  <1>5. CASE Query \/ Kill
    BY <1>4, <1>5 DEF Query, Kill, Take, client
  <1>6. ASSUME NEW now \in SUBSET Entries, Mutate(now) PROVE FALSE
    BY <1>4, <1>6 DEF Mutate, Take, client
  <1>7. ASSUME NEW d \in Conns, WaitFor(d) PROVE FALSE
    <2>1. pc[Owner] = "idle" /\ mode' = [mode EXCEPT ![d] = "waiting"]
      BY <1>7 DEF WaitFor, Take, Ask
    <2> QED
      BY <1>0, <1>1, <2>1
  <1>8. ASSUME NEW d \in Conns, Subscribe(d) PROVE Subscribe(c)
    <2>1. pc[Owner] = "idle" /\ mode' = [mode EXCEPT ![d] = "opening"]
      BY <1>8 DEF Subscribe, Take, Ask
    <2>2. c = d
      BY <1>0, <1>1, <2>1
    <2> QED
      BY <1>8, <2>2
  <1>9. ASSUME NEW d \in Conns, ReadSlot(d) PROVE FALSE
    <2>1. pc[Owner] = "idle" /\ mode' = [mode EXCEPT ![d] = "reading"]
      BY <1>9 DEF ReadSlot, Take, Ask
    <2> QED
      BY <1>0, <1>1, <2>1
  <1>10. ASSUME NEW d \in Conns, Unsubscribe(d) \/ Disconnect(d) PROVE FALSE
    <2>1. pc[Owner] = "idle" /\ mode' = [mode EXCEPT ![d] = "idle"]
      BY <1>10 DEF Unsubscribe, Disconnect
    <2> QED
      BY <1>0, <1>1, <2>1
  <1>11. CASE Observe
    <2>1. PICK events \in Seq(Events) : Land(Owner, revision, events)
      BY <1>11, ObserveLands
    <2>2. PICK frames \in SUBSET Answers : Flush(Owner, frames, After(Owner))
      BY <1>0, <2>1, LandStep DEF History
    <2>3. pc'[Owner] \in {After(Owner), "write"}
      BY <1>0, <2>2, FlushStep, AfterType
    <2>4. UNCHANGED <<mode, open, task>>
      BY <1>11 DEF Observe, client
    <2>5. mode[c] = "opening" => After(Owner) = "enroll"
      BY <1>0, <1>1, AfterType
    <2> QED
      BY <1>2, <2>3, <2>4, <2>5
  <1>12. CASE ParkOrAnswer \/ Arm \/ ReadSince \/ Drain
    BY <1>4, <1>12 DEF ParkOrAnswer, Arm, ReadSince, Drain, client
  <1>13. CASE Enroll
    <2>1. UNCHANGED <<mode, open, task>> /\ pc'[Owner] = "open"
      BY <1>0, <1>13 DEF Enroll, Goto, client
    <2> QED
      BY <1>2, <2>1
  <1>14. ASSUME Opened PROVE FALSE
    <2>1. mode' = [mode EXCEPT ![task.conn] = "streaming"]
      BY <1>14 DEF Opened
    <2> QED
      BY <1>0, <1>1, <2>1
  <1>15. ASSUME NEW t \in Threads, Send(t) PROVE Same
    <2>1. UNCHANGED task /\ pc' = [pc EXCEPT ![t] = IF out'[t] = {} THEN After(t) ELSE "write"]
      BY <1>15 DEF Send, Goto
    <2>2. mode[c] = "opening" => After(Owner) = "enroll"
      BY <1>0, <1>1, AfterType
    <2>3. mode[c] = "opening" => pc'[Owner] \in {"observe", "write", "enroll", "open"}
      BY <1>0, <1>1, <2>1, <2>2
    <2>4. CASE UNCHANGED <<mode, open>>
      BY <1>2, <2>1, <2>3, <2>4
    <2>5. ASSUME NEW d \in Conns,
                 mode' = [mode EXCEPT ![d] = "idle"], open' = [open EXCEPT ![d] = 0]
          PROVE  Same
      BY <1>0, <2>1, <2>3, <2>5 DEF Same
    <2> QED
      BY <1>15, <2>4, <2>5 DEF Send, Deliver
  <1>16. ASSUME NEW a \in Announcers, AnnounceBump(a) \/ AnnounceAppend(a) PROVE Same
    <2>1. UNCHANGED <<mode, open, task>>
      BY <1>16 DEF AnnounceBump, AnnounceAppend, client
    <2>2. pc'[Owner] = pc[Owner]
      BY <1>16, OthersStep
    <2> QED
      BY <1>1, <1>2, <2>1, <2>2
  <1>17. CASE PaneOutput
    BY <1>3, <1>17 DEF PaneOutput, client
  <1>18. ASSUME NEW e \in Elsewhere, ChangeElsewhere(e) PROVE Same
    BY <1>3, <1>18 DEF ChangeElsewhere, client
  <1>19. CASE UNCHANGED vars
    BY <1>3, <1>19 DEF vars, client
  <1> QED
    BY <1>0, <1>5, <1>6, <1>7, <1>8, <1>9, <1>10, <1>11, <1>12, <1>13, <1>14, <1>15, <1>16,
       <1>17, <1>18, <1>19
    DEF Next, Request, Refused, OwnerStep, AnnouncerStep

\* Nothing is answered under the id of a client still waiting for its opening.
LEMMA OpeningStep ==
  ASSUME TypeOK, History, Rested, Appending, Dispatching, Issued, Opening, [Next]_vars
  PROVE  Opening'
  <1> SUFFICES ASSUME NEW c \in Conns, mode'[c] = "opening"
               PROVE  /\ task' = [kind |-> "subscribe", conn |-> c]
                      /\ pc'[Owner] \in {"observe", "write", "enroll", "open"}
                      /\ \A t \in Threads : \A f \in out'[t] : f.id # open'[c]
                      /\ \A w \in parked' : w.id # open'[c]
                      /\ \A s \in streams' : s.armed => s.id # open'[c]
    BY DEF Opening
  <1>1. CASE /\ mode[c] = "opening" /\ open'[c] = open[c] /\ UNCHANGED task
             /\ pc'[Owner] \in {"observe", "write", "enroll", "open"}
    <2>1. /\ task = [kind |-> "subscribe", conn |-> c]
          /\ pc[Owner] \in {"observe", "write", "enroll", "open"}
          /\ \A t \in Threads : \A f \in out[t] : f.id # open[c]
          /\ \A w \in parked : w.id # open[c]
          /\ \A s \in streams : s.armed => s.id # open[c]
      BY <1>1 DEF Opening
    <2>2. \A id : ~Answering(id)
      BY <2>1 DEF Answering
    <2>3. \A f : Addressed(f) => f.id # open[c]
      BY <2>1 DEF Addressed
    <2>4. \A t \in Threads : \A f \in out'[t] : f.id # open[c]
      BY <2>1, <2>2, <2>3, IdMoves
    <2>5. \A w \in parked' : w.id # open[c]
      BY <2>1, <2>2, IdMoves
    <2>6. \A s \in streams' : s.armed => s.id # open[c]
      BY <2>1, <2>2, IdMoves
    <2> QED
      BY <1>1, <2>1, <2>4, <2>5, <2>6
  <1>2. CASE Subscribe(c)
    <2>1. /\ task' = [kind |-> "subscribe", conn |-> c] /\ pc' = [pc EXCEPT ![Owner] = "observe"]
          /\ open' = [open EXCEPT ![c] = nextId] /\ UNCHANGED <<parked, streams, out>>
      BY <1>2 DEF Subscribe, Take, Ask, Goto, channel
    <2>2. pc'[Owner] = "observe" /\ open'[c] = nextId
      BY <2>1 DEF TypeOK, Threads
    <2>3. nextId \in Nat
      BY DEF TypeOK
    <2>4. /\ \A w \in parked : w.id # nextId
          /\ \A s \in streams : s.id # nextId
          /\ \A t \in Threads : \A f \in out[t] : f.id # nextId
      BY <2>3 DEF Issued
    <2> QED
      BY <2>1, <2>2, <2>4
  <1> QED
    BY <1>1, <1>2, OpeningMoves

(***************************************************************************)
(* The theorems.                                                           *)
(***************************************************************************)
\* Rested is NobodyIsOwed, reader by reader.
LEMMA OwedIsRested == NobodyIsOwed <=> Rested
  BY DEF NobodyIsOwed, Rested, Fired, Due

\* The invariant holds of a session that was just created.
LEMMA InitInv == Init => Inv
  <1> SUFFICES ASSUME Init PROVE Inv
    OBVIOUS
  <1> USE DEF Init
  <1>1. Owner \in Threads
    BY DEF Threads
  <1>2. Len(<<>>) = 0 /\ <<>> \in Seq(Rec) /\ 1..0 = {}
    BY EmptySeq
  <1>3. log \in Logs /\ landed \in Seq(Rec) /\ Len(log.records) <= Capacity
    BY <1>2, CapacityAssumption DEF NewLog, Logs
  <1>4. TypeOK
    <2>1. /\ revision \in Nat /\ stamp \in Nat /\ nextId \in Nat \ {0}
      OBVIOUS
    <2>4. /\ entries \subseteq Entries /\ shape \in (SUBSET Entries) \cup {None}
          /\ parked \subseteq Waits /\ streams \subseteq Subs
      OBVIOUS
    <2>5. lock \in Announcers \cup {None} /\ closed \in BOOLEAN
      OBVIOUS
    <2>2. /\ pc \in [Threads -> Places] /\ out \in [Threads -> SUBSET Answers]
          /\ task \in [kind : {"query", "wait", "subscribe", "read"}, conn : Conns \cup {None}]
      BY DEF Places
    <2>3. /\ mode \in [Conns -> {"idle", "waiting", "opening", "reading", "streaming"}]
          /\ open \in [Conns -> Nat] /\ cursor \in [Conns -> Nat] /\ told \in [Conns -> Nat]
          /\ got \in [Conns -> SUBSET Nat] /\ reread \in [Conns -> Nat]
      OBVIOUS
    <2> QED
      BY <1>3, <2>1, <2>2, <2>3, <2>4, <2>5 DEF TypeOK, Logs, Rec, Waits, Subs, Places, Answers
  <1>5. EndOf(log.records, landed, 0) /\ log.evictedThrough = 0
    BY <1>2 DEF NewLog, EndOf
  <1>6. History
    BY <1>2, <1>3, <1>5 DEF History, IsTail, Ordered, UpTo
  <1>7. Appending
    BY DEF Appending, Threads
  <1>8. NobodyIsOwed
    BY DEF NobodyIsOwed, Fired, Due
  <1>9. Dispatching /\ Closing
    BY <1>1 DEF Dispatching, Closing
  <1>10. Issued
    BY DEF Issued
  <1>11. Opening
    BY DEF Opening
  <1> QED
    BY <1>4, <1>6, <1>7, <1>8, <1>9, <1>10, <1>11 DEF Inv

\* Every step keeps the invariant.
LEMMA InvStep == Inv /\ [Next]_vars => Inv'
  <1> SUFFICES ASSUME Inv, [Next]_vars PROVE Inv'
    OBVIOUS
  <1>1. Rested
    BY OwedIsRested DEF Inv
  <1>2. TypeOK'
    BY <1>1, TypeStep DEF Inv
  <1>3. History' /\ Appending'
    BY <1>1, HistoryStep DEF Inv
  <1>4. Rested'
    BY <1>1, RestedStep DEF Inv
  <1>5. NobodyIsOwed'
    BY <1>4 DEF NobodyIsOwed, Rested, Fired, Due
  <1>6. Dispatching' /\ Closing'
    BY <1>1, DispatchingStep DEF Inv
  <1>7. Issued'
    BY <1>1, IssuedStep DEF Inv
  <1>8. Opening'
    BY <1>1, OpeningStep DEF Inv
  <1> QED
    BY <1>2, <1>3, <1>5, <1>6, <1>7, <1>8 DEF Inv

\* The invariant holds of every reachable state.
THEOREM Invariant == Spec => []Inv
  BY InitInv, InvStep, PTL DEF Spec

\* Every variable keeps the shape its code has, and the ring its bound.
THEOREM TypeCorrect == Spec => []TypeOK
  <1>1. Inv => TypeOK
    BY DEF Inv
  <1> QED
    BY Invariant, <1>1, PTL

\* The assertion in EventLog::record never fires: not for an observation, not
\* for an announcer about to append at its own stamp.
THEOREM NeverFires == Spec => []NeverBackwards
  <1>1. ASSUME Inv, NEW r \in Nat, UpTo(landed, r) PROVE RecordGuard(log, r)
    <2>1. PICK gone \in Nat : EndOf(log.records, landed, gone)
      BY <1>1 DEF Inv, History, IsTail
    <2>2. /\ log.records \in Seq(Rec) /\ landed \in Seq(Rec)
      BY <1>1, LogSound, OwedIsRested DEF Inv, Logs
    <2>3. PICK n \in Nat : n = Len(log.records)
      BY <2>2, LenProperties
    <2>4. log.records # <<>> => n # 0
      BY <2>2, <2>3, EmptySeq
    <2>5. Len(landed) = gone + n
      BY <2>1, <2>3 DEF EndOf
    <2>6. n # 0 => n \in 1..n /\ gone + n \in 1..Len(landed)
      BY <2>5
    <2>7. n # 0 => log.records[n] = landed[gone + n]
      BY <2>1, <2>3, <2>6 DEF EndOf
    <2>8. n # 0 => landed[gone + n].revision <= r /\ landed[gone + n].revision \in Nat
      BY <1>1, <2>2, <2>6, RecElements DEF UpTo
    <2>9. n # 0 => r >= log.records[n].revision
      BY <1>1, <2>7, <2>8
    <2> QED
      BY <2>3, <2>4, <2>9 DEF RecordGuard
  <1>2. Inv => NeverBackwards
    <2> SUFFICES ASSUME Inv PROVE NeverBackwards
      OBVIOUS
    <2>1. revision \in Nat /\ stamp \in Nat /\ UpTo(landed, revision)
      BY DEF Inv, TypeOK, History
    <2>2. \A a \in Announcers : pc[a] = "append" => UpTo(landed, stamp)
      BY DEF Inv, Appending
    <2> QED
      BY <1>1, <2>1, <2>2 DEF NeverBackwards
  <1> QED
    BY Invariant, <1>2, PTL

\* `lost` says exactly that a record above the cursor was evicted, also when an
\* eviction splits a group: what is gone is ordered, so its last one decides.
THEOREM LostExact == Spec => []LostIsExact
  <1>1. Inv => LostIsExact
    <2> SUFFICES ASSUME Inv, NEW from \in 0..revision
                 PROVE  Since(log, from).lost <=>
                           \E n \in 1..(Len(landed) - Len(log.records)) :
                               landed[n].revision > from
      BY DEF LostIsExact
    <2>1. revision \in Nat
      BY DEF Inv, TypeOK
    <2>2. PICK gone \in Nat :
             /\ EndOf(log.records, landed, gone)
             /\ log.evictedThrough = IF gone = 0 THEN 0 ELSE landed[gone].revision
      BY DEF Inv, History, IsTail
    <2>3. landed \in Seq(Rec) /\ log.records \in Seq(Rec)
      BY LogSound DEF Inv, Logs
    <2>4. Len(landed) \in Nat /\ Len(log.records) \in Nat
          /\ \A n \in 1..Len(landed) : landed[n].revision \in Nat
      BY <2>3, RecElements
    <2>5. Len(landed) = gone + Len(log.records)
      BY <2>2 DEF EndOf
    <2>6. Len(landed) - Len(log.records) = gone /\ gone <= Len(landed)
      BY <2>4, <2>5
    <2>7. Since(log, from).lost <=> from < log.evictedThrough
      BY DEF Since
    <2>8. CASE gone = 0
      <3>1. log.evictedThrough = 0
        BY <2>2, <2>8
      <3> QED
        BY <2>1, <2>6, <2>7, <2>8, <3>1
    <2>9. CASE gone # 0
      <3>1. gone \in 1..gone /\ gone \in 1..Len(landed) /\ 1..gone \subseteq 1..Len(landed)
        BY <2>4, <2>6, <2>9
      <3>2. \A n \in 1..gone : landed[n].revision <= landed[gone].revision
        BY <3>1 DEF Inv, History, Ordered
      <3>3. Since(log, from).lost <=> from < landed[gone].revision
        BY <2>2, <2>7, <2>9
      <3>4. (\E n \in 1..gone : landed[n].revision > from) <=> from < landed[gone].revision
        BY <2>1, <2>4, <3>1, <3>2
      <3> QED
        BY <2>6, <3>3, <3>4
    <2> QED
      BY <2>8, <2>9
  <1> QED
    BY Invariant, <1>1, PTL

\* No parked wait and no armed stream has a batch coming to it between steps.
THEOREM NobodyLeftBehind == Spec => []NobodyIsOwed
  <1>1. Inv => NobodyIsOwed
    BY DEF Inv
  <1> QED
    BY Invariant, <1>1, PTL

\* No frame is collected for a subscription before its opening response is out.
THEOREM OpeningFirst == Spec => []NotifiedAfterOpening
  <1>1. Inv => NotifiedAfterOpening
    BY DEF Inv, Opening, NotifiedAfterOpening, Mine
  <1> QED
    BY Invariant, <1>1, PTL

\* A killed session keeps no wait and no subscription, whoever still appends.
THEOREM KillReleases == Spec => []KillReleasesAll
  <1>1. Inv => KillReleasesAll
    BY DEF Inv, Closing, KillReleasesAll
  <1> QED
    BY Invariant, <1>1, PTL
=============================================================================

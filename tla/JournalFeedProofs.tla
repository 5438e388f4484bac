-------------------------- MODULE JournalFeedProofs --------------------------
(***************************************************************************)
(* That JournalChannel implements EventFeed, for any clients, capacity and *)
(* filters.                                                                *)
(*                                                                         *)
(* The argument follows a request by its id: it is at hand in the owner,   *)
(* parked, enrolled, or answered by one frame on its way, never two of     *)
(* them (Single), and whatever holds it is where its client's cursor is    *)
(* (Follows).  So a frame holds nothing its client was handed before, and  *)
(* no hypothesis is needed but that one thread writes a subscription's     *)
(* frames (OneWriter).                                                     *)
(*                                                                         *)
(* That a frame leaves nothing OUT needs more: whatever lands must land    *)
(* above every cursor there is (Fresh).  An announcement always does, as   *)
(* announce holds the lock across its bump.  An observation records at the *)
(* revision it finds, and an announcer, or a change that bumps nothing,    *)
(* may have let a reader up to that revision before it; JournalShared is   *)
(* that run.  Apart names the sessions where it cannot happen: there every *)
(* frame is exact, and the channel a feed.                                 *)
(*                                                                         *)
(* A step is first put into one of six kinds, by what it does to the       *)
(* clients and to what is on its way (StepKinds); each invariant is then   *)
(* shown for each kind.                                                    *)
(***************************************************************************)
EXTENDS JournalFeed, JournalChannelProofs

\* What f may hand a reader of the history h that was at `from`: records after
\* that and up to the frame's `next`.
Within(h, from, f) ==
    /\ from <= f.next
    /\ \A n \in f.events :
          n \in 1..Len(h) /\ from < h[n].revision /\ h[n].revision <= f.next

\* All of those it wanted, unless it is told of a hole.
Exact(h, from, wanted, f) ==
    /\ Within(h, from, f)
    /\ f.lost \/ \A n \in 1..Len(h) :
          from < h[n].revision /\ h[n].revision <= f.next /\ h[n].event \in wanted
              => n \in f.events

\* A frame just collected is exact, and its cursor is past all there is.
Full(h, from, wanted, f) ==
    /\ Exact(h, from, wanted, f)
    /\ \A n \in 1..Len(h) : h[n].revision <= f.next
    /\ f.next = from \/ \E n \in 1..Len(h) : f.next = h[n].revision

\* h2 is h with records at one revision after it.
Longer(h, h2, at) ==
    /\ Len(h) <= Len(h2)
    /\ \A n \in 1..Len(h2) : IF n <= Len(h) THEN h2[n] = h[n] ELSE h2[n].revision = at

\* A function on 1..n is a sequence of n.
LEMMA SeqOf ==
  ASSUME NEW S, NEW n \in Nat, NEW s \in [1..n -> S]
  PROVE  s \in Seq(S) /\ Len(s) = n
  <1>1. s \in Seq(S)
    BY SeqDef
  <1>2. Len(s) \in Nat /\ DOMAIN s = 1..Len(s) /\ DOMAIN s = 1..n
    BY <1>1, LenProperties
  <1> QED
    BY <1>1, <1>2

\* The differences of a shape and itself are none.
LEMMA DiffsSame == ASSUME NEW S PROVE Diffs(S, S) \subseteq {<<>>}
  <1> SUFFICES ASSUME NEW events \in Diffs(S, S) PROVE events = <<>>
    OBVIOUS
  <1>1. S \ S = {} /\ Cardinality({}) = 0
    BY FS_EmptySet
  <1>2. PICK pair \in Sorted({}) \X Sorted({}) :
           events = Changes("created", pair[1]) \o Changes("closed", pair[2])
    BY <1>1 DEF Diffs
  <1>3. ASSUME NEW ids \in Sorted({}), NEW kind PROVE Changes(kind, ids) = <<>>
    <2>1. ids \in [1..0 -> {}]
      BY <1>1 DEF Sorted
    <2>2. ids \in Seq({}) /\ Len(ids) = 0
      BY <2>1, SeqDef, LenProperties
    <2> QED
      BY <2>2 DEF Changes
  <1>4. pair[1] \in Sorted({}) /\ pair[2] \in Sorted({})
    OBVIOUS
  <1>5. events = <<>> \o <<>>
    BY <1>2, <1>3, <1>4
  <1> QED
    BY <1>5, ConcatEmptySeq, EmptySeq

\* The records of an answer are the ring's, from the first above the cursor on.
LEMMA SinceRest ==
  ASSUME NEW l, Sound(l), NEW from \in Nat
  PROVE  LET answer == Since(l, from)  k == Read(l, from)
         IN  /\ k \in 0..Len(l.records) /\ Len(answer.records) = Len(l.records) - k
             /\ \A i \in 1..Len(answer.records) : answer.records[i] = l.records[k + i]
             /\ \/ answer.next = from
                \/ /\ Len(l.records) \in 1..Len(l.records)
                   /\ answer.next = l.records[Len(l.records)].revision
             /\ answer.lost <=> from < l.evictedThrough
  <1>1. PICK r \in Seq(Rec) : r = l.records
    BY DEF Sound, Logs
  <1>2. Len(r) \in Nat /\ \A i \in 1..Len(r) : r[i] \in Rec
    BY RecElements
  <1>3. PICK k \in 0..Len(r) : k = Read(l, from)
    BY <1>1, ReadDefined
  <1>4. PICK rest : rest = SubSeq(r, k + 1, Len(r))
    OBVIOUS
  <1>5. /\ Len(rest) = IF k + 1 <= Len(r) THEN Len(r) - (k + 1) + 1 ELSE 0
        /\ \A i \in 1 .. Len(r) - (k + 1) + 1 : rest[i] = r[(k + 1) + i - 1]
    <2>1. \A i \in (k + 1)..Len(r) : r[i] \in Rec
      BY <1>2
    <2>2. k + 1 \in Int /\ Len(r) \in Int
      BY <1>2
    <2> QED
      BY <2>1, <2>2, <1>4, SubSeqProperties
  <1>6. Len(rest) = Len(r) - k
    BY <1>2, <1>5
  <1>7. ASSUME NEW i \in 1..Len(rest) PROVE rest[i] = r[k + i]
    <2>1. i \in 1 .. Len(r) - (k + 1) + 1 /\ (k + 1) + i - 1 = k + i
      BY <1>2, <1>6
    <2> QED
      BY <2>1, <1>5
  <1>8. PICK head : head = IF Len(r) = 0 THEN from ELSE r[Len(r)].revision
    OBVIOUS
  <1>9. Since(l, from) = [records |-> rest, next |-> IF head > from THEN head ELSE from,
                          lost |-> from < l.evictedThrough]
    BY <1>1, <1>3, <1>4, <1>8 DEF Since
  <1>10. Len(r) = 0 \/ Len(r) \in 1..Len(r)
    BY <1>2
  <1>11. PICK answer : answer = Since(l, from)
    OBVIOUS
  <1>12. answer.lost <=> from < l.evictedThrough
    BY <1>11 DEF Since
  <1>13. answer.records = rest /\ answer.next = IF head > from THEN head ELSE from
    BY <1>9, <1>11
  <1>14. answer.next = from \/ (Len(r) \in 1..Len(r) /\ answer.next = r[Len(r)].revision)
    <2>1. answer.next = from \/ answer.next = head
      BY <1>13
    <2>2. head = from \/ (Len(r) \in 1..Len(r) /\ head = r[Len(r)].revision)
      BY <1>8, <1>10
    <2> QED
      BY <2>1, <2>2
  <1> QED
    BY <1>1, <1>3, <1>6, <1>7, <1>11, <1>12, <1>13, <1>14

\* What a reader of a ring that is the tail of a history is handed is exact, and
\* its new cursor is past all of the history.
LEMMA BatchFull ==
  ASSUME NEW h \in Seq(Rec), Ordered(h), NEW l \in Logs, IsTail(l, h),
         NEW from \in Nat, NEW all, NEW wanted, wanted \subseteq all, NEW id
  PROVE  LET f == Frame(id, Batch(l, Len(h), from, all))
         IN  f.id = id /\ Full(h, from, wanted, f)
  <1>1. PICK gone \in Nat :
           /\ EndOf(l.records, h, gone)
           /\ l.evictedThrough = IF gone = 0 THEN 0 ELSE h[gone].revision
    BY DEF IsTail
  <1>2. Sound(l)
    BY TailSound
  <1>3. PICK r \in Seq(Rec) : r = l.records
    BY DEF Logs
  <1>4. PICK m \in Nat : m = Len(r)
    BY LenProperties
  <1>5. Len(h) = gone + m /\ \A i \in 1..m : r[i] = h[gone + i]
    BY <1>1, <1>3, <1>4 DEF EndOf
  <1>6. \A n \in 1..Len(h) : h[n].revision \in Nat
    BY RecElements
  <1>7. PICK answer : answer = Since(l, from)
    OBVIOUS
  <1>8. PICK k : k = Read(l, from)
    OBVIOUS
  <1>9. /\ k \in 0..m /\ Len(answer.records) = m - k
        /\ \A i \in 1..(m - k) : answer.records[i] = r[k + i]
        /\ answer.next = from \/ (m \in 1..m /\ answer.next = r[m].revision)
    <2>1. /\ k \in 0..m /\ Len(answer.records) = m - k
          /\ \A i \in 1..Len(answer.records) : answer.records[i] = r[k + i]
      BY <1>2, <1>3, <1>4, <1>7, <1>8, SinceRest
    <2>2. answer.next = from \/ (m \in 1..m /\ answer.next = r[m].revision)
      BY <1>2, <1>3, <1>4, <1>7, SinceRest
    <2>3. \A i \in 1..(m - k) : answer.records[i] = r[k + i]
      BY <2>1
    <2> QED
      BY <2>1, <2>2, <2>3
  <1>23. answer.lost <=> from < l.evictedThrough
    BY <1>2, <1>7, SinceRest
  <1>10. /\ answer.next \in Nat /\ answer.next >= from /\ l.evictedThrough <= answer.next
         /\ \A i \in 1..m : r[i].revision <= answer.next
    BY <1>2, <1>3, <1>4, <1>7, SinceAnswer
  <1>11. /\ \A i \in 1..k : r[i].revision <= from
         /\ k < m => r[k + 1].revision > from
    BY <1>2, <1>3, <1>4, <1>8, ReadDefined
  <1>12. PICK f : f = Frame(id, Batch(l, Len(h), from, all))
    OBVIOUS
  <1>13. /\ f.id = id /\ f.next = answer.next /\ f.lost = answer.lost
         /\ f.events = {(Len(h) - Len(answer.records)) + i :
                           i \in {j \in 1..Len(answer.records) : answer.records[j].event \in all}}
    BY <1>7, <1>12 DEF Frame, Batch
  <1>14. Len(h) - Len(answer.records) = gone + k
    BY <1>4, <1>5, <1>9
  <1>15. f.events = {(gone + k) + i : i \in {j \in 1..(m - k) : r[k + j].event \in all}}
    <2>1. f.events = {(gone + k) + i :
                           i \in {j \in 1..(m - k) : answer.records[j].event \in all}}
      BY <1>9, <1>13, <1>14
    <2> QED
      BY <2>1, <1>9
  <1>16. ASSUME NEW i \in 1..(m - k)
         PROVE  /\ k + i \in 1..m /\ (gone + k) + i \in 1..Len(h)
                /\ h[(gone + k) + i] = r[k + i] /\ r[k + i].revision > from
    <2>0. m \in Nat /\ gone \in Nat /\ k \in Nat /\ k <= m /\ Len(h) = gone + m
      BY <1>4, <1>5, <1>9
    <2>1. /\ k + i \in 1..m /\ (gone + k) + i \in 1..Len(h) /\ (gone + k) + i = gone + (k + i)
          /\ k < m /\ k + 1 \in 1..m /\ k + 1 <= k + i
          /\ gone + (k + 1) \in 1..Len(h) /\ gone + (k + 1) <= gone + (k + i)
          /\ gone + (k + i) \in 1..Len(h)
      BY <2>0
    <2>2. h[gone + (k + i)] = r[k + i] /\ h[gone + (k + 1)] = r[k + 1]
      BY <2>1, <1>5
    <2>3. r[k + 1].revision <= r[k + i].revision
      BY <2>1, <2>2 DEF Ordered
    <2>4. r[k + 1].revision \in Nat /\ r[k + i].revision \in Nat
      BY <2>1, <2>2, <1>6
    <2>5. r[k + 1].revision > from
      BY <2>1, <1>11
    <2>6. r[k + i].revision > from
      BY <2>3, <2>4, <2>5
    <2> QED
      BY <2>1, <2>2, <2>6
  <1>17. \A n \in 1..Len(h) : h[n].revision <= answer.next
    <2> SUFFICES ASSUME NEW n \in 1..Len(h) PROVE h[n].revision <= answer.next
      OBVIOUS
    <2>1. CASE n <= gone
      <3>1. gone # 0 /\ gone \in 1..Len(h)
        BY <2>1, <1>4, <1>5
      <3>2. h[n].revision <= h[gone].revision /\ l.evictedThrough = h[gone].revision
        BY <3>1, <2>1, <1>1 DEF Ordered
      <3> QED
        BY <3>1, <3>2, <1>6, <1>10
    <2>2. CASE ~(n <= gone)
      <3>1. n - gone \in 1..m /\ gone + (n - gone) = n
        BY <2>2, <1>4, <1>5
      <3> QED
        BY <3>1, <1>5, <1>10
    <2> QED
      BY <2>1, <2>2
  <1>18. ASSUME NEW n \in f.events
         PROVE  n \in 1..Len(h) /\ from < h[n].revision /\ h[n].revision <= f.next
    <2>1. PICK i \in 1..(m - k) : n = (gone + k) + i
      BY <1>15
    <2> QED
      BY <2>1, <1>13, <1>16, <1>17, <1>6
  <1>19. ASSUME ~f.lost, NEW n \in 1..Len(h), from < h[n].revision, h[n].event \in wanted
         PROVE  n \in f.events
    <2>1. ~(n <= gone)
      <3> SUFFICES ASSUME n <= gone PROVE FALSE
        OBVIOUS
      <3>1. gone # 0 /\ gone \in 1..Len(h)
        BY <1>4, <1>5
      <3>2. h[n].revision <= h[gone].revision /\ l.evictedThrough = h[gone].revision
        BY <3>1, <1>1 DEF Ordered
      <3>3. ~(from < h[gone].revision)
        BY <3>2, <1>23, <1>13, <1>19
      <3> QED
        BY <3>1, <3>2, <3>3, <1>6, <1>19
    <2>2. PICK j \in 1..m : n = gone + j
      <3>1. n - gone \in 1..m /\ gone + (n - gone) = n
        BY <2>1, <1>4, <1>5
      <3> QED
        BY <3>1
    <2>3. h[n] = r[j]
      BY <2>2, <1>5
    <2>4. ~(j <= k)
      <3>1. j <= k => j \in 1..k
        BY <1>9
      <3>2. h[n].revision \in Nat
        BY <1>6
      <3> QED
        BY <3>1, <3>2, <2>3, <1>11, <1>19
    <2>5. PICK i \in 1..(m - k) : j = k + i
      <3>1. j - k \in 1..(m - k) /\ k + (j - k) = j
        BY <2>4, <1>4, <1>9
      <3> QED
        BY <3>1
    <2>6. r[k + i].event \in all
      BY <2>3, <2>5, <1>19
    <2>7. (gone + k) + i \in f.events
      BY <2>6, <1>15
    <2>8. (gone + k) + i = n
      BY <2>2, <2>5, <1>9
    <2> QED
      BY <2>7, <2>8
  <1>20. f.next = from \/ \E n \in 1..Len(h) : f.next = h[n].revision
    <2>1. m \in 1..m => gone + m \in 1..Len(h) /\ r[m] = h[gone + m]
      BY <1>5
    <2> QED
      BY <2>1, <1>9, <1>13
  <1>21. from <= f.next
    BY <1>10, <1>13
  <1>22. Exact(h, from, wanted, f)
    BY <1>18, <1>19, <1>21 DEF Exact, Within
  <1> QED
    BY <1>12, <1>13, <1>17, <1>20, <1>22 DEF Full

\* A frame in flight stays exact while what was wanted of the history grows above
\* its cursor.
LEMMA ExactKept ==
  ASSUME NEW h \in Seq(Rec), NEW h2 \in Seq(Rec), NEW at \in Nat, Longer(h, h2, at),
         NEW from \in Nat, NEW wanted, NEW f \in Answers, Exact(h, from, wanted, f),
         \A n \in 1..Len(h2) \ 1..Len(h) : h2[n].event \in wanted => f.next < at
  PROVE  Exact(h2, from, wanted, f)
  <1>1. Len(h) \in Nat /\ Len(h2) \in Nat /\ f.next \in Nat
    BY LenProperties DEF Answers
  <1>2. \A n \in 1..Len(h) : n \in 1..Len(h2) /\ h2[n] = h[n]
    BY <1>1 DEF Longer
  <1>3. ASSUME NEW n \in 1..Len(h2), n \notin 1..Len(h)
        PROVE  h2[n].revision = at
    <2>1. ~(n <= Len(h))
      BY <1>1, <1>3
    <2> QED
      BY <1>1, <2>1 DEF Longer
  <1>4. \A n \in 1..Len(h2) :
           h2[n].revision <= f.next /\ h2[n].event \in wanted => n \in 1..Len(h)
    BY <1>1, <1>3
  <1>5. Within(h2, from, f)
    BY <1>2 DEF Exact, Within
  <1>6. f.lost \/ \A n \in 1..Len(h2) :
           from < h2[n].revision /\ h2[n].revision <= f.next /\ h2[n].event \in wanted
               => n \in f.events
    BY <1>2, <1>4 DEF Exact
  <1> QED
    BY <1>5, <1>6 DEF Exact

\* A frame just collected is exact for whatever part of it is asked about.
LEMMA FullExact ==
  ASSUME NEW h, NEW from, NEW wanted, NEW some \in SUBSET wanted, NEW f, Full(h, from, wanted, f)
  PROVE  Exact(h, from, some, f) /\ \A n \in 1..Len(h) : h[n].revision <= f.next
  BY DEF Full, Exact

\* What a frame holds stays in the history.
LEMMA WithinKept ==
  ASSUME NEW h \in Seq(Rec), NEW h2 \in Seq(Rec), NEW at, Longer(h, h2, at),
         NEW from, NEW f, Within(h, from, f)
  PROVE  Within(h2, from, f)
  <1>1. Len(h) \in Nat /\ Len(h2) \in Nat
    BY LenProperties
  <1>2. \A n \in 1..Len(h) : n \in 1..Len(h2) /\ h2[n] = h[n]
    BY <1>1 DEF Longer
  <1> QED
    BY <1>2 DEF Within
(***************************************************************************)
(* The sessions the results are about.                                     *)
(***************************************************************************)
\* The frames of a subscription are written by one thread, the owner.
OneWriter == Announcers = {} \/ Subscribers = {}

\* Only the owner appends, and nothing changes without a bump of this session.
OwnerAlone == Announcers = {} /\ Elsewhere = {}

\* Only announcers append, to clients that wait one answer at a time.
NobodyStreams == Entries = {} /\ Subscribers = {}

\* The appends of observations and those of announcers do not meet.
Apart == OwnerAlone \/ NobodyStreams

\* What such a session owes its clients: everything; and what any other owes those
\* that wait: the announcements, which always land above every cursor.
Sure == IF Apart THEN Events ELSE {e \in Events : e.kind = "announced"}

Sought(c) == Filter[c] \cap Sure

(***************************************************************************)
(* The invariants.                                                         *)
(***************************************************************************)

\* Every cursor there is, and all that landed, is below r.
Under(r) ==
    /\ \A n \in 1..Len(landed) : landed[n].revision < r
    /\ \A c \in Conns : cursor[c] < r
    /\ \A w \in parked : w.cursor < r
    /\ \A s \in streams : s.cursor < r
    /\ \A t \in Threads : \A f \in out[t] : f.next < r

\* So is what every client was woken at, but the one whose read is next.
ToldUnder(r) ==
    \A c \in Conns : told[c] < r \/ (pc[Owner] = "read" /\ task.conn = c)

\* What is owed and may land lands above every cursor there is.
Fresh ==
    /\ \A n \in 1..Len(landed) : landed[n].revision > 0
    /\ revision > 0 /\ Under(revision + 1)
    /\ \A c \in Conns : told[c] <= revision
    /\ \A a \in Announcers :
          pc[a] = "append" => stamp > 0 /\ Under(stamp) /\ ToldUnder(stamp)
    /\ Apart /\ shape \notin {None, entries} =>
          pc[Owner] = "observe" /\ Under(revision) /\ ToldUnder(revision)

\* What the owner's place says of the request it took and of its client.
Busy ==
    /\ task.kind = "wait" => pc[Owner] \in {"observe", "write", "park"}
    /\ task.kind = "subscribe" =>
          pc[Owner] \in {"observe", "write", "enroll", "open", "arm"}
    /\ task.kind = "subscribe" /\ pc[Owner] # "arm" => mode[task.conn] = "opening"
    /\ pc[Owner] = "read" => mode[task.conn] = "reading"
    /\ Subscribers = {} => streams = {} /\ task.kind # "subscribe"

\* The owner still holds the request with this id: nothing is parked, enrolled
\* or collected for it yet.
AtHand(id) ==
    /\ \/ task.kind = "wait"
       \/ task.kind = "read" /\ pc[Owner] = "read"
       \/ task.kind = "subscribe" /\ pc[Owner] \notin {"open", "arm"}
    /\ id = open[task.conn]

\* An id is in one place: at hand, parked, enrolled or on its way.
Single ==
    /\ ~AtHand(0)
    /\ \A c, d \in Conns : open[c] = open[d] => c = d \/ open[c] = 0
    /\ \A w \in parked : w.id # 0 /\ ~AtHand(w.id)
    /\ \A s \in streams : s.id # 0 /\ ~AtHand(s.id)
    /\ \A t \in Threads : \A f \in out[t] : f.id # 0 /\ ~AtHand(f.id)
    /\ \A w, v \in parked : w.id = v.id => w = v
    /\ \A s, u \in streams : s.id = u.id => s = u
    /\ \A w \in parked : \A s \in streams : w.id # s.id
    /\ \A w \in parked : \A t \in Threads : \A f \in out[t] : w.id # f.id
    /\ \A s \in streams : \A t \in Threads : \A f \in out[t] : s.id = f.id =>
          t = Owner /\ pc[Owner] = "write" /\ s.cursor = f.next
    /\ \A t, u \in Threads : \A f \in out[t] : \A g \in out[u] :
          f.id = g.id => t = u /\ f = g

\* What is on its way to c is exact, and completes the read it was woken for.
Honest(c, f) ==
    /\ Exact(landed, cursor[c], Sought(c), f)
    /\ mode[c] = "reading" => \A n \in 1..Len(landed) :
          landed[n].revision <= told[c] /\ landed[n].event \in Sought(c)
              => landed[n].revision <= f.next

\* What c was handed landed, and is behind its cursor.
Kept(c) == \A n \in got[c] : n \in 1..Len(landed) /\ landed[n].revision <= cursor[c]

\* A wait is c's, and starts at its cursor.
Waiting(c) == \A w \in parked : w.id = open[c] => w.conn = c /\ w.cursor = cursor[c]

\* A stream is c's, and starts at its cursor or at that of the frame on its way.
Streaming(c) ==
    \A s \in streams : s.id = open[c] =>
        s.conn = c /\ (s.cursor = cursor[c] \/ \E f \in out[Owner] : f.id = s.id)

\* What is on its way to c is after its cursor.
Fitting(c) ==
    \A t \in Threads : \A f \in out[t] : f.id = open[c] => Within(landed, cursor[c], f)

\* What is on its way to c is all it is owed next.
Coming(c) == \A t \in Threads : \A f \in out[t] : f.id = open[c] => Honest(c, f)

\* c has all it is owed up to its cursor, or re-read it.
Whole(c) ==
    \A n \in 1..Len(landed) :
        landed[n].revision <= cursor[c] /\ landed[n].event \in Sought(c)
            => n \in got[c] \/ n <= reread[c]

\* c has all it is owed up to where it was woken, or is about to read it.
Woken(c) ==
    mode[c] # "reading" =>
        \A n \in 1..Len(landed) :
            landed[n].revision <= told[c] /\ landed[n].event \in Sought(c)
                => n \in got[c] \/ n <= reread[c]

\* Nobody is handed what is not next for it.
Follows == \A c \in Conns : Kept(c) /\ Waiting(c) /\ Streaming(c) /\ Fitting(c)

\* Nobody is left with less than it is owed.
Feeds == \A c \in Conns : Coming(c) /\ Whole(c) /\ Woken(c)

\* The part of TypeOK the steps' lemmas use.
Typed ==
    /\ landed \in Seq(Rec) /\ log \in Logs
    /\ parked \in SUBSET Waits /\ streams \in SUBSET Subs
    /\ out \in [Threads -> SUBSET Answers]
    /\ mode \in [Conns -> {"idle", "waiting", "opening", "reading", "streaming"}]
    /\ open \in [Conns -> Nat] /\ cursor \in [Conns -> Nat] /\ told \in [Conns -> Nat]
    /\ got \in [Conns -> SUBSET Nat] /\ reread \in [Conns -> Nat]
    /\ pc \in [Threads -> Places]
    /\ Owner \in Threads /\ Announcers \subseteq Threads

(***************************************************************************)
(* What a step does to what is on its way.                                 *)
(***************************************************************************)
\* The request at hand, as a reader.
Asker == [id |-> open[task.conn], conn |-> task.conn, cursor |-> cursor[task.conn]]

\* The step takes the request at hand.
Handed ==
    /\ AtHand(open[task.conn]) /\ task.conn \in Conns
    /\ \A id : ~AtHand(id)'

\* A pass of thread t collects the frames F, and moves the streams by G.
Passed(t, F, G) ==
    /\ \A u \in Threads : \A f \in out'[u] : f \in out[u] \/ (u = t /\ f \in F)
    /\ \A f, g \in F : f.id = g.id => f = g
    /\ \A f \in F :
          /\ \A u \in Threads : \A g \in out[u] : g.id # f.id
          /\ \A w \in parked' : w.id # f.id
          /\ \/ \E r \in parked \cup streams :
                   f.id = r.id /\ Full(landed', r.cursor, Filter[r.conn], f)
             \/ /\ Handed /\ f.id = Asker.id
                /\ Full(landed', Asker.cursor, Filter[Asker.conn], f)
    /\ \A w \in parked' : w \in parked \/ (Handed /\ w = Asker)
    /\ \A s \in streams' : \E u \in streams :
          /\ s = G[u] /\ s.id = u.id /\ s.conn = u.conn
          /\ \/ s.cursor = u.cursor /\ \A f \in F : f.id # s.id
             \/ /\ t = Owner /\ pc'[Owner] = "write"
                /\ \E f \in F : f \in out'[Owner] /\ f.id = s.id /\ s.cursor = f.next

\* What a step may do to the history: add at one revision after all there is, or
\* nothing.
Grown(at) == landed' \in Seq(Rec) /\ Longer(landed, landed', at)

\* What it adds.
Added == {landed'[n].event : n \in 1..Len(landed') \ 1..Len(landed)}

\* What it adds is above every cursor, or owed to nobody.
Above(at) ==
    \/ Len(landed') = Len(landed)
    \/ Under(at) /\ ToldUnder(at)
    \/ Added \cap Sure = {}

\* A pass keeps every id in one place.
LEMMA PassSingle ==
  ASSUME Typed, Single, NEW t \in Threads, NEW F, NEW G, Passed(t, F, G),
         pc[Owner] # "write" \/ streams = {},
         UNCHANGED open, \A id : AtHand(id)' => AtHand(id)
  PROVE  Single'
  <1> DEFINE Old(id) == \/ \E w \in parked : w.id = id
                        \/ \E s \in streams : s.id = id
                        \/ \E u \in Threads : \E f \in out[u] : f.id = id
  <1>1. \A id : Old(id) => id # 0 /\ ~AtHand(id)
    BY DEF Single
  <1>2. Handed => Asker.id # 0 /\ AtHand(Asker.id) /\ \A id : ~AtHand(id)'
    BY DEF Handed, Single, Asker
  <1>3. \A f \in F : Old(f.id) \/ (Handed /\ f.id = Asker.id)
    BY DEF Passed
  <1>4. \A w \in parked' : w \in parked \/ (Handed /\ w = Asker)
    BY DEF Passed
  <1>5. \A s \in streams' : \E u \in streams : s = G[u] /\ s.id = u.id
    BY DEF Passed
  <1>6. \A u \in Threads : \A f \in out'[u] : f \in out[u] \/ (u = t /\ f \in F)
    BY DEF Passed
  <1>7. \A w \in parked' : w.id # 0 /\ ~AtHand(w.id)'
    BY <1>1, <1>2, <1>4
  <1>8. \A s \in streams' : s.id # 0 /\ ~AtHand(s.id)'
    BY <1>1, <1>5
  <1>9. \A u \in Threads : \A f \in out'[u] : f.id # 0 /\ ~AtHand(f.id)'
    BY <1>1, <1>2, <1>3, <1>6
  <1>10. \A w, v \in parked' : w.id = v.id => w = v
    BY <1>1, <1>2, <1>4 DEF Single
  <1>11. \A s, u \in streams' : s.id = u.id => s = u
    BY <1>5 DEF Single
  <1>12. \A w \in parked' : \A s \in streams' : w.id # s.id
    <2> SUFFICES ASSUME NEW w \in parked', NEW s \in streams', w.id = s.id PROVE FALSE
      OBVIOUS
    <2>1. Old(s.id) /\ \E u \in streams : u.id = w.id
      BY <1>5
    <2>2. CASE w \in parked
      BY <2>1, <2>2 DEF Single
    <2>3. CASE Handed /\ w = Asker
      BY <1>1, <1>2, <2>1, <2>3
    <2> QED
      BY <1>4, <2>2, <2>3
  <1>13. \A w \in parked' : \A u \in Threads : \A f \in out'[u] : w.id # f.id
    <2> SUFFICES ASSUME NEW w \in parked', NEW u \in Threads, NEW f \in out'[u], w.id = f.id
                 PROVE  FALSE
      OBVIOUS
    <2>1. f \in out[u]
      BY <1>6 DEF Passed
    <2>2. CASE w \in parked
      BY <2>1, <2>2 DEF Single
    <2>3. CASE Handed /\ w = Asker
      BY <1>1, <1>2, <2>1, <2>3
    <2> QED
      BY <1>4, <2>2, <2>3
  <1>14. ASSUME NEW s \in streams', NEW v \in Threads, NEW f \in out'[v], s.id = f.id
         PROVE  v = Owner /\ pc'[Owner] = "write" /\ s.cursor = f.next
    <2>1. \E u \in streams : s.id = u.id
      BY <1>5
    <2>2. f \notin out[v]
      <3>1. ASSUME f \in out[v] PROVE pc[Owner] = "write"
        BY <1>14, <2>1, <3>1 DEF Single
      <3> QED
        BY <2>1, <3>1
    <2>3. v = t /\ f \in F
      BY <1>6, <2>2
    <2>4. /\ t = Owner /\ pc'[Owner] = "write"
          /\ \E g \in F : g.id = s.id /\ s.cursor = g.next
      BY <1>14, <2>3 DEF Passed
    <2> QED
      BY <1>14, <2>3, <2>4 DEF Passed
  <1>15. ASSUME NEW u \in Threads, NEW v \in Threads, NEW f \in out'[u], NEW g \in out'[v],
                f.id = g.id
         PROVE  u = v /\ f = g
    <2>1. CASE f \in out[u] /\ g \in out[v]
      BY <1>15, <2>1 DEF Single
    <2>2. CASE f \notin out[u]
      <3>1. u = t /\ f \in F
        BY <1>6, <2>2
      <3>2. g \notin out[v]
        BY <1>15, <3>1 DEF Passed
      <3>3. v = t /\ g \in F
        BY <1>6, <3>2
      <3> QED
        BY <1>15, <3>1, <3>3 DEF Passed
    <2>3. CASE g \notin out[v]
      <3>1. v = t /\ g \in F
        BY <1>6, <2>3
      <3>2. f \notin out[u]
        BY <1>15, <3>1 DEF Passed
      <3>3. u = t /\ f \in F
        BY <1>6, <3>2
      <3> QED
        BY <1>15, <3>1, <3>3 DEF Passed
    <2> QED
      BY <2>1, <2>2, <2>3
  <1>16. \A c, d \in Conns : open'[c] = open'[d] => c = d \/ open'[c] = 0
    BY DEF Single
  <1>17. ~AtHand(0)'
    BY DEF Single
  <1> QED
    BY <1>7, <1>8, <1>9, <1>10, <1>11, <1>12, <1>13, <1>14, <1>15, <1>16, <1>17 DEF Single
\* A stream of c's is at its client's place, unless the owner is writing to it.
LEMMA StreamRests ==
  ASSUME Typed, Single, NEW c \in Conns, Streaming(c), pc[Owner] # "write" \/ streams = {},
         NEW s \in streams, s.id = open[c]
  PROVE  s.conn = c /\ s.cursor = cursor[c]
  <1>1. ~\E f \in out[Owner] : f.id = s.id
    BY DEF Single, Typed
  <1> QED
    BY <1>1 DEF Streaming

\* What a pass collects for c is all there is for c.
LEMMA PassFull ==
  ASSUME Typed, Single, Follows, NEW t \in Threads, NEW F \in SUBSET Answers, NEW G,
         Passed(t, F, G), pc[Owner] # "write" \/ streams = {},
         NEW c \in Conns, NEW f \in F, f.id = open[c]
  PROVE  Full(landed', cursor[c], Filter[c], f)
  <1>1. Waiting(c) /\ Streaming(c)
    BY DEF Follows
  <1>2. Handed /\ Asker.id = open[c] => Asker.conn = c /\ Asker.cursor = cursor[c]
    BY DEF Handed, Asker, Single
  <1>3. CASE Handed /\ f.id = Asker.id /\ Full(landed', Asker.cursor, Filter[Asker.conn], f)
    BY <1>2, <1>3
  <1>4. ASSUME NEW r \in parked, f.id = r.id, Full(landed', r.cursor, Filter[r.conn], f)
        PROVE  Full(landed', cursor[c], Filter[c], f)
    BY <1>1, <1>4 DEF Waiting
  <1>5. ASSUME NEW r \in streams, f.id = r.id, Full(landed', r.cursor, Filter[r.conn], f)
        PROVE  Full(landed', cursor[c], Filter[c], f)
    BY <1>1, <1>5, StreamRests
  <1> QED
    BY <1>3, <1>4, <1>5 DEF Passed

\* A pass hands every client what is next for it.
LEMMA PassFollows ==
  ASSUME Typed, Single, Follows, NEW t \in Threads, NEW F \in SUBSET Answers, NEW G,
         Passed(t, F, G), pc[Owner] # "write" \/ streams = {},
         NEW at \in Nat, Grown(at), UNCHANGED <<open, cursor, got>>
  PROVE  Follows'
  <1> SUFFICES ASSUME NEW c \in Conns PROVE (Kept(c) /\ Waiting(c) /\ Streaming(c) /\ Fitting(c))'
    BY DEF Follows
  <1>1. PICK h \in Seq(Rec) : h = landed
    BY DEF Typed
  <1>2. PICK h2 \in Seq(Rec) : h2 = landed'
    BY DEF Grown
  <1>3. Len(h) \in Nat /\ Len(h2) \in Nat
    BY LenProperties
  <1>4. Longer(h, h2, at)
    BY <1>1, <1>2 DEF Grown
  <1>5. \A n \in 1..Len(h) : n \in 1..Len(h2) /\ h2[n] = h[n]
    BY <1>3, <1>4 DEF Longer
  <1>6. cursor'[c] = cursor[c] /\ open'[c] = open[c] /\ got'[c] = got[c]
    OBVIOUS
  <1>7. Kept(c) /\ Waiting(c) /\ Streaming(c) /\ Fitting(c)
    BY DEF Follows
  <1>8. Handed /\ Asker.id = open[c] => Asker.conn = c /\ Asker.cursor = cursor[c]
    BY DEF Handed, Asker, Single
  <1>9. ASSUME NEW s \in streams, s.id = open[c] PROVE s.conn = c /\ s.cursor = cursor[c]
    BY <1>7, <1>9, StreamRests
  <1>10. Kept(c)'
    BY <1>1, <1>2, <1>5, <1>6, <1>7 DEF Kept
  <1>11. Waiting(c)'
    <2> SUFFICES ASSUME NEW w \in parked', w.id = open[c]
                 PROVE  w.conn = c /\ w.cursor = cursor[c]
      BY <1>6 DEF Waiting
    <2>1. w \in parked \/ (Handed /\ w = Asker)
      BY DEF Passed
    <2> QED
      BY <2>1, <1>7, <1>8 DEF Waiting
  <1>12. Streaming(c)'
    <2> SUFFICES ASSUME NEW s \in streams', s.id = open[c]
                 PROVE  s.conn = c /\ (s.cursor = cursor[c] \/ \E f \in out'[Owner] : f.id = s.id)
      BY <1>6 DEF Streaming
    <2>1. PICK u \in streams :
             /\ s.id = u.id /\ s.conn = u.conn
             /\ s.cursor = u.cursor \/ \E f \in F : f \in out'[Owner] /\ f.id = s.id
      BY DEF Passed
    <2> QED
      BY <2>1, <1>9
  <1>13. Fitting(c)'
    <2> SUFFICES ASSUME NEW u \in Threads, NEW f \in out'[u], f.id = open[c]
                 PROVE  Within(h2, cursor[c], f)
      BY <1>2, <1>6 DEF Fitting
    <2>1. CASE f \in out[u]
      <3>1. Within(h, cursor[c], f)
        BY <1>1, <1>7, <2>1 DEF Fitting
      <3> QED
        BY <1>4, <3>1, WithinKept
    <2>2. CASE f \notin out[u]
      <3>1. f \in F
        BY <2>2 DEF Passed
      <3>2. Full(h2, cursor[c], Filter[c], f)
        BY <1>2, <1>7, <3>1, PassFull
      <3> QED
        BY <3>2 DEF Full, Exact
    <2> QED
      BY <2>1, <2>2
  <1> QED
    BY <1>10, <1>11, <1>12, <1>13

\* Who is answered in a pass is answered in full.
LEMMA PassFeeds ==
  ASSUME Typed, Single, Follows, Feeds, Dispatching, Busy,
         NEW t \in Threads, NEW F \in SUBSET Answers, NEW G, Passed(t, F, G),
         pc[Owner] # "write" \/ streams = {},
         NEW at \in Nat, Grown(at), Above(at),
         UNCHANGED <<open, cursor, told, got, reread>>,
         \A c \in Conns : mode'[c] = "reading" <=> mode[c] = "reading"
  PROVE  Feeds'
  <1> SUFFICES ASSUME NEW c \in Conns PROVE Coming(c)' /\ Whole(c)' /\ Woken(c)'
    BY DEF Feeds
  <1>1. PICK h \in Seq(Rec) : h = landed
    BY DEF Typed
  <1>2. PICK h2 \in Seq(Rec) : h2 = landed'
    BY DEF Grown
  <1>3. /\ Len(h) \in Nat /\ Len(h2) \in Nat
        /\ \A n \in 1..Len(h) : h[n].revision \in Nat
        /\ \A n \in 1..Len(h2) : h2[n].revision \in Nat
    BY RecElements
  <1>4. Longer(h, h2, at)
    BY <1>1, <1>2 DEF Grown
  <1>5. \A n \in 1..Len(h) : n \in 1..Len(h2) /\ h2[n] = h[n]
    BY <1>3, <1>4 DEF Longer
  <1>6. ASSUME NEW n \in 1..Len(h2), n \notin 1..Len(h), h2[n].event \in Sought(c)
        PROVE  h2[n].revision = at /\ Under(at) /\ ToldUnder(at)
    <2>1. ~(n <= Len(h)) /\ Len(h2) # Len(h)
      BY <1>3, <1>6
    <2>2. h2[n].event \in Added \cap Sure
      BY <1>1, <1>2, <1>6 DEF Added, Sought
    <2>3. Under(at) /\ ToldUnder(at)
      BY <1>1, <1>2, <2>1, <2>2 DEF Above
    <2> QED
      BY <1>3, <1>4, <2>1, <2>3 DEF Longer
  <1>7. /\ cursor[c] \in Nat /\ told[c] \in Nat
        /\ cursor'[c] = cursor[c] /\ told'[c] = told[c] /\ open'[c] = open[c]
        /\ got'[c] = got[c] /\ reread'[c] = reread[c]
        /\ mode'[c] = "reading" <=> mode[c] = "reading"
    BY DEF Typed
  <1>8. Coming(c) /\ Whole(c) /\ Woken(c)
    BY DEF Feeds
  <1>9. Coming(c)'
    <2> SUFFICES ASSUME NEW u \in Threads, NEW f \in out'[u], f.id = open[c]
                 PROVE  /\ Exact(h2, cursor[c], Sought(c), f)
                        /\ mode[c] = "reading" => \A n \in 1..Len(h2) :
                              h2[n].revision <= told[c] /\ h2[n].event \in Sought(c)
                                  => h2[n].revision <= f.next
      BY <1>2, <1>7 DEF Coming, Honest
    <2>1. CASE f \in out[u]
      <3>1. f \in Answers /\ f.next \in Nat
        BY <2>1 DEF Typed, Answers
      <3>2. Honest(c, f)
        BY <1>8, <2>1 DEF Coming
      <3>3. Under(at) => f.next < at
        BY <2>1 DEF Under
      <3>4. Exact(h2, cursor[c], Sought(c), f)
        <4>1. Exact(h, cursor[c], Sought(c), f)
          BY <1>1, <3>2 DEF Honest
        <4>2. \A n \in 1..Len(h2) \ 1..Len(h) : h2[n].event \in Sought(c) => f.next < at
          BY <1>6, <3>3
        <4> QED
          BY <1>4, <1>7, <3>1, <4>1, <4>2, ExactKept
      <3>5. ASSUME mode[c] = "reading", NEW n \in 1..Len(h2),
                   h2[n].revision <= told[c], h2[n].event \in Sought(c)
            PROVE  h2[n].revision <= f.next
        <4>1. CASE n \in 1..Len(h)
          BY <1>1, <1>5, <3>2, <3>5, <4>1 DEF Honest
        <4>2. CASE n \notin 1..Len(h)
          <5>1. h2[n].revision = at /\ ToldUnder(at)
            BY <1>6, <3>5, <4>2
          <5>2. told[c] < at \/ (pc[Owner] = "read" /\ task.conn = c)
            BY <5>1 DEF ToldUnder
          <5>3. ~(pc[Owner] = "read" /\ task.conn = c)
            BY <2>1 DEF Dispatching, Single, AtHand
          <5> QED
            BY <1>7, <3>5, <5>1, <5>2, <5>3
        <4> QED
          BY <4>1, <4>2
      <3> QED
        BY <3>4, <3>5
    <2>2. CASE f \notin out[u]
      <3>1. f \in F
        BY <2>2 DEF Passed
      <3>2. Full(h2, cursor[c], Filter[c], f)
        BY <1>2, <3>1, PassFull
      <3> QED
        BY <3>2, FullExact DEF Sought
    <2> QED
      BY <2>1, <2>2
  <1>10. Whole(c)'
    <2> SUFFICES ASSUME NEW n \in 1..Len(h2), h2[n].revision <= cursor[c], h2[n].event \in Sought(c)
                 PROVE  n \in got[c] \/ n <= reread[c]
      BY <1>2, <1>7 DEF Whole
    <2>1. n \in 1..Len(h)
      <3> SUFFICES ASSUME n \notin 1..Len(h) PROVE FALSE
        OBVIOUS
      <3>1. h2[n].revision = at /\ cursor[c] < at
        BY <1>6 DEF Under
      <3> QED
        BY <1>7, <3>1
    <2> QED
      BY <1>1, <1>5, <1>8, <2>1 DEF Whole
  <1>11. Woken(c)'
    <2> SUFFICES ASSUME mode[c] # "reading", NEW n \in 1..Len(h2),
                        h2[n].revision <= told[c], h2[n].event \in Sought(c)
                 PROVE  n \in got[c] \/ n <= reread[c]
      BY <1>2, <1>7 DEF Woken
    <2>1. n \in 1..Len(h)
      <3> SUFFICES ASSUME n \notin 1..Len(h) PROVE FALSE
        OBVIOUS
      <3>1. h2[n].revision = at /\ (told[c] < at \/ (pc[Owner] = "read" /\ task.conn = c))
        BY <1>6 DEF ToldUnder
      <3>2. ~(pc[Owner] = "read" /\ task.conn = c)
        BY DEF Busy
      <3> QED
        BY <1>7, <3>1, <3>2
    <2> QED
      BY <1>1, <1>5, <1>8, <2>1 DEF Woken
  <1> QED
    BY <1>9, <1>10, <1>11

\* A step that moves nobody's place and no id.
Still ==
    /\ UNCHANGED <<parked, streams, out, open, cursor, told, got, reread, landed>>
    /\ \A id : AtHand(id)' => AtHand(id)
    /\ pc[Owner] = "write" => pc'[Owner] = "write"
    /\ \A c \in Conns : mode'[c] = "reading" <=> mode[c] = "reading"

\* It keeps ids in one place, and every client where it was.
LEMMA StillFollows == ASSUME Single, Follows, Still PROVE Single' /\ Follows'
  <1>1. Single'
    BY DEF Still, Single
  <1>2. Follows'
    BY DEF Still, Follows, Kept, Waiting, Streaming, Fitting
  <1> QED
    BY <1>1, <1>2

\* Nobody loses anything by it.
LEMMA StillFeeds == ASSUME Feeds, Still PROVE Feeds'
  BY DEF Still, Feeds, Coming, Honest, Whole, Woken

\* Nothing about the clients other than c changes.
Besides(c) ==
    \A d \in Conns \ {c} :
        /\ open'[d] = open[d] /\ told'[d] = told[d]
        /\ mode'[d] = mode[d] /\ cursor'[d] = cursor[d]
        /\ got'[d] = got[d] /\ reread'[d] = reread[d]

\* Client c sends a request under the next id.
Asked(c) ==
    /\ \A id : AtHand(id)' => id = nextId
    /\ Besides(c) /\ pc[Owner] = "idle" /\ mode[c] = "idle" /\ open'[c] = nextId
    /\ mode'[c] = "reading" \/ told'[c] = told[c]
    /\ cursor'[c] = cursor[c] /\ got'[c] = got[c] /\ reread'[c] = reread[c]
    /\ UNCHANGED <<parked, streams, out, landed>>

\* The next id is nobody's.
LEMMA NextIdFresh ==
  ASSUME Typed, Issued, nextId \in Nat \ {0}
  PROVE  /\ \A w \in parked : w.id # nextId
         /\ \A s \in streams : s.id # nextId
         /\ \A t \in Threads : \A f \in out[t] : f.id # nextId
         /\ \A d \in Conns : open[d] # nextId
  <1>1. /\ \A w \in parked : w.id \in Nat
        /\ \A s \in streams : s.id \in Nat
        /\ \A t \in Threads : \A f \in out[t] : f.id \in Nat
        /\ \A d \in Conns : open[d] \in Nat
    BY DEF Typed, Waits, Subs, Answers
  <1> QED
    BY <1>1 DEF Issued

\* A request is where nothing else is, and its client is handed nothing yet.
LEMMA AskedFollows ==
  ASSUME Typed, Single, Follows, Issued, nextId \in Nat \ {0}, NEW c \in Conns, Asked(c)
  PROVE  Single' /\ Follows'
  <1>1. /\ \A w \in parked : w.id # nextId
        /\ \A s \in streams : s.id # nextId
        /\ \A t \in Threads : \A f \in out[t] : f.id # nextId
        /\ \A d \in Conns : open[d] # nextId
    BY NextIdFresh
  <1>2. Single'
    <2>1. UNCHANGED <<parked, streams, out>> /\ nextId # 0
      BY DEF Asked
    <2>2. \A id : AtHand(id)' => id = nextId
      BY DEF Asked
    <2>3. \A d \in Conns : open'[d] = IF d = c THEN nextId ELSE open[d]
      BY DEF Asked, Besides
    <2>4. \A d, e \in Conns : open'[d] = open'[e] => d = e \/ open'[d] = 0
      BY <1>1, <2>3 DEF Single
    <2>5. \A s \in streams : \A t \in Threads : \A f \in out[t] : s.id # f.id
      BY DEF Single, Asked
    <2>6. /\ \A w \in parked' : w.id # 0 /\ ~AtHand(w.id)'
          /\ \A s \in streams' : s.id # 0 /\ ~AtHand(s.id)'
          /\ \A t \in Threads : \A f \in out'[t] : f.id # 0 /\ ~AtHand(f.id)'
      BY <1>1, <2>1, <2>2 DEF Single
    <2>7. ~AtHand(0)'
      BY <2>1, <2>2
    <2> QED
      BY <2>1, <2>4, <2>5, <2>6, <2>7 DEF Single
  <1>3. ASSUME NEW d \in Conns PROVE (Kept(d) /\ Waiting(d) /\ Streaming(d) /\ Fitting(d))'
    <2>1. Kept(d) /\ Waiting(d) /\ Streaming(d) /\ Fitting(d)
      BY DEF Follows
    <2>2. UNCHANGED <<parked, streams, out, landed>>
      BY DEF Asked
    <2>3. cursor'[d] = cursor[d] /\ got'[d] = got[d]
      BY DEF Asked, Besides
    <2>4. Kept(d)'
      BY <2>1, <2>2, <2>3 DEF Kept
    <2>5. open'[d] = open[d] \/ open'[d] = nextId
      BY DEF Asked, Besides
    <2>6. CASE open'[d] = nextId
      BY <1>1, <2>2, <2>4, <2>6 DEF Waiting, Streaming, Fitting
    <2>7. CASE open'[d] = open[d]
      BY <2>1, <2>2, <2>3, <2>4, <2>7 DEF Waiting, Streaming, Fitting
    <2> QED
      BY <2>5, <2>6, <2>7
  <1> QED
    BY <1>2, <1>3 DEF Follows

\* It loses nothing by asking.
LEMMA AskedFeeds ==
  ASSUME Typed, Feeds, Issued, nextId \in Nat \ {0}, NEW c \in Conns, Asked(c)
  PROVE  Feeds'
  <1> SUFFICES ASSUME NEW d \in Conns PROVE (Coming(d) /\ Whole(d) /\ Woken(d))'
    BY DEF Feeds
  <1>1. Coming(d) /\ Whole(d) /\ Woken(d)
    BY DEF Feeds
  <1>2. UNCHANGED <<parked, streams, out, landed>>
    BY DEF Asked
  <1>3. cursor'[d] = cursor[d] /\ got'[d] = got[d] /\ reread'[d] = reread[d]
    BY DEF Asked, Besides
  <1>4. Whole(d)'
    BY <1>1, <1>2, <1>3 DEF Whole
  <1>5. CASE d = c
    <2>1. open'[d] = nextId /\ mode[d] # "reading" /\ (mode'[d] = "reading" \/ told'[d] = told[d])
      BY <1>5 DEF Asked
    <2>2. Coming(d)'
      BY <1>2, <2>1, NextIdFresh DEF Coming
    <2>3. Woken(d)'
      BY <1>1, <1>2, <1>3, <2>1 DEF Woken
    <2> QED
      BY <1>4, <2>2, <2>3
  <1>6. CASE d # c
    <2>1. open'[d] = open[d] /\ told'[d] = told[d] /\ mode'[d] = mode[d]
      BY <1>6 DEF Asked, Besides
    <2>2. Coming(d)' /\ Woken(d)'
      BY <1>1, <1>2, <1>3, <2>1 DEF Coming, Honest, Woken
    <2> QED
      BY <1>4, <2>2
  <1> QED
    BY <1>5, <1>6

\* Client c gives up what it held.
Left(c) ==
    /\ \A id : ~AtHand(id)'
    /\ Besides(c) /\ pc[Owner] = "idle" /\ open'[c] = 0
    /\ mode'[c] = "idle"
    /\ told'[c] = 0 \/ (told'[c] = told[c] /\ mode[c] # "reading")
    /\ cursor'[c] = cursor[c] /\ got'[c] = got[c] /\ reread'[c] = reread[c]
    /\ parked' \subseteq parked /\ streams' \subseteq streams /\ UNCHANGED <<out, landed>>

\* What it held is nobody's, and nobody else's is touched.
LEMMA LeftFollows ==
  ASSUME Typed, Single, Follows, NEW c \in Conns, Left(c)
  PROVE  Single' /\ Follows'
  <1>1. \A d \in Conns : open'[d] = IF d = c THEN 0 ELSE open[d]
    BY DEF Left, Besides
  <1>2. UNCHANGED <<out, landed>> /\ parked' \subseteq parked /\ streams' \subseteq streams
    BY DEF Left
  <1>3. Single'
    <2>1. \A d, e \in Conns : open'[d] = open'[e] => d = e \/ open'[d] = 0
      BY <1>1 DEF Single
    <2>2. \A id : ~AtHand(id)'
      BY DEF Left
    <2>3. \A s \in streams : \A t \in Threads : \A f \in out[t] : s.id # f.id
      BY DEF Single, Left
    <2> QED
      BY <1>2, <2>1, <2>2, <2>3 DEF Single
  <1>4. ASSUME NEW d \in Conns PROVE (Kept(d) /\ Waiting(d) /\ Streaming(d) /\ Fitting(d))'
    <2>1. Kept(d) /\ Waiting(d) /\ Streaming(d) /\ Fitting(d)
      BY DEF Follows
    <2>2. cursor'[d] = cursor[d] /\ got'[d] = got[d]
      BY DEF Left, Besides
    <2>3. Kept(d)'
      BY <1>2, <2>1, <2>2 DEF Kept
    <2>4. CASE open'[d] = 0
      BY <1>2, <2>3, <2>4 DEF Waiting, Streaming, Fitting, Single
    <2>5. CASE open'[d] = open[d]
      BY <1>2, <2>1, <2>2, <2>3, <2>5 DEF Waiting, Streaming, Fitting
    <2> QED
      BY <1>1, <2>4, <2>5
  <1> QED
    BY <1>3, <1>4 DEF Follows

\* Who leaves was told of nothing it has not read.
LEMMA LeftFeeds ==
  ASSUME Typed, Single, Feeds, \A n \in 1..Len(landed) : landed[n].revision > 0,
         NEW c \in Conns, Left(c)
  PROVE  Feeds'
  <1> SUFFICES ASSUME NEW d \in Conns PROVE (Coming(d) /\ Whole(d) /\ Woken(d))'
    BY DEF Feeds
  <1>1. \A e \in Conns : open'[e] = IF e = c THEN 0 ELSE open[e]
    BY DEF Left, Besides
  <1>2. UNCHANGED <<out, landed>>
    BY DEF Left
  <1>3. Coming(d) /\ Whole(d) /\ Woken(d)
    BY DEF Feeds
  <1>4. cursor'[d] = cursor[d] /\ got'[d] = got[d] /\ reread'[d] = reread[d]
    BY DEF Left, Besides
  <1>5. Whole(d)'
    BY <1>2, <1>3, <1>4 DEF Whole
  <1>6. CASE d = c
    <2>1. Coming(d)'
      BY <1>1, <1>2, <1>6 DEF Coming, Single
    <2>2. Woken(d)'
      <3>1. CASE told'[d] = told[d] /\ mode[d] # "reading"
        BY <1>2, <1>3, <1>4, <3>1 DEF Woken
      <3>2. CASE told'[d] = 0
        <4>1. \A n \in 1..Len(landed) : landed[n].revision \in Nat
          BY RecElements DEF Typed
        <4>2. \A n \in 1..Len(landed) : ~(landed[n].revision <= 0)
          BY <4>1
        <4> QED
          BY <1>2, <3>2, <4>2 DEF Woken
      <3> QED
        BY <1>6, <3>1, <3>2 DEF Left
    <2> QED
      BY <1>5, <2>1, <2>2
  <1>7. CASE d # c
    <2>1. open'[d] = open[d] /\ told'[d] = told[d] /\ mode'[d] = mode[d]
      BY <1>7 DEF Left, Besides
    <2>2. Coming(d)' /\ Woken(d)'
      BY <1>2, <1>3, <1>4, <2>1 DEF Coming, Honest, Woken
    <2> QED
      BY <1>5, <2>2
  <1> QED
    BY <1>6, <1>7

\* The stream of the request at hand is enrolled, at its client's cursor.
Enrolled ==
    /\ AtHand(open[task.conn]) /\ task.conn \in Conns /\ \A id : ~AtHand(id)'
    /\ \E b \in BOOLEAN :
          streams' = streams \cup {[id |-> open[task.conn], conn |-> task.conn,
                                    cursor |-> cursor[task.conn], armed |-> b]}
    /\ pc[Owner] = "enroll"
    /\ UNCHANGED <<parked, out, open, mode, cursor, told, got, reread, landed>>

\* It is one more place, and its client's.
LEMMA EnrolledFollows == ASSUME Typed, Single, Follows, Enrolled PROVE Single' /\ Follows'
  <1>1. PICK b \in BOOLEAN :
           streams' = streams \cup {[id |-> open[task.conn], conn |-> task.conn,
                                     cursor |-> cursor[task.conn], armed |-> b]}
    BY DEF Enrolled
  <1>2. PICK new : new = [id |-> open[task.conn], conn |-> task.conn,
                          cursor |-> cursor[task.conn], armed |-> b]
    OBVIOUS
  <1>3. new.id = open[task.conn] /\ new.conn = task.conn /\ new.cursor = cursor[task.conn]
    BY <1>2
  <1>4. /\ AtHand(new.id) /\ task.conn \in Conns /\ \A id : ~AtHand(id)'
        /\ pc[Owner] # "write" /\ streams' = streams \cup {new}
        /\ UNCHANGED <<parked, out, open, mode, cursor, told, got, reread, landed>>
    BY <1>1, <1>3, <1>2 DEF Enrolled
  <1>5. /\ new.id # 0
        /\ \A w \in parked : w.id # new.id
        /\ \A s \in streams : s.id # new.id
        /\ \A t \in Threads : \A f \in out[t] : f.id # new.id
    BY <1>4 DEF Single
  <1>6. \A s \in streams : \A t \in Threads : \A f \in out[t] : s.id # f.id
    BY <1>4 DEF Single
  <1>7. Single'
    BY <1>4, <1>5, <1>6 DEF Single
  <1>8. ASSUME NEW c \in Conns PROVE (Kept(c) /\ Waiting(c) /\ Streaming(c) /\ Fitting(c))'
    <2>1. Kept(c) /\ Waiting(c) /\ Streaming(c) /\ Fitting(c)
      BY DEF Follows
    <2>2. new.id = open[c] => c = task.conn
      BY <1>3, <1>4, <1>5 DEF Single
    <2>3. Streaming(c)'
      BY <1>3, <1>4, <2>1, <2>2 DEF Streaming
    <2> QED
      BY <1>4, <2>1, <2>3 DEF Kept, Waiting, Fitting
  <1> QED
    BY <1>7, <1>8 DEF Follows

\* Nobody loses anything by it.
LEMMA EnrolledFeeds == ASSUME Feeds, Enrolled PROVE Feeds'
  BY DEF Enrolled, Feeds, Coming, Honest, Whole, Woken

\* Thread t writes the frame f.
Wrote(t, f) ==
    /\ f \in out[t] /\ out' = [out EXCEPT ![t] = @ \ {f}]
    /\ IF t = Owner
       THEN /\ pc[Owner] = "write" /\ pc'[Owner] \in {"idle", "park", "enroll", "write"}
            /\ out'[Owner] # {} => pc'[Owner] = "write"
       ELSE pc'[Owner] = pc[Owner]
    /\ UNCHANGED <<task, parked, streams, told, landed>>

\* Who gets it: the client that holds its id, if there is one.
Received(f) ==
    IF \E c \in Conns : open[c] = f.id
    THEN \E c \in Conns : open[c] = f.id /\ Deliver(c, f)
    ELSE UNCHANGED <<got, cursor, reread, mode, open>>

\* A send writes one of the frames its thread collected.
LEMMA SendWrites ==
  ASSUME TypeOK, NEW t \in Threads, Send(t)
  PROVE  \E f \in out[t] : Wrote(t, f) /\ Received(f)
  <1>1. PICK f \in out[t] :
           /\ out' = [out EXCEPT ![t] = @ \ {f}]
           /\ IF \E c \in Conns : open[c] = f.id
              THEN \E c \in Conns : open[c] = f.id /\ Deliver(c, f)
              ELSE UNCHANGED <<got, cursor, reread, mode, open>>
    BY DEF Send
  <1>2. /\ pc[t] = "write" /\ UNCHANGED <<task, parked, streams, told, landed>>
        /\ pc' = [pc EXCEPT ![t] = IF out'[t] = {} THEN After(t) ELSE "write"]
    BY DEF Send, Goto, channel
  <1>3. pc \in [Threads -> Places] /\ Owner \in Threads
    BY DEF TypeOK, Places, Threads
  <1>4. After(Owner) \in {"idle", "park", "enroll"}
    BY <1>3, AfterType
  <1>5. Wrote(t, f)
    BY <1>1, <1>2, <1>3, <1>4 DEF Wrote
  <1> QED
    BY <1>1, <1>5 DEF Received

\* Which clients a frame moves: at most the one that held its id.
LEMMA ReceivedBy ==
  ASSUME Typed, Single, NEW f, f.id # 0, Received(f), NEW c \in Conns
  PROVE  \/ /\ open[c] # f.id /\ open'[c] = open[c] /\ mode'[c] = mode[c]
            /\ cursor'[c] = cursor[c] /\ got'[c] = got[c] /\ reread'[c] = reread[c]
         \/ /\ open[c] = f.id
            /\ got'[c] = got[c] \cup f.events /\ cursor'[c] = f.next
            /\ reread'[c] = IF f.lost THEN Len(landed) ELSE reread[c]
            /\ \/ mode[c] = "streaming" /\ open'[c] = open[c] /\ mode'[c] = mode[c]
               \/ open'[c] = 0 /\ mode'[c] = "idle"
  <1>0. /\ open \in [Conns -> Nat] /\ cursor \in [Conns -> Nat] /\ got \in [Conns -> SUBSET Nat]
        /\ reread \in [Conns -> Nat]
        /\ mode \in [Conns -> {"idle", "waiting", "opening", "reading", "streaming"}]
    BY DEF Typed
  <1>1. CASE ~\E d \in Conns : open[d] = f.id
    BY <1>1 DEF Received
  <1>2. ASSUME NEW d \in Conns, open[d] = f.id, Deliver(d, f)
        PROVE  \/ /\ open[c] # f.id /\ open'[c] = open[c] /\ mode'[c] = mode[c]
                  /\ cursor'[c] = cursor[c] /\ got'[c] = got[c] /\ reread'[c] = reread[c]
               \/ /\ open[c] = f.id
                  /\ got'[c] = got[c] \cup f.events /\ cursor'[c] = f.next
                  /\ reread'[c] = IF f.lost THEN Len(landed) ELSE reread[c]
                  /\ \/ mode[c] = "streaming" /\ open'[c] = open[c] /\ mode'[c] = mode[c]
                     \/ open'[c] = 0 /\ mode'[c] = "idle"
    <2>1. /\ got' = [got EXCEPT ![d] = @ \cup f.events]
          /\ cursor' = [cursor EXCEPT ![d] = f.next]
          /\ reread' = [reread EXCEPT ![d] = IF f.lost THEN Len(landed) ELSE @]
          /\ \/ mode[d] = "streaming" /\ UNCHANGED <<mode, open>>
             \/ mode' = [mode EXCEPT ![d] = "idle"] /\ open' = [open EXCEPT ![d] = 0]
      BY <1>2 DEF Deliver
    <2>2. CASE d = c
      BY <1>0, <1>2, <2>1, <2>2
    <2>3. CASE d # c
      <3>1. open[c] # f.id
        BY <1>2, <2>3 DEF Single
      <3> QED
        BY <1>0, <1>2, <2>1, <2>3, <3>1
    <2> QED
      BY <2>2, <2>3
  <1>3. CASE \E d \in Conns : open[d] = f.id /\ Deliver(d, f)
    BY <1>2, <1>3
  <1> QED
    BY <1>1, <1>3 DEF Received

\* A written frame leaves the other ids where they were.
LEMMA WroteSingle ==
  ASSUME Typed, Single, Dispatching, NEW t \in Threads, NEW f, Wrote(t, f), Received(f)
  PROVE  Single'
  <1>1. /\ f \in out[t] /\ UNCHANGED <<task, parked, streams>> /\ out \in [Threads -> SUBSET Answers]
        /\ out' = [out EXCEPT ![t] = @ \ {f}]
    BY DEF Wrote, Typed
  <1>2. /\ \A u \in Threads : out'[u] \subseteq out[u]
        /\ f \notin out'[t] /\ out'[t] \in SUBSET out[t]
    BY <1>1
  <1>3. \A c \in Conns : open'[c] = open[c] \/ (open[c] = f.id /\ open'[c] = 0)
    <2>1. f.id # 0
      BY <1>1 DEF Single
    <2> QED
      BY <2>1, ReceivedBy
  <1>4. ASSUME NEW id, AtHand(id)' PROVE AtHand(id)
    <2>1. task.conn \in Conns
      BY <1>1, <1>4 DEF AtHand, Dispatching
    <2>2. \/ task.kind = "wait"
          \/ task.kind = "read" /\ pc[Owner] = "read"
          \/ task.kind = "subscribe" /\ pc[Owner] \notin {"open", "arm"}
      BY <1>1, <1>4 DEF AtHand, Wrote
    <2>3. AtHand(open[task.conn])
      BY <2>2 DEF AtHand
    <2>4. open[task.conn] # f.id
      BY <1>1, <2>3 DEF Single
    <2>5. id = open[task.conn]
      BY <1>1, <1>3, <1>4, <2>1, <2>4 DEF AtHand
    <2> QED
      BY <2>3, <2>5
  <1>5. \A c, d \in Conns : open'[c] = open'[d] => c = d \/ open'[c] = 0
    BY <1>3 DEF Single
  <1>6. ASSUME NEW s \in streams, NEW u \in Threads, NEW g \in out'[u], s.id = g.id
        PROVE  u = Owner /\ pc'[Owner] = "write" /\ s.cursor = g.next
    <2>1. g \in out[u] /\ u = Owner /\ pc[Owner] = "write" /\ s.cursor = g.next
      BY <1>2, <1>6 DEF Single
    <2>2. pc'[Owner] = "write"
      BY <1>6, <2>1 DEF Wrote
    <2> QED
      BY <2>1, <2>2
  <1>7. /\ ~AtHand(0)'
        /\ \A w \in parked' : w.id # 0 /\ ~AtHand(w.id)'
        /\ \A s \in streams' : s.id # 0 /\ ~AtHand(s.id)'
        /\ \A u \in Threads : \A g \in out'[u] : g.id # 0 /\ ~AtHand(g.id)'
    BY <1>1, <1>2, <1>4 DEF Single
  <1>8. /\ \A w, v \in parked' : w.id = v.id => w = v
        /\ \A s, u \in streams' : s.id = u.id => s = u
        /\ \A w \in parked' : \A s \in streams' : w.id # s.id
    BY <1>1 DEF Single
  <1>9. /\ \A w \in parked' : \A u \in Threads : \A g \in out'[u] : w.id # g.id
        /\ \A u, v \in Threads : \A g \in out'[u] : \A k \in out'[v] :
              g.id = k.id => u = v /\ g = k
    BY <1>1, <1>2 DEF Single
  <1> QED
    BY <1>1, <1>5, <1>6, <1>7, <1>8, <1>9 DEF Single

\* A written frame moves its client on, and what else is on its way still fits.
LEMMA WroteFollows ==
  ASSUME Typed, Single, Follows, NEW t \in Threads, NEW f, Wrote(t, f), Received(f)
  PROVE  Follows'
  <1> SUFFICES ASSUME NEW c \in Conns PROVE (Kept(c) /\ Waiting(c) /\ Streaming(c) /\ Fitting(c))'
    BY DEF Follows
  <1>1. /\ f \in out[t] /\ UNCHANGED <<parked, streams, told, landed>>
        /\ out \in [Threads -> SUBSET Answers] /\ out' = [out EXCEPT ![t] = @ \ {f}]
        /\ Owner \in Threads /\ f \in Answers
    BY DEF Wrote, Typed
  <1>2. \A u \in Threads : \A g : g \in out'[u] <=> g \in out[u] /\ ~(u = t /\ g = f)
    BY <1>1
  <1>3. Kept(c) /\ Waiting(c) /\ Streaming(c) /\ Fitting(c)
    BY DEF Follows
  <1>4. f.id # 0
    BY <1>1 DEF Single
  <1>5. CASE /\ open[c] # f.id /\ open'[c] = open[c] /\ mode'[c] = mode[c]
             /\ cursor'[c] = cursor[c] /\ got'[c] = got[c] /\ reread'[c] = reread[c]
    <2>1. Kept(c)' /\ Waiting(c)'
      BY <1>1, <1>3, <1>5 DEF Kept, Waiting
    <2>2. Streaming(c)'
      <3> SUFFICES ASSUME NEW s \in streams, s.id = open[c]
                   PROVE  s.conn = c /\ (s.cursor = cursor[c] \/ \E g \in out'[Owner] : g.id = s.id)
        BY <1>1, <1>5 DEF Streaming
      <3>1. \A g \in out[Owner] : g.id = s.id => g \in out'[Owner]
        BY <1>1, <1>2, <1>5
      <3> QED
        BY <1>3, <3>1 DEF Streaming
    <2>3. Fitting(c)'
      BY <1>1, <1>2, <1>3, <1>5 DEF Fitting
    <2> QED
      BY <2>1, <2>2, <2>3
  <1>6. CASE /\ open[c] = f.id
             /\ got'[c] = got[c] \cup f.events /\ cursor'[c] = f.next
             /\ reread'[c] = IF f.lost THEN Len(landed) ELSE reread[c]
             /\ \/ mode[c] = "streaming" /\ open'[c] = open[c] /\ mode'[c] = mode[c]
                \/ open'[c] = 0 /\ mode'[c] = "idle"
    <2>1. PICK h \in Seq(Rec) : h = landed
      BY DEF Typed
    <2>2. \A n \in 1..Len(h) : h[n].revision \in Nat
      BY RecElements
    <2>3. cursor[c] \in Nat /\ f.next \in Nat
      BY <1>1 DEF Typed, Answers
    <2>4. Within(h, cursor[c], f)
      BY <1>1, <1>3, <1>6, <2>1 DEF Fitting
    <2>5. open'[c] \in {open[c], 0}
      BY <1>6
    <2>6. Kept(c)'
      <3> SUFFICES ASSUME NEW n \in got[c] \cup f.events
                   PROVE  n \in 1..Len(h) /\ h[n].revision <= f.next
        BY <1>1, <1>6, <2>1 DEF Kept
      <3>1. CASE n \in got[c]
        <4>1. n \in 1..Len(h) /\ h[n].revision <= cursor[c] /\ cursor[c] <= f.next
          BY <1>3, <2>1, <2>4, <3>1 DEF Kept, Within
        <4> QED
          BY <2>2, <2>3, <4>1
      <3>2. CASE n \in f.events
        BY <2>4, <3>2 DEF Within
      <3> QED
        BY <3>1, <3>2
    <2>7. Waiting(c)'
      <3>1. \A w \in parked : w.id # open[c] /\ w.id # 0
        BY <1>1, <1>6 DEF Single
      <3> QED
        BY <1>1, <2>5, <3>1 DEF Waiting
    <2>8. Streaming(c)'
      <3> SUFFICES ASSUME NEW s \in streams, s.id = open'[c]
                   PROVE  s.conn = c /\ s.cursor = f.next
        BY <1>1, <1>6 DEF Streaming
      <3>1. s.id = open[c]
        BY <2>5 DEF Single
      <3>2. s.cursor = f.next
        BY <1>1, <1>6, <3>1 DEF Single
      <3> QED
        BY <1>3, <3>1, <3>2 DEF Streaming
    <2>9. Fitting(c)'
      <3> SUFFICES ASSUME NEW u \in Threads, NEW g \in out'[u], g.id = open'[c] PROVE FALSE
        BY DEF Fitting
      <3>1. g \in out[u] /\ ~(u = t /\ g = f) /\ g.id = open[c]
        BY <1>2, <2>5 DEF Single
      <3> QED
        BY <1>1, <1>6, <3>1 DEF Single
    <2> QED
      BY <2>6, <2>7, <2>8, <2>9
  <1> QED
    BY <1>4, <1>5, <1>6, ReceivedBy

\* A written frame leaves its client with every record up to its new cursor.
LEMMA WroteFeeds ==
  ASSUME Typed, Single, Feeds, NEW t \in Threads, NEW f, Wrote(t, f), Received(f)
  PROVE  Feeds'
  <1> SUFFICES ASSUME NEW c \in Conns PROVE (Coming(c) /\ Whole(c) /\ Woken(c))'
    BY DEF Feeds
  <1>1. /\ f \in out[t] /\ UNCHANGED <<parked, streams, told, landed>>
        /\ out \in [Threads -> SUBSET Answers] /\ out' = [out EXCEPT ![t] = @ \ {f}]
        /\ Owner \in Threads /\ f \in Answers
    BY DEF Wrote, Typed
  <1>2. \A u \in Threads : \A g : g \in out'[u] <=> g \in out[u] /\ ~(u = t /\ g = f)
    BY <1>1
  <1>3. Coming(c) /\ Whole(c) /\ Woken(c)
    BY DEF Feeds
  <1>4. f.id # 0
    BY <1>1 DEF Single
  <1>5. CASE /\ open[c] # f.id /\ open'[c] = open[c] /\ mode'[c] = mode[c]
             /\ cursor'[c] = cursor[c] /\ got'[c] = got[c] /\ reread'[c] = reread[c]
    <2>1. Whole(c)' /\ Woken(c)'
      BY <1>1, <1>3, <1>5 DEF Whole, Woken
    <2>2. Coming(c)'
      BY <1>1, <1>2, <1>3, <1>5 DEF Coming, Honest
    <2> QED
      BY <2>1, <2>2
  <1>6. CASE /\ open[c] = f.id
             /\ got'[c] = got[c] \cup f.events /\ cursor'[c] = f.next
             /\ reread'[c] = IF f.lost THEN Len(landed) ELSE reread[c]
             /\ \/ mode[c] = "streaming" /\ open'[c] = open[c] /\ mode'[c] = mode[c]
                \/ open'[c] = 0 /\ mode'[c] = "idle"
    <2>1. PICK h \in Seq(Rec) : h = landed
      BY DEF Typed
    <2>2. Len(h) \in Nat /\ \A n \in 1..Len(h) : h[n].revision \in Nat
      BY RecElements
    <2>3. cursor[c] \in Nat /\ told[c] \in Nat /\ f.next \in Nat
      BY <1>1 DEF Typed, Answers
    <2>4. Honest(c, f)
      BY <1>1, <1>3, <1>6 DEF Coming
    <2>5. Exact(h, cursor[c], Sought(c), f)
      BY <2>1, <2>4 DEF Honest
    <2>6. open'[c] \in {open[c], 0} /\ told'[c] = told[c]
      BY <1>1, <1>6
    <2>7. Coming(c)'
      <3> SUFFICES ASSUME NEW u \in Threads, NEW g \in out'[u], g.id = open'[c] PROVE FALSE
        BY DEF Coming
      <3>1. g \in out[u] /\ ~(u = t /\ g = f) /\ g.id = open[c]
        BY <1>2, <2>6 DEF Single
      <3> QED
        BY <1>1, <1>6, <3>1 DEF Single
    <2>8. ASSUME NEW n \in 1..Len(h), h[n].revision <= f.next, h[n].event \in Sought(c)
           PROVE  n \in got'[c] \/ n <= reread'[c]
      <3>1. CASE f.lost
        BY <1>6, <2>1, <2>2, <3>1
      <3>2. CASE ~f.lost /\ h[n].revision <= cursor[c]
        BY <1>3, <1>6, <2>1, <2>8, <3>2 DEF Whole
      <3>3. CASE ~f.lost /\ ~(h[n].revision <= cursor[c])
        <4>1. cursor[c] < h[n].revision
          BY <2>2, <2>3, <3>3
        <4> QED
          BY <1>6, <2>5, <2>8, <3>3, <4>1 DEF Exact
      <3> QED
        BY <3>1, <3>2, <3>3
    <2>9. Whole(c)'
      BY <1>1, <1>6, <2>1, <2>8 DEF Whole
    <2>10. Woken(c)'
      <3> SUFFICES ASSUME NEW n \in 1..Len(h), h[n].revision <= told[c], h[n].event \in Sought(c)
                   PROVE  n \in got'[c] \/ n <= reread'[c]
        BY <1>1, <2>1, <2>6 DEF Woken
      <3>1. CASE mode[c] = "reading"
        BY <2>1, <2>4, <2>8, <3>1 DEF Honest
      <3>2. CASE mode[c] # "reading"
        <4>1. n \in got[c] \/ n <= reread[c]
          BY <1>3, <2>1, <3>2 DEF Woken
        <4> QED
          BY <1>6, <2>1, <2>2, <4>1
      <3> QED
        BY <3>1, <3>2
    <2> QED
      BY <2>7, <2>9, <2>10
  <1> QED
    BY <1>4, <1>5, <1>6, ReceivedBy
\* The part of the type invariant these proofs use.
LEMMA TypedOK == TypeOK => Typed
  BY DEF TypeOK, Typed, Rec, Logs, Waits, Subs, Answers, Places, Threads

\* What Flush leaves in flight, exactly.
LEMMA FlushExact ==
  ASSUME Typed, NEW t \in Threads, NEW frames \in SUBSET Answers, NEW next,
         Flush(t, frames, next)
  PROVE  /\ out' \in [Threads -> SUBSET Answers] /\ out'[t] = out[t] \cup frames
         /\ \A u \in Threads \ {t} : out'[u] = out[u]
         /\ pc'[t] = IF out'[t] = {} THEN next ELSE "write"
         /\ \A u \in Threads \ {t} : pc'[u] = pc[u]
  BY DEF Flush, Typed

\* Thread t takes the waits `fired` and the streams of `subs` that are due, under
\* the lock; subs are the streams, armed or not as G0 says.
Collects(t, h, l, fired, subs, G0, next) ==
    /\ h \in Seq(Rec) /\ Ordered(h) /\ l \in Logs /\ IsTail(l, h) /\ landed' = h
    /\ fired \subseteq parked /\ parked' \subseteq parked \ fired
    /\ subs \in SUBSET Subs /\ streams' \subseteq Advanced(subs, l, Len(h))
    /\ \A s \in subs : \E u \in streams :
          s = G0[u] /\ s.id = u.id /\ s.conn = u.conn /\ s.cursor = u.cursor
    /\ Flush(t, Frames(l, Len(h), fired \cup Due(subs, l, Len(h))), next)
    /\ (t = Owner /\ pc[Owner] # "write") \/ streams = {}

\* One pass over the waits and the streams, whoever makes it and why.
LEMMA CollectPasses ==
  ASSUME Typed, Single, NEW t \in Threads, NEW h, NEW l, NEW fired, NEW subs, NEW G0, NEW next,
         Collects(t, h, l, fired, subs, G0, next)
  PROVE  \E F \in SUBSET Answers : \E G : Passed(t, F, G)
  <1> USE DEF Collects
  <1>1. PICK due \in SUBSET subs : due = Due(subs, l, Len(h))
    BY DEF Due
  <1>2. PICK F : F = Frames(l, Len(h), fired \cup due)
    OBVIOUS
  <1>3. PICK G : G = [u \in streams |->
                        IF G0[u] \in due
                        THEN [G0[u] EXCEPT !.cursor = BatchOf(l, Len(h), G0[u]).next]
                        ELSE G0[u]]
    OBVIOUS
  <1>4. parked \in SUBSET Waits /\ streams \in SUBSET Subs /\ Len(h) \in Nat
    BY LenProperties DEF Typed
  <1>5. Sound(l) /\ Len(l.records) <= Len(h)
    BY TailSound
  <1>6. ASSUME NEW r \in fired \cup due
        PROVE  /\ r.id \in Nat /\ r.cursor \in Nat
               /\ Frame(r.id, BatchOf(l, Len(h), r)).id = r.id
               /\ Full(h, r.cursor, Filter[r.conn], Frame(r.id, BatchOf(l, Len(h), r)))
               /\ Frame(r.id, BatchOf(l, Len(h), r)).next = BatchOf(l, Len(h), r).next
               /\ \E x \in parked \cup streams :
                     x.id = r.id /\ x.cursor = r.cursor /\ x.conn = r.conn
    <2>1. r.id \in Nat /\ r.cursor \in Nat
      BY <1>4 DEF Waits, Subs
    <2>2. /\ Frame(r.id, Batch(l, Len(h), r.cursor, Filter[r.conn])).id = r.id
          /\ Full(h, r.cursor, Filter[r.conn],
                  Frame(r.id, Batch(l, Len(h), r.cursor, Filter[r.conn])))
      BY <2>1, BatchFull
    <2>3. Frame(r.id, BatchOf(l, Len(h), r)).next = BatchOf(l, Len(h), r).next
      BY DEF Frame
    <2>4. \E x \in parked \cup streams : x.id = r.id /\ x.cursor = r.cursor /\ x.conn = r.conn
      OBVIOUS
    <2> QED
      BY <2>1, <2>2, <2>3, <2>4 DEF BatchOf
  <1>7. \A f \in F : \E r \in fired \cup due : f = Frame(r.id, BatchOf(l, Len(h), r))
    BY <1>2 DEF Frames
  <1>8. \A r \in fired \cup due : Frame(r.id, BatchOf(l, Len(h), r)) \in F
    BY <1>2 DEF Frames
  <1>9. ASSUME NEW s \in subs, NEW q \in subs, s.id = q.id PROVE s = q
    BY <1>9 DEF Single
  <1>10. ASSUME NEW w \in parked, NEW s \in subs PROVE w.id # s.id
    BY DEF Single
  <1>11. ASSUME NEW r \in fired \cup due, NEW q \in fired \cup due, r.id = q.id PROVE r = q
    <2>1. CASE r \in fired /\ q \in fired
      BY <1>11, <2>1 DEF Single
    <2>2. CASE r \in due /\ q \in due
      BY <1>9, <1>11, <2>2
    <2> QED
      BY <1>10, <1>11, <2>1, <2>2
  <1>12. ASSUME NEW f \in F, NEW g \in F, f.id = g.id PROVE f = g
    <2>1. PICK r \in fired \cup due : f = Frame(r.id, BatchOf(l, Len(h), r))
      BY <1>7
    <2>2. PICK q \in fired \cup due : g = Frame(q.id, BatchOf(l, Len(h), q))
      BY <1>7
    <2>3. f.id = r.id /\ g.id = q.id
      BY <1>6, <2>1, <2>2
    <2>4. r = q
      BY <1>11, <1>12, <2>3
    <2> QED
      BY <2>1, <2>2, <2>4
  <1>13. F \in SUBSET Answers
    <2>1. \A r \in fired \cup due : r.id \in Nat /\ r.cursor \in Nat
      BY <1>6
    <2> QED
      BY <1>2, <1>4, <1>5, <2>1, FramesType
  <1>14. /\ out'[t] = out[t] \cup F /\ \A u \in Threads \ {t} : out'[u] = out[u]
         /\ pc'[t] = IF out'[t] = {} THEN next ELSE "write"
    BY <1>1, <1>2, <1>13, FlushExact
  <1>15. ASSUME NEW f \in F
         PROVE  /\ \A u \in Threads : \A g \in out[u] : g.id # f.id
                /\ \A w \in parked' : w.id # f.id
                /\ \E r \in parked \cup streams :
                      f.id = r.id /\ Full(landed', r.cursor, Filter[r.conn], f)
    <2>1. PICK r \in fired \cup due : f = Frame(r.id, BatchOf(l, Len(h), r))
      BY <1>7
    <2>2. /\ f.id = r.id /\ Full(h, r.cursor, Filter[r.conn], f)
          /\ \E x \in parked \cup streams :
                x.id = r.id /\ x.cursor = r.cursor /\ x.conn = r.conn
      BY <1>6, <2>1
    <2>3. ASSUME NEW u \in Threads, NEW g \in out[u] PROVE g.id # r.id
      <3>1. CASE r \in fired
        BY <3>1 DEF Single
      <3>2. CASE r \in due
        BY <3>2 DEF Single
      <3> QED
        BY <3>1, <3>2
    <2>4. ASSUME NEW w \in parked' PROVE w.id # r.id
      <3>1. w \in parked /\ w \notin fired
        OBVIOUS
      <3> QED
        BY <3>1, <1>10 DEF Single
    <2> QED
      BY <2>2, <2>3, <2>4
  <1>16. ASSUME NEW s \in streams'
         PROVE  \E u \in streams :
                   /\ s = G[u] /\ s.id = u.id /\ s.conn = u.conn
                   /\ \/ s.cursor = u.cursor /\ \A f \in F : f.id # s.id
                      \/ /\ t = Owner /\ pc'[Owner] = "write"
                         /\ \E f \in F : f \in out'[Owner] /\ f.id = s.id /\ s.cursor = f.next
    <2>1. CASE s \in subs \ due
      <3>1. PICK u \in streams :
               s = G0[u] /\ s.id = u.id /\ s.conn = u.conn /\ s.cursor = u.cursor
        BY <2>1
      <3>2. s = G[u]
        BY <1>3, <2>1, <3>1
      <3>3. ASSUME NEW f \in F PROVE f.id # s.id
        <4>1. PICK r \in fired \cup due : f.id = r.id
          BY <1>6, <1>7
        <4>2. CASE r \in fired
          BY <1>10, <2>1, <4>1, <4>2
        <4>3. CASE r \in due
          BY <1>9, <2>1, <4>1, <4>3
        <4> QED
          BY <4>2, <4>3
      <3> QED
        BY <3>1, <3>2, <3>3
    <2>2. ASSUME NEW x \in due, s = [x EXCEPT !.cursor = BatchOf(l, Len(h), x).next]
          PROVE  \E u \in streams :
                    /\ s = G[u] /\ s.id = u.id /\ s.conn = u.conn
                    /\ t = Owner /\ pc'[Owner] = "write"
                    /\ \E f \in F : f \in out'[Owner] /\ f.id = s.id /\ s.cursor = f.next
      <3>1. PICK u \in streams : x = G0[u] /\ x.id = u.id /\ x.conn = u.conn
        OBVIOUS
      <3>2. s = G[u]
        BY <1>3, <2>2, <3>1
      <3>3. x \in Subs
        OBVIOUS
      <3>4. s.id = x.id /\ s.conn = x.conn /\ s.cursor = BatchOf(l, Len(h), x).next
        BY <2>2, <3>3 DEF Subs
      <3>5. PICK f \in F : f = Frame(x.id, BatchOf(l, Len(h), x))
        BY <1>8
      <3>6. f.id = s.id /\ s.cursor = f.next
        BY <1>6, <3>4, <3>5
      <3>7. t = Owner /\ f \in out'[t]
        BY <1>14
      <3> QED
        BY <1>14, <3>1, <3>2, <3>4, <3>6, <3>7
    <2>3. s \in (subs \ due) \cup {[x EXCEPT !.cursor = BatchOf(l, Len(h), x).next] : x \in due}
      BY <1>1 DEF Advanced
    <2> QED
      BY <2>1, <2>2, <2>3
  <1>17. \A u \in Threads : \A f \in out'[u] : f \in out[u] \/ (u = t /\ f \in F)
    BY <1>14
  <1>18. \A w \in parked' : w \in parked
    OBVIOUS
  <1>19. Passed(t, F, G)
    BY <1>12, <1>15, <1>16, <1>17, <1>18 DEF Passed
  <1> QED
    BY <1>13, <1>19
\* A group lands after all there was.
LEMMA LandGrows ==
  ASSUME NEW h \in Seq(Rec), NEW at \in Nat, NEW events \in Seq(Events)
  PROVE  \E h2 \in Seq(Rec) :
            /\ h2 = h \o Keyed(at, events)
            /\ Longer(h, h2, at) /\ Len(h2) = Len(h) + Len(events)
            /\ \A n \in 1..Len(h2) \ 1..Len(h) :
                  \E i \in 1..Len(events) : h2[n].event = events[i]
  <1>1. PICK k \in Seq(Rec) : /\ k = Keyed(at, events) /\ Len(k) = Len(events)
                              /\ \A i \in 1..Len(k) : k[i].revision = at
    BY KeyedType
  <1>2. Len(h) \in Nat /\ Len(k) \in Nat
    BY LenProperties
  <1>3. PICK h2 \in Seq(Rec) : h2 = h \o k
    BY ConcatElements
  <1>4. /\ Len(h2) = Len(h) + Len(k)
        /\ \A i \in 1..Len(h) : h2[i] = h[i]
        /\ \A i \in 1..Len(k) : h2[Len(h) + i] = k[i]
    BY <1>3, ConcatElements
  <1>5. ASSUME NEW n \in 1..Len(h2)
        PROVE  IF n <= Len(h) THEN h2[n] = h[n] ELSE h2[n].revision = at
    <2>1. CASE n <= Len(h)
      BY <1>2, <1>4, <2>1
    <2>2. CASE ~(n <= Len(h))
      <3>1. n - Len(h) \in 1..Len(k) /\ Len(h) + (n - Len(h)) = n
        BY <1>2, <1>4, <2>2
      <3>2. h2[n] = k[n - Len(h)]
        BY <1>4, <3>1
      <3> QED
        BY <1>1, <2>2, <3>1, <3>2
    <2> QED
      BY <2>1, <2>2
  <1>6. Len(h) <= Len(h2)
    BY <1>2, <1>4
  <1>7. ASSUME NEW n \in 1..Len(h2), n \notin 1..Len(h)
        PROVE  \E i \in 1..Len(events) : h2[n].event = events[i]
    <2>1. n - Len(h) \in 1..Len(k) /\ Len(h) + (n - Len(h)) = n
      BY <1>2, <1>4, <1>7
    <2>2. h2[n] = k[n - Len(h)]
      BY <1>4, <2>1
    <2>3. k[n - Len(h)].event = events[n - Len(h)]
      BY <1>1, <2>1 DEF Keyed
    <2> QED
      BY <1>1, <2>1, <2>2, <2>3
  <1>8. Longer(h, h2, at)
    BY <1>5, <1>6 DEF Longer
  <1>9. \A n \in 1..Len(h2) \ 1..Len(h) : \E i \in 1..Len(events) : h2[n].event = events[i]
    BY <1>7
  <1>10. h2 = h \o Keyed(at, events) /\ Len(h2) = Len(h) + Len(events)
    BY <1>1, <1>3, <1>4
  <1> QED
    BY <1>8, <1>9, <1>10

\* A history is no longer than itself.
LEMMA LongerSelf == ASSUME NEW h \in Seq(Rec), NEW at PROVE Longer(h, h, at)
  <1>1. Len(h) \in Nat
    BY LenProperties
  <1> QED
    BY <1>1 DEF Longer

\* Every append is a pass.
LEMMA LandPasses ==
  ASSUME Typed, History, Single, NEW t \in Threads, NEW at \in Nat,
         NEW events \in Seq(Events), UpTo(landed, at), Len(log.records) <= Capacity,
         Land(t, at, events),
         (t = Owner /\ pc[Owner] # "write") \/ streams = {}
  PROVE  /\ Grown(at) /\ (events = <<>> => Len(landed') = Len(landed))
         /\ \A e \in Added : \E i \in 1..Len(events) : e = events[i]
         /\ \E F \in SUBSET Answers : \E G : Passed(t, F, G)
  <1>1. PICK h \in Seq(Rec) : h = landed
    BY DEF Typed
  <1>2. PICK l \in Logs : l = Record(log, at, events)
    BY <1>1, RecordTail DEF Typed, History
  <1>3. PICK h2 \in Seq(Rec) :
           /\ h2 = h \o Keyed(at, events)
           /\ Longer(h, h2, at) /\ Len(h2) = Len(h) + Len(events)
           /\ \A n \in 1..Len(h2) \ 1..Len(h) :
                 \E i \in 1..Len(events) : h2[n].event = events[i]
    BY LandGrows
  <1>4. /\ Longer(h, h2, at) /\ Len(h2) = Len(h) + Len(events)
        /\ \A n \in 1..Len(h2) \ 1..Len(h) : \E i \in 1..Len(events) : h2[n].event = events[i]
    BY <1>3
  <1>5. log' = l /\ landed' = h2
    BY <1>1, <1>2, <1>3 DEF Land
  <1>6. IsTail(l, h2) /\ Ordered(h2)
    BY <1>1, <1>2, <1>3, RecordTail, LandOrdered DEF Typed, History
  <1>7. /\ Grown(at) /\ (events = <<>> => Len(landed') = Len(landed))
        /\ \A e \in Added : \E i \in 1..Len(events) : e = events[i]
    <2>1. Grown(at)
      BY <1>1, <1>4, <1>5 DEF Grown
    <2>2. Len(h) \in Nat
      BY LenProperties
    <2>3. events = <<>> => Len(h2) = Len(h)
      BY <1>4, <2>2, EmptySeq
    <2>4. \A e \in Added : \E i \in 1..Len(events) : e = events[i]
      BY <1>1, <1>4, <1>5 DEF Added
    <2> QED
      BY <1>1, <1>5, <2>1, <2>3, <2>4
  <1>8. CASE events = <<>>
    <2>1. UNCHANGED <<parked, streams>> /\ Flush(t, {}, After(t))
      BY <1>8 DEF Land
    <2>2. PICK G : G = [u \in streams |-> u]
      OBVIOUS
    <2>3. out'[t] = out[t] \cup {} /\ \A u \in Threads \ {t} : out'[u] = out[u]
      BY <2>1, FlushExact
    <2>4. \A u \in Threads : out'[u] = out[u]
      BY <2>3
    <2>5. {} \in SUBSET Answers /\ Passed(t, {}, G)
      BY <2>1, <2>2, <2>4 DEF Passed
    <2> QED
      BY <1>7, <2>5
  <1>9. CASE events # <<>>
    <2>1. Len(landed) + Len(events) = Len(h2)
      BY <1>1, <1>4
    <2>2. PICK fired \in SUBSET parked : fired = Fired(l, Len(h2))
      BY DEF Fired
    <2>3. /\ parked' = parked \ fired /\ streams' = Advanced(streams, l, Len(h2))
          /\ Flush(t, Frames(l, Len(h2), fired \cup Due(streams, l, Len(h2))), After(t))
      BY <1>2, <1>9, <2>1, <2>2 DEF Land
    <2>4. PICK G0 : G0 = [u \in streams |-> u]
      OBVIOUS
    <2>5. streams \in SUBSET Subs
      BY DEF Typed
    <2>6. \A s \in streams : \E u \in streams :
             s = G0[u] /\ s.id = u.id /\ s.conn = u.conn /\ s.cursor = u.cursor
      BY <2>4
    <2>7. Collects(t, h2, l, fired, streams, G0, After(t))
      BY <1>5, <1>6, <2>3, <2>5, <2>6 DEF Collects
    <2>8. \E F \in SUBSET Answers : \E G : Passed(t, F, G)
      BY <2>7, CollectPasses
    <2> QED
      BY <1>7, <2>8
  <1> QED
    BY <1>8, <1>9

\* A step that appends nothing has not grown.
LEMMA NotGrown ==
  ASSUME Typed, UNCHANGED landed PROVE \A at : Grown(at)
  <1>1. PICK h \in Seq(Rec) : h = landed
    BY DEF Typed
  <1> QED
    BY <1>1, LongerSelf DEF Grown

\* arm's catch-up is a pass.
LEMMA ArmPasses ==
  ASSUME Typed, History, Single, Arm
  PROVE  \E F \in SUBSET Answers : \E G : Passed(Owner, F, G)
  <1>1. PICK h \in Seq(Rec) : h = landed
    BY DEF Typed
  <1>2. PICK G0 : G0 = [u \in streams |-> IF u.id = open[task.conn]
                                          THEN [u EXCEPT !.armed = TRUE] ELSE u]
    OBVIOUS
  <1>3. PICK subs : subs = {IF s.id = open[task.conn] THEN [s EXCEPT !.armed = TRUE] ELSE s :
                               s \in streams}
    OBVIOUS
  <1>4. ASSUME NEW s \in subs
        PROVE  s \in Subs /\ \E u \in streams :
                  s = G0[u] /\ s.id = u.id /\ s.conn = u.conn /\ s.cursor = u.cursor
    <2>1. PICK u \in streams :
             s = IF u.id = open[task.conn] THEN [u EXCEPT !.armed = TRUE] ELSE u
      BY <1>3
    <2>2. u \in Subs /\ s = G0[u]
      BY <1>2, <2>1 DEF Typed
    <2>3. s \in Subs /\ s.id = u.id /\ s.conn = u.conn /\ s.cursor = u.cursor
      BY <2>1, <2>2 DEF Subs
    <2> QED
      BY <2>2, <2>3
  <1>5. /\ pc[Owner] = "arm" /\ landed' = h /\ parked' = parked /\ log' = log
        /\ streams' = Advanced(subs, log, Len(h))
        /\ Flush(Owner, Frames(log, Len(h), Due(subs, log, Len(h))), "idle")
    BY <1>1, <1>3 DEF Arm
  <1>6. PICK fired \in SUBSET parked : fired = {}
    OBVIOUS
  <1>7. Frames(log, Len(h), Due(subs, log, Len(h)))
            = Frames(log, Len(h), fired \cup Due(subs, log, Len(h)))
    BY <1>6
  <1>8. Ordered(h) /\ log \in Logs /\ IsTail(log, h) /\ Owner \in Threads /\ subs \in SUBSET Subs
    BY <1>1, <1>4 DEF History, Typed
  <1>9. /\ Flush(Owner, Frames(log, Len(h), fired \cup Due(subs, log, Len(h))), "idle")
        /\ parked' \subseteq parked \ fired /\ streams' \subseteq Advanced(subs, log, Len(h))
        /\ pc[Owner] # "write"
    BY <1>5, <1>6, <1>7
  <1>10. Collects(Owner, h, log, fired, subs, G0, "idle")
    BY <1>4, <1>5, <1>8, <1>9 DEF Collects
  <1> QED
    BY <1>8, <1>10, CollectPasses

\* drain's last answers are a pass.
LEMMA DrainPasses ==
  ASSUME Typed, History, Single, Drain
  PROVE  \E F \in SUBSET Answers : \E G : Passed(Owner, F, G)
  <1>1. PICK h \in Seq(Rec) : h = landed
    BY DEF Typed
  <1>2. PICK G0 : G0 = [u \in streams |-> u]
    OBVIOUS
  <1>3. /\ pc[Owner] = "drain" /\ landed' = h /\ parked' = {} /\ streams' = {}
        /\ Flush(Owner, Frames(log, Len(h), parked \cup Due(streams, log, Len(h))), "idle")
    BY <1>1 DEF Drain
  <1>4. Ordered(h) /\ log \in Logs /\ IsTail(log, h) /\ Owner \in Threads /\ streams \in SUBSET Subs
    BY <1>1 DEF History, Typed
  <1>5. \A s \in streams : \E u \in streams :
           s = G0[u] /\ s.id = u.id /\ s.conn = u.conn /\ s.cursor = u.cursor
    BY <1>2
  <1>6. /\ parked' \subseteq parked \ parked /\ streams' \subseteq Advanced(streams, log, Len(h))
        /\ pc[Owner] # "write" /\ parked \in SUBSET parked
    BY <1>3
  <1>7. Collects(Owner, h, log, parked, streams, G0, "idle")
    BY <1>3, <1>4, <1>5, <1>6 DEF Collects
  <1> QED
    BY <1>4, <1>7, CollectPasses

\* The request at hand, answered by one frame.
LEMMA AnswerPasses ==
  ASSUME Typed, Single, Handed, NEW f \in Answers, f.id = Asker.id,
         Full(landed', Asker.cursor, Filter[Asker.conn], f),
         \A u \in Threads : \A g \in out'[u] : g \in out[u] \/ (u = Owner /\ g = f),
         UNCHANGED <<parked, streams>>
  PROVE  \E F \in SUBSET Answers : \E G : Passed(Owner, F, G)
  <1>1. PICK F \in SUBSET Answers : F = {f}
    OBVIOUS
  <1>2. PICK G : G = [u \in streams |-> u]
    OBVIOUS
  <1>3. AtHand(f.id)
    BY DEF Handed, Asker
  <1>4. /\ \A u \in Threads : \A g \in out[u] : g.id # f.id
        /\ \A w \in parked : w.id # f.id
        /\ \A s \in streams : s.id # f.id
    BY <1>3 DEF Single
  <1>5. Passed(Owner, F, G)
    BY <1>1, <1>2, <1>4 DEF Passed
  <1> QED
    BY <1>5

\* park_or_answer is a pass over the one wait it decides.
LEMMA ParkPasses ==
  ASSUME Typed, History, Single, Dispatching, ParkOrAnswer
  PROVE  Handed /\ \E F \in SUBSET Answers : \E G : Passed(Owner, F, G)
  <1>1. /\ pc[Owner] = "park" /\ task.kind = "wait" /\ task.conn \in Conns
        /\ task' = [task EXCEPT !.kind = "query"] /\ UNCHANGED <<streams, log, landed>>
    BY DEF ParkOrAnswer, Dispatching
  <1>2. Handed
    <2>1. AtHand(open[task.conn])
      BY <1>1 DEF AtHand
    <2>2. task'.kind \notin {"wait", "read", "subscribe"}
      BY <1>1 DEF ParkOrAnswer
    <2> QED
      BY <1>1, <2>1, <2>2 DEF Handed, AtHand
  <1>3. PICK h \in Seq(Rec) : h = landed
    BY DEF Typed
  <1>4. PICK batch : batch = BatchOf(log, Len(landed), Asker)
    OBVIOUS
  <1>5. open[task.conn] \in Nat /\ cursor[task.conn] \in Nat /\ Owner \in Threads
    BY <1>1 DEF Typed
  <1>6. /\ Asker.id = open[task.conn] /\ Asker.conn = task.conn /\ Asker.cursor = cursor[task.conn]
    BY DEF Asker
  <1>7. CASE Satisfied(batch)
    <2>1. Flush(Owner, {Frame(Asker.id, batch)}, "idle") /\ UNCHANGED parked
      BY <1>4, <1>7 DEF ParkOrAnswer, Asker
    <2>2. Ordered(h) /\ log \in Logs /\ IsTail(log, h) /\ Len(h) \in Nat
      BY <1>3, LenProperties DEF History, Typed
    <2>3. Sound(log) /\ Len(log.records) <= Len(h)
      BY <2>2, TailSound
    <2>4. PICK f : f = Frame(Asker.id, Batch(log, Len(h), Asker.cursor, Filter[Asker.conn]))
      OBVIOUS
    <2>5. f = Frame(Asker.id, batch)
      BY <1>3, <1>4, <2>4 DEF BatchOf
    <2>6. f \in Answers /\ f.id = Asker.id
      BY <1>5, <1>6, <2>2, <2>3, <2>4, AnswerType
    <2>7. Full(h, Asker.cursor, Filter[Asker.conn], f)
      BY <1>5, <1>6, <2>2, <2>4, BatchFull
    <2>8. \A u \in Threads : \A g \in out'[u] : g \in out[u] \/ (u = Owner /\ g = f)
      <3>1. {f} \in SUBSET Answers /\ Flush(Owner, {f}, "idle")
        BY <2>1, <2>5, <2>6
      <3>2. out'[Owner] = out[Owner] \cup {f} /\ \A u \in Threads \ {Owner} : out'[u] = out[u]
        BY <1>5, <3>1, FlushExact
      <3> QED
        BY <3>2
    <2> QED
      BY <1>1, <1>2, <1>3, <2>1, <2>6, <2>7, <2>8, AnswerPasses
  <1>8. CASE ~Satisfied(batch)
    <2>1. Flush(Owner, {}, "idle") /\ parked' = parked \cup {Asker}
      BY <1>4, <1>8 DEF ParkOrAnswer, Asker
    <2>2. PICK G : G = [u \in streams |-> u]
      OBVIOUS
    <2>3. out'[Owner] = out[Owner] \cup {} /\ \A u \in Threads \ {Owner} : out'[u] = out[u]
      BY <1>5, <2>1, FlushExact
    <2>4. \A u \in Threads : out'[u] = out[u]
      BY <2>3
    <2>5. {} \in SUBSET Answers /\ Passed(Owner, {}, G)
      BY <1>1, <1>2, <2>1, <2>2, <2>4 DEF Passed
    <2> QED
      BY <1>2, <2>5
  <1> QED
    BY <1>7, <1>8

\* The read of the slot is a pass: unfiltered, it hands over what was asked for.
LEMMA ReadPasses ==
  ASSUME Typed, History, Single, Dispatching, ReadSince
  PROVE  Handed /\ \E F \in SUBSET Answers : \E G : Passed(Owner, F, G)
  <1>1. /\ pc[Owner] = "read" /\ task.kind = "read" /\ task.conn \in Conns
        /\ pc' = [pc EXCEPT ![Owner] = "observe"]
        /\ UNCHANGED <<task, open, parked, streams, log, landed>>
    BY DEF ReadSince, Dispatching, Goto, channel, client
  <1>2. Handed
    <2>1. AtHand(open[task.conn])
      BY <1>1 DEF AtHand
    <2>2. pc'[Owner] = "observe"
      BY <1>1 DEF Typed
    <2> QED
      BY <1>1, <2>1, <2>2 DEF Handed, AtHand
  <1>3. PICK h \in Seq(Rec) : h = landed
    BY DEF Typed
  <1>4. Ordered(h) /\ log \in Logs /\ IsTail(log, h) /\ Len(h) \in Nat
    BY <1>3, LenProperties DEF History, Typed
  <1>5. Sound(log) /\ Len(log.records) <= Len(h)
    BY <1>4, TailSound
  <1>6. /\ Asker.id = open[task.conn] /\ Asker.conn = task.conn /\ Asker.cursor = cursor[task.conn]
        /\ open[task.conn] \in Nat /\ cursor[task.conn] \in Nat /\ Owner \in Threads
        /\ Filter[task.conn] \subseteq Events
    BY <1>1, JournalAssumption DEF Asker, Typed
  <1>7. PICK f : f = Frame(Asker.id, Batch(log, Len(h), Asker.cursor, Events))
    OBVIOUS
  <1>8. f \in Answers /\ f.id = Asker.id
    BY <1>4, <1>5, <1>6, <1>7, AnswerType
  <1>9. Full(h, Asker.cursor, Filter[Asker.conn], f)
    BY <1>4, <1>6, <1>7, BatchFull
  <1>10. out' = [out EXCEPT ![Owner] = {f}]
    BY <1>3, <1>6, <1>7 DEF ReadSince
  <1>11. \A u \in Threads : \A g \in out'[u] : g \in out[u] \/ (u = Owner /\ g = f)
    BY <1>10 DEF Typed
  <1> QED
    BY <1>1, <1>2, <1>3, <1>8, <1>9, <1>11, AnswerPasses
\* What holds while one thread writes to each client.
Base == Inv /\ Busy /\ Single /\ Follows

\* Why a step's records are keyed as they are: by the revision an observation
\* finds, or by the one an announcer's bump answered.
Caused(at) ==
    \/ Len(landed') = Len(landed)
    \/ /\ at = revision /\ shape \notin {None, entries}
       /\ \A e \in Added : e.kind # "announced"
    \/ at = stamp /\ \E a \in Announcers : pc[a] = "append"

\* A step of thread t under the lock: the history grows at `at` or stays, and the
\* frames F are collected.
Passing(t, at, F, G) ==
    /\ Passed(t, F, G) /\ Grown(at) /\ Caused(at)
    /\ pc[Owner] # "write" \/ streams = {}
    /\ \A id : AtHand(id)' => AtHand(id)
    /\ UNCHANGED <<mode, open, cursor, told, got, reread>>

\* What any step is, to the clients and to what is on its way to them.
Kinds ==
    \/ Still \/ Enrolled
    \/ \E c \in Conns : Asked(c) \/ Left(c)
    \/ \E t \in Threads : \E f \in out[t] : Wrote(t, f) /\ Received(f)
    \/ \E t \in Threads : \E at \in Nat : \E F \in SUBSET Answers : \E G : Passing(t, at, F, G)

\* The differences of two shapes are no announcements.
LEMMA DiffsKinds ==
  ASSUME NEW before \in SUBSET Entries, NEW now \in SUBSET Entries,
         NEW events \in Diffs(before, now)
  PROVE  \A i \in 1..Len(events) : events[i].kind # "announced"
  <1>1. ASSUME NEW S \in SUBSET Entries, NEW ids \in Sorted(S), NEW kind
        PROVE  LET made == Changes(kind, ids)
               IN  made \in Seq([kind : {kind}, of : Entries])
    <2>1. Cardinality(S) \in Nat /\ ids \in [1..Cardinality(S) -> Entries]
      BY JournalAssumption, FS_Subset, FS_CardinalityType DEF Sorted
    <2>2. ids \in Seq(Entries)
      BY <2>1, SeqDef
    <2>3. Len(ids) \in Nat /\ \A i \in 1..Len(ids) : ids[i] \in Entries
      BY <2>2, LenProperties, ElementOfSeq
    <2>4. Changes(kind, ids) \in [1..Len(ids) -> [kind : {kind}, of : Entries]]
      BY <2>3 DEF Changes
    <2> QED
      BY <2>3, <2>4, SeqOf
  <1>2. PICK pair \in Sorted(now \ before) \X Sorted(before \ now) :
           events = Changes("created", pair[1]) \o Changes("closed", pair[2])
    BY DEF Diffs
  <1>3. PICK born \in Sorted(now \ before), dead \in Sorted(before \ now) :
           born = pair[1] /\ dead = pair[2]
    OBVIOUS
  <1>4. PICK made \in Seq([kind : {"created"}, of : Entries]) : made = Changes("created", born)
    BY <1>1
  <1>5. PICK gone \in Seq([kind : {"closed"}, of : Entries]) : gone = Changes("closed", dead)
    BY <1>1
  <1>6. events = made \o gone
    BY <1>2, <1>3, <1>4, <1>5
  <1>7. /\ Len(made) \in Nat /\ Len(gone) \in Nat
        /\ \A i \in 1..Len(made) : made[i].kind = "created"
        /\ \A i \in 1..Len(gone) : gone[i].kind = "closed"
    <2>1. /\ \A i \in 1..Len(made) : made[i] \in [kind : {"created"}, of : Entries]
          /\ \A i \in 1..Len(gone) : gone[i] \in [kind : {"closed"}, of : Entries]
      BY ElementOfSeq
    <2> QED
      BY <2>1, LenProperties
  <1>8. ASSUME NEW i \in 1..Len(events) PROVE events[i].kind # "announced"
    <2>1. Len(events) = Len(made) + Len(gone)
      BY <1>6, ConcatProperties
    <2>2. CASE i <= Len(made)
      BY <1>6, <1>7, <2>1, <2>2, ConcatProperties
    <2>3. CASE ~(i <= Len(made))
      <3>1. i - Len(made) \in 1..Len(gone) /\ events[i] = gone[i - Len(made)]
        BY <1>6, <1>7, <2>1, <2>3, ConcatProperties
      <3> QED
        BY <1>7, <3>1
    <2> QED
      BY <2>2, <2>3
  <1> QED
    BY <1>8

\* An observation of a shape that has not changed records nothing.
LEMMA ObserveNew ==
  ASSUME TypeOK, Observe
  PROVE  \E events \in Seq(Events) : /\ Land(Owner, revision, events)
                                     /\ events # <<>> => shape \notin {None, entries}
                                     /\ \A i \in 1..Len(events) : events[i].kind # "announced"
  <1>1. entries \in SUBSET Entries /\ shape \in (SUBSET Entries) \cup {None}
    BY DEF TypeOK
  <1>2. PICK events \in IF shape = None THEN {<<>>} ELSE Diffs(shape, entries) :
           Land(Owner, revision, events)
    BY DEF Observe
  <1>3. CASE shape \in {None, entries}
    <2>1. events = <<>>
      BY <1>2, <1>3, DiffsSame
    <2>2. 1..Len(events) = {}
      BY <2>1, EmptySeq
    <2> QED
      BY <1>2, <2>1, <2>2, EmptySeq
  <1>4. CASE shape \notin {None, entries}
    <2>1. events \in Seq(Events) /\ \A i \in 1..Len(events) : events[i].kind # "announced"
      BY <1>1, <1>2, <1>4, DiffsType, DiffsKinds
    <2> QED
      BY <1>2, <1>4, <2>1
  <1> QED
    BY <1>3, <1>4

\* An observation is a pass of the owner's.
LEMMA ObserveKind ==
  ASSUME Base, Observe
  PROVE  \E F \in SUBSET Answers : \E G : Passing(Owner, revision, F, G)
  <1>1. /\ TypeOK /\ Typed /\ History /\ Rested /\ Single /\ Dispatching
        /\ Owner \in Threads /\ revision \in Nat
    BY TypedOK, OwedIsRested DEF Base, Inv, TypeOK, Threads
  <1>2. PICK events \in Seq(Events) : /\ Land(Owner, revision, events)
                                      /\ events # <<>> => shape \notin {None, entries}
                                      /\ \A i \in 1..Len(events) : events[i].kind # "announced"
    BY <1>1, ObserveNew
  <1>3. /\ pc[Owner] = "observe" /\ UNCHANGED <<task, mode, open, cursor, told, got, reread>>
    BY DEF Observe, client
  <1>4. UpTo(landed, revision) /\ Len(log.records) <= Capacity
    BY <1>1 DEF History, TypeOK
  <1>5. /\ Grown(revision) /\ (events = <<>> => Len(landed') = Len(landed))
        /\ \A e \in Added : \E i \in 1..Len(events) : e = events[i]
        /\ \E F \in SUBSET Answers : \E G : Passed(Owner, F, G)
    BY <1>1, <1>2, <1>3, <1>4, LandPasses
  <1>6. Caused(revision) /\ pc[Owner] # "write"
    BY <1>2, <1>3, <1>5 DEF Caused
  <1>7. pc'[Owner] \notin {"read", "open", "arm"}
    <2>1. PICK frames \in SUBSET Answers : Flush(Owner, frames, After(Owner))
      BY <1>1, <1>2, <1>4, LandStep
    <2>2. After(Owner) \in {"idle", "park", "enroll"} /\ After(Owner) \in Places
      BY <1>1, AfterType
    <2>3. pc'[Owner] \in {After(Owner), "write"}
      BY <1>1, <2>1, <2>2, FlushStep
    <2> QED
      BY <2>2, <2>3
  <1>8. \A id : AtHand(id)' => AtHand(id)
    BY <1>3, <1>7 DEF AtHand
  <1> QED
    BY <1>3, <1>5, <1>6, <1>8 DEF Passing

\* An announcer's append is a pass of its own.
LEMMA AppendKind ==
  ASSUME Base, OneWriter, NEW a \in Announcers, AnnounceAppend(a)
  PROVE  \E F \in SUBSET Answers : \E G : Passing(a, stamp, F, G)
  <1>1. /\ TypeOK /\ Typed /\ History /\ Rested /\ Single /\ Appending /\ Busy
        /\ a \in Threads /\ stamp \in Nat
    BY TypedOK, OwedIsRested DEF Base, Inv, TypeOK, Threads
  <1>2. PICK events \in Seq(Events) : Land(a, stamp, events)
    BY AnnounceLands
  <1>3. /\ pc[a] = "append" /\ UNCHANGED <<task, mode, open, cursor, told, got, reread>>
    BY DEF AnnounceAppend, client
  <1>4. UpTo(landed, stamp) /\ Caused(stamp)
    BY <1>1, <1>3 DEF Appending, Caused
  <1>5. streams = {}
    BY <1>1 DEF OneWriter, Busy
  <1>6. Len(log.records) <= Capacity
    BY <1>1 DEF TypeOK
  <1>7. Grown(stamp) /\ \E F \in SUBSET Answers : \E G : Passed(a, F, G)
    BY <1>1, <1>2, <1>4, <1>5, <1>6, LandPasses
  <1>8. pc'[Owner] = pc[Owner]
    BY <1>1, OthersStep
  <1>9. \A id : AtHand(id)' => AtHand(id)
    BY <1>3, <1>8 DEF AtHand
  <1> QED
    BY <1>3, <1>4, <1>5, <1>7, <1>9 DEF Passing

\* The other passes of the owner land nothing.
LEMMA OwnerKind ==
  ASSUME Base, ParkOrAnswer \/ Arm \/ Drain \/ ReadSince
  PROVE  \E F \in SUBSET Answers : \E G : Passing(Owner, revision, F, G)
  <1>1. /\ TypeOK /\ Typed /\ History /\ Single /\ Dispatching /\ revision \in Nat
    BY TypedOK DEF Base, Inv, TypeOK
  <1>2. UNCHANGED landed /\ UNCHANGED <<mode, open, cursor, told, got, reread>>
    BY DEF ParkOrAnswer, Arm, Drain, ReadSince, client
  <1>3. Grown(revision) /\ Caused(revision)
    BY <1>1, <1>2, NotGrown DEF Caused
  <1>4. pc[Owner] # "write"
    BY DEF ParkOrAnswer, Arm, Drain, ReadSince
  <1>5. \E F \in SUBSET Answers : \E G : Passed(Owner, F, G)
    BY <1>1, ParkPasses, ArmPasses, DrainPasses, ReadPasses
  <1>6. ASSUME NEW id, AtHand(id)' PROVE AtHand(id)
    <2>1. CASE ParkOrAnswer \/ ReadSince
      <3>1. Handed
        BY <1>1, <2>1, ParkPasses, ReadPasses
      <3> QED
        BY <1>6, <3>1 DEF Handed
    <2>2. CASE Arm
      <3>1. task'.kind \notin {"wait", "read", "subscribe"}
        BY <1>1, <2>2 DEF Arm, TypeOK
      <3> QED
        BY <1>6, <3>1 DEF AtHand
    <2>3. CASE Drain
      <3>1. task'.kind = "query"
        BY <1>1, <2>3 DEF Drain, Dispatching
      <3> QED
        BY <1>6, <3>1 DEF AtHand
    <2> QED
      BY <2>1, <2>2, <2>3
  <1> QED
    BY <1>2, <1>3, <1>4, <1>5, <1>6 DEF Passing

\* A request of a client's takes the next id.
LEMMA AskKind ==
  ASSUME Base, NEW c \in Conns, WaitFor(c) \/ Subscribe(c) \/ ReadSlot(c)
  PROVE  Asked(c)
  <1>1. Typed
    BY TypedOK DEF Base, Inv
  <1>2. /\ pc[Owner] = "idle" /\ task'.conn = c /\ mode[c] = "idle"
        /\ open' = [open EXCEPT ![c] = nextId]
        /\ UNCHANGED <<parked, streams, out, landed, cursor, got, reread>>
    BY DEF WaitFor, Subscribe, ReadSlot, Take, Ask, channel
  <1>3. \E doing \in {"waiting", "opening", "reading"} :
           mode' = [mode EXCEPT ![c] = doing] /\ (doing = "reading" \/ UNCHANGED told)
    BY DEF WaitFor, Subscribe, ReadSlot, Ask
  <1>4. \A d \in Conns \ {c} : told'[d] = told[d]
    BY <1>1 DEF WaitFor, Subscribe, ReadSlot, Typed
  <1>5. Besides(c)
    BY <1>1, <1>2, <1>3, <1>4 DEF Besides, Typed
  <1>6. open'[c] = nextId /\ (mode'[c] = "reading" \/ told'[c] = told[c])
    BY <1>1, <1>2, <1>3 DEF Typed
  <1>7. \A id : AtHand(id)' => id = nextId
    BY <1>2, <1>6 DEF AtHand
  <1> QED
    BY <1>2, <1>5, <1>6, <1>7 DEF Asked

\* A client unsubscribes or goes between two requests.
LEMMA LeaveKind ==
  ASSUME Base, NEW c \in Conns, Unsubscribe(c) \/ Disconnect(c)
  PROVE  Left(c)
  <1>1. Typed /\ Busy
    BY TypedOK DEF Base, Inv
  <1>2. /\ pc[Owner] = "idle" /\ UNCHANGED <<pc, task, out, landed, cursor, got, reread>>
        /\ open' = [open EXCEPT ![c] = 0] /\ mode' = [mode EXCEPT ![c] = "idle"]
        /\ parked' \subseteq parked /\ streams' \subseteq streams
    BY DEF Unsubscribe, Disconnect
  <1>3. \/ UNCHANGED told /\ mode[c] # "reading"
        \/ told' = [told EXCEPT ![c] = 0]
    BY DEF Unsubscribe, Disconnect
  <1>4. \A id : ~AtHand(id)'
    BY <1>1, <1>2 DEF AtHand, Busy
  <1>5. Besides(c)
    BY <1>1, <1>2, <1>3 DEF Besides, Typed
  <1>6. open'[c] = 0 /\ mode'[c] = "idle" /\ (told'[c] = 0 \/ (told'[c] = told[c] /\ mode[c] # "reading"))
    BY <1>1, <1>2, <1>3 DEF Typed
  <1> QED
    BY <1>2, <1>4, <1>5, <1>6 DEF Left

\* The request at hand becomes a stream.
LEMMA EnrollKind == ASSUME Base, Enroll PROVE Enrolled
  <1>1. Typed /\ Dispatching
    BY TypedOK DEF Base, Inv
  <1>2. /\ pc[Owner] = "enroll" /\ pc' = [pc EXCEPT ![Owner] = "open"]
        /\ streams' = streams \cup {[id |-> open[task.conn], conn |-> task.conn,
                                     cursor |-> cursor[task.conn], armed |-> FALSE]}
        /\ UNCHANGED <<task, parked, out, open, mode, cursor, told, got, reread, landed>>
    BY DEF Enroll, Goto, client
  <1>3. task.kind = "subscribe" /\ task.conn \in Conns /\ pc'[Owner] = "open"
    BY <1>1, <1>2 DEF Dispatching, Typed
  <1>4. AtHand(open[task.conn]) /\ \A id : ~AtHand(id)'
    BY <1>2, <1>3 DEF AtHand
  <1> QED
    BY <1>2, <1>3, <1>4 DEF Enrolled

\* The rest moves nobody.
LEMMA QuietKind ==
  ASSUME Base, \/ Query \/ Kill \/ Opened \/ PaneOutput \/ UNCHANGED vars
               \/ \E now \in SUBSET Entries : Mutate(now)
               \/ \E a \in Announcers : AnnounceBump(a)
               \/ \E e \in Elsewhere : ChangeElsewhere(e)
  PROVE  Still
  <1>1. Typed /\ Busy /\ Dispatching /\ Owner \notin Announcers
    BY TypedOK, JournalAssumption DEF Base, Inv
  <1>2. UNCHANGED <<parked, streams, out, open, cursor, told, got, reread, landed>>
    <2>1. CASE \E now \in SUBSET Entries : Mutate(now)
      BY <2>1 DEF Mutate, channel, client
    <2>2. CASE \E a \in Announcers : AnnounceBump(a)
      BY <2>2 DEF AnnounceBump, channel, client
    <2>3. CASE \E e \in Elsewhere : ChangeElsewhere(e)
      BY <2>3 DEF ChangeElsewhere, channel, client
    <2> QED
      BY <2>1, <2>2, <2>3 DEF Query, Kill, Opened, PaneOutput, vars, channel, client
  <1>3. CASE Query \/ Kill \/ \E now \in SUBSET Entries : Mutate(now)
    <2>1. pc[Owner] = "idle" /\ task'.kind = "query" /\ UNCHANGED mode
      BY <1>3 DEF Query, Kill, Mutate, Take, client
    <2> QED
      BY <1>2, <2>1 DEF Still, AtHand
  <1>4. CASE Opened
    <2>1. /\ pc[Owner] = "open" /\ pc' = [pc EXCEPT ![Owner] = "arm"] /\ UNCHANGED task
          /\ mode' = [mode EXCEPT ![task.conn] = "streaming"]
      BY <1>4 DEF Opened, Goto
    <2>2. task.kind = "subscribe" /\ mode[task.conn] = "opening" /\ pc'[Owner] = "arm"
      BY <1>1, <2>1 DEF Dispatching, Busy, Typed
    <2> QED
      BY <1>1, <1>2, <2>1, <2>2 DEF Still, AtHand, Typed
  <1>5. CASE \/ PaneOutput \/ UNCHANGED vars
             \/ \E a \in Announcers : AnnounceBump(a)
             \/ \E e \in Elsewhere : ChangeElsewhere(e)
    <2>1. UNCHANGED <<task, mode>> /\ pc'[Owner] = pc[Owner]
      <3>1. CASE \E a \in Announcers : AnnounceBump(a)
        BY <1>1, <3>1 DEF AnnounceBump, Goto, client, Typed
      <3>2. CASE \E e \in Elsewhere : ChangeElsewhere(e)
        BY <3>2 DEF ChangeElsewhere, client
      <3> QED
        BY <1>5, <3>1, <3>2 DEF PaneOutput, vars, client
    <2> QED
      BY <1>2, <2>1 DEF Still, AtHand
  <1> QED
    BY <1>3, <1>4, <1>5

\* There is no other kind of step.
LEMMA StepKinds == ASSUME Base, OneWriter, [Next]_vars PROVE Kinds
  <1>0. TypeOK /\ Owner \in Threads /\ Announcers \subseteq Threads /\ revision \in Nat /\ stamp \in Nat
    BY DEF Base, Inv, TypeOK, Threads
  <1>1. CASE \/ Query \/ Kill \/ Opened \/ PaneOutput \/ UNCHANGED vars
             \/ \E now \in SUBSET Entries : Mutate(now)
             \/ \E a \in Announcers : AnnounceBump(a)
             \/ \E e \in Elsewhere : ChangeElsewhere(e)
    BY <1>1, QuietKind DEF Kinds
  <1>2. CASE Observe \/ ParkOrAnswer \/ Arm \/ Drain \/ ReadSince
    BY <1>0, <1>2, ObserveKind, OwnerKind DEF Kinds
  <1>3. ASSUME NEW a \in Announcers, AnnounceAppend(a) PROVE Kinds
    BY <1>0, <1>3, AppendKind DEF Kinds
  <1>4. ASSUME NEW c \in Conns, WaitFor(c) \/ Subscribe(c) \/ ReadSlot(c) PROVE Kinds
    BY <1>4, AskKind DEF Kinds
  <1>5. ASSUME NEW c \in Conns, Unsubscribe(c) \/ Disconnect(c) PROVE Kinds
    BY <1>5, LeaveKind DEF Kinds
  <1>6. CASE Enroll
    BY <1>6, EnrollKind DEF Kinds
  <1>7. ASSUME NEW t \in Threads, Send(t) PROVE Kinds
    BY <1>0, <1>7, SendWrites DEF Kinds
  <1> QED
    BY <1>0, <1>1, <1>2, <1>3, <1>4, <1>5, <1>6, <1>7
    DEF Next, Request, Refused, OwnerStep, AnnouncerStep
(***************************************************************************)
(* Who is busy with what.                                                  *)
(***************************************************************************)
\* A step that leaves the owner, its request and that request's client alone.
LEMMA BusySame ==
  ASSUME Busy, UNCHANGED task, pc'[Owner] = pc[Owner], streams' \subseteq streams,
         mode[task.conn] \in {"opening", "reading"} => mode'[task.conn] = mode[task.conn]
  PROVE  Busy'
  BY DEF Busy

\* The steps that take a request.
LEMMA BusyTake ==
  ASSUME Typed, Busy, Dispatching, NEW kind, NEW c, NEW place, Take(kind, c, place),
         UNCHANGED streams, place \in {"observe", "read", "drain"},
         kind \in {"wait", "subscribe"} => place = "observe",
         kind = "subscribe" => c \in Subscribers /\ mode'[c] = "opening",
         place = "read" => kind = "read" /\ mode'[c] = "reading"
  PROVE  Busy'
  <1>1. task' = [kind |-> kind, conn |-> c] /\ pc' = [pc EXCEPT ![Owner] = place]
    BY DEF Take, Goto
  <1>2. task'.kind = kind /\ task'.conn = c /\ pc'[Owner] = place
    BY <1>1 DEF Typed
  <1> QED
    BY <1>2 DEF Busy

\* A request makes its client's mode what the owner is busy with.
LEMMA BusyRequests ==
  ASSUME Typed, Busy, Dispatching, Request PROVE Busy'
  <1> USE DEF channel, client
  <1>0. mode \in [Conns -> {"idle", "waiting", "opening", "reading", "streaming"}]
    BY DEF Typed
  <1>1. ASSUME NEW now \in SUBSET Entries, Mutate(now) PROVE Busy'
    BY <1>1, BusyTake DEF Mutate
  <1>2. CASE Query
    BY <1>2, BusyTake DEF Query
  <1>3. CASE Kill
    BY <1>3, BusyTake DEF Kill
  <1>4. ASSUME NEW c \in Conns, WaitFor(c) PROVE Busy'
    BY <1>4, BusyTake DEF WaitFor
  <1>5. ASSUME NEW c \in Conns, Subscribe(c) PROVE Busy'
    <2>1. mode'[c] = "opening" /\ c \in Subscribers /\ Take("subscribe", c, "observe")
      BY <1>0, <1>5 DEF Subscribe, Ask
    <2> QED
      BY <1>5, <2>1, BusyTake DEF Subscribe
  <1>6. ASSUME NEW c \in Conns, ReadSlot(c) PROVE Busy'
    <2>1. mode'[c] = "reading" /\ Take("read", c, "read")
      BY <1>0, <1>6 DEF ReadSlot, Ask
    <2> QED
      BY <1>6, <2>1, BusyTake DEF ReadSlot
  <1>7. ASSUME NEW c \in Conns, Unsubscribe(c) \/ Disconnect(c) PROVE Busy'
    <2>1. pc[Owner] = "idle" /\ UNCHANGED <<pc, task>> /\ streams' \subseteq streams
      BY <1>7 DEF Unsubscribe, Disconnect
    <2> QED
      BY <2>1 DEF Busy
  <1>8. CASE Refused
    BY <1>8, BusySame DEF Refused, vars
  <1> QED
    BY <1>1, <1>2, <1>3, <1>4, <1>5, <1>6, <1>7, <1>8 DEF Request
\* A pass opens no stream.
LEMMA PassStreams ==
  ASSUME NEW t, NEW F, NEW G, Passed(t, F, G), streams = {} PROVE streams' = {}
  BY DEF Passed

\* Where a pass of the owner leaves it.
LEMMA FlushOwner ==
  ASSUME Typed, NEW next, NEW frames, Flush(Owner, frames, next)
  PROVE  pc'[Owner] \in {next, "write"}
  BY DEF Flush, Typed

\* The owner's own steps keep its request's client in step with it.
LEMMA BusyOwner ==
  ASSUME Base, Observe \/ ParkOrAnswer \/ Arm \/ Drain \/ ReadSince \/ Enroll \/ Opened
  PROVE  Busy'
  <1>0. /\ Typed /\ TypeOK /\ Busy /\ Dispatching /\ Owner \in Threads
        /\ task \in [kind : {"query", "wait", "subscribe", "read"}, conn : Conns \cup {None}]
        /\ pc \in [Threads -> Places]
        /\ mode \in [Conns -> {"idle", "waiting", "opening", "reading", "streaming"}]
    BY TypedOK DEF Base, Inv, TypeOK, Threads, Typed
  <1>1. ASSUME Observe \/ ParkOrAnswer \/ Arm \/ Drain \/ ReadSince, streams = {}
        PROVE  streams' = {}
    <2>1. \E F \in SUBSET Answers : \E G : Passing(Owner, revision, F, G)
      BY <1>1, ObserveKind, OwnerKind
    <2> QED
      BY <1>1, <2>1, PassStreams DEF Passing
  <1>2. CASE Observe
    <2>1. /\ pc[Owner] = "observe" /\ UNCHANGED <<task, mode>>
          /\ \E frames : Flush(Owner, frames, After(Owner))
      BY <1>2 DEF Observe, Land, client
    <2>2. pc'[Owner] \in {After(Owner), "write"}
      BY <1>0, <2>1, FlushOwner
    <2>3. After(Owner) = IF task.kind = "wait" THEN "park"
                         ELSE IF task.kind = "subscribe" THEN "enroll" ELSE "idle"
      BY DEF After
    <2> QED
      BY <1>0, <1>1, <1>2, <2>1, <2>2, <2>3 DEF Busy
  <1>3. CASE ParkOrAnswer \/ Arm \/ Drain
    <2>1. task'.kind = "query"
      BY <1>0, <1>3 DEF ParkOrAnswer, Arm, Drain, Dispatching
    <2>2. \E frames : Flush(Owner, frames, "idle")
      BY <1>3 DEF ParkOrAnswer, Arm, Drain
    <2>3. pc'[Owner] \in {"idle", "write"}
      BY <1>0, <2>2, FlushOwner
    <2> QED
      BY <1>0, <1>1, <1>3, <2>1, <2>3 DEF Busy
  <1>4. CASE ReadSince
    <2>1. pc[Owner] = "read" /\ pc' = [pc EXCEPT ![Owner] = "observe"] /\ UNCHANGED task
      BY <1>4 DEF ReadSince, Goto
    <2>2. task.kind = "read" /\ pc'[Owner] = "observe"
      BY <1>0, <2>1 DEF Dispatching
    <2> QED
      BY <1>0, <1>1, <1>4, <2>1, <2>2 DEF Busy
  <1>5. CASE Enroll
    <2>1. /\ pc[Owner] = "enroll" /\ pc' = [pc EXCEPT ![Owner] = "open"]
          /\ UNCHANGED <<task, mode>>
      BY <1>5 DEF Enroll, Goto, client
    <2>2. task.kind = "subscribe" /\ pc'[Owner] = "open"
      BY <1>0, <2>1 DEF Dispatching
    <2> QED
      BY <1>0, <2>1, <2>2 DEF Busy
  <1>6. CASE Opened
    <2>1. /\ pc[Owner] = "open" /\ pc' = [pc EXCEPT ![Owner] = "arm"]
          /\ UNCHANGED <<task, streams>>
      BY <1>6 DEF Opened, Goto, channel
    <2>2. task.kind = "subscribe" /\ pc'[Owner] = "arm"
      BY <1>0, <2>1 DEF Dispatching
    <2> QED
      BY <1>0, <2>1, <2>2 DEF Busy
  <1> QED
    BY <1>2, <1>3, <1>4, <1>5, <1>6

\* A written frame is not for the client whose request the owner still holds.
LEMMA BusySend == ASSUME Base, NEW t \in Threads, Send(t) PROVE Busy'
  <1>0. /\ Typed /\ TypeOK /\ Busy /\ Single /\ Dispatching /\ Opening /\ Owner \in Threads
        /\ pc \in [Threads -> Places]
    BY TypedOK DEF Base, Inv, TypeOK, Threads, Typed
  <1>1. PICK f \in out[t] : Wrote(t, f) /\ Received(f)
    BY <1>0, SendWrites
  <1>2. UNCHANGED <<task, streams>> /\ f.id # 0
    BY <1>0, <1>1 DEF Wrote, Single
  <1>3. \A c \in Conns : open[c] # f.id => mode'[c] = mode[c]
    BY <1>0, <1>1, <1>2, ReceivedBy
  <1>4. task.kind = "subscribe" /\ pc[Owner] # "arm" =>
           mode[task.conn] = "opening" /\ mode'[task.conn] = "opening"
    <2> SUFFICES ASSUME task.kind = "subscribe", pc[Owner] # "arm"
                 PROVE  mode[task.conn] = "opening" /\ mode'[task.conn] = "opening"
      OBVIOUS
    <2>1. task.conn \in Conns /\ mode[task.conn] = "opening"
      BY <1>0 DEF Busy, Dispatching
    <2>2. open[task.conn] # f.id
      BY <1>0, <2>1 DEF Opening
    <2> QED
      BY <1>3, <2>1, <2>2
  <1>5. pc[Owner] = "read" => mode'[task.conn] = "reading"
    <2> SUFFICES ASSUME pc[Owner] = "read" PROVE mode'[task.conn] = "reading"
      OBVIOUS
    <2>1. task.kind = "read" /\ task.conn \in Conns /\ mode[task.conn] = "reading"
      BY <1>0 DEF Busy, Dispatching
    <2>2. AtHand(open[task.conn])
      BY <2>1 DEF AtHand
    <2>3. open[task.conn] # f.id
      BY <1>0, <2>2 DEF Single
    <2> QED
      BY <1>3, <2>1, <2>3
  <1>6. CASE t = Owner
    <2>1. /\ pc[Owner] = "write"
          /\ pc' = [pc EXCEPT ![Owner] = IF out'[Owner] = {} THEN After(Owner) ELSE "write"]
      BY <1>6 DEF Send, Goto
    <2>2. After(Owner) = IF task.kind = "wait" THEN "park"
                         ELSE IF task.kind = "subscribe" THEN "enroll" ELSE "idle"
      BY DEF After
    <2>3. pc'[Owner] \in {After(Owner), "write"}
      BY <1>0, <2>1
    <2> QED
      BY <1>0, <1>2, <1>4, <2>1, <2>2, <2>3 DEF Busy
  <1>7. CASE t # Owner
    <2>1. pc'[Owner] = pc[Owner]
      BY <1>1, <1>7 DEF Wrote
    <2> QED
      BY <1>0, <1>2, <1>4, <1>5, <2>1 DEF Busy
  <1> QED
    BY <1>6, <1>7

\* So does every step.
LEMMA BusyStep == ASSUME Base, OneWriter, [Next]_vars PROVE Busy'
  <1>0. /\ Typed /\ TypeOK /\ Busy /\ Dispatching /\ Owner \in Threads /\ Announcers \subseteq Threads
        /\ History /\ Rested /\ Appending
    BY TypedOK, OwedIsRested DEF Base, Inv, TypeOK, Threads
  <1>1. CASE Request
    BY <1>0, <1>1, BusyRequests
  <1>2. CASE Observe \/ ParkOrAnswer \/ Arm \/ Drain \/ ReadSince \/ Enroll \/ Opened
    BY <1>2, BusyOwner
  <1>3. ASSUME NEW t \in Threads, Send(t) PROVE Busy'
    BY <1>3, BusySend
  <1>4. ASSUME NEW a \in Announcers, AnnounceBump(a) \/ AnnounceAppend(a) PROVE Busy'
    <2>1. pc'[Owner] = pc[Owner] /\ UNCHANGED <<task, mode>>
      BY <1>0, <1>4, OthersStep DEF AnnounceBump, AnnounceAppend, client
    <2>2. streams = {} => streams' = {}
      <3>1. CASE AnnounceBump(a)
        BY <3>1 DEF AnnounceBump, channel
      <3>2. CASE AnnounceAppend(a)
        <4>1. \E F \in SUBSET Answers : \E G : Passing(a, stamp, F, G)
          BY <3>2, AppendKind
        <4> QED
          BY <4>1, PassStreams DEF Passing
      <3> QED
        BY <1>4, <3>1, <3>2
    <2> QED
      BY <1>0, <2>1, <2>2 DEF Busy
  <1>5. CASE PaneOutput \/ UNCHANGED vars \/ \E e \in Elsewhere : ChangeElsewhere(e)
    <2>1. UNCHANGED <<pc, task, mode, streams>>
      BY <1>5 DEF PaneOutput, vars, ChangeElsewhere, channel, client
    <2> QED
      BY <1>0, <2>1 DEF Busy
  <1> QED
    BY <1>0, <1>1, <1>2, <1>3, <1>4, <1>5 DEF Next, OwnerStep, AnnouncerStep

(***************************************************************************)
(* The invariant, where one thread writes to each client.                  *)
(***************************************************************************)
\* Every step keeps ids in one place, and hands every client what is next for it.
LEMMA FollowsStep == ASSUME Base, Kinds PROVE Single' /\ Follows'
  <1>0. /\ Typed /\ Single /\ Follows /\ Dispatching /\ Issued /\ nextId \in Nat \ {0}
    BY TypedOK DEF Base, Inv, TypeOK
  <1>1. CASE Still
    BY <1>0, <1>1, StillFollows
  <1>2. CASE Enrolled
    BY <1>0, <1>2, EnrolledFollows
  <1>3. ASSUME NEW c \in Conns, Asked(c) PROVE Single' /\ Follows'
    BY <1>0, <1>3, AskedFollows
  <1>4. ASSUME NEW c \in Conns, Left(c) PROVE Single' /\ Follows'
    BY <1>0, <1>4, LeftFollows
  <1>5. ASSUME NEW t \in Threads, NEW f \in out[t], Wrote(t, f), Received(f)
        PROVE  Single' /\ Follows'
    BY <1>0, <1>5, WroteSingle, WroteFollows
  <1>6. ASSUME NEW t \in Threads, NEW at \in Nat, NEW F \in SUBSET Answers, NEW G,
               Passing(t, at, F, G)
        PROVE  Single' /\ Follows'
    <2>1. /\ Passed(t, F, G) /\ Grown(at) /\ (pc[Owner] # "write" \/ streams = {})
          /\ \A id : AtHand(id)' => AtHand(id)
          /\ UNCHANGED <<open, cursor, got>>
      BY <1>6 DEF Passing
    <2>2. Single'
      BY <1>0, <2>1, PassSingle
    <2>3. Follows'
      BY <1>0, <2>1, PassFollows
    <2> QED
      BY <2>2, <2>3
  <1> QED
    BY <1>1, <1>2, <1>3, <1>4, <1>5, <1>6 DEF Kinds

\* It holds of a session that was just created.
LEMMA InitBase == Init => Base
  <1> SUFFICES ASSUME Init PROVE Base
    OBVIOUS
  <1>1. Inv /\ Owner \in Threads
    BY InitInv DEF Threads
  <1> USE DEF Init
  <1>2. Busy
    BY <1>1 DEF Busy
  <1>3. Single
    BY <1>1 DEF Single, AtHand
  <1>4. Follows
    BY <1>1 DEF Follows, Kept, Waiting, Streaming, Fitting
  <1> QED
    BY <1>1, <1>2, <1>3, <1>4 DEF Base

\* Every step keeps it.
LEMMA BaseStep == ASSUME OneWriter, Base, [Next]_vars PROVE Base'
  <1>1. Inv'
    BY InvStep DEF Base
  <1>2. Single' /\ Follows'
    BY StepKinds, FollowsStep
  <1> QED
    BY <1>1, <1>2, BusyStep DEF Base

\* Where every subscription has one writer, no client has an answer of another's
\* coming, or one that is not next for it (JournalChannel::answer, write_all).
THEOREM BaseInvariant == ASSUME OneWriter PROVE Spec => []Base
  <1>1. Base /\ [Next]_vars => Base'
    BY BaseStep
  <1> QED
    BY <1>1, InitBase, PTL DEF Spec

\* No record is on its way to a client that has it, or twice on its way, whoever
\* appends and whatever changes elsewhere, as long as no announcer writes to a
\* subscription: "exactly once" of notify.rs.
THEOREM OnceOnly == ASSUME OneWriter PROVE Spec => []NeverTwice
  <1>1. ASSUME Base PROVE NeverTwice
    <2> SUFFICES ASSUME NEW c \in Conns, NEW t \in Threads, NEW u \in Threads,
                        NEW f \in Mine(c, t), NEW g \in Mine(c, u)
                 PROVE  /\ f.events \cap got[c] = {}
                        /\ t # u \/ f # g => f.events \cap g.events = {}
      BY DEF NeverTwice
    <2>1. Typed /\ Single /\ Kept(c) /\ Fitting(c)
      BY <1>1, TypedOK DEF Base, Inv, Follows
    <2>2. f \in out[t] /\ g \in out[u] /\ f.id = open[c] /\ g.id = open[c]
      BY DEF Mine
    <2>3. t = u /\ f = g
      BY <2>1, <2>2 DEF Single
    <2>4. ASSUME NEW n \in f.events, n \in got[c] PROVE FALSE
      <3>1. n \in 1..Len(landed) /\ cursor[c] < landed[n].revision
        BY <2>1, <2>2 DEF Fitting, Within
      <3>2. landed[n].revision <= cursor[c]
        BY <2>1, <2>4 DEF Kept
      <3>3. landed[n].revision \in Nat /\ cursor[c] \in Nat
        BY <2>1, <3>1, RecElements DEF Typed
      <3> QED
        BY <3>1, <3>2, <3>3
    <2> QED
      BY <2>3, <2>4
  <1> QED
    BY <1>1, BaseInvariant, PTL

(***************************************************************************)
(* The invariant, of what is owed.                                         *)
(***************************************************************************)
\* What holds besides Base.
FInv == Base /\ Fresh /\ Feeds

\* What is about to land lands above every cursor, if it is owed.
LEMMA CausedAbove ==
  ASSUME Fresh, NEW at, Caused(at)
  PROVE  Above(at) /\ (Len(landed') = Len(landed) \/ at > 0)
  <1>1. CASE Len(landed') = Len(landed)
    BY <1>1 DEF Above
  <1>2. CASE at = revision /\ Apart /\ shape \notin {None, entries}
    BY <1>2 DEF Fresh, Above
  <1>3. CASE at = revision /\ ~Apart /\ \A e \in Added : e.kind # "announced"
    <2>1. Added \cap Sure = {}
      BY <1>3 DEF Sure
    <2> QED
      BY <1>3, <2>1 DEF Fresh, Above
  <1>4. CASE at = stamp /\ \E a \in Announcers : pc[a] = "append"
    BY <1>4 DEF Fresh, Above
  <1> QED
    BY <1>1, <1>2, <1>3, <1>4 DEF Caused

\* What landed is above nothing: a step adds above 0, and takes nothing back.
LEMMA LandedMoves ==
  ASSUME Typed, Fresh, Kinds
  PROVE  \A n \in 1..Len(landed') : landed'[n].revision > 0
  <1>0. \A n \in 1..Len(landed) : landed[n].revision > 0
    BY DEF Fresh
  <1>1. CASE UNCHANGED landed
    BY <1>0, <1>1
  <1>2. ASSUME NEW at \in Nat, at > 0, Grown(at)
        PROVE  \A n \in 1..Len(landed') : landed'[n].revision > 0
    <2>1. Len(landed) \in Nat /\ Len(landed') \in Nat /\ Longer(landed, landed', at)
      BY <1>2, LenProperties DEF Typed, Grown
    <2>2. \A n \in 1..Len(landed') : n <= Len(landed) => n \in 1..Len(landed)
      BY <2>1
    <2> QED
      BY <1>0, <1>2, <2>1, <2>2 DEF Longer
  <1>3. ASSUME NEW at \in Nat, Grown(at), Len(landed') = Len(landed)
        PROVE  \A n \in 1..Len(landed') : landed'[n].revision > 0
    BY <1>0, <1>3 DEF Longer, Grown
  <1>4. ASSUME ~UNCHANGED landed PROVE \E at \in Nat : Caused(at) /\ Grown(at)
    BY <1>4 DEF Kinds, Still, Enrolled, Asked, Left, Wrote, Passing
  <1> QED
    BY <1>1, <1>2, <1>3, <1>4, CausedAbove

\* A step leaves every cursor where it was, at another's place, at what is on its
\* way, or at what landed.
LEMMA UnderMoves ==
  ASSUME Typed, Kinds, NEW r, Under(r),
         \A n \in 1..Len(landed') : landed'[n].revision < r
  PROVE  Under(r)'
  <1>0. /\ \A c \in Conns : cursor[c] < r
        /\ \A w \in parked : w.cursor < r
        /\ \A s \in streams : s.cursor < r
        /\ \A t \in Threads : \A f \in out[t] : f.next < r
    BY DEF Under
  <1>1. CASE UNCHANGED <<cursor, parked, streams, out>>
    BY <1>1 DEF Under
  <1>2. CASE Enrolled
    <2>1. PICK b \in BOOLEAN :
             streams' = streams \cup {[id |-> open[task.conn], conn |-> task.conn,
                                       cursor |-> cursor[task.conn], armed |-> b]}
      BY <1>2 DEF Enrolled
    <2>2. \A s \in streams' : s \in streams \/ s.cursor = cursor[task.conn]
      BY <2>1
    <2>3. task.conn \in Conns /\ UNCHANGED <<cursor, parked, out>>
      BY <1>2 DEF Enrolled
    <2> QED
      BY <1>0, <2>2, <2>3 DEF Under
  <1>3. ASSUME NEW c \in Conns, Left(c) PROVE Under(r)'
    <2>1. \A d \in Conns : cursor'[d] = cursor[d]
      BY <1>3 DEF Left, Besides
    <2>2. parked' \subseteq parked /\ streams' \subseteq streams /\ UNCHANGED out
      BY <1>3 DEF Left
    <2> QED
      BY <1>0, <2>1, <2>2 DEF Under
  <1>4. ASSUME NEW c \in Conns, Asked(c) PROVE Under(r)'
    <2>1. \A d \in Conns : cursor'[d] = cursor[d]
      BY <1>4 DEF Asked, Besides
    <2>2. UNCHANGED <<parked, streams, out>>
      BY <1>4 DEF Asked
    <2> QED
      BY <1>0, <2>1, <2>2 DEF Under
  <1>5. ASSUME NEW t \in Threads, NEW f \in out[t], Wrote(t, f), Received(f) PROVE Under(r)'
    <2>1. /\ UNCHANGED <<parked, streams>> /\ out \in [Threads -> SUBSET Answers]
          /\ out' = [out EXCEPT ![t] = @ \ {f}] /\ cursor \in [Conns -> Nat]
      BY <1>5 DEF Wrote, Typed
    <2>2. \A u \in Threads : out'[u] \subseteq out[u]
      BY <2>1
    <2>3. cursor' = cursor \/ \E c \in Conns : cursor' = [cursor EXCEPT ![c] = f.next]
      BY <1>5 DEF Received, Deliver
    <2>4. \A c \in Conns : cursor'[c] = cursor[c] \/ cursor'[c] = f.next
      BY <2>1, <2>3
    <2> QED
      BY <1>0, <2>1, <2>2, <2>4 DEF Under
  <1>6. ASSUME NEW t \in Threads, NEW at \in Nat, NEW F \in SUBSET Answers, NEW G,
               Passing(t, at, F, G)
        PROVE  Under(r)'
    <2>1. Passed(t, F, G) /\ UNCHANGED cursor
      BY <1>6 DEF Passing
    <2>2. Handed => Asker.cursor < r
      BY <1>0 DEF Handed, Asker
    <2>3. ASSUME NEW x, NEW wanted, NEW f, x < r, Full(landed', x, wanted, f) PROVE f.next < r
      BY <2>3 DEF Full
    <2>4. ASSUME NEW f \in F PROVE f.next < r
      <3>1. CASE \E q \in parked \cup streams :
                    f.id = q.id /\ Full(landed', q.cursor, Filter[q.conn], f)
        BY <1>0, <2>3, <3>1
      <3>2. CASE Handed /\ Full(landed', Asker.cursor, Filter[Asker.conn], f)
        BY <2>2, <2>3, <3>2
      <3> QED
        BY <2>1, <3>1, <3>2 DEF Passed
    <2>5. \A u \in Threads : \A f \in out'[u] : f.next < r
      BY <1>0, <2>1, <2>4 DEF Passed
    <2>6. \A w \in parked' : w.cursor < r
      BY <1>0, <2>1, <2>2 DEF Passed
    <2>7. \A s \in streams' : s.cursor < r
      <3> SUFFICES ASSUME NEW s \in streams' PROVE s.cursor < r
        OBVIOUS
      <3>1. PICK u \in streams : s.cursor = u.cursor \/ \E f \in F : s.cursor = f.next
        BY <2>1 DEF Passed
      <3> QED
        BY <1>0, <2>4, <3>1
    <2> QED
      BY <1>0, <2>1, <2>5, <2>6, <2>7 DEF Under
  <1> QED
    BY <1>1, <1>2, <1>3, <1>4, <1>5, <1>6 DEF Kinds, Still

\* What is below r is below anything above r.
LEMMA UnderAbove ==
  ASSUME Typed, NEW r \in Nat, NEW q \in Nat, r <= q, Under(r) PROVE Under(q)
  <1>1. \A n \in 1..Len(landed) : landed[n].revision \in Nat
    BY RecElements DEF Typed
  <1>2. \A c \in Conns : cursor[c] \in Nat
    BY DEF Typed
  <1>3. /\ \A w \in parked : w.cursor \in Nat
        /\ \A s \in streams : s.cursor \in Nat
        /\ \A t \in Threads : \A f \in out[t] : f.next \in Nat
    BY DEF Typed, Waits, Subs, Answers
  <1> QED
    BY <1>1, <1>2, <1>3 DEF Under

\* The revision stays or moves by one.
LEMMA RevisionMoves ==
  ASSUME TypeOK, [Next]_vars PROVE revision' = revision \/ revision' = revision + 1
  BY JournalMoves DEF Observe, AnnounceBump, AnnounceAppend

\* Who is woken, and at what; the owner leaves a read only by reading.
LEMMA ToldMoves ==
  ASSUME TypeOK, Inv, Busy, [Next]_vars
  PROVE  /\ \A c \in Conns : \/ told'[c] = told[c] \/ told'[c] = 0
                             \/ /\ told'[c] = revision /\ revision' = revision
                                /\ pc'[Owner] = "read" /\ task'.conn = c
         /\ pc[Owner] = "read" => \/ pc'[Owner] = "read" /\ task' = task
                                  \/ lock = None /\ pc' = [pc EXCEPT ![Owner] = "observe"]
  <1>0. /\ Typed /\ told \in [Conns -> Nat] /\ Rested /\ History /\ Appending
        /\ pc \in [Threads -> Places] /\ Owner \in Threads
    BY TypedOK, OwedIsRested DEF Inv, TypeOK, Threads, Places
  <1>1. CASE \/ Query \/ Kill \/ Opened \/ \E now \in SUBSET Entries : Mutate(now)
    <2>1. pc[Owner] # "read" /\ UNCHANGED told
      BY <1>1 DEF Query, Kill, Opened, Mutate, Take, client
    <2> QED
      BY <2>1
  <1>2. CASE Observe \/ ParkOrAnswer \/ Arm \/ Drain \/ Enroll
    <2>1. pc[Owner] # "read" /\ UNCHANGED told
      BY <1>2 DEF Observe, ParkOrAnswer, Arm, Drain, Enroll, client
    <2> QED
      BY <2>1
  <1>3. CASE ReadSince
    BY <1>3 DEF ReadSince, Goto, client
  <1>4. ASSUME NEW c \in Conns, WaitFor(c) \/ Subscribe(c)
        PROVE  pc[Owner] # "read" /\ UNCHANGED told
    BY <1>4 DEF WaitFor, Subscribe, Take
  <1>5. ASSUME NEW c \in Conns, Unsubscribe(c) \/ Disconnect(c)
        PROVE  pc[Owner] # "read" /\ \A d \in Conns : told'[d] = told[d] \/ told'[d] = 0
    BY <1>0, <1>5 DEF Unsubscribe, Disconnect
  <1>6. ASSUME NEW c \in Conns, ReadSlot(c)
        PROVE  /\ pc[Owner] # "read"
               /\ \A d \in Conns : \/ told'[d] = told[d]
                                   \/ /\ told'[d] = revision /\ revision' = revision
                                      /\ pc'[Owner] = "read" /\ task'.conn = d
    <2>1. /\ pc[Owner] = "idle" /\ pc' = [pc EXCEPT ![Owner] = "read"]
          /\ task' = [kind |-> "read", conn |-> c] /\ revision' = revision
          /\ told' = [told EXCEPT ![c] = revision]
      BY <1>6 DEF ReadSlot, Take, Goto
    <2>2. pc'[Owner] = "read" /\ task'.conn = c
      BY <1>0, <2>1
    <2> QED
      BY <1>0, <2>1, <2>2
  <1>7. ASSUME NEW t \in Threads, Send(t)
        PROVE  UNCHANGED <<told, task>> /\ (pc[Owner] = "read" => pc'[Owner] = "read")
    BY <1>0, <1>7 DEF Send, Goto
  <1>8. ASSUME NEW a \in Announcers, AnnounceBump(a) \/ AnnounceAppend(a)
        PROVE  UNCHANGED <<told, task>> /\ pc'[Owner] = pc[Owner]
    BY <1>0, <1>8, OthersStep DEF Inv, AnnounceBump, AnnounceAppend, client
  <1>9. CASE PaneOutput \/ UNCHANGED vars \/ \E e \in Elsewhere : ChangeElsewhere(e)
    <2>1. UNCHANGED <<told, task, pc>>
      BY <1>9 DEF PaneOutput, vars, ChangeElsewhere, client
    <2> QED
      BY <2>1
  <1> QED
    BY <1>1, <1>2, <1>3, <1>4, <1>5, <1>6, <1>7, <1>8, <1>9
    DEF Next, Request, Refused, OwnerStep, AnnouncerStep, Threads

\* Where the owner is alone, a change of the registry is a request's, and the
\* observation after it takes it in.
LEMMA ShapeMoves ==
  ASSUME OwnerAlone, [Next]_vars
  PROVE  \/ \E now \in SUBSET Entries : Mutate(now)
         \/ Observe
         \/ /\ UNCHANGED <<shape, entries>>
            /\ pc[Owner] = "observe" => UNCHANGED <<pc, told, landed>>
  <1> USE DEF channel, client
  <1>1. CASE Query \/ Kill
    BY <1>1 DEF Query, Kill, Take
  <1>2. CASE Opened \/ ParkOrAnswer \/ Arm \/ Drain \/ Enroll \/ ReadSince \/ Send(Owner)
    BY <1>2 DEF Opened, ParkOrAnswer, Arm, Drain, Enroll, ReadSince, Send
  <1>3. ASSUME NEW c \in Conns, WaitFor(c) \/ Subscribe(c) \/ ReadSlot(c)
        PROVE  UNCHANGED <<shape, entries>> /\ pc[Owner] # "observe"
    BY <1>3 DEF WaitFor, Subscribe, ReadSlot, Take
  <1>4. ASSUME NEW c \in Conns, Unsubscribe(c) \/ Disconnect(c)
        PROVE  UNCHANGED <<shape, entries>> /\ pc[Owner] # "observe"
    BY <1>4 DEF Unsubscribe, Disconnect
  <1>5. CASE PaneOutput \/ UNCHANGED vars
    BY <1>5 DEF PaneOutput, vars
  <1> QED
    BY <1>1, <1>2, <1>3, <1>4, <1>5
    DEF OwnerAlone, Next, Request, Refused, OwnerStep
\* Whoever was woken stays below what may land, or reads after it has.
LEMMA ToldUnderMoves ==
  ASSUME TypeOK, Inv, Busy, [Next]_vars, NEW r \in Nat, r > 0, ToldUnder(r),
         lock # None \/ pc[Owner] # "read"
  PROVE  ToldUnder(r)'
  <1> SUFFICES ASSUME NEW c \in Conns
               PROVE  told'[c] < r \/ (pc'[Owner] = "read" /\ task'.conn = c)
    BY DEF ToldUnder
  <1>1. told[c] < r \/ (pc'[Owner] = "read" /\ task' = task /\ task.conn = c)
    BY ToldMoves DEF ToldUnder
  <1>2. \/ told'[c] = told[c] \/ told'[c] = 0
        \/ pc'[Owner] = "read" /\ task'.conn = c
    BY ToldMoves
  <1> QED
    BY <1>1, <1>2

\* What an announcer is about to append is above every cursor there is.
LEMMA StampFresh ==
  ASSUME FInv, Inv', Kinds, [Next]_vars, NEW a \in Announcers, pc'[a] = "append"
  PROVE  (stamp > 0 /\ Under(stamp) /\ ToldUnder(stamp))'
  <1>0. /\ TypeOK /\ Typed /\ Inv /\ Busy /\ Fresh /\ Appending /\ None \notin Announcers
        /\ pc \in [Threads -> Places] /\ Announcers \subseteq Threads /\ Owner \in Threads \ {a}
        /\ revision \in Nat /\ stamp \in Nat /\ told \in [Conns -> Nat]
    BY TypedOK, JournalAssumption DEF FInv, Base, Inv, TypeOK, Threads, Places
  <1>1. CASE pc[a] = "append" /\ UNCHANGED <<stamp, landed>>
    <2>1. PICK r \in Nat : r = stamp
      BY <1>0
    <2>2. r > 0 /\ Under(r) /\ ToldUnder(r) /\ lock = a /\ r = stamp'
      BY <1>0, <1>1, <2>1 DEF Fresh, Appending
    <2>3. ToldUnder(r)'
      BY <1>0, <2>2, ToldUnderMoves
    <2>4. \A n \in 1..Len(landed') : landed'[n].revision < r
      BY <1>1, <2>2 DEF Under
    <2>5. Under(r)'
      BY <1>0, <2>2, <2>4, UnderMoves
    <2> QED
      BY <2>2, <2>3, <2>5 DEF Under, ToldUnder
  <1>2. ASSUME NEW b \in Announcers, AnnounceBump(b)
        PROVE  (stamp > 0 /\ Under(stamp) /\ ToldUnder(stamp))'
    <2>1. stamp' = revision + 1 /\ UNCHANGED <<landed, told>>
      BY <1>2 DEF AnnounceBump, client
    <2>2. PICK r \in Nat : r = revision + 1
      BY <1>0
    <2>3. /\ r = stamp' /\ r > 0 /\ Under(r)
          /\ \A c \in Conns : told[c] <= revision
      BY <1>0, <2>1, <2>2 DEF Fresh
    <2>4. \A n \in 1..Len(landed') : landed'[n].revision < r
      BY <2>1, <2>3 DEF Under
    <2>5. Under(r)'
      BY <1>0, <2>3, <2>4, UnderMoves
    <2>6. \A c \in Conns : told'[c] < r
      BY <1>0, <2>1, <2>2, <2>3
    <2> QED
      BY <2>3, <2>5, <2>6 DEF ToldUnder, Under
  <1>3. ASSUME NEW b \in Announcers, AnnounceAppend(b) PROVE FALSE
    <2>1. pc[b] = "append" /\ lock = b
      BY <1>0, <1>3 DEF AnnounceAppend, Appending
    <2>2. lock' = None
      BY <1>3 DEF AnnounceAppend
    <2>3. lock' = a
      BY DEF Inv, Appending
    <2> QED
      BY <1>0, <2>2, <2>3
  <1>4. CASE Observe
    <2>1. lock = None /\ lock' = lock
      BY <1>4 DEF Observe
    <2>2. lock' = a
      BY DEF Inv, Appending
    <2> QED
      BY <1>0, <2>1, <2>2
  <1> QED
    BY <1>0, <1>1, <1>2, <1>3, <1>4, JournalMoves
\* What an observation is about to record is above every cursor there is.
LEMMA ShapeFresh ==
  ASSUME FInv, Inv', Kinds, Apart, [Next]_vars, shape' \notin {None, entries'}
  PROVE  pc'[Owner] = "observe" /\ (Under(revision) /\ ToldUnder(revision))'
  <1>0. /\ TypeOK /\ Typed /\ Inv /\ Busy /\ Fresh /\ Owner \in Threads
        /\ pc \in [Threads -> Places]
        /\ revision \in Nat /\ revision' \in Nat /\ told \in [Conns -> Nat]
    BY TypedOK DEF FInv, Base, Inv, TypeOK, Threads, Places
  <1>1. OwnerAlone
    <2>1. ~NobodyStreams
      BY DEF NobodyStreams, Inv, TypeOK
    <2> QED
      BY <2>1 DEF Apart
  <1>2. ASSUME NEW now \in SUBSET Entries, Mutate(now)
        PROVE  pc'[Owner] = "observe" /\ (Under(revision) /\ ToldUnder(revision))'
    <2>1. /\ revision' = revision + 1 /\ pc' = [pc EXCEPT ![Owner] = "observe"]
          /\ UNCHANGED <<landed, told>>
      BY <1>2 DEF Mutate, Take, Goto, client
    <2>2. PICK r \in Nat : r = revision'
      BY <1>0
    <2>3. Under(r) /\ \A c \in Conns : told[c] <= revision
      BY <1>0, <2>1, <2>2 DEF Fresh
    <2>4. \A n \in 1..Len(landed') : landed'[n].revision < r
      BY <2>1, <2>3 DEF Under
    <2>5. Under(r)'
      BY <1>0, <2>3, <2>4, UnderMoves
    <2>6. \A c \in Conns : told'[c] < r
      BY <1>0, <2>1, <2>2, <2>3
    <2>7. pc'[Owner] = "observe"
      BY <1>0, <2>1
    <2> QED
      BY <2>2, <2>5, <2>6, <2>7 DEF ToldUnder, Under
  <1>3. CASE Observe
    BY <1>3 DEF Observe
  <1>4. CASE /\ UNCHANGED <<shape, entries>>
             /\ pc[Owner] = "observe" => UNCHANGED <<pc, told, landed>>
    <2>1. /\ pc[Owner] = "observe" /\ Under(revision) /\ ToldUnder(revision)
          /\ UNCHANGED <<pc, told, landed>>
      BY <1>0, <1>4 DEF Fresh
    <2>2. PICK r \in Nat : r = revision'
      BY <1>0
    <2>3. revision <= r
      BY <1>0, <2>2, RevisionMoves
    <2>4. PICK q \in Nat : q = revision
      BY <1>0
    <2>5. Under(r)
      BY <1>0, <2>1, <2>3, <2>4, UnderAbove
    <2>6. \A n \in 1..Len(landed') : landed'[n].revision < r
      BY <2>1, <2>5 DEF Under
    <2>7. Under(r)'
      BY <1>0, <2>5, <2>6, UnderMoves
    <2>8. \A c \in Conns : told[c] < revision
      BY <2>1 DEF ToldUnder
    <2>9. \A c \in Conns : told'[c] < r
      BY <1>0, <2>1, <2>3, <2>8
    <2> QED
      BY <2>1, <2>2, <2>7, <2>9 DEF ToldUnder, Under
  <1> QED
    BY <1>1, <1>2, <1>3, <1>4, ShapeMoves

\* What is owed and may land stays above every cursor there is.
LEMMA FreshStep ==
  ASSUME FInv, Inv', Kinds, [Next]_vars PROVE Fresh'
  <1>0. /\ TypeOK /\ Typed /\ Inv /\ Busy /\ Fresh
        /\ revision \in Nat /\ revision' \in Nat
        /\ told \in [Conns -> Nat]
    BY TypedOK DEF FInv, Base, Inv, TypeOK
  <1>1. \A n \in 1..Len(landed') : landed'[n].revision > 0
    BY <1>0, LandedMoves
  <1>2. revision <= revision' /\ revision' > 0
    BY <1>0, RevisionMoves DEF Fresh
  <1>3. Under(revision + 1)'
    <2>1. PICK q \in Nat : q = revision + 1
      BY <1>0
    <2>2. PICK now \in Nat : now = revision'
      BY <1>0
    <2>3. PICK r \in Nat : r = now + 1
      OBVIOUS
    <2>4. Under(r)
      BY <1>0, <1>2, <2>1, <2>2, <2>3, UnderAbove DEF Fresh
    <2>5. \A n \in 1..Len(landed') : landed'[n].revision < r
      <3>1. UpTo(landed', revision') /\ landed' \in Seq(Rec)
        BY DEF Inv, History, TypeOK, Rec
      <3>2. \A n \in 1..Len(landed') : landed'[n].revision \in Nat
        BY <3>1, RecElements
      <3> QED
        BY <1>0, <2>2, <2>3, <3>1, <3>2 DEF UpTo
    <2>6. Under(r)'
      BY <1>0, <2>4, <2>5, UnderMoves
    <2> QED
      BY <2>2, <2>6, <2>3 DEF Under
  <1>4. \A c \in Conns : told'[c] <= revision'
    <2> SUFFICES ASSUME NEW c \in Conns PROVE told'[c] <= revision'
      OBVIOUS
    <2>1. told[c] <= revision /\ told[c] \in Nat
      BY <1>0 DEF Fresh
    <2>2. told'[c] \in {told[c], 0} \/ (told'[c] = revision /\ revision' = revision)
      BY <1>0, ToldMoves
    <2> QED
      BY <1>0, <1>2, <2>1, <2>2
  <1>5. \A a \in Announcers :
           pc'[a] = "append" => (stamp > 0 /\ Under(stamp) /\ ToldUnder(stamp))'
    BY StampFresh
  <1>6. Apart /\ shape' \notin {None, entries'} =>
           pc'[Owner] = "observe" /\ (Under(revision) /\ ToldUnder(revision))'
    BY ShapeFresh
  <1> QED
    BY <1>1, <1>2, <1>3, <1>4, <1>5, <1>6 DEF Fresh

\* Every step leaves nobody with less than it is owed.
LEMMA FeedsStep == ASSUME FInv, Kinds PROVE Feeds'
  <1>0. /\ Typed /\ Single /\ Follows /\ Feeds /\ Busy /\ Dispatching /\ Issued /\ Fresh
        /\ nextId \in Nat \ {0} /\ \A n \in 1..Len(landed) : landed[n].revision > 0
    BY TypedOK DEF FInv, Base, Inv, TypeOK, Fresh
  <1>1. CASE Still
    BY <1>0, <1>1, StillFeeds
  <1>2. CASE Enrolled
    BY <1>0, <1>2, EnrolledFeeds
  <1>3. ASSUME NEW c \in Conns, Asked(c) PROVE Feeds'
    BY <1>0, <1>3, AskedFeeds
  <1>4. ASSUME NEW c \in Conns, Left(c) PROVE Feeds'
    BY <1>0, <1>4, LeftFeeds
  <1>5. ASSUME NEW t \in Threads, NEW f \in out[t], Wrote(t, f), Received(f) PROVE Feeds'
    BY <1>0, <1>5, WroteFeeds
  <1>6. ASSUME NEW t \in Threads, NEW at \in Nat, NEW F \in SUBSET Answers, NEW G,
               Passing(t, at, F, G)
        PROVE  Feeds'
    <2>1. /\ Passed(t, F, G) /\ Grown(at) /\ Caused(at) /\ (pc[Owner] # "write" \/ streams = {})
          /\ UNCHANGED <<mode, open, cursor, told, got, reread>>
      BY <1>6 DEF Passing
    <2>2. Above(at)
      BY <1>0, <2>1, CausedAbove
    <2> QED
      BY <1>0, <2>1, <2>2, PassFeeds
  <1> QED
    BY <1>1, <1>2, <1>3, <1>4, <1>5, <1>6 DEF Kinds

\* It holds of a session that was just created.
LEMMA InitFInv == Init => FInv
  <1> SUFFICES ASSUME Init PROVE FInv
    OBVIOUS
  <1>1. Base /\ Owner \in Threads /\ 1..Len(landed) = {}
    <2>1. Len(<<>>) = 0 /\ 1..0 = {}
      BY EmptySeq
    <2> QED
      BY <2>1, InitBase DEF Init, Threads
  <1> USE DEF Init
  <1>2. Under(revision + 1)
    BY <1>1 DEF Under
  <1>3. Fresh
    BY <1>1, <1>2 DEF Fresh, Threads
  <1>4. Feeds
    BY <1>1 DEF Feeds, Coming, Whole, Woken
  <1> QED
    BY <1>1, <1>3, <1>4 DEF FInv

\* Where the writers are apart, every subscription has one.
LEMMA ApartWriters == Apart => OneWriter
  BY DEF Apart, OwnerAlone, NobodyStreams, OneWriter

\* Every step keeps it.
LEMMA FInvStep == ASSUME OneWriter, FInv, [Next]_vars PROVE FInv'
  <1>1. Base' /\ Inv' /\ Kinds
    BY BaseStep, StepKinds DEF FInv, Base
  <1>2. Fresh'
    BY <1>1, FreshStep
  <1>3. Feeds'
    BY <1>1, FeedsStep
  <1> QED
    BY <1>1, <1>2, <1>3 DEF FInv

\* Where one thread writes to subscriptions, what is owed lands above every cursor
\* there is, and every client is handed it in full.
THEOREM FeedInvariant == ASSUME OneWriter PROVE Spec => []FInv
  <1>1. FInv /\ [Next]_vars => FInv'
    BY FInvStep
  <1> QED
    BY <1>1, InitFInv, PTL DEF Spec

\* Where appends are apart, everything is owed.
LEMMA ApartOwes ==
  ASSUME Apart
  PROVE  OneWriter /\ Sure = Events /\ \A c \in Conns : Sought(c) = Filter[c]
  <1>1. Sure = Events
    BY DEF Sure
  <1>2. \A c \in Conns : Filter[c] \subseteq Events
    BY JournalAssumption
  <1> QED
    BY <1>1, <1>2, ApartWriters DEF Sought

\* Everywhere, announcements are.
LEMMA AnnouncementsOwed ==
  \A c \in Conns : \A e \in Filter[c] : e.kind = "announced" => e \in Sought(c)
  <1>1. \A c \in Conns : Filter[c] \subseteq Events
    BY JournalAssumption
  <1> QED
    BY <1>1 DEF Sought, Sure

\* How far c has read, and been woken and read since.
Reached(c, r) == r <= cursor[c] \/ (r <= told[c] /\ mode[c] # "reading")

\* What NothingSkipped and WokenReadIsComplete say, of announcements only.
AnnouncedInFull ==
    \A c \in Conns : \A n \in 1..Len(landed) :
        /\ landed[n].event \in Filter[c]
        /\ landed[n].event.kind = "announced"
        /\ Reached(c, landed[n].revision)
        => n \in got[c] \/ n <= reread[c]

\* Whatever else is appended beside it and whatever changes elsewhere, an
\* announcement reaches every client that waits for it: announce holds the lock
\* across its bump, so nothing can be read up to its revision before it lands.
THEOREM AnnouncementsReach == ASSUME OneWriter PROVE Spec => []AnnouncedInFull
  <1>1. FInv => AnnouncedInFull
    <2> SUFFICES ASSUME FInv, NEW c \in Conns, NEW n \in 1..Len(landed),
                        landed[n].event \in Filter[c], landed[n].event.kind = "announced",
                        Reached(c, landed[n].revision)
                 PROVE  n \in got[c] \/ n <= reread[c]
      BY DEF AnnouncedInFull
    <2>1. landed[n].event \in Sought(c)
      BY AnnouncementsOwed
    <2>2. Whole(c) /\ Woken(c)
      BY DEF FInv, Feeds
    <2> QED
      BY <2>1, <2>2 DEF Reached, Whole, Woken
  <1> QED
    BY <1>1, FeedInvariant, PTL

\* A client holding a cursor was given every record up to it that it asked for,
\* or was told of the hole and re-read everything: the exact resume of
\* events/subscribe, and the ring's "never handed a silently truncated list".
THEOREM ExactResume == ASSUME Apart PROVE Spec => []NothingSkipped
  <1>1. FInv => NothingSkipped
    BY ApartOwes DEF FInv, Feeds, Whole, NothingSkipped
  <1> QED
    BY <1>1, FeedInvariant, ApartOwes, PTL

\* A client woken from scene/waitFor that has read the slot holds every record of
\* the revision it was woken at: why announce holds the lock across its bump.
THEOREM WokenReads == ASSUME Apart PROVE Spec => []WokenReadIsComplete
  <1>1. FInv => WokenReadIsComplete
    BY ApartOwes DEF FInv, Feeds, Woken, WokenReadIsComplete
  <1> QED
    BY <1>1, FeedInvariant, ApartOwes, PTL

(***************************************************************************)
(* In the order they landed.                                               *)
(***************************************************************************)
\* Records reach a client in the order they landed, whoever appends, as long as
\* no announcer writes to a subscription: one writer writes a client's frames in
\* the order it collected them.
THEOREM LandingOrder == ASSUME OneWriter PROVE Spec => InOrder
  <1>1. ASSUME Base, Kinds, NEW c \in Conns, NEW n \in got'[c] \ got[c], NEW m \in got[c]
        PROVE  m < n
    <2>1. /\ Typed /\ Single /\ Kept(c) /\ Fitting(c) /\ History
          /\ got \in [Conns -> SUBSET Nat]
      BY <1>1, TypedOK DEF Base, Inv, Follows, Typed
    <2>2. ASSUME NEW d \in Conns, Asked(d) \/ Left(d) PROVE got'[c] = got[c]
      BY <2>2 DEF Asked, Left, Besides
    <2>3. ~UNCHANGED got /\ got'[c] # got[c]
      BY <1>1
    <2>4. \E t \in Threads : \E f \in out[t] : Received(f)
      BY <1>1, <2>2, <2>3 DEF Kinds, Still, Enrolled, Passing
    <2>5. PICK t \in Threads : \E f \in out[t] : Received(f)
      BY <2>4
    <2>6. PICK f \in out[t] : Received(f)
      BY <2>5
    <2>7. f.id # 0
      BY <2>1 DEF Single
    <2>8. open[c] = f.id /\ got'[c] = got[c] \cup f.events
      BY <2>1, <2>3, <2>6, <2>7, ReceivedBy
    <2>9. n \in 1..Len(landed) /\ cursor[c] < landed[n].revision
      BY <1>1, <2>1, <2>8 DEF Fitting, Within
    <2>10. m \in 1..Len(landed) /\ landed[m].revision <= cursor[c]
      BY <1>1, <2>1 DEF Kept
    <2>11. /\ landed[n].revision \in Nat /\ landed[m].revision \in Nat
           /\ cursor[c] \in Nat
      BY <2>1, <2>9, <2>10, RecElements DEF Typed
    <2>12. ~(n <= m)
      BY <2>1, <2>9, <2>10, <2>11 DEF History, Ordered
    <2>13. Len(landed) \in Nat
      BY <2>1, LenProperties DEF Typed
    <2> QED
      BY <2>9, <2>10, <2>12, <2>13
  <1>2. ASSUME OneWriter, Base, [Next]_vars
        PROVE  [\A c \in Conns : \A n \in got'[c] \ got[c] : \A m \in got[c] : m < n]_vars
    BY <1>1, <1>2, StepKinds
  <1> QED
    BY <1>2, BaseInvariant, PTL DEF Spec, InOrder

(***************************************************************************)
(* The feed.                                                               *)
(***************************************************************************)
\* How many records of h are at or below a cursor.
PlaceIn(h, at) == Cardinality({n \in 1..Len(h) : h[n].revision <= at})

\* JournalFeed's reading of the channel: the feed, a client's place in it, and
\* what it has of it.
FeedNow == [n \in 1..Len(landed) |-> landed[n].event]

Place == [c \in Conns |-> PlaceIn(landed, cursor[c])]

Have == [c \in Conns |-> {n \in got[c] : landed[n].event \in Filter[c]}]

\* A cursor stands for a place: the records at or below it are the first ones.
LEMMA PlaceFirst ==
  ASSUME NEW h \in Seq(Rec), Ordered(h), NEW at \in Nat
  PROVE  /\ PlaceIn(h, at) \in 0..Len(h)
         /\ \A n \in 1..Len(h) : h[n].revision <= at <=> n <= PlaceIn(h, at)
  <1>1. Len(h) \in Nat /\ \A n \in 1..Len(h) : h[n].revision \in Nat
    BY RecElements
  <1>2. PICK l : l = [records |-> h, evictedThrough |-> 0]
    OBVIOUS
  <1>3. Sound(l) /\ l.records = h
    BY <1>1, <1>2 DEF Sound, Logs
  <1>4. PICK p : p = Read(l, at)
    OBVIOUS
  <1>5. /\ p \in 0..Len(h) /\ \A i \in 1..p : h[i].revision <= at
        /\ p < Len(h) => h[p + 1].revision > at
    BY <1>3, <1>4, ReadDefined
  <1>6. ASSUME NEW n \in 1..Len(h), ~(n <= p) PROVE ~(h[n].revision <= at)
    <2>1. p + 1 \in 1..Len(h) /\ p + 1 <= n /\ p < Len(h)
      BY <1>1, <1>5, <1>6
    <2>2. h[p + 1].revision <= h[n].revision
      BY <2>1 DEF Ordered
    <2> QED
      BY <1>1, <1>5, <2>1, <2>2
  <1>7. {n \in 1..Len(h) : h[n].revision <= at} = 1..p
    BY <1>1, <1>5, <1>6
  <1>8. Cardinality(1..p) = p
    BY <1>5, FS_Interval
  <1>9. PlaceIn(h, at) = p
    BY <1>7, <1>8 DEF PlaceIn
  <1> QED
    BY <1>5, <1>6, <1>9

\* A record above a cursor does not move its place.
LEMMA PlaceStays ==
  ASSUME NEW h \in Seq(Rec), NEW h2 \in Seq(Rec), NEW r \in Nat, Longer(h, h2, r),
         NEW at \in Nat, Len(h2) = Len(h) \/ at < r
  PROVE  PlaceIn(h2, at) = PlaceIn(h, at)
  <1>1. Len(h) \in Nat /\ Len(h2) \in Nat
    BY LenProperties
  <1>2. \A n \in 1..Len(h) : n \in 1..Len(h2) /\ h2[n] = h[n]
    BY <1>1 DEF Longer
  <1>3. ASSUME NEW n \in 1..Len(h2), n \notin 1..Len(h) PROVE ~(h2[n].revision <= at)
    <2>1. ~(n <= Len(h)) /\ Len(h2) # Len(h)
      BY <1>1, <1>3
    <2>2. h2[n].revision = r
      BY <2>1 DEF Longer
    <2> QED
      BY <2>1, <2>2
  <1>4. {n \in 1..Len(h2) : h2[n].revision <= at} = {n \in 1..Len(h) : h[n].revision <= at}
    BY <1>2, <1>3
  <1> QED
    BY <1>4 DEF PlaceIn

\* A step that writes to nobody is the feed growing, or nothing.
LEMMA Grows ==
  ASSUME FInv, NEW at \in Nat, Grown(at), Len(landed') = Len(landed) \/ Under(at),
         \A c \in Conns : cursor'[c] = cursor[c] /\ got'[c] = got[c] /\ reread'[c] = reread[c],
         reread' \in [Conns -> Nat]
  PROVE  /\ \E n \in 0..Len(FeedNow') : FeedNow = SubSeq(FeedNow', 1, n)
         /\ UNCHANGED <<Place, Have, reread>>
  <1>1. /\ Typed /\ reread \in [Conns -> Nat] /\ cursor \in [Conns -> Nat]
        /\ \A c \in Conns : Kept(c)
    BY TypedOK DEF FInv, Base, Inv, Follows, Typed
  <1>2. PICK h \in Seq(Rec) : h = landed
    BY <1>1 DEF Typed
  <1>3. PICK h2 \in Seq(Rec) : h2 = landed'
    BY DEF Grown
  <1>4. Len(h) \in Nat /\ Len(h2) \in Nat /\ Longer(h, h2, at)
    BY <1>2, <1>3, LenProperties DEF Grown
  <1>5. Len(h) <= Len(h2) /\ \A n \in 1..Len(h) : n \in 1..Len(h2) /\ h2[n] = h[n]
    BY <1>4 DEF Longer
  <1>6. PICK now : now = [n \in 1..Len(h) |-> h[n].event]
    OBVIOUS
  <1>7. PICK next : next = [n \in 1..Len(h2) |-> h2[n].event]
    OBVIOUS
  <1>8. /\ now \in Seq(Events) /\ Len(now) = Len(h)
        /\ next \in Seq(Events) /\ Len(next) = Len(h2)
    <2>1. \A g \in Seq(Rec) : \A n \in 1..Len(g) : g[n].event \in Events
      BY RecElements DEF Rec
    <2>2. now \in [1..Len(h) -> Events] /\ next \in [1..Len(h2) -> Events]
      BY <1>6, <1>7, <2>1
    <2> QED
      BY <1>4, <2>2, SeqOf
  <1>9. now = SubSeq(next, 1, Len(h))
    <2>1. /\ SubSeq(next, 1, Len(h)) \in Seq(Events)
          /\ Len(SubSeq(next, 1, Len(h))) = IF 1 <= Len(h) THEN Len(h) - 1 + 1 ELSE 0
          /\ \A i \in 1..(Len(h) - 1 + 1) : SubSeq(next, 1, Len(h))[i] = next[1 + i - 1]
      <3>1. \A i \in 1..Len(h) : next[i] \in Events
        BY <1>5, <1>8, LenProperties
      <3> QED
        BY <1>4, <3>1, SubSeqProperties
    <2>2. PICK cut : cut = SubSeq(next, 1, Len(h))
      OBVIOUS
    <2>3. cut \in Seq(Events) /\ Len(cut) = Len(now) /\ \A i \in 1..Len(h) : cut[i] = next[i]
      BY <1>4, <1>8, <2>1, <2>2
    <2>4. \A i \in 1..Len(now) : cut[i] = now[i]
      BY <1>5, <1>6, <1>7, <1>8, <2>3
    <2> QED
      BY <1>8, <2>2, <2>3, <2>4, SeqEqual
  <1>10. \E n \in 0..Len(FeedNow') : FeedNow = SubSeq(FeedNow', 1, n)
    <2>1. Len(h) \in 0..Len(next) /\ now = SubSeq(next, 1, Len(h))
      BY <1>4, <1>5, <1>8, <1>9
    <2>2. now = FeedNow /\ next = FeedNow'
      BY <1>2, <1>3, <1>6, <1>7 DEF FeedNow
    <2> QED
      BY <2>1, <2>2
  <1>11. Place' = Place
    <2>1. ASSUME NEW c \in Conns PROVE PlaceIn(h2, cursor'[c]) = PlaceIn(h, cursor[c])
      <3>1. Len(h2) = Len(h) \/ cursor[c] < at
        BY <1>2, <1>3 DEF Under
      <3> QED
        BY <1>1, <1>4, <3>1, PlaceStays
    <2> QED
      BY <1>2, <1>3, <2>1 DEF Place
  <1>12. Have' = Have
    <2>1. ASSUME NEW c \in Conns
          PROVE  {n \in got'[c] : h2[n].event \in Filter[c]}
                   = {n \in got[c] : h[n].event \in Filter[c]}
      <3>1. \A n \in got[c] : n \in 1..Len(h)
        BY <1>1, <1>2 DEF Kept
      <3> QED
        BY <1>5, <3>1
    <2> QED
      BY <1>2, <1>3, <2>1 DEF Have
  <1>13. reread' = reread
    BY <1>1
  <1> QED
    BY <1>10, <1>11, <1>12, <1>13

\* A frame is what the feed holds for its client between its place and a later
\* one, or some of it and a hole.
LEMMA Hands ==
  ASSUME Apart, FInv, NEW t \in Threads, NEW f \in out[t], Wrote(t, f), NEW d \in Conns,
         open[d] = f.id, Deliver(d, f)
  PROVE  /\ FeedNow' = FeedNow
         /\ \E to \in Place[d]..Len(FeedNow) :
               /\ Place' = [Place EXCEPT ![d] = to]
               /\ IF f.lost
                  THEN /\ \E some \in SUBSET Feed!WantedBetween(d, Place[d], to) :
                             Have' = [Have EXCEPT ![d] = @ \cup some]
                       /\ reread' = [reread EXCEPT ![d] = Len(FeedNow)]
                  ELSE /\ Have' = [Have EXCEPT ![d] = @ \cup Feed!WantedBetween(d, Place[d], to)]
                       /\ reread' = reread
  <1>1. /\ Typed /\ History /\ Coming(d) /\ f \in Answers
        /\ got \in [Conns -> SUBSET Nat] /\ cursor \in [Conns -> Nat] /\ reread \in [Conns -> Nat]
    BY TypedOK DEF FInv, Base, Inv, Feeds, Typed
  <1>2. PICK h \in Seq(Rec) : h = landed /\ h = landed' /\ Ordered(h)
    BY <1>1 DEF Wrote, Typed, History
  <1>3. Len(h) \in Nat /\ \A n \in 1..Len(h) : h[n].revision \in Nat
    BY RecElements
  <1>4. Exact(h, cursor[d], Filter[d], f) /\ cursor[d] \in Nat /\ f.next \in Nat
    BY <1>1, <1>2, ApartOwes DEF Coming, Honest, Answers
  <1>5. /\ got' = [got EXCEPT ![d] = @ \cup f.events]
        /\ cursor' = [cursor EXCEPT ![d] = f.next]
        /\ reread' = [reread EXCEPT ![d] = IF f.lost THEN Len(h) ELSE @]
    BY <1>2 DEF Deliver
  <1>6. PICK p \in 0..Len(h) : /\ p = PlaceIn(h, cursor[d])
                               /\ \A n \in 1..Len(h) : h[n].revision <= cursor[d] <=> n <= p
    BY <1>2, <1>4, PlaceFirst
  <1>7. PICK to \in 0..Len(h) : /\ to = PlaceIn(h, f.next)
                                /\ \A n \in 1..Len(h) : h[n].revision <= f.next <=> n <= to
    BY <1>2, <1>4, PlaceFirst
  <1>8. p <= to
    <2>1. p = 0 \/ p \in 1..Len(h)
      BY <1>3
    <2>2. p \in 1..Len(h) => h[p].revision <= f.next
      BY <1>3, <1>4, <1>6 DEF Exact, Within
    <2> QED
      BY <1>3, <1>7, <2>1, <2>2
  <1>9. PICK now : now = [n \in 1..Len(h) |-> h[n].event]
    OBVIOUS
  <1>10. /\ FeedNow = now /\ FeedNow' = now /\ Len(now) = Len(h)
         /\ \A n \in 1..Len(h) : now[n] = h[n].event
    <2>1. \A n \in 1..Len(h) : h[n].event \in Events
      BY RecElements DEF Rec
    <2>2. now \in [1..Len(h) -> Events]
      BY <1>9, <2>1
    <2>3. Len(now) = Len(h)
      BY <1>3, <2>2, SeqDef, LenProperties
    <2> QED
      BY <1>2, <1>9, <2>3 DEF FeedNow
  <1>11. Place[d] = p /\ Place' = [Place EXCEPT ![d] = to]
    <2>1. ASSUME NEW c \in Conns
          PROVE  PlaceIn(h, cursor'[c]) = IF c = d THEN to ELSE PlaceIn(h, cursor[c])
      BY <1>1, <1>5, <1>7
    <2> QED
      BY <1>2, <1>6, <2>1 DEF Place
  <1>12. PICK between : between = Feed!WantedBetween(d, p, to)
    OBVIOUS
  <1>13. between = {n \in (p + 1)..to : now[n] \in Filter[d]}
    BY <1>10, <1>12 DEF Feed!WantedBetween, FeedNow
  <1>14. PICK more : more = {n \in f.events : h[n].event \in Filter[d]}
    OBVIOUS
  <1>15. more \subseteq between
    <2> SUFFICES ASSUME NEW n \in more PROVE n \in between
      OBVIOUS
    <2>1. /\ n \in f.events /\ h[n].event \in Filter[d]
          /\ n \in 1..Len(h) /\ cursor[d] < h[n].revision /\ h[n].revision <= f.next
      BY <1>4, <1>14 DEF Exact, Within
    <2>2. ~(h[n].revision <= cursor[d])
      BY <1>3, <1>4, <2>1
    <2>3. n <= to /\ ~(n <= p)
      BY <1>6, <1>7, <2>1, <2>2
    <2>4. n \in (p + 1)..to
      BY <1>3, <2>1, <2>3
    <2> QED
      BY <1>10, <1>13, <2>1, <2>4
  <1>16. ~f.lost => between \subseteq more
    <2> SUFFICES ASSUME ~f.lost, NEW n \in between PROVE n \in more
      OBVIOUS
    <2>1. n \in (p + 1)..to /\ now[n] \in Filter[d]
      BY <1>13
    <2>2. n \in 1..Len(h) /\ n <= to /\ ~(n <= p)
      BY <1>3, <2>1
    <2>3. h[n].revision <= f.next /\ ~(h[n].revision <= cursor[d])
      BY <1>6, <1>7, <2>2
    <2>4. cursor[d] < h[n].revision
      BY <1>3, <1>4, <2>2, <2>3
    <2>5. n \in f.events
      BY <1>4, <1>10, <2>1, <2>2, <2>3, <2>4 DEF Exact
    <2> QED
      BY <1>10, <1>14, <2>1, <2>2, <2>5
  <1>17. Have' = [Have EXCEPT ![d] = @ \cup more]
    <2>1. ASSUME NEW c \in Conns
          PROVE  {n \in got'[c] : h[n].event \in Filter[c]}
                   = IF c = d THEN {n \in got[c] : h[n].event \in Filter[c]} \cup more
                              ELSE {n \in got[c] : h[n].event \in Filter[c]}
      BY <1>1, <1>5, <1>14
    <2> QED
      BY <1>2, <2>1 DEF Have
  <1>18. to \in Place[d]..Len(FeedNow)
    BY <1>3, <1>8, <1>10, <1>11
  <1>19. CASE f.lost
    <2>1. more \in SUBSET Feed!WantedBetween(d, Place[d], to)
      BY <1>11, <1>12, <1>15
    <2>2. reread' = [reread EXCEPT ![d] = Len(FeedNow)]
      BY <1>5, <1>10, <1>19
    <2> QED
      BY <1>10, <1>11, <1>17, <1>18, <1>19, <2>1, <2>2
  <1>20. CASE ~f.lost
    <2>1. more = Feed!WantedBetween(d, Place[d], to)
      BY <1>11, <1>12, <1>15, <1>16, <1>20
    <2>2. reread' = reread
      BY <1>1, <1>5, <1>20
    <2> QED
      BY <1>10, <1>11, <1>17, <1>18, <1>20, <2>1, <2>2
  <1> QED
    BY <1>19, <1>20

\* A session that was just created is an empty feed.
LEMMA InitFeed == Init => Feed!Init
  <1> SUFFICES ASSUME Init PROVE Feed!Init
    OBVIOUS
  <1>1. Len(<<>>) = 0 /\ 1..0 = {}
    BY EmptySeq
  <1>2. landed = <<>> /\ 1..Len(landed) = {} /\ \A c \in Conns : got[c] = {}
    BY <1>1 DEF Init
  <1>3. FeedNow = <<>>
    BY <1>2 DEF FeedNow
  <1>4. \A at : PlaceIn(landed, at) = 0
    BY <1>2, FS_EmptySet DEF PlaceIn
  <1>5. Place = [c \in Conns |-> 0]
    BY <1>4 DEF Place
  <1>6. Have = [c \in Conns |-> {}]
    BY <1>2 DEF Have
  <1>7. reread = [c \in Conns |-> 0]
    BY DEF Init
  <1> QED
    BY <1>3, <1>5, <1>6, <1>7 DEF Feed!Init, FeedNow, Place, Have, PlaceIn

\* A step that moves no client is the feed growing.
LEMMA HappenStep ==
  ASSUME FInv, Inv', NEW at \in Nat, Grown(at), Len(landed') = Len(landed) \/ Under(at),
         \A c \in Conns : cursor'[c] = cursor[c] /\ got'[c] = got[c] /\ reread'[c] = reread[c]
  PROVE  Feed!Happen
  <1>1. reread' \in [Conns -> Nat]
    BY DEF Inv, TypeOK
  <1>2. /\ \E n \in 0..Len(FeedNow') : FeedNow = SubSeq(FeedNow', 1, n)
        /\ UNCHANGED <<Place, Have, reread>>
    BY <1>1, Grows
  <1> QED
    BY <1>2 DEF Feed!Happen, FeedNow, Place, Have, PlaceIn

\* A frame that reaches its client hands it the next of the feed, or some of it
\* and a hole.
LEMMA HandStep ==
  ASSUME Apart, FInv, NEW t \in Threads, NEW f \in out[t], Wrote(t, f), NEW d \in Conns,
         open[d] = f.id, Deliver(d, f)
  PROVE  Feed!Hand(d) \/ Feed!HandHole(d)
  <1>1. PICK to \in Place[d]..Len(FeedNow) :
           /\ Place' = [Place EXCEPT ![d] = to]
           /\ IF f.lost
              THEN /\ \E some \in SUBSET Feed!WantedBetween(d, Place[d], to) :
                         Have' = [Have EXCEPT ![d] = @ \cup some]
                   /\ reread' = [reread EXCEPT ![d] = Len(FeedNow)]
              ELSE /\ Have' = [Have EXCEPT ![d] = @ \cup Feed!WantedBetween(d, Place[d], to)]
                   /\ reread' = reread
    BY Hands
  <1>2. FeedNow' = FeedNow
    BY Hands
  <1>3. CASE f.lost
    <2>1. Feed!HandHole(d)
      BY <1>1, <1>2, <1>3 DEF Feed!HandHole, FeedNow, Place, Have, PlaceIn
    <2> QED
      BY <2>1
  <1>4. CASE ~f.lost
    <2>1. Feed!Hand(d)
      BY <1>1, <1>2, <1>4 DEF Feed!Hand, FeedNow, Place, Have, PlaceIn
    <2> QED
      BY <2>1
  <1> QED
    BY <1>3, <1>4

\* Every step is a step of the feed.
LEMMA FeedStep == ASSUME Apart, FInv, [Next]_vars PROVE Feed!Next
  <1>1. Inv' /\ Kinds /\ Typed /\ Fresh
    <2>1. FInv' /\ Kinds
      BY FInvStep, ApartOwes, StepKinds DEF FInv
    <2> QED
      BY <2>1, TypedOK DEF FInv, Base, Inv
  <1>2. ASSUME UNCHANGED landed PROVE Grown(0) /\ Len(landed') = Len(landed)
    BY <1>1, <1>2, NotGrown
  <1>3. ASSUME UNCHANGED landed,
               \A c \in Conns : cursor'[c] = cursor[c] /\ got'[c] = got[c] /\ reread'[c] = reread[c]
        PROVE  Feed!Next
    BY <1>1, <1>2, <1>3, HappenStep DEF Feed!Next
  <1>4. CASE Still \/ Enrolled
    BY <1>3, <1>4 DEF Still, Enrolled
  <1>5. ASSUME NEW c \in Conns, Asked(c) \/ Left(c) PROVE Feed!Next
    BY <1>3, <1>5 DEF Asked, Left, Besides
  <1>6. ASSUME NEW t \in Threads, NEW f \in out[t], Wrote(t, f), Received(f) PROVE Feed!Next
    <2>1. CASE ~\E d \in Conns : open[d] = f.id
      BY <1>3, <1>6, <2>1 DEF Wrote, Received
    <2>2. ASSUME NEW d \in Conns, open[d] = f.id, Deliver(d, f) PROVE Feed!Next
      BY <1>6, <2>2, HandStep DEF Feed!Next
    <2> QED
      BY <1>6, <2>1, <2>2 DEF Received
  <1>7. ASSUME NEW t \in Threads, NEW at \in Nat, NEW F \in SUBSET Answers, NEW G,
               Passing(t, at, F, G)
        PROVE  Feed!Next
    <2>1. Grown(at) /\ Above(at) /\ UNCHANGED <<cursor, got, reread>>
      BY <1>1, <1>7, CausedAbove DEF Passing
    <2>2. Len(landed') = Len(landed) \/ Under(at)
      <3>1. PICK h \in Seq(Rec), h2 \in Seq(Rec) : h = landed /\ h2 = landed'
        BY <1>1, <2>1 DEF Typed, Grown
      <3>2. Len(h) \in Nat /\ Len(h2) \in Nat /\ Len(h) <= Len(h2)
        BY <2>1, <3>1, LenProperties DEF Grown, Longer
      <3>3. \A n \in 1..Len(h2) : h2[n].event \in Sure
        BY RecElements, ApartOwes DEF Rec
      <3>4. Added \cap Sure = {} => Len(h2) \notin 1..Len(h2) \ 1..Len(h)
        BY <3>1, <3>3 DEF Added
      <3>5. Added \cap Sure = {} => Len(h2) = Len(h)
        BY <3>2, <3>4
      <3> QED
        BY <2>1, <3>1, <3>5 DEF Above
    <2> QED
      BY <1>1, <2>1, <2>2, HappenStep DEF Feed!Next
  <1> QED
    BY <1>1, <1>4, <1>5, <1>6, <1>7 DEF Kinds

\* Where appends are apart, what clients are handed is what the feed promises:
\* the ring, its eviction, the cursors and the two ways of being told are not
\* visible to them.
THEOREM Implements == ASSUME Apart PROVE Spec => FeedSpec
  <1>1. FInv /\ [Next]_vars => [Feed!Next]_(Feed!vars)
    BY FeedStep
  <1> QED
    BY <1>1, InitFeed, FeedInvariant, ApartOwes, PTL DEF Spec, FeedSpec, Feed!Spec
=============================================================================

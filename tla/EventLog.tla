------------------------------ MODULE EventLog ------------------------------
(***************************************************************************)
(* The bounded, revision-keyed ring of recent changes of one session:      *)
(* crates/sprag-host/src/events.rs, struct EventLog.  A log is a value     *)
(*   [records |-> <<[revision, event], ...>>, evictedThrough |-> n].       *)
(* The code's evicted_through is an Option; None and Some(0) answer every  *)
(* cursor alike (no cursor is below 0), so both are the number 0 here.     *)
(***************************************************************************)
EXTENDS Integers, Sequences

CONSTANT Capacity       \* JOURNAL_CAPACITY, 256 in the daemon

\* EventLog::new asserts it.
ASSUME CapacityAssumption == Capacity \in Nat \ {0}

NewLog == [records |-> <<>>, evictedThrough |-> 0]

\* The records a group of events becomes, all keyed by one revision.
Keyed(revision, events) ==
    [i \in 1..Len(events) |-> [revision |-> revision, event |-> events[i]]]

\* How many records the ring drops when the group is appended.
Excess(log, events) ==
    LET size == Len(log.records) + Len(events)
    IN  IF size > Capacity THEN size - Capacity ELSE 0

\* Mutants of Record: the ring drops what is newest; the eviction is dated by
\* the first record popped.
RecordDropsNewest(log, revision, events) ==
    LET all == log.records \o Keyed(revision, events)
    IN  [log EXCEPT !.records = SubSeq(all, 1, Len(all) - Excess(log, events))]

RecordFirstGone(log, revision, events) ==
    LET all == log.records \o Keyed(revision, events)  excess == Excess(log, events)
    IN  [records        |-> SubSeq(all, excess + 1, Len(all)),
         evictedThrough |-> IF excess = 0 THEN log.evictedThrough ELSE all[1].revision]

\* EventLog::record, without its assertion (see RecordGuard).  The loop pushes
\* one event and pops from the front while the ring is over its capacity; what
\* is left is the newest Capacity records, and evicted_through is the revision
\* of the last one popped.
Record(log, revision, events) ==
    LET all    == log.records \o Keyed(revision, events)
        excess == Excess(log, events)
    IN  [records        |-> SubSeq(all, excess + 1, Len(all)),
         evictedThrough |-> IF excess = 0 THEN log.evictedThrough
                                          ELSE all[excess].revision]

\* The assertion in EventLog::record: the log is ordered by the revision.
RecordGuard(log, revision) ==
    log.records # <<>> => revision >= log.records[Len(log.records)].revision

\* How many records since(cursor) skips: the skip_while stops at the first
\* record above the cursor.
Read(log, cursor) ==
    CHOOSE n \in 0..Len(log.records) :
        /\ \A i \in 1..n : log.records[i].revision <= cursor
        /\ n < Len(log.records) => log.records[n + 1].revision > cursor

\* Mutant of Since: `lost` is off by one.
SinceLostLate(log, cursor) ==
    LET size == Len(log.records)
        head == IF size = 0 THEN cursor ELSE log.records[size].revision
    IN  [records |-> SubSeq(log.records, Read(log, cursor) + 1, size),
         next    |-> IF head > cursor THEN head ELSE cursor,
         lost    |-> cursor + 1 < log.evictedThrough]

\* EventLog::since: the records after the cursor, the cursor to ask with next
\* time (never below the one asked with), and whether a record the cursor had
\* not read was evicted.
Since(log, cursor) ==
    LET size == Len(log.records)
        head == IF size = 0 THEN cursor ELSE log.records[size].revision
    IN  [records |-> SubSeq(log.records, Read(log, cursor) + 1, size),
         next    |-> IF head > cursor THEN head ELSE cursor,
         lost    |-> cursor < log.evictedThrough]
=============================================================================

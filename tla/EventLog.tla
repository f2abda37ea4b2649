------------------------------ MODULE EventLog ------------------------------
(***************************************************************************)
(* The event log of the server: JSON lines in one file a day, named by the *)
(* day they were written, pruned past the retention when the day changes   *)
(* and at start, and read by time.  A write may stop half way: what comes  *)
(* next ends up on the same line, and neither can be read.                 *)
(***************************************************************************)
EXTENDS Integers, Sequences, FiniteSets, Functions

CONSTANTS
    Day,        \* units of time in a day
    Retention,  \* 0 keeps everything
    Skews,      \* how far a timestamp may be from the clock: a day ahead at most
    MaxTime, MaxBatches, MaxTorn  \* bounds

EventLogAssumption ==
    /\ Day \in Nat \ {0} /\ {Retention, MaxTime} \subseteq Nat
    /\ Skews \subseteq {skew \in Int : skew <= Day}

VARIABLES
    now,
    segments,   \* what survives, day -> [lines, dangling]
    file,       \* the open segment, -1 for none
    batch,      \* the rest of what Publish writes, <<>> between two calls
    last,       \* the batch of the last call, which a caller may publish again
    accepted,   \* history: the events of the calls that returned no error
    batches, torn

eventlog == <<now, segments, file, batch, last, accepted, batches, torn>>

Init ==
    /\ now = 0 /\ segments = <<>> /\ file = -1 /\ batch = <<>> /\ last = <<>>
    /\ accepted = {} /\ batches = 0 /\ torn = 0

Today == now \div Day

\* Mutant: the day a segment was written in is not waited for.
KeptEarly(day) == Retention <= 0 \/ day * Day >= now - Retention

\* prune: the segment of a day holds what was written until its end.
Kept(day) == Retention <= 0 \/ day * Day >= now - Retention - Day
Prune(segs) == [d \in {e \in DOMAIN segs : Kept(e)} |-> segs[d]]

\* segmentFile: rotates, and prunes when it does.
SegmentFile ==
    LET created == [d \in DOMAIN segments \cup {Today} |->
                      IF d \in DOMAIN segments THEN segments[d]
                      ELSE [lines |-> <<>>, dangling |-> FALSE]]
    IN  IF file = Today /\ Today \in DOMAIN segments THEN segments ELSE Prune(created)

\* NewEventLog.
Open ==
    /\ file = -1 /\ batch = <<>> /\ segments' = Prune(segments)
    /\ UNCHANGED <<now, file, batch, last, accepted, batches, torn>>

\* Publish is called, for new events or once more for the same ones.
Publish ==
    /\ batch = <<>> /\ batches < MaxBatches /\ batches' = batches + 1
    /\ \E skew \in Skews, size \in 1..2 :
         batch' = IF last = <<>> \/ size = 2
                  THEN [k \in 1..size |-> [id |-> <<batches', k>>, at |-> now + skew]]
                  ELSE last
    /\ last' = batch'
    /\ UNCHANGED <<now, segments, file, accepted, torn>>

\* One event is written: whole, alone on its line or after what dangles.
Write ==
    /\ batch /= <<>> /\ batch' = Tail(batch) /\ file' = Today
    /\ LET segs == SegmentFile IN
       segments' = IF segs[Today].dangling THEN [segs EXCEPT ![Today].dangling = FALSE]
                   ELSE [segs EXCEPT ![Today].lines = Append(@, Head(batch))]
    /\ accepted' = IF batch' /= <<>> THEN accepted
                   ELSE accepted \cup {[id |-> e.id, at |-> e.at, written |-> now] : e \in Range(last)}
    /\ last' = IF batch' = <<>> THEN <<>> ELSE last
    /\ UNCHANGED <<now, batches, torn>>

\* The write fails, part of the line may be there; the call returns.  With
\* the process when it is a crash.
WriteFails ==
    /\ batch /= <<>> /\ batch' = <<>> /\ torn < MaxTorn /\ torn' = torn + 1
    /\ \E partly, crash \in BOOLEAN :
         /\ segments' = IF partly THEN [SegmentFile EXCEPT ![Today].dangling = TRUE] ELSE segments
         /\ file' = IF crash THEN -1 ELSE IF partly THEN Today ELSE file
    /\ UNCHANGED <<now, last, accepted, batches>>

Close ==
    /\ batch = <<>> /\ file' = -1
    /\ UNCHANGED <<now, segments, batch, last, accepted, batches, torn>>

Tick ==
    /\ now < MaxTime /\ batch = <<>> /\ now' = now + 1
    /\ UNCHANGED <<segments, file, batch, last, accepted, batches, torn>>

Next == Open \/ Publish \/ Write \/ WriteFails \/ Close \/ Tick
Spec == Init /\ [][Next]_eventlog

----------------------------------------------------------------------------
(* Query *)

\* The segments that may hold an event of the window; 0 is no bound.
Visited(since, until) ==
    {d \in DOMAIN segments : /\ since = 0 \/ (d + 2) * Day >= since
                             /\ until = 0 \/ (d - 1) * Day <= until}

ScanSegment(d, since, until) ==
    {e \in Range(segments[d].lines) : /\ since = 0 \/ e.at >= since
                                      /\ until = 0 \/ e.at <= until}

Query(since, until, limit) ==
    LET events == UNION {ScanSegment(d, since, until) : d \in Visited(since, until)} IN
    IF limit <= 0 THEN events
    ELSE {e \in events : Cardinality({f \in events : f.at > e.at}) < limit}

----------------------------------------------------------------------------
(* Properties *)

\* Written within the retention, a day at most from its timestamp.
Retained ==
    {e \in accepted : /\ Retention <= 0 \/ e.written >= now - Retention
                      /\ e.at - e.written \in -Day..Day}

\* Every event accepted within the retention is found by every window that
\* holds its timestamp, across rotations, restarts and skewed clocks; a torn
\* write costs one of them at most, and never what was written before it.
QueryFindsRetained ==
    LET readable == {e.id : e \in Query(0, 0, 0)} IN
    /\ Cardinality({e \in Retained : e.id \notin readable}) <= torn
    /\ \A e \in Retained : e.id \in readable =>
         \A since \in 0..e.at, until \in {0} \cup e.at..MaxTime :
           \E f \in Query(since, until, 0) : f.id = e.id
=============================================================================

------------------------------- MODULE PodLogs -------------------------------
(***************************************************************************)
(* The pod log tailer of the kubernetes plugin: the pods of a collection   *)
(* are listed and watched, and the log of each running pod is followed by  *)
(* a goroutine, which reconnects from the time of the last line it shipped *)
(* cut to the second.  A pod has one container, a value of the cluster is  *)
(* the phase of a pod.  Time passes in units, several to a second.         *)
(***************************************************************************)
EXTENDS ListWatch

CONSTANTS
    Second,         \* units of time in a second
    InitialSince,   \* initialSinceSeconds
    InitialBackoff, MaxBackoff, LongEnough,  \* the waits of follow
    LongLines,      \* BOOLEAN values of a line: may it exceed maxLineBytes
    MaxTime, MaxLines  \* bounds: the clock and the lines of a pod

PodLogsAssumption ==
    /\ Second \in Nat \ {0} /\ LongLines \subseteq BOOLEAN
    /\ {InitialBackoff, MaxBackoff, MaxTime} \subseteq Nat

VARIABLES
    clock,
    lines,    \* pod -> its log, a sequence of [at, long]
    streams,  \* pod -> which of its followers tails it, 0 for none
    tails     \* pod -> the followers started for it

tailer == <<streams, tails>>
podlogs == <<listwatch, clock, lines, tailer>>

Smaller(a, b) == IF a < b THEN a ELSE b

Init ==
    /\ LWInit /\ clock = Second /\ lines = [p \in Objects |-> <<>>]
    /\ streams = [p \in Objects |-> 0] /\ tails = [p \in Objects |-> <<>>]

----------------------------------------------------------------------------
(* The callbacks of the collection *)

Attached ==
    [at |-> "connecting", cancelled |-> FALSE, backoff |-> InitialBackoff,
     since |-> 0, wake |-> 0, last |-> 0, next |-> 0, shipped |-> {}]

\* sync and stop: what the phase of a pod asks of its stream.
Sync(phase) ==
    CASE phase = "Running" -> "start"
      [] phase \in {"Succeeded", "Failed"} -> "stop"
      [] OTHER -> "keep"

\* reconcile: the streams of the pods that do not run are cancelled first.
Reconcile(phase) == IF phase = "Running" THEN "start" ELSE "stop"

\* The streams started and stopped, by an order for each pod.
Align(order) ==
    /\ streams' = [p \in Objects |->
         CASE order[p] = "stop" -> 0
           [] order[p] = "start" /\ streams[p] = 0 -> Len(tails[p]) + 1
           [] OTHER -> streams[p]]
    /\ tails' = [p \in Objects |->
         CASE order[p] = "start" /\ streams[p] = 0 -> Append(tails[p], Attached)
           [] order[p] = "stop" /\ streams[p] /= 0 ->
                [tails[p] EXCEPT ![streams[p]].cancelled = TRUE]
           [] OTHER -> tails[p]]

OnList ==
    /\ List /\ Align([p \in Objects |-> Reconcile(cluster[p])])
    /\ UNCHANGED <<clock, lines>>

\* A deleted pod stops, any other frame is synchronised.
OnEvent ==
    /\ Watch
    /\ Align([p \in Objects |-> IF p /= Frame.object THEN "keep"
                                ELSE IF Frame.value = Absent THEN "stop"
                                ELSE Sync(Frame.value)])
    /\ UNCHANGED <<clock, lines>>

----------------------------------------------------------------------------
(* follow, for one follower of a pod *)

Set(p, n, follower) ==
    /\ tails' = [tails EXCEPT ![p][n] = follower]
    /\ UNCHANGED <<streams, clock, lines, cluster, log, lw>>

\* Mutant: the resume time is rounded up.
FromRoundedUp(f) ==
    IF f.last = 0 THEN clock - InitialSince ELSE f.last - (f.last % Second) + Second

\* sinceSeconds before any line, then sinceTime at the precision of a second.
From(f) ==
    IF f.last = 0 THEN clock - InitialSince ELSE f.last - (f.last % Second)

\* A wait after which follow connects again, doubled for the next time.
Asleep(f, backoff) ==
    [f EXCEPT !.at = "asleep", !.wake = Smaller(clock + backoff, MaxTime),
              !.backoff = Smaller(2 * backoff, MaxBackoff)]

\* The lines of the container from the requested time on.
Connect(p, n) ==
    LET f == tails[p][n]
        before == {i \in DOMAIN lines[p] : lines[p][i].at < From(f)} IN
    /\ f.at = "connecting" /\ ~f.cancelled /\ cluster[p] = "Running"
    /\ Set(p, n, [f EXCEPT !.at = "reading", !.since = clock,
                           !.next = Cardinality(before) + 1])
    /\ UNCHANGED breaks

\* The request is refused: the pod is gone, its container starts, or a fault.
ConnectFails(p, n) ==
    LET f == tails[p][n] IN
    /\ f.at = "connecting" /\ ~f.cancelled
    /\ \/ cluster[p] /= "Running" /\ UNCHANGED breaks
       \/ cluster[p] = "Running" /\ breaks < MaxBreaks /\ breaks' = breaks + 1
    /\ Set(p, n, Asleep(f, f.backoff))

\* Mutant: a stream that ends is not opened again.
EndedForGood(f) == [f EXCEPT !.at = "gone"]

\* A stream that lasted resets the backoff.
Ended(f) ==
    Asleep([f EXCEPT !.next = 0, !.since = 0],
           IF clock - f.since > LongEnough THEN InitialBackoff ELSE f.backoff)

\* One line: shipped unless the context ends first; a line too long ends the
\* stream.
ReadLine(p, n) ==
    LET f == tails[p][n]
        line == lines[p][f.next] IN
    /\ f.at = "reading" /\ f.next \in DOMAIN lines[p]
    /\ IF line.long /\ ~f.cancelled THEN Set(p, n, Ended(f))
       ELSE \E sent \in IF f.cancelled THEN BOOLEAN ELSE {TRUE} :
              Set(p, n, [f EXCEPT !.last = line.at, !.next = @ + 1,
                           !.shipped = IF sent /\ ~line.long THEN @ \cup {f.next} ELSE @])
    /\ UNCHANGED breaks

\* The stream ends: its pod stopped, or it broke.
StreamEnds(p, n) ==
    LET f == tails[p][n] IN
    /\ f.at = "reading" /\ ~f.cancelled
    /\ \/ cluster[p] /= "Running" /\ f.next \notin DOMAIN lines[p] /\ UNCHANGED breaks
       \/ breaks < MaxBreaks /\ breaks' = breaks + 1
    /\ Set(p, n, Ended(f))

Reconnects(p, n) ==
    LET f == tails[p][n] IN
    /\ f.at = "asleep" /\ ~f.cancelled /\ f.wake <= clock
    /\ Set(p, n, [f EXCEPT !.at = "connecting", !.wake = 0]) /\ UNCHANGED breaks

\* A follower whose context ended returns, from wherever it was.
Returns(p, n) ==
    /\ tails[p][n].cancelled /\ tails[p][n].at /= "gone"
    /\ Set(p, n, [tails[p][n] EXCEPT !.at = "gone"]) /\ UNCHANGED breaks

Follow(p, n) ==
    \/ Connect(p, n) \/ ConnectFails(p, n) \/ ReadLine(p, n)
    \/ Reconnects(p, n) \/ Returns(p, n)

----------------------------------------------------------------------------
(* The environment *)

\* External: the cluster starts, ends and deletes pods.
PodMoves ==
    /\ \E p \in Objects : \E v \in Writes(cluster[p]) : Write(p, v)
    /\ UNCHANGED <<clock, lines, tailer>>

\* External: a running container writes a line.
WriteLine(p) ==
    /\ cluster[p] = "Running" /\ Len(lines[p]) < MaxLines
    /\ \E long \in LongLines :
         lines' = [lines EXCEPT ![p] = Append(@, [at |-> clock, long |-> long])]
    /\ UNCHANGED <<listwatch, clock, tailer>>

Tick ==
    /\ clock < MaxTime /\ clock' = clock + 1
    /\ UNCHANGED <<listwatch, lines, tailer>>

Next ==
    \/ OnList \/ OnEvent \/ PodMoves \/ Tick
    \/ Breaks /\ UNCHANGED <<clock, lines, tailer>>
    \/ \E p \in Objects :
         \/ WriteLine(p)
         \/ \E n \in DOMAIN tails[p] : Follow(p, n) \/ StreamEnds(p, n)

\* Fairness: the goroutines go on, the clock too, and a request of a running
\* pod is answered; nothing need break.
Tailer == OnList \/ OnEvent \/ (Wakes /\ UNCHANGED <<clock, lines, tailer>>)
Goes(p, n) == n \in DOMAIN tails[p] /\ Follow(p, n)
Fairness ==
    /\ WF_podlogs(Tailer) /\ WF_podlogs(Tick)
    /\ \A p \in Objects, n \in 1..MaxWrites : WF_podlogs(Goes(p, n))

Spec == Init /\ [][Next]_podlogs /\ Fairness

----------------------------------------------------------------------------
(* Properties *)

\* At every moment a follower that nobody cancelled is the one its pod is
\* filed under: none runs on that nothing could stop, and a pod is never
\* tailed twice.
NoStrayTail ==
    \A p \in Objects : \A n \in DOMAIN tails[p] :
      ~tails[p][n].cancelled <=> streams[p] = n

\* Between each line a follower shipped and the one it reads on from there is no
\* hole, however often the stream broke in between: it never resumes beyond the
\* line after its last one.  Before the first line it shipped it may resume,
\* with the lines of the same second.
NoHole ==
    \A p \in Objects : \A n \in DOMAIN tails[p] :
      LET f == tails[p][n] IN
      f.at = "reading" /\ ~f.cancelled =>
        \A i \in f.shipped : i..(f.next - 1) \subseteq f.shipped

\* What is tailed is tailed once, and without a hole.
TailsAreWhole == NoStrayTail /\ NoHole

\* Once its follower has shipped a line of a pod, each later line of ordinary
\* length is shipped in the end, unless the pod stops running.
EachLineShipped ==
    \A p \in Objects : \A i \in 1..MaxLines :
      ( /\ i \in DOMAIN lines[p] /\ ~lines[p][i].long
        /\ streams[p] /= 0 /\ \E j \in 1..i - 1 : j \in tails[p][streams[p]].shipped )
        ~> (cluster[p] /= "Running" \/ \E n \in DOMAIN tails[p] : i \in tails[p][n].shipped)
=============================================================================

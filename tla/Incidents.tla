------------------------------ MODULE Incidents ------------------------------
(***************************************************************************)
(* The grouping of the events of the log into incidents: an event joins an *)
(* open incident it is related to, by its service, by a change correlated  *)
(* with both or by following it at once, and opens one otherwise.          *)
(*                                                                         *)
(* An event is [id, at, service, source, changes, severity]; an incident   *)
(* is the sequence of its events, the first one its trigger.               *)
(***************************************************************************)
EXTENDS Integers, Sequences, FiniteSets, TLC

CONSTANTS
    DefaultGap,    \* the silence that ends an incident
    MaxDuration,   \* no event joins an incident older than this
    CoOccurrence   \* how close unrelated services belong together

ServiceOf(e) == IF e.service /= "" THEN e.service ELSE e.source
SeverityRank(s) ==
    CASE s = "critical" -> 3 [] s = "warning" -> 2 [] s = "info" -> 1 [] OTHER -> 0

\* withDefaults, for the gap: the only option a reader changes.
GapOr(gap) == IF gap <= 0 THEN DefaultGap ELSE gap

\* The stable sorts of the code: equal keys stay in their order.
SortedBy(s, key) ==
    LET order == SortSeq([k \in DOMAIN s |-> k],
                         LAMBDA i, j : key[i] < key[j] \/ (key[i] = key[j] /\ i < j))
    IN  [k \in DOMAIN s |-> s[order[k]]]

\* What build computes of an incident.
Trigger(incident) == Head(incident)
Start(incident) == Head(incident).at
End(incident) == incident[Len(incident)].at
Severity(incident) ==
    LET worst == CHOOSE k \in DOMAIN incident : \A j \in DOMAIN incident :
                   SeverityRank(incident[k].severity) >= SeverityRank(incident[j].severity)
    IN  incident[worst].severity

RelatedTo(incident, e) ==
    \/ \E k \in DOMAIN incident :
         \/ ServiceOf(incident[k]) = ServiceOf(e)
         \/ incident[k].changes \cap e.changes /= {}
    \/ e.at - End(incident) <= CoOccurrence

\* Mutant: the age of the incident is counted from its last event.
HostsChronic(open, e) ==
    {k \in DOMAIN open : e.at - End(open[k]) <= MaxDuration /\ RelatedTo(open[k], e)}

\* The open incidents an event may join.
Hosts(open, e) ==
    {k \in DOMAIN open : e.at - Start(open[k]) <= MaxDuration /\ RelatedTo(open[k], e)}

\* pick: the most recently active of them, the oldest of equals.
Pick(open, hosts) ==
    CHOOSE k \in hosts : \A j \in hosts :
      End(open[j]) < End(open[k]) \/ (End(open[j]) = End(open[k]) /\ k <= j)

\* One turn of the loop of Group.
Joined(stories, e, gap) ==
    LET closes(incident) == e.at - End(incident) > gap
        open == SelectSeq(stories.open, LAMBDA o : ~closes(o))
        hosts == Hosts(open, e)
    IN  [closed |-> stories.closed \o SelectSeq(stories.open, closes),
         open |-> IF hosts = {} THEN Append(open, <<e>>)
                  ELSE [open EXCEPT ![Pick(open, hosts)] = Append(@, e)]]

Group(events, gap) ==
    LET sorted == SortedBy(events, [k \in DOMAIN events |-> events[k].at])
        stories[k \in 0..Len(sorted)] ==
          IF k = 0 THEN [closed |-> <<>>, open |-> <<>>]
          ELSE Joined(stories[k - 1], sorted[k], GapOr(gap))
        incidents == stories[Len(sorted)].closed \o stories[Len(sorted)].open
    IN  SortedBy(incidents, [k \in DOMAIN incidents |-> Start(incidents[k])])

----------------------------------------------------------------------------
(* What the grouping promises *)

Members(incident) == {incident[k].id : k \in DOMAIN incident}

\* The incidents share out the events; the events of one follow each other
\* within the gap and start within the maximal duration, each of them is
\* related to what came before; and an event that opens an incident was
\* related to none that it could have joined.
WellGrouped(events, gap) ==
    LET incidents == Group(events, gap)
        before(incident, e) == SelectSeq(incident, LAMBDA d :
                                 d.at < e.at \/ (d.at = e.at /\ d.id < e.id))
        joinable(past, e) == /\ past /= <<>> /\ RelatedTo(past, e)
                             /\ e.at - End(past) <= GapOr(gap)
                             /\ e.at - Start(past) <= MaxDuration
    IN  /\ UNION {Members(incidents[i]) : i \in DOMAIN incidents}
             = {events[k].id : k \in DOMAIN events}
        /\ \A i, j \in DOMAIN incidents :
             i /= j => Members(incidents[i]) \cap Members(incidents[j]) = {}
        /\ \A i \in DOMAIN incidents : \A k \in DOMAIN incidents[i] :
             LET e == incidents[i][k] IN
             IF k > 1 THEN joinable(SubSeq(incidents[i], 1, k - 1), e)
             ELSE \A j \in DOMAIN incidents : ~joinable(before(incidents[j], e), e)
=============================================================================

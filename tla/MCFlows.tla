------------------------------- MODULE MCFlows -------------------------------
\* The parts observations and events flow through on their way in and out,
\* side by side in one model, of which one runs while the others rest: the
\* gRPC links, the tailing of pod logs, the sink that broadcasts to subscribers
\* and the sink that retries.
EXTENDS Broadcast

CONSTANTS
    p1,
    \* those of the sink that retries
    QueueSize, MaxAttempts, InitialBackoff, RetryMaxBackoff,
    \* those of the links
    Clients, Kinds, Load, MaxBreaks, BufferSize, Window

VARIABLES
    which,  \* the part that runs
    offered, queue, queueClosed, dropped, runner, evt, attempt, backoff,
    abandoned, taken, closer, refused,
    source, buffer, client, streams, server, out, lost, breaks,
    cluster, log, lw, ends, clock, lines, tailed, tails

resilient == <<offered, queue, queueClosed, dropped, runner, evt, attempt,
               backoff, abandoned, taken, closer, refused>>
links == <<source, buffer, client, streams, server, out, lost, breaks>>
podlogs == <<cluster, log, lw, ends, clock, lines, tailed, tails>>
flows == <<which, vars, resilient, links, podlogs>>

Resilient == INSTANCE Resilient

Links == INSTANCE Links

\* One pod, which starts and may stop.
PhaseWrites(phase) ==
    CASE phase = "none" -> {"Pending", "Running"}
      [] phase \in {"Pending", "Unknown"} -> {"Running"}
      [] phase = "Running" -> {"Unknown", "Succeeded", "none"}
      [] OTHER -> {"none"}
PodLogs == INSTANCE PodLogs WITH
    Objects <- {p1}, Absent <- "none", Writes <- PhaseWrites, MaxWrites <- 2,
    MaxBreaks <- 1, Second <- 2, InitialSince <- 2, InitialBackoff <- 1,
    MaxBackoff <- 4, LongEnough <- 2, LongLines <- {FALSE}, MaxTime <- 4,
    MaxLines <- 2, breaks <- ends, streams <- tailed

ASSUME FlowsAssumption ==
       /\ BroadcastAssumption /\ Resilient!ResilientAssumption
       /\ Links!LinksAssumption

----------------------------------------------------------------------------
Rest(parts) ==
    /\ UNCHANGED which
    /\ IF "broadcast" \in parts THEN UNCHANGED vars ELSE TRUE
    /\ IF "resilient" \in parts THEN UNCHANGED resilient ELSE TRUE
    /\ IF "links" \in parts THEN UNCHANGED links ELSE TRUE
    /\ IF "podlogs" \in parts THEN UNCHANGED podlogs ELSE TRUE

Parts == {"broadcast", "resilient", "links", "podlogs"}
Runs(part) == which = part /\ Rest(Parts \ {part})

InitFlows ==
    /\ which \in Parts
    /\ Init /\ Resilient!Init /\ Links!Init /\ PodLogs!Init
    /\ which # "links" => \A c \in Clients : source[c].kind = "log"

NextFlows ==
    \/ Runs("broadcast") /\ Next
    \/ Runs("resilient") /\ Resilient!Next
    \/ Runs("links") /\ Links!Next
    \/ Runs("podlogs") /\ PodLogs!Next

\* The fairness of the part that runs, as its own module states it.
FairBroadcast ==
    /\ WF_flows(Runs("broadcast") /\ PublishOne)
    /\ \A s \in Subscribers :
         /\ WF_flows(Runs("broadcast") /\ Handle(s))
         /\ SF_flows(Runs("broadcast") /\ Cancel(s))
FairResilient ==
    /\ WF_flows(Runs("resilient") /\ Resilient!Run)
    /\ WF_flows(Runs("resilient") /\ Resilient!CloseInner)
FairLinks ==
    /\ \A s \in 1..(Cardinality(Clients) + MaxBreaks) :
         WF_flows(Runs("links") /\ Links!Handle(s))
    /\ WF_flows(Runs("links") /\ Links!ForceStop)
    /\ WF_flows(Runs("links") /\ Links!IngestReturns)
    /\ \A c \in Clients :
         /\ WF_flows(Runs("links") /\ Links!SingleObservation(c))
         /\ WF_flows(Runs("links") /\ Links!Hook(c))
         /\ WF_flows(Runs("links") /\ Links!Late(c))

FairPodLogs ==
    /\ WF_flows(Runs("podlogs") /\ PodLogs!Tailer)
    /\ WF_flows(Runs("podlogs") /\ PodLogs!Tick)
    /\ \A n \in 1..2 : WF_flows(Runs("podlogs") /\ PodLogs!Goes(p1, n))

SpecFlows ==
    /\ InitFlows /\ [][NextFlows]_flows
    /\ FairBroadcast /\ FairResilient /\ FairLinks /\ FairPodLogs

----------------------------------------------------------------------------
(* The properties of the parts; one that rests has nothing to show *)

Delivery == Resilient!Delivery
EventsSettle == Resilient!EventsSettle
LinkIsHonest == Links!LinkIsHonest
EachLineShipped == PodLogs!EachLineShipped
NothingHangs == which = "links" => Links!NothingHangs
==============================================================================

-------------------------------- MODULE Links --------------------------------
(***************************************************************************)
(* The forwarding link: a command reads lines into a buffer, a client      *)
(* sends them on a gRPC stream that it opens again when it breaks, and the *)
(* server hands what it receives to the engine.  A stream is a FIFO wire   *)
(* that a break empties; gRPC itself is modelled from how it is used.  An  *)
(* observation is <<client, line>>, the end of the stream is line 0.       *)
(***************************************************************************)
EXTENDS Integers, Sequences, FiniteSets, SequencesExt

CONSTANTS
    Clients,
    Kinds,      \* the clients to consider: "log", "change", "metric", "hook"
    Load, MaxBreaks,     \* bounds: the lines of a client, the broken connections
    BufferSize, Window   \* what the buffer and a wire hold

LinksAssumption ==
    /\ Kinds \subseteq {"log", "change", "metric", "hook"}
    /\ {Load, MaxBreaks, BufferSize, Window} \subseteq Nat

VARIABLES
    source,     \* client -> [kind, lines, end]: what it reads, how that ended
    buffer,     \* client -> the observations read and not yet sent
    client,     \* client -> [at, stream, expired]
    streams,    \* the streams opened, in order
    server,     \* "serving", "draining", "forced", "returned"
    out,        \* observation -> how many times the engine was handed it
    lost,       \* history: what a break, a timeout or a shutdown took
    breaks

links == <<source, buffer, client, streams, server, out, lost, breaks>>

Observations == Clients \X (1..Load)

Init ==
    /\ \E kind \in [Clients -> Kinds] :
         source = [c \in Clients |-> [kind |-> kind[c], lines |-> 0, end |-> "reading"]]
    /\ buffer = [c \in Clients |-> <<>>]
    /\ client = [c \in Clients |-> [at |-> "sending", stream |-> 0, expired |-> FALSE]]
    /\ streams = <<>> /\ server = "serving" /\ lost = {} /\ breaks = 0
    /\ out = [o \in Observations |-> 0]

----------------------------------------------------------------------------
(* The readers of the command *)

Kind(c) == source[c].kind

\* One line read: kept, or skipped when it says nothing (skips).
ReadLine(c, skips) ==
    /\ source[c].end = "reading" /\ source[c].lines < Load
    /\ source' = [source EXCEPT ![c].lines = @ + 1]
    /\ \/ /\ Len(buffer[c]) < BufferSize
          /\ buffer' = [buffer EXCEPT ![c] = Append(@, source'[c].lines)]
          /\ UNCHANGED lost
       \/ /\ skips /\ lost' = lost \cup {<<c, source'[c].lines>>}
          /\ UNCHANGED buffer
    /\ UNCHANGED <<client, streams, server, out, breaks>>

LogIngest(c) == Kind(c) = "log" /\ ReadLine(c, TRUE)        \* a blank line
ChangeIngest(c) == Kind(c) = "change" /\ ReadLine(c, TRUE)  \* or malformed JSON
MetricIngest(c) == Kind(c) = "metric" /\ ReadLine(c, TRUE)  \* or a comment
SingleObservation(c) ==
    /\ Kind(c) = "hook" /\ source[c].lines = 0 /\ ReadLine(c, FALSE)

\* The channel is closed: the end of the input, a line too long for the
\* scanner, or a context that is done.
IngestEnds(c) ==
    /\ source[c].end = "reading"
    /\ \/ /\ Kind(c) = "hook" => source[c].lines = 1
          /\ source' = [source EXCEPT ![c].end = "closed"]
       \/ /\ Kind(c) /= "hook" \/ client[c].expired
          /\ source' = [source EXCEPT ![c].end = "failed"]
    /\ UNCHANGED <<buffer, client, streams, server, out, lost, breaks>>

----------------------------------------------------------------------------
(* Forward *)

OnWire(c, s) == {<<c, n>> : n \in ToSet(s.wire) \ {0}}

\* The streams of a set break, with all that is on their wires.
Severed(ss) ==
    /\ streams' = [s \in DOMAIN streams |->
                     IF s \in ss THEN [streams[s] EXCEPT !.wire = <<>>, !.broken = TRUE]
                     ELSE streams[s]]
    /\ lost' = lost \cup UNION {OnWire(streams[s].owner, streams[s]) : s \in ss}

Stream(c) == client[c].stream
Ready(c) == client[c].at = "sending" /\ buffer[c] /= <<>>
Set(c, at, stream) == client' = [client EXCEPT ![c].at = at, ![c].stream = stream]
ServerSame == UNCHANGED <<server, out, breaks>>

OpenStream(c) ==
    /\ Ready(c) /\ Stream(c) = 0 /\ server = "serving" /\ ~client[c].expired
    /\ streams' = Append(streams, [owner |-> c, wire |-> <<>>, sent |-> {}, held |-> 0,
                                   broken |-> FALSE, handler |-> "live"])
    /\ Set(c, "sending", Len(streams'))
    /\ UNCHANGED <<source, buffer, lost>> /\ ServerSame

\* The stream is refused: the client waits, or gives up with its context.
OpenFails(c) ==
    /\ Ready(c) /\ Stream(c) = 0
    /\ Set(c, IF client[c].expired THEN "failed" ELSE "backoff", 0)
    /\ UNCHANGED <<source, buffer, streams, lost>> /\ ServerSame

BackoffEnds(c) ==
    /\ client[c].at = "backoff"
    /\ Set(c, IF client[c].expired THEN "failed" ELSE "sending", 0)
    /\ UNCHANGED <<source, buffer, streams, lost>> /\ ServerSame

\* A stream that is broken may still take what is sent, until it is noticed.
Send(c) ==
    /\ Ready(c) /\ Stream(c) /= 0 /\ Len(streams[Stream(c)].wire) < Window
    /\ LET o == Head(buffer[c]) IN
       /\ streams' = [streams EXCEPT ![Stream(c)].sent = @ \cup {o},
                                     ![Stream(c)].wire = IF streams[Stream(c)].broken
                                                         THEN @ ELSE Append(@, o)]
       /\ lost' = IF streams[Stream(c)].broken THEN lost \cup {<<c, o>>} ELSE lost
    /\ buffer' = [buffer EXCEPT ![c] = Tail(@)]
    /\ UNCHANGED <<source, client>> /\ ServerSame

\* Mutant: the observation whose Send failed is not retried.
Skipped(c) == buffer' = [buffer EXCEPT ![c] = Tail(@)]

\* What becomes of the observation whose Send failed: the next stream takes it.
Retried(c) == UNCHANGED buffer

SendFails(c) ==
    /\ Ready(c) /\ Stream(c) /= 0 /\ streams[Stream(c)].broken
    /\ Set(c, "sending", 0) /\ Retried(c)
    /\ UNCHANGED <<source, streams, lost>> /\ ServerSame

\* The channel is closed and empty: the stream is closed, if there is one.
CloseSend(c) ==
    /\ client[c].at = "sending" /\ buffer[c] = <<>> /\ source[c].end /= "reading"
    /\ IF Stream(c) = 0 THEN Set(c, "done", 0) /\ UNCHANGED streams
       ELSE /\ Set(c, "closing", Stream(c))
            /\ streams' = [streams EXCEPT ![Stream(c)].wire =
                             IF streams[Stream(c)].broken THEN @ ELSE Append(@, 0)]
    /\ UNCHANGED <<source, buffer, lost>> /\ ServerSame

CloseRecv(c) ==
    /\ client[c].at = "closing"
    /\ \/ streams[Stream(c)].broken /\ Set(c, "failed", Stream(c))
       \/ streams[Stream(c)].handler = "summary" /\ Set(c, "done", Stream(c))
    /\ UNCHANGED <<source, buffer, streams, lost>> /\ ServerSame

\* The context of the command ends: its timeout, an interruption, or a
\* reader that failed.
Expire(c) ==
    /\ ~client[c].expired /\ client[c].at \notin {"done", "failed"}
    /\ client' = [client EXCEPT ![c].expired = TRUE]
    /\ Severed({Stream(c)} \ {0})
    /\ UNCHANGED <<source, buffer>> /\ ServerSame

----------------------------------------------------------------------------
(* StreamObservations *)

ClientsSame == UNCHANGED <<source, buffer, client>>

\* The next observation, the end of the stream, or its error.
Recv(s) ==
    /\ streams[s].handler = "live" /\ streams[s].held = 0
    /\ \/ /\ streams[s].wire /= <<>>
          /\ streams' = IF Head(streams[s].wire) = 0
                        THEN [streams EXCEPT ![s].handler = "summary", ![s].wire = <<>>]
                        ELSE [streams EXCEPT ![s].held = Head(streams[s].wire),
                                             ![s].wire = Tail(@)]
       \/ streams[s].broken /\ streams' = [streams EXCEPT ![s].handler = "error"]
    /\ ClientsSame /\ UNCHANGED <<lost, server, out, breaks>>

Deliver(s) ==
    /\ streams[s].held /= 0
    /\ out' = [out EXCEPT ![<<streams[s].owner, streams[s].held>>] = @ + 1]
    /\ streams' = [streams EXCEPT ![s].held = 0]
    /\ ClientsSame /\ UNCHANGED <<lost, server, breaks>>

\* The context of the stream or of the server ends while the engine is full.
Abandon(s) ==
    /\ streams[s].held /= 0 /\ (streams[s].broken \/ server /= "serving")
    /\ streams' = [streams EXCEPT ![s].held = 0, ![s].wire = <<>>,
                                  ![s].broken = TRUE, ![s].handler = "error"]
    /\ lost' = lost \cup OnWire(streams[s].owner, streams[s])
                    \cup {<<streams[s].owner, streams[s].held>>}
    /\ ClientsSame /\ UNCHANGED <<server, out, breaks>>

----------------------------------------------------------------------------
(* Ingest and stop *)

Live == {s \in DOMAIN streams : streams[s].handler = "live"}

Break(s) ==
    /\ breaks < MaxBreaks /\ breaks' = breaks + 1 /\ s \in Live /\ ~streams[s].broken
    /\ Severed({s})
    /\ ClientsSame /\ UNCHANGED <<server, out>>

Cancel ==
    /\ server = "serving" /\ server' = "draining"
    /\ ClientsSame /\ UNCHANGED <<streams, out, lost, breaks>>

\* Mutant: the drain of the streams has no timeout.
DrainForEver == FALSE

\* The drain timeout is over, whatever still runs.
DrainOver == server = "draining"

ForceStop ==
    /\ DrainOver /\ server' = "forced" /\ Severed(Live)
    /\ ClientsSame /\ UNCHANGED <<out, breaks>>

\* GracefulStop has returned, which waits for the handlers.
Drained == Live = {}

\* Ingest returns: the engine may close the channel.
IngestReturns ==
    /\ server \in {"draining", "forced"} /\ Drained /\ server' = "returned"
    /\ ClientsSame /\ UNCHANGED <<streams, out, lost, breaks>>

Forward(c) ==
    \/ OpenStream(c) \/ OpenFails(c) \/ BackoffEnds(c) \/ Send(c) \/ SendFails(c)
    \/ CloseSend(c) \/ CloseRecv(c)

Ingester(c) ==
    LogIngest(c) \/ ChangeIngest(c) \/ MetricIngest(c) \/ SingleObservation(c)

Next ==
    \/ \E c \in Clients : Ingester(c) \/ IngestEnds(c) \/ Forward(c) \/ Expire(c)
    \/ \E s \in DOMAIN streams : Recv(s) \/ Deliver(s) \/ Abandon(s) \/ Break(s)
    \/ Cancel \/ ForceStop \/ IngestReturns

\* The handlers run, the timeouts expire, and a hook sends its one change;
\* nothing is assumed of the engine, nor of the other clients.
Handle(s) == s \in DOMAIN streams /\ (Recv(s) \/ Abandon(s))
Hook(c) == Kind(c) = "hook" /\ (IngestEnds(c) \/ Forward(c))
Late(c) == Kind(c) = "hook" /\ Expire(c)
Fairness ==
    /\ \A s \in 1..(Cardinality(Clients) + MaxBreaks) : WF_links(Handle(s))
    /\ WF_links(ForceStop) /\ WF_links(IngestReturns)
    /\ \A c \in Clients :
         WF_links(SingleObservation(c)) /\ WF_links(Hook(c)) /\ WF_links(Late(c))

Spec == Init /\ [][Next]_links /\ Fairness

----------------------------------------------------------------------------
(* Properties *)

InTransit(c) ==
    {<<c, n>> : n \in ToSet(buffer[c])} \cup
    UNION {OnWire(c, streams[s]) \cup {<<c, streams[s].held>>} :
             s \in {t \in DOMAIN streams : streams[t].owner = c}}

\* An observation read is never skipped nor handed over twice, across broken
\* streams and retries: it is on its way, with the engine, or it was lost to
\* a break; and when Forward reports success, all that its last stream
\* carried reached the engine.
ForwardTellsTheTruth ==
    /\ \A o \in Observations : out[o] <= 1
    /\ \A c \in Clients, n \in 1..Load :
         n <= source[c].lines => <<c, n>> \in lost \cup InTransit(c) \/ out[<<c, n>>] = 1
    /\ \A c \in Clients : client[c].at = "done" /\ Stream(c) /= 0 =>
         \A n \in streams[Stream(c)].sent : out[<<c, n>>] = 1

\* Once Ingest has returned the engine closes its channel: no handler may
\* then be about to send on it, forced or not.
NoHandlerOutlivesIngest == server = "returned" => Live = {}

\* What both ends of a link owe each other at every moment.
LinkIsHonest == ForwardTellsTheTruth /\ NoHandlerOutlivesIngest

\* A shutdown ends although the clients never stop sending and the engine
\* takes nothing, and a deployment hook ends whatever the server does.
NothingHangs ==
    /\ (server /= "serving") ~> (server = "returned")
    /\ \A c \in Clients : Kind(c) = "hook" => <>(client[c].at \in {"done", "failed"})
=============================================================================

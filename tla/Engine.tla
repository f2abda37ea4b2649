------------------------------- MODULE Engine -------------------------------
(***************************************************************************)
(* The observation pipeline of internal/core/engine: ingesters, a          *)
(* dispatcher, partitioned workers, a ticking flusher, a final flush and a *)
(* single publisher, all goroutines of one errgroup and joined by bounded  *)
(* channels.                                                               *)
(*                                                                         *)
(* An observation is a partition key and its rank among the observations   *)
(* of that key; an event is a number.  The processor chain is reduced to   *)
(* what the engine can tell apart: a processor rejects the observation, or *)
(* the analysis stage accepts it and may leave an event pending in the     *)
(* correlator, whose mutex is held while pending events are emitted.       *)
(***************************************************************************)
EXTENDS Naturals, Sequences, FiniteSets, Functions

LOCAL INSTANCE SequencesExt

CONSTANTS
    Ingesters,  \* the ingesters the engine was built with
    Attentive,  \* those that watch their context while waiting for input
    Keys,       \* the partition keys observations carry
    Workers,    \* the workers
    Route,      \* partitionIndex: the worker of each key
    NSinks,     \* how many sinks, published to in this order
    ObsCap,     \* ObservationBufferSize
    EvtCap,     \* EventBufferSize
    MaxObs,     \* bound: observations of each key
    MaxEvents   \* bound: events created

Ticker == "ticker"   \* the goroutine of runFlushers
Final  == "final"    \* the goroutine that joins the workers

ASSUME EngineAssumption ==
    /\ Ingesters # {} /\ Workers # {} /\ Attentive \subseteq Ingesters
    /\ Route \in [Keys -> Workers]
    /\ {Ticker, Final} \cap Workers = {}
    /\ NSinks \in Nat /\ ObsCap \in Nat \ {0} /\ EvtCap \in Nat \ {0}
    /\ MaxObs \in [Keys -> Nat] /\ MaxEvents \in Nat

VARIABLES
    cancelled,     \* gctx is done
    ing,           \* per ingester: "reading", "sending" or "returned"
    ingErr,        \* some ingester returned an error
    sent,          \* history: observations of each key put in the channel
    closer,        \* the goroutine around ingest.Wait: "wait", "closed", "exit"
    observations,  \* channel from the ingesters to the dispatcher
    held,          \* what the dispatcher received and has not forwarded
    dispatching,   \* the dispatcher has not returned
    workerInputs,  \* channel of each worker, closed when ~dispatching
    cur,           \* the observation each worker is processing
    wpc,           \* per worker: "range", "process", "flush", "flushing", "exit"
    handled,       \* history: rank of the last observation handled, per key
    made,          \* history: events created so far
    pending,       \* events the correlator holds
    lock,          \* holder of the correlator's mutex, if any
    batch,         \* what the holder of the mutex is about to emit
    flusher,       \* runFlushers: "select", "flush", "exit"
    final,         \* "workers", "flusher", "flush", "exit"
    events,        \* channel to the publisher, closed when final = "exit"
    pub,           \* what the publisher received and is publishing
    sinkAt,        \* the sink it publishes to next
    publishing,    \* the publisher has not returned
    offered,       \* history: the events each sink was given, in order
    reporting,     \* the stats goroutine has not returned
    stats          \* the health counters

vars == <<cancelled, ing, ingErr, sent, closer, observations, held,
          dispatching, workerInputs, cur, wpc, handled, made, pending, lock,
          batch, flusher, final, events, pub, sinkAt, publishing, offered,
          reporting, stats>>

ingestVars  == <<ing, ingErr, sent, closer>>
dispVars    == <<held, dispatching>>
workVars    == <<cur, wpc, handled>>
corrVars    == <<made, pending, lock, batch>>
flushVars   == <<flusher, final>>
publishVars == <<pub, sinkAt, publishing, offered>>

Sinks == 1..NSinks
Emitters == Workers \cup {Ticker, Final}
Observation == [key : Keys, n : Nat \ {0}]
Counters == [ingested : Nat, processed : Nat, rejected : Nat, events : Nat]

Init ==
    /\ cancelled = FALSE
    /\ ing = [i \in Ingesters |-> "reading"]
    /\ ingErr = FALSE
    /\ sent = [k \in Keys |-> 0]
    /\ closer = "wait"
    /\ observations = <<>>
    /\ held = <<>>
    /\ dispatching = TRUE
    /\ workerInputs = [w \in Workers |-> <<>>]
    /\ cur = [w \in Workers |-> <<>>]
    /\ wpc = [w \in Workers |-> "range"]
    /\ handled = [k \in Keys |-> 0]
    /\ made = 0
    /\ pending = {}
    /\ lock = {}
    /\ batch = {}
    /\ flusher = "select"
    /\ final = "workers"
    /\ events = <<>>
    /\ pub = <<>>
    /\ sinkAt = 1
    /\ publishing = TRUE
    /\ offered = [s \in Sinks |-> <<>>]
    /\ reporting = TRUE
    /\ stats = [ingested |-> 0, processed |-> 0, rejected |-> 0, events |-> 0]

-----------------------------------------------------------------------------
(* Ingestion *)

IngestCancelled == cancelled \/ ingErr

\* The source of an ingester yields an observation.
Read(i) ==
    /\ ing[i] = "reading"
    /\ ing' = [ing EXCEPT ![i] = "sending"]
    /\ UNCHANGED <<cancelled, ingErr, sent, closer, observations, workerInputs,
                   events, dispVars, workVars, corrVars, flushVars,
                   publishVars, reporting, stats>>

\* It puts the observation in the channel.
Send(i, k) ==
    /\ ing[i] = "sending"
    /\ sent[k] < MaxObs[k]
    /\ Len(observations) < ObsCap
    /\ observations' = Append(observations, [key |-> k, n |-> sent[k] + 1])
    /\ sent' = [sent EXCEPT ![k] = @ + 1]
    /\ ing' = [ing EXCEPT ![i] = "reading"]
    /\ UNCHANGED <<cancelled, ingErr, closer, workerInputs, events, dispVars,
                   workVars, corrVars, flushVars, publishVars, reporting,
                   stats>>

\* Its select took ctx.Done() instead: the observation is lost.
Abort(i) ==
    /\ ing[i] = "sending" /\ IngestCancelled
    /\ ing' = [ing EXCEPT ![i] = "returned"]
    /\ ingErr' = TRUE
    /\ UNCHANGED <<cancelled, sent, closer, observations, workerInputs,
                   events, dispVars, workVars, corrVars, flushVars,
                   publishVars, reporting, stats>>

\* Its source is exhausted.
Return(i) ==
    /\ ing[i] = "reading"
    /\ ing' = [ing EXCEPT ![i] = "returned"]
    /\ UNCHANGED <<cancelled, ingErr, sent, closer, observations, workerInputs,
                   events, dispVars, workVars, corrVars, flushVars,
                   publishVars, reporting, stats>>

\* Its source fails, or it noticed its context was done while waiting for
\* input: it returns an error, which cancels the context of the others.
Fail(i) ==
    /\ ing[i] = "reading"
    /\ ing' = [ing EXCEPT ![i] = "returned"]
    /\ ingErr' = TRUE
    /\ UNCHANGED <<cancelled, sent, closer, observations, workerInputs,
                   events, dispVars, workVars, corrVars, flushVars,
                   publishVars, reporting, stats>>

CloseObservations ==
    /\ closer = "wait"
    /\ \A i \in Ingesters : ing[i] = "returned"
    /\ closer' = "closed"
    /\ UNCHANGED <<cancelled, ing, ingErr, sent, observations, workerInputs,
                   events, dispVars, workVars, corrVars, flushVars,
                   publishVars, reporting, stats>>

\* The errgroup learns of the ingesters' error after the channel is closed.
CloserReturn ==
    /\ closer = "closed"
    /\ closer' = "exit"
    /\ cancelled' = (cancelled \/ ingErr)
    /\ UNCHANGED <<ing, ingErr, sent, observations, workerInputs, events,
                   dispVars, workVars, corrVars, flushVars, publishVars,
                   reporting, stats>>

\* The context given to Run is cancelled.
Cancel ==
    /\ ~cancelled
    /\ cancelled' = TRUE
    /\ UNCHANGED <<ingestVars, observations, workerInputs, events, dispVars,
                   workVars, corrVars, flushVars, publishVars, reporting,
                   stats>>

-----------------------------------------------------------------------------
(* Dispatch *)

DispatchReceive ==
    /\ dispatching /\ held = <<>> /\ observations # <<>>
    /\ held' = <<Head(observations)>>
    /\ observations' = Tail(observations)
    /\ stats' = [stats EXCEPT !.ingested = @ + 1]
    /\ UNCHANGED <<cancelled, ingestVars, dispatching, workerInputs, events,
                   workVars, corrVars, flushVars, publishVars, reporting>>

DispatchForward ==
    /\ dispatching /\ held # <<>>
    /\ LET w == Route[held[1].key] IN
       /\ Len(workerInputs[w]) < ObsCap
       /\ workerInputs' = [workerInputs EXCEPT ![w] = Append(@, held[1])]
    /\ held' = <<>>
    /\ UNCHANGED <<cancelled, ingestVars, observations, dispatching, events,
                   workVars, corrVars, flushVars, publishVars, reporting,
                   stats>>

\* Mutant: the cancelled dispatcher skips the observation and goes on.
DispatchSkip ==
    /\ dispatching /\ held # <<>> /\ cancelled
    /\ held' = <<>>
    /\ UNCHANGED <<cancelled, ingestVars, observations, dispatching,
                   workerInputs, events, workVars, corrVars, flushVars,
                   publishVars, reporting, stats>>

\* The select took gctx.Done(): the observation in hand is lost.
DispatchAbort ==
    /\ dispatching /\ held # <<>> /\ cancelled
    /\ dispatching' = FALSE
    /\ UNCHANGED <<cancelled, ingestVars, observations, held, workerInputs,
                   events, workVars, corrVars, flushVars, publishVars,
                   reporting, stats>>

DispatchReturn ==
    /\ dispatching /\ held = <<>>
    /\ observations = <<>> /\ closer # "wait"
    /\ dispatching' = FALSE
    /\ UNCHANGED <<cancelled, ingestVars, observations, held, workerInputs,
                   events, workVars, corrVars, flushVars, publishVars,
                   reporting, stats>>

-----------------------------------------------------------------------------
(* The correlator's mutex and the emission of events *)

\* Goroutine p takes the mutex to flush the pending events in es.
BeginFlush(p, es) ==
    /\ lock = {}
    /\ lock' = {p}
    /\ batch' = es
    /\ UNCHANGED <<made, pending>>

\* Mutant: the event is forgotten by the correlator and emitted again.
EmitAgain(p) ==
    /\ p \in lock
    /\ \E e \in batch :
         /\ Len(events) < EvtCap
         /\ events' = Append(events, e)
         /\ pending' = pending \ {e}
    /\ UNCHANGED <<cancelled, ingestVars, observations, workerInputs, dispVars,
                   workVars, made, lock, batch, flushVars, publishVars,
                   reporting, stats>>

\* Goroutine p emits an event: the select sends it, or takes gctx.Done().
Emit(p) ==
    /\ p \in lock
    /\ \E e \in batch :
         /\ \/ Len(events) < EvtCap /\ events' = Append(events, e)
            \/ cancelled /\ UNCHANGED events
         /\ pending' = pending \ {e}
         /\ batch' = batch \ {e}
    /\ UNCHANGED <<cancelled, ingestVars, observations, workerInputs, dispVars,
                   workVars, made, lock, flushVars, publishVars, reporting,
                   stats>>

EndFlush(p) ==
    /\ p \in lock /\ batch = {}
    /\ lock' = {}
    /\ UNCHANGED <<made, pending, batch>>

-----------------------------------------------------------------------------
(* Workers *)

WorkerReceive(w) ==
    /\ wpc[w] = "range" /\ workerInputs[w] # <<>>
    /\ cur' = [cur EXCEPT ![w] = <<Head(workerInputs[w])>>]
    /\ workerInputs' = [workerInputs EXCEPT ![w] = Tail(@)]
    /\ wpc' = [wpc EXCEPT ![w] = "process"]
    /\ UNCHANGED <<cancelled, ingestVars, observations, events, dispVars,
                   handled, corrVars, flushVars, publishVars, reporting,
                   stats>>

\* A processor returned an error, or dropped the observation.
Reject(w) ==
    /\ wpc[w] = "process"
    /\ wpc' = [wpc EXCEPT ![w] = "range"]
    /\ cur' = [cur EXCEPT ![w] = <<>>]
    /\ handled' = [handled EXCEPT ![cur[w][1].key] = cur[w][1].n]
    /\ stats' = [stats EXCEPT !.rejected = @ + 1]
    /\ UNCHANGED <<cancelled, ingestVars, observations, workerInputs, events,
                   dispVars, corrVars, flushVars, publishVars, reporting>>

\* The chain reached the analysis stage: Observe, Detect and Add, which may
\* leave a new event pending.
Analyse(w) ==
    /\ wpc[w] = "process" /\ lock = {}
    /\ \/ /\ made < MaxEvents
          /\ made' = made + 1 /\ pending' = pending \cup {made + 1}
       \/ UNCHANGED <<made, pending>>
    /\ wpc' = [wpc EXCEPT ![w] = "flush"]
    /\ UNCHANGED <<cancelled, ingestVars, observations, workerInputs, events,
                   dispVars, cur, handled, lock, batch, flushVars, publishVars,
                   reporting, stats>>

\* The analysis stage then flushes what expired.
WorkerFlush(w) ==
    /\ wpc[w] = "flush"
    /\ \E es \in SUBSET pending : BeginFlush(w, es)
    /\ wpc' = [wpc EXCEPT ![w] = "flushing"]
    /\ UNCHANGED <<cancelled, ingestVars, observations, workerInputs, events,
                   dispVars, cur, handled, flushVars, publishVars, reporting,
                   stats>>

Accept(w) ==
    /\ EndFlush(w)
    /\ wpc' = [wpc EXCEPT ![w] = "range"]
    /\ cur' = [cur EXCEPT ![w] = <<>>]
    /\ handled' = [handled EXCEPT ![cur[w][1].key] = cur[w][1].n]
    /\ stats' = [stats EXCEPT !.processed = @ + 1]
    /\ UNCHANGED <<cancelled, ingestVars, observations, workerInputs, events,
                   dispVars, flushVars, publishVars, reporting>>

\* Its input is closed and drained.
WorkerReturn(w) ==
    /\ wpc[w] = "range" /\ workerInputs[w] = <<>> /\ ~dispatching
    /\ wpc' = [wpc EXCEPT ![w] = "exit"]
    /\ UNCHANGED <<cancelled, ingestVars, observations, workerInputs, events,
                   dispVars, cur, handled, corrVars, flushVars, publishVars,
                   reporting, stats>>

-----------------------------------------------------------------------------
(* runFlushers and the final flush *)

Tick ==
    /\ flusher = "select"
    /\ \E es \in SUBSET pending : BeginFlush(Ticker, es)
    /\ flusher' = "flush"
    /\ UNCHANGED <<cancelled, ingestVars, observations, workerInputs, events,
                   dispVars, workVars, final, publishVars, reporting, stats>>

TickEnd ==
    /\ EndFlush(Ticker)
    /\ flusher' = "select"
    /\ UNCHANGED <<cancelled, ingestVars, observations, workerInputs, events,
                   dispVars, workVars, final, publishVars, reporting, stats>>

\* Mutant: runFlushers has no case for flusherDone.
FlusherReturnOnCancel ==
    /\ flusher = "select" /\ cancelled
    /\ flusher' = "exit"
    /\ UNCHANGED <<cancelled, ingestVars, observations, workerInputs, events,
                   dispVars, workVars, corrVars, final, publishVars, reporting,
                   stats>>

\* flusherDone was closed, or gctx is done.
FlusherReturn ==
    /\ flusher = "select"
    /\ final # "workers" \/ cancelled
    /\ flusher' = "exit"
    /\ UNCHANGED <<cancelled, ingestVars, observations, workerInputs, events,
                   dispVars, workVars, corrVars, final, publishVars, reporting,
                   stats>>

\* workers.Wait returns; flusherDone is closed.
JoinWorkers ==
    /\ final = "workers"
    /\ \A w \in Workers : wpc[w] = "exit"
    /\ final' = "flusher"
    /\ UNCHANGED <<cancelled, ingestVars, observations, workerInputs, events,
                   dispVars, workVars, corrVars, flusher, publishVars,
                   reporting, stats>>

\* Mutant: the final flush does not wait for the flusher.
FinalFlushAtOnce ==
    /\ final = "flusher"
    /\ BeginFlush(Final, pending)
    /\ final' = "flush"
    /\ UNCHANGED <<cancelled, ingestVars, observations, workerInputs, events,
                   dispVars, workVars, flusher, publishVars, reporting, stats>>

\* flusherWait.Wait returns; the final, forced flush takes the mutex.
FinalFlush ==
    /\ final = "flusher" /\ flusher = "exit"
    /\ BeginFlush(Final, pending)
    /\ final' = "flush"
    /\ UNCHANGED <<cancelled, ingestVars, observations, workerInputs, events,
                   dispVars, workVars, flusher, publishVars, reporting, stats>>

\* The deferred close(events).
CloseEvents ==
    /\ EndFlush(Final)
    /\ final' = "exit"
    /\ UNCHANGED <<cancelled, ingestVars, observations, workerInputs, events,
                   dispVars, workVars, flusher, publishVars, reporting, stats>>

-----------------------------------------------------------------------------
(* The publisher and the stats goroutine *)

PublishReceive ==
    /\ publishing /\ pub = <<>> /\ events # <<>>
    /\ pub' = <<Head(events)>>
    /\ events' = Tail(events)
    /\ sinkAt' = 1
    /\ stats' = [stats EXCEPT !.events = @ + 1]
    /\ UNCHANGED <<cancelled, ingestVars, observations, workerInputs, dispVars,
                   workVars, corrVars, flushVars, publishing, offered,
                   reporting>>

\* A sink is given the event; whether it fails makes no difference.
Publish ==
    /\ pub # <<>> /\ sinkAt \in Sinks
    /\ offered' = [offered EXCEPT ![sinkAt] = Append(@, pub[1])]
    /\ sinkAt' = sinkAt + 1
    /\ UNCHANGED <<cancelled, ingestVars, observations, workerInputs, events,
                   dispVars, workVars, corrVars, flushVars, pub, publishing,
                   reporting, stats>>

PublishDone ==
    /\ pub # <<>> /\ sinkAt > NSinks
    /\ pub' = <<>>
    /\ UNCHANGED <<cancelled, ingestVars, observations, workerInputs, events,
                   dispVars, workVars, corrVars, flushVars, sinkAt, publishing,
                   offered, reporting, stats>>

\* Mutant: the publisher leaves events in the closed channel.
PublisherReturnEarly ==
    /\ publishing /\ pub = <<>> /\ final = "exit"
    /\ publishing' = FALSE
    /\ UNCHANGED <<cancelled, ingestVars, observations, workerInputs, events,
                   dispVars, workVars, corrVars, flushVars, pub, sinkAt,
                   offered, reporting, stats>>

PublisherReturn ==
    /\ publishing /\ pub = <<>> /\ events = <<>> /\ final = "exit"
    /\ publishing' = FALSE
    /\ UNCHANGED <<cancelled, ingestVars, observations, workerInputs, events,
                   dispVars, workVars, corrVars, flushVars, pub, sinkAt,
                   offered, reporting, stats>>

\* statsDone was closed, or gctx is done.
StatsReturn ==
    /\ reporting
    /\ ~publishing \/ cancelled
    /\ reporting' = FALSE
    /\ UNCHANGED <<cancelled, ingestVars, observations, workerInputs, events,
                   dispVars, workVars, corrVars, flushVars, publishVars, stats>>

\* g.Wait returns once every goroutine of the group has.
Returned ==
    /\ closer = "exit" /\ ~dispatching /\ final = "exit"
    /\ ~publishing /\ ~reporting

Stopped == Returned /\ UNCHANGED vars

-----------------------------------------------------------------------------
Next ==
    \/ \E i \in Ingesters :
         \/ Read(i) \/ Abort(i) \/ Return(i) \/ Fail(i)
         \/ \E k \in Keys : Send(i, k)
    \/ CloseObservations \/ CloserReturn \/ Cancel
    \/ DispatchReceive \/ DispatchForward \/ DispatchAbort \/ DispatchReturn
    \/ \E p \in Emitters : Emit(p)
    \/ \E w \in Workers :
         \/ WorkerReceive(w) \/ Reject(w) \/ Analyse(w) \/ WorkerFlush(w)
         \/ Accept(w) \/ WorkerReturn(w)
    \/ Tick \/ TickEnd \/ FlusherReturn
    \/ JoinWorkers \/ FinalFlush \/ CloseEvents
    \/ PublishReceive \/ Publish \/ PublishDone \/ PublisherReturn
    \/ StatsReturn \/ Stopped

Spec == Init /\ [][Next]_vars

-----------------------------------------------------------------------------
(* Fairness.  A runnable goroutine runs: weak fairness of its steps.  Taking  *)
(* the mutex, and the flusher's choice between its ticker and its end, are    *)
(* strongly fair: sync.Mutex hands the lock over to a goroutine that waited,  *)
(* and select chooses uniformly among the ready cases.  A source may stay    *)
(* silent for ever: an ingester must act while it sends, and when its context  *)
(* is done if it watches it while it waits for input.                         *)
IngestFairness ==
    \A i \in Ingesters :
        /\ WF_vars(Abort(i) \/ \E k \in Keys : Send(i, k))
        /\ i \in Attentive => WF_vars(IngestCancelled /\ Fail(i))
DispatchFairness ==
    /\ WF_vars(CloseObservations) /\ WF_vars(CloserReturn)
    /\ WF_vars(DispatchReceive) /\ WF_vars(DispatchForward \/ DispatchAbort)
    /\ WF_vars(DispatchReturn)
WorkFairness ==
    /\ \A p \in Emitters : WF_vars(Emit(p))
    /\ \A w \in Workers :
         /\ WF_vars(WorkerReceive(w)) /\ SF_vars(Analyse(w))
         /\ SF_vars(WorkerFlush(w)) /\ WF_vars(Accept(w))
         /\ WF_vars(WorkerReturn(w))
FlushFairness ==
    /\ WF_vars(TickEnd) /\ SF_vars(FlusherReturn) /\ WF_vars(JoinWorkers)
    /\ SF_vars(FinalFlush) /\ WF_vars(CloseEvents)
PublishFairness ==
    /\ WF_vars(PublishReceive) /\ WF_vars(Publish) /\ WF_vars(PublishDone)
    /\ WF_vars(PublisherReturn) /\ WF_vars(StatsReturn)

FairSpec == /\ Spec
            /\ IngestFairness /\ DispatchFairness /\ WorkFairness
            /\ FlushFairness /\ PublishFairness

-----------------------------------------------------------------------------
(* Properties *)

IngestType ==
    /\ cancelled \in BOOLEAN /\ ingErr \in BOOLEAN
    /\ ing \in [Ingesters -> {"reading", "sending", "returned"}]
    /\ sent \in [Keys -> Nat]
    /\ closer \in {"wait", "closed", "exit"}
DispatchType ==
    /\ observations \in Seq(Observation)
    /\ held \in Seq(Observation) /\ Len(held) <= 1
    /\ dispatching \in BOOLEAN
    /\ workerInputs \in [Workers -> Seq(Observation)]
WorkType ==
    /\ cur \in [Workers -> Seq(Observation)]
    /\ wpc \in [Workers -> {"range", "process", "flush", "flushing", "exit"}]
    /\ \A w \in Workers :
         Len(cur[w]) = IF wpc[w] \in {"range", "exit"} THEN 0 ELSE 1
    /\ handled \in [Keys -> Nat]
CorrelatorType ==
    /\ made \in Nat
    /\ pending \subseteq 1..made /\ batch \subseteq pending
    /\ lock \in SUBSET Emitters
    /\ flusher \in {"select", "flush", "exit"}
    /\ final \in {"workers", "flusher", "flush", "exit"}
PublishType ==
    /\ events \in Seq(Nat)
    /\ pub \in Seq(Nat) /\ Len(pub) <= 1
    /\ sinkAt \in Nat \ {0}
    /\ publishing \in BOOLEAN /\ reporting \in BOOLEAN
    /\ offered \in [Sinks -> Seq(Nat)]

TypeOK ==
    /\ IngestType /\ DispatchType /\ WorkType /\ CorrelatorType /\ PublishType
    /\ stats \in Counters

\* A send on a closed channel panics.  A channel is closed only when nobody can
\* send on it any more: observations when every ingester has returned, the
\* worker inputs when the dispatcher has, events when no worker, no tick and
\* no final flush is emitting or can ever start to (engine.go: the deferred
\* closes of Run).
NoSendOnClosed ==
    /\ closer # "wait" => \A i \in Ingesters : ing[i] = "returned"
    /\ final = "exit" => /\ \A w \in Workers : wpc[w] = "exit"
                         /\ flusher = "exit"
                         /\ lock = {}

\* The whole engine implements one first-in first-out stream per partition key:
\* its observations are processed one at a time, in the order they were ingested
\* and without a gap, whatever the interleaving of the workers, and a cancellation
\* loses only a suffix of them (PartitionKey, runWorker),
\* the intake being open while an ingester runs (Streams).
StreamsOfKeys == INSTANCE Streams WITH
    arrived <- sent,
    open <- \E i \in Ingesters : ing[i] # "returned"
ImplementsStreams == StreamsOfKeys!Spec

\* The health counters add up at every moment: what the dispatcher ingested
\* was processed, rejected, or is still in its hand, in a worker's input or on
\* a worker.
At(w) == ToSet(cur[w]) \cup ToSet(workerInputs[w])
InHand == ToSet(held) \cup UNION {At(w) : w \in Workers}
StatsAddUp ==
    stats.ingested = stats.processed + stats.rejected + Cardinality(InHand)

\* When the context was never cancelled, Run returns having processed every
\* observation the ingesters sent and given every event to every sink, the
\* pending ones included (the shutdown cascade and the final flush of Run).
CleanReturn ==
    Returned /\ ~cancelled =>
        /\ handled = sent
        /\ pending = {}
        /\ \A s \in Sinks : ToSet(offered[s]) = 1..made

\* Every sink is given the same events in the same order, each one at most
\* once, a failing sink changing nothing for the ones after it; a sink is
\* never more than the event being published behind the first one.
SinksAgree ==
    \A s \in Sinks :
        /\ IsInjective(offered[s])
        /\ offered[1] = IF pub # <<>> /\ sinkAt \in 2..s
                        THEN Append(offered[s], pub[1])
                        ELSE offered[s]

\* Once every ingester has returned or the context is cancelled, Run returns:
\* no goroutine of the group waits for ever on a full channel, on the
\* correlator's mutex or on another goroutine.
RunReturns ==
    (cancelled \/ \A i \in Ingesters : ing[i] = "returned") ~> Returned

\* An event in the channel is given to every sink, the context being cancelled
\* or not: the publisher ranges over the channel until it is closed.
EventsPublished ==
    \A e \in 1..MaxEvents :
        (\E j \in DOMAIN events : events[j] = e)
            ~> \A s \in Sinks : e \in ToSet(offered[s])

\* The counters, the result and the sinks tell the same story.
Accounts == StatsAddUp /\ CleanReturn /\ SinksAgree
=============================================================================

---------------------------- MODULE EngineProofs ----------------------------
(***************************************************************************)
(* Proofs about Engine, for any ingesters, keys, workers, sinks, routing   *)
(* and buffer sizes.                                                       *)
(*                                                                         *)
(* NoSendOnClosed is not inductive: that no emitter is left when the       *)
(* events channel is closed follows from who holds the mutex and from the  *)
(* order of the joins, which Goroutines states.                            *)
(* Streaming adds what the channels hold of each key, for the refinement;  *)
(* EventsKept, ShutDown and Counted where each event and each observation  *)
(* is, for the accounts.                                                   *)
(***************************************************************************)
EXTENDS Engine, FiniteSetTheorems, TLAPS

LOCAL INSTANCE SequencesExt

\* Where each goroutine is determines who holds the mutex, and the final
\* goroutine is past a join only when what it joined has returned.
Goroutines ==
    /\ \A p, q \in lock : p = q
    /\ \A w \in Workers : w \in lock <=> wpc[w] = "flushing"
    /\ Ticker \in lock <=> flusher = "flush"
    /\ Final \in lock <=> final = "flush"
    /\ final # "workers" => \A w \in Workers : wpc[w] = "exit"
    /\ final \in {"flush", "exit"} => flusher = "exit"

\* The inductive invariant.
IInv == TypeOK /\ Goroutines /\ NoSendOnClosed

-----------------------------------------------------------------------------
(* What receiving from a channel, taking its first element and counting do. *)

LEMMA Receive ==
    ASSUME NEW S, NEW q \in Seq(S), q # <<>>
    PROVE  /\ Head(q) \in S /\ Tail(q) \in Seq(S)
           /\ <<Head(q)>> \in Seq(S) /\ Len(<<Head(q)>>) = 1
  OBVIOUS

LEMMA First ==
    ASSUME NEW S, NEW q \in Seq(S), q # <<>> \/ Len(q) = 1
    PROVE  q[1] \in S
  OBVIOUS

LEMMA Count ==
    ASSUME NEW s \in Counters
    PROVE  /\ [s EXCEPT !.ingested = @ + 1] \in Counters
           /\ [s EXCEPT !.processed = @ + 1] \in Counters
           /\ [s EXCEPT !.rejected = @ + 1] \in Counters
           /\ [s EXCEPT !.events = @ + 1] \in Counters
  BY DEF Counters

-----------------------------------------------------------------------------
\* The initial states satisfy the inductive invariant.
LEMMA InitIInv == Init => IInv
<1> SUFFICES ASSUME Init PROVE IInv
  OBVIOUS
<1>1. IngestType /\ CorrelatorType
  BY DEF Init, IngestType, CorrelatorType
<1>2. DispatchType
  BY DEF Init, DispatchType
<1>3. WorkType
  BY DEF Init, WorkType
<1>4. PublishType
  BY DEF Init, PublishType
<1>5. Goroutines /\ NoSendOnClosed
  BY DEF Init, Goroutines, NoSendOnClosed, Ticker, Final
<1>6. stats \in Counters
  BY DEF Init, Counters
<1> QED BY <1>1, <1>2, <1>3, <1>4, <1>5, <1>6 DEF IInv, TypeOK

-----------------------------------------------------------------------------
(* The steps, component by component: each preserves the parts of the type it *)
(* leaves alone, the types of what it changes, then the other invariants.    *)

USE DEF IInv, TypeOK

\* An ingester reads, gives up, ends or fails.
LEMMA IngestStep ==
    ASSUME IInv, NEW i \in Ingesters,
           Read(i) \/ Abort(i) \/ Return(i) \/ Fail(i)
    PROVE  IInv'
<1> USE DEF Read, Abort, Return, Fail
<1>1. IngestType'
  BY DEF IngestType
<1>2. (DispatchType /\ WorkType /\ CorrelatorType)'
  BY DEF DispatchType, WorkType, CorrelatorType, dispVars, workVars, corrVars,
         flushVars
<1>3. (PublishType /\ stats \in Counters)'
  BY DEF PublishType, publishVars
<1>4. (Goroutines /\ NoSendOnClosed)'
  BY DEF Goroutines, NoSendOnClosed, IngestType, workVars, corrVars, flushVars
<1> QED
  BY <1>1, <1>2, <1>3, <1>4

\* An ingester sends an observation.
LEMMA SendStep ==
    ASSUME IInv, NEW i \in Ingesters, NEW k \in Keys, Send(i, k)
    PROVE  IInv'
<1>1. IngestType'
  BY DEF IngestType, Send
<1>2. DispatchType'
  BY DEF DispatchType, IngestType, Observation, Send, dispVars
<1>3. (WorkType /\ CorrelatorType)'
  BY DEF WorkType, CorrelatorType, Send, workVars, corrVars, flushVars
<1>4. (PublishType /\ stats \in Counters)'
  BY DEF PublishType, Send, publishVars
<1>5. (Goroutines /\ NoSendOnClosed)'
  BY DEF Goroutines, NoSendOnClosed, IngestType, Send, workVars, corrVars,
         flushVars
<1> QED
  BY <1>1, <1>2, <1>3, <1>4, <1>5

\* The observations channel is closed, the context is cancelled.
LEMMA CloseStep ==
    ASSUME IInv, CloseObservations \/ CloserReturn \/ Cancel
    PROVE  IInv'
<1> USE DEF CloseObservations, CloserReturn, Cancel
<1>1. IngestType'
  BY DEF IngestType, ingestVars
<1>2. (DispatchType /\ WorkType /\ CorrelatorType)'
  BY DEF DispatchType, WorkType, CorrelatorType, dispVars, workVars, corrVars,
         flushVars
<1>3. (PublishType /\ stats \in Counters)'
  BY DEF PublishType, publishVars
<1>4. (Goroutines /\ NoSendOnClosed)'
  BY DEF Goroutines, NoSendOnClosed, IngestType, ingestVars, workVars,
         corrVars, flushVars
<1> QED
  BY <1>1, <1>2, <1>3, <1>4

\* The dispatcher receives, forwards, aborts or returns.
LEMMA DispatchStep ==
    ASSUME IInv,
           DispatchReceive \/ DispatchForward \/ DispatchAbort \/ DispatchReturn
    PROVE  IInv'
<1>1. DispatchType' /\ stats' \in Counters
  <2>1. CASE DispatchReceive
    <3>1. /\ Tail(observations) \in Seq(Observation)
          /\ <<Head(observations)>> \in Seq(Observation)
          /\ Len(<<Head(observations)>>) = 1
      BY <2>1, Receive DEF DispatchReceive, DispatchType
    <3>2. DispatchType'
      BY <2>1, <3>1 DEF DispatchReceive, DispatchType
    <3> QED
      BY <2>1, <3>2, Count DEF DispatchReceive
  <2>2. CASE DispatchForward
    <3>1. held[1] \in Observation
      BY <2>2, First DEF DispatchForward, DispatchType
    <3>2. Route[held[1].key] \in Workers
      BY <3>1, EngineAssumption DEF EngineAssumption, Observation
    <3> QED
      BY <2>2, <3>1, <3>2 DEF DispatchForward, DispatchType
  <2>3. CASE DispatchAbort \/ DispatchReturn
    BY <2>3 DEF DispatchAbort, DispatchReturn, DispatchType
  <2> QED
    BY <2>1, <2>2, <2>3
<1> USE DEF DispatchReceive, DispatchForward, DispatchAbort, DispatchReturn
<1>2. (IngestType /\ WorkType /\ CorrelatorType)'
  BY ZenonT(30) DEF IngestType, WorkType, CorrelatorType, ingestVars, workVars, corrVars,
         flushVars
<1>3. PublishType'
  BY DEF PublishType, publishVars
<1>4. (Goroutines /\ NoSendOnClosed)'
  BY DEF Goroutines, NoSendOnClosed, ingestVars, workVars, corrVars, flushVars
<1> QED
  BY <1>1, <1>2, <1>3, <1>4

\* A goroutine emits a pending event.
LEMMA EmitStep ==
    ASSUME IInv, NEW p \in Emitters, Emit(p)
    PROVE  IInv'
<1>1. events' \in Seq(Nat)
  <2>1. PICK e \in batch : UNCHANGED events \/ events' = Append(events, e)
    BY DEF Emit
  <2>2. e \in Nat /\ events \in Seq(Nat)
    BY DEF CorrelatorType, PublishType
  <2> QED
    BY <2>1, <2>2
<1>2. PublishType' /\ stats' \in Counters
  BY <1>1 DEF PublishType, Emit, publishVars
<1>3. (IngestType /\ DispatchType /\ WorkType)'
  BY DEF IngestType, DispatchType, WorkType, Emit, ingestVars, dispVars,
         workVars
<1>4. CorrelatorType'
  BY DEF CorrelatorType, Emit, flushVars
<1>5. (Goroutines /\ NoSendOnClosed)'
  BY DEF Goroutines, NoSendOnClosed, Emit, ingestVars, workVars, flushVars
<1> QED
  BY <1>1, <1>2, <1>3, <1>4, <1>5

\* A worker receives an observation.
LEMMA WorkerReceiveStep ==
    ASSUME IInv, NEW w \in Workers, WorkerReceive(w)
    PROVE  IInv'
<1>1. /\ Tail(workerInputs[w]) \in Seq(Observation)
      /\ <<Head(workerInputs[w])>> \in Seq(Observation)
      /\ Len(<<Head(workerInputs[w])>>) = 1
  BY Receive DEF DispatchType, WorkerReceive
<1>2. DispatchType'
  BY <1>1 DEF DispatchType, WorkerReceive, dispVars
<1>3. WorkType'
  BY <1>1 DEF WorkType, WorkerReceive
<1>4. (IngestType /\ CorrelatorType)'
  BY DEF IngestType, CorrelatorType, WorkerReceive, ingestVars, corrVars,
         flushVars
<1>5. (PublishType /\ stats \in Counters)'
  BY DEF PublishType, WorkerReceive, publishVars
<1>6. (Goroutines /\ NoSendOnClosed)'
  BY DEF Goroutines, NoSendOnClosed, WorkType, WorkerReceive, ingestVars,
         corrVars, flushVars
<1> QED
  BY <1>2, <1>3, <1>4, <1>5, <1>6

\* A worker is done with an observation, rejected or accepted.
LEMMA WorkerDoneStep ==
    ASSUME IInv, NEW w \in Workers, Reject(w) \/ Accept(w)
    PROVE  IInv'
<1>1. wpc[w] = "process" \/ wpc[w] = "flushing"
  BY DEF Goroutines, Reject, Accept, EndFlush
<1>2. cur[w][1].key \in Keys /\ cur[w][1].n \in Nat
  <2>1. cur[w] \in Seq(Observation) /\ Len(cur[w]) = 1
    BY <1>1 DEF WorkType
  <2>2. cur[w][1] \in Observation
    BY <2>1, First
  <2> QED
    BY <2>2 DEF Observation
<1>3. wpc' = [wpc EXCEPT ![w] = "range"] /\ cur' = [cur EXCEPT ![w] = <<>>]
      /\ handled' = [handled EXCEPT ![cur[w][1].key] = cur[w][1].n]
  BY DEF Reject, Accept
<1>4. WorkType'
  <2>1. handled' \in [Keys -> Nat]
    BY <1>2, <1>3 DEF WorkType
  <2>2. cur' \in [Workers -> Seq(Observation)]
    BY <1>3 DEF WorkType
  <2>3. wpc' \in [Workers -> {"range", "process", "flush", "flushing", "exit"}]
    BY <1>3 DEF WorkType
  <2>4. \A v \in Workers :
          Len(cur'[v]) = IF wpc'[v] \in {"range", "exit"} THEN 0 ELSE 1
    BY <1>3 DEF WorkType
  <2> QED
    BY <2>1, <2>2, <2>3, <2>4 DEF WorkType
<1>5. stats' \in Counters
  BY Count DEF Reject, Accept
<1>6. (IngestType /\ DispatchType)'
  BY DEF IngestType, DispatchType, Reject, Accept, ingestVars, dispVars
<1>7. CorrelatorType'
  BY DEF CorrelatorType, Reject, Accept, EndFlush, corrVars, flushVars
<1>8. PublishType'
  BY DEF PublishType, Reject, Accept, publishVars
<1>9. (Goroutines /\ NoSendOnClosed)'
  <2>1. CASE Reject(w)
    BY <1>3, <2>1 DEF Goroutines, NoSendOnClosed, WorkType, Reject,
       ingestVars, corrVars, flushVars
  <2>2. CASE Accept(w)
    <3>1. lock = {w} /\ lock' = {}
      BY <2>2 DEF Goroutines, Accept, EndFlush
    <3>2. /\ \A v \in Workers \ {w} : wpc[v] # "flushing"
          /\ \A v \in Workers : wpc'[v] # "flushing"
      BY <1>3, <3>1 DEF Goroutines, WorkType
    <3>3. final \in {"workers"} /\ flusher # "flush"
      BY <1>1, <3>1, EngineAssumption
      DEF EngineAssumption, Goroutines, Ticker, Final, CorrelatorType
    <3> QED
      BY <2>2, <3>1, <3>2, <3>3
      DEF Goroutines, NoSendOnClosed, Accept, ingestVars, flushVars
  <2> QED
    BY <2>1, <2>2
<1> QED
  BY <1>4, <1>5, <1>6, <1>7, <1>8, <1>9

\* A worker analyses an observation, flushes or returns.
LEMMA WorkerStep ==
    ASSUME IInv, NEW w \in Workers,
           Analyse(w) \/ WorkerFlush(w) \/ WorkerReturn(w)
    PROVE  IInv'
<1> USE DEF Analyse, WorkerFlush, WorkerReturn, BeginFlush
<1>1. WorkType'
  BY DEF WorkType
<1>2. CorrelatorType'
  <2>1. CASE Analyse(w) /\ made' = made + 1
    <3>1. made' \in Nat /\ 1..made \subseteq 1..made' /\ made + 1 \in 1..made'
      BY <2>1 DEF CorrelatorType
    <3>2. pending' \subseteq 1..made' /\ batch' \subseteq pending'
      BY <2>1, <3>1 DEF CorrelatorType
    <3> QED
      BY <2>1, <3>1, <3>2 DEF CorrelatorType, flushVars
  <2>2. CASE Analyse(w) /\ UNCHANGED <<made, pending>>
    BY <2>2 DEF CorrelatorType, flushVars
  <2>3. CASE WorkerFlush(w)
    BY <2>3 DEF CorrelatorType, flushVars, Emitters
  <2>4. CASE WorkerReturn(w)
    BY <2>4 DEF CorrelatorType, corrVars, flushVars
  <2> QED
    BY <2>1, <2>2, <2>3, <2>4
<1>3. (IngestType /\ DispatchType)'
  BY DEF IngestType, DispatchType, ingestVars, dispVars
<1>4. (PublishType /\ stats \in Counters)'
  BY DEF PublishType, publishVars
<1>5. (Goroutines /\ NoSendOnClosed)'
  BY EngineAssumption
  DEF EngineAssumption, Goroutines, NoSendOnClosed, WorkType, Ticker, Final,
      ingestVars, corrVars, flushVars
<1> QED
  BY <1>1, <1>2, <1>3, <1>4, <1>5

\* The ticking flusher and the goroutine of the final flush.
LEMMA FlushStep ==
    ASSUME IInv,
           \/ Tick \/ TickEnd \/ FlusherReturn
           \/ JoinWorkers \/ FinalFlush \/ CloseEvents
    PROVE  IInv'
<1> USE DEF Tick, TickEnd, FlusherReturn, JoinWorkers, FinalFlush,
            CloseEvents, BeginFlush, EndFlush
<1>1. CorrelatorType'
  BY DEF CorrelatorType, corrVars, Emitters
<1>2. (IngestType /\ DispatchType /\ WorkType)'
  BY DEF IngestType, DispatchType, WorkType, ingestVars, dispVars, workVars
<1>3. (PublishType /\ stats \in Counters)'
  BY DEF PublishType, publishVars
<1>4. Goroutines'
  BY EngineAssumption
  DEF EngineAssumption, Goroutines, CorrelatorType, Ticker, Final, workVars,
      corrVars
<1>5. NoSendOnClosed'
  BY DEF NoSendOnClosed, Goroutines, ingestVars, workVars, corrVars
<1> QED
  BY <1>1, <1>2, <1>3, <1>4, <1>5

\* The publisher and the stats goroutine.
LEMMA PublishStep ==
    ASSUME IInv,
           \/ PublishReceive \/ Publish \/ PublishDone \/ PublisherReturn
           \/ StatsReturn
    PROVE  IInv'
<1>1. PublishType' /\ stats' \in Counters
  <2>1. CASE PublishReceive
    <3>1. /\ Tail(events) \in Seq(Nat) /\ <<Head(events)>> \in Seq(Nat)
          /\ Len(<<Head(events)>>) = 1
      BY <2>1, Receive DEF PublishReceive, PublishType
    <3>2. PublishType'
      BY <2>1, <3>1 DEF PublishReceive, PublishType
    <3> QED
      BY <2>1, <3>2, Count DEF PublishReceive
  <2>2. CASE Publish
    <3>1. pub[1] \in Nat
      BY <2>2, First DEF Publish, PublishType
    <3> QED
      BY <2>2, <3>1 DEF Publish, PublishType
  <2>3. CASE PublishDone
    BY <2>3 DEF PublishDone, PublishType
  <2>4. CASE PublisherReturn \/ StatsReturn
    BY <2>4 DEF PublisherReturn, StatsReturn, PublishType, publishVars
  <2> QED
    BY <2>1, <2>2, <2>3, <2>4
<1> USE DEF PublishReceive, Publish, PublishDone, PublisherReturn, StatsReturn
<1>2. (IngestType /\ DispatchType /\ WorkType)'
  BY DEF IngestType, DispatchType, WorkType, ingestVars, dispVars, workVars
<1>3. CorrelatorType'
  BY DEF CorrelatorType, corrVars, flushVars
<1>4. (Goroutines /\ NoSendOnClosed)'
  BY DEF Goroutines, NoSendOnClosed, ingestVars, workVars, corrVars, flushVars
<1> QED
  BY <1>1, <1>2, <1>3, <1>4

\* A stuttering step.
LEMMA StutterStep == ASSUME IInv, UNCHANGED vars PROVE IInv'
<1>1. (IngestType /\ DispatchType /\ WorkType /\ CorrelatorType)'
  BY DEF IngestType, DispatchType, WorkType, CorrelatorType, vars
<1>2. (PublishType /\ stats \in Counters)'
  BY DEF PublishType, vars
<1>3. (Goroutines /\ NoSendOnClosed)'
  BY DEF Goroutines, NoSendOnClosed, vars
<1> QED
  BY <1>1, <1>2, <1>3

\* Every step preserves the inductive invariant.
LEMMA NextIInv == IInv /\ [Next]_vars => IInv'
<1> SUFFICES ASSUME IInv, [Next]_vars PROVE IInv'
  OBVIOUS
<1> QED
  BY IngestStep, SendStep, CloseStep, DispatchStep, EmitStep,
     WorkerReceiveStep, WorkerDoneStep, WorkerStep, FlushStep, PublishStep,
     StutterStep
  DEF Next, Stopped

-----------------------------------------------------------------------------
\* Every reachable state of the engine satisfies the inductive invariant.
THEOREM Invariance == Spec => []IInv
<1> QED
  BY InitIInv, NextIInv, PTL DEF Spec

\* The variables of the engine keep their types.
THEOREM TypeCorrect == Spec => []TypeOK
<1>1. IInv => TypeOK
  OBVIOUS
<1> QED
  BY Invariance, <1>1, PTL

\* No goroutine ever sends on a closed channel: the observations channel is
\* closed after the last ingester returned, the events channel after every
\* worker, the flusher and the final flush are done (Run).
THEOREM NoPanic == Spec => []NoSendOnClosed
<1>1. IInv => NoSendOnClosed
  OBVIOUS
<1> QED
  BY Invariance, <1>1, PTL

-----------------------------------------------------------------------------
(* The streams of the keys.  That an observation is handled in its turn is    *)
(* not inductive: it takes what is on its way, from the observations channel *)
(* to the worker, to be in order and without a gap.                         *)

Ahead(S, T) == \A o \in S, p \in T : o.key = p.key => o.n < p.n

Ordered(q) ==
    \A i, j \in 1..Len(q) : i < j /\ q[i].key = q[j].key => q[i].n < q[j].n

Upstream == ToSet(held) \cup ToSet(observations)

\* Observations of one key never overtake one another.
InOrder ==
    /\ Ordered(observations) /\ Ahead(ToSet(held), ToSet(observations))
    /\ \A w \in Workers :
         /\ Ordered(workerInputs[w])
         /\ Ahead(ToSet(cur[w]), ToSet(workerInputs[w]))
         /\ Ahead(At(w), Upstream)

\* A worker is given the keys routed to it, and no other.
Routed == \A w \in Workers : \A o \in At(w) : Route[o.key] = w

\* What is on its way is what was sent and not handled yet: nothing is lost
\* but what no goroutine will take any more.
OnItsWay ==
    \A k \in Keys :
        /\ handled[k] <= sent[k]
        /\ \A n \in Nat \ {0} :
             [key |-> k, n |-> n] \in Upstream \cup At(Route[k])
                 <=> handled[k] < n /\ n <= sent[k]

Streaming == InOrder /\ Routed /\ OnItsWay

(* What a channel's operations do to what it holds. *)

LEMMA Contents ==
    ASSUME NEW S, NEW q \in Seq(S)
    PROVE  /\ ToSet(q) \subseteq S /\ ToSet(<<>>) = {}
           /\ \A o \in S : ToSet(<<o>>) = {o}
           /\ \A o \in S : ToSet(Append(q, o)) = ToSet(q) \cup {o}
           /\ q # <<>> => ToSet(q) = {Head(q)} \cup ToSet(Tail(q))
<1>1. \A r \in Seq(S) : DOMAIN r = 1..Len(r)
  OBVIOUS
<1>2. ToSet(q) \subseteq S /\ ToSet(<<>>) = {}
  BY <1>1 DEF ToSet
<1>3. \A o \in S : ToSet(<<o>>) = {o}
  BY DEF ToSet
<1>4. ASSUME NEW o \in S
      PROVE  ToSet(Append(q, o)) = ToSet(q) \cup {o}
  <2>1. /\ Append(q, o)[Len(q) + 1] = o /\ Len(Append(q, o)) = Len(q) + 1
        /\ Append(q, o) \in Seq(S)
    OBVIOUS
  <2>2. \A i \in 1..Len(q) : Append(q, o)[i] = q[i]
    OBVIOUS
  <2> DEFINE r == Append(q, o)
  <2>3. /\ DOMAIN q = 1..Len(q) /\ DOMAIN r = 1 .. Len(q) + 1 /\ Len(q) \in Nat
        /\ r[Len(q) + 1] = o /\ \A i \in 1..Len(q) : r[i] = q[i]
    BY <1>1, <2>1, <2>2
  <2> HIDE DEF r
  <2>4. o \in ToSet(r) /\ \A e \in ToSet(q) : e \in ToSet(r)
    BY <2>3 DEF ToSet
  <2>5. \A e \in ToSet(r) : e = o \/ e \in ToSet(q)
    BY <2>3 DEF ToSet
  <2> QED
    BY <2>4, <2>5 DEF r
<1>5. ASSUME q # <<>>
      PROVE  ToSet(q) = {Head(q)} \cup ToSet(Tail(q))
  <2> DEFINE r == Tail(q)
             n == Len(q)
  <2>1. /\ n \in Nat \ {0} /\ DOMAIN q = 1..n /\ DOMAIN r = 1 .. n - 1
        /\ Head(q) = q[1] /\ \A i \in 1 .. n - 1 : r[i] = q[i + 1]
    BY <1>1, <1>5
  <2> HIDE DEF r, n
  <2>2. \A i \in 1..n : i # 1 => i - 1 \in 1 .. n - 1 /\ q[i] = r[i - 1]
    BY <2>1
  <2>3. ASSUME NEW o \in ToSet(q), o # Head(q)
        PROVE  o \in ToSet(r)
    <3>1. PICK i \in 1..n : o = q[i]
      BY <2>1 DEF ToSet
    <3> QED
      BY <2>1, <2>2, <2>3, <3>1 DEF ToSet
  <2>4. Head(q) \in ToSet(q) /\ \A o \in ToSet(r) : o \in ToSet(q)
    BY <2>1, SMTT(30) DEF ToSet
  <2> QED
    BY <2>3, <2>4 DEF r
<1> QED
  BY <1>2, <1>3, <1>4, <1>5

LEMMA ObservationsIn ==
    /\ ToSet(<<>>) = {}
    /\ \A o \in Observation : ToSet(<<o>>) = {o}
    /\ \A q \in Seq(Observation) : ToSet(q) \subseteq Observation
    /\ \A q \in Seq(Observation), o \in Observation :
         ToSet(Append(q, o)) = ToSet(q) \cup {o}
    /\ \A q \in Seq(Observation) :
         q # <<>> => ToSet(q) = {Head(q)} \cup ToSet(Tail(q))
<1>1. ASSUME NEW q \in Seq(Observation)
      PROVE  /\ ToSet(q) \subseteq Observation
             /\ \A o \in Observation : ToSet(Append(q, o)) = ToSet(q) \cup {o}
             /\ q # <<>> => ToSet(q) = {Head(q)} \cup ToSet(Tail(q))
  BY Contents
<1>2. /\ ToSet(<<>>) = {} /\ \A o \in Observation : ToSet(<<o>>) = {o}
  <2>1. <<>> \in Seq(Observation)
    OBVIOUS
  <2> QED
    BY <2>1, Contents
<1> QED
  BY <1>1, <1>2

LEMMA InDomain ==
    ASSUME NEW S, NEW q \in Seq(S)
    PROVE  DOMAIN q = 1..Len(q)
  OBVIOUS

LEMMA NotEmpty ==
    ASSUME NEW S, NEW q \in Seq(S), Len(q) = 1
    PROVE  q # <<>> /\ Len(q) <= 1
  OBVIOUS

LEMMA OneInHand ==
    ASSUME NEW q \in Seq(Observation), q # <<>>, Len(q) <= 1
    PROVE  q[1] \in Observation /\ ToSet(q) = {q[1]}
<1> DEFINE n == Len(q)
<1>1. n = 1
  <2>1. n \in Nat /\ n # 0 /\ n <= 1
    OBVIOUS
  <2> HIDE DEF n
  <2> QED
    BY <2>1
<1>2. q[1] \in Observation
  BY <1>1, First
<1>3. ToSet(q) = {q[i] : i \in {1}}
  BY <1>1, InDomain DEF ToSet
<1> QED
  BY <1>2, <1>3

LEMMA OrderedAppend ==
    ASSUME NEW q \in Seq(Observation), NEW o \in Observation,
           Ordered(q), Ahead(ToSet(q), {o})
    PROVE  Ordered(Append(q, o))
<1>1. Append(q, o)[Len(q) + 1] = o /\ Len(Append(q, o)) = Len(q) + 1
  OBVIOUS
<1>2. \A i \in 1..Len(q) : Append(q, o)[i] = q[i]
  OBVIOUS
<1>3. \A i \in 1..Len(q) : q[i].key = o.key => q[i].n < o.n
  BY DEF Ahead, ToSet
<1> QED
  BY <1>1, <1>2, <1>3 DEF Ordered

LEMMA OrderedTail ==
    ASSUME NEW q \in Seq(Observation), q # <<>>, Ordered(q)
    PROVE  Ordered(Tail(q)) /\ Ahead({Head(q)}, ToSet(Tail(q)))
<1>1. /\ Len(q) \in Nat \ {0} /\ Len(Tail(q)) = Len(q) - 1 /\ Head(q) = q[1]
      /\ \A i \in 1..Len(Tail(q)) : Tail(q)[i] = q[i + 1] /\ i + 1 \in 1..Len(q)
  OBVIOUS
<1>2. Ordered(Tail(q))
  BY <1>1 DEF Ordered
<1>3. Ahead({Head(q)}, ToSet(Tail(q)))
  BY <1>1 DEF Ordered, Ahead, ToSet
<1> QED
  BY <1>2, <1>3

\* What is on its way was sent, and not handled.
LEMMA OnlySent ==
    ASSUME IInv, Streaming, NEW w \in Workers, NEW o \in Upstream \cup At(w)
    PROVE  /\ o \in Observation
           /\ handled[o.key] < o.n /\ o.n <= sent[o.key]
<1>1. o \in Observation
  BY ObservationsIn DEF DispatchType, WorkType, Upstream, At
<1>2. o.key \in Keys /\ o.n \in Nat \ {0} /\ o = [key |-> o.key, n |-> o.n]
  BY <1>1 DEF Observation
<1>3. o \in Upstream \cup At(Route[o.key])
  BY DEF Streaming, Routed
<1> QED
  BY <1>1, <1>2, <1>3 DEF Streaming, OnItsWay

\* The observations sent are the last of their key.
LEMMA SendStreams ==
    ASSUME IInv, Streaming, NEW i \in Ingesters, NEW k \in Keys, Send(i, k)
    PROVE  Streaming' /\ StreamsOfKeys!Arrive(k)
<1> DEFINE o == [key |-> k, n |-> sent[k] + 1]
<1>1. /\ o \in Observation /\ sent[k] \in Nat
      /\ observations \in Seq(Observation) /\ held \in Seq(Observation)
  BY DEF Observation, IngestType, DispatchType
<1>2. /\ observations' = Append(observations, o)
      /\ sent' = [sent EXCEPT ![k] = @ + 1]
      /\ UNCHANGED <<held, cur, workerInputs, handled>>
  BY DEF Send, dispVars, workVars
<1> HIDE DEF o
<1>3. /\ ToSet(observations') = ToSet(observations) \cup {o}
      /\ Upstream' = Upstream \cup {o}
      /\ \A w \in Workers : At(w)' = At(w)
  BY <1>1, <1>2, ObservationsIn DEF Upstream, At
<1>4. \A w \in Workers : Ahead(Upstream \cup At(w), {o})
  <2> SUFFICES ASSUME NEW w \in Workers, NEW q \in Upstream \cup At(w), q.key = k
               PROVE  q.n < sent[k] + 1
    BY DEF Ahead, o
  <2>1. q \in Observation /\ q.n <= sent[q.key]
    BY OnlySent
  <2> QED
    BY <1>1, <2>1 DEF Observation
<1>5. InOrder'
  <2>1. Ahead(ToSet(held), {o}) /\ Ahead(ToSet(observations), {o})
    BY <1>4, EngineAssumption DEF EngineAssumption, Ahead, Upstream
  <2>2. Ordered(observations')
    BY <1>1, <1>2, <2>1, OrderedAppend DEF Streaming, InOrder
  <2>3. Ahead(ToSet(held), ToSet(observations'))
    BY <1>3, <2>1 DEF Streaming, InOrder, Ahead
  <2>4. \A w \in Workers : Ahead(At(w), Upstream')
    BY <1>3, <1>4 DEF Streaming, InOrder, Ahead
  <2> QED
    BY <1>2, <1>3, <2>2, <2>3, <2>4 DEF Streaming, InOrder
<1>6. Routed'
  BY <1>3 DEF Streaming, Routed
<1>7. OnItsWay'
  <2> SUFFICES ASSUME NEW j \in Keys
               PROVE  /\ handled[j] <= sent'[j]
                      /\ \A n \in Nat \ {0} :
                           [key |-> j, n |-> n] \in Upstream' \cup At(Route[j])
                               <=> handled[j] < n /\ n <= sent'[j]
    BY <1>2, <1>3, EngineAssumption DEF OnItsWay, EngineAssumption
  <2>1. CASE j # k
    BY <1>2, <1>3, <2>1 DEF Streaming, OnItsWay, IngestType, o
  <2>2. CASE j = k
    <3>1. sent'[k] = sent[k] + 1 /\ handled[k] \in Nat
      BY <1>2 DEF IngestType, WorkType
    <3>2. handled[k] <= sent[k]
      BY DEF Streaming, OnItsWay
    <3> QED
      BY <1>1, <1>3, <2>2, <3>1, <3>2 DEF Streaming, OnItsWay, o
  <2> QED
    BY <2>1, <2>2
<1>8. StreamsOfKeys!Arrive(k)
  <2>1. ing[i] # "returned" /\ ing'[i] # "returned"
    BY DEF Send, IngestType
  <2> QED
    BY <1>2, <2>1 DEF StreamsOfKeys!Arrive
<1> QED
  BY <1>5, <1>6, <1>7, <1>8 DEF Streaming

\* An observation moves from the channel to the dispatcher's hand, from there
\* to its worker's channel, and from there to the worker: it stays on its way.
LEMMA MoveStreams ==
    ASSUME IInv, Streaming,
           \/ DispatchReceive \/ DispatchForward
           \/ \E w \in Workers : WorkerReceive(w)
    PROVE  Streaming' /\ UNCHANGED <<sent, handled, ing>>
<1>1. /\ observations \in Seq(Observation) /\ held \in Seq(Observation)
      /\ workerInputs \in [Workers -> Seq(Observation)]
      /\ cur \in [Workers -> Seq(Observation)]
  BY DEF DispatchType, WorkType
<1>2. CASE DispatchReceive
  <2>1. /\ held = <<>> /\ observations # <<>>
        /\ held' = <<Head(observations)>> /\ observations' = Tail(observations)
        /\ UNCHANGED <<sent, handled, ing, cur, workerInputs>>
    BY <1>2 DEF DispatchReceive, ingestVars, workVars
  <2>2. /\ ToSet(observations) = {Head(observations)} \cup ToSet(observations')
        /\ ToSet(held) = {} /\ ToSet(held') = {Head(observations)}
        /\ Head(observations) \in Observation
    BY <1>1, <2>1, ObservationsIn
  <2>3. UNCHANGED Upstream /\ \A w \in Workers : At(w)' = At(w)
    BY <2>1, <2>2 DEF Upstream, At
  <2>4. Ordered(observations') /\ Ahead(ToSet(held'), ToSet(observations'))
    BY <1>1, <2>1, <2>2, OrderedTail DEF Streaming, InOrder
  <2>5. InOrder'
    BY <2>1, <2>3, <2>4 DEF Streaming, InOrder
  <2>6. Routed' /\ OnItsWay'
    BY <2>1, <2>3, EngineAssumption
    DEF Streaming, Routed, OnItsWay, EngineAssumption
  <2> QED
    BY <2>1, <2>5, <2>6 DEF Streaming
<1>3. CASE DispatchForward
  <2>1. PICK o \in Observation : held[1] = o /\ ToSet(held) = {o}
    <3>1. held # <<>> /\ Len(held) <= 1
      BY <1>3 DEF DispatchForward, DispatchType
    <3> QED
      BY <1>1, <3>1, OneInHand
  <2>2. PICK v \in Workers : v = Route[o.key]
    BY <2>1, EngineAssumption DEF EngineAssumption, Observation
  <2>3. /\ workerInputs' = [workerInputs EXCEPT ![v] = Append(@, o)]
        /\ held' = <<>>
        /\ UNCHANGED <<sent, handled, ing, cur, observations>>
    BY <1>3, <2>1, <2>2 DEF DispatchForward, ingestVars, workVars
  <2>4. /\ ToSet(held) = {o} /\ ToSet(held') = {}
        /\ ToSet(workerInputs'[v]) = ToSet(workerInputs[v]) \cup {o}
        /\ workerInputs'[v] = Append(workerInputs[v], o)
        /\ \A w \in Workers : w # v => workerInputs'[w] = workerInputs[w]
    BY <1>1, <2>1, <2>2, <2>3, ObservationsIn
  <2>5. /\ Upstream = Upstream' \cup {o} /\ Upstream' = ToSet(observations)
        /\ At(v)' = At(v) \cup {o}
        /\ \A w \in Workers : w # v => At(w)' = At(w)
    BY <2>3, <2>4 DEF Upstream, At
  <2>6. Ordered(workerInputs'[v])
    <3>1. Ahead(ToSet(workerInputs[v]), {o})
      BY <2>2, <2>5 DEF Streaming, InOrder, Ahead, At
    <3> QED
      BY <1>1, <2>1, <2>2, <2>4, <3>1, OrderedAppend DEF Streaming, InOrder
  <2>7. Ahead(ToSet(cur[v]), ToSet(workerInputs'[v])) /\ Ahead(At(v)', Upstream')
    BY <2>2, <2>4, <2>5 DEF Streaming, InOrder, Ahead, At
  <2>8. \A w \in Workers : Ahead(At(w)', Upstream')
    BY <2>5, <2>7 DEF Streaming, InOrder, Ahead
  <2>9. InOrder'
    <3>1. Ordered(observations') /\ Ahead(ToSet(held'), ToSet(observations'))
      BY <2>3, <2>4 DEF Streaming, InOrder, Ahead
    <3>2. \A w \in Workers : Ordered(workerInputs'[w])
                             /\ Ahead(ToSet(cur'[w]), ToSet(workerInputs'[w]))
      BY <2>3, <2>4, <2>6, <2>7 DEF Streaming, InOrder
    <3> QED
      BY <2>8, <3>1, <3>2 DEF InOrder
  <2>10. Routed'
    BY <2>2, <2>5 DEF Streaming, Routed
  <2>11. OnItsWay'
    <3>1. ASSUME NEW k \in Keys, NEW n \in Nat \ {0}
          PROVE  [key |-> k, n |-> n] \in Upstream' \cup At(Route[k])'
                   <=> [key |-> k, n |-> n] \in Upstream \cup At(Route[k])
      <4>1. Route[k] \in Workers /\ (k = o.key => Route[k] = v)
        BY <2>2, EngineAssumption DEF EngineAssumption
      <4>2. o = [key |-> k, n |-> n] => k = o.key
        OBVIOUS
      <4> QED
        BY <2>5, <4>1, <4>2
    <3> QED
      BY <2>3, <3>1 DEF Streaming, OnItsWay
  <2> QED
    BY <2>3, <2>9, <2>10, <2>11 DEF Streaming
<1>4. ASSUME NEW v \in Workers, WorkerReceive(v)
      PROVE  Streaming' /\ UNCHANGED <<sent, handled, ing>>
  <2>1. /\ workerInputs[v] # <<>> /\ cur[v] = <<>>
        /\ cur' = [cur EXCEPT ![v] = <<Head(workerInputs[v])>>]
        /\ workerInputs' = [workerInputs EXCEPT ![v] = Tail(@)]
        /\ UNCHANGED <<sent, handled, ing, held, observations>>
    BY <1>1, <1>4 DEF WorkerReceive, WorkType, ingestVars, dispVars
  <2> DEFINE o == Head(workerInputs[v])
  <2>2. /\ o \in Observation
        /\ workerInputs'[v] = Tail(workerInputs[v]) /\ cur'[v] = <<o>>
        /\ ToSet(workerInputs[v]) = {o} \cup ToSet(workerInputs'[v])
        /\ ToSet(cur[v]) = {} /\ ToSet(cur'[v]) = {o}
        /\ \A w \in Workers : w # v => /\ workerInputs'[w] = workerInputs[w]
                                       /\ cur'[w] = cur[w]
    BY <1>1, <2>1, ObservationsIn
  <2>3. UNCHANGED Upstream /\ \A w \in Workers : At(w)' = At(w)
    BY <2>1, <2>2 DEF Upstream, At
  <2>4. /\ Ordered(workerInputs'[v])
        /\ Ahead(ToSet(cur'[v]), ToSet(workerInputs'[v]))
    BY <1>1, <2>1, <2>2, OrderedTail DEF Streaming, InOrder
  <2>5. InOrder'
    BY <2>1, <2>2, <2>3, <2>4 DEF Streaming, InOrder
  <2>6. Routed' /\ OnItsWay'
    BY <2>1, <2>3, EngineAssumption
    DEF Streaming, Routed, OnItsWay, EngineAssumption
  <2> QED
    BY <2>1, <2>5, <2>6 DEF Streaming
<1> QED
  BY <1>2, <1>3, <1>4

\* A worker is done with the next observation of its key, and with no other.
LEMMA DoneStreams ==
    ASSUME IInv, Streaming, NEW w \in Workers, Reject(w) \/ Accept(w)
    PROVE  /\ Streaming'
           /\ \E k \in Keys : StreamsOfKeys!Handle(k)
<1>1. /\ workerInputs \in [Workers -> Seq(Observation)]
      /\ cur \in [Workers -> Seq(Observation)] /\ handled \in [Keys -> Nat]
      /\ sent \in [Keys -> Nat]
  BY DEF DispatchType, WorkType, IngestType
<1>2. PICK o \in Observation : cur[w][1] = o /\ ToSet(cur[w]) = {o}
  <2>1. Len(cur[w]) = 1
    BY DEF Goroutines, WorkType, Reject, Accept, EndFlush
  <2> DEFINE q == cur[w]
  <2>2. q \in Seq(Observation) /\ Len(q) = 1
    BY <1>1, <2>1
  <2> HIDE DEF q
  <2>3. q # <<>> /\ Len(q) <= 1
    BY <2>2, NotEmpty
  <2>4. q[1] \in Observation /\ ToSet(q) = {q[1]}
    BY <2>2, <2>3, OneInHand
  <2> QED
    BY <2>4 DEF q
<1>3. PICK k \in Keys, n \in Nat \ {0} : o = [key |-> k, n |-> n]
  BY DEF Observation
<1>4. /\ cur' = [cur EXCEPT ![w] = <<>>]
      /\ handled' = [handled EXCEPT ![k] = n]
      /\ UNCHANGED <<sent, ing, held, observations, workerInputs>>
  BY <1>2, <1>3 DEF Reject, Accept, ingestVars, dispVars
<1>5. Route[k] = w
  BY <1>2, <1>3 DEF Streaming, Routed, At
<1>6. \A p \in Upstream \cup ToSet(workerInputs[w]) : p.key = k => n < p.n
  BY <1>2, <1>3 DEF Streaming, InOrder, Ahead, At
<1>7. handled[k] < n /\ n <= sent[k]
  BY <1>2, <1>3, OnlySent DEF At
<1>8. n = handled[k] + 1
  <2>1. /\ handled[k] + 1 \in Nat \ {0} /\ handled[k] < handled[k] + 1
        /\ handled[k] + 1 <= sent[k]
    BY <1>1, <1>7
  <2>2. [key |-> k, n |-> handled[k] + 1] \in Upstream \cup At(Route[k])
    BY <2>1 DEF Streaming, OnItsWay
  <2>3. \/ [key |-> k, n |-> handled[k] + 1] = o
        \/ [key |-> k, n |-> handled[k] + 1] \in Upstream \cup ToSet(workerInputs[w])
    BY <1>2, <1>5, <2>2 DEF At
  <2>4. CASE [key |-> k, n |-> handled[k] + 1] = o
    BY <1>3, <2>4
  <2>5. CASE [key |-> k, n |-> handled[k] + 1]
                 \in Upstream \cup ToSet(workerInputs[w])
    <3>1. n < handled[k] + 1
      BY <1>6, <2>5
    <3> QED
      BY <1>1, <1>7, <3>1
  <2> QED
    BY <2>3, <2>4, <2>5
<1>9. /\ UNCHANGED Upstream
      /\ At(w) = At(w)' \cup {o} /\ At(w)' = ToSet(workerInputs[w])
      /\ ToSet(cur'[w]) = {}
      /\ \A v \in Workers : v # w => At(v)' = At(v) /\ cur'[v] = cur[v]
  BY <1>1, <1>2, <1>4, ObservationsIn DEF Upstream, At
<1>10. InOrder'
  <2>1. \A v \in Workers : Ahead(At(v)', Upstream')
    BY <1>9 DEF Streaming, InOrder, Ahead
  <2>2. \A v \in Workers : /\ Ordered(workerInputs'[v])
                           /\ Ahead(ToSet(cur'[v]), ToSet(workerInputs'[v]))
    BY <1>4, <1>9 DEF Streaming, InOrder, Ahead
  <2> QED
    BY <1>4, <2>1, <2>2 DEF Streaming, InOrder
<1>11. Routed'
  BY <1>9 DEF Streaming, Routed
<1>12. OnItsWay'
  <2> SUFFICES ASSUME NEW j \in Keys
               PROVE  /\ handled'[j] <= sent[j]
                      /\ \A m \in Nat \ {0} :
                           [key |-> j, n |-> m] \in Upstream \cup At(Route[j])'
                               <=> handled'[j] < m /\ m <= sent[j]
    BY <1>4, <1>9, EngineAssumption DEF OnItsWay, EngineAssumption
  <2>1. CASE j # k
    <3>1. handled'[j] = handled[j] /\ Route[j] \in Workers
      BY <1>1, <1>4, <2>1, EngineAssumption DEF EngineAssumption
    <3>2. \A m \in Nat \ {0} :
            [key |-> j, n |-> m] \in At(Route[j])'
                <=> [key |-> j, n |-> m] \in At(Route[j])
      <4>1. \A m \in Nat \ {0} : [key |-> j, n |-> m] # o
        BY <1>3, <2>1
      <4> QED
        BY <1>9, <3>1, <4>1
    <3> QED
      BY <3>1, <3>2 DEF Streaming, OnItsWay
  <2>2. CASE j = k
    <3>1. handled'[k] = n
      BY <1>1, <1>4
    <3>2. ASSUME NEW m \in Nat \ {0}
          PROVE  [key |-> k, n |-> m] \in Upstream \cup At(w)'
                     <=> n < m /\ m <= sent[k]
      <4>1. [key |-> k, n |-> m] \in Upstream \cup At(w)
                <=> handled[k] < m /\ m <= sent[k]
        BY <1>5 DEF Streaming, OnItsWay
      <4>2. [key |-> k, n |-> m] = o <=> m = n
        BY <1>3
      <4>3. [key |-> k, n |-> m] \in Upstream \cup At(w)' => n < m
        BY <1>6, <1>9
      <4> QED
        BY <1>1, <1>8, <1>9, <4>1, <4>2, <4>3
    <3> QED
      BY <1>5, <1>7, <2>2, <3>1, <3>2
  <2> QED
    BY <2>1, <2>2
<1>13. StreamsOfKeys!Handle(k)
  BY <1>1, <1>4, <1>7, <1>8 DEF StreamsOfKeys!Handle
<1> QED
  BY <1>10, <1>11, <1>12, <1>13 DEF Streaming

\* Nothing else moves an observation.
LEMMA RestStreams ==
    ASSUME Streaming,
           UNCHANGED <<sent, observations, held, workerInputs, cur, handled>>
    PROVE  Streaming'
<1>1. UNCHANGED Upstream /\ \A w \in Workers : At(w)' = At(w)
  BY DEF Upstream, At
<1>2. InOrder' /\ Routed'
  BY <1>1 DEF Streaming, InOrder, Routed
<1>3. OnItsWay'
  BY <1>1, EngineAssumption DEF Streaming, OnItsWay, EngineAssumption
<1> QED
  BY <1>2, <1>3 DEF Streaming

\* The ingesters' moves other than a Send close the streams, or nothing.
LEMMA IngesterStreams ==
    ASSUME IInv, Streaming, NEW g \in Ingesters,
           Read(g) \/ Abort(g) \/ Return(g) \/ Fail(g)
    PROVE  Streaming' /\ [StreamsOfKeys!Next]_StreamsOfKeys!vars
<1> USE DEF Read, Abort, Return, Fail
<1>1. UNCHANGED <<sent, observations, held, workerInputs, cur, handled>>
  BY DEF dispVars, workVars
<1>2. ing[g] # "returned"
  OBVIOUS
<1>3. CASE \E i \in Ingesters : ing'[i] # "returned"
  BY <1>1, <1>2, <1>3, RestStreams DEF StreamsOfKeys!vars
<1>4. CASE ~ \E i \in Ingesters : ing'[i] # "returned"
  <2>1. StreamsOfKeys!Close
    BY <1>1, <1>2, <1>4 DEF StreamsOfKeys!Close
  <2> QED
    BY <1>1, <2>1, RestStreams DEF StreamsOfKeys!Next
<1> QED
  BY <1>3, <1>4

\* The steps of the other goroutines leave the streams alone.
LEMMA OtherStreams ==
    ASSUME Streaming,
           \/ CloseObservations \/ CloserReturn \/ Cancel
           \/ DispatchAbort \/ DispatchReturn
           \/ \E p \in Emitters : Emit(p)
           \/ \E w \in Workers : Analyse(w) \/ WorkerFlush(w) \/ WorkerReturn(w)
           \/ Tick \/ TickEnd \/ FlusherReturn
           \/ JoinWorkers \/ FinalFlush \/ CloseEvents
           \/ PublishReceive \/ Publish \/ PublishDone \/ PublisherReturn
           \/ StatsReturn \/ UNCHANGED vars
    PROVE  Streaming' /\ UNCHANGED <<sent, handled, ing>>
<1>1. UNCHANGED <<sent, observations, held, workerInputs, cur, handled, ing>>
  BY DEF CloseObservations, CloserReturn, Cancel, DispatchAbort, DispatchReturn,
         Emit, Analyse, WorkerFlush, WorkerReturn, Tick, TickEnd, FlusherReturn,
         JoinWorkers, FinalFlush, CloseEvents, PublishReceive, Publish,
         PublishDone, PublisherReturn, StatsReturn, vars, ingestVars, dispVars,
         workVars
<1> QED
  BY <1>1, RestStreams

LEMMA InitStreams == Init => Streaming /\ StreamsOfKeys!Init
<1> SUFFICES ASSUME Init PROVE Streaming /\ StreamsOfKeys!Init
  OBVIOUS
<1>1. Upstream = {} /\ \A w \in Workers : At(w) = {}
  BY ObservationsIn DEF Init, Upstream, At
<1>2. InOrder /\ Routed
  BY <1>1, ObservationsIn DEF Init, InOrder, Routed, Ordered, Ahead
<1>3. OnItsWay
  BY <1>1, EngineAssumption DEF Init, OnItsWay, EngineAssumption
<1>4. StreamsOfKeys!Init
  BY EngineAssumption DEF Init, StreamsOfKeys!Init, EngineAssumption
<1> QED
  BY <1>2, <1>3, <1>4 DEF Streaming

LEMMA NextStreams ==
    ASSUME IInv, Streaming, [Next]_vars
    PROVE  Streaming' /\ [StreamsOfKeys!Next]_StreamsOfKeys!vars
<1>1. ASSUME NEW i \in Ingesters, NEW k \in Keys, Send(i, k)
      PROVE  Streaming' /\ StreamsOfKeys!Next
  BY <1>1, SendStreams DEF StreamsOfKeys!Next
<1>2. ASSUME NEW w \in Workers, Reject(w) \/ Accept(w)
      PROVE  Streaming' /\ StreamsOfKeys!Next
  BY <1>2, DoneStreams DEF StreamsOfKeys!Next
<1> QED
  BY <1>1, <1>2, IngesterStreams, MoveStreams, OtherStreams
  DEF Next, Stopped, StreamsOfKeys!vars

\* The engine implements one first-in first-out stream per key: its
\* observations are handled one at a time, in the order they were sent and
\* without a gap, whatever the workers' interleaving (Streams).
THEOREM Refinement == Spec => ImplementsStreams
<1>1. Init => Streaming /\ StreamsOfKeys!Init
  BY InitStreams
<1>2. /\ IInv /\ Streaming /\ [Next]_vars
      => Streaming' /\ [StreamsOfKeys!Next]_StreamsOfKeys!vars
  BY NextStreams
<1> QED
  BY <1>1, <1>2, Invariance, PTL DEF Spec, ImplementsStreams, StreamsOfKeys!Spec

-----------------------------------------------------------------------------
(* What a clean run returns with, and what the sinks are given.  Neither      *)
(* follows from the state Run returns in: what the channels hold when their   *)
(* readers have returned, and where each event is, are invariants of their own.*)

\* A goroutine returns when nothing is left for it, but for a dispatcher whose
\* context is done.
ShutDown ==
    /\ ~dispatching /\ ~cancelled =>
           held = <<>> /\ observations = <<>> /\ closer # "wait"
    /\ \A w \in Workers :
         wpc[w] = "exit" => workerInputs[w] = <<>> /\ ~dispatching
    /\ final = "flush" => batch = pending
    /\ final = "exit" => pending = {}
    /\ ~publishing => pub = <<>> /\ events = <<>> /\ final = "exit"

\* The events on their way to sink s.
Awaiting(s) ==
    pending \cup ToSet(events) \cup (IF sinkAt <= s THEN ToSet(pub) ELSE {})

\* An event is in one place on its way to a sink, and is not on its way to one
\* that was given it.
OnePlace ==
    /\ pending \cup ToSet(events) \cup ToSet(pub) \subseteq 1..made
    /\ pending \cap ToSet(events) = {} /\ IsInjective(events)
    /\ ToSet(pub) \cap (pending \cup ToSet(events)) = {}
    /\ \A s \in Sinks :
         /\ ToSet(offered[s]) \subseteq 1..made
         /\ ToSet(offered[s]) \cap Awaiting(s) = {}

\* No event is lost while the context is not done.
NoneLost ==
    ~cancelled => \A s \in Sinks : 1..made \subseteq ToSet(offered[s]) \cup Awaiting(s)

LEMMA EventsIn ==
    /\ ToSet(<<>>) = {}
    /\ \A e \in Nat : ToSet(<<e>>) = {e}
    /\ \A q \in Seq(Nat) : ToSet(q) \subseteq Nat
    /\ \A q \in Seq(Nat), e \in Nat : ToSet(Append(q, e)) = ToSet(q) \cup {e}
    /\ \A q \in Seq(Nat) : q # <<>> => ToSet(q) = {Head(q)} \cup ToSet(Tail(q))
<1>1. ASSUME NEW q \in Seq(Nat)
      PROVE  /\ ToSet(q) \subseteq Nat
             /\ \A e \in Nat : ToSet(Append(q, e)) = ToSet(q) \cup {e}
             /\ q # <<>> => ToSet(q) = {Head(q)} \cup ToSet(Tail(q))
  BY Contents
<1>2. /\ ToSet(<<>>) = {} /\ \A e \in Nat : ToSet(<<e>>) = {e}
  <2>1. <<>> \in Seq(Nat)
    OBVIOUS
  <2> QED
    BY <2>1, Contents
<1> QED
  BY <1>1, <1>2

LEMMA InjectiveAppend ==
    ASSUME NEW S, NEW q \in Seq(S), NEW e \in S, IsInjective(q), e \notin ToSet(q)
    PROVE  IsInjective(Append(q, e))
<1> DEFINE r == Append(q, e)
<1>1. /\ DOMAIN q = 1..Len(q) /\ DOMAIN r = 1 .. Len(q) + 1 /\ Len(q) \in Nat
      /\ r[Len(q) + 1] = e /\ \A i \in 1..Len(q) : r[i] = q[i]
  OBVIOUS
<1> HIDE DEF r
<1>2. \A i \in 1..Len(q) : q[i] # e
  BY <1>1 DEF ToSet
<1>3. IsInjective(r)
  BY <1>1, <1>2 DEF IsInjective
<1> QED
  BY <1>3 DEF r

LEMMA InjectiveTail ==
    ASSUME NEW S, NEW q \in Seq(S), q # <<>>, IsInjective(q)
    PROVE  IsInjective(Tail(q)) /\ Head(q) \notin ToSet(Tail(q))
<1> DEFINE r == Tail(q)
           n == Len(q)
<1>1. /\ n \in Nat \ {0} /\ DOMAIN q = 1..n /\ DOMAIN r = 1 .. n - 1
      /\ Head(q) = q[1] /\ \A i \in 1 .. n - 1 : r[i] = q[i + 1]
  OBVIOUS
<1> HIDE DEF r, n
<1>2. \A i \in 1 .. n - 1 : i + 1 \in 1..n /\ i + 1 # 1
  BY <1>1
<1>3. IsInjective(r)
  BY <1>1, <1>2, SMTT(30) DEF IsInjective
<1>4. Head(q) \notin ToSet(r)
  BY <1>1, <1>2 DEF IsInjective, ToSet
<1> QED
  BY <1>3, <1>4 DEF r

-----------------------------------------------------------------------------
(* The shutdown, goroutine by goroutine. *)

LEMMA ShutDownIngest ==
    ASSUME IInv, ShutDown,
           \/ \E i \in Ingesters : \/ Read(i) \/ Abort(i) \/ Return(i) \/ Fail(i)
                                   \/ \E k \in Keys : Send(i, k)
           \/ CloseObservations \/ CloserReturn \/ Cancel
    PROVE  ShutDown'
<1>1. ASSUME NEW i \in Ingesters, NEW k \in Keys, Send(i, k)
      PROVE  ShutDown'
  <2>1. closer = "wait"
    BY <1>1 DEF Send, NoSendOnClosed
  <2> QED
    BY <1>1, <2>1
    DEF Send, ShutDown, dispVars, workVars, corrVars, flushVars, publishVars
<1>2. ASSUME NEW i \in Ingesters, Read(i) \/ Abort(i) \/ Return(i) \/ Fail(i)
      PROVE  ShutDown'
  BY <1>2
  DEF Read, Abort, Return, Fail, ShutDown, dispVars, workVars, corrVars,
      flushVars, publishVars
<1>3. CASE CloseObservations \/ CloserReturn \/ Cancel
  BY <1>3
  DEF CloseObservations, CloserReturn, Cancel, ShutDown, IngestType,
      ingestVars, dispVars, workVars, corrVars, flushVars, publishVars
<1> QED
  BY <1>1, <1>2, <1>3

LEMMA ShutDownDispatch ==
    ASSUME IInv, ShutDown,
           DispatchReceive \/ DispatchForward \/ DispatchAbort \/ DispatchReturn
    PROVE  ShutDown'
<1>1. \A w \in Workers : dispatching => wpc[w] # "exit"
  BY DEF ShutDown
<1> QED
  BY <1>1
  DEF DispatchReceive, DispatchForward, DispatchAbort, DispatchReturn,
      ShutDown, DispatchType, ingestVars, workVars, corrVars, flushVars,
      publishVars

LEMMA ShutDownWorker ==
    ASSUME IInv, ShutDown, NEW w \in Workers,
           \/ WorkerReceive(w) \/ Reject(w) \/ Analyse(w) \/ WorkerFlush(w)
           \/ Accept(w) \/ WorkerReturn(w)
    PROVE  ShutDown'
<1>1. wpc[w] # "exit"
  BY DEF Goroutines, WorkerReceive, Reject, Analyse, WorkerFlush, Accept,
         WorkerReturn, EndFlush
<1>2. final = "workers"
  BY <1>1 DEF Goroutines
<1>3. \A v \in Workers : wpc'[v] = "exit" => workerInputs'[v] = <<>> /\ ~dispatching'
  <2>1. \A v \in Workers : v # w => workerInputs'[v] = workerInputs[v] /\ wpc'[v] = wpc[v]
    BY DEF WorkerReceive, Reject, Analyse, WorkerFlush, Accept, WorkerReturn,
           DispatchType, WorkType
  <2>2. wpc'[w] = "exit" => workerInputs'[w] = <<>> /\ ~dispatching
    BY DEF WorkerReceive, Reject, Analyse, WorkerFlush, Accept, WorkerReturn,
           DispatchType, WorkType
  <2>3. UNCHANGED dispatching
    BY DEF WorkerReceive, Reject, Analyse, WorkerFlush, Accept, WorkerReturn,
           dispVars
  <2> QED
    BY <2>1, <2>2, <2>3 DEF ShutDown
<1>4. UNCHANGED <<dispatching, cancelled, held, observations, closer, final,
                  publishing, pub, events>>
  BY DEF WorkerReceive, Reject, Analyse, WorkerFlush, Accept, WorkerReturn,
         ingestVars, dispVars, flushVars, publishVars
<1> QED
  BY <1>2, <1>3, <1>4 DEF ShutDown

LEMMA ShutDownFlush ==
    ASSUME IInv, ShutDown,
           \/ Tick \/ TickEnd \/ FlusherReturn
           \/ JoinWorkers \/ FinalFlush \/ CloseEvents
           \/ \E p \in Emitters : Emit(p)
    PROVE  ShutDown'
<1>1. UNCHANGED <<dispatching, cancelled, held, observations, closer, wpc,
                  workerInputs, publishing, pub>>
  BY DEF Tick, TickEnd, FlusherReturn, JoinWorkers, FinalFlush, CloseEvents,
         Emit, ingestVars, dispVars, workVars, publishVars
<1>2. /\ final' = "flush" => batch' = pending'
      /\ final' = "exit" => pending' = {}
  <2>1. CASE Tick \/ TickEnd \/ FlusherReturn \/ JoinWorkers \/ FinalFlush
    BY <2>1, EngineAssumption
    DEF Tick, TickEnd, FlusherReturn, JoinWorkers, FinalFlush, BeginFlush,
        EndFlush, ShutDown, Goroutines, NoSendOnClosed, Final, Ticker,
        CorrelatorType, corrVars
  <2>2. CASE CloseEvents
    <3>1. final = "flush" /\ batch = {}
      BY <2>2 DEF CloseEvents, EndFlush, Goroutines
    <3> QED
      BY <2>2, <3>1 DEF CloseEvents, EndFlush, ShutDown
  <2>3. CASE \E p \in Emitters : Emit(p)
    BY <2>3 DEF Emit, ShutDown, flushVars, NoSendOnClosed
  <2> QED
    BY <2>1, <2>2, <2>3
<1>3. ~publishing => UNCHANGED <<events, final>>
  <2>1. CASE Tick \/ TickEnd \/ FlusherReturn \/ JoinWorkers \/ FinalFlush
             \/ CloseEvents
    BY <2>1 DEF Tick, TickEnd, FlusherReturn, JoinWorkers, FinalFlush,
                CloseEvents, EndFlush, ShutDown, NoSendOnClosed
  <2>2. CASE \E p \in Emitters : Emit(p)
    BY <2>2 DEF Emit, ShutDown, NoSendOnClosed
  <2> QED
    BY <2>1, <2>2
<1> QED
  BY <1>1, <1>2, <1>3 DEF ShutDown

LEMMA ShutDownPublish ==
    ASSUME IInv, ShutDown,
           \/ PublishReceive \/ Publish \/ PublishDone \/ PublisherReturn
           \/ StatsReturn \/ UNCHANGED vars
    PROVE  ShutDown'
<1>1. UNCHANGED <<dispatching, cancelled, held, observations, closer, wpc,
                  workerInputs, final, batch, pending>>
  BY DEF PublishReceive, Publish, PublishDone, PublisherReturn, StatsReturn,
         vars, ingestVars, dispVars, workVars, corrVars, flushVars
<1>2. ~publishing' => pub' = <<>> /\ events' = <<>> /\ final = "exit"
  BY DEF PublishReceive, Publish, PublishDone, PublisherReturn, StatsReturn,
         vars, publishVars, ShutDown
<1> QED
  BY <1>1, <1>2 DEF ShutDown

-----------------------------------------------------------------------------
(* Where each event is. *)

\* The inductive invariant of the events.
EventsKept == OnePlace /\ NoneLost /\ SinksAgree

\* An event leaves the correlator for the channel, or is given up on once the
\* context is done.
LEMMA EmitKeeps ==
    ASSUME IInv, EventsKept, NEW p \in Emitters, Emit(p)
    PROVE  EventsKept'
<1>1. PICK e \in batch : /\ \/ events' = Append(events, e)
                            \/ cancelled /\ UNCHANGED events
                         /\ pending' = pending \ {e}
  BY DEF Emit
<1>2. UNCHANGED <<cancelled, made, pub, sinkAt, offered>>
  BY DEF Emit, publishVars
<1>3. /\ e \in pending /\ e \in Nat /\ events \in Seq(Nat)
      /\ e \notin ToSet(events)
  BY DEF CorrelatorType, PublishType, EventsKept, OnePlace
<1>4. \/ ToSet(events') = ToSet(events) \cup {e}
      \/ cancelled /\ ToSet(events') = ToSet(events)
  <2>1. ToSet(Append(events, e)) = ToSet(events) \cup {e}
    BY ONLY <1>3, EventsIn
  <2> QED
    BY ONLY <1>1, <2>1
<1>5. IsInjective(events')
  BY <1>1, <1>3, InjectiveAppend DEF EventsKept, OnePlace
<1>6. OnePlace'
  <2>1. \A s \in Sinks : Awaiting(s)' \subseteq Awaiting(s)
    BY <1>1, <1>2, <1>3, <1>4 DEF Awaiting
  <2> QED
    BY <1>1, <1>2, <1>3, <1>4, <1>5, <2>1 DEF EventsKept, OnePlace
<1>7. NoneLost'
  BY <1>1, <1>2, <1>4 DEF EventsKept, NoneLost, Awaiting
<1>8. SinksAgree'
  BY <1>2 DEF EventsKept, SinksAgree
<1> QED
  BY <1>6, <1>7, <1>8 DEF EventsKept

\* A new event is pending, and nowhere else.
LEMMA AnalyseKeeps ==
    ASSUME IInv, EventsKept, NEW w \in Workers, Analyse(w)
    PROVE  EventsKept'
<1>1. UNCHANGED <<cancelled, events, pub, sinkAt, offered>>
  BY DEF Analyse, publishVars
<1>2. CASE UNCHANGED <<made, pending>>
  BY <1>1, <1>2 DEF EventsKept, OnePlace, NoneLost, SinksAgree, Awaiting
<1>3. CASE made' = made + 1 /\ pending' = pending \cup {made + 1}
  <2>1. made \in Nat /\ 1..made' = 1..made \cup {made + 1} /\ made + 1 \notin 1..made
    BY <1>3 DEF CorrelatorType
  <2>2. \A s \in Sinks : Awaiting(s)' = Awaiting(s) \cup {made + 1}
    BY <1>1, <1>3 DEF Awaiting
  <2>3. OnePlace'
    BY <1>1, <1>3, <2>1, <2>2 DEF EventsKept, OnePlace
  <2>4. NoneLost' /\ SinksAgree'
    BY <1>1, <2>1, <2>2 DEF EventsKept, NoneLost, SinksAgree
  <2> QED
    BY <2>3, <2>4 DEF EventsKept
<1> QED
  BY <1>2, <1>3 DEF Analyse

\* The publisher takes an event: every sink awaits it.
LEMMA PublishReceiveKeeps ==
    ASSUME IInv, EventsKept, PublishReceive
    PROVE  EventsKept'
<1>1. /\ events \in Seq(Nat) /\ events # <<>> /\ pub = <<>>
      /\ Head(events) \in Nat /\ Tail(events) \in Seq(Nat)
      /\ pub' = <<Head(events)>> /\ events' = Tail(events) /\ sinkAt' = 1
      /\ UNCHANGED <<cancelled, made, pending, offered>>
  BY Receive DEF PublishReceive, PublishType, corrVars
<1>2. /\ ToSet(events) = {Head(events)} \cup ToSet(events')
      /\ ToSet(pub) = {} /\ ToSet(pub') = {Head(events)}
  BY <1>1, EventsIn
<1>3. IsInjective(events') /\ Head(events) \notin ToSet(events')
  BY <1>1, InjectiveTail DEF EventsKept, OnePlace
<1>4. \A s \in Sinks : Awaiting(s)' = Awaiting(s)
  BY <1>1, <1>2 DEF Awaiting, Sinks
<1>5. OnePlace'
  BY <1>1, <1>2, <1>3, <1>4 DEF EventsKept, OnePlace
<1>6. NoneLost'
  BY <1>1, <1>4 DEF EventsKept, NoneLost
<1>7. SinksAgree'
  BY <1>1 DEF EventsKept, SinksAgree, Sinks
<1> QED
  BY <1>5, <1>6, <1>7 DEF EventsKept

\* A sink is given the event, the next one awaits it still.
LEMMA PublishKeeps ==
    ASSUME IInv, EventsKept, Publish
    PROVE  EventsKept'
<1>1. /\ pub \in Seq(Nat) /\ pub # <<>> /\ Len(pub) = 1 /\ pub[1] \in Nat
      /\ ToSet(pub) = {pub[1]}
  <2>1. pub \in Seq(Nat) /\ pub # <<>> /\ Len(pub) <= 1
    BY DEF Publish, PublishType
  <2> DEFINE n == Len(pub)
  <2>2. n = 1
    <3>1. n \in Nat /\ n # 0 /\ n <= 1
      BY <2>1
    <3> HIDE DEF n
    <3> QED
      BY <3>1
  <2>3. DOMAIN pub = {1} /\ pub[1] \in Nat
    BY <2>1, <2>2, InDomain, First
  <2> QED
    BY <2>1, <2>2, <2>3 DEF ToSet
<1>2. PICK t \in Sinks : t = sinkAt
  BY DEF Publish
<1>3. PICK e \in Nat : e = pub[1]
  BY <1>1
<1>4. /\ offered \in [Sinks -> Seq(Nat)]
      /\ offered' = [offered EXCEPT ![t] = Append(@, e)] /\ sinkAt' = t + 1
      /\ UNCHANGED <<cancelled, made, pending, events, pub>>
  BY <1>2, <1>3 DEF Publish, PublishType, corrVars
<1>5. e \notin ToSet(offered[t]) /\ e \in 1..made
  BY <1>1, <1>2, <1>3 DEF EventsKept, OnePlace, Awaiting, Sinks
<1>6. /\ ToSet(offered'[t]) = ToSet(offered[t]) \cup {e}
      /\ offered'[t] = Append(offered[t], e)
      /\ \A s \in Sinks : s # t => offered'[s] = offered[s]
  BY <1>4, EventsIn
<1>7. /\ Awaiting(t)' = Awaiting(t) \ {e}
      /\ \A s \in Sinks : s # t => Awaiting(s)' = Awaiting(s)
  <2>1. e \notin pending \cup ToSet(events)
    BY <1>1, <1>3 DEF EventsKept, OnePlace
  <2>2. t \in Nat /\ \A s \in Sinks : s \in Nat
    BY DEF Sinks
  <2>3. \A s \in Sinks : (sinkAt' <= s) <=> (sinkAt <= s /\ s # t)
    BY <1>2, <1>4, <2>2
  <2> QED
    BY <1>1, <1>2, <1>3, <1>4, <2>1, <2>2, <2>3 DEF Awaiting
<1>8. OnePlace'
  BY <1>4, <1>5, <1>6, <1>7 DEF EventsKept, OnePlace
<1>9. NoneLost'
  BY <1>4, <1>6, <1>7 DEF EventsKept, NoneLost
<1>10. SinksAgree'
  <2>1. \A s \in Sinks : IsInjective(offered'[s])
    BY <1>4, <1>5, <1>6, InjectiveAppend DEF EventsKept, SinksAgree
  <2>2. \A s \in Sinks : /\ t \in 2..s => offered[1] = Append(offered[s], e)
                         /\ t \notin 2..s => offered[1] = offered[s]
    BY <1>1, <1>2, <1>3 DEF EventsKept, SinksAgree
  <2>3. ASSUME NEW s \in Sinks
        PROVE  /\ t + 1 \in 2..s => offered'[1] = Append(offered'[s], e)
               /\ t + 1 \notin 2..s => offered'[1] = offered'[s]
    <3>1. t \in Nat \ {0} /\ s \in Nat \ {0} /\ 1 \in Sinks
      BY EngineAssumption DEF EngineAssumption, Sinks
    <3>2. CASE t = 1
      <4>1. offered[1] = offered[s] /\ offered'[1] = Append(offered[1], e)
        BY <1>6, <2>2, <3>2
      <4>2. CASE s = 1
        BY <3>2, <4>2
      <4>3. CASE s # 1
        <5>1. offered'[s] = offered[s] /\ t + 1 \in 2..s
          BY <1>6, <3>1, <3>2, <4>3
        <5> QED
          BY <4>1, <5>1
      <4> QED
        BY <4>2, <4>3
    <3>3. CASE t # 1
      <4>1. offered'[1] = offered[1]
        BY <1>6, <3>1, <3>3
      <4>2. CASE s = t
        <5>1. t \in 2..t /\ t + 1 \notin 2..t
          BY <3>1, <3>3
        <5> QED
          BY <1>6, <2>2, <4>1, <4>2, <5>1
      <4>3. CASE s # t
        <5>1. offered'[s] = offered[s] /\ (t + 1 \in 2..s <=> t \in 2..s)
          BY <1>6, <3>1, <3>3, <4>3
        <5> QED
          BY <2>2, <4>1, <5>1
      <4> QED
        BY <4>2, <4>3
    <3> QED
      BY <3>2, <3>3
  <2>4. pub' # <<>> /\ pub'[1] = e /\ sinkAt' = t + 1
    BY <1>1, <1>3, <1>4
  <2> QED
    BY <2>1, <2>3, <2>4 DEF SinksAgree
<1> QED
  BY <1>8, <1>9, <1>10 DEF EventsKept

\* The publisher is done with the event: every sink was given it.
LEMMA PublishDoneKeeps ==
    ASSUME IInv, EventsKept, PublishDone
    PROVE  EventsKept'
<1>1. /\ pub' = <<>> /\ UNCHANGED <<cancelled, made, pending, events, sinkAt, offered>>
      /\ \A s \in Sinks : ~(sinkAt <= s) /\ ~(sinkAt \in 2..s)
  BY EngineAssumption
  DEF PublishDone, EngineAssumption, PublishType, Sinks, corrVars
<1>2. ToSet(pub') = {}
  BY <1>1, EventsIn
<1>3. \A s \in Sinks : Awaiting(s)' = Awaiting(s)
  BY <1>1, <1>2 DEF Awaiting
<1>4. OnePlace' /\ NoneLost'
  BY <1>1, <1>2, <1>3 DEF EventsKept, OnePlace, NoneLost
<1>5. SinksAgree'
  BY <1>1 DEF EventsKept, SinksAgree
<1> QED
  BY <1>4, <1>5 DEF EventsKept

\* No other step moves an event, and the context is never revived.
LEMMA RestKeeps ==
    ASSUME EventsKept, cancelled => cancelled',
           UNCHANGED <<made, pending, events, pub, sinkAt, offered>>
    PROVE  EventsKept'
<1>1. \A s \in Sinks : Awaiting(s)' = Awaiting(s)
  BY DEF Awaiting
<1>2. OnePlace' /\ NoneLost' /\ SinksAgree'
  BY <1>1 DEF EventsKept, OnePlace, NoneLost, SinksAgree
<1> QED
  BY <1>2 DEF EventsKept

LEMMA OtherKeeps ==
    ASSUME IInv, EventsKept,
           \/ \E i \in Ingesters : \/ Read(i) \/ Abort(i) \/ Return(i) \/ Fail(i)
                                   \/ \E k \in Keys : Send(i, k)
           \/ CloseObservations \/ CloserReturn \/ Cancel
           \/ DispatchReceive \/ DispatchForward \/ DispatchAbort \/ DispatchReturn
           \/ \E w \in Workers : \/ WorkerReceive(w) \/ Reject(w) \/ WorkerFlush(w)
                                 \/ Accept(w) \/ WorkerReturn(w)
           \/ Tick \/ TickEnd \/ FlusherReturn
           \/ JoinWorkers \/ FinalFlush \/ CloseEvents
           \/ PublisherReturn \/ StatsReturn \/ UNCHANGED vars
    PROVE  EventsKept'
<1>1. UNCHANGED <<made, pending, events, pub, sinkAt, offered>>
  BY DEF Read, Abort, Return, Fail, Send, CloseObservations, CloserReturn,
         Cancel, DispatchReceive, DispatchForward, DispatchAbort,
         DispatchReturn, WorkerReceive, Reject, WorkerFlush, Accept,
         WorkerReturn, Tick, TickEnd, FlusherReturn, JoinWorkers, FinalFlush,
         CloseEvents, PublisherReturn, StatsReturn, vars, BeginFlush, EndFlush,
         corrVars, publishVars
<1>2. cancelled => cancelled'
  BY DEF Read, Abort, Return, Fail, Send, CloseObservations, CloserReturn,
         Cancel, DispatchReceive, DispatchForward, DispatchAbort,
         DispatchReturn, WorkerReceive, Reject, WorkerFlush, Accept,
         WorkerReturn, Tick, TickEnd, FlusherReturn, JoinWorkers, FinalFlush,
         CloseEvents, PublisherReturn, StatsReturn, vars
<1> QED
  BY <1>1, <1>2, RestKeeps

-----------------------------------------------------------------------------
LEMMA InitDelivers == Init => ShutDown /\ EventsKept
<1> SUFFICES ASSUME Init PROVE ShutDown /\ EventsKept
  OBVIOUS
<1>1. ShutDown
  BY DEF Init, ShutDown
<1>2. /\ pending = {} /\ ToSet(events) = {} /\ ToSet(pub) = {} /\ made = 0
      /\ \A s \in Sinks : offered[s] = <<>> /\ ToSet(offered[s]) = {}
      /\ \A s \in Sinks : 1 \in Sinks
  BY EventsIn, EngineAssumption DEF Init, EngineAssumption, Sinks
<1>3. IsInjective(<<>>)
  BY DEF IsInjective
<1>4. OnePlace
  BY <1>2, <1>3 DEF Init, OnePlace
<1>5. NoneLost
  BY <1>2 DEF NoneLost
<1>6. SinksAgree
  BY <1>2, <1>3 DEF Init, SinksAgree
<1> QED
  BY <1>1, <1>4, <1>5, <1>6 DEF EventsKept

LEMMA NextDelivers ==
    ASSUME IInv, ShutDown, EventsKept, [Next]_vars
    PROVE  ShutDown' /\ EventsKept'
<1>1. ShutDown'
  BY ShutDownIngest, ShutDownDispatch, ShutDownWorker, ShutDownFlush,
     ShutDownPublish
  DEF Next, Stopped
<1>2. EventsKept'
  BY EmitKeeps, AnalyseKeeps, PublishReceiveKeeps, PublishKeeps,
     PublishDoneKeeps, OtherKeeps
  DEF Next, Stopped
<1> QED
  BY <1>1, <1>2

\* Once every goroutine has returned, nothing is left on its way.
LEMMA NothingLeft ==
    ASSUME IInv, Streaming, ShutDown, EventsKept
    PROVE  CleanReturn
<1> SUFFICES ASSUME Returned, ~cancelled
             PROVE  /\ handled = sent /\ pending = {}
                    /\ \A s \in Sinks : ToSet(offered[s]) = 1..made
  BY DEF CleanReturn
<1>1. \A w \in Workers : workerInputs[w] = <<>> /\ cur[w] = <<>>
  <2>1. ASSUME NEW w \in Workers
        PROVE  wpc[w] = "exit" /\ cur[w] \in Seq(Observation) /\ Len(cur[w]) = 0
    BY DEF Returned, Goroutines, WorkType
  <2> QED
    BY <2>1 DEF ShutDown
<1>2. Upstream = {} /\ \A w \in Workers : At(w) = {}
  BY <1>1, ObservationsIn DEF Returned, ShutDown, Upstream, At
<1>3. ASSUME NEW k \in Keys
      PROVE  handled[k] = sent[k]
  <2>1. /\ handled[k] \in Nat /\ sent[k] \in Nat /\ handled[k] <= sent[k]
        /\ Route[k] \in Workers
    BY EngineAssumption
    DEF EngineAssumption, IngestType, WorkType, Streaming, OnItsWay
  <2>2. \A n \in Nat \ {0} : ~(handled[k] < n /\ n <= sent[k])
    BY <1>2, <2>1 DEF Streaming, OnItsWay
  <2>3. CASE handled[k] < sent[k]
    BY <2>1, <2>2, <2>3
  <2> QED
    BY <2>1, <2>3
<1>4. handled = sent
  BY <1>3 DEF IngestType, WorkType
<1>5. /\ pending = {}
      /\ \A s \in Sinks : Awaiting(s) = {}
  BY EventsIn DEF Returned, ShutDown, Awaiting
<1>6. \A s \in Sinks : ToSet(offered[s]) = 1..made
  BY <1>5 DEF EventsKept, OnePlace, NoneLost
<1> QED
  BY <1>4, <1>5, <1>6

-----------------------------------------------------------------------------
(* The counters.  They add up because an observation is in one place only. *)

Counted == IsFiniteSet(InHand) /\ StatsAddUp

\* The dispatcher takes an observation nobody has.
LEMMA CountReceive ==
    ASSUME IInv, Streaming, Counted, DispatchReceive
    PROVE  Counted'
<1>1. /\ observations \in Seq(Observation) /\ observations # <<>>
      /\ held = <<>> /\ held' = <<Head(observations)>>
      /\ stats' = [stats EXCEPT !.ingested = @ + 1]
      /\ UNCHANGED <<cur, workerInputs>>
  BY DEF DispatchReceive, DispatchType, workVars
<1>2. PICK o \in Observation : o = Head(observations)
  BY <1>1
<1>3. /\ ToSet(held) = {} /\ ToSet(held') = {o} /\ o \in ToSet(observations)
      /\ \A w \in Workers : At(w)' = At(w)
  BY <1>1, <1>2, ObservationsIn DEF At
<1>4. \A w \in Workers : o \notin At(w)
  <2>1. o.n \in Nat
    BY DEF Observation
  <2> QED
    BY <1>3, <2>1 DEF Streaming, InOrder, Ahead, Upstream
<1>5. InHand' = InHand \cup {o} /\ o \notin InHand
  BY <1>3, <1>4 DEF InHand
<1>6. /\ IsFiniteSet(InHand') /\ Cardinality(InHand') = Cardinality(InHand) + 1
      /\ Cardinality(InHand) \in Nat
  BY <1>5, FS_AddElement, FS_CardinalityType DEF Counted
<1>7. StatsAddUp'
  BY <1>1, <1>6 DEF Counted, StatsAddUp, Counters
<1> QED
  BY <1>6, <1>7 DEF Counted

\* The observation a worker is done with is nowhere else.
LEMMA CountDone ==
    ASSUME IInv, Streaming, Counted, NEW w \in Workers, Reject(w) \/ Accept(w)
    PROVE  Counted'
<1>1. /\ workerInputs \in [Workers -> Seq(Observation)]
      /\ cur \in [Workers -> Seq(Observation)]
  BY DEF DispatchType, WorkType
<1>2. PICK o \in Observation : cur[w][1] = o /\ ToSet(cur[w]) = {o}
  <2>1. Len(cur[w]) = 1
    BY DEF Goroutines, WorkType, Reject, Accept, EndFlush
  <2> DEFINE q == cur[w]
  <2>2. q \in Seq(Observation) /\ Len(q) = 1
    BY <1>1, <2>1
  <2> HIDE DEF q
  <2>3. q # <<>> /\ Len(q) <= 1
    BY <2>2, NotEmpty
  <2>4. q[1] \in Observation /\ ToSet(q) = {q[1]}
    BY <2>2, <2>3, OneInHand
  <2> QED
    BY <2>4 DEF q
<1>3. /\ cur' = [cur EXCEPT ![w] = <<>>]
      /\ UNCHANGED <<held, workerInputs>>
      /\ \/ stats' = [stats EXCEPT !.processed = @ + 1]
         \/ stats' = [stats EXCEPT !.rejected = @ + 1]
  BY DEF Reject, Accept, dispVars
<1>4. /\ o \in At(w) /\ At(w) = At(w)' \cup {o} /\ At(w)' = ToSet(workerInputs[w])
      /\ \A v \in Workers : v # w => At(v)' = At(v)
  BY <1>1, <1>2, <1>3, ObservationsIn DEF At
<1>5. o.n \in Nat /\ Route[o.key] = w
  BY <1>4 DEF Observation, Streaming, Routed
<1>6. o \notin ToSet(held) /\ o \notin At(w)'
  BY <1>2, <1>4, <1>5 DEF Streaming, InOrder, Ahead, Upstream
<1>7. \A v \in Workers : v # w => o \notin At(v)
  BY <1>5 DEF Streaming, Routed
<1>8. InHand' = InHand \ {o} /\ o \in InHand
  BY <1>3, <1>4, <1>6, <1>7 DEF InHand
<1>9. /\ IsFiniteSet(InHand') /\ Cardinality(InHand') = Cardinality(InHand) - 1
      /\ Cardinality(InHand) \in Nat
  BY <1>8, FS_RemoveElement, FS_CardinalityType DEF Counted
<1>10. StatsAddUp'
  BY <1>3, <1>9 DEF Counted, StatsAddUp, Counters
<1> QED
  BY <1>9, <1>10 DEF Counted

\* The other moves of an observation leave it in hand.
LEMMA CountMove ==
    ASSUME IInv, Counted,
           DispatchForward \/ \E w \in Workers : WorkerReceive(w)
    PROVE  Counted'
<1>1. /\ held \in Seq(Observation) /\ Len(held) <= 1
      /\ workerInputs \in [Workers -> Seq(Observation)]
      /\ cur \in [Workers -> Seq(Observation)]
  BY DEF DispatchType, WorkType
<1>2. InHand' = InHand
  <2>1. CASE DispatchForward
    <3>1. held # <<>> /\ held' = <<>> /\ UNCHANGED cur
      BY <2>1 DEF DispatchForward, workVars
    <3>2. PICK o \in Observation : held[1] = o /\ ToSet(held) = {o}
      BY <1>1, <3>1, OneInHand
    <3>3. PICK v \in Workers : v = Route[o.key]
      BY EngineAssumption DEF EngineAssumption, Observation
    <3>4. workerInputs' = [workerInputs EXCEPT ![v] = Append(@, o)]
      BY <2>1, <3>2, <3>3 DEF DispatchForward
    <3>5. /\ ToSet(held') = {} /\ At(v)' = At(v) \cup {o}
          /\ \A w \in Workers : w # v => At(w)' = At(w)
      BY <1>1, <3>1, <3>4, ObservationsIn DEF At
    <3> QED
      BY <3>2, <3>5 DEF InHand
  <2>2. ASSUME NEW v \in Workers, WorkerReceive(v)
        PROVE  InHand' = InHand
    <3>1. /\ workerInputs[v] # <<>> /\ cur[v] = <<>>
          /\ cur' = [cur EXCEPT ![v] = <<Head(workerInputs[v])>>]
          /\ workerInputs' = [workerInputs EXCEPT ![v] = Tail(@)]
          /\ UNCHANGED held
      BY <1>1, <2>2 DEF WorkerReceive, WorkType, dispVars
    <3>2. Head(workerInputs[v]) \in Observation
      BY <1>1, <3>1
    <3>3. \A w \in Workers : At(w)' = At(w)
      BY <1>1, <3>1, <3>2, ObservationsIn DEF At
    <3> QED
      BY <3>1, <3>3 DEF InHand
  <2> QED
    BY <2>1, <2>2
<1>3. UNCHANGED stats
  BY DEF DispatchForward, WorkerReceive
<1> QED
  BY <1>2, <1>3 DEF Counted, StatsAddUp

\* The other steps count nothing of them and move none.
LEMMA CountRest ==
    ASSUME IInv, Counted,
           \/ \E i \in Ingesters : \/ Read(i) \/ Abort(i) \/ Return(i) \/ Fail(i)
                                   \/ \E k \in Keys : Send(i, k)
           \/ CloseObservations \/ CloserReturn \/ Cancel
           \/ DispatchAbort \/ DispatchReturn
           \/ \E p \in Emitters : Emit(p)
           \/ \E w \in Workers : Analyse(w) \/ WorkerFlush(w) \/ WorkerReturn(w)
           \/ Tick \/ TickEnd \/ FlusherReturn
           \/ JoinWorkers \/ FinalFlush \/ CloseEvents
           \/ PublishReceive \/ Publish \/ PublishDone \/ PublisherReturn
           \/ StatsReturn \/ UNCHANGED vars
    PROVE  Counted'
<1>1. UNCHANGED <<held, cur, workerInputs>>
  BY DEF Read, Abort, Return, Fail, Send, CloseObservations, CloserReturn,
         Cancel, DispatchAbort, DispatchReturn, Emit, Analyse, WorkerFlush,
         WorkerReturn, Tick, TickEnd, FlusherReturn, JoinWorkers, FinalFlush,
         CloseEvents, PublishReceive, Publish, PublishDone, PublisherReturn,
         StatsReturn, vars, dispVars, workVars
<1>2. /\ stats.ingested = stats.ingested' /\ stats.processed = stats.processed'
      /\ stats.rejected = stats.rejected'
  BY DEF Read, Abort, Return, Fail, Send, CloseObservations, CloserReturn,
         Cancel, DispatchAbort, DispatchReturn, Emit, Analyse, WorkerFlush,
         WorkerReturn, Tick, TickEnd, FlusherReturn, JoinWorkers, FinalFlush,
         CloseEvents, PublishReceive, Publish, PublishDone, PublisherReturn,
         StatsReturn, vars, Counters
<1>3. InHand' = InHand
  BY <1>1 DEF InHand, At
<1> QED
  BY <1>2, <1>3 DEF Counted, StatsAddUp

LEMMA InitCounted == Init => Counted
<1> SUFFICES ASSUME Init PROVE Counted
  OBVIOUS
<1>1. InHand = {}
  BY ObservationsIn DEF Init, InHand, At
<1> QED
  BY <1>1, FS_EmptySet DEF Init, Counted, StatsAddUp

LEMMA NextCounted ==
    ASSUME IInv, Streaming, Counted, [Next]_vars
    PROVE  Counted'
  BY CountReceive, CountDone, CountMove, CountRest DEF Next, Stopped

-----------------------------------------------------------------------------
\* The counters add up at every moment; when the context was never done, Run
\* returns having handled every observation sent and given every event to every
\* sink (the shutdown cascade of Run); and the sinks are given the same events, in
\* the same order, each once, whichever of them fails (publish).
THEOREM AccountsHold == Spec => []Accounts
<1>1. Init => ShutDown /\ EventsKept /\ Streaming /\ Counted
  BY InitDelivers, InitStreams, InitCounted
<1>2. IInv /\ ShutDown /\ EventsKept /\ [Next]_vars => ShutDown' /\ EventsKept'
  BY NextDelivers
<1>3. IInv /\ Streaming /\ Counted /\ [Next]_vars => Streaming' /\ Counted'
  BY NextStreams, NextCounted
<1>4. IInv /\ Streaming /\ ShutDown /\ EventsKept /\ Counted => Accounts
  BY NothingLeft DEF EventsKept, Counted, Accounts
<1> QED
  BY <1>1, <1>2, <1>3, <1>4, Invariance, PTL DEF Spec

=============================================================================

------------------------------- MODULE Pollers -------------------------------
(***************************************************************************)
(* The collectors that poll for metrics, each at its ticks: the prometheus *)
(* plugin and the scaleway plugin evaluate queries, the host plugin reads  *)
(* the machine.  They differ in what an answer is worth and in when it is  *)
(* told.                                                                   *)
(*                                                                         *)
(* A query is answered by a sequence of samples, whose value or time may   *)
(* be malformed, or by Failed; the processor of the machine is read as the *)
(* counters [busy, total], from which shares are computed.                 *)
(***************************************************************************)
EXTENDS Integers, Sequences, SequencesExt

CONSTANTS
    Queries,   \* poller -> what it asks, in order
    Answers,   \* poller -> what a query may be answered
    Failed,
    MaxTime    \* bound: processor time

Samples == [value : BOOLEAN, dated : BOOLEAN]
PollersAssumption ==
    /\ DOMAIN Queries = {"prometheus", "scaleway", "host"}
    /\ \A p \in DOMAIN Queries :
         /\ Queries[p] \in Seq(STRING)
         /\ Answers[p] \ {Failed} \subseteq Seq(Samples)

VARIABLES
    poller,    \* the poller that runs
    turn,      \* how many queries of this poll were answered, -1 between polls
    batch,     \* the samples collected and not told yet
    told,      \* history: the samples told in this poll, [query, sample]
    worth,     \* history: what each answer of this poll is worth
    counters,  \* the processor time of the machine
    prevCPU,   \* system.Collector: {} or its last reading
    spent      \* history: the processor time since the last reading

pollers == <<poller, turn, batch, told, worth, counters, prevCPU, spent>>

Init ==
    /\ poller \in DOMAIN Queries /\ turn = -1
    /\ batch = <<>> /\ told = <<>> /\ worth = <<>>
    /\ counters = [busy |-> 0, total |-> 1] /\ prevCPU = {}
    /\ spent = [busy |-> 0, total |-> 0]

Asked == Queries[poller]

\* External: the processor works or rests.
Tick ==
    /\ poller = "host" /\ counters.total < MaxTime
    /\ \E busy \in 0..1 :
         /\ counters' = [busy |-> counters.busy + busy, total |-> counters.total + 1]
         /\ spent' = [busy |-> spent.busy + busy, total |-> spent.total + 1]
    /\ UNCHANGED <<poller, turn, batch, told, worth, prevCPU>>

----------------------------------------------------------------------------
(* What an answer is worth *)

\* Poller.evaluate: one malformed sample fails the query.
Evaluate(answer) ==
    IF \A i \in DOMAIN answer : answer[i].value /\ answer[i].dated THEN answer ELSE <<>>

\* MetricClient.evaluate: a sample without a value is left out, one without a
\* time is dated of the present.
EvaluateCockpit(answer) ==
    FlattenSeq([i \in DOMAIN answer |-> IF answer[i].value THEN <<answer[i]>> ELSE <<>>])

\* system.Collector.cpuPercent: a first reading is a baseline, and so is one
\* whose counters did not move.
CPUPercent ==
    SetToSeq({[busy |-> counters.busy - prev.busy, total |-> counters.total - prev.total,
               real |-> spent] : prev \in {p \in prevCPU : p.total < counters.total}})

Worth(query, answer) ==
    CASE answer = Failed -> <<>>
      [] answer /= Failed /\ query = "cpu" -> CPUPercent
      [] answer /= Failed /\ poller = "prometheus" -> Evaluate(answer)
      [] answer /= Failed /\ poller = "scaleway" -> EvaluateCockpit(answer)
      [] OTHER -> answer

----------------------------------------------------------------------------
(* One poll *)

Start ==
    /\ turn = -1 /\ turn' = 0 /\ told' = <<>> /\ worth' = <<>>
    /\ UNCHANGED <<poller, batch, counters, prevCPU, spent>>

\* A query that fails is logged, and the others are still asked.
Continue(answer) == turn + 1

\* The next query is answered.
Query(answer) ==
    LET query == Asked[turn + 1]
        samples == [i \in DOMAIN Worth(query, answer) |->
                      [query |-> query, sample |-> Worth(query, answer)[i]]] IN
    /\ turn \in 0..(Len(Asked) - 1)
    /\ poller = "prometheus" => batch = <<>>
    /\ turn' = Continue(answer)
    /\ batch' = batch \o samples /\ worth' = Append(worth, samples)
    /\ IF query = "cpu" /\ answer /= Failed
       THEN prevCPU' = {counters} /\ spent' = [busy |-> 0, total |-> 0]
       ELSE UNCHANGED <<prevCPU, spent>>
    /\ UNCHANGED <<poller, told, counters>>

\* The prometheus poller tells the samples of a query before it asks the
\* next; the others collect those of all the queries.
Tell ==
    /\ batch /= <<>>
    /\ poller = "prometheus" \/ turn = Len(Asked)
    /\ told' = Append(told, Head(batch)) /\ batch' = Tail(batch)
    /\ UNCHANGED <<poller, turn, worth, counters, prevCPU, spent>>

End ==
    /\ turn = Len(Asked) /\ batch = <<>> /\ turn' = -1
    /\ UNCHANGED <<poller, batch, told, worth, counters, prevCPU, spent>>

\* An emit fails or the plugin is stopped, and it is started anew.
Restart ==
    /\ turn >= 0 /\ turn' = -1
    /\ batch' = <<>> /\ told' = <<>> /\ worth' = <<>> /\ prevCPU' = {}
    /\ UNCHANGED <<poller, counters, spent>>

Next ==
    \/ Tick \/ Start \/ \E answer \in Answers[poller] : Query(answer)
    \/ Tell \/ End \/ Restart

Spec == Init /\ [][Next]_pollers

----------------------------------------------------------------------------
(* Properties *)

\* One failing query does not hide the others: a poll asks each of its
\* queries, and tells in order, once, what each answer is worth by itself.
\* The share of the processor is what it did since the last reading, one that
\* failed in between left out.
EachQueryForItself ==
    /\ IsPrefix(told, FlattenSeq(worth)) /\ told \o batch = FlattenSeq(worth)
    /\ turn = -1 /\ worth /= <<>> => batch = <<>> /\ Len(worth) = Len(Asked)
    /\ \A i \in DOMAIN told : told[i].query = "cpu" =>
         LET s == told[i].sample IN
         s.busy = s.real.busy /\ s.total = s.real.total
=============================================================================

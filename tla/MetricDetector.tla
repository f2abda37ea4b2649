--------------------------- MODULE MetricDetector ---------------------------
(***************************************************************************)
(* The metric detector of internal/core/detect: the series it keeps, what  *)
(* each sample makes it tell, the deviations it remembers to hold back the *)
(* ones that come every day, the markings, expiry, eviction, Forget and    *)
(* restarts.                                                               *)
(*                                                                         *)
(* Its lock makes each operation one step.  A value is reduced to what it  *)
(* decides, left open: whether it breaks a threshold, whether it is far    *)
(* from the baseline, whether the trends diverge.                          *)
(***************************************************************************)
EXTENDS Integers, Sequences, FiniteSets

CONSTANTS
    Series,
    Patterns,       \* the patterns of orders -> the series they match
    WarmupSamples, SeasonalDays, MaxSeries, SeriesTTL, SweepInterval,
    SeasonalTolerance, MaxDeviations,
    Day,            \* units of time in a day
    MaxTime, MaxGap, MaxLag, \* bounds: timestamps, how far they jump, how late
    MaxSamples, MaxOrders    \* bounds: samples; markings, Forgets and restarts

MetricAssumption ==
    /\ {SeasonalDays, MaxSeries, SeasonalTolerance, MaxDeviations, MaxTime} \subseteq Nat
    /\ Day \in Nat \ {0}

VARIABLES
    series,     \* series -> [count, lastSeen, driftSignaled, deviations]
    ignored,    \* the patterns ignored
    lastSweep,  \* -1 before the first
    told,       \* the last sample: [series, at, signals, held]
    newest,     \* history: the latest timestamp
    real,       \* history: series -> when it deviated since it is known
    drifts,     \* history: series -> drifts told since its trends last agreed
    samples, orders

metric == <<series, ignored, lastSweep, told, newest, real, drifts, samples, orders>>

Nothing == [series |-> "none", at |-> 0, signals |-> {}, held |-> {}]

Init ==
    /\ series = <<>> /\ ignored = {} /\ lastSweep = -1 /\ told = Nothing
    /\ newest = 0 /\ real = <<>> /\ drifts = <<>>
    /\ samples = 0 /\ orders = 0

Apart(a, b) == IF a > b THEN a - b ELSE b - a
Keep(f, keys) == [s \in keys |-> f[s]]
With(f, keys, s, value) == [q \in keys \cup {s} |-> IF q = s THEN value ELSE f[q]]

----------------------------------------------------------------------------
(* Which series are kept *)

\* sweep: the series silent for longer than the TTL go, once an interval.
Due(now) == SeriesTTL > 0 /\ (lastSweep = -1 \/ now - lastSweep >= SweepInterval)
Sweep(now) ==
    IF Due(now) THEN {s \in DOMAIN series : now - series[s].lastSeen <= SeriesTTL}
    ELSE DOMAIN series

\* makeRoom: the series seen longest ago go until one more fits.
MakeRoom(known) ==
    LET excess == Cardinality(known) - MaxSeries + 1 IN
    {kept \in SUBSET known :
       /\ Cardinality(known \ kept) = IF MaxSeries = 0 \/ excess < 0 THEN 0 ELSE excess
       /\ \A p \in kept, q \in known \ kept : series[q].lastSeen <= series[p].lastSeen}

\* The series left when a sample of s comes.
Kept(s, at) ==
    IF s \in Sweep(at) THEN {Sweep(at)} ELSE MakeRoom(Sweep(at))

Fresh == [count |-> 0, lastSeen |-> 0, driftSignaled |-> FALSE, deviations |-> <<>>]
IsIgnored(s) == \E p \in ignored : s \in Patterns[p]

----------------------------------------------------------------------------
(* What a sample tells *)

\* recurringDays: the days before this one, without a gap, on which the
\* series deviated at this time of day.
DeviatedNear(stats, at) ==
    \E i \in DOMAIN stats.deviations :
      Apart(stats.deviations[i], at) <= SeasonalTolerance
RecurringDays(stats, at) ==
    CHOOSE n \in 0..SeasonalDays - 1 :
      /\ \A day \in 1..n : DeviatedNear(stats, at - day * Day)
      /\ n = SeasonalDays - 1 \/ ~DeviatedNear(stats, at - (n + 1) * Day)

\* Mutant: one day before is enough.
RecurringOnce(stats, at) == SeasonalDays > 1 /\ RecurringDays(stats, at) >= 1

Recurring(stats, at) ==
    SeasonalDays > 1 /\ RecurringDays(stats, at) >= SeasonalDays - 1

\* recordDeviation: one entry for a span of the tolerance, the latest ones.
Recorded(stats, at) ==
    LET n == Len(stats.deviations)
        longer == Append(stats.deviations, at) IN
    IF n > 0 /\ Apart(at, stats.deviations[n]) <= SeasonalTolerance THEN stats.deviations
    ELSE SubSeq(longer, IF n < MaxDeviations THEN 1 ELSE 2, n + 1)

\* The statistical signals of a warm series, and its drift latch.
Statistical(stats, far, apart) ==
    [signals |-> (IF far THEN {"zscore"} ELSE {})
                 \cup (IF apart /\ ~stats.driftSignaled THEN {"drift"} ELSE {}),
     latch |-> apart]

\* Detect after the sweep and the room: the statistics and what is told.
Outcome(s, stats, at, breach, far, apart) ==
    LET seen == [stats EXCEPT !.lastSeen = at,
                   !.count = IF @ < WarmupSamples THEN @ + 1 ELSE @]
        warm == stats.count >= WarmupSamples
        found == Statistical(stats, far, apart)
        static == IF breach THEN {"threshold"} ELSE {} IN
    IF IsIgnored(s) THEN [stats |-> seen, signals |-> {}, held |-> {}]
    ELSE IF ~warm THEN [stats |-> seen, signals |-> static, held |-> {}]
    ELSE IF found.signals = {}
    THEN [stats |-> [seen EXCEPT !.driftSignaled = found.latch],
          signals |-> static, held |-> {}]
    ELSE LET recurring == Recurring(stats, at) IN
         [stats |-> [seen EXCEPT !.driftSignaled = found.latch,
                                 !.deviations = Recorded(stats, at)],
          signals |-> IF recurring THEN static ELSE static \cup found.signals,
          held |-> IF recurring THEN found.signals ELSE {}]

StatisticalOf(outcome) == (outcome.signals \ {"threshold"}) \cup outcome.held

Detect(s, at) ==
    /\ samples < MaxSamples /\ samples' = samples + 1
    /\ lastSweep' = IF Due(at) THEN at ELSE lastSweep
    /\ newest' = IF at > newest THEN at ELSE newest
    /\ \E kept \in Kept(s, at), breach, far, apart \in BOOLEAN :
         LET known == s \in kept
             outcome == Outcome(s, IF known THEN series[s] ELSE Fresh, at, breach, far, apart)
             past == IF known THEN real[s] ELSE {}
             agreed == ~IsIgnored(s) /\ ~apart IN
         /\ series' = With(series, kept, s, outcome.stats)
         /\ told' = [series |-> s, at |-> at, signals |-> outcome.signals,
                     held |-> outcome.held]
         /\ real' = With(real, kept, s,
                         IF StatisticalOf(outcome) = {} THEN past ELSE past \cup {at})
         /\ drifts' = With(drifts, kept, s,
                           (IF known /\ ~agreed THEN drifts[s] ELSE 0)
                           + (IF "drift" \in outcome.signals THEN 1 ELSE 0))
    /\ UNCHANGED <<ignored, orders>>

----------------------------------------------------------------------------
(* Orders of the operator, and restarts *)

Ordered == orders < MaxOrders /\ orders' = orders + 1

SetIgnored(p, ignore) ==
    /\ Ordered /\ (p \in ignored) /= ignore
    /\ ignored' = IF ignore THEN ignored \cup {p} ELSE ignored \ {p}
    /\ UNCHANGED <<series, lastSweep, told, newest, real, drifts, samples>>

Forget(p) ==
    LET left == DOMAIN series \ Patterns[p] IN
    /\ Ordered /\ left /= DOMAIN series
    /\ series' = Keep(series, left) /\ real' = Keep(real, left)
    /\ drifts' = Keep(drifts, left)
    /\ UNCHANGED <<ignored, lastSweep, told, newest, samples>>

\* Snapshot and Restore keep all of a series; the date of the sweep is lost.
Restored(stats) == stats
Restart ==
    /\ Ordered /\ lastSweep' = -1
    /\ series' = [s \in DOMAIN series |-> Restored(series[s])]
    /\ UNCHANGED <<ignored, told, newest, real, drifts, samples>>

Next ==
    \/ \E s \in Series, at \in 0..MaxTime :
         newest - MaxLag <= at /\ at <= newest + MaxGap /\ Detect(s, at)
    \/ \E p \in DOMAIN Patterns : Forget(p) \/ \E ignore \in BOOLEAN : SetIgnored(p, ignore)
    \/ Restart

Spec == Init /\ [][Next]_metric

----------------------------------------------------------------------------
(* Properties *)

\* A deviation is held back only when the series really deviated at this time
\* of day on each of the days before that the configuration asks for; and
\* when it deviated at the very same time on each of them it is held back,
\* across restarts, unless the memory of the series was full.
HeldBackOnSchedule ==
    told.series \in DOMAIN series =>
      LET days == 1..SeasonalDays - 1
          past == real[told.series]
          statistical == StatisticalOf(told) IN
      /\ told.held /= {} =>
           \A d \in days : \E p \in past : Apart(p, told.at - d * Day) <= SeasonalTolerance
      /\ /\ statistical /= {} /\ SeasonalDays > 1
         /\ \A d \in days : told.at - d * Day \in past
         /\ Len(series[told.series].deviations) < MaxDeviations
         => told.held = statistical

\* A drift is told once, and not again before the trends agree, whatever
\* restarts come between; and the series kept never exceed their bound.
DriftToldOnce ==
    /\ \A s \in DOMAIN series : drifts[s] <= 1
    /\ MaxSeries > 0 => Cardinality(DOMAIN series) <= MaxSeries

\* What recurs on schedule is held back, what drifts is told, and once.
DeviationsAreTold == HeldBackOnSchedule /\ DriftToldOnce
=============================================================================

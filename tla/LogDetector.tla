---------------------------- MODULE LogDetector ----------------------------
(***************************************************************************)
(* The log detector of internal/core/detect for one source: what it learns *)
(* of each template, what it reports, the markings an operator gives, the   *)
(* scan for templates that stopped, snapshots, restarts and Forget.         *)
(*                                                                         *)
(* Its lock makes each operation one step.  The smoothed statistics are cut *)
(* down to what decides: a mean interval lies between the previous one and  *)
(* the new interval; whether a count is SpikeFactor times the baseline, and *)
(* whether uneven intervals are even enough, is left open.  Hourly          *)
(* seasonality, which only takes expectations away, is left out.            *)
(***************************************************************************)
EXTENDS Integers, Sequences, FiniteSets

CONSTANTS
    Templates,
    Informative,  \* the templates that say enough (informative)
    Globs,        \* the templates of each marking pattern, most specific first
    Seeds,        \* Markings of the configuration
    GlobSeeds,    \* MarkingPatterns of the configuration
    ScopeAll,     \* DisappearanceScope is "all"
    LearningPeriod, RareThreshold, RareMinObservations, RareMaxInterval,
    SpikeBucket, SpikeMinCount, DisappearanceFactor, DisappearanceMinCount,
    DisappearanceScanInterval, DisappearanceMinSilence, MinIntervalSamples,
    MaxTemplates,
    Runtime,      \* bound: the markings given at runtime, "" to clear one
    MaxTime,      \* bound: timestamps
    MaxLag,       \* bound: how late behind the latest timestamp a line is
    MaxGap,       \* bound: how far ahead of the latest timestamp it is
    MaxLines,     \* bound: lines detected
    MaxOrders     \* bound: markings given at runtime and Forgets

\* Quiet: ignore and normal, which the detector treats alike.
Markings == {"quiet", "symptomatic", "heartbeat"}

ASSUME LogDetectorAssumption ==
    /\ Informative \subseteq Templates /\ ScopeAll \in BOOLEAN
    /\ \A g \in DOMAIN Globs : Globs[g] \subseteq Templates
    /\ DOMAIN Seeds \subseteq Templates /\ \A t \in DOMAIN Seeds : Seeds[t] \in Markings
    /\ DOMAIN GlobSeeds \subseteq DOMAIN Globs
    /\ \A g \in DOMAIN GlobSeeds : GlobSeeds[g] \in Markings
    /\ Runtime \subseteq Markings \cup {""}
    /\ {LearningPeriod, RareThreshold, RareMinObservations, RareMaxInterval,
        SpikeMinCount, DisappearanceFactor, DisappearanceMinCount,
        DisappearanceScanInterval, DisappearanceMinSilence, MinIntervalSamples,
        MaxTemplates, MaxTime, MaxLag, MaxGap, MaxLines, MaxOrders} \subseteq Nat
    /\ SpikeBucket \in Nat \ {0} /\ DisappearanceFactor > 0

VARIABLES
    source,    \* what is learnt: [firstSeen, total, lastScan, stats]
    markings,  \* template -> marking
    patterns,  \* index of a glob -> marking
    out,       \* the signals of the last step
    latest,    \* history: the latest timestamp, and that of a line not quiet
    newest,    \* history: per template, the latest timestamp of its lines
    told,      \* history: per template, alarms about its silence since its last line
    unheard,   \* history: per template, when it was first found overdue, or -1
    obeyed,    \* history: the templates the operator last marked quiet
    orders, lines

history == <<latest, newest, told, unheard, obeyed, orders, lines>>
vars == <<source, markings, patterns, out, history>>

Times == 0..MaxTime
Never == 0 - DisappearanceScanInterval

Unknown == [firstSeen |-> 0, total |-> 0, lastScan |-> Never, stats |-> <<>>]
Nowhere(v) == [t \in Templates |-> v]

\* A map once k is assigned v, and a map over another.
Given(f, k, v) == [q \in DOMAIN f \cup {k} |-> IF q = k THEN v ELSE f[q]]
Over(f, g) == [q \in DOMAIN f \cup DOMAIN g |-> IF q \in DOMAIN f THEN f[q] ELSE g[q]]

Init ==
    /\ source = Unknown /\ markings = Seeds /\ patterns = GlobSeeds
    /\ out = {}
    /\ latest = [any |-> 0, heard |-> 0] /\ newest = Nowhere(0) /\ told = Nowhere(0)
    /\ unheard = Nowhere(-1) /\ obeyed = {} /\ orders = 0 /\ lines = 0

----------------------------------------------------------------------------
(* Markings *)

\* An exact marking wins, then the most specific pattern.
MarkingIn(exact, globs, t) ==
    LET matching == {g \in DOMAIN globs : t \in Globs[g]} IN
    IF t \in DOMAIN exact THEN exact[t]
    ELSE IF matching = {} THEN "none"
    ELSE globs[CHOOSE g \in matching : \A h \in matching : g <= h]
MarkingFor(t) == MarkingIn(markings, patterns, t)

----------------------------------------------------------------------------
(* Learning from a line *)

Bucket(at) == at - (at % SpikeBucket)

Fresh(at) ==
    [count |-> 0, lastSeen |-> at, mean |-> 0, samples |-> 0, even |-> TRUE,
     bucketStart |-> Bucket(at), bucketCount |-> 0, baselined |-> FALSE,
     spiked |-> FALSE, missing |-> FALSE]

\* makeRoom: the templates seen longest ago, down to one less than the bound.
Evictions ==
    LET known == DOMAIN source.stats
        excess == Cardinality(known) - MaxTemplates + 1
    IN {ps \in SUBSET known :
          /\ Cardinality(ps) = IF MaxTemplates = 0 \/ excess < 0 THEN 0 ELSE excess
          /\ \A p \in ps, q \in known \ ps :
               source.stats[p].lastSeen <= source.stats[q].lastSeen}

Known(t, at) ==
    IF t \in DOMAIN source.stats THEN {source.stats}
    ELSE {Given([q \in DOMAIN source.stats \ ps |-> source.stats[q]], t, Fresh(at)) :
             ps \in Evictions}

\* The smoothed interval; an interval of 0 leaves the mean unset.
Intervals(s, at) ==
    LET interval == at - s.lastSeen IN
    IF s.count = 0 \/ interval < 0 THEN {s}
    ELSE IF s.mean = 0 THEN {[s EXCEPT !.mean = interval]}
    ELSE {[s EXCEPT !.mean = m, !.samples = @ + 1, !.even = @ /\ interval = s.mean] :
             m \in (s.mean..interval \cup interval..s.mean) \ {0}}

\* rollBucket: a finished bucket makes the baseline.
Rolled(s, at) ==
    IF Bucket(at) <= s.bucketStart THEN s
    ELSE [s EXCEPT !.bucketStart = Bucket(at), !.bucketCount = 0,
                   !.baselined = TRUE, !.spiked = FALSE]

\* A line of t joins the statistics known.
Joins(known, t, at) ==
    {[known EXCEPT ![t] = [Rolled([s EXCEPT !.count = @ + 1, !.lastSeen = at,
                                            !.missing = FALSE], at)
                           EXCEPT !.bucketCount = @ + 1]] :
        s \in Intervals(known[t], at)}

\* The statistics of the source once a line of t is learnt.
Learnt(t, at) == UNION {Joins(known, t, at) : known \in Known(t, at)}

----------------------------------------------------------------------------
(* What is missing *)

Larger(p, q) == IF p > q THEN p ELSE q

\* The templates of stats whose absence at this time is worth a report.
Expected(stats, at) ==
    {t \in DOMAIN stats :
        LET s == stats[t]
            silence == at - s.lastSeen
        IN /\ s.count >= DisappearanceMinCount /\ s.mean > 0
           /\ \/ MarkingFor(t) = "heartbeat"
              \/ ScopeAll /\ MarkingFor(t) # "quiet"
           /\ s.samples >= MinIntervalSamples
           /\ silence > Larger(DisappearanceFactor * s.mean, DisappearanceMinSilence)
           /\ silence > DisappearanceScanInterval}

\* Each silence is reported once.
Overdue(stats, at) == {t \in Expected(stats, at) : ~stats[t].missing}

\* Mutant: a silence found between two scans is taken as reported.
LatchedBetweenScans(missing, overdue, found) == missing \/ overdue

\* Only a reported silence is latched.
Latched(missing, overdue, found) == missing \/ found

\* Scans are DisappearanceScanInterval apart.
Scan(lastScan, at) ==
    LET due == at - lastScan >= DisappearanceScanInterval
    IN [due |-> due, lastScan |-> IF due THEN at ELSE lastScan]

----------------------------------------------------------------------------
(* Detect *)

Rare(s, total) ==
    /\ s.count <= RareThreshold /\ total >= RareMinObservations
    /\ RareMaxInterval = 0 \/ s.mean <= RareMaxInterval

Signal(kind, t) == [kind |-> kind, of |-> t]

\* The signals about the shape and the frequency of a line of t; surge: the
\* bucket holds SpikeFactor times the baseline.
ShapeSignals(t, s, total, learning, created, surge) ==
    (IF MarkingFor(t) = "symptomatic" THEN {Signal("symptomatic", t)} ELSE {})
    \cup
    IF learning \/ t \notin Informative THEN {}
    ELSE (IF created THEN {Signal("new", t)}
          ELSE IF Rare(s, total) THEN {Signal("rare", t)} ELSE {})
         \cup (IF surge THEN {Signal("spike", t)} ELSE {})

\* A line of t that says nothing; scanMissing is not reached either.
Silenced(t, at, src, stats) ==
    /\ MarkingFor(t) = "quiet"
    /\ source' = [src EXCEPT !.stats = stats]
    /\ out' = {}
    /\ latest' = [latest EXCEPT !.any = Larger(@, at)]
    /\ newest' = [newest EXCEPT ![t] = Larger(@, at)]
    /\ told' = [told EXCEPT ![t] = 0]
    /\ unheard' = [unheard EXCEPT ![t] = -1]

\* A line of t that may signal, then the scan.  A cluster just created has an
\* ID without statistics; of the uneven templates, the doubted are too
\* irregular to be expected back.
Signalled(t, at, src, stats) ==
    \E created \in {c \in BOOLEAN : c => stats[t].count = 1}, surge \in BOOLEAN :
    \E doubted \in SUBSET {q \in Expected(stats, at) : ~stats[q].even} :
        LET s == stats[t]
            scan == Scan(src.lastScan, at)
            overdue == Overdue(stats, at) \ doubted
            found == IF scan.due THEN overdue ELSE {}
            awaited == {q \in Expected(stats, at) \ doubted : q # t /\ told[q] = 0}
            learning == at - src.firstSeen < LearningPeriod
        IN /\ MarkingFor(t) # "quiet"
           /\ surge => /\ ~learning /\ t \in Informative /\ ~s.spiked
                       /\ s.baselined /\ s.bucketCount >= SpikeMinCount
           /\ source' = [src EXCEPT !.lastScan = scan.lastScan,
                             !.stats = [q \in DOMAIN stats |->
                                 [stats[q] EXCEPT
                                    !.missing = Latched(@, q \in overdue, q \in found),
                                    !.spiked = @ \/ (surge /\ q = t)]]]
           /\ out' = ShapeSignals(t, s, src.total, learning, created, surge)
                     \cup {Signal("missing", q) : q \in found}
           /\ latest' = [any |-> Larger(latest.any, at), heard |-> Larger(latest.heard, at)]
           /\ newest' = [newest EXCEPT ![t] = Larger(@, at)]
           /\ told' = [q \in Templates |-> (IF q = t THEN 0 ELSE told[q])
                                           + (IF q \in found THEN 1 ELSE 0)]
           /\ unheard' = [q \in Templates |->
                            IF q \notin awaited \ found THEN -1
                            ELSE IF unheard[q] = -1 THEN at ELSE unheard[q]]

Detect(t, at) ==
    LET src == [source EXCEPT !.total = @ + 1,
                              !.firstSeen = IF source.total = 0 THEN at ELSE @]
    IN /\ lines < MaxLines /\ (lines = 0 => at = 0)
       /\ at \in latest.any - MaxLag .. latest.any + MaxGap
       /\ \E stats \in Learnt(t, at) :
             Silenced(t, at, src, stats) \/ Signalled(t, at, src, stats)
       /\ lines' = lines + 1
       /\ UNCHANGED <<markings, patterns, obeyed, orders>>

----------------------------------------------------------------------------
(* Orders of the operator, snapshots and restarts *)

\* Orders that change nothing are left out.
Order ==
    /\ orders < MaxOrders /\ orders' = orders + 1
    /\ out' = {} /\ unheard' = Nowhere(-1)
    /\ UNCHANGED <<latest, lines>>

\* The empty marking clears.
Ordered(f, k, m) == IF m = "" THEN [q \in DOMAIN f \ {k} |-> f[q]] ELSE Given(f, k, m)

SetMarking(t, m) ==
    /\ Order /\ markings' = Ordered(markings, t, m) /\ markings' # markings
    /\ obeyed' = IF m = "quiet" THEN obeyed \cup {t} ELSE obeyed \ {t}
    /\ UNCHANGED <<source, patterns, newest, told>>

SetMarkingPattern(g, m) ==
    /\ Order /\ patterns' = Ordered(patterns, g, m) /\ patterns' # patterns
    /\ UNCHANGED <<source, markings, newest, told, obeyed>>

\* What is learnt of the source goes, the markings stay.
Forget ==
    /\ Order /\ source # Unknown
    /\ source' = Unknown /\ newest' = Nowhere(0) /\ told' = Nowhere(0)
    /\ UNCHANGED <<markings, patterns, obeyed>>

\* Mutant: the configuration wins over the markings given at runtime.
SeedsWin(seeds, given) == Over(seeds, given)

\* The markings given at runtime win over the configuration.
Restored(seeds, given) == Over(given, seeds)

\* Snapshot when stopping, Restore when started again: all that is learnt comes
\* back.  What a crash loses is for the module Persistence.
Restart ==
    /\ markings' = Restored(Seeds, markings)
    /\ patterns' = Restored(GlobSeeds, patterns)
    /\ out' = {} /\ unheard' = Nowhere(-1)
    /\ UNCHANGED <<source, latest, newest, told, obeyed, orders, lines>>

Next ==
    \/ \E t \in Templates, at \in Times : Detect(t, at)
    \/ \E t \in Templates, m \in Runtime : SetMarking(t, m)
    \/ \E g \in DOMAIN Globs, m \in Runtime : SetMarkingPattern(g, m)
    \/ Forget \/ Restart

Spec == Init /\ [][Next]_vars

----------------------------------------------------------------------------
(* Properties *)

\* The shapes of the state, and no more templates than the bound.
TypeOK ==
    /\ source.firstSeen \in Times /\ source.total \in 0..MaxLines
    /\ source.lastScan \in Times \cup {Never}
    /\ DOMAIN source.stats \subseteq Templates
    /\ MaxTemplates > 0 => Cardinality(DOMAIN source.stats) <= MaxTemplates
    /\ \A t \in DOMAIN source.stats :
          LET s == source.stats[t] IN
          /\ s.count \in 1..source.total /\ s.samples < s.count
          /\ s.lastSeen \in Times /\ s.mean \in Times
          /\ s.bucketStart \in Times /\ s.bucketCount \in 1..s.count
    /\ DOMAIN markings \subseteq Templates /\ DOMAIN patterns \subseteq DOMAIN Globs

\* scanMissing: a template reported missing has had no line for longer than
\* DisappearanceMinSilence, lines under any marking counted and lateness
\* allowed for, and one silence is reported once.
SilenceIsReal ==
    \A t \in Templates :
        /\ told[t] <= 1
        /\ Signal("missing", t) \in out =>
              latest.any - newest[t] > DisappearanceMinSilence - MaxLag

\* scanMissing and its throttle: while lines that may signal keep coming, an
\* expected template found overdue is reported within a scan interval.
SilenceNoticed ==
    \A t \in Templates :
        unheard[t] # -1 =>
            latest.heard - unheard[t] < Larger(DisappearanceScanInterval, 1) + MaxLag

\* A template the operator marked ignore or normal signals nothing, whatever
\* patterns match it and whatever the configuration says of it, before and
\* after a restart that remembers the marking.
OperatorObeyed == \A s \in out : s.of \notin obeyed

\* A silence told is one, and one that lasts is told.
SilencesAreTold == TypeOK /\ SilenceIsReal /\ SilenceNoticed
============================================================================

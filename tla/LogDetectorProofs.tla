-------------------------- MODULE LogDetectorProofs --------------------------
(***************************************************************************)
(* Proofs about LogDetector, for any templates, markings, thresholds and    *)
(* bounds, over any lines, late or not, evictions, orders of the operator,  *)
(* Forgets and restarts.                                                   *)
(*                                                                         *)
(* Neither property is inductive.  That the operator is obeyed needs that   *)
(* what was ordered is what the markings hold (Ordering).  That a silence   *)
(* told is one, told once, and noticed in time needs what the statistics of *)
(* a template have to do with its lines (Latches) and what the last scan    *)
(* has to do with the clocks (Clocks, Waits).                              *)
(***************************************************************************)
EXTENDS LogDetector, FiniteSetTheorems, TLAPS

Statistics ==
    [count : Nat, lastSeen : Times, mean : Times, samples : Nat, even : BOOLEAN,
     bucketStart : Times, bucketCount : Nat, baselined : BOOLEAN, spiked : BOOLEAN,
     missing : BOOLEAN]

\* The statistics of a template of a source with so many lines.
Sound(s, total) ==
    /\ s \in Statistics
    /\ s.count \in 1..total /\ s.samples < s.count /\ s.bucketCount \in 1..s.count

\* A table of statistics within its bound.
Table(stats, total) ==
    /\ DOMAIN stats \subseteq Templates /\ IsFiniteSet(DOMAIN stats)
    /\ MaxTemplates > 0 => Cardinality(DOMAIN stats) <= MaxTemplates
    /\ \A t \in DOMAIN stats : Sound(stats[t], total)

Types ==
    /\ source \in [firstSeen : Times, total : Nat, lastScan : Times \cup {Never},
                   stats : {source.stats}]
    /\ source.total \in 0..lines /\ lines \in 0..MaxLines
    /\ Table(source.stats, source.total)
    /\ DOMAIN markings \subseteq Templates /\ DOMAIN patterns \subseteq DOMAIN Globs
    /\ latest \in [any : Times, heard : Times]
    /\ newest \in [Templates -> Times] /\ told \in [Templates -> {0, 1}]
    /\ unheard \in [Templates -> Times \cup {-1}]

\* What the operator marked quiet is marked so.
Ordering == \A t \in obeyed : t \in DOMAIN markings /\ markings[t] = "quiet"

\* The line learnt last of a template is the latest one but for lateness, and
\* its silence is latched when told.
Latches ==
    \A t \in DOMAIN source.stats :
        /\ newest[t] - source.stats[t].lastSeen <= MaxLag
        /\ told[t] = 1 <=> source.stats[t].missing

Clocks ==
    /\ latest.heard <= latest.any /\ source.lastScan <= latest.heard
    /\ \A t \in Templates : newest[t] <= latest.any

\* What is awaited was found after the last scan, and not long ago.
Waits ==
    \A t \in Templates : unheard[t] # -1 =>
        /\ unheard[t] >= source.lastScan - MaxLag
        /\ latest.heard - unheard[t] < Larger(DisappearanceScanInterval, 1) + MaxLag

IInv == Types /\ Ordering /\ Latches /\ Clocks /\ Waits

-----------------------------------------------------------------------------
(* Learning *)

LEMMA Constants ==
    /\ {DisappearanceScanInterval, DisappearanceMinSilence, MaxTemplates, MaxTime,
        MaxLag, MaxGap, MaxLines, MaxOrders, MinIntervalSamples,
        DisappearanceFactor, DisappearanceMinCount} \subseteq Nat
    /\ SpikeBucket \in Nat \ {0}
  BY LogDetectorAssumption

LEMMA Remainder ==
    ASSUME NEW a \in Nat, NEW b \in Nat \ {0}
    PROVE  a % b \in 0..a
  OBVIOUS

LEMMA BucketOf ==
    ASSUME NEW at \in Times
    PROVE  Bucket(at) \in Times
<1>1. /\ at \in Nat /\ SpikeBucket \in Nat \ {0} /\ at <= MaxTime /\ MaxTime \in Nat
  BY Constants DEF Times
<1>2. at % SpikeBucket \in 0..at
  BY <1>1, Remainder
<1> QED
  BY <1>1, <1>2 DEF Bucket, Times

\* What the smoothing makes of an interval.
LEMMA IntervalsOf ==
    ASSUME NEW s \in Statistics, s.samples < s.count \/ (s.count = 0 /\ s.samples = 0),
           NEW at \in Times, NEW r \in Intervals(s, at)
    PROVE  /\ r \in Statistics /\ r.count = s.count /\ r.samples <= s.count
           /\ r.bucketCount = s.bucketCount
<1> DEFINE interval == at - s.lastSeen
<1>0. /\ s.lastSeen \in Nat /\ at \in Nat /\ s.lastSeen <= MaxTime /\ at <= MaxTime
      /\ s.mean \in Nat /\ s.mean <= MaxTime /\ MaxTime \in Nat
      /\ s.samples \in Nat /\ s.count \in Nat /\ s.even \in BOOLEAN
  BY Constants DEF Statistics, Times
<1>1. CASE s.count = 0 \/ interval < 0
  <2>1. r = s
    BY <1>1 DEF Intervals
  <2> QED
    BY <1>0, <2>1
<1>2. CASE ~(s.count = 0 \/ interval < 0) /\ s.mean = 0
  <2>1. r = [s EXCEPT !.mean = interval]
    BY <1>2 DEF Intervals
  <2>2. interval \in Times
    BY <1>0, <1>2 DEF Times
  <2> QED
    BY <1>0, <2>1, <2>2 DEF Statistics
<1>3. CASE ~(s.count = 0 \/ interval < 0) /\ s.mean # 0
  <2>1. PICK m \in (s.mean..interval \cup interval..s.mean) \ {0} :
          r = [s EXCEPT !.mean = m, !.samples = @ + 1, !.even = @ /\ interval = s.mean]
    BY <1>3 DEF Intervals
  <2>2. m \in Times
    BY <1>0, <1>3, <2>1 DEF Times
  <2>3. s.samples + 1 \in Nat /\ s.samples + 1 <= s.count
    BY <1>0, <1>3
  <2>4. (s.even /\ interval = s.mean) \in BOOLEAN
    OBVIOUS
  <2> QED
    BY <1>0, <2>1, <2>2, <2>3, <2>4 DEF Statistics
<1> QED
  BY <1>1, <1>2, <1>3

LEMMA RolledOf ==
    ASSUME NEW s \in Statistics, NEW at \in Times
    PROVE  /\ Rolled(s, at) \in Statistics
           /\ Rolled(s, at).count = s.count /\ Rolled(s, at).samples = s.samples
           /\ Rolled(s, at).lastSeen = s.lastSeen /\ Rolled(s, at).missing = s.missing
           /\ Rolled(s, at).bucketCount \in {0, s.bucketCount}
<1>1. CASE Bucket(at) <= s.bucketStart
  <2>1. Rolled(s, at) = s
    BY <1>1 DEF Rolled
  <2> QED
    BY <2>1
<1>2. CASE ~(Bucket(at) <= s.bucketStart)
  <2>1. Rolled(s, at) = [s EXCEPT !.bucketStart = Bucket(at), !.bucketCount = 0,
                                  !.baselined = TRUE, !.spiked = FALSE]
    BY <1>2 DEF Rolled
  <2>2. Bucket(at) \in Times /\ 0 \in Nat
    BY BucketOf
  <2> QED
    BY <2>1, <2>2, Zenon DEF Statistics
<1> QED
  BY <1>1, <1>2

\* A line joins the statistics of its template and leaves the others alone.
LEMMA JoinsTable ==
    ASSUME NEW known, NEW t \in DOMAIN known, NEW at \in Times, NEW total \in Nat,
           known[t] \in Statistics, known[t].count \in 0..total,
           known[t].bucketCount <= known[t].count,
           known[t].samples < known[t].count \/ (known[t].count = 0 /\ known[t].samples = 0),
           NEW stats \in Joins(known, t, at)
    PROVE  /\ DOMAIN stats = DOMAIN known
           /\ \A q \in DOMAIN known \ {t} : stats[q] = known[q]
           /\ Sound(stats[t], total + 1) /\ stats[t].lastSeen = at /\ ~stats[t].missing
<1>1. PICK s \in Intervals(known[t], at) :
        stats = [known EXCEPT ![t] = [Rolled([s EXCEPT !.count = @ + 1, !.lastSeen = at,
                                                       !.missing = FALSE], at)
                                      EXCEPT !.bucketCount = @ + 1]]
  BY DEF Joins
<1> DEFINE r == [s EXCEPT !.count = @ + 1, !.lastSeen = at, !.missing = FALSE]
<1>2. /\ s \in Statistics /\ s.count = known[t].count /\ s.samples <= s.count
      /\ s.bucketCount = known[t].bucketCount
  BY IntervalsOf
<1>3. /\ r \in Statistics /\ r.count = s.count + 1 /\ r.lastSeen = at /\ r.missing = FALSE
      /\ r.samples = s.samples /\ r.bucketCount = s.bucketCount
  <2>1. s.count + 1 \in Nat
    BY <1>2 DEF Statistics
  <2> QED
    BY <1>2, <2>1, Zenon DEF Statistics
<1> DEFINE o == Rolled(r, at)
<1>4. /\ o \in Statistics /\ o.count = s.count + 1 /\ o.lastSeen = at /\ o.missing = FALSE
      /\ o.samples = s.samples /\ o.bucketCount \in {0, s.bucketCount}
  <2> HIDE DEF r
  <2> QED
    BY <1>3, RolledOf
<1>5. stats = [known EXCEPT ![t] = [o EXCEPT !.bucketCount = @ + 1]]
  BY <1>1
<1> HIDE DEF r, o
<1>6. stats[t] = [o EXCEPT !.bucketCount = @ + 1]
  BY <1>5
<1>7. /\ stats[t] \in Statistics /\ stats[t].count = s.count + 1 /\ stats[t].lastSeen = at
      /\ stats[t].missing = FALSE /\ stats[t].samples = s.samples
      /\ stats[t].bucketCount = o.bucketCount + 1
  BY <1>4, <1>6 DEF Statistics
<1>8. /\ s.count \in Nat /\ s.samples \in Nat /\ s.bucketCount \in Nat /\ o.bucketCount \in Nat
  BY <1>2, <1>4 DEF Statistics
<1>9. Sound(stats[t], total + 1)
  BY <1>2, <1>4, <1>7, <1>8 DEF Sound
<1> QED
  BY <1>5, <1>7, <1>9

LEMMA FreshOf ==
    ASSUME NEW at \in Times
    PROVE  /\ Fresh(at) \in Statistics /\ Fresh(at).count = 0 /\ Fresh(at).samples = 0
           /\ Fresh(at).bucketCount = 0
<1>1. Bucket(at) \in Times /\ 0 \in Nat /\ 0 \in Times
  BY BucketOf, Constants DEF Times
<1> QED
  BY <1>1, Zenon DEF Fresh, Statistics

\* Learning keeps the table sound: the evictions make room for one more, and no
\* template but the line's changes.
LEMMA LearntTable ==
    ASSUME Types, NEW t \in Templates, NEW at \in Times, NEW stats \in Learnt(t, at)
    PROVE  /\ Table(stats, source.total + 1) /\ t \in DOMAIN stats
           /\ stats[t].lastSeen = at /\ ~stats[t].missing
           /\ \A q \in DOMAIN stats \ {t} :
                q \in DOMAIN source.stats /\ stats[q] = source.stats[q]
<1> DEFINE before == source.stats
           total == source.total
<1>0. /\ Table(before, total) /\ total \in Nat /\ MaxTemplates \in Nat
  BY Constants DEF Types
<1>1. PICK known \in Known(t, at) : stats \in Joins(known, t, at)
  BY DEF Learnt
<1>2. CASE t \in DOMAIN before
  <2>1. known = before
    BY <1>1, <1>2 DEF Known
  <2>2. Sound(before[t], total)
    BY <1>0, <1>2 DEF Table
  <2>3. /\ known[t] \in Statistics /\ known[t].count \in 0..total
        /\ known[t].bucketCount <= known[t].count /\ known[t].samples < known[t].count
    BY <1>0, <2>1, <2>2 DEF Sound, Statistics
  <2>5. /\ DOMAIN stats = DOMAIN known
        /\ \A q \in DOMAIN known \ {t} : stats[q] = known[q]
        /\ Sound(stats[t], total + 1) /\ stats[t].lastSeen = at /\ ~stats[t].missing
    BY <1>0, <1>1, <1>2, <2>1, <2>3, JoinsTable
  <2>6. \A q \in DOMAIN stats : Sound(stats[q], total + 1)
    BY <1>0, <2>1, <2>5 DEF Table, Sound
  <2>7. Table(stats, total + 1)
    BY <1>0, <2>1, <2>5, <2>6 DEF Table
  <2> QED
    BY <1>2, <2>1, <2>5, <2>7
<1>3. CASE t \notin DOMAIN before
  <2>1. PICK ps \in Evictions :
          known = Given([q \in DOMAIN before \ ps |-> before[q]], t, Fresh(at))
    BY <1>1, <1>3 DEF Known
  <2>2. /\ DOMAIN known = (DOMAIN before \ ps) \cup {t}
        /\ known[t] = Fresh(at)
        /\ \A q \in DOMAIN known \ {t} : q \in DOMAIN before /\ known[q] = before[q]
    BY <1>3, <2>1 DEF Given
  <2>3. /\ DOMAIN stats = DOMAIN known
        /\ \A q \in DOMAIN known \ {t} : stats[q] = known[q]
        /\ Sound(stats[t], total + 1) /\ stats[t].lastSeen = at /\ ~stats[t].missing
    BY <1>0, <1>1, <2>2, FreshOf, JoinsTable
  <2>4. \A q \in DOMAIN stats : Sound(stats[q], total + 1)
    BY <1>0, <2>2, <2>3 DEF Table, Sound
  <2>5. /\ IsFiniteSet(DOMAIN stats)
        /\ MaxTemplates > 0 => Cardinality(DOMAIN stats) <= MaxTemplates
    <3> DEFINE D == DOMAIN before
               excess == Cardinality(D) - MaxTemplates + 1
    <3>1. /\ IsFiniteSet(D) /\ Cardinality(D) \in Nat
          /\ MaxTemplates > 0 => Cardinality(D) <= MaxTemplates
      BY <1>0, FS_CardinalityType DEF Table
    <3>2. /\ ps \subseteq D
          /\ Cardinality(ps) = IF MaxTemplates = 0 \/ excess < 0 THEN 0 ELSE excess
      BY <2>1 DEF Evictions
    <3>3. /\ IsFiniteSet(D \ ps) /\ IsFiniteSet(D \cap ps) /\ D \cap ps = ps
          /\ Cardinality(D \ ps) = Cardinality(D) - Cardinality(D \cap ps)
      BY <3>1, <3>2, FS_Difference, FS_Intersection
    <3>4. /\ IsFiniteSet((D \ ps) \cup {t})
          /\ Cardinality((D \ ps) \cup {t}) = Cardinality(D \ ps) + 1
      <4>1. t \notin D \ ps
        BY <1>3
      <4> QED
        BY <3>3, <4>1, FS_AddElement
    <3> HIDE DEF D
    <3>5. DOMAIN stats = (D \ ps) \cup {t}
      BY <2>2, <2>3 DEF D
    <3> QED
      BY <1>0, <3>1, <3>2, <3>3, <3>4, <3>5
  <2>6. DOMAIN stats \subseteq Templates
    BY <1>0, <2>2, <2>3 DEF Table
  <2> QED
    BY <2>2, <2>3, <2>4, <2>5, <2>6 DEF Table
<1> QED
  BY <1>2, <1>3

-----------------------------------------------------------------------------
(* The steps *)

LEMMA InitIInv == Init => IInv
<1> SUFFICES ASSUME Init PROVE IInv
  OBVIOUS
<1>1. /\ 0 \in Times /\ Never \in Int /\ Never <= 0 /\ MaxLines \in Nat /\ MaxLag \in Nat
  BY Constants DEF Times, Never
<1>2. DOMAIN source.stats = {} /\ source = Unknown
  BY DEF Init, Unknown
<1>3. Table(source.stats, source.total)
  <2>1. IsFiniteSet({}) /\ Cardinality({}) = 0 /\ MaxTemplates \in Nat
    BY FS_EmptySet, Constants
  <2> QED
    BY <1>2, <2>1 DEF Table
<1>4. Types
  <2>1. source \in [firstSeen : Times, total : Nat, lastScan : Times \cup {Never},
                   stats : {source.stats}]
    BY <1>1, <1>2 DEF Unknown
  <2>2. source.total \in 0..lines /\ lines \in 0..MaxLines
    BY <1>1, <1>2 DEF Unknown, Init
  <2>3. /\ latest \in [any : Times, heard : Times]
        /\ newest \in [Templates -> Times] /\ told \in [Templates -> {0, 1}]
        /\ unheard \in [Templates -> Times \cup {-1}]
    BY <1>1 DEF Init, Nowhere
  <2>4. DOMAIN markings \subseteq Templates /\ DOMAIN patterns \subseteq DOMAIN Globs
    BY LogDetectorAssumption DEF Init
  <2> QED
    BY <1>3, <2>1, <2>2, <2>3, <2>4 DEF Types
<1> QED
  BY <1>1, <1>2, <1>4 DEF Init, IInv, Ordering, Latches, Clocks, Waits, Unknown, Nowhere

\* What the clocks are, as numbers.
LEMMA Readings ==
    ASSUME Types
    PROVE  /\ latest.any \in Times /\ latest.heard \in Times /\ Times \subseteq Int
           /\ latest = [any |-> latest.any, heard |-> latest.heard]
           /\ source.lastScan \in Int /\ source.total \in Nat /\ source.total <= lines
           /\ \A q \in Templates : newest[q] \in Times /\ unheard[q] \in Int
                                   /\ told[q] \in {0, 1}
           /\ \A q \in DOMAIN source.stats :
                source.stats[q] \in Statistics /\ source.stats[q].lastSeen \in Int
           /\ DOMAIN source.stats \subseteq Templates
           /\ {DisappearanceScanInterval, DisappearanceMinSilence, MaxLag} \subseteq Nat
  BY Constants DEF Types, Times, Never, Table, Sound, Statistics

\* What a line at this time finds of the source, before it is learnt.
Arrival(at) ==
    [source EXCEPT !.total = @ + 1, !.firstSeen = IF source.total = 0 THEN at ELSE @]

LEMMA Arrives ==
    ASSUME Types, NEW at \in Times
    PROVE  /\ Arrival(at) \in [firstSeen : Times, total : Nat, lastScan : Times \cup {Never},
                               stats : {source.stats}]
           /\ Arrival(at).total = source.total + 1
           /\ Arrival(at).lastScan = source.lastScan
<1> DEFINE first == IF source.total = 0 THEN at ELSE source.firstSeen
<1>1. first \in Times /\ source.total + 1 \in Nat
  BY DEF Types
<1>2. Arrival(at) = [source EXCEPT !.total = @ + 1, !.firstSeen = first]
  BY DEF Arrival
<1> HIDE DEF first
<1> QED
  BY <1>1, <1>2 DEF Types

\* The histories of the templates after a line of t, and the latest timestamp.
LEMMA NewestMoves ==
    ASSUME Types, Clocks, NEW t \in Templates, NEW at \in Times, latest.any - at <= MaxLag,
           newest' = [newest EXCEPT ![t] = Larger(@, at)],
           latest'.any = Larger(latest.any, at)
    PROVE  /\ newest' \in [Templates -> Times] /\ latest'.any \in Times
           /\ \A q \in Templates : newest'[q] <= latest'.any
           /\ newest'[t] - at <= MaxLag
           /\ \A q \in Templates \ {t} : newest'[q] = newest[q]
<1>1. /\ newest \in [Templates -> Times] /\ newest[t] \in Int /\ at \in Int /\ MaxLag \in Nat
      /\ latest.any \in Int /\ latest.any \in Times
      /\ \A q \in Templates : newest[q] \in Int /\ newest[q] <= latest.any
  BY Readings DEF Types, Clocks
<1>2. Larger(newest[t], at) \in Times /\ Larger(latest.any, at) \in Times
  BY <1>1, Readings DEF Larger
<1>3. /\ Larger(latest.any, at) >= latest.any /\ Larger(latest.any, at) >= at
      /\ Larger(newest[t], at) - at <= MaxLag
      /\ Larger(newest[t], at) <= Larger(latest.any, at)
      /\ Larger(latest.any, at) \in Int
  BY <1>1 DEF Larger
<1>4. /\ newest'[t] = Larger(newest[t], at)
      /\ \A q \in Templates \ {t} : newest'[q] = newest[q]
  BY <1>1
<1> QED
  BY <1>1, <1>2, <1>3, <1>4

\* A quiet line.
LEMMA SilencedStep ==
    ASSUME IInv, NEW t \in Templates, NEW at \in Times, NEW stats \in Learnt(t, at),
           Silenced(t, at, Arrival(at), stats), latest.any - at <= MaxLag,
           lines' = lines + 1, lines < MaxLines, UNCHANGED <<markings, patterns, obeyed>>
    PROVE  IInv'
<1>1. /\ Table(stats, source.total + 1) /\ t \in DOMAIN stats
      /\ stats[t].lastSeen = at /\ ~stats[t].missing
      /\ \A q \in DOMAIN stats \ {t} : q \in DOMAIN source.stats /\ stats[q] = source.stats[q]
  BY LearntTable DEF IInv
<1>2. /\ source' \in [firstSeen : Times, total : Nat, lastScan : Times \cup {Never},
                      stats : {source'.stats}]
      /\ source'.total = source.total + 1 /\ source'.lastScan = source.lastScan
      /\ source'.stats = stats
  BY Arrives DEF Silenced, IInv
<1>3. /\ latest' = [latest EXCEPT !.any = Larger(@, at)]
      /\ newest' = [newest EXCEPT ![t] = Larger(@, at)]
      /\ told' = [told EXCEPT ![t] = 0] /\ unheard' = [unheard EXCEPT ![t] = -1]
  BY DEF Silenced
<1>4. /\ latest'.any = Larger(latest.any, at) /\ latest'.heard = latest.heard
      /\ latest' = [any |-> latest'.any, heard |-> latest.heard]
  BY <1>3, Readings DEF IInv
<1>5. /\ newest' \in [Templates -> Times] /\ latest'.any \in Times
      /\ \A q \in Templates : newest'[q] <= latest'.any
      /\ newest'[t] - at <= MaxLag
      /\ \A q \in Templates \ {t} : newest'[q] = newest[q]
  BY <1>3, <1>4, NewestMoves DEF IInv
<1>6. Types'
  <2>1. /\ told' \in [Templates -> {0, 1}] /\ unheard' \in [Templates -> Times \cup {-1}]
    BY <1>3 DEF IInv, Types
  <2>2. source.total + 1 \in 0..lines' /\ lines' \in 0..MaxLines
    BY Constants DEF IInv, Types
  <2>3. latest' \in [any : Times, heard : Times]
    BY <1>4, <1>5, Readings DEF IInv
  <2> QED
    BY <1>1, <1>2, <1>5, <2>1, <2>2, <2>3 DEF IInv, Types
<1>7. Ordering'
  BY DEF IInv, Ordering
<1>8. Latches'
  <2>1. told'[t] = 0 /\ \A q \in Templates \ {t} : told'[q] = told[q]
    BY <1>3 DEF IInv, Types
  <2>2. source'.stats = stats /\ DOMAIN stats \subseteq Templates
    BY <1>1, <1>2 DEF Table
  <2> QED
    BY <1>1, <1>5, <2>1, <2>2 DEF IInv, Latches
<1>9. Clocks'
  <2>1. latest'.any >= latest.any
    BY <1>4, Readings DEF Larger, IInv
  <2>2. latest'.any \in Int /\ latest.any \in Int /\ latest.heard \in Int
    BY <1>5, Readings DEF IInv
  <2> QED
    BY <1>2, <1>4, <1>5, <2>1, <2>2 DEF IInv, Clocks
<1>10. Waits'
  <2>1. \A q \in Templates : unheard'[q] \in {-1, unheard[q]}
    BY <1>3 DEF IInv, Types
  <2> QED
    BY <1>2, <1>4, <2>1 DEF IInv, Waits
<1> QED
  BY <1>6, <1>7, <1>8, <1>9, <1>10 DEF IInv

\* A line that may signal, and the scan it makes when one is due.
LEMMA SignalledStep ==
    ASSUME IInv, NEW t \in Templates, NEW at \in Times, NEW stats \in Learnt(t, at),
           Signalled(t, at, Arrival(at), stats), latest.any - at <= MaxLag,
           lines' = lines + 1, lines < MaxLines, UNCHANGED <<markings, patterns, obeyed>>
    PROVE  IInv' /\ OperatorObeyed' /\ SilenceIsReal'
<1>1. /\ Table(stats, source.total + 1) /\ t \in DOMAIN stats
      /\ stats[t].lastSeen = at /\ ~stats[t].missing
      /\ \A q \in DOMAIN stats \ {t} : q \in DOMAIN source.stats /\ stats[q] = source.stats[q]
  BY LearntTable DEF IInv
<1>2. /\ Arrival(at) \in [firstSeen : Times, total : Nat, lastScan : Times \cup {Never},
                          stats : {source.stats}]
      /\ Arrival(at).total = source.total + 1
      /\ Arrival(at).lastScan = source.lastScan
      /\ DOMAIN stats \subseteq Templates
  BY <1>1, Arrives DEF IInv, Table
<1> DEFINE src == Arrival(at)
           scan == Scan(src.lastScan, at)
<1>3. PICK created \in {c \in BOOLEAN : c => stats[t].count = 1}, surge \in BOOLEAN,
           doubted \in SUBSET {q \in Expected(stats, at) : ~stats[q].even} :
        LET s == stats[t]
            overdue == Overdue(stats, at) \ doubted
            found == IF scan.due THEN overdue ELSE {}
            awaited == {q \in Expected(stats, at) \ doubted : q # t /\ told[q] = 0}
            learning == at - src.firstSeen < LearningPeriod
        IN /\ MarkingFor(t) # "quiet"
           /\ surge => /\ ~learning /\ t \in Informative /\ ~s.spiked
                       /\ s.baselined /\ s.bucketCount >= SpikeMinCount
           /\ source' = [src EXCEPT !.lastScan = scan.lastScan,
                             !.stats = [q \in DOMAIN stats |->
                                 [stats[q] EXCEPT
                                    !.missing = Latched(@, q \in overdue, q \in found),
                                    !.spiked = @ \/ (surge /\ q = t)]]]
           /\ out' = ShapeSignals(t, s, src.total, learning, created, surge)
                     \cup {Signal("missing", q) : q \in found}
           /\ latest' = [any |-> Larger(latest.any, at), heard |-> Larger(latest.heard, at)]
           /\ newest' = [newest EXCEPT ![t] = Larger(@, at)]
           /\ told' = [q \in Templates |-> (IF q = t THEN 0 ELSE told[q])
                                           + (IF q \in found THEN 1 ELSE 0)]
           /\ unheard' = [q \in Templates |->
                            IF q \notin awaited \ found THEN -1
                            ELSE IF unheard[q] = -1 THEN at ELSE unheard[q]]
  <2> HIDE DEF scan, src
  <2>1. Signalled(t, at, src, stats)
    BY DEF src
  <2> QED
    BY <2>1, Zenon DEF Signalled, scan
<1> DEFINE found == IF scan.due THEN Overdue(stats, at) \ doubted ELSE {}
           awaited == {q \in Expected(stats, at) \ doubted : q # t /\ told[q] = 0}
           after == [q \in DOMAIN stats |->
                       [stats[q] EXCEPT !.missing = @ \/ q \in found,
                                        !.spiked = @ \/ (surge /\ q = t)]]
<1>4. /\ source' \in [firstSeen : Times, total : Nat, lastScan : Times \cup {Never},
                      stats : {source'.stats}]
      /\ source'.total = source.total + 1 /\ source'.lastScan = scan.lastScan
      /\ source'.stats = after
      /\ latest' = [any |-> Larger(latest.any, at), heard |-> Larger(latest.heard, at)]
      /\ newest' = [newest EXCEPT ![t] = Larger(@, at)]
      /\ told' = [q \in Templates |-> (IF q = t THEN 0 ELSE told[q])
                                      + (IF q \in found THEN 1 ELSE 0)]
      /\ unheard' = [q \in Templates |->
                       IF q \notin awaited \ found THEN -1
                       ELSE IF unheard[q] = -1 THEN at ELSE unheard[q]]
  <2>1. source' = [src EXCEPT !.lastScan = scan.lastScan, !.stats = after]
    BY <1>3 DEF Latched
  <2>2. scan.lastScan \in Times \cup {Never}
    BY <1>2 DEF Scan
  <2> HIDE DEF scan, after
  <2>3. /\ source' \in [firstSeen : Times, total : Nat, lastScan : Times \cup {Never},
                        stats : {source'.stats}]
        /\ source'.total = source.total + 1 /\ source'.lastScan = scan.lastScan
        /\ source'.stats = after
    BY <1>2, <2>1, <2>2
  <2> QED
    BY <1>3, <2>3
<1>5. /\ MarkingFor(t) # "quiet"
      /\ \A sig \in out' : sig.of = t \/ (sig.of \in found /\ sig.kind = "missing")
      /\ \A sig \in out' : sig.kind = "missing" => sig.of \in found
  <2> DEFINE learning == at - src.firstSeen < LearningPeriod
             shape == ShapeSignals(t, stats[t], src.total, learning, created, surge)
  <2>1. \A sig \in shape : sig.of = t /\ sig.kind # "missing"
    <3> SUFFICES ASSUME NEW sig \in shape PROVE sig.of = t /\ sig.kind # "missing"
      OBVIOUS
    <3>1. sig \in {Signal("symptomatic", t), Signal("new", t),
                  Signal("rare", t), Signal("spike", t)}
      BY DEF ShapeSignals
    <3> QED
      BY <3>1 DEF Signal
  <2>2. \A q : Signal("missing", q).of = q /\ Signal("missing", q).kind = "missing"
    BY DEF Signal
  <2> HIDE DEF shape, found
  <2>3. out' = shape \cup {Signal("missing", q) : q \in found}
    BY <1>3 DEF shape, found
  <2> QED
    BY <1>3, <2>1, <2>2, <2>3
<1> HIDE DEF src
<1>6. /\ latest'.any = Larger(latest.any, at) /\ latest'.heard = Larger(latest.heard, at)
      /\ latest'.any \in Times /\ latest'.heard \in Times
      /\ latest'.any >= latest.any /\ latest'.any >= at
      /\ latest'.heard >= latest.heard /\ latest'.heard >= at
      /\ latest'.heard <= latest'.any /\ latest'.heard - at <= MaxLag
      /\ latest'.heard = latest.heard \/ latest'.heard = at
  <2>1. /\ latest.any \in Times /\ latest.heard \in Times /\ latest.heard <= latest.any
        /\ Times \subseteq Int /\ MaxLag \in Nat
    BY Readings DEF IInv, Clocks
  <2>2. \A x \in Times : Larger(x, at) \in {x, at} /\ Larger(x, at) >= x /\ Larger(x, at) >= at
    BY <2>1 DEF Larger
  <2>3. latest'.any = Larger(latest.any, at) /\ latest'.heard = Larger(latest.heard, at)
    BY <1>4
  <2>4. /\ latest'.any \in {latest.any, at} /\ latest'.any >= latest.any /\ latest'.any >= at
        /\ latest'.heard \in {latest.heard, at} /\ latest'.heard >= latest.heard
        /\ latest'.heard >= at
    BY <2>1, <2>2, <2>3
  <2>5. /\ latest'.any \in Int /\ latest'.heard \in Int
        /\ latest.any \in Int /\ latest.heard \in Int /\ at \in Int
    BY <2>1, <2>4
  <2> QED
    BY <2>1, <2>3, <2>4, <2>5
<1>7. /\ newest' \in [Templates -> Times]
      /\ \A q \in Templates : newest'[q] <= latest'.any
      /\ newest'[t] - at <= MaxLag
      /\ \A q \in Templates \ {t} : newest'[q] = newest[q]
  BY <1>4, <1>6, NewestMoves DEF IInv
<1>8. /\ source.lastScan \in Int /\ at \in Int /\ DisappearanceScanInterval \in Nat
      /\ scan.due <=> at - source.lastScan >= DisappearanceScanInterval
      /\ scan.lastScan = IF scan.due THEN at ELSE source.lastScan
  BY <1>2, Readings DEF Scan, IInv, src
<1> HIDE DEF scan
\* A template found overdue is not the line's, and its silence was not told.
<1>9. \A q \in found :
        /\ q \in DOMAIN stats /\ q # t /\ q \in Expected(stats, at)
        /\ ~stats[q].missing /\ told[q] = 0
        /\ at - stats[q].lastSeen > DisappearanceMinSilence
        /\ MarkingFor(q) # "quiet"
  <2>1. ASSUME NEW q \in found
        PROVE  /\ q \in DOMAIN stats /\ q \in Expected(stats, at) /\ ~stats[q].missing
               /\ MarkingFor(q) # "quiet"
    BY <2>1 DEF Overdue, Expected
  <2>2. ASSUME NEW q \in found
        PROVE  at - stats[q].lastSeen > DisappearanceMinSilence
    <3>1. /\ stats[q].lastSeen \in Int /\ stats[q].mean \in Nat
          /\ DisappearanceFactor \in Nat /\ DisappearanceMinSilence \in Nat
      BY <1>1, <2>1, Constants DEF Table, Sound, Statistics, Times
    <3>2. DisappearanceFactor * stats[q].mean \in Nat
      BY <3>1
    <3>3. at - stats[q].lastSeen
            > Larger(DisappearanceFactor * stats[q].mean, DisappearanceMinSilence)
      BY <2>1 DEF Expected
    <3> QED
      BY <1>8, <3>1, <3>2, <3>3 DEF Larger
  <2>3. ASSUME NEW q \in found
        PROVE  q # t
    BY <1>1, <1>8, <2>2, Constants
  <2>4. ASSUME NEW q \in found
        PROVE  told[q] = 0
    BY <1>1, <1>2, <2>1, <2>3, Readings DEF IInv, Latches
  <2> QED
    BY <2>1, <2>2, <2>3, <2>4
<1>10. \A q \in DOMAIN stats :
         /\ Sound(after[q], source.total + 1) /\ after[q].lastSeen = stats[q].lastSeen
         /\ after[q].missing <=> stats[q].missing \/ q \in found
  <2> SUFFICES ASSUME NEW q \in DOMAIN stats
               PROVE  /\ Sound(after[q], source.total + 1)
                      /\ after[q].lastSeen = stats[q].lastSeen
                      /\ after[q].missing <=> stats[q].missing \/ q \in found
    OBVIOUS
  <2>1. Sound(stats[q], source.total + 1) /\ stats[q] \in Statistics
    BY <1>1 DEF Table, Sound
  <2> DEFINE m == stats[q].missing \/ q \in found
             p == stats[q].spiked \/ (surge /\ q = t)
  <2>2. after[q] = [stats[q] EXCEPT !.missing = m, !.spiked = p]
    OBVIOUS
  <2>3. m \in BOOLEAN /\ p \in BOOLEAN
    BY <2>1, Zenon DEF Statistics
  <2> HIDE DEF m, p, found, after
  <2>4. /\ after[q] \in Statistics /\ after[q].missing = m
        /\ after[q].lastSeen = stats[q].lastSeen /\ after[q].count = stats[q].count
        /\ after[q].samples = stats[q].samples /\ after[q].bucketCount = stats[q].bucketCount
    BY <2>1, <2>2, <2>3, Zenon DEF Statistics
  <2>5. Sound(after[q], source.total + 1)
    BY <2>1, <2>4 DEF Sound
  <2> QED
    BY <2>4, <2>5 DEF m
<1>11. DOMAIN after = DOMAIN stats
  OBVIOUS
<1> HIDE DEF after
<1>12. Table(after, source.total + 1)
  BY <1>1, <1>10, <1>11 DEF Table
<1>13. /\ told' \in [Templates -> {0, 1}]
       /\ \A q \in Templates : told'[q] = 1 <=> (q # t /\ told[q] = 1) \/ q \in found
  <2>1. \A q \in Templates : told[q] \in {0, 1}
    BY DEF IInv, Types
  <2>2. \A q \in Templates : told'[q] = (IF q = t THEN 0 ELSE told[q])
                                        + (IF q \in found THEN 1 ELSE 0)
    BY <1>4
  <2> HIDE DEF found
  <2>3. ASSUME NEW q \in Templates
        PROVE  told'[q] \in {0, 1} /\ (told'[q] = 1 <=> (q # t /\ told[q] = 1) \/ q \in found)
    BY <1>9, <2>1, <2>2
  <2>4. told' = [q \in Templates |-> told'[q]]
    BY <1>4
  <2> QED
    BY <2>3, <2>4
\* What was expected and not yet told is reported when a scan is due.
<1>14. \A q \in awaited : q \in DOMAIN stats /\ (scan.due => q \in found)
  <2> SUFFICES ASSUME NEW q \in awaited PROVE q \in DOMAIN stats /\ (scan.due => q \in found)
    OBVIOUS
  <2>1. q \in DOMAIN stats /\ q # t /\ told[q] = 0 /\ q \in Expected(stats, at) \ doubted
    BY DEF Expected
  <2>2. ~stats[q].missing
    BY <1>1, <2>1 DEF IInv, Latches
  <2> QED
    BY <2>1, <2>2 DEF Overdue
<1>15. /\ unheard' \in [Templates -> Times \cup {-1}]
       /\ \A q \in Templates : unheard'[q] # -1 =>
            /\ ~scan.due
            /\ unheard'[q] = at \/ (unheard[q] # -1 /\ unheard'[q] = unheard[q])
  <2>1. \A q \in Templates : unheard[q] \in Times \cup {-1}
    BY DEF IInv, Types
  <2>2. \A q \in Templates :
          unheard'[q] = IF q \notin awaited \ found THEN -1
                        ELSE IF unheard[q] = -1 THEN at ELSE unheard[q]
    BY <1>4
  <2>3. unheard' = [q \in Templates |-> unheard'[q]]
    BY <1>4
  <2> HIDE DEF awaited, found
  <2> QED
    BY <1>14, <2>1, <2>2, <2>3
<1>16. Types'
  <2>1. source.total + 1 \in 0..lines' /\ lines' \in 0..MaxLines
    BY Constants DEF IInv, Types
  <2>3. latest' \in [any : Times, heard : Times]
    BY <1>4, <1>6
  <2> HIDE DEF found, awaited
  <2> QED
    BY <1>4, <1>7, <1>12, <1>13, <1>15, <2>1, <2>3 DEF IInv, Types
<1>17. Ordering'
  BY DEF IInv, Ordering
<1>18. Latches'
  <2> SUFFICES ASSUME NEW q \in DOMAIN after
               PROVE  /\ newest'[q] - after[q].lastSeen <= MaxLag
                      /\ told'[q] = 1 <=> after[q].missing
    BY <1>4 DEF Latches
  <2>1. q \in DOMAIN stats /\ q \in Templates
    BY <1>2, <1>11
  <2> HIDE DEF found, awaited
  <2>2. CASE q = t
    BY <1>1, <1>7, <1>9, <1>10, <1>13, <2>1, <2>2
  <2>3. CASE q # t
    <3>1. /\ q \in DOMAIN source.stats /\ stats[q] = source.stats[q]
          /\ newest'[q] = newest[q]
      BY <1>1, <1>7, <2>1, <2>3
    <3>2. newest[q] - stats[q].lastSeen <= MaxLag /\ (told[q] = 1 <=> stats[q].missing)
      BY <3>1 DEF IInv, Latches
    <3> QED
      BY <1>10, <1>13, <2>1, <2>3, <3>1, <3>2
  <2> QED
    BY <2>2, <2>3
<1>19. Clocks'
  <2>1. scan.lastScan <= latest'.heard
    BY <1>6, <1>8, Readings DEF IInv, Clocks
  <2>2. source'.lastScan = scan.lastScan
    BY <1>4
  <2> QED
    BY <1>6, <1>7, <2>1, <2>2 DEF Clocks
<1>20. Waits'
  <2> SUFFICES ASSUME NEW q \in Templates, unheard'[q] # -1
               PROVE  /\ unheard'[q] >= source'.lastScan - MaxLag
                      /\ latest'.heard - unheard'[q]
                           < Larger(DisappearanceScanInterval, 1) + MaxLag
    BY DEF Waits
  <2> HIDE DEF found, awaited
  <2>1. /\ source'.lastScan = source.lastScan
        /\ at - source.lastScan < DisappearanceScanInterval
        /\ unheard'[q] = at \/ (unheard[q] # -1 /\ unheard'[q] = unheard[q])
    BY <1>4, <1>8, <1>15
  <2>2. /\ latest.heard \in Int /\ latest.any \in Int /\ MaxLag \in Nat /\ unheard[q] \in Int
        /\ source.lastScan <= latest.heard /\ latest.heard <= latest.any
    BY Readings DEF IInv, Clocks
  <2>3. /\ Larger(DisappearanceScanInterval, 1) \in Nat
        /\ Larger(DisappearanceScanInterval, 1) >= 1
        /\ Larger(DisappearanceScanInterval, 1) >= DisappearanceScanInterval
    BY <1>8 DEF Larger
  <2>4. CASE unheard'[q] = at
    BY <1>6, <1>8, <2>1, <2>2, <2>3, <2>4
  <2>5. CASE unheard[q] # -1 /\ unheard'[q] = unheard[q]
    <3>1. /\ unheard[q] >= source.lastScan - MaxLag
          /\ latest.heard - unheard[q] < Larger(DisappearanceScanInterval, 1) + MaxLag
      BY <2>5 DEF IInv, Waits
    <3> QED
      BY <1>6, <1>8, <2>1, <2>2, <2>3, <2>5, <3>1
  <2> QED
    BY <2>1, <2>4, <2>5
\* What the step signals.
<1>21. OperatorObeyed'
  <2> SUFFICES ASSUME NEW sig \in out', sig.of \in obeyed PROVE FALSE
    BY DEF OperatorObeyed
  <2>1. MarkingFor(sig.of) # "quiet"
    BY <1>5, <1>9
  <2>2. sig.of \in DOMAIN markings /\ markings[sig.of] = "quiet"
    BY DEF IInv, Ordering
  <2> QED
    BY <2>1, <2>2 DEF MarkingFor, MarkingIn
<1>22. SilenceIsReal'
  <2> HIDE DEF found, awaited
  <2> SUFFICES ASSUME NEW q \in Templates
               PROVE  /\ told'[q] <= 1
                      /\ Signal("missing", q) \in out' =>
                           latest'.any - newest'[q] > DisappearanceMinSilence - MaxLag
    BY DEF SilenceIsReal
  <2>1. told'[q] <= 1
    BY <1>13
  <2>2. ASSUME Signal("missing", q) \in out'
        PROVE  latest'.any - newest'[q] > DisappearanceMinSilence - MaxLag
    <3>1. q \in found
      BY <1>5, <2>2 DEF Signal
    <3>2. /\ q # t /\ at - stats[q].lastSeen > DisappearanceMinSilence
          /\ q \in DOMAIN source.stats /\ stats[q] = source.stats[q]
      BY <1>1, <1>9, <3>1
    <3>3. newest'[q] = newest[q] /\ newest[q] - stats[q].lastSeen <= MaxLag
      BY <1>7, <3>2 DEF IInv, Latches
    <3> QED
      BY <1>6, <1>8, <3>2, <3>3, Readings DEF IInv
  <2> QED
    BY <2>1, <2>2
<1> QED
  BY <1>16, <1>17, <1>18, <1>19, <1>20, <1>21, <1>22 DEF IInv

LEMMA DetectStep ==
    ASSUME IInv, NEW t \in Templates, NEW at \in Times, Detect(t, at)
    PROVE  IInv' /\ OperatorObeyed' /\ SilenceIsReal'
<1>1. PICK stats \in Learnt(t, at) :
        Silenced(t, at, Arrival(at), stats) \/ Signalled(t, at, Arrival(at), stats)
  BY DEF Detect, Arrival
<1>2. /\ lines < MaxLines /\ lines' = lines + 1 /\ UNCHANGED <<markings, patterns, obeyed>>
      /\ at \in latest.any - MaxLag .. latest.any + MaxGap
  BY DEF Detect
<1>3. latest.any - at <= MaxLag
  BY <1>2, Readings, Constants DEF IInv
<1>4. CASE Silenced(t, at, Arrival(at), stats)
  <2>1. IInv'
    BY <1>2, <1>3, <1>4, SilencedStep
  <2>2. out' = {}
    BY <1>4 DEF Silenced
  <2>3. \A q \in Templates : told'[q] <= 1
    BY <2>1, \A q \in Templates : told'[q] \in {0, 1} DEF IInv, Types
  <2> QED
    BY <2>1, <2>2, <2>3 DEF OperatorObeyed, SilenceIsReal
<1>5. CASE Signalled(t, at, Arrival(at), stats)
  BY <1>2, <1>3, <1>5, SignalledStep
<1> QED
  BY <1>1, <1>4, <1>5

\* The orders, Forget and Restart signal nothing and await nothing.
LEMMA OrderStep ==
    ASSUME IInv,
           \/ \E t \in Templates, m \in Runtime : SetMarking(t, m)
           \/ \E g \in DOMAIN Globs, m \in Runtime : SetMarkingPattern(g, m)
           \/ Forget \/ Restart
    PROVE  IInv' /\ OperatorObeyed' /\ SilenceIsReal'
<1>1. out' = {} /\ unheard' = Nowhere(-1) /\ UNCHANGED <<latest, lines>>
  BY DEF SetMarking, SetMarkingPattern, Forget, Order, Restart
<1>2. /\ DOMAIN markings' \subseteq Templates /\ DOMAIN patterns' \subseteq DOMAIN Globs
      /\ Ordering'
  <2>1. CASE \E t \in Templates, m \in Runtime : SetMarking(t, m)
    <3>1. PICK t \in Templates, m \in Runtime : SetMarking(t, m)
      BY <2>1
    <3>2. /\ markings' = Ordered(markings, t, m) /\ UNCHANGED patterns
          /\ obeyed' = IF m = "quiet" THEN obeyed \cup {t} ELSE obeyed \ {t}
      BY <3>1 DEF SetMarking
    <3>3. CASE m = ""
      <4>1. markings' = [q \in DOMAIN markings \ {t} |-> markings[q]] /\ obeyed' = obeyed \ {t}
        BY <3>2, <3>3 DEF Ordered
      <4> QED
        BY <3>2, <4>1 DEF IInv, Types, Ordering
    <3>4. CASE m # ""
      <4>1. markings' = [q \in DOMAIN markings \cup {t} |-> IF q = t THEN m ELSE markings[q]]
        BY <3>2, <3>4 DEF Ordered, Given
      <4> QED
        BY <3>2, <4>1 DEF IInv, Types, Ordering
    <3> QED
      BY <3>3, <3>4
  <2>2. CASE \E g \in DOMAIN Globs, m \in Runtime : SetMarkingPattern(g, m)
    <3>1. PICK g \in DOMAIN Globs, m \in Runtime : SetMarkingPattern(g, m)
      BY <2>2
    <3>2. patterns' = Ordered(patterns, g, m) /\ UNCHANGED <<markings, obeyed>>
      BY <3>1 DEF SetMarkingPattern
    <3>3. DOMAIN patterns' \subseteq DOMAIN patterns \cup {g}
      BY <3>2 DEF Ordered, Given
    <3> QED
      BY <3>2, <3>3 DEF IInv, Types, Ordering
  <2>3. CASE Forget
    BY <2>3 DEF Forget, IInv, Types, Ordering
  <2>4. CASE Restart
    <3>1. /\ markings' = Over(markings, Seeds) /\ patterns' = Over(patterns, GlobSeeds)
          /\ obeyed' = obeyed
      BY <2>4 DEF Restart, Restored
    <3>2. /\ DOMAIN markings' = DOMAIN markings \cup DOMAIN Seeds
          /\ DOMAIN patterns' = DOMAIN patterns \cup DOMAIN GlobSeeds
          /\ \A q \in DOMAIN markings : markings'[q] = markings[q]
      BY <3>1 DEF Over
    <3> QED
      BY <3>1, <3>2, LogDetectorAssumption DEF IInv, Types, Ordering
  <2> QED
    BY <2>1, <2>2, <2>3, <2>4
<1>3. \/ UNCHANGED <<source, newest, told>>
      \/ source' = Unknown /\ newest' = Nowhere(0) /\ told' = Nowhere(0)
  BY DEF SetMarking, SetMarkingPattern, Forget, Restart
<1>4. Types'
  <2>1. unheard' \in [Templates -> Times \cup {-1}]
    BY <1>1 DEF Nowhere
  <2>2. CASE UNCHANGED <<source, newest, told>>
    BY <1>1, <1>2, <2>1, <2>2 DEF IInv, Types
  <2>3. CASE source' = Unknown /\ newest' = Nowhere(0) /\ told' = Nowhere(0)
    <3>1. /\ 0 \in Times /\ MaxTemplates \in Nat /\ lines \in Nat
          /\ IsFiniteSet({}) /\ Cardinality({}) = 0
      BY Constants, FS_EmptySet DEF Times, IInv, Types
    <3>2. /\ newest' \in [Templates -> Times] /\ told' \in [Templates -> {0, 1}]
          /\ source'.total = 0 /\ DOMAIN source'.stats = {}
          /\ source' \in [firstSeen : Times, total : Nat, lastScan : Times \cup {Never},
                          stats : {source'.stats}]
      BY <2>3, <3>1 DEF Nowhere, Unknown
    <3>3. Table(source'.stats, source'.total) /\ source'.total \in 0..lines'
      BY <1>1, <3>1, <3>2 DEF Table
    <3> QED
      BY <1>1, <1>2, <2>1, <3>2, <3>3 DEF IInv, Types
  <2> QED
    BY <1>3, <2>2, <2>3
<1>5. Latches' /\ Clocks'
  <2>1. CASE UNCHANGED <<source, newest, told>>
    BY <1>1, <2>1 DEF IInv, Latches, Clocks
  <2>2. CASE source' = Unknown /\ newest' = Nowhere(0) /\ told' = Nowhere(0)
    <3>1. /\ DOMAIN source'.stats = {} /\ source'.lastScan = Never
          /\ \A q \in Templates : newest'[q] = 0
      BY <2>2 DEF Nowhere, Unknown
    <3>2. Never <= 0 /\ Never \in Int
      BY Constants DEF Never
    <3>3. latest.heard \in Nat /\ latest.any \in Nat /\ latest.heard <= latest.any
      BY Constants DEF IInv, Types, Clocks, Times
    <3> QED
      BY <1>1, <3>1, <3>2, <3>3 DEF Latches, Clocks
  <2> QED
    BY <1>3, <2>1, <2>2
<1>6. Waits'
  BY <1>1 DEF Waits, Nowhere
<1>7. \A q \in Templates : told'[q] \in {0, 1}
  BY <1>4 DEF Types
<1> QED
  BY <1>1, <1>2, <1>4, <1>5, <1>6, <1>7 DEF IInv, OperatorObeyed, SilenceIsReal

LEMMA Invariance == Spec => [](IInv /\ OperatorObeyed /\ SilenceIsReal)
<1>1. Init => OperatorObeyed /\ SilenceIsReal
  BY DEF Init, OperatorObeyed, SilenceIsReal, Nowhere
<1>2. IInv /\ OperatorObeyed /\ SilenceIsReal /\ [Next]_vars
        => IInv' /\ OperatorObeyed' /\ SilenceIsReal'
  <2> SUFFICES ASSUME IInv, OperatorObeyed, SilenceIsReal, [Next]_vars
               PROVE  IInv' /\ OperatorObeyed' /\ SilenceIsReal'
    OBVIOUS
  <2>1. CASE \E t \in Templates, at \in Times : Detect(t, at)
    BY <2>1, DetectStep
  <2>2. CASE \/ \E t \in Templates, m \in Runtime : SetMarking(t, m)
             \/ \E g \in DOMAIN Globs, m \in Runtime : SetMarkingPattern(g, m)
             \/ Forget \/ Restart
    BY <2>2, OrderStep
  <2>3. CASE UNCHANGED vars
    BY <2>3 DEF vars, history, IInv, Types, Ordering, Latches, Clocks, Waits,
                OperatorObeyed, SilenceIsReal
  <2> QED
    BY <2>1, <2>2, <2>3 DEF Next
<1> QED
  BY InitIInv, <1>1, <1>2, PTL DEF Spec

-----------------------------------------------------------------------------
\* A template the operator marked ignore or normal signals nothing, whatever
\* patterns match it and whatever the configuration says of it, over any
\* orders, evictions, Forgets and restarts.
THEOREM Obeyed == Spec => []OperatorObeyed
  BY Invariance, PTL

\* A template reported missing had no line for longer than configured, lateness
\* allowed for, and one silence is reported once; one that is expected back is
\* reported within a scan interval of lines that may signal; the statistics keep
\* their types and the table its bound.
THEOREM SilencesHold == Spec => []SilencesAreTold
<1>1. IInv /\ SilenceIsReal => SilencesAreTold
  <2> SUFFICES ASSUME IInv, SilenceIsReal PROVE SilencesAreTold
    OBVIOUS
  <2>1. TypeOK
    <3>1. /\ source.firstSeen \in Times /\ source.total \in 0..MaxLines
          /\ source.lastScan \in Times \cup {Never}
      BY Constants DEF IInv, Types
    <3>2. \A t \in DOMAIN source.stats :
            LET s == source.stats[t] IN
            /\ s.count \in 1..source.total /\ s.samples < s.count
            /\ s.lastSeen \in Times /\ s.mean \in Times
            /\ s.bucketStart \in Times /\ s.bucketCount \in 1..s.count
      BY DEF IInv, Types, Table, Sound, Statistics
    <3> QED
      BY <3>1, <3>2 DEF TypeOK, IInv, Types, Table
  <2>2. SilenceNoticed
    BY DEF IInv, Waits, SilenceNoticed
  <2> QED
    BY <2>1, <2>2 DEF SilencesAreTold
<1> QED
  BY <1>1, Invariance, PTL
=============================================================================

----------------------------- MODULE Correlator -----------------------------
(***************************************************************************)
(* The correlator of internal/core/correlate and the analysis stage that   *)
(* drives it: per-source windows that aggregate signals into one event, the *)
(* echo of a change that folds the signals of the other sources, and the   *)
(* flushes that emit what expired.                                         *)
(*                                                                         *)
(* Observe, Add and Flush each hold the mutex, and are one action each; a   *)
(* worker calls them in turn for an observation, so that other workers and *)
(* the ticking flusher come in between.  An observation is its rank in its *)
(* source, its time and whether it declares a change; a signal keeps its   *)
(* key, score (in percent), modality and whether a person asked for it.    *)
(***************************************************************************)
EXTENDS Integers, Sequences, FiniteSets, Functions, Ring

CONSTANTS
    Sources,        \* normalized sources
    Signals,        \* signals a detector may return
    Window, ContextBefore, ContextAfter, ChangeHorizon, EchoWindow,
    MaxTrackedChanges,
    Clocks,         \* the clocks configured: "wall", "event" or either
    MaxTime,        \* bound: clock readings and timestamps
    MaxLag,         \* bound: how late behind the watermark an observation is
    MaxObs,         \* bound: per clock, observations of each source
    MaxSignals      \* bound: signals of one observation

ASSUME CorrelatorAssumption ==
    /\ Clocks \subseteq {"wall", "event"}
    /\ \A sig \in Signals : sig.score \in 0..100 /\ sig.asked \in BOOLEAN
    /\ {Window, ContextBefore, ContextAfter, ChangeHorizon, EchoWindow,
        MaxTrackedChanges, MaxTime, MaxLag, MaxSignals} \subseteq Nat
    /\ \A c \in Clocks : MaxObs[c] \in [Sources -> Nat]

VARIABLES
    clock,       \* the clock windows are measured on, as configured
    now,         \* the wall clock
    watermark,   \* the latest timestamp observed
    ring,        \* per source: the "before" ring
    changes,     \* per source: timestamps of the changes still tracked
    pending,     \* source -> its pending event
    echoes,      \* source that declared a change -> its echo
    stage,       \* per source, where its worker is: "idle", "detect", "flush"
    obs,         \* per source: the observation being processed
    stopped,     \* the final flush is done
    declared,    \* history: timestamps of every change of each source
    readings,    \* history: per source, what the clock read when its pending event
                 \* was given signals
    added,       \* history: signals given to Add
    reported,    \* history: signal instances in the events emitted
    out          \* the events the last step emitted

state == <<clock, now, watermark, ring, changes, pending, echoes>>
vars  == <<state, stage, obs, stopped, declared, readings, added, reported, out>>

Time == 0..MaxTime

\* Timestamps an observation may carry: a live stream does not run ahead of the
\* wall clock, a replay does not look at it.
Stamps == {at \in Time : at >= watermark - MaxLag
                         /\ (clock = "wall" => at <= now)}

Init ==
    /\ clock \in Clocks
    /\ now = 0 /\ watermark = 0
    /\ ring = [s \in Sources |-> NewRing(ContextBefore, 0)]
    /\ changes = [s \in Sources |-> <<>>]
    /\ pending = <<>> /\ echoes = <<>>
    /\ stage = [s \in Sources |-> "idle"]
    /\ obs = [s \in Sources |-> [n |-> 0, at |-> 0, change |-> FALSE]]
    /\ stopped = FALSE
    /\ declared = [s \in Sources |-> {}]
    /\ readings = [s \in Sources |-> <<>>]
    /\ added = 0 /\ reported = 0 /\ out = {}

\* A map once k is assigned v, and once the keys in ks are deleted.
With(f, k, v) == [x \in DOMAIN f \cup {k} |-> IF x = k THEN v ELSE f[x]]
Without(f, ks) == [x \in DOMAIN f \ ks |-> f[x]]

-----------------------------------------------------------------------------
(* Observe *)

\* pruneChanges: the leading changes out of the horizon, then the excess.
Prune(tracked, mark) ==
    LET kept == {i \in DOMAIN tracked :
                   \E j \in 1..i : mark - tracked[j] <= ChangeHorizon}
        recent == SubSeq(tracked, Len(tracked) - Cardinality(kept) + 1,
                         Len(tracked))
    IN SubSeq(recent, Greatest(0, Len(recent) - MaxTrackedChanges) + 1,
              Len(recent))

\* Mutant: a second change starts the echo afresh.
OpenEchoAfresh(s, at) ==
    IF EchoWindow = 0 THEN echoes
    ELSE With(echoes, s, [signals |-> <<>>, firstSignalAt |-> -1, changes |-> <<at>>,
                          lastChangeAt |-> at, lastReceivedAt |-> now])

\* openEcho: the change at time at opens the echo of source s, or extends it.
OpenEcho(s, at) ==
    IF EchoWindow = 0 THEN echoes
    ELSE LET echo == IF s \in DOMAIN echoes THEN echoes[s]
                     ELSE [signals |-> <<>>, changes |-> <<>>,
                           firstSignalAt |-> -1]
             all == Append(echo.changes, at)
         IN With(echoes, s,
                 [signals |-> echo.signals,
                  firstSignalAt |-> echo.firstSignalAt,
                  changes |-> SubSeq(all,
                      Greatest(0, Len(all) - MaxTrackedChanges) + 1, Len(all)),
                  lastChangeAt |-> at, lastReceivedAt |-> now])

Observe(s, at, isChange) ==
    /\ ~stopped /\ stage[s] = "idle" /\ obs[s].n < MaxObs[clock][s]
    /\ LET n == obs[s].n + 1 IN
       /\ obs' = [obs EXCEPT ![s] = [n |-> n, at |-> at, change |-> isChange]]
       /\ ring' = [ring EXCEPT ![s] = RingAdd(@, n)]
       /\ pending' =
            IF s \in DOMAIN pending /\ Len(pending[s].after) < ContextAfter
            THEN [pending EXCEPT ![s].after = Append(@, n)]
            ELSE pending
    /\ watermark' = Greatest(watermark, at)
    /\ IF isChange
       THEN /\ changes' =
                 [changes EXCEPT ![s] = Prune(Append(@, at), watermark')]
            /\ echoes' = OpenEcho(s, at)
            /\ declared' = [declared EXCEPT ![s] = @ \cup {at}]
       ELSE UNCHANGED <<changes, echoes, declared>>
    /\ stage' = [stage EXCEPT ![s] = "detect"]
    /\ out' = {}
    /\ UNCHANGED <<clock, now, stopped, readings, added, reported>>

-----------------------------------------------------------------------------
(* Add *)

\* What the detectors may return for the observation of s: each answers only for its
\* own modality, so a change brings no signal, and the others those of one modality.
Detections(s) ==
    {signals \in UNION {[1..n -> Signals] : n \in 0..MaxSignals} :
        /\ signals # <<>> => ~obs[s].change
        /\ \A i, j \in DOMAIN signals : signals[i].modality = signals[j].modality}

\* The echoes a signal of s at time at may be folded in.
Covering(s, at) ==
    {c \in DOMAIN echoes \ {s} :
        at - echoes[c].lastChangeAt \in 0..EchoWindow}

\* echoFor: the latest of them, unless s has changes of its own.
EchoFor(s, at, own) ==
    IF EchoWindow = 0 \/ own # <<>> THEN {}
    ELSE {c \in Covering(s, at) :
            \A d \in Covering(s, at) :
                echoes[d].lastChangeAt <= echoes[c].lastChangeAt}

\* merge: the strongest instance of each key, and how many there were.
Merge(aggregated, key, signal) ==
    IF key \in DOMAIN aggregated
    THEN [aggregated EXCEPT ![key] =
            [signal |-> IF signal.score > @.signal.score THEN signal
                        ELSE @.signal,
             count |-> @.count + 1]]
    ELSE With(aggregated, key, [signal |-> signal, count |-> 1])

\* merge of each of the signals of s whose asked is in kept: of all of them, or of
\* the share that Add splits off.
MergeAll(aggregated, s, signals, kept) ==
    LET merged[i \in 0..Len(signals)] ==
          IF i = 0 THEN aggregated
          ELSE IF signals[i].asked \in kept
          THEN Merge(merged[i - 1], <<s, signals[i].key>>, signals[i])
          ELSE merged[i - 1]
    IN merged[Len(signals)]

\* Some of the signals are in that share.
Some(signals, kept) == \E i \in DOMAIN signals : signals[i].asked \in kept

Fold(echo, s, at, signals) ==
    [echo EXCEPT
        !.firstSignalAt = IF @ = -1 \/ at < @ THEN at ELSE @,
        !.signals = MergeAll(@, s, signals, {FALSE})]

\* The pending event of s, opened if there is none, with its share merged in.
Opened(s, at, signals, kept) ==
    LET open == IF s \in DOMAIN pending THEN pending[s]
                ELSE [firstReceivedAt |-> now, firstSignalAt |-> at,
                      signals |-> <<>>, after |-> <<>>,
                      before |-> RingLast(ring[s], ContextBefore)]
    IN [open EXCEPT !.signals = MergeAll(@, s, signals, kept)]

\* What the clock configured reads at an observation of time at.
Reading(at) == IF clock = "event" THEN at ELSE now

Add(s, signals) ==
    /\ stage[s] = "detect"
    /\ LET at == obs[s].at
           tracked == IF signals # <<>> /\ echoes # <<>> /\ EchoWindow > 0
                      THEN Prune(changes[s], watermark) ELSE changes[s]
           own(fold) == IF fold = {} THEN BOOLEAN ELSE {TRUE}
           found == IF signals = <<>> THEN {} ELSE EchoFor(s, at, tracked)
       IN /\ changes' = [changes EXCEPT ![s] = tracked]
          /\ \E fold \in IF found = {} THEN {{}} ELSE {{c} : c \in found} :
               /\ echoes' =
                    [c \in DOMAIN echoes |->
                       IF c \in fold /\ Some(signals, {FALSE})
                       THEN Fold(echoes[c], s, at, signals) ELSE echoes[c]]
               /\ pending' = IF Some(signals, own(fold))
                             THEN With(pending, s, Opened(s, at, signals, own(fold)))
                             ELSE pending
               /\ readings' = IF Some(signals, own(fold))
                           THEN [readings EXCEPT ![s] =
                                   IF s \in DOMAIN pending THEN Append(@, Reading(at))
                                   ELSE <<Reading(at)>>]
                           ELSE readings
    /\ added' = added + Len(signals)
    /\ stage' = [stage EXCEPT ![s] = "flush"]
    /\ out' = {}
    /\ UNCHANGED <<clock, now, watermark, ring, obs, stopped, declared, reported>>

-----------------------------------------------------------------------------
(* Flush *)

\* Mutant: the window is measured on the watermark whatever the clock.
ExpiredOnWatermark(p) == watermark - p.firstSignalAt >= Window

Expired(p) ==
    IF clock = "event" THEN watermark - p.firstSignalAt >= Window
    ELSE now - p.firstReceivedAt >= Window

EchoExpired(echo) ==
    IF clock = "event" THEN watermark - echo.lastChangeAt >= EchoWindow
    ELSE now - echo.lastReceivedAt >= EchoWindow

\* combine: 1 - confidence, as a count of hundredths to the power of signals.
Doubt(aggregated) ==
    FoldFunction(LAMBDA a, doubt : doubt * (100 - Least(a.signal.score, 99)),
                 1, aggregated)
Scale(aggregated) == 100 ^ Cardinality(DOMAIN aggregated)
Below(aggregated, percent) ==   \* confidence < percent
    100 * Doubt(aggregated) > (100 - percent) * Scale(aggregated)

Instances(aggregated) == SumFunction([k \in DOMAIN aggregated |-> aggregated[k].count])

\* The instances in the events of a map.
Told(events) == SumFunction([e \in DOMAIN events |-> Instances(events[e].signals)])

Carries(aggregated, P(_)) == \E k \in DOMAIN aggregated : P(aggregated[k].signal)
Logged(aggregated)  == Carries(aggregated, LAMBDA sig : sig.modality = "log")
Measured(aggregated) == Carries(aggregated, LAMBDA sig : sig.modality = "metric")
Asked(aggregated)   == Carries(aggregated, LAMBDA sig : sig.asked)

SeverityOf(aggregated, multimodal, nearChange) ==
    IF Below(aggregated, 60) THEN "info"
    ELSE IF Below(aggregated, 85) THEN "warning"
    ELSE IF multimodal \/ (nearChange /\ Logged(aggregated)) \/ Asked(aggregated)
    THEN "critical"
    ELSE "warning"

\* relatedChanges
Related(s, p) == {c \in Range(changes[s]) :
                    c - p.firstSignalAt \in -ChangeHorizon .. Window}

Build(s) ==
    LET p == pending[s] IN
    [kind |-> "anomaly", source |-> s, at |-> p.firstSignalAt,
     signals |-> p.signals, changes |-> Related(s, p),
     severity |-> SeverityOf(p.signals,
                      Logged(p.signals) /\ Measured(p.signals),
                      Related(s, p) # {}),
     before |-> p.before, after |-> p.after]

BuildEcho(s) ==
    LET echo == echoes[s] IN
    [kind |-> "change_echo", source |-> s, at |-> echo.firstSignalAt,
     signals |-> echo.signals, changes |-> Range(echo.changes),
     severity |-> SeverityOf(echo.signals, FALSE, FALSE),
     before |-> <<>>, after |-> <<>>]

Flush(force) ==
    LET due == {s \in DOMAIN pending : force \/ Expired(pending[s])}
        over == {s \in DOMAIN echoes : force \/ EchoExpired(echoes[s])}
    IN /\ out' = {Build(s) : s \in due}
                 \cup {BuildEcho(s) : s \in {c \in over :
                                             echoes[c].signals # <<>>}}
       /\ pending' = Without(pending, due)
       /\ echoes' = Without(echoes, over)
       /\ reported' = reported + Told([e \in out' |-> e])
       /\ UNCHANGED <<clock, now, watermark, ring, changes, obs, declared, readings, added>>

\* The end of the analysis stage for an observation of s.
WorkerFlush(s) ==
    /\ stage[s] = "flush"
    /\ Flush(FALSE)
    /\ stage' = [stage EXCEPT ![s] = "idle"]
    /\ UNCHANGED stopped

\* The flusher of the engine.
TickFlush ==
    /\ ~stopped
    /\ Flush(FALSE)
    /\ UNCHANGED <<stage, stopped>>

\* The final flush, the workers having returned.
FinalFlush ==
    /\ ~stopped /\ \A s \in Sources : stage[s] = "idle"
    /\ Flush(TRUE)
    /\ stopped' = TRUE
    /\ UNCHANGED stage

Tick ==
    /\ ~stopped /\ clock = "wall" /\ now < MaxTime
    /\ now' = now + 1
    /\ out' = {}
    /\ UNCHANGED <<clock, watermark, ring, changes, pending, echoes, stage, obs,
                   stopped, declared, readings, added, reported>>

Next ==
    \/ \E s \in Sources :
         \/ \E at \in Stamps, isChange \in BOOLEAN : Observe(s, at, isChange)
         \/ \E signals \in Detections(s) : Add(s, signals)
         \/ WorkerFlush(s)
    \/ TickFlush \/ FinalFlush \/ Tick

Spec == Init /\ [][Next]_vars

-----------------------------------------------------------------------------
(* Properties *)

EventKinds == {"anomaly", "change_echo"}

TypeOK ==
    /\ clock \in Clocks /\ {now, watermark} \subseteq Time
    /\ DOMAIN pending \subseteq Sources /\ DOMAIN echoes \subseteq Sources
    /\ \A s \in Sources :
         /\ changes[s] \in Seq(Time) /\ Range(changes[s]) \subseteq declared[s]
         /\ Len(changes[s]) <= MaxTrackedChanges
         /\ stage[s] \in {"idle", "detect", "flush"}
         /\ obs[s] \in [n : 0..MaxObs[clock][s], at : Time, change : BOOLEAN]
    /\ \A s \in DOMAIN pending : DOMAIN pending[s].signals # {}
    /\ \A c \in DOMAIN echoes :
         echoes[c].firstSignalAt = -1 <=> echoes[c].signals = <<>>
    /\ stopped \in BOOLEAN /\ added \in Nat /\ reported \in Nat

\* Every signal given to Add is counted once, in an event already emitted, in a
\* pending one or in an echo: none is lost when it is folded, when its window
\* or its echo expires, or at the final flush, which leaves nothing behind (Add,
\* Flush, merge).
SignalsConserved ==
    /\ added = reported + Told(pending) + Told(echoes)
    /\ stopped => pending = <<>> /\ echoes = <<>>

\* The context of a pending event is one unbroken run of the observations of
\* its source: the latest ones when it opened, then every later one up to
\* ContextAfter (Observe before Add, window.Ring).
ContextSurrounds ==
    \A s \in DOMAIN pending :
        LET before == pending[s].before
            after  == pending[s].after
            run    == before \o after
        IN /\ \A i \in 1 .. Len(run) - 1 : run[i + 1] = run[i] + 1
           /\ before # <<>> => Len(before) = Least(ContextBefore, before[Len(before)])
           /\ run # <<>> /\ Len(after) < ContextAfter => run[Len(run)] = obs[s].n

\* Statistics alone never scream: a critical event carries a signal somebody
\* asked for, both modalities, or a log signal near a change its own source
\* declared; the echo of a change is never critical, nor holds what somebody
\* asked for or what the source itself produced (severityOf, buildEcho, Add).
CriticalIsCorroborated ==
    /\ \A e \in out : e.severity = "critical" =>
         /\ e.kind = "anomaly"
         /\ \/ Asked(e.signals)
            \/ Logged(e.signals) /\ Measured(e.signals)
            \/ Logged(e.signals) /\ \E t \in declared[e.source] :
                                     t - e.at \in -ChangeHorizon .. Window
    /\ \A c \in DOMAIN echoes :
         /\ ~Asked(echoes[c].signals)
         /\ \A k \in DOMAIN echoes[c].signals : k[1] # c

\* An event aggregates one window: on the clock configured, every observation that
\* gave it signals came within Window of the first, but for the last one.  Signals
\* are added before the flush that finds the window over, so that one observation
\* may overrun it, however long after; none may follow that one (Analysis.Process,
\* Flush, expired).
EventsKeepTheirWindow ==
    \A s \in DOMAIN pending :
        \A i \in 1 .. Len(readings[s]) - 1 :
            readings[s][i] - (IF clock = "event" THEN pending[s].firstSignalAt
                           ELSE pending[s].firstReceivedAt) < Window

\* What the comment of relatedChanges promises: it "surfaces the changes observed
\* shortly before the event (within the change horizon) or during its
\* correlation window" (correlator.go).
RelatedChangesComplete ==
    \A e \in out : e.kind = "anomaly" =>
        {t \in declared[e.source] : t - e.at \in -ChangeHorizon .. Window}
            \subseteq e.changes

\* The signals raised are the signals told, with the severity they deserve.
SignalsAreTold == TypeOK /\ SignalsConserved /\ CriticalIsCorroborated
=============================================================================

------------------------------ MODULE Dampener ------------------------------
(***************************************************************************)
(* The dampener of internal/core/dampen: which repeats of a pattern are     *)
(* reported, how its silence is stretched, and which patterns are forgotten *)
(* when too many are tracked.                                              *)
(*                                                                         *)
(* Filter judges the signals one by one with the mutex held, so a signal   *)
(* judged is one step.  A pattern is what Key names; scores are in tenths. *)
(***************************************************************************)
EXTENDS Integers, FiniteSets, Functions

CONSTANTS
    Patterns, Scores,
    Cooldown, MaxCooldown, Escalation, MaxTracked,
    MaxTime,    \* bound: timestamps
    MaxLag,     \* bound: how late behind the latest timestamp a signal is
    MaxSeen     \* bound: signals judged

DampenerAssumption ==
    /\ Scores \subseteq Nat
    /\ Cooldown \in Nat \ {0} /\ MaxCooldown \in Nat /\ Cooldown <= MaxCooldown
    /\ Escalation \in Nat \ {0} /\ MaxTracked \in Nat \ {0}
    /\ MaxTime \in Nat /\ MaxLag \in Nat /\ MaxSeen \in Nat

VARIABLES
    patterns,   \* pattern -> what is remembered of it
    latest,     \* history: the latest timestamp seen
    seen,       \* history: signals judged
    since,      \* history: per pattern, the report its streak began with
    evicted,    \* history: per pattern, how many times it was forgotten
    reports,    \* history: per pattern, how many times it was reported
    verdict     \* the last signal judged

vars == <<patterns, latest, seen, since, evicted, reports, verdict>>

Times == 0..MaxTime

Init ==
    /\ patterns = <<>>
    /\ latest = 0 /\ seen = 0
    /\ since = [p \in Patterns |-> 0]
    /\ evicted = [p \in Patterns |-> 0]
    /\ reports = [p \in Patterns |-> 0]
    /\ verdict = [reported |-> TRUE]

\* silence: the cooldown doubled once per report of the streak, capped.
Silence(streak) ==
    LET required[n \in 0..streak] ==
          IF n = 0 THEN Cooldown
          ELSE IF 2 * required[n - 1] >= MaxCooldown THEN MaxCooldown
          ELSE 2 * required[n - 1]
    IN required[streak]

\* makeRoom: the least recently seen patterns, a tenth of them and one more.
Evictions ==
    IF Cardinality(DOMAIN patterns) < MaxTracked THEN {{}}
    ELSE {ps \in SUBSET DOMAIN patterns :
            /\ Cardinality(ps) = Cardinality(DOMAIN patterns) \div 10 + 1
            /\ \A p \in ps, q \in DOMAIN patterns \ ps :
                 patterns[p].lastSeen <= patterns[q].lastSeen}

Judged(p, at, score, reported) ==
    /\ verdict' = [pattern |-> p, at |-> at, score |-> score,
                   reported |-> reported]
    /\ latest' = IF at > latest THEN at ELSE latest
    /\ seen' = seen + 1
    /\ reports' = IF reported THEN [reports EXCEPT ![p] = @ + 1] ELSE reports

\* A pattern nothing is remembered of.
AdmitNew(p, at, score) ==
    /\ p \notin DOMAIN patterns
    /\ \E ps \in Evictions :
         /\ patterns' =
              [q \in (DOMAIN patterns \ ps) \cup {p} |->
                 IF q = p
                 THEN [reportedAt |-> at, lastSeen |-> at, maxScore |-> score,
                       suppressed |-> 0, streak |-> 0]
                 ELSE patterns[q]]
         /\ evicted' = [q \in Patterns |-> evicted[q] + (IF q \in ps THEN 1 ELSE 0)]
    /\ since' = [since EXCEPT ![p] = at]
    /\ Judged(p, at, score, TRUE)

\* It stopped for longer than its own silence: news again.
Returning(p, at) ==
    at - patterns[p].lastSeen > Silence(patterns[p].streak)
Streak(p, at) == IF Returning(p, at) THEN 0 ELSE patterns[p].streak

Escalates(p, score) == score >= patterns[p].maxScore + Escalation

\* Mutant: the quiet is measured from the last occurrence, reported or not.
QuietSinceSeen(p, at) ==
    at - patterns[p].lastSeen >= Silence(Streak(p, at))

\* Mutant: a repeat speaks up after the base cooldown.
QuietAtCooldown(p, at) == at - patterns[p].reportedAt >= Cooldown

Quiet(p, at) == at - patterns[p].reportedAt >= Silence(Streak(p, at))

AdmitRepeat(p, at, score, streak) ==
    /\ patterns' = [patterns EXCEPT ![p] =
          [reportedAt |-> at, lastSeen |-> at, maxScore |-> score,
           suppressed |-> 0, streak |-> streak]]
    /\ since' = [since EXCEPT ![p] = IF streak = 0 THEN at ELSE @]
    /\ UNCHANGED evicted
    /\ Judged(p, at, score, TRUE)

Suppress(p, at, score) ==
    /\ patterns' = [patterns EXCEPT ![p].lastSeen = at,
                                    ![p].streak = Streak(p, at),
                                    ![p].suppressed = @ + 1]
    /\ since' = IF Streak(p, at) = patterns[p].streak THEN since
                ELSE [since EXCEPT ![p] = patterns[p].reportedAt]
    /\ UNCHANGED evicted
    /\ Judged(p, at, score, FALSE)

\* admit
Admit(p, at, score) ==
    \/ AdmitNew(p, at, score)
    \/ /\ p \in DOMAIN patterns
       /\ \/ Escalates(p, score) /\ AdmitRepeat(p, at, score, 0)
          \/ /\ ~Escalates(p, score) /\ Quiet(p, at)
             /\ AdmitRepeat(p, at, score,
                    Streak(p, at) + (IF Returning(p, at) THEN 0 ELSE 1))
          \/ /\ ~Escalates(p, score) /\ ~Quiet(p, at)
             /\ Suppress(p, at, score)

Next == \E p \in Patterns, at \in Times, score \in Scores :
            /\ seen < MaxSeen /\ at >= latest - MaxLag
            /\ Admit(p, at, score)

Spec == Init /\ [][Next]_vars

-----------------------------------------------------------------------------
(* Properties *)

TypeOK ==
    /\ DOMAIN patterns \subseteq Patterns
    /\ Cardinality(DOMAIN patterns) <= MaxTracked
    /\ \A p \in DOMAIN patterns :
         /\ patterns[p] \in [reportedAt : Times, lastSeen : Times,
                             maxScore : Scores, suppressed : 0..MaxSeen,
                             streak : 0..MaxSeen]
    /\ latest \in Times /\ seen \in 0..MaxSeen
    /\ since \in [Patterns -> Times]
    /\ evicted \in [Patterns -> 0..MaxSeen] /\ reports \in [Patterns -> 0..MaxSeen]

\* The dampener implements the promise of Limiter: what it remembers of a
\* pattern is when and how strongly it was last reported.  It "never silences a
\* pattern for good" (package comment), and it stays silent at least for the
\* base cooldown.
Promise == INSTANCE Limiter WITH
    last <- [p \in DOMAIN patterns |->
               [at |-> patterns[p].reportedAt, score |-> patterns[p].maxScore]]
KeepsPromise == Promise!Spec

\* However long its streak, a pattern is not silent for longer than the
\* configured maximum: any repeat that far from its last report is reported.
SilenceBounded ==
    \A p \in DOMAIN patterns :
        /\ Silence(patterns[p].streak) \in Cooldown..MaxCooldown
        /\ patterns[p].lastSeen - patterns[p].reportedAt < MaxCooldown

\* What a streak of n repeats cost the reader: they took at least the sum of n
\* silences, each twice the one before up to the maximum, so "a pattern that
\* keeps saying the same thing says it a handful of times a day"
\* (DefaultCooldown).
StreakTakesItsTime ==
    \A p \in DOMAIN patterns :
        patterns[p].reportedAt - since[p]
            >= SumFunction([i \in 0 .. patterns[p].streak - 1 |-> Silence(i)])

\* A silence is within its bounds, and as long as the streak deserves.
SilencesFit == TypeOK /\ SilenceBounded /\ StreakTakesItsTime
=============================================================================

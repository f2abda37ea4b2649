------------------------------- MODULE Limiter -------------------------------
(***************************************************************************)
(* What the dampener promises of each pattern, whatever it remembers to    *)
(* keep it: a repeat is reported only when it got worse or the base        *)
(* cooldown passed, and held back only while the longest cooldown has not. *)
(***************************************************************************)
EXTENDS Integers

CONSTANTS Patterns, Times, Scores, Cooldown, MaxCooldown, Escalation

VARIABLES
    last,     \* pattern -> when and how strongly it was last reported
    verdict   \* the last signal judged, and whether it was reported

Init == last = <<>> /\ verdict = [reported |-> TRUE]

Judged(p, at, score, reported) ==
    verdict' = [pattern |-> p, at |-> at, score |-> score,
                reported |-> reported]

\* The first report of p may follow the forgetting of other patterns.
Report(p, at, score) ==
    /\ p \in DOMAIN last =>
         \/ score >= last[p].score + Escalation
         \/ at - last[p].at >= Cooldown
    /\ \E kept \in SUBSET DOMAIN last :
         /\ p \in DOMAIN last => kept = DOMAIN last
         /\ last' = [q \in kept \cup {p} |->
                       IF q = p THEN [at |-> at, score |-> score] ELSE last[q]]
    /\ Judged(p, at, score, TRUE)

HoldBack(p, at, score) ==
    /\ p \in DOMAIN last
    /\ score < last[p].score + Escalation
    /\ at - last[p].at < MaxCooldown
    /\ UNCHANGED last
    /\ Judged(p, at, score, FALSE)

Next == \E p \in Patterns, at \in Times, score \in Scores :
            Report(p, at, score) \/ HoldBack(p, at, score)

Step == [Next]_<<last, verdict>>

Spec == Init /\ [][Next]_<<last, verdict>>
==============================================================================

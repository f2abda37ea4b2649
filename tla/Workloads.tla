------------------------------ MODULE Workloads ------------------------------
(***************************************************************************)
(* The change watcher of the kubernetes plugin on one workload collection: *)
(* which writes to the specification of a workload it tells as changes.    *)
(* A workload is its generation, bumped by every write to its              *)
(* specification, with what the classification compares.                   *)
(***************************************************************************)
EXTENDS ListWatch

VARIABLES
    state,   \* the last snapshot of each known workload
    seeded,  \* the first list was the baseline
    told,    \* history: object -> the changes emitted, [type, from, to]
    baseline \* history: object -> its generation in the first list, else 0

changes == <<state, seeded, told, baseline>>
workloads == <<listwatch, changes>>

Init ==
    /\ LWInit /\ state = <<>> /\ seeded = FALSE
    /\ told = [o \in Objects |-> <<>>] /\ baseline = [o \in Objects |-> 0]

Known(o) == o \in DOMAIN state

\* What a generation bump was about: the first of several wins.
Classify(prev, next) ==
    CASE next.image /= prev.image -> "deployment"
      [] next.image = prev.image /\ next.restarted /= prev.restarted -> "restart"
      [] next.image = prev.image /\ next.restarted = prev.restarted
         /\ next.replicas /= prev.replicas -> "scale"
      [] OTHER -> "config"

\* observe: the change it emits of a workload, none when the generation did
\* not move or when the workload belongs to the baseline.
Change(o, next, seed) ==
    IF ~Known(o)
    THEN IF seed THEN <<>>
         ELSE <<[type |-> "deployment", from |-> 0, to |-> next.generation]>>
    ELSE IF next.generation = state[o].generation THEN <<>>
    ELSE <<[type |-> Classify(state[o], next),
            from |-> state[o].generation, to |-> next.generation]>>

\* Mutant: every list is a baseline.
SeedingAlways == TRUE
Seeding == ~seeded

\* The callback of a list: every workload is observed, the gone are dropped.
OnList ==
    LET present == {o \in Objects : cluster[o] /= Absent} IN
    /\ List
    /\ state' = [o \in present |-> cluster[o]]
    /\ told' = [o \in Objects |->
                  IF o \in present THEN told[o] \o Change(o, cluster[o], Seeding)
                  ELSE told[o]]
    /\ seeded' = TRUE
    /\ baseline' = IF seeded THEN baseline
                   ELSE [o \in Objects |-> IF o \in present THEN cluster[o].generation
                                           ELSE 0]

\* The callback of a frame.
OnEvent ==
    LET o == Frame.object
        next == Frame.value IN
    /\ Watch
    /\ IF next = Absent
       THEN /\ state' = [k \in DOMAIN state \ {o} |-> state[k]]
            /\ UNCHANGED told
       ELSE /\ state' = [k \in DOMAIN state \cup {o} |-> IF k = o THEN next ELSE state[k]]
            /\ told' = [told EXCEPT ![o] = @ \o Change(o, next, FALSE)]
    /\ UNCHANGED <<seeded, baseline>>

Writing == \E o \in Objects : \E v \in Writes(cluster[o]) : Write(o, v)

Next ==
    \/ (Writing \/ Breaks) /\ UNCHANGED changes
    \/ OnList \/ OnEvent

Spec == Init /\ [][Next]_workloads

----------------------------------------------------------------------------
\* Where the first n changes told of a workload lead from its baseline.
ToldUpTo(o, n) == IF n = 0 THEN baseline[o] ELSE told[o][n].to

\* The changes told of a workload are a chain without hole or repetition,
\* whatever lists and frames were lost between them: the first starts at the
\* baseline, or at nothing, each of the others at the generation the one
\* before it led to, and the last led to the generation the watcher knows;
\* once it has read every frame, that is the generation of the cluster.
ChangesChain ==
    /\ \A o \in Objects : \A i \in DOMAIN told[o] :
         /\ told[o][i].from < told[o][i].to
         /\ told[o][i].from = ToldUpTo(o, i - 1)
    /\ \A o \in Objects : Known(o) => ToldUpTo(o, Len(told[o])) = state[o].generation
    /\ lw.at = "watch" /\ lw.seen = Len(log) =>
         \A o \in Objects :
           IF cluster[o] = Absent THEN ~Known(o)
           ELSE Known(o) /\ state[o].generation = cluster[o].generation
=============================================================================

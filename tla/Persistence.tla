----------------------------- MODULE Persistence -----------------------------
(***************************************************************************)
(* What a server remembers from one life to the next: the learning of the   *)
(* template miner and of the log detector, the state manager that saves one *)
(* after the other while a worker goes on learning, the store that replaces *)
(* a file atomically, and Runtime.Run, which restores before the engine     *)
(* starts and saves a last time once it is done.                           *)
(*                                                                         *)
(* One source, so one worker; a line is its template.  The metric detector, *)
(* saved third, shares nothing with the two and is left out.  No template   *)
(* is evicted.  A crash may come between any two steps.                    *)
(***************************************************************************)
EXTENDS Integers, Sequences, FiniteSets

CONSTANTS
    Templates,
    MaxLines,      \* bound: lines processed in all
    MaxLives       \* bound: times the server is started

PersistenceAssumption == MaxLines \in Nat /\ MaxLives \in Nat

\* The snapshotters, in the order Runtime.build registers them.
Keys == <<"drain", "detect-log">>
NotFound == <<>>

VARIABLES
    life,      \* "down", "restoring", "running", "stopping", "stopped", "failed"
    lives,     \* history: times the server was started
    miner,     \* the clusters: their counter and template -> ID
    detector,  \* per ID the template last seen with it and those counted
               \* under it, and whether the learning period is over
    line,      \* what the worker is between mining and detecting, or <<>>
    lines,     \* history: lines processed
    at,        \* key being restored or saved, 0 when the manager waits
    final,     \* the manager is in its last SaveAll
    snapshot,  \* the snapshot it is about to save, or <<>>
    disk,      \* key -> the file of the store: <<>>, or its content
    started,   \* history: the miner when the SaveAll under way began
    secured,   \* history: the miner when the last complete SaveAll began
    alerts,    \* history: template -> how many times it was reported as new
    unclean    \* history: some life ended in a crash or a failed save

vars == <<life, lives, miner, detector, line, lines, at, final, snapshot,
          disk, started, secured, alerts, unclean>>

memory == <<miner, detector, line>>
saving == <<at, final, snapshot>>
past   == <<lives, started, secured>>

NoMiner == [counter |-> 0, ids |-> <<>>]
NoDetector == [stats |-> <<>>, over |-> FALSE]

Init ==
    /\ life = "down" /\ lives = 0
    /\ miner = NoMiner /\ detector = NoDetector /\ line = <<>> /\ lines = 0
    /\ at = 0 /\ final = FALSE /\ snapshot = <<>>
    /\ disk = [k \in {"drain", "detect-log"} |-> NotFound]
    /\ started = NoMiner /\ secured = NoMiner
    /\ alerts = [t \in Templates |-> 0] /\ unclean = FALSE

\* A map once k is assigned v.
With(f, k, v) == [x \in DOMAIN f \cup {k} |-> IF x = k THEN v ELSE f[x]]

-----------------------------------------------------------------------------
(* Starting and stopping *)

\* A new process: nothing learned, RestoreAll first.
Start ==
    /\ life \in {"down", "stopped", "failed"} /\ lives < MaxLives
    /\ life' = "restoring" /\ lives' = lives + 1
    /\ miner' = NoMiner /\ detector' = NoDetector /\ line' = <<>>
    /\ at' = 1 /\ final' = FALSE /\ snapshot' = <<>>
    /\ UNCHANGED <<lines, disk, started, secured, alerts, unclean>>

\* Mutant: the miner is not told its counter.
RestoreCounterless ==
    /\ life = "restoring"
    /\ IF disk[Keys[at]] = NotFound THEN UNCHANGED <<miner, detector>>
       ELSE IF Keys[at] = "drain"
       THEN miner' = [disk["drain"][1] EXCEPT !.counter = 0] /\ UNCHANGED detector
       ELSE detector' = disk["detect-log"][1] /\ UNCHANGED miner
    /\ IF at < Len(Keys) THEN at' = at + 1 /\ UNCHANGED life
                         ELSE at' = 0 /\ life' = "running"
    /\ UNCHANGED <<line, lines, final, snapshot, disk, past, alerts, unclean>>

\* RestoreAll, one key: what is missing starts fresh; then the engine starts.
Restore ==
    /\ life = "restoring"
    /\ IF disk[Keys[at]] = NotFound THEN UNCHANGED <<miner, detector>>
       ELSE IF Keys[at] = "drain"
       THEN miner' = disk["drain"][1] /\ UNCHANGED detector
       ELSE detector' = disk["detect-log"][1] /\ UNCHANGED miner
    /\ IF at < Len(Keys) THEN at' = at + 1 /\ UNCHANGED life
                         ELSE at' = 0 /\ life' = "running"
    /\ UNCHANGED <<line, lines, final, snapshot, disk, past, alerts, unclean>>

\* A file that cannot be read ends the run before anything is saved.
RestoreFail ==
    /\ life = "restoring"
    /\ life' = "failed" /\ at' = 0
    /\ UNCHANGED <<memory, lines, final, snapshot, disk, past, alerts, unclean>>

\* The engine returns, its worker done; that stops the manager.
EngineReturn ==
    /\ life = "running" /\ line = <<>>
    /\ life' = "stopping"
    /\ UNCHANGED <<memory, lines, saving, disk, past, alerts, unclean>>

Crash ==
    /\ life \in {"restoring", "running", "stopping"}
    /\ life' = "down" /\ unclean' = TRUE
    /\ miner' = NoMiner /\ detector' = NoDetector /\ line' = <<>>
    /\ at' = 0 /\ final' = FALSE /\ snapshot' = <<>>
    /\ UNCHANGED <<lines, disk, past, alerts>>

-----------------------------------------------------------------------------
(* Learning *)

\* TemplateMining: the cluster of the line, or a new one with the next ID.
Mine ==
    /\ life = "running" /\ line = <<>> /\ lines < MaxLines
    /\ lines' = lines + 1
    /\ \E t \in Templates :
         IF t \in DOMAIN miner.ids
         THEN /\ line' = <<[template |-> t, id |-> miner.ids[t], created |-> FALSE]>>
              /\ UNCHANGED miner
         ELSE /\ miner' = [counter |-> miner.counter + 1,
                           ids |-> With(miner.ids, t, miner.counter + 1)]
              /\ line' = <<[template |-> t, id |-> miner.counter + 1,
                            created |-> TRUE]>>
    /\ UNCHANGED <<life, detector, saving, disk, past, alerts, unclean>>

\* LogDetector.Detect: the statistics of the ID, and the alert on a new template.
Detect ==
    /\ line # <<>> /\ life \in {"running", "stopping"}
    /\ LET l == line[1]
           known == IF l.id \in DOMAIN detector.stats
                    THEN detector.stats[l.id].counted ELSE {}
       IN  /\ detector' = [detector EXCEPT !.stats =
                With(@, l.id, [template |-> l.template,
                               counted |-> known \cup {l.template}])]
           /\ alerts' = IF l.created /\ detector.over
                        THEN [alerts EXCEPT ![l.template] = @ + 1] ELSE alerts
    /\ line' = <<>>
    /\ UNCHANGED <<life, miner, lines, saving, disk, past, unclean>>

\* The learning period of the source passes.
LearningEnds ==
    /\ life = "running" /\ detector.stats # <<>> /\ ~detector.over
    /\ detector' = [detector EXCEPT !.over = TRUE]
    /\ UNCHANGED <<life, miner, line, lines, saving, disk, past, alerts, unclean>>

-----------------------------------------------------------------------------
(* Saving *)

\* SaveAll, at a tick or a last time.
SaveAll ==
    /\ at = 0 /\ life \in {"running", "stopping"} /\ ~final
    /\ at' = 1 /\ snapshot' = <<>>
    /\ final' = (life = "stopping")
    /\ started' = miner
    /\ UNCHANGED <<life, lives, memory, lines, disk, secured, alerts, unclean>>

Snapshot ==
    /\ at # 0 /\ life \in {"running", "stopping"} /\ snapshot = <<>>
    /\ snapshot' = <<IF Keys[at] = "drain" THEN miner ELSE detector>>
    /\ UNCHANGED <<life, memory, lines, at, final, disk, past, alerts, unclean>>

\* The last key is saved: the manager waits again, or returns.
Saved ==
    /\ at' = 0
    /\ secured' = started
    /\ life' = IF final THEN "stopped" ELSE life

\* StateStore.Save, up to the rename that replaces the file.
Save ==
    /\ snapshot # <<>>
    /\ disk' = [disk EXCEPT ![Keys[at]] = snapshot]
    /\ snapshot' = <<>>
    /\ IF at = Len(Keys) THEN Saved
       ELSE at' = at + 1 /\ UNCHANGED <<secured, life>>
    /\ UNCHANGED <<memory, lines, final, lives, started, alerts, unclean>>

\* It fails before the rename: the rest is not saved; the last time, Run fails.
SaveFail ==
    /\ snapshot # <<>>
    /\ snapshot' = <<>> /\ at' = 0
    /\ life' = IF final THEN "failed" ELSE life
    /\ unclean' = (unclean \/ final)
    /\ UNCHANGED <<memory, lines, final, disk, past, alerts>>

Next ==
    \/ Start \/ Restore \/ RestoreFail \/ EngineReturn \/ Crash
    \/ Mine \/ Detect \/ LearningEnds
    \/ SaveAll \/ Snapshot \/ Save \/ SaveFail

Spec == Init /\ [][Next]_vars

-----------------------------------------------------------------------------
(* Properties *)

Miners == {NoMiner} \cup
    [counter : 0..MaxLines,
     ids : UNION {[ts -> 1..MaxLines] : ts \in SUBSET Templates}]

\* Types, and clusters told apart by their ID in memory and on disk.
IDsUnique(m) ==
    \A t, u \in DOMAIN m.ids : m.ids[t] <= m.counter /\ (m.ids[t] = m.ids[u] => t = u)

TypeOK ==
    /\ IDsUnique(miner) /\ (disk["drain"] # NotFound => IDsUnique(disk["drain"][1]))
    /\ life \in {"down", "restoring", "running", "stopping", "stopped", "failed"}
    /\ lives \in 0..MaxLives /\ lines \in 0..MaxLines
    /\ miner \in Miners /\ started \in Miners /\ secured \in Miners
    /\ disk["drain"] # NotFound => disk["drain"][1] \in Miners
    /\ detector.over \in BOOLEAN /\ DOMAIN detector.stats \subseteq 1..MaxLines
    /\ at \in 0..Len(Keys) /\ final \in BOOLEAN /\ unclean \in BOOLEAN
    /\ alerts \in [Templates -> 0..MaxLines]

\* "saves one final time so no learning is lost at shutdown" (Manager.Run): a
\* run that ends without error has on disk exactly what was in memory.
NothingLostAtShutdown ==
    life = "stopped" =>
        line = <<>> /\ disk["drain"] = <<miner>> /\ disk["detect-log"] = <<detector>>

\* A crash, or a save that fails, costs what was learned since the last complete
\* SaveAll began and nothing before.
CrashLosesOneInterval ==
    /\ secured # NoMiner => disk["drain"] # NotFound
    /\ disk["drain"] # NotFound =>
         \A t \in DOMAIN secured.ids :
             /\ t \in DOMAIN disk["drain"][1].ids
             /\ disk["drain"][1].ids[t] = secured.ids[t]

\* Through restarts that end cleanly, a template is reported as new once.
NewOnlyOnce == ~unclean => \A t \in Templates : alerts[t] <= 1

\* Through restarts that end cleanly, the statistics of an ID are those of one
\* template.
OneTemplatePerID ==
    ~unclean => \A id \in DOMAIN detector.stats :
                    Cardinality(detector.stats[id].counted) = 1

\* The same claims for every restart (README: a restart does not raise a volley
\* of false alerts on templates already known): a template whose statistics the
\* store holds is not reported as new.
Known == {detector.stats[id].template : id \in DOMAIN detector.stats}
KnownStaysKnown ==
    \A l \in {line[i] : i \in DOMAIN line} :
        l.created /\ detector.over => l.template \notin Known

\* What a restart finds: everything after a stop, all but an interval after a
\* crash.
MemorySurvives == TypeOK /\ NothingLostAtShutdown /\ CrashLosesOneInterval

\* Through clean restarts a template is news once, under an ID of its own.
NewsIsNew == NewOnlyOnce /\ OneTemplatePerID

\* What was learnt outlives the process.
MemoryServes == MemorySurvives /\ NewsIsNew
==============================================================================

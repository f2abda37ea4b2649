-------------------------- MODULE PersistenceProofs --------------------------
(***************************************************************************)
(* Proofs about what the system remembers: the state of the server, for    *)
(* any set of templates and any number of lines and lives; its event log;  *)
(* the statistics of its metrics; how far the logs of the pods were read;  *)
(* what the live view remembers of the events; the previous readings of    *)
(* the containers.                                                         *)
(*                                                                         *)
(* MemoryServes speaks of the memory while the server runs and of the store *)
(* when it does not.  The inductive invariant follows what was learnt from  *)
(* one to the other: the miner the store holds (Stored), the one read for a *)
(* save under way, the one in memory, each an extension of the former       *)
(* (Chain); the pair read back is the pair that was left (AtRest), unless a *)
(* life ended badly.                                                       *)
(*                                                                         *)
(* QueryFindsRetained counts what torn writes cost.  The inductive         *)
(* invariant counts for them, besides the events lost, the lines that      *)
(* dangle and the events of the batch under way that were swallowed        *)
(* (Spared); it keeps each event in the segment of a day it cannot be      *)
(* older than, with one date wherever it was written (OnDisk).             *)
(*                                                                         *)
(* DeviationsAreTold is proved with what is remembered of each series       *)
(* (Measured), TailsAreWhole with one follower a pod (Stamped) and what a   *)
(* follower has shipped since its first line (Filed), FeedIsWhole with what *)
(* is shown and what the stream still has to send (Follows), the shares of  *)
(* the containers with what each used since its previous reading (Moved).   *)
(***************************************************************************)
EXTENDS MCParts, Sums

\* What the store would give back to a new process.
Stored == IF disk["drain"] = NotFound THEN NoMiner ELSE disk["drain"][1]
StoredDetector ==
    IF disk["detect-log"] = NotFound THEN NoDetector ELSE disk["detect-log"][1]

Up == life \in {"running", "stopping"}

\* Two miners, of which the second knows what the first knew.
Precedes(a, b) ==
    \A t \in DOMAIN a.ids : t \in DOMAIN b.ids /\ b.ids[t] = a.ids[t]

\* Statistics of no ID but those the miner gave, of the template it gave it to.
Agree(m, d) ==
    \A id \in DOMAIN d.stats : \E t \in DOMAIN m.ids :
        m.ids[t] = id /\ d.stats[id].counted = {t}

Learnt(m, n) == m \in Miners /\ IDsUnique(m) /\ m.counter <= n
Counting(d) ==
    /\ DOMAIN d = {"stats", "over"} /\ d = [stats |-> d.stats, over |-> d.over]
    /\ d.over \in BOOLEAN /\ DOMAIN d.stats \subseteq 1..MaxLines

\* Types: the counters and flags, the memory, the files, the line in hand, the news.
Flags ==
    /\ life \in {"down", "restoring", "running", "stopping", "stopped", "failed"}
    /\ lives \in 0..MaxLives /\ lines \in 0..MaxLines /\ at \in 0..2
    /\ final \in BOOLEAN /\ unclean \in BOOLEAN
Memory ==
    /\ Learnt(miner, lines) /\ Learnt(started, lines) /\ Learnt(secured, lines)
    /\ Counting(detector)
Files ==
    /\ DOMAIN disk = {"drain", "detect-log"}
    /\ disk["drain"] = NotFound \/ \E m : disk["drain"] = <<m>> /\ Learnt(m, lines)
    /\ disk["detect-log"] = NotFound \/ \E d : disk["detect-log"] = <<d>> /\ Counting(d)
InHand ==
    line = <<>> \/ \E t \in DOMAIN miner.ids, created \in BOOLEAN :
        line = <<[template |-> t, id |-> miner.ids[t], created |-> created]>>
Counts ==
    /\ alerts \in [Templates -> Nat]
    /\ \A t \in Templates : alerts[t] <= lines /\ (line # <<>> => alerts[t] < lines)
Types == Flags /\ Memory /\ Files /\ InHand /\ Counts

\* Where the worker and the manager are, by the stage of the life.
Phases ==
    /\ line # <<>> => life = "running"
    /\ at # 0 => Up \/ life = "restoring"
    /\ life = "restoring" => at # 0
    /\ snapshot # <<>> => at # 0 /\ Up
    /\ final => life \in {"stopping", "stopped", "failed"}
    /\ final /\ life = "stopping" => at # 0

\* What was secured, what is stored, what is about to be and what is in memory.
Chain ==
    /\ secured # NoMiner => disk["drain"] # NotFound
    /\ Precedes(secured, Stored)
    /\ Up => Precedes(Stored, miner)
    /\ Up /\ at = 1 => Precedes(started, miner)
    /\ Up /\ at = 2 => disk["drain"] # NotFound /\ Precedes(started, Stored)
    /\ at = 1 /\ snapshot # <<>> => \E m :
         /\ snapshot = <<m>> /\ Learnt(m, lines)
         /\ Precedes(Stored, m) /\ Precedes(started, m) /\ Precedes(m, miner)
    /\ at = 2 /\ snapshot # <<>> => \E d : snapshot = <<d>> /\ Counting(d)

\* The last save finds a memory at rest.
LastSave ==
    /\ final /\ at = 1 /\ snapshot # <<>> => snapshot = <<miner>>
    /\ final /\ at = 2 => /\ disk["drain"] = <<miner>>
                          /\ snapshot # <<>> => snapshot = <<detector>>
    /\ life = "stopped" => /\ disk["drain"] = <<miner>>
                           /\ disk["detect-log"] = <<detector>>

\* A restart reads back what the last life left.
AtRest ==
    /\ life \in {"down", "restoring"} => detector = NoDetector
    /\ life = "restoring" /\ at = 2 => miner = Stored
    /\ life = "restoring" /\ at = 1 => miner = NoMiner
    /\ ~unclean => Agree(miner, detector)
    /\ ~unclean /\ ~Up => Agree(Stored, StoredDetector)

\* The news already told is of templates that are known.
News ==
    ~unclean =>
        \A t \in Templates :
            /\ alerts[t] <= 1
            /\ alerts[t] = 1 => t \in DOMAIN (IF Up THEN miner ELSE Stored).ids
            /\ \A i \in DOMAIN line :
                 line[i].created /\ line[i].template = t => alerts[t] = 0

\* The inductive invariant.
IInv == Types /\ Phases /\ Chain /\ LastSave /\ AtRest /\ News

-----------------------------------------------------------------------------
(* Miners and detectors *)

LEMMA KeyNames ==
    /\ Len(Keys) = 2 /\ Keys[1] = "drain" /\ Keys[2] = "detect-log"
    /\ "drain" # "detect-log"
  BY DEF Keys

LEMMA BlankMiner ==
    ASSUME NEW n \in Nat
    PROVE  /\ Learnt(NoMiner, n)
           /\ \A m : Precedes(NoMiner, m)
           /\ \A m : Agree(m, NoDetector)
           /\ Counting(NoDetector)
<1>1. DOMAIN <<>> = {}
  OBVIOUS
<1>2. NoMiner.ids = <<>> /\ NoMiner.counter = 0 /\ NoDetector.stats = <<>>
  BY DEF NoMiner, NoDetector
<1>3. Learnt(NoMiner, n)
  BY <1>1, <1>2 DEF Learnt, Miners, IDsUnique
<1>4. Counting(NoDetector)
  BY <1>1 DEF Counting, NoDetector
<1> QED
  BY <1>1, <1>2, <1>3, <1>4 DEF Precedes, Agree

LEMMA LearntMore ==
    ASSUME NEW m, NEW n \in Nat, Learnt(m, n)
    PROVE  Learnt(m, n + 1)
  BY DEF Learnt, Miners, NoMiner

LEMMA PrecedesTransitive ==
    ASSUME NEW a, NEW b, NEW c, Precedes(a, b), Precedes(b, c)
    PROVE  Precedes(a, c)
  BY DEF Precedes

LEMMA PrecedesItself ==
    ASSUME NEW a
    PROVE  Precedes(a, a)
  BY DEF Precedes

LEMMA StoredFacts ==
    ASSUME Types
    PROVE  /\ Learnt(Stored, lines) /\ Counting(StoredDetector)
           /\ disk["drain"] # NotFound => disk["drain"] = <<Stored>>
<1>1. Learnt(Stored, lines) /\ (disk["drain"] # NotFound => disk["drain"] = <<Stored>>)
  <2>1. CASE disk["drain"] = NotFound
    BY <2>1, BlankMiner DEF Types, Flags, Stored
  <2>2. CASE disk["drain"] # NotFound
    <3>1. PICK m : disk["drain"] = <<m>> /\ Learnt(m, lines)
      BY <2>2 DEF Types, Files
    <3> QED
      BY <2>2, <3>1 DEF Stored
  <2> QED
    BY <2>1, <2>2
<1>2. Counting(StoredDetector)
  <2>1. CASE disk["detect-log"] = NotFound
    BY <2>1, BlankMiner DEF StoredDetector
  <2>2. CASE disk["detect-log"] # NotFound
    <3>1. PICK d : disk["detect-log"] = <<d>> /\ Counting(d)
      BY <2>2 DEF Types, Files
    <3> QED
      BY <2>2, <3>1 DEF StoredDetector
  <2> QED
    BY <2>1, <2>2
<1> QED
  BY <1>1, <1>2

-----------------------------------------------------------------------------
(* The steps *)

LEMMA StartStep ==
    ASSUME PersistenceAssumption, IInv, Start PROVE IInv'
<1>1. /\ life' = "restoring" /\ lives' = lives + 1 /\ lives < MaxLives
      /\ miner' = NoMiner /\ detector' = NoDetector /\ line' = <<>>
      /\ at' = 1 /\ final' = FALSE /\ snapshot' = <<>>
      /\ UNCHANGED <<lines, disk, started, secured, alerts, unclean>>
      /\ ~Up
  BY DEF Start, Up
<1>2. Types'
  <2>1. Flags'
    <3>1. lives' \in 0..MaxLives
      BY <1>1 DEF PersistenceAssumption, IInv, Types, Flags
    <3>2. lines' \in 0..MaxLines /\ at' \in 0..2
      BY <1>1 DEF IInv, Types, Flags
    <3>3. final' \in BOOLEAN /\ unclean' \in BOOLEAN
      BY <1>1 DEF IInv, Types, Flags
    <3> QED
      BY <1>1, <3>1, <3>2, <3>3 DEF Flags
  <2>2. Memory'
    <3>1. Learnt(NoMiner, lines) /\ Counting(NoDetector)
      BY BlankMiner DEF IInv, Types, Flags
    <3> QED
      BY <1>1, <3>1 DEF IInv, Types, Memory
  <2>3. Files' /\ InHand' /\ Counts'
    BY <1>1 DEF IInv, Types, Files, InHand, Counts
  <2> QED
    BY <2>1, <2>2, <2>3 DEF Types
<1>3. Phases'
  BY <1>1 DEF Phases, Up
<1>4. Chain'
  BY <1>1 DEF IInv, Chain, Stored, Up
<1>5. LastSave'
  BY <1>1 DEF LastSave
<1>6. AtRest'
  <2>1. Agree(NoMiner, NoDetector)
    BY BlankMiner
  <2> QED
    BY <1>1, <2>1 DEF IInv, AtRest, Stored, StoredDetector, Up
<1>7. News'
  BY <1>1 DEF IInv, News, Stored, Up
<1> QED
  BY <1>2, <1>3, <1>4, <1>5, <1>6, <1>7 DEF IInv

\* What Restore does, key by key.
LEMMA Restored ==
    ASSUME IInv, Restore
    PROVE  /\ life = "restoring" /\ snapshot = <<>> /\ ~final /\ line = <<>>
           /\ UNCHANGED <<line, lines, final, snapshot, disk, past, alerts, unclean>>
           /\ \/ /\ at = 1 /\ at' = 2 /\ life' = life
                 /\ miner' = Stored /\ detector' = detector /\ detector = NoDetector
              \/ /\ at = 2 /\ at' = 0 /\ life' = "running"
                 /\ miner' = miner /\ miner = Stored /\ detector' = StoredDetector
<1>1. /\ life = "restoring" /\ snapshot = <<>> /\ ~final /\ line = <<>>
      /\ detector = NoDetector /\ (at = 1 => miner = NoMiner) /\ (at = 2 => miner = Stored)
  BY DEF Restore, IInv, Types, Flags, Phases, AtRest, Up
<1>2. at = 1 \/ at = 2
  BY <1>1 DEF IInv, Types, Flags, Phases
<1>3. CASE at = 1
  BY <1>1, <1>3, KeyNames DEF Restore, Stored
<1>4. CASE at = 2
  BY <1>1, <1>4, KeyNames DEF Restore, StoredDetector
<1> QED
  BY <1>1, <1>2, <1>3, <1>4 DEF Restore

LEMMA RestoreStep ==
    ASSUME PersistenceAssumption, IInv, Restore PROVE IInv'
<1>1. /\ life = "restoring" /\ snapshot = <<>> /\ ~final /\ line = <<>>
      /\ UNCHANGED <<line, lines, final, snapshot, disk, lives, started, secured,
                     alerts, unclean>>
      /\ Stored' = Stored /\ StoredDetector' = StoredDetector /\ ~Up
  BY Restored DEF past, Stored, StoredDetector, Up
<1>2. Learnt(Stored, lines) /\ Counting(StoredDetector)
  BY StoredFacts DEF IInv
<1>3. CASE /\ at = 1 /\ at' = 2 /\ life' = life
           /\ miner' = Stored /\ detector' = detector /\ detector = NoDetector
  <2>1. Agree(Stored, NoDetector) /\ ~Up'
    BY <1>1, <1>3, BlankMiner DEF Up
  <2>2. Types'
    BY <1>1, <1>2, <1>3 DEF IInv, Types, Flags, Memory, Files, InHand, Counts
  <2>3. Phases' /\ LastSave'
    BY <1>1, <1>3 DEF IInv, Phases, LastSave, Up
  <2>4. Chain'
    BY <1>1, <1>3, <2>1 DEF IInv, Chain
  <2>5. AtRest'
    BY <1>1, <1>3, <2>1 DEF IInv, AtRest
  <2>6. News'
    BY <1>1, <1>3, <2>1 DEF IInv, News
  <2> QED
    BY <2>2, <2>3, <2>4, <2>5, <2>6 DEF IInv
<1>4. CASE /\ at = 2 /\ at' = 0 /\ life' = "running"
           /\ miner' = miner /\ miner = Stored /\ detector' = StoredDetector
  <2>1. Up' /\ Precedes(Stored, miner)
    BY <1>4, PrecedesItself DEF Up
  <2>2. Types'
    BY <1>1, <1>2, <1>4 DEF IInv, Types, Flags, Memory, Files, InHand, Counts
  <2>3. Phases' /\ LastSave'
    BY <1>1, <1>4 DEF IInv, Phases, LastSave, Up
  <2>4. Chain'
    BY <1>1, <1>4, <2>1 DEF IInv, Chain
  <2>5. AtRest'
    BY <1>1, <1>4, <2>1 DEF IInv, AtRest
  <2>6. News'
    BY <1>1, <1>4, <2>1 DEF IInv, News
  <2> QED
    BY <2>2, <2>3, <2>4, <2>5, <2>6 DEF IInv
<1> QED
  BY <1>3, <1>4, Restored

LEMMA RestoreFailStep ==
    ASSUME IInv, RestoreFail PROVE IInv'
<1>1. /\ life = "restoring" /\ life' = "failed" /\ at' = 0
      /\ UNCHANGED <<miner, detector, line, lines, final, snapshot, disk, lives,
                     started, secured, alerts, unclean>>
      /\ Stored' = Stored /\ StoredDetector' = StoredDetector /\ ~Up /\ ~Up'
  BY DEF RestoreFail, memory, past, Up, Stored, StoredDetector
<1>2. Types'
  BY <1>1 DEF IInv, Types, Flags, Memory, Files, InHand, Counts
<1>3. Phases' /\ Chain' /\ LastSave'
  BY <1>1 DEF IInv, Phases, Chain, LastSave
<1>4. AtRest' /\ News'
  BY <1>1 DEF IInv, AtRest, News
<1> QED
  BY <1>2, <1>3, <1>4 DEF IInv

LEMMA EngineReturnStep ==
    ASSUME IInv, EngineReturn PROVE IInv'
<1>1. /\ life = "running" /\ life' = "stopping" /\ line = <<>>
      /\ UNCHANGED <<miner, detector, line, lines, at, final, snapshot, disk, lives,
                     started, secured, alerts, unclean>>
      /\ Stored' = Stored /\ StoredDetector' = StoredDetector /\ Up /\ Up'
  BY DEF EngineReturn, memory, saving, past, Up, Stored, StoredDetector
<1>2. Types'
  BY <1>1 DEF IInv, Types, Flags, Memory, Files, InHand, Counts
<1>3. Phases' /\ Chain' /\ LastSave'
  BY <1>1 DEF IInv, Phases, Chain, LastSave
<1>4. AtRest' /\ News'
  BY <1>1 DEF IInv, AtRest, News
<1> QED
  BY <1>2, <1>3, <1>4 DEF IInv

LEMMA CrashStep ==
    ASSUME IInv, Crash PROVE IInv'
<1>1. /\ life' = "down" /\ unclean' = TRUE
      /\ miner' = NoMiner /\ detector' = NoDetector /\ line' = <<>>
      /\ at' = 0 /\ final' = FALSE /\ snapshot' = <<>>
      /\ UNCHANGED <<lines, disk, lives, started, secured, alerts>>
      /\ Stored' = Stored /\ ~Up'
  BY DEF Crash, past, Up, Stored
<1>2. Learnt(NoMiner, lines) /\ Counting(NoDetector)
  BY BlankMiner DEF IInv, Types, Flags
<1>3. Types'
  <2>1. Flags'
    <3>1. lives' \in 0..MaxLives /\ lines' \in 0..MaxLines /\ at' \in 0..2
      BY <1>1 DEF IInv, Types, Flags
    <3> QED
      BY <1>1, <3>1 DEF Flags
  <2>2. Memory' /\ Files'
    BY <1>1, <1>2 DEF IInv, Types, Memory, Files
  <2>3. InHand' /\ Counts'
    BY <1>1 DEF IInv, Types, InHand, Counts
  <2> QED
    BY <2>1, <2>2, <2>3 DEF Types
<1>4. Phases' /\ Chain' /\ LastSave'
  BY <1>1 DEF IInv, Phases, Chain, LastSave
<1>5. AtRest' /\ News'
  BY <1>1 DEF IInv, AtRest, News
<1> QED
  BY <1>3, <1>4, <1>5 DEF IInv

\* A template not yet known gets the next ID.
LEMMA Learns ==
    ASSUME PersistenceAssumption, NEW m, NEW n \in Nat, Learnt(m, n), n < MaxLines,
           NEW t \in Templates, t \notin DOMAIN m.ids,
           NEW k, k = [counter |-> m.counter + 1, ids |-> With(m.ids, t, m.counter + 1)]
    PROVE  /\ Learnt(k, n + 1) /\ Precedes(m, k)
           /\ t \in DOMAIN k.ids /\ k.ids[t] = m.counter + 1
           /\ \A u \in DOMAIN m.ids : m.ids[u] # m.counter + 1
<1>1. /\ m.counter \in Nat /\ m.counter <= n /\ DOMAIN m.ids \subseteq Templates
      /\ \A u \in DOMAIN m.ids : m.ids[u] \in 1..MaxLines /\ m.ids[u] <= m.counter
      /\ \A u, v \in DOMAIN m.ids : m.ids[u] = m.ids[v] => u = v
  <2>1. CASE m = NoMiner
    BY <2>1 DEF NoMiner
  <2>2. CASE m # NoMiner
    <3>1. PICK ts \in SUBSET Templates : m.ids \in [ts -> 1..MaxLines]
      BY <2>2 DEF Learnt, Miners
    <3> QED
      BY <2>2, <3>1 DEF Learnt, Miners, IDsUnique
  <2> QED
    BY <2>1, <2>2
<1> DEFINE ids == With(m.ids, t, m.counter + 1)
<1>2. /\ DOMAIN ids = DOMAIN m.ids \cup {t} /\ ids[t] = m.counter + 1
      /\ \A u \in DOMAIN m.ids : ids[u] = m.ids[u]
      /\ ids \in [DOMAIN m.ids \cup {t} -> 1..MaxLines]
  <2>1. m.counter + 1 \in 1..MaxLines
    BY <1>1 DEF PersistenceAssumption
  <2> QED
    BY <1>1, <2>1 DEF With
<1> HIDE DEF ids
<1>3. k.counter = m.counter + 1 /\ k.ids = ids /\ k = [counter |-> m.counter + 1, ids |-> ids]
  BY DEF ids
<1>4. k \in Miners
  <2>1. m.counter + 1 \in 0..MaxLines
    BY <1>1 DEF PersistenceAssumption
  <2>2. DOMAIN m.ids \cup {t} \in SUBSET Templates
    BY <1>1
  <2> QED
    BY <1>2, <1>3, <2>1, <2>2 DEF Miners
<1>5. IDsUnique(k)
  BY <1>1, <1>2, <1>3 DEF IDsUnique
<1>6. Learnt(k, n + 1)
  BY <1>1, <1>3, <1>4, <1>5 DEF Learnt
<1>7. Precedes(m, k)
  BY <1>2, <1>3 DEF Precedes
<1> QED
  BY <1>1, <1>2, <1>3, <1>6, <1>7

\* Whether the template is known or not, the miner goes on from what it knew, and
\* the line in hand is one it knows.
LEMMA Mined ==
    ASSUME PersistenceAssumption, IInv, Mine
    PROVE  \E t \in Templates, created \in BOOLEAN :
             /\ line' = <<[template |-> t, id |-> miner'.ids[t], created |-> created]>>
             /\ t \in DOMAIN miner'.ids
             /\ Learnt(miner', lines + 1) /\ Precedes(miner, miner')
             /\ created => t \notin DOMAIN miner.ids
<1>1. lines \in Nat /\ lines < MaxLines /\ Learnt(miner, lines)
  BY DEF Mine, IInv, Types, Flags, Memory
<1>2. PICK t \in Templates :
         IF t \in DOMAIN miner.ids
         THEN /\ line' = <<[template |-> t, id |-> miner.ids[t], created |-> FALSE]>>
              /\ UNCHANGED miner
         ELSE /\ miner' = [counter |-> miner.counter + 1,
                           ids |-> With(miner.ids, t, miner.counter + 1)]
              /\ line' = <<[template |-> t, id |-> miner.counter + 1,
                            created |-> TRUE]>>
  BY DEF Mine
<1>3. CASE t \in DOMAIN miner.ids
  <2>1. Learnt(miner, lines + 1) /\ Precedes(miner, miner)
    BY <1>1, LearntMore, PrecedesItself
  <2> QED
    BY <1>2, <1>3, <2>1
<1>4. CASE t \notin DOMAIN miner.ids
  <2>1. /\ Learnt(miner', lines + 1) /\ Precedes(miner, miner')
        /\ t \in DOMAIN miner'.ids /\ miner'.ids[t] = miner.counter + 1
    BY <1>1, <1>2, <1>4, Learns
  <2> QED
    BY <1>2, <1>4, <2>1
<1> QED
  BY <1>3, <1>4

LEMMA MineStep ==
    ASSUME PersistenceAssumption, IInv, Mine PROVE IInv'
<1>1. /\ life = "running" /\ line = <<>> /\ lines < MaxLines /\ lines' = lines + 1
      /\ UNCHANGED <<life, detector, at, final, snapshot, disk, lives, started,
                     secured, alerts, unclean>>
      /\ Stored' = Stored /\ StoredDetector' = StoredDetector /\ Up /\ Up' /\ ~final
      /\ lines \in Nat
  BY DEF Mine, saving, past, Up, Stored, StoredDetector, IInv, Phases, Types, Flags
<1>2. PICK t \in Templates, created \in BOOLEAN :
        /\ line' = <<[template |-> t, id |-> miner'.ids[t], created |-> created]>>
        /\ t \in DOMAIN miner'.ids
        /\ Learnt(miner', lines + 1) /\ Precedes(miner, miner')
        /\ created => t \notin DOMAIN miner.ids
  BY Mined
<1>3. Types'
  <2>1. Flags'
    BY <1>1 DEF PersistenceAssumption, IInv, Types, Flags
  <2>2. Memory'
    BY <1>1, <1>2, LearntMore DEF IInv, Types, Memory
  <2>3. Files'
    BY <1>1, LearntMore DEF IInv, Types, Files
  <2>4. InHand'
    BY <1>2 DEF InHand
  <2>5. Counts'
    BY <1>1 DEF IInv, Types, Counts
  <2> QED
    BY <2>1, <2>2, <2>3, <2>4, <2>5 DEF Types
<1>4. Phases' /\ LastSave'
  BY <1>1 DEF IInv, Phases, LastSave
<1>5. Chain'
  <2>1. /\ Precedes(Stored, miner) /\ (at = 1 => Precedes(started, miner))
    BY <1>1 DEF IInv, Chain
  <2>2. Precedes(Stored, miner') /\ (at = 1 => Precedes(started, miner'))
    BY <1>2, <2>1, PrecedesTransitive
  <2>3. ASSUME at = 1, snapshot # <<>>
        PROVE  \E m : /\ snapshot = <<m>> /\ Learnt(m, lines + 1)
                      /\ Precedes(Stored, m) /\ Precedes(started, m) /\ Precedes(m, miner')
    <3>1. PICK m : /\ snapshot = <<m>> /\ Learnt(m, lines)
                   /\ Precedes(Stored, m) /\ Precedes(started, m) /\ Precedes(m, miner)
      BY <2>3 DEF IInv, Chain
    <3>2. Learnt(m, lines + 1) /\ Precedes(m, miner')
      BY <1>1, <1>2, <3>1, LearntMore, PrecedesTransitive
    <3> QED
      BY <3>1, <3>2
  <2> QED
    BY <1>1, <2>2, <2>3 DEF IInv, Chain
<1>6. AtRest'
  <2>1. ASSUME Agree(miner, detector) PROVE Agree(miner', detector)
    BY <1>2, <2>1 DEF Agree, Precedes
  <2> QED
    BY <1>1, <2>1 DEF IInv, AtRest
<1>7. News'
  <2> SUFFICES ASSUME ~unclean, NEW u \in Templates
               PROVE  /\ alerts[u] <= 1 /\ (alerts[u] = 1 => u \in DOMAIN miner'.ids)
                      /\ created /\ t = u => alerts[u] = 0
    BY <1>1, <1>2 DEF News
  <2>1. alerts[u] <= 1 /\ (alerts[u] = 1 => u \in DOMAIN miner.ids)
    BY <1>1 DEF IInv, News
  <2>2. alerts[u] \in Nat
    BY DEF IInv, Types, Counts
  <2> QED
    BY <1>2, <2>1, <2>2 DEF Precedes
<1> QED
  BY <1>3, <1>4, <1>5, <1>6, <1>7 DEF IInv

LEMMA DetectStep ==
    ASSUME IInv, Detect PROVE IInv'
<1> DEFINE l == line[1]
           learnt == IF l.id \in DOMAIN detector.stats
                    THEN detector.stats[l.id].counted ELSE {}
           entry == [template |-> l.template, counted |-> learnt \cup {l.template}]
           stats == With(detector.stats, l.id, entry)
<1>1. /\ line # <<>> /\ life = "running" /\ line' = <<>>
      /\ detector' = [detector EXCEPT !.stats = stats]
      /\ alerts' = IF l.created /\ detector.over
                   THEN [alerts EXCEPT ![l.template] = @ + 1] ELSE alerts
      /\ UNCHANGED <<life, miner, lines, at, final, snapshot, disk, lives, started,
                     secured, unclean>>
      /\ Stored' = Stored /\ StoredDetector' = StoredDetector /\ Up /\ Up' /\ ~final
  BY DEF Detect, saving, past, Up, Stored, StoredDetector, IInv, Phases
<1>2. PICK t \in DOMAIN miner.ids, created \in BOOLEAN :
        line = <<[template |-> t, id |-> miner.ids[t], created |-> created]>>
  BY <1>1 DEF IInv, Types, InHand
<1>3. /\ l.template = t /\ l.id = miner.ids[t] /\ l.created = created
      /\ t \in Templates /\ miner.ids[t] \in 1..MaxLines
  <2>1. t \in Templates /\ miner.ids[t] \in 1..MaxLines
    <3>1. miner # NoMiner
      BY <1>2 DEF NoMiner
    <3>2. PICK ts \in SUBSET Templates : miner.ids \in [ts -> 1..MaxLines]
      BY <3>1 DEF IInv, Types, Memory, Learnt, Miners
    <3> QED
      BY <3>2
  <2> QED
    BY <1>2, <2>1
<1> HIDE DEF entry, learnt, l
<1>4. /\ detector'.stats = stats /\ detector'.over = detector.over
      /\ Counting(detector')
      /\ DOMAIN stats = DOMAIN detector.stats \cup {l.id} /\ stats[l.id] = entry
      /\ \A id \in DOMAIN detector.stats \ {l.id} : stats[id] = detector.stats[id]
  <2>1. Counting(detector)
    BY DEF IInv, Types, Memory
  <2>2. /\ DOMAIN stats = DOMAIN detector.stats \cup {l.id} /\ stats[l.id] = entry
        /\ \A id \in DOMAIN detector.stats \ {l.id} : stats[id] = detector.stats[id]
    BY DEF With
  <2> HIDE DEF stats
  <2>3. detector' = [stats |-> stats, over |-> detector.over]
    <3> DEFINE st == detector.stats
               ov == detector.over
    <3>1. detector = [stats |-> st, over |-> ov]
      BY <2>1 DEF Counting
    <3> HIDE DEF st, ov
    <3>2. detector' = [[stats |-> st, over |-> ov] EXCEPT !.stats = stats]
      BY <1>1, <3>1
    <3>3. detector' = [stats |-> stats, over |-> ov]
      BY <3>2
    <3> QED
      BY <3>3 DEF ov
  <2> QED
    BY <1>3, <2>1, <2>2, <2>3 DEF Counting
<1> HIDE DEF stats
<1>5. /\ alerts' \in [Templates -> Nat]
      /\ \A u \in Templates :
           /\ alerts'[u] <= lines
           /\ alerts'[u] = alerts[u] \/ (created /\ u = t /\ alerts'[u] = alerts[u] + 1)
  BY <1>1, <1>3 DEF IInv, Types, Flags, Counts
<1>6. Types'
  BY <1>1, <1>4, <1>5 DEF IInv, Types, Flags, Memory, Files, InHand, Counts
<1>7. Phases' /\ Chain' /\ LastSave'
  BY <1>1 DEF IInv, Phases, Chain, LastSave
<1>8. AtRest'
  <2>1. ASSUME Agree(miner, detector) PROVE Agree(miner, detector')
    <3>1. learnt \subseteq {t}
      <4> SUFFICES ASSUME l.id \in DOMAIN detector.stats PROVE learnt = {t}
        BY DEF learnt
      <4>1. PICK u \in DOMAIN miner.ids :
              miner.ids[u] = l.id /\ detector.stats[l.id].counted = {u}
        BY <2>1 DEF Agree
      <4>2. u = t
        BY <1>3, <4>1 DEF IInv, Types, Memory, Learnt, IDsUnique
      <4> QED
        BY <4>1, <4>2 DEF learnt
    <3>2. stats[l.id].counted = {t} /\ miner.ids[t] = l.id
      BY <1>3, <1>4, <3>1 DEF entry
    <3> QED
      BY <1>4, <2>1, <3>2 DEF Agree
  <2> QED
    BY <1>1, <2>1 DEF IInv, AtRest
<1>9. News'
  <2> SUFFICES ASSUME ~unclean, NEW u \in Templates
               PROVE  alerts'[u] <= 1 /\ (alerts'[u] = 1 => u \in DOMAIN miner.ids)
    BY <1>1 DEF News
  <2>1. /\ alerts[u] <= 1 /\ (alerts[u] = 1 => u \in DOMAIN miner.ids)
        /\ created /\ u = t => alerts[u] = 0
    BY <1>1, <1>2 DEF IInv, News
  <2>2. alerts[u] \in Nat
    BY DEF IInv, Types, Counts
  <2> QED
    BY <1>2, <1>5, <2>1, <2>2
<1> QED
  BY <1>6, <1>7, <1>8, <1>9 DEF IInv

LEMMA LearningEndsStep ==
    ASSUME IInv, LearningEnds PROVE IInv'
<1>1. /\ life = "running" /\ detector' = [detector EXCEPT !.over = TRUE]
      /\ UNCHANGED <<life, miner, line, lines, at, final, snapshot, disk, lives,
                     started, secured, alerts, unclean>>
      /\ Stored' = Stored /\ StoredDetector' = StoredDetector /\ Up /\ Up' /\ ~final
  BY DEF LearningEnds, saving, past, Up, Stored, StoredDetector, IInv, Phases
<1>2. Counting(detector') /\ detector'.stats = detector.stats
  <2>1. Counting(detector)
    BY DEF IInv, Types, Memory
  <2> DEFINE st == detector.stats
             ov == detector.over
  <2>2. detector = [stats |-> st, over |-> ov] /\ DOMAIN st \subseteq 1..MaxLines
    BY <2>1 DEF Counting
  <2> HIDE DEF st, ov
  <2>3. detector' = [[stats |-> st, over |-> ov] EXCEPT !.over = TRUE]
    BY <1>1, <2>2
  <2>4. detector' = [stats |-> st, over |-> TRUE]
    BY <2>3
  <2> QED
    BY <2>2, <2>4 DEF Counting, st
<1>3. Types'
  BY <1>1, <1>2 DEF IInv, Types, Flags, Memory, Files, InHand, Counts
<1>4. Phases' /\ Chain' /\ LastSave'
  BY <1>1 DEF IInv, Phases, Chain, LastSave
<1>5. AtRest' /\ News'
  BY <1>1, <1>2 DEF IInv, AtRest, News, Agree
<1> QED
  BY <1>3, <1>4, <1>5 DEF IInv

LEMMA SaveAllStep ==
    ASSUME IInv, SaveAll PROVE IInv'
<1>1. /\ at = 0 /\ Up /\ ~final /\ at' = 1 /\ snapshot' = <<>>
      /\ final' \in BOOLEAN /\ (final' <=> life = "stopping") /\ started' = miner
      /\ UNCHANGED <<life, lives, miner, detector, line, lines, disk, secured, alerts,
                     unclean>>
      /\ Stored' = Stored /\ StoredDetector' = StoredDetector /\ Up'
      /\ life # "stopped" /\ life # "restoring"
  BY DEF SaveAll, memory, Up, Stored, StoredDetector
<1>2. Types'
  BY <1>1 DEF IInv, Types, Flags, Memory, Files, InHand, Counts
<1>3. Phases' /\ LastSave'
  BY <1>1 DEF IInv, Phases, LastSave, Up
<1>4. Chain'
  BY <1>1, PrecedesItself DEF IInv, Chain
<1>5. AtRest' /\ News'
  BY <1>1 DEF IInv, AtRest, News
<1> QED
  BY <1>2, <1>3, <1>4, <1>5 DEF IInv

LEMMA SnapshotStep ==
    ASSUME IInv, Snapshot PROVE IInv'
<1>1. /\ at \in {1, 2} /\ Up /\ snapshot = <<>>
      /\ snapshot' = <<IF at = 1 THEN miner ELSE detector>>
      /\ UNCHANGED <<life, miner, detector, line, lines, at, final, disk, lives,
                     started, secured, alerts, unclean>>
      /\ Stored' = Stored /\ StoredDetector' = StoredDetector /\ Up'
  BY KeyNames DEF Snapshot, memory, past, Up, Stored, StoredDetector, IInv, Types, Flags
<1>2. Types'
  BY <1>1 DEF IInv, Types, Flags, Memory, Files, InHand, Counts
<1>3. Phases' /\ LastSave'
  BY <1>1 DEF IInv, Phases, LastSave, Up
<1>4. Chain'
  <2>1. at = 1 => /\ Learnt(miner, lines) /\ Precedes(Stored, miner)
                  /\ Precedes(started, miner) /\ Precedes(miner, miner)
    BY <1>1, PrecedesItself DEF IInv, Types, Memory, Chain
  <2>2. Counting(detector)
    BY DEF IInv, Types, Memory
  <2> QED
    BY <1>1, <2>1, <2>2 DEF IInv, Chain
<1>5. AtRest' /\ News'
  BY <1>1 DEF IInv, AtRest, News
<1> QED
  BY <1>2, <1>3, <1>4, <1>5 DEF IInv

\* The first key is the miner; what it replaces came before it.
LEMMA SaveMinerStep ==
    ASSUME IInv, Save, at = 1 PROVE IInv'
<1>1. PICK m : /\ snapshot = <<m>> /\ Learnt(m, lines)
               /\ Precedes(Stored, m) /\ Precedes(started, m) /\ Precedes(m, miner)
               /\ Up
  BY DEF Save, IInv, Chain, Phases
<1>2. /\ disk' = [disk EXCEPT !["drain"] = <<m>>] /\ snapshot' = <<>> /\ at' = 2
      /\ UNCHANGED <<life, miner, detector, line, lines, final, lives, started,
                     secured, alerts, unclean>>
      /\ Up' /\ life # "stopped" /\ life # "restoring"
  BY <1>1, KeyNames DEF Save, memory, Up
<1>3. /\ disk'["drain"] = <<m>> /\ disk'["detect-log"] = disk["detect-log"]
      /\ DOMAIN disk' = {"drain", "detect-log"} /\ Stored' = m /\ <<m>> # <<>>
      /\ StoredDetector' = StoredDetector
  <2>1. /\ disk'["drain"] = <<m>> /\ disk'["detect-log"] = disk["detect-log"]
        /\ DOMAIN disk' = {"drain", "detect-log"}
    BY <1>2, KeyNames DEF IInv, Types, Files
  <2> QED
    BY <2>1 DEF Stored, StoredDetector, NotFound
<1>4. Types'
  BY <1>1, <1>2, <1>3 DEF IInv, Types, Flags, Memory, Files, InHand, Counts
<1>5. Phases'
  BY <1>1, <1>2 DEF IInv, Phases, Up
<1>6. LastSave'
  BY <1>1, <1>2, <1>3 DEF Save, IInv, LastSave
<1>7. Chain'
  <2>1. Precedes(secured, m)
    BY <1>1, PrecedesTransitive DEF IInv, Chain
  <2> QED
    BY <1>1, <1>2, <1>3, <2>1 DEF Chain, NotFound
<1>8. AtRest' /\ News'
  BY <1>1, <1>2, <1>3 DEF IInv, AtRest, News, Up
<1> QED
  BY <1>4, <1>5, <1>6, <1>7, <1>8 DEF IInv

\* The second is the detector; what the store holds was then read since this
\* SaveAll began.
LEMMA SaveDetectorStep ==
    ASSUME IInv, Save, at = 2 PROVE IInv'
<1>1. PICK d : snapshot = <<d>> /\ Counting(d) /\ Up
  BY DEF Save, IInv, Chain, Phases
<1>2. /\ disk' = [disk EXCEPT !["detect-log"] = <<d>>] /\ snapshot' = <<>> /\ at' = 0
      /\ secured' = started /\ life' = IF final THEN "stopped" ELSE life
      /\ UNCHANGED <<miner, detector, line, lines, final, lives, started, alerts,
                     unclean>>
  BY <1>1, KeyNames DEF Save, Saved, memory
<1>3. /\ disk'["detect-log"] = <<d>> /\ disk'["drain"] = disk["drain"]
      /\ DOMAIN disk' = {"drain", "detect-log"} /\ Stored' = Stored
      /\ StoredDetector' = d
  <2>1. /\ disk'["detect-log"] = <<d>> /\ disk'["drain"] = disk["drain"]
        /\ DOMAIN disk' = {"drain", "detect-log"}
    BY <1>2, KeyNames DEF IInv, Types, Files
  <2>2. <<d>> # NotFound
    BY DEF NotFound
  <2> QED
    BY <2>1, <2>2 DEF Stored, StoredDetector
<1>4. final => /\ life = "stopping" /\ disk["drain"] = <<miner>> /\ d = detector
               /\ Stored = miner
  <2>1. final => life = "stopping" /\ disk["drain"] = <<miner>> /\ <<d>> = <<detector>>
    BY <1>1 DEF IInv, Phases, LastSave, Up, Save
  <2> QED
    BY <2>1, StoredFacts DEF IInv, NotFound
<1>5. Types'
  BY <1>1, <1>2, <1>3 DEF IInv, Types, Flags, Memory, Files, InHand, Counts
<1>6. Phases'
  BY <1>1, <1>2, <1>4 DEF IInv, Phases, Up
<1>7. LastSave'
  BY <1>1, <1>2, <1>3, <1>4 DEF IInv, LastSave, Up
<1>8. Chain'
  <2>1. disk["drain"] # NotFound /\ Precedes(started, Stored) /\ Precedes(Stored, miner)
    BY <1>1 DEF IInv, Chain
  <2> QED
    BY <1>1, <1>2, <1>3, <2>1 DEF Chain
<1>9. AtRest' /\ News'
  <2>1. CASE final
    BY <1>1, <1>2, <1>3, <1>4, <2>1 DEF IInv, AtRest, News, Up
  <2>2. CASE ~final
    BY <1>1, <1>2, <1>3, <2>2 DEF IInv, AtRest, News, Up
  <2> QED
    BY <2>1, <2>2
<1> QED
  BY <1>5, <1>6, <1>7, <1>8, <1>9 DEF IInv

LEMMA SaveFailStep ==
    ASSUME IInv, SaveFail PROVE IInv'
<1>1. /\ snapshot # <<>> /\ snapshot' = <<>> /\ at' = 0
      /\ life' = IF final THEN "failed" ELSE life
      /\ unclean' \in BOOLEAN /\ (unclean' <=> unclean \/ final)
      /\ UNCHANGED <<miner, detector, line, lines, final, disk, lives, started,
                     secured, alerts>>
  BY DEF SaveFail, memory, past
<1>2. /\ Stored' = Stored /\ StoredDetector' = StoredDetector /\ Up
      /\ final => life = "stopping"
  BY <1>1 DEF Up, Stored, StoredDetector, IInv, Phases
<1>3. Types'
  <2>1. Flags'
    BY <1>1, <1>2 DEF IInv, Types, Flags
  <2> QED
    BY <1>1, <2>1 DEF IInv, Types, Memory, Files, InHand, Counts
<1>4. Phases' /\ LastSave'
  BY <1>1, <1>2 DEF IInv, Phases, LastSave, Up
<1>5. Chain'
  BY <1>1, <1>2 DEF IInv, Chain, Up
<1>6. AtRest' /\ News'
  BY <1>1, <1>2 DEF IInv, AtRest, News, Up
<1> QED
  BY <1>3, <1>4, <1>5, <1>6 DEF IInv

-----------------------------------------------------------------------------
(* The invariant *)

LEMMA InitIInv ==
    ASSUME PersistenceAssumption, Init PROVE IInv
<1>1. /\ life = "down" /\ lives = 0 /\ miner = NoMiner /\ detector = NoDetector
      /\ line = <<>> /\ lines = 0 /\ at = 0 /\ final = FALSE /\ snapshot = <<>>
      /\ disk = [k \in {"drain", "detect-log"} |-> NotFound]
      /\ started = NoMiner /\ secured = NoMiner
      /\ alerts = [t \in Templates |-> 0] /\ unclean = FALSE
  BY DEF Init
<1>2. /\ Learnt(NoMiner, 0) /\ Counting(NoDetector) /\ Agree(NoMiner, NoDetector)
      /\ Precedes(NoMiner, NoMiner) /\ DOMAIN <<>> = {}
  BY BlankMiner
<1>3. Types
  <2>1. Flags
    <3>1. lives \in 0..MaxLives /\ lines \in 0..MaxLines /\ at \in 0..2
      BY <1>1 DEF PersistenceAssumption
    <3> QED
      BY <1>1, <3>1 DEF Flags
  <2>2. Memory /\ Files /\ InHand /\ Counts
    BY <1>1, <1>2 DEF Memory, Files, InHand, Counts
  <2> QED
    BY <2>1, <2>2 DEF Types
<1>4. Stored = NoMiner /\ StoredDetector = NoDetector
  BY <1>1 DEF Stored, StoredDetector
<1>5. Phases /\ LastSave
  BY <1>1 DEF Phases, LastSave
<1>6. Chain
  BY <1>1, <1>2, <1>4 DEF Chain, Up
<1>7. AtRest /\ News
  BY <1>1, <1>2, <1>4 DEF AtRest, News
<1> QED
  BY <1>3, <1>5, <1>6, <1>7 DEF IInv

LEMMA NextIInv ==
    ASSUME PersistenceAssumption, IInv, [Next]_vars PROVE IInv'
<1>1. CASE Save
  <2>1. at = 1 \/ at = 2
    BY <1>1 DEF Save, IInv, Types, Flags, Phases
  <2> QED
    BY <1>1, <2>1, SaveMinerStep, SaveDetectorStep
<1>2. CASE UNCHANGED vars
  <2>1. Stored' = Stored /\ StoredDetector' = StoredDetector /\ (Up' <=> Up)
    BY <1>2 DEF vars, Stored, StoredDetector, Up
  <2>2. Types'
    BY <1>2 DEF vars, IInv, Types, Flags, Memory, Files, InHand, Counts
  <2>3. Phases' /\ Chain' /\ LastSave'
    BY <1>2, <2>1 DEF vars, IInv, Phases, Chain, LastSave
  <2>4. AtRest' /\ News'
    BY <1>2, <2>1 DEF vars, IInv, AtRest, News
  <2> QED
    BY <2>2, <2>3, <2>4 DEF IInv
<1> QED
  BY <1>1, <1>2, StartStep, RestoreStep, RestoreFailStep, EngineReturnStep, CrashStep,
     MineStep, DetectStep, LearningEndsStep, SaveAllStep, SnapshotStep, SaveFailStep
     DEF Next

LEMMA Invariance ==
    ASSUME PersistenceAssumption
    PROVE  Spec => []IInv
<1>1. IInv /\ [Next]_vars => IInv'
  BY NextIInv
<1> QED
  BY InitIInv, <1>1, PTL DEF Spec

-----------------------------------------------------------------------------
(* What it gives *)

\* Whatever crashes, failed saves and failed starts come in between: a run that
\* ends without error has stored all its memory, a crash costs one interval at
\* most, and as long as every life ends cleanly a template is news once and has
\* an ID of its own (Manager.Run, SaveAll, RestoreAll, Runtime.Run).
THEOREM MemoryHolds ==
    ASSUME PersistenceAssumption
    PROVE  Spec => []MemoryServes
<1>1. ASSUME IInv PROVE TypeOK
  <2>1. /\ Learnt(miner, lines) /\ Learnt(started, lines) /\ Learnt(secured, lines)
        /\ Counting(detector) /\ lines \in 0..MaxLines
    BY <1>1 DEF IInv, Types, Memory, Flags
  <2>2. disk["drain"] # NotFound => disk["drain"][1] \in Miners /\ IDsUnique(disk["drain"][1])
    BY <1>1, StoredFacts DEF IInv, Learnt
  <2>3. alerts \in [Templates -> 0..MaxLines]
    BY <1>1, <2>1 DEF IInv, Types, Counts, PersistenceAssumption
  <2>4. at \in 0..Len(Keys)
    BY <1>1, KeyNames DEF IInv, Types, Flags
  <2> QED
    BY <1>1, <2>1, <2>2, <2>3, <2>4 DEF IInv, Types, Flags, TypeOK, Learnt, Counting
<1>2. ASSUME IInv PROVE NothingLostAtShutdown
  BY <1>2 DEF IInv, Phases, LastSave, NothingLostAtShutdown
<1>3. ASSUME IInv PROVE CrashLosesOneInterval
  <2>1. Precedes(secured, Stored) /\ (secured # NoMiner => disk["drain"] # NotFound)
    BY <1>3 DEF IInv, Chain
  <2>2. disk["drain"] # NotFound => disk["drain"][1] = Stored
    BY DEF Stored
  <2> QED
    BY <2>1, <2>2 DEF CrashLosesOneInterval, Precedes
<1>4. ASSUME IInv PROVE NewOnlyOnce
  BY <1>4 DEF IInv, News, NewOnlyOnce
<1>5. ASSUME IInv PROVE OneTemplatePerID
  <2> SUFFICES ASSUME ~unclean, NEW id \in DOMAIN detector.stats
               PROVE  Cardinality(detector.stats[id].counted) = 1
    BY DEF OneTemplatePerID
  <2>1. PICK t : detector.stats[id].counted = {t}
    BY <1>5 DEF IInv, AtRest, Agree
  <2> QED
    BY <2>1, FS_Singleton
<1>6. IInv => MemoryServes
  BY <1>1, <1>2, <1>3, <1>4, <1>5 DEF MemoryServes, MemorySurvives, NewsIsNew
<1> QED
  BY <1>6, Invariance, PTL

-----------------------------------------------------------------------------
(* The event log *)

LEMMA EventLogRuns ==
    ASSUME [NextParts]_parts, which' = "eventlog"
    PROVE  which = "eventlog" /\ [EventLog!Next]_(EventLog!eventlog)
  BY DEF NextParts, Runs, Rest, parts, eventlog, EventLog!eventlog

\* An event is dated; an event accepted bears the time of its writing too.
Dated == [id : Nat \X Nat, at : Int]
Filings == [id : Nat \X Nat, at : Int, written : Nat]
Segment == [lines : Seq(Dated), dangling : BOOLEAN]
DayOf(t) == t \div LogDay
LinesIn(segs, d) == EventLog!Range(segs[d].lines)
LinesAt(segs, d) == IF d \in DOMAIN segs THEN LinesIn(segs, d) ELSE {}
KeptAt(t, d) == Retention <= 0 \/ d * LogDay >= t - Retention - LogDay

\* The segments at time t, after n batches, hold what was written until then.
Shelved(t, segs, n) ==
    /\ segs \in [DOMAIN segs -> Segment] /\ IsFiniteSet(DOMAIN segs)
    /\ \A d \in DOMAIN segs :
         /\ d \in Nat /\ d * LogDay <= t
         /\ \A e \in LinesIn(segs, d) : e.id[1] <= n /\ e.at < (d + 2) * LogDay

\* The batch that may be published again, and what was accepted.
Queued(t, l, n) ==
    /\ l \in Seq(Dated)
    /\ \A i \in DOMAIN l : l[i].id[1] <= n /\ l[i].at <= t + LogDay
Accounted(t, segs, l, acc, n) ==
    /\ acc \in SUBSET Filings /\ IsFiniteSet(acc)
    /\ \A e \in acc :
         /\ e.id[1] <= n /\ e.written <= t
         /\ KeptAt(t, DayOf(e.written)) => DayOf(e.written) \in DOMAIN segs
         /\ \A i \in DOMAIN l : l[i].id # e.id
         /\ \A d \in DOMAIN segs : \A x \in LinesIn(segs, d) :
              x.id = e.id => d * LogDay <= e.written

\* An event has one date, wherever it is.
Recorded(x, segs, l, acc) ==
    \/ \E d \in DOMAIN segs : x \in LinesIn(segs, d)
    \/ x \in EventLog!Range(l)
    \/ x \in acc
OneDate(segs, l, acc) ==
    \A x, y : /\ Recorded(x, segs, l, acc) /\ Recorded(y, segs, l, acc)
              /\ x.id = y.id
              => x.at = y.at

\* Each torn write left a line that dangles, or cost one event: of those
\* accepted, or of the first w of the batch, written today.
Lost(segs, acc) ==
    {e \in acc : /\ DayOf(e.written) \in DOMAIN segs
                 /\ \A x \in LinesIn(segs, DayOf(e.written)) : x.id # e.id}
Missing(t, segs, w, l) ==
    {x \in {l[i] : i \in 1..w} : \A y \in LinesAt(segs, DayOf(t)) : y.id # x.id}
Dangling(segs) == {d \in DOMAIN segs : segs[d].dangling}
Spared(t, segs, w, l, acc, k) ==
    /\ IsFiniteSet(Missing(t, segs, w, l)) /\ k \in Nat
    /\ Cardinality(Lost(segs, acc)) + Cardinality(Missing(t, segs, w, l))
         + Cardinality(Dangling(segs)) <= k

OnDisk(t, segs, w, l, acc, n, k) ==
    /\ t \in Nat /\ n \in Nat /\ w \in 0..Len(l)
    /\ Shelved(t, segs, n) /\ Queued(t, l, n) /\ Accounted(t, segs, l, acc, n)
    /\ OneDate(segs, l, acc) /\ Spared(t, segs, w, l, acc, k)

LEMMA SameCountOfEvents ==
    ASSUME NEW S PROVE EventLog!Cardinality(S) = Cardinality(S)
  BY Zenon DEF EventLog!Cardinality, Cardinality

LEMMA DaysPass ==
    ASSUME EventLog!EventLogAssumption, NEW t \in Nat
    PROVE  /\ DayOf(t) \in Nat /\ DayOf(t) * LogDay <= t /\ t < DayOf(t) * LogDay + LogDay
           /\ LogDay \in Nat \ {0} /\ Retention \in Nat
<1>1. LogDay \in Nat \ {0} /\ Retention \in Nat
  BY DEF EventLog!EventLogAssumption
<1>2. /\ t \div LogDay \in Nat /\ (t \div LogDay) * LogDay <= t
      /\ t < (t \div LogDay + 1) * LogDay
  BY <1>1
<1> DEFINE d == t \div LogDay
<1>3. d \in Nat /\ t < (d + 1) * LogDay
  BY <1>2
<1> HIDE DEF d
<1>4. (d + 1) * LogDay = d * LogDay + LogDay
  BY <1>1, <1>3
<1> QED
  BY <1>1, <1>2, <1>3, <1>4 DEF DayOf, d

LEMMA TodayIsKept ==
    ASSUME EventLog!EventLogAssumption, NEW t \in Nat
    PROVE  KeptAt(t, DayOf(t))
<1> DEFINE c == DayOf(t) * LogDay
<1>1. c \in Nat /\ t < c + LogDay /\ LogDay \in Nat /\ Retention \in Nat
  BY DaysPass
<1>2. c >= t - Retention - LogDay
  <2> HIDE DEF c
  <2> QED
    BY <1>1
<1> QED
  BY <1>2 DEF KeptAt

\* The sets that are counted are finite.
LEMMA CountsAreFinite ==
    ASSUME NEW t, NEW segs, NEW w, NEW l, NEW acc, NEW n, NEW k, OnDisk(t, segs, w, l, acc, n, k)
    PROVE  /\ IsFiniteSet(Lost(segs, acc)) /\ IsFiniteSet(Missing(t, segs, w, l))
           /\ IsFiniteSet(Dangling(segs)) /\ Cardinality(Lost(segs, acc)) \in Nat
           /\ Cardinality(Missing(t, segs, w, l)) \in Nat
           /\ Cardinality(Dangling(segs)) \in Nat
<1>1. Lost(segs, acc) \in SUBSET acc /\ Dangling(segs) \in SUBSET DOMAIN segs
  BY DEF Lost, Dangling
<1>2. IsFiniteSet(acc) /\ IsFiniteSet(DOMAIN segs) /\ IsFiniteSet(Missing(t, segs, w, l))
  BY DEF OnDisk, Accounted, Shelved, Spared
<1> QED
  BY <1>1, <1>2, FS_Subset, FS_CardinalityType

\* Fewer are lost, fewer are missing, fewer dangle.
LEMMA FewerSpare ==
    ASSUME NEW t, NEW segs, NEW w, NEW l, NEW acc, NEW n, NEW k, OnDisk(t, segs, w, l, acc, n, k),
           NEW u, NEW segs1, NEW w1, NEW l1, NEW acc1,
           Lost(segs1, acc1) \subseteq Lost(segs, acc),
           Missing(u, segs1, w1, l1) \subseteq Missing(t, segs, w, l),
           Dangling(segs1) \subseteq Dangling(segs)
    PROVE  Spared(u, segs1, w1, l1, acc1, k)
<1>1. /\ IsFiniteSet(Lost(segs, acc)) /\ IsFiniteSet(Missing(t, segs, w, l))
      /\ IsFiniteSet(Dangling(segs)) /\ Cardinality(Lost(segs, acc)) \in Nat
      /\ Cardinality(Missing(t, segs, w, l)) \in Nat
      /\ Cardinality(Dangling(segs)) \in Nat
  BY CountsAreFinite
<1>2. /\ IsFiniteSet(Missing(u, segs1, w1, l1))
      /\ Cardinality(Missing(u, segs1, w1, l1)) <= Cardinality(Missing(t, segs, w, l))
      /\ Cardinality(Missing(u, segs1, w1, l1)) \in Nat
  BY <1>1, FS_Subset, FS_CardinalityType
<1>3. /\ Cardinality(Lost(segs1, acc1)) <= Cardinality(Lost(segs, acc))
      /\ Cardinality(Lost(segs1, acc1)) \in Nat
  BY <1>1, FS_Subset, FS_CardinalityType
<1>4. /\ Cardinality(Dangling(segs1)) <= Cardinality(Dangling(segs))
      /\ Cardinality(Dangling(segs1)) \in Nat
  BY <1>1, FS_Subset, FS_CardinalityType
<1>5. /\ k \in Nat
      /\ Cardinality(Lost(segs, acc)) + Cardinality(Missing(t, segs, w, l))
           + Cardinality(Dangling(segs)) <= k
  BY DEF OnDisk, Spared
<1> QED
  BY <1>1, <1>2, <1>3, <1>4, <1>5 DEF Spared

\* Rotation and pruning: segments go once they expire, today's may be created.
Rotated(t, segs, segs1) ==
    /\ segs1 \in [DOMAIN segs1 -> Segment] /\ IsFiniteSet(DOMAIN segs1)
    /\ \A d \in DOMAIN segs1 :
         \/ d \in DOMAIN segs /\ segs1[d] = segs[d]
         \/ d = DayOf(t) /\ d \notin DOMAIN segs /\ segs1[d] = [lines |-> <<>>, dangling |-> FALSE]
    /\ \A d \in DOMAIN segs : KeptAt(t, d) => d \in DOMAIN segs1

LEMMA RotatedStores ==
    ASSUME EventLog!EventLogAssumption,
           NEW t, NEW segs, NEW w, NEW l, NEW acc, NEW n, NEW k, OnDisk(t, segs, w, l, acc, n, k),
           NEW segs1, Rotated(t, segs, segs1)
    PROVE  OnDisk(t, segs1, w, l, acc, n, k)
<1> DEFINE today == DayOf(t)
<1>1. /\ t \in Nat /\ n \in Nat /\ Shelved(t, segs, n) /\ Accounted(t, segs, l, acc, n)
      /\ OneDate(segs, l, acc)
  BY DEF OnDisk
<1>2. today \in Nat /\ today * LogDay <= t /\ KeptAt(t, today)
  BY <1>1, DaysPass, TodayIsKept
<1>3. LinesIn(segs1, today) = {} \/ today \in DOMAIN segs \/ today \notin DOMAIN segs1
  BY DEF Rotated, LinesIn, EventLog!Range
<1>4. ASSUME NEW d \in DOMAIN segs1
      PROVE  \/ d \in DOMAIN segs /\ LinesIn(segs1, d) = LinesIn(segs, d)
                /\ segs1[d].dangling = segs[d].dangling
             \/ d = today /\ d \notin DOMAIN segs /\ LinesIn(segs1, d) = {}
                /\ ~segs1[d].dangling
  BY DEF Rotated, LinesIn, EventLog!Range
<1> HIDE DEF today
<1>5. Shelved(t, segs1, n)
  BY <1>1, <1>2, <1>4 DEF Shelved, Rotated
<1>6. Accounted(t, segs1, l, acc, n)
  BY <1>1, <1>4 DEF Accounted, Rotated
<1>7. \A x : Recorded(x, segs1, l, acc) => Recorded(x, segs, l, acc)
  BY <1>4 DEF Recorded
<1>8. OneDate(segs1, l, acc)
  BY <1>1, <1>7 DEF OneDate
<1>9. Lost(segs1, acc) \subseteq Lost(segs, acc)
  <2> SUFFICES ASSUME NEW e \in Lost(segs1, acc) PROVE e \in Lost(segs, acc)
    OBVIOUS
  <2> DEFINE d == DayOf(e.written)
  <2>1. e \in acc /\ d \in DOMAIN segs1 /\ \A x \in LinesIn(segs1, d) : x.id # e.id
    BY DEF Lost
  <2>2. d = today => d \in DOMAIN segs
    BY <1>1, <1>2, <2>1 DEF Accounted
  <2>3. d \in DOMAIN segs /\ LinesIn(segs1, d) = LinesIn(segs, d)
    BY <1>4, <2>1, <2>2
  <2> QED
    BY <2>1, <2>3 DEF Lost
<1>10. LinesAt(segs1, today) = LinesAt(segs, today)
  BY <1>2, <1>3, <1>4 DEF LinesAt, Rotated
<1>11. Missing(t, segs1, w, l) = Missing(t, segs, w, l)
  BY <1>10 DEF Missing, today
<1>12. Dangling(segs1) \subseteq Dangling(segs)
  BY <1>4 DEF Dangling
<1>13. Spared(t, segs1, w, l, acc, k)
  BY <1>9, <1>11, <1>12, FewerSpare
<1> QED
  BY <1>5, <1>6, <1>8, <1>13 DEF OnDisk

LEMMA SegmentsRotate ==
    ASSUME EventLog!EventLogAssumption, now \in Nat, NEW n, Shelved(now, segments, n)
    PROVE  /\ Rotated(now, segments, EventLog!Prune(segments))
           /\ Rotated(now, segments, EventLog!SegmentFile)
           /\ DayOf(now) \in DOMAIN EventLog!SegmentFile
<1> DEFINE today == DayOf(now)
           created == [d \in DOMAIN segments \cup {today} |->
                         IF d \in DOMAIN segments THEN segments[d]
                         ELSE [lines |-> <<>>, dangling |-> FALSE]]
<1>1. today = EventLog!Today /\ KeptAt(now, today)
      /\ \A d : EventLog!Kept(d) <=> KeptAt(now, d)
  BY TodayIsKept DEF EventLog!Today, DayOf, EventLog!Kept, KeptAt
<1>2. segments \in [DOMAIN segments -> Segment] /\ IsFiniteSet(DOMAIN segments)
  BY DEF Shelved
<1>3. [lines |-> <<>>, dangling |-> FALSE] \in Segment
  BY DEF Segment
<1>4. Rotated(now, segments, segments)
  BY <1>2 DEF Rotated
<1>5. IsFiniteSet(DOMAIN segments \cup {today})
  BY <1>2, FS_AddElement
<1> DEFINE pruned(segs) == {e \in DOMAIN segs : EventLog!Kept(e)}
<1>6. EventLog!Prune(segments) = [d \in pruned(segments) |-> segments[d]]
      /\ EventLog!Prune(created) = [d \in pruned(created) |-> created[d]]
  BY DEF EventLog!Prune
<1>7. EventLog!SegmentFile = IF file = today /\ today \in DOMAIN segments THEN segments
                             ELSE EventLog!Prune(created)
  BY <1>1, Zenon DEF EventLog!SegmentFile
<1>8. pruned(segments) \in SUBSET DOMAIN segments
      /\ pruned(created) \in SUBSET (DOMAIN segments \cup {today})
      /\ DOMAIN created = DOMAIN segments \cup {today}
  OBVIOUS
<1>9. IsFiniteSet(pruned(segments)) /\ IsFiniteSet(pruned(created))
  BY <1>2, <1>5, <1>8, FS_Subset
<1>10. Rotated(now, segments, EventLog!Prune(segments))
  BY <1>1, <1>2, <1>6, <1>9 DEF Rotated
<1>11. /\ \A d \in DOMAIN segments : created[d] = segments[d]
       /\ today \notin DOMAIN segments => created[today] = [lines |-> <<>>, dangling |-> FALSE]
       /\ \A d \in DOMAIN created : created[d] \in Segment
  BY <1>2, <1>3
<1>12. Rotated(now, segments, EventLog!Prune(created))
  <2> HIDE DEF created, today
  <2> QED
    BY <1>1, <1>6, <1>8, <1>9, <1>11 DEF Rotated, today
<1>13. today \in DOMAIN EventLog!Prune(created)
  BY <1>1, <1>6, <1>8
<1> HIDE DEF created, today
<1> QED
  BY <1>4, <1>7, <1>10, <1>12, <1>13 DEF today

\* The next event of the batch is written on a line of its own.
LEMMA LineStores ==
    ASSUME EventLog!EventLogAssumption,
           NEW t, NEW segs, NEW w, NEW l, NEW acc, NEW n, NEW k, OnDisk(t, segs, w, l, acc, n, k),
           w < Len(l), DayOf(t) \in DOMAIN segs, NEW segs1,
           segs1 = [segs EXCEPT ![DayOf(t)].lines = Append(@, l[w + 1])]
    PROVE  OnDisk(t, segs1, w + 1, l, acc, n, k)
<1> DEFINE today == DayOf(t)
           e1 == l[w + 1]
           longer == Append(segs[today].lines, e1)
           segment == [segs[today] EXCEPT !.lines = longer]
<1>1. /\ t \in Nat /\ n \in Nat /\ Shelved(t, segs, n) /\ Accounted(t, segs, l, acc, n)
      /\ OneDate(segs, l, acc) /\ Queued(t, l, n) /\ w \in 0..Len(l)
  BY DEF OnDisk
<1>2. Len(l) \in Nat /\ w + 1 \in 1..Len(l) /\ w \in Nat /\ DOMAIN l = 1..Len(l)
  BY <1>1 DEF Queued
<1>3. e1 \in Dated /\ e1.id[1] <= n /\ e1.at <= t + LogDay /\ e1 \in EventLog!Range(l)
      /\ \A e \in acc : e1.id # e.id
  BY <1>1, <1>2 DEF Queued, EventLog!Range, Accounted
<1>4. segs[today] \in Segment
  BY <1>1 DEF Shelved
<1>5. /\ longer \in Seq(Dated)
      /\ EventLog!Range(longer) = EventLog!Range(segs[today].lines) \cup {e1}
  <2>1. segs[today].lines \in Seq(Dated)
    BY <1>4 DEF Segment
  <2> DEFINE ls == segs[today].lines
  <2>2. /\ longer \in Seq(Dated) /\ DOMAIN longer = 1..Len(ls) + 1 /\ Len(ls) \in Nat
        /\ DOMAIN ls = 1..Len(ls) /\ longer[Len(ls) + 1] = e1
        /\ \A i \in 1..Len(ls) : longer[i] = ls[i]
    BY <1>3, <2>1
  <2> HIDE DEF longer, ls
  <2>3. EventLog!Range(longer) \subseteq EventLog!Range(ls) \cup {e1}
    <3>1. \A i \in DOMAIN longer : i = Len(ls) + 1 \/ i \in DOMAIN ls
      BY <2>2
    <3> QED
      BY <2>2, <3>1 DEF EventLog!Range
  <2>4. EventLog!Range(ls) \subseteq EventLog!Range(longer)
    <3>1. \A i \in DOMAIN ls : i \in DOMAIN longer
      BY <2>2
    <3> QED
      BY <2>2, <3>1 DEF EventLog!Range
  <2>5. Len(ls) + 1 \in DOMAIN longer
    BY <2>2
  <2>6. e1 \in EventLog!Range(longer)
    BY <2>2, <2>5 DEF EventLog!Range
  <2> QED
    BY <2>2, <2>3, <2>4, <2>6 DEF ls
<1>6. segment \in Segment /\ segment.lines = longer /\ segment.dangling = segs[today].dangling
  BY <1>4, <1>5 DEF Segment
<1>7. segs1 = [segs EXCEPT ![today] = segment] /\ segs \in [DOMAIN segs -> Segment]
  BY <1>1 DEF Shelved
<1> HIDE DEF today, segment, longer, e1
<1>8. /\ DOMAIN segs1 = DOMAIN segs /\ segs1 \in [DOMAIN segs1 -> Segment]
      /\ segs1[today] = segment /\ \A d \in DOMAIN segs : d # today => segs1[d] = segs[d]
  BY <1>6, <1>7 DEF today
<1>9. /\ LinesIn(segs1, today) = LinesIn(segs, today) \cup {e1}
      /\ \A d \in DOMAIN segs : d # today => LinesIn(segs1, d) = LinesIn(segs, d)
      /\ \A d \in DOMAIN segs : LinesIn(segs1, d) \subseteq LinesIn(segs, d) \cup {e1}
      /\ \A d \in DOMAIN segs : segs1[d].dangling = segs[d].dangling
      /\ today \in DOMAIN segs
  BY <1>5, <1>6, <1>8 DEF LinesIn, today
<1>10. today \in Nat /\ e1.at < (today + 2) * LogDay
  <2> DEFINE c == today * LogDay
  <2>1. today \in Nat /\ c \in Nat /\ t < c + LogDay /\ LogDay \in Nat
    BY <1>1, DaysPass DEF today
  <2>2. (today + 2) * LogDay = c + 2 * LogDay
    BY <2>1
  <2> HIDE DEF c
  <2>3. e1.at \in Int
    BY <1>3 DEF Dated
  <2> QED
    BY <1>1, <1>3, <2>1, <2>2, <2>3
<1>11. Shelved(t, segs1, n)
  <2>1. ASSUME NEW d \in DOMAIN segs, NEW e \in LinesIn(segs1, d)
        PROVE  e.id[1] <= n /\ e.at < (d + 2) * LogDay
    <3>1. CASE e \in LinesIn(segs, d)
      BY <1>1, <3>1 DEF Shelved
    <3>2. CASE e = e1 /\ d = today
      BY <1>3, <1>10, <3>2
    <3> QED
      BY <1>9, <2>1, <3>1, <3>2
  <2> QED
    BY <1>1, <1>8, <2>1 DEF Shelved
<1>12. Accounted(t, segs1, l, acc, n)
  <2>1. ASSUME NEW e \in acc, NEW d \in DOMAIN segs, NEW x \in LinesIn(segs1, d), x.id = e.id
        PROVE  d * LogDay <= e.written
    <3>1. x \in LinesIn(segs, d)
      BY <1>3, <1>9, <2>1
    <3> QED
      BY <1>1, <2>1, <3>1 DEF Accounted
  <2> QED
    BY <1>1, <1>8, <2>1 DEF Accounted
<1>13. \A x : Recorded(x, segs1, l, acc) => Recorded(x, segs, l, acc)
  BY <1>3, <1>8, <1>9 DEF Recorded
<1>14. OneDate(segs1, l, acc)
  BY <1>1, <1>13 DEF OneDate
<1>15. Lost(segs1, acc) \subseteq Lost(segs, acc) /\ Dangling(segs1) \subseteq Dangling(segs)
  <2>1. \A d \in DOMAIN segs : LinesIn(segs, d) \subseteq LinesIn(segs1, d)
    BY <1>9
  <2> QED
    BY <1>8, <1>9, <2>1 DEF Lost, Dangling
<1>16. Missing(t, segs1, w + 1, l) \subseteq Missing(t, segs, w, l)
  <2> SUFFICES ASSUME NEW x \in Missing(t, segs1, w + 1, l) PROVE x \in Missing(t, segs, w, l)
    OBVIOUS
  <2>1. PICK i \in 1..(w + 1) : x = l[i]
    BY DEF Missing
  <2>2. \A y \in LinesIn(segs1, today) : y.id # x.id
    BY <1>8, <1>9 DEF Missing, LinesAt, today
  <2>3. x # e1
    BY <1>9, <2>2
  <2>4. i \in 1..w
    BY <1>2, <2>1, <2>3 DEF e1
  <2>5. \A y \in LinesAt(segs, today) : y.id # x.id
    BY <1>9, <2>2 DEF LinesAt
  <2> QED
    BY <2>1, <2>4, <2>5 DEF Missing, today
<1>17. Spared(t, segs1, w + 1, l, acc, k)
  BY <1>15, <1>16, FewerSpare
<1> QED
  BY <1>1, <1>2, <1>11, <1>12, <1>14, <1>17 DEF OnDisk

\* Segments of which the same can be read.
LEMMA MarkedStores ==
    ASSUME NEW t, NEW segs, NEW w, NEW l, NEW acc, NEW n, NEW k, OnDisk(t, segs, w, l, acc, n, k),
           NEW segs1, segs1 \in [DOMAIN segs -> Segment],
           \A d \in DOMAIN segs : segs1[d].lines = segs[d].lines
    PROVE  /\ Shelved(t, segs1, n) /\ Accounted(t, segs1, l, acc, n) /\ OneDate(segs1, l, acc)
           /\ Lost(segs1, acc) = Lost(segs, acc)
           /\ \A v : Missing(t, segs1, v, l) = Missing(t, segs, v, l)
<1>1. Shelved(t, segs, n) /\ Accounted(t, segs, l, acc, n) /\ OneDate(segs, l, acc)
  BY DEF OnDisk
<1>2. DOMAIN segs1 = DOMAIN segs /\ segs1 \in [DOMAIN segs1 -> Segment]
  OBVIOUS
<1>3. \A e \in DOMAIN segs : LinesIn(segs1, e) = LinesIn(segs, e)
  BY DEF LinesIn
<1>4. Shelved(t, segs1, n) /\ Accounted(t, segs1, l, acc, n)
  BY <1>1, <1>2, <1>3 DEF Shelved, Accounted
<1>5. \A x : Recorded(x, segs1, l, acc) <=> Recorded(x, segs, l, acc)
  BY <1>2, <1>3 DEF Recorded
<1>6. OneDate(segs1, l, acc)
  BY <1>1, <1>5 DEF OneDate
<1>7. Lost(segs1, acc) = Lost(segs, acc)
  BY <1>2, <1>3 DEF Lost
<1>8. LinesAt(segs1, DayOf(t)) = LinesAt(segs, DayOf(t))
  BY <1>2, <1>3 DEF LinesAt
<1>9. \A v : Missing(t, segs1, v, l) = Missing(t, segs, v, l)
  BY <1>8 DEF Missing
<1> QED
  BY <1>4, <1>6, <1>7, <1>9

\* A line that dangles, or does not any more.
LEMMA MarkDangling ==
    ASSUME NEW segs, segs \in [DOMAIN segs -> Segment], NEW d \in DOMAIN segs
    PROVE  LET segs1 == [segs EXCEPT ![d].dangling = TRUE] IN
           /\ segs1 \in [DOMAIN segs -> Segment] /\ Dangling(segs1) = Dangling(segs) \cup {d}
           /\ \A e \in DOMAIN segs : segs1[e].lines = segs[e].lines
<1> DEFINE segment == [segs[d] EXCEPT !.dangling = TRUE]
           segs1 == [segs EXCEPT ![d] = segment]
<1>1. segs[d] \in Segment
  OBVIOUS
<1>2. segment \in Segment /\ segment.lines = segs[d].lines /\ segment.dangling
  BY <1>1 DEF Segment
<1> HIDE DEF segment
<1>3. /\ DOMAIN segs1 = DOMAIN segs /\ segs1 \in [DOMAIN segs -> Segment]
      /\ segs1[d] = segment /\ \A e \in DOMAIN segs : e # d => segs1[e] = segs[e]
  BY <1>2
<1> HIDE DEF segs1
<1>4. Dangling(segs1) = Dangling(segs) \cup {d}
  BY <1>2, <1>3 DEF Dangling
<1>5. /\ segs1 \in [DOMAIN segs -> Segment] /\ Dangling(segs1) = Dangling(segs) \cup {d}
      /\ \A e \in DOMAIN segs : segs1[e].lines = segs[e].lines
  BY <1>2, <1>3, <1>4
<1> QED
  BY <1>5 DEF segs1, segment

LEMMA MarkWhole ==
    ASSUME NEW segs, segs \in [DOMAIN segs -> Segment], NEW d \in DOMAIN segs
    PROVE  LET segs1 == [segs EXCEPT ![d].dangling = FALSE] IN
           /\ segs1 \in [DOMAIN segs -> Segment] /\ Dangling(segs1) = Dangling(segs) \ {d}
           /\ \A e \in DOMAIN segs : segs1[e].lines = segs[e].lines
<1> DEFINE segment == [segs[d] EXCEPT !.dangling = FALSE]
           segs1 == [segs EXCEPT ![d] = segment]
<1>1. segs[d] \in Segment
  OBVIOUS
<1>2. segment \in Segment /\ segment.lines = segs[d].lines /\ ~segment.dangling
  BY <1>1 DEF Segment
<1> HIDE DEF segment
<1>3. /\ DOMAIN segs1 = DOMAIN segs /\ segs1 \in [DOMAIN segs -> Segment]
      /\ segs1[d] = segment /\ \A e \in DOMAIN segs : e # d => segs1[e] = segs[e]
  BY <1>2
<1> HIDE DEF segs1
<1>4. Dangling(segs1) = Dangling(segs) \ {d}
  BY <1>2, <1>3 DEF Dangling
<1>5. /\ segs1 \in [DOMAIN segs -> Segment] /\ Dangling(segs1) = Dangling(segs) \ {d}
      /\ \A e \in DOMAIN segs : segs1[e].lines = segs[e].lines
  BY <1>2, <1>3, <1>4
<1> QED
  BY <1>5 DEF segs1, segment

\* The next event of the batch is swallowed by the line that dangles.
LEMMA SwallowStores ==
    ASSUME NEW t, NEW segs, NEW w, NEW l, NEW acc, NEW n, NEW k, OnDisk(t, segs, w, l, acc, n, k),
           w < Len(l), NEW d \in DOMAIN segs, segs[d].dangling,
           NEW segs1, segs1 \in [DOMAIN segs -> Segment],
           Dangling(segs1) = Dangling(segs) \ {d},
           \A e \in DOMAIN segs : segs1[e].lines = segs[e].lines
    PROVE  OnDisk(t, segs1, w + 1, l, acc, n, k)
<1>1. /\ Shelved(t, segs1, n) /\ Accounted(t, segs1, l, acc, n) /\ OneDate(segs1, l, acc)
      /\ Lost(segs1, acc) = Lost(segs, acc)
      /\ \A v : Missing(t, segs1, v, l) = Missing(t, segs, v, l)
      /\ Dangling(segs1) = Dangling(segs) \ {d}
  BY MarkedStores
<1>2. t \in Nat /\ n \in Nat /\ w \in 0..Len(l) /\ Queued(t, l, n) /\ Len(l) \in Nat
  BY DEF OnDisk, Queued
<1>3. w \in Nat /\ w + 1 \in 0..Len(l)
  BY <1>2
<1>4. Missing(t, segs1, w + 1, l) \subseteq Missing(t, segs, w, l) \cup {l[w + 1]}
  <2>1. \A i \in 1..(w + 1) : i \in 1..w \/ i = w + 1
    BY <1>3
  <2>2. Missing(t, segs, w + 1, l) \subseteq Missing(t, segs, w, l) \cup {l[w + 1]}
    BY <2>1 DEF Missing
  <2> QED
    BY <1>1, <2>2
<1> DEFINE m == Missing(t, segs, w, l)
           m1 == Missing(t, segs1, w + 1, l)
           ds == Dangling(segs)
           x == l[w + 1]
           c == Cardinality(Lost(segs, acc))
<1>5. /\ IsFiniteSet(m) /\ IsFiniteSet(ds) /\ c \in Nat /\ Cardinality(m) \in Nat
      /\ Cardinality(ds) \in Nat
  BY CountsAreFinite
<1>6. k \in Nat /\ c + Cardinality(m) + Cardinality(ds) <= k
  BY DEF OnDisk, Spared
<1>7. d \in ds
  BY DEF Dangling
<1> HIDE DEF m, m1, ds, c, x
<1>8. IsFiniteSet(m \cup {x}) /\ Cardinality(m \cup {x}) <= Cardinality(m) + 1
  <2>1. /\ IsFiniteSet(m \cup {x})
        /\ Cardinality(m \cup {x}) = IF x \in m THEN Cardinality(m) ELSE Cardinality(m) + 1
    BY <1>5, FS_AddElement
  <2> QED
    BY <1>5, <2>1
<1>9. m1 \in SUBSET (m \cup {x})
  BY <1>4 DEF m, m1, x
<1>10. /\ IsFiniteSet(m1) /\ Cardinality(m1) <= Cardinality(m \cup {x})
       /\ Cardinality(m1) \in Nat /\ Cardinality(m \cup {x}) \in Nat
  BY <1>8, <1>9, FS_Subset, FS_CardinalityType
<1>11. Cardinality(ds \ {d}) = Cardinality(ds) - 1
  BY <1>5, <1>7, FS_RemoveElement
<1>12. c + Cardinality(m1) + Cardinality(ds \ {d}) <= k
  BY <1>5, <1>6, <1>8, <1>10, <1>11
<1>13. Spared(t, segs1, w + 1, l, acc, k)
  BY <1>1, <1>6, <1>10, <1>12 DEF Spared, m1, ds, c
<1> QED
  BY <1>1, <1>2, <1>3, <1>13 DEF OnDisk

\* A write torn leaves a line that dangles, and ends the batch.
LEMMA TearStores ==
    ASSUME NEW t, NEW segs, NEW w, NEW l, NEW acc, NEW n, NEW k, OnDisk(t, segs, w, l, acc, n, k),
           NEW d \in DOMAIN segs, NEW segs1, segs1 \in [DOMAIN segs -> Segment],
           Dangling(segs1) = Dangling(segs) \cup {d},
           \A e \in DOMAIN segs : segs1[e].lines = segs[e].lines
    PROVE  OnDisk(t, segs1, 0, l, acc, n, k + 1)
<1>1. /\ Shelved(t, segs1, n) /\ Accounted(t, segs1, l, acc, n) /\ OneDate(segs1, l, acc)
      /\ Lost(segs1, acc) = Lost(segs, acc)
      /\ Dangling(segs1) = Dangling(segs) \cup {d}
  BY MarkedStores
<1>2. t \in Nat /\ n \in Nat /\ 0 \in 0..Len(l) /\ Queued(t, l, n)
  BY DEF OnDisk, Queued
<1>3. Missing(t, segs1, 0, l) = {}
  BY DEF Missing
<1> DEFINE ds == Dangling(segs)
           c == Cardinality(Lost(segs, acc))
<1>4. /\ IsFiniteSet(ds) /\ c \in Nat /\ Cardinality(Missing(t, segs, w, l)) \in Nat
      /\ Cardinality(ds) \in Nat
  BY CountsAreFinite
<1>5. k \in Nat /\ c + Cardinality(Missing(t, segs, w, l)) + Cardinality(ds) <= k
  BY DEF OnDisk, Spared
<1> HIDE DEF ds, c
<1>6. /\ IsFiniteSet(ds \cup {d})
      /\ Cardinality(ds \cup {d}) = IF d \in ds THEN Cardinality(ds) ELSE Cardinality(ds) + 1
  BY <1>4, FS_AddElement
<1>7. IsFiniteSet({}) /\ Cardinality({}) = 0
  BY FS_EmptySet
<1>8. k + 1 \in Nat /\ c + 0 + Cardinality(ds \cup {d}) <= k + 1
  BY <1>4, <1>5, <1>6
<1>9. Spared(t, segs1, 0, l, acc, k + 1)
  BY <1>1, <1>3, <1>7, <1>8 DEF Spared, c, ds
<1> QED
  BY <1>1, <1>2, <1>9 DEF OnDisk

\* The batch ends without a trace, or nothing of it was written yet.
LEMMA EndStores ==
    ASSUME NEW t, NEW segs, NEW w, NEW l, NEW acc, NEW n, NEW k, OnDisk(t, segs, w, l, acc, n, k)
    PROVE  OnDisk(t, segs, 0, l, acc, n, k) /\ OnDisk(t, segs, 0, l, acc, n, k + 1)
<1>1. Missing(t, segs, 0, l) = {}
  BY DEF Missing
<1>2. Spared(t, segs, 0, l, acc, k)
  BY <1>1, FewerSpare
<1>3. /\ Cardinality(Lost(segs, acc)) \in Nat /\ Cardinality(Dangling(segs)) \in Nat
      /\ IsFiniteSet({}) /\ Cardinality({}) = 0
  BY CountsAreFinite, FS_EmptySet
<1>4. Spared(t, segs, 0, l, acc, k + 1)
  <2> DEFINE c == Cardinality(Lost(segs, acc))
             e == Cardinality(Dangling(segs))
             m == Cardinality(Missing(t, segs, 0, l))
  <2>1. m = 0 /\ c \in Nat /\ e \in Nat /\ k \in Nat /\ c + m + e <= k
    BY <1>1, <1>2, <1>3 DEF Spared
  <2>2. k + 1 \in Nat /\ c + m + e <= k + 1
    <3> HIDE DEF c, e, m
    <3> QED
      BY <2>1
  <2> QED
    BY <1>2, <2>2 DEF Spared
<1>5. 0 \in 0..Len(l)
  BY DEF OnDisk, Queued
<1> QED
  BY <1>2, <1>4, <1>5 DEF OnDisk

\* The whole batch is written, and its call returns.
FiledAt(t, l) == {[id |-> x.id, at |-> x.at, written |-> t] : x \in EventLog!Range(l)}

LEMMA AcceptStores ==
    ASSUME EventLog!EventLogAssumption, NEW t, NEW segs, NEW l, NEW acc, NEW n, NEW k,
           OnDisk(t, segs, Len(l), l, acc, n, k), DayOf(t) \in DOMAIN segs
    PROVE  OnDisk(t, segs, 0, <<>>, acc \cup FiledAt(t, l), n, k)
<1> DEFINE new == FiledAt(t, l)
           today == DayOf(t)
           Filing(x) == [id |-> x.id, at |-> x.at, written |-> t]
<1>1. /\ t \in Nat /\ n \in Nat /\ Shelved(t, segs, n) /\ Accounted(t, segs, l, acc, n)
      /\ OneDate(segs, l, acc) /\ Queued(t, l, n)
  BY DEF OnDisk
<1>2. Len(l) \in Nat /\ DOMAIN l = 1..Len(l) /\ l \in Seq(Dated)
  BY <1>1 DEF Queued
<1>3. EventLog!Range(l) = {l[i] : i \in 1..Len(l)} /\ EventLog!Range(l) \in SUBSET Dated
  BY <1>2 DEF EventLog!Range
<1>4. IsFiniteSet(EventLog!Range(l)) /\ IsFiniteSet(new)
  <2>1. IsFiniteSet(1..Len(l))
    BY <1>2, FS_Interval
  <2>2. IsFiniteSet(EventLog!Range(l))
    BY <1>3, <2>1, FiniteImage
  <2> DEFINE f == [x \in EventLog!Range(l) |-> Filing(x)]
  <2>3. IsFiniteSet({f[x] : x \in EventLog!Range(l)})
    <3> HIDE DEF f
    <3> QED
      BY <2>2, FiniteImage
  <2>4. {f[x] : x \in EventLog!Range(l)} = new
    BY DEF FiledAt
  <2> QED
    BY <2>2, <2>3, <2>4
<1>5. ASSUME NEW e \in new
      PROVE  /\ e \in Filings /\ e.written = t /\ e.id[1] <= n
             /\ \E x \in EventLog!Range(l) : x.id = e.id /\ x.at = e.at /\ e = Filing(x)
  <2>1. PICK x \in EventLog!Range(l) : e = Filing(x)
    BY DEF FiledAt
  <2>2. PICK i \in DOMAIN l : x = l[i]
    BY DEF EventLog!Range
  <2>3. x \in Dated /\ x.id[1] <= n
    BY <1>1, <1>3, <2>2 DEF Queued
  <2>4. e.id = x.id /\ e.at = x.at /\ e.written = t
    BY <2>1
  <2>5. e \in Filings
    BY <1>1, <2>1, <2>3 DEF Dated, Filings
  <2> QED
    BY <2>1, <2>3, <2>4, <2>5
<1> HIDE DEF new, today
<1>6. Queued(t, <<>>, n)
  BY DEF Queued
<1>7. Accounted(t, segs, <<>>, acc \cup new, n)
  <2>1. IsFiniteSet(acc \cup new) /\ acc \cup new \in SUBSET Filings
    BY <1>1, <1>4, <1>5, FS_Union DEF Accounted
  <2>2. ASSUME NEW e \in acc \cup new
        PROVE  /\ e.id[1] <= n /\ e.written <= t
               /\ KeptAt(t, DayOf(e.written)) => DayOf(e.written) \in DOMAIN segs
               /\ \A d \in DOMAIN segs : \A x \in LinesIn(segs, d) :
                    x.id = e.id => d * LogDay <= e.written
    <3>1. CASE e \in acc
      BY <1>1, <3>1 DEF Accounted
    <3>2. CASE e \in new
      BY <1>1, <1>5, <3>2 DEF Shelved
    <3> QED
      BY <3>1, <3>2
  <2> QED
    BY <2>1, <2>2 DEF Accounted
<1>8. OneDate(segs, <<>>, acc \cup new)
  <2>1. ASSUME NEW x, Recorded(x, segs, <<>>, acc \cup new)
        PROVE  \E y : Recorded(y, segs, l, acc) /\ y.id = x.id /\ y.at = x.at
    <3>1. EventLog!Range(<<>>) = {}
      BY DEF EventLog!Range
    <3>2. CASE x \in new
      <4>1. PICK y \in EventLog!Range(l) : y.id = x.id /\ y.at = x.at
        BY <1>5, <3>2
      <4> QED
        BY <4>1 DEF Recorded
    <3>3. CASE x \notin new
      BY <2>1, <3>1, <3>3 DEF Recorded
    <3> QED
      BY <3>2, <3>3
  <2> QED
    BY <1>1, <2>1 DEF OneDate
<1> DEFINE m == Missing(t, segs, Len(l), l)
           lost == Lost(segs, acc)
           more == {Filing(x) : x \in m}
<1>9. Lost(segs, acc \cup new) \subseteq lost \cup more
  <2> SUFFICES ASSUME NEW e \in Lost(segs, acc \cup new), e \notin acc PROVE e \in more
    BY DEF Lost
  <2>1. e \in new /\ \A y \in LinesIn(segs, DayOf(e.written)) : y.id # e.id
    BY DEF Lost
  <2>2. PICK x \in EventLog!Range(l) : x.id = e.id /\ e = Filing(x)
    BY <1>5, <2>1
  <2>3. \A y \in LinesAt(segs, DayOf(t)) : y.id # x.id
    BY <1>5, <2>1, <2>2 DEF LinesAt
  <2>4. x \in m
    BY <1>3, <2>2, <2>3 DEF Missing
  <2> QED
    BY <2>2, <2>4
<1>10. /\ IsFiniteSet(lost) /\ IsFiniteSet(m) /\ Cardinality(lost) \in Nat
       /\ Cardinality(m) \in Nat /\ Cardinality(Dangling(segs)) \in Nat
  BY CountsAreFinite
<1>11. k \in Nat /\ Cardinality(lost) + Cardinality(m) + Cardinality(Dangling(segs)) <= k
  BY DEF OnDisk, Spared
<1> HIDE DEF m, lost, Filing
<1>12. IsFiniteSet(more) /\ Cardinality(more) <= Cardinality(m)
  <2> DEFINE f == [x \in m |-> Filing(x)]
  <2>1. {f[x] : x \in m} = more
    OBVIOUS
  <2> HIDE DEF f, more
  <2> QED
    BY <1>10, <2>1, FiniteImage
<1> HIDE DEF more
<1>13. /\ IsFiniteSet(lost \cup more) /\ Cardinality(more) \in Nat
       /\ Cardinality(lost \cup more) \in Nat
       /\ Cardinality(lost \cup more) <= Cardinality(lost) + Cardinality(more)
  <2>1. IsFiniteSet(lost \cup more) /\ IsFiniteSet(lost \cap more)
    BY <1>10, <1>12, FS_Union, FS_Intersection
  <2>2. /\ Cardinality(lost \cup more)
            = Cardinality(lost) + Cardinality(more) - Cardinality(lost \cap more)
        /\ Cardinality(lost \cap more) \in Nat /\ Cardinality(more) \in Nat
        /\ Cardinality(lost \cup more) \in Nat
    BY <1>10, <1>12, <2>1, FS_Union, FS_CardinalityType
  <2> QED
    BY <1>10, <2>1, <2>2
<1>14. /\ Cardinality(Lost(segs, acc \cup new)) <= Cardinality(lost \cup more)
       /\ Cardinality(Lost(segs, acc \cup new)) \in Nat
  BY <1>9, <1>13, FS_Subset, FS_CardinalityType
<1>15. Missing(t, segs, 0, <<>>) = {} /\ IsFiniteSet({}) /\ Cardinality({}) = 0
  BY FS_EmptySet DEF Missing
<1>16. Cardinality(Lost(segs, acc \cup new)) + 0 + Cardinality(Dangling(segs)) <= k
  BY <1>10, <1>11, <1>12, <1>13, <1>14
<1>17. Spared(t, segs, 0, <<>>, acc \cup new, k)
  BY <1>11, <1>15, <1>16 DEF Spared
<1>18. 0 \in 0..Len(<<>>)
  OBVIOUS
<1> QED
  BY <1>1, <1>6, <1>7, <1>8, <1>17, <1>18 DEF OnDisk, new

\* A batch is published: one not seen before, or the last one again.
Fresh(t, l, n) ==
    /\ l \in Seq(Dated)
    /\ \E u \in Int : u <= t + LogDay /\ \A i \in DOMAIN l : l[i].id[1] = n /\ l[i].at = u

LEMMA PublishStores ==
    ASSUME NEW t, NEW segs, NEW l, NEW acc, NEW n, NEW k, OnDisk(t, segs, 0, l, acc, n, k),
           NEW l1, l1 = l \/ Fresh(t, l1, n + 1)
    PROVE  OnDisk(t, segs, 0, l1, acc, n + 1, k)
<1>1. /\ t \in Nat /\ n \in Nat /\ Shelved(t, segs, n) /\ Accounted(t, segs, l, acc, n)
      /\ OneDate(segs, l, acc) /\ Queued(t, l, n) /\ Spared(t, segs, 0, l, acc, k)
  BY DEF OnDisk
<1>2. \A d \in DOMAIN segs : \A x \in LinesIn(segs, d) : x \in Dated /\ x.id[1] <= n
  <2> SUFFICES ASSUME NEW d \in DOMAIN segs, NEW x \in LinesIn(segs, d)
               PROVE  x \in Dated /\ x.id[1] <= n
    OBVIOUS
  <2>1. segs[d] \in Segment
    BY <1>1 DEF Shelved
  <2>2. segs[d].lines \in Seq(Dated)
    BY <2>1 DEF Segment
  <2>3. x \in Dated
    BY <2>2 DEF LinesIn, EventLog!Range
  <2> QED
    BY <1>1, <2>3 DEF Shelved
<1>3. \A e \in acc : e \in Filings /\ e.id[1] <= n
  BY <1>1 DEF Accounted
<1>4. \A x \in Dated \cup Filings : x.id[1] \in Nat
  BY DEF Dated, Filings
<1>5. \A i \in DOMAIN l : l[i] \in Dated /\ l[i].id[1] <= n
  BY <1>1 DEF Queued
<1>6. \A i \in Nat : i <= n => i <= n + 1 /\ i # n + 1
  BY <1>1
<1>7. Shelved(t, segs, n + 1)
  BY <1>1, <1>2, <1>4, <1>6 DEF Shelved
<1>8. Missing(t, segs, 0, l1) = {} /\ Missing(t, segs, 0, l) = {}
  BY DEF Missing
<1>9. Spared(t, segs, 0, l1, acc, k)
  BY <1>1, <1>8 DEF Spared
<1>10. CASE l1 = l
  <2>1. Queued(t, l1, n + 1)
    BY <1>1, <1>4, <1>5, <1>6, <1>10 DEF Queued
  <2>2. Accounted(t, segs, l1, acc, n + 1)
    BY <1>1, <1>3, <1>4, <1>6, <1>10 DEF Accounted
  <2>3. n + 1 \in Nat /\ 0 \in 0..Len(l1)
    BY <1>1, <1>10 DEF Queued
  <2> QED
    BY <1>1, <1>7, <1>9, <1>10, <2>1, <2>2, <2>3 DEF OnDisk
<1>11. CASE Fresh(t, l1, n + 1)
  <2>1. PICK u \in Int : /\ l1 \in Seq(Dated) /\ u <= t + LogDay
                         /\ \A i \in DOMAIN l1 : l1[i].id[1] = n + 1 /\ l1[i].at = u
    BY <1>11 DEF Fresh
  <2>2. n + 1 \in Nat /\ 0 \in 0..Len(l1) /\ n + 1 <= n + 1
    BY <1>1, <2>1
  <2>3. Queued(t, l1, n + 1)
    BY <2>1, <2>2 DEF Queued
  <2>4. \A e \in acc : \A i \in DOMAIN l1 : l1[i].id # e.id
    BY <1>3, <1>4, <1>6, <2>1
  <2>5. Accounted(t, segs, l1, acc, n + 1)
    BY <1>1, <1>3, <1>4, <1>6, <2>4 DEF Accounted
  <2>6. ASSUME NEW x, Recorded(x, segs, l1, acc)
        PROVE  \/ Recorded(x, segs, l, acc) /\ x.id[1] # n + 1
               \/ x.id[1] = n + 1 /\ x.at = u
    <3>1. CASE \E d \in DOMAIN segs : x \in LinesIn(segs, d)
      BY <1>2, <1>4, <1>6, <3>1 DEF Recorded
    <3>2. CASE x \in EventLog!Range(l1)
      BY <2>1, <3>2 DEF EventLog!Range
    <3>3. CASE x \in acc
      BY <1>3, <1>4, <1>6, <3>3 DEF Recorded
    <3> QED
      BY <2>6, <3>1, <3>2, <3>3 DEF Recorded
  <2>7. OneDate(segs, l1, acc)
    BY <1>1, <2>6 DEF OneDate
  <2> QED
    BY <1>1, <1>7, <1>9, <2>2, <2>3, <2>5, <2>7 DEF OnDisk
<1> QED
  BY <1>10, <1>11

\* Time passes between two batches.
LEMMA TickStores ==
    ASSUME EventLog!EventLogAssumption,
           NEW t, NEW segs, NEW l, NEW acc, NEW n, NEW k, OnDisk(t, segs, 0, l, acc, n, k)
    PROVE  OnDisk(t + 1, segs, 0, l, acc, n, k)
<1>1. /\ t \in Nat /\ n \in Nat /\ Shelved(t, segs, n) /\ Accounted(t, segs, l, acc, n)
      /\ OneDate(segs, l, acc) /\ Queued(t, l, n)
  BY DEF OnDisk
<1>2. LogDay \in Nat \ {0} /\ Retention \in Nat
  BY DEF EventLog!EventLogAssumption
<1>3. Shelved(t + 1, segs, n)
  <2>1. ASSUME NEW d \in DOMAIN segs PROVE d * LogDay <= t + 1
    <3> DEFINE c == d * LogDay
    <3>1. d \in Nat /\ c <= t
      BY <1>1 DEF Shelved
    <3>2. c \in Nat
      BY <1>2, <3>1
    <3> HIDE DEF c
    <3>3. c <= t + 1
      BY <1>1, <3>1, <3>2
    <3> QED
      BY <3>3 DEF c
  <2> QED
    BY <1>1, <2>1 DEF Shelved
<1>4. Queued(t + 1, l, n)
  <2>1. \A z \in Int : z <= t + LogDay => z <= t + 1 + LogDay
    BY <1>1, <1>2
  <2>2. \A i \in DOMAIN l : l[i] \in Dated
    BY <1>1 DEF Queued
  <2>3. \A x \in Dated : x.at \in Int
    BY DEF Dated
  <2> QED
    BY <1>1, <2>1, <2>2, <2>3 DEF Queued
<1>5. \A d \in Nat : KeptAt(t + 1, d) => KeptAt(t, d)
  <2> SUFFICES ASSUME NEW d \in Nat, KeptAt(t + 1, d) PROVE KeptAt(t, d)
    OBVIOUS
  <2> DEFINE c == d * LogDay
  <2>1. c \in Nat
    BY <1>2
  <2>3. Retention <= 0 \/ c >= t + 1 - Retention - LogDay
    BY <1>1, <1>2, <2>1 DEF KeptAt
  <2>2. Retention <= 0 \/ c >= t - Retention - LogDay
    <3> HIDE DEF c
    <3> QED
      BY <1>1, <1>2, <2>1, <2>3
  <2> QED
    BY <2>2 DEF KeptAt
<1>6. \A e \in acc : e.written \in Nat /\ DayOf(e.written) \in Nat
  <2> SUFFICES ASSUME NEW e \in acc PROVE e.written \in Nat /\ DayOf(e.written) \in Nat
    OBVIOUS
  <2>1. e \in Filings
    BY <1>1 DEF Accounted
  <2>2. e.written \in Nat
    BY <2>1 DEF Filings
  <2> QED
    BY <2>2, DaysPass
<1>7. Accounted(t + 1, segs, l, acc, n)
  <2>1. \A z \in Nat : z <= t => z <= t + 1
    BY <1>1
  <2> QED
    BY <1>1, <1>5, <1>6, <2>1 DEF Accounted
<1>8. Missing(t + 1, segs, 0, l) = {}
  BY DEF Missing
<1>9. Spared(t + 1, segs, 0, l, acc, k)
  BY <1>8, FewerSpare
<1>10. t + 1 \in Nat /\ 0 \in 0..Len(l)
  BY <1>1 DEF Queued
<1> QED
  BY <1>1, <1>3, <1>4, <1>7, <1>9, <1>10 DEF OnDisk

\* What a batch under way has written already.
Done == IF batch = <<>> THEN 0 ELSE Len(last) - Len(batch)

Shelf ==
    /\ OnDisk(now, segments, Done, last, accepted, batches, torn)
    /\ batch \in Seq(Dated)
    /\ batch # <<>> => /\ Len(batch) <= Len(last)
                       /\ \A i \in 1..Len(batch) : batch[i] = last[Done + i]

LEMMA InitShelves ==
    ASSUME EventLog!EventLogAssumption, EventLog!Init PROVE Shelf
<1>1. /\ now = 0 /\ segments = <<>> /\ batch = <<>> /\ last = <<>> /\ accepted = {}
      /\ batches = 0 /\ torn = 0
  BY DEF EventLog!Init
<1>2. DOMAIN segments = {} /\ segments \in [{} -> Segment]
  BY <1>1
<1>3. IsFiniteSet({}) /\ Cardinality({}) = 0
  BY FS_EmptySet
<1>4. Shelved(0, segments, 0) /\ Queued(0, <<>>, 0) /\ Accounted(0, segments, <<>>, {}, 0)
  BY <1>2, <1>3 DEF Shelved, Queued, Accounted
<1>5. OneDate(segments, <<>>, {})
  BY <1>2 DEF OneDate, Recorded, EventLog!Range
<1>6. /\ Lost(segments, {}) = {} /\ Missing(0, segments, 0, <<>>) = {}
      /\ Dangling(segments) = {}
  BY <1>2 DEF Lost, Missing, Dangling
<1>7. Spared(0, segments, 0, <<>>, {}, 0)
  <2>1. 0 + 0 + 0 <= 0 /\ 0 \in Nat
    OBVIOUS
  <2> QED
    BY <1>3, <1>6, <2>1, Zenon DEF Spared
<1>8. OnDisk(0, segments, 0, <<>>, {}, 0, 0)
  BY <1>4, <1>5, <1>7 DEF OnDisk
<1> QED
  BY <1>1, <1>8 DEF Shelf, Done

\* A batch under way is neither empty nor longer than the one it is the rest of.
LEMMA BatchUnderWay ==
    ASSUME Shelf, batch # <<>>
    PROVE  /\ Len(last) \in Nat /\ Len(batch) \in 1..Len(last) /\ Done = Len(last) - Len(batch)
           /\ Done \in 0..(Len(last) - 1) /\ Head(batch) = last[Done + 1]
<1>1. Len(batch) \in Nat /\ Len(batch) # 0 /\ batch[1] = Head(batch)
  BY DEF Shelf
<1>2. Len(last) \in Nat
  BY DEF Shelf, OnDisk, Queued
<1>3. Len(batch) <= Len(last) /\ \A i \in 1..Len(batch) : batch[i] = last[Done + i]
  BY DEF Shelf
<1>4. Done = Len(last) - Len(batch)
  BY DEF Done
<1> QED
  BY <1>1, <1>2, <1>3, <1>4

LEMMA WriteShelves ==
    ASSUME EventLog!EventLogAssumption, Shelf, EventLog!Write PROVE Shelf'
<1> DEFINE segs == EventLog!SegmentFile
           today == DayOf(now)
           rest == Tail(batch)
<1>1. batch # <<>> /\ batch' = rest /\ UNCHANGED <<now, batches, torn>>
  BY DEF EventLog!Write
<1>2. /\ segments' = IF segs[today].dangling THEN [segs EXCEPT ![today].dangling = FALSE]
                     ELSE [segs EXCEPT ![today].lines = Append(@, Head(batch))]
      /\ accepted' = IF batch' # <<>> THEN accepted ELSE accepted \cup FiledAt(now, last)
      /\ last' = IF batch' = <<>> THEN <<>> ELSE last
  BY Zenon DEF EventLog!Write, EventLog!Today, DayOf, FiledAt
<1>3. /\ Len(last) \in Nat /\ Len(batch) \in 1..Len(last) /\ Done = Len(last) - Len(batch)
      /\ Done \in 0..(Len(last) - 1) /\ Head(batch) = last[Done + 1]
  BY <1>1, BatchUnderWay
<1>4. now \in Nat /\ Shelved(now, segments, batches)
  BY DEF Shelf, OnDisk
<1>5. Rotated(now, segments, segs) /\ today \in DOMAIN segs
  BY <1>4, SegmentsRotate
<1> HIDE DEF segs
<1>6. OnDisk(now, segs, Done, last, accepted, batches, torn)
  BY <1>5, RotatedStores DEF Shelf
<1>7. Done < Len(last) /\ Done + 1 = Len(last) - (Len(batch) - 1)
  BY <1>3
<1> HIDE DEF today
<1>8. OnDisk(now, segments', Done + 1, last, accepted, batches, torn)
  <2>1. CASE segs[today].dangling
    <3>1. segs \in [DOMAIN segs -> Segment]
      BY <1>6 DEF OnDisk, Shelved
    <3>2. segments' = [segs EXCEPT ![today].dangling = FALSE]
      BY <1>2, <2>1
    <3>3. /\ segments' \in [DOMAIN segs -> Segment]
          /\ Dangling(segments') = Dangling(segs) \ {today}
          /\ \A e \in DOMAIN segs : segments'[e].lines = segs[e].lines
      BY <1>5, <3>1, <3>2, MarkWhole
    <3> QED
      BY <1>5, <1>6, <1>7, <2>1, <3>3, SwallowStores
  <2>2. CASE ~segs[today].dangling
    <3>1. segments' = [segs EXCEPT ![today].lines = Append(@, last[Done + 1])]
      BY <1>2, <1>3, <2>2
    <3> QED
      BY <1>5, <1>6, <1>7, <3>1, LineStores DEF today
  <2> QED
    BY <2>1, <2>2
<1>9. batch \in Seq(Dated) /\ \A i \in 1..Len(batch) : batch[i] = last[Done + i]
  BY <1>1 DEF Shelf
<1>10. rest \in Seq(Dated) /\ Len(rest) = Len(batch) - 1 /\ Len(batch) \in Nat
       /\ \A i \in 1..Len(rest) : rest[i] = batch[i + 1]
  BY <1>1, <1>9
<1> HIDE DEF rest
<1>11. CASE rest # <<>>
  <2>1. last' = last /\ accepted' = accepted
    BY <1>1, <1>2, <1>11
  <2>2. Done' = Len(last) - Len(rest)
    BY <1>1, <1>11, <2>1 DEF Done
  <2>3. Done' = Done + 1
    BY <1>7, <1>10, <2>2
  <2>4. Len(rest) <= Len(last)
    BY <1>3, <1>10
  <2>5. ASSUME NEW i \in 1..Len(rest) PROVE rest[i] = last[Done + 1 + i]
    <3>1. i + 1 \in 1..Len(batch) /\ Done + (i + 1) = Done + 1 + i
      BY <1>3, <1>10
    <3> QED
      BY <1>9, <1>10, <3>1
  <2> QED
    BY <1>1, <1>8, <1>10, <2>1, <2>3, <2>4, <2>5 DEF Shelf
<1>12. CASE rest = <<>>
  <2>1. last' = <<>> /\ accepted' = accepted \cup FiledAt(now, last) /\ Done' = 0
    BY <1>1, <1>2, <1>12 DEF Done
  <2>2. Done + 1 = Len(last)
    <3>1. Len(rest) = 0
      BY <1>12
    <3>2. Len(batch) - 1 = 0 /\ Len(batch) \in Nat /\ Len(last) \in Nat
      BY <1>3, <1>10, <3>1
    <3> DEFINE a == Len(last)
               b == Len(batch)
               c == Done
    <3>3. c = a - b /\ b - 1 = 0 /\ a \in Nat /\ b \in Nat
      BY <1>3, <3>2
    <3>4. c + 1 = a
      <4> HIDE DEF a, b, c
      <4> QED
        BY <3>3
    <3> QED
      BY <3>4
  <2>3. today \in DOMAIN segments'
    BY <1>2, <1>5
  <2>4. OnDisk(now, segments', 0, <<>>, accepted \cup FiledAt(now, last), batches, torn)
    BY <1>8, <2>2, <2>3, AcceptStores DEF today
  <2> QED
    BY <1>1, <1>10, <1>12, <2>1, <2>4 DEF Shelf
<1> QED
  BY <1>11, <1>12

LEMMA WriteFailsShelves ==
    ASSUME EventLog!EventLogAssumption, Shelf, EventLog!WriteFails PROVE Shelf'
<1> DEFINE segs == EventLog!SegmentFile
           today == DayOf(now)
<1>1. /\ batch' = <<>> /\ torn' = torn + 1 /\ UNCHANGED <<now, last, accepted, batches>>
      /\ segments' = segments \/ segments' = [segs EXCEPT ![today].dangling = TRUE]
  BY Zenon DEF EventLog!WriteFails, EventLog!Today, DayOf
<1>2. now \in Nat /\ Shelved(now, segments, batches)
  BY DEF Shelf, OnDisk
<1>3. Rotated(now, segments, segs) /\ today \in DOMAIN segs
  BY <1>2, SegmentsRotate
<1> HIDE DEF segs, today
<1>4. OnDisk(now, segs, Done, last, accepted, batches, torn)
  BY <1>3, RotatedStores DEF Shelf
<1>5. OnDisk(now, segments', 0, last, accepted, batches, torn + 1)
  <2>1. CASE segments' = segments
    BY <2>1, EndStores DEF Shelf
  <2>2. CASE segments' = [segs EXCEPT ![today].dangling = TRUE]
    <3>1. segs \in [DOMAIN segs -> Segment]
      BY <1>4 DEF OnDisk, Shelved
    <3>2. /\ segments' \in [DOMAIN segs -> Segment]
          /\ Dangling(segments') = Dangling(segs) \cup {today}
          /\ \A e \in DOMAIN segs : segments'[e].lines = segs[e].lines
      BY <1>3, <2>2, <3>1, MarkDangling
    <3> QED
      BY <1>3, <1>4, <3>2, TearStores
  <2> QED
    BY <1>1, <2>1, <2>2
<1> QED
  BY <1>1, <1>5 DEF Shelf, Done

LEMMA PublishShelves ==
    ASSUME EventLog!EventLogAssumption, Shelf, EventLog!Publish PROVE Shelf'
<1>1. /\ batch = <<>> /\ batches' = batches + 1 /\ last' = batch'
      /\ UNCHANGED <<now, segments, accepted, torn>>
  BY DEF EventLog!Publish
<1>2. PICK skew \in Skews, many \in 1..2 :
        batch' = IF last = <<>> \/ many = 2
                 THEN [k \in 1..many |-> [id |-> <<batches', k>>, at |-> now + skew]]
                 ELSE last
  BY DEF EventLog!Publish
<1>3. /\ OnDisk(now, segments, 0, last, accepted, batches, torn)
      /\ now \in Nat /\ batches \in Nat /\ last \in Seq(Dated)
  BY <1>1 DEF Shelf, Done, OnDisk, Queued
<1>4. batch' = last \/ Fresh(now, batch', batches + 1)
  <2> SUFFICES ASSUME batch' # last PROVE Fresh(now, batch', batches + 1)
    OBVIOUS
  <2> DEFINE e(k) == [id |-> <<batches + 1, k>>, at |-> now + skew]
  <2>1. batch' = [k \in 1..many |-> e(k)]
    BY <1>1, <1>2
  <2>2. skew \in Int /\ skew <= LogDay /\ LogDay \in Nat
    BY DEF EventLog!EventLogAssumption
  <2>3. now + skew \in Int /\ now + skew <= now + LogDay /\ batches + 1 \in Nat
    BY <1>3, <2>2
  <2>4. \A k \in 1..many : e(k) \in Dated /\ e(k).id[1] = batches + 1 /\ e(k).at = now + skew
    BY <2>3 DEF Dated
  <2> HIDE DEF e
  <2>5. batch' \in Seq(Dated) /\ DOMAIN batch' = 1..many
    BY <2>1, <2>4
  <2>6. \A i \in DOMAIN batch' : batch'[i].id[1] = batches + 1 /\ batch'[i].at = now + skew
    BY <2>1, <2>4, <2>5
  <2> QED
    BY <2>3, <2>5, <2>6 DEF Fresh
<1>5. OnDisk(now, segments, 0, batch', accepted, batches + 1, torn)
  BY <1>3, <1>4, PublishStores
<1>6. batch' \in Seq(Dated)
  BY <1>3, <1>4 DEF Fresh
<1>7. Len(batch') \in Nat /\ Done' = 0
  <2>1. Len(batch') \in Nat
    BY <1>6
  <2> QED
    BY <1>1, <2>1 DEF Done
<1>8. OnDisk(now, segments, 0, last, accepted, batches, torn)'
  BY <1>1, <1>5
<1> QED
  BY <1>1, <1>6, <1>7, <1>8 DEF Shelf

LEMMA NextShelves ==
    ASSUME EventLog!EventLogAssumption, Shelf, [EventLog!Next]_(EventLog!eventlog) PROVE Shelf'
<1>1. CASE EventLog!Open
  <2>1. /\ batch = <<>> /\ segments' = EventLog!Prune(segments)
        /\ UNCHANGED <<now, batch, last, accepted, batches, torn>>
    BY <1>1 DEF EventLog!Open
  <2>2. now \in Nat /\ Shelved(now, segments, batches)
    BY DEF Shelf, OnDisk
  <2>3. Rotated(now, segments, segments')
    BY <2>1, <2>2, SegmentsRotate
  <2>4. OnDisk(now, segments', Done, last, accepted, batches, torn)
    BY <2>3, RotatedStores DEF Shelf
  <2> QED
    BY <2>1, <2>4 DEF Shelf, Done
<1>2. CASE EventLog!Publish
  BY <1>2, PublishShelves
<1>3. CASE EventLog!Write
  BY <1>3, WriteShelves
<1>4. CASE EventLog!WriteFails
  BY <1>4, WriteFailsShelves
<1>5. CASE EventLog!Close \/ UNCHANGED EventLog!eventlog
  <2>1. UNCHANGED <<now, segments, batch, last, accepted, batches, torn>>
    BY <1>5 DEF EventLog!Close, EventLog!eventlog
  <2> QED
    BY <2>1 DEF Shelf, Done
<1>6. CASE EventLog!Tick
  <2>1. /\ batch = <<>> /\ now' = now + 1
        /\ UNCHANGED <<segments, batch, last, accepted, batches, torn>>
    BY <1>6 DEF EventLog!Tick
  <2>2. OnDisk(now + 1, segments, 0, last, accepted, batches, torn)
    BY <2>1, TickStores DEF Shelf, Done
  <2> QED
    BY <2>1, <2>2 DEF Shelf, Done
<1> QED
  BY <1>1, <1>2, <1>3, <1>4, <1>5, <1>6 DEF EventLog!Next

LEMMA ShelfIsQueried ==
    ASSUME EventLog!EventLogAssumption, Shelf
    PROVE  EventLog!QueryFindsRetained
<1> DEFINE readable == {e.id : e \in EventLog!Query(0, 0, 0)}
           unread == {e \in EventLog!Retained : e.id \notin readable}
<1>1. /\ now \in Nat /\ Shelved(now, segments, batches)
      /\ Accounted(now, segments, last, accepted, batches) /\ OneDate(segments, last, accepted)
      /\ OnDisk(now, segments, Done, last, accepted, batches, torn)
  BY DEF Shelf, OnDisk
<1>2. LogDay \in Nat \ {0} /\ Retention \in Nat
  BY DEF EventLog!EventLogAssumption
<1>3. ASSUME NEW earliest, NEW until
      PROVE  EventLog!Query(earliest, until, 0) =
               UNION {EventLog!ScanSegment(d, earliest, until) :
                        d \in EventLog!Visited(earliest, until)}
  BY DEF EventLog!Query
<1>4. ASSUME NEW earliest, NEW until, NEW x, NEW d \in EventLog!Visited(earliest, until),
             x \in EventLog!ScanSegment(d, earliest, until)
      PROVE  x \in EventLog!Query(earliest, until, 0)
  BY <1>3, <1>4, Zenon
<1>5. ASSUME NEW x \in EventLog!Query(0, 0, 0)
      PROVE  \E d \in DOMAIN segments : x \in LinesIn(segments, d)
  <2>1. x \in UNION {EventLog!ScanSegment(d, 0, 0) : d \in EventLog!Visited(0, 0)}
    BY <1>3
  <2>2. PICK d \in EventLog!Visited(0, 0) : x \in EventLog!ScanSegment(d, 0, 0)
    BY <2>1
  <2> QED
    BY <2>2 DEF EventLog!Visited, EventLog!ScanSegment, LinesIn
<1>6. ASSUME NEW d \in DOMAIN segments, NEW x \in LinesIn(segments, d)
      PROVE  x.id \in readable
  <2>1. d \in EventLog!Visited(0, 0) /\ x \in EventLog!ScanSegment(d, 0, 0)
    BY DEF EventLog!Visited, EventLog!ScanSegment, LinesIn
  <2>2. x \in EventLog!Query(0, 0, 0)
    BY <1>4, <2>1
  <2> QED
    BY <2>2
<1>7. ASSUME NEW e \in EventLog!Retained
      PROVE  /\ e \in accepted /\ e.at \in Int /\ e.written \in Nat
             /\ DayOf(e.written) \in DOMAIN segments
             /\ e.written <= e.at + LogDay
  <2>1. /\ e \in accepted
        /\ Retention <= 0 \/ e.written >= now - Retention
        /\ e.at - e.written \in -LogDay..LogDay
    BY DEF EventLog!Retained
  <2>2. e \in Filings
    BY <1>1, <2>1 DEF Accounted
  <2>3. e.at \in Int /\ e.written \in Nat
    BY <2>2 DEF Filings
  <2>4. e.written <= e.at + LogDay
    BY <1>2, <2>1, <2>3
  <2> DEFINE day == DayOf(e.written)
             c == day * LogDay
  <2>5. c \in Nat /\ e.written < c + LogDay
    BY <1>2, <2>3, DaysPass
  <2>6. Retention <= 0 \/ c >= now - Retention - LogDay
    <3> HIDE DEF c
    <3> QED
      BY <1>1, <1>2, <2>1, <2>3, <2>5
  <2>7. KeptAt(now, day)
    BY <2>6 DEF KeptAt
  <2>8. day \in DOMAIN segments
    BY <1>1, <2>1, <2>7 DEF Accounted
  <2> QED
    BY <2>1, <2>3, <2>4, <2>8
<1>8. unread \in SUBSET Lost(segments, accepted)
  BY <1>6, <1>7 DEF Lost
<1>9. EventLog!Cardinality(unread) <= torn
  <2>1. /\ IsFiniteSet(Lost(segments, accepted)) /\ Cardinality(Lost(segments, accepted)) \in Nat
        /\ Cardinality(Missing(now, segments, Done, last)) \in Nat
        /\ Cardinality(Dangling(segments)) \in Nat
    BY <1>1, CountsAreFinite
  <2>2. /\ torn \in Nat
        /\ Cardinality(Lost(segments, accepted)) + Cardinality(Missing(now, segments, Done, last))
             + Cardinality(Dangling(segments)) <= torn
    BY <1>1 DEF OnDisk, Spared
  <2> HIDE DEF unread
  <2>3. /\ Cardinality(unread) <= Cardinality(Lost(segments, accepted))
        /\ Cardinality(unread) \in Nat
    BY <1>8, <2>1, FS_Subset, FS_CardinalityType
  <2>4. Cardinality(unread) <= torn
    BY <2>1, <2>2, <2>3
  <2> QED
    BY <2>4, SameCountOfEvents
<1>10. ASSUME NEW e \in EventLog!Retained, e.id \in readable,
              NEW earliest \in 0..e.at, NEW until \in {0} \cup e.at..LogEnd
       PROVE  \E f \in EventLog!Query(earliest, until, 0) : f.id = e.id
  <2>1. PICK x \in EventLog!Query(0, 0, 0) : x.id = e.id
    BY <1>10
  <2>2. PICK d \in DOMAIN segments : x \in LinesIn(segments, d)
    BY <1>5
  <2>3. e \in accepted /\ e.at \in Int /\ e.written \in Nat /\ e.written <= e.at + LogDay
    BY <1>7
  <2>4. x.at = e.at
    <3>1. Recorded(x, segments, last, accepted) /\ Recorded(e, segments, last, accepted)
      BY <2>2, <2>3 DEF Recorded
    <3> QED
      BY <1>1, <2>1, <3>1 DEF OneDate
  <2> DEFINE c == d * LogDay
  <2>5. d \in Nat /\ x.at < (d + 2) * LogDay /\ c <= e.written
    BY <1>1, <2>1, <2>2, <2>3 DEF Shelved, Accounted
  <2>6. c \in Nat /\ (d + 2) * LogDay = c + 2 * LogDay /\ (d - 1) * LogDay = c - LogDay
    BY <1>2, <2>5
  <2> HIDE DEF c
  <2>7. earliest \in Int /\ earliest <= e.at /\ (until = 0 \/ (until \in Int /\ e.at <= until))
    BY <2>3
  <2>8. /\ (d + 2) * LogDay >= earliest
        /\ until = 0 \/ (d - 1) * LogDay <= until
    <3>1. e.at < c + 2 * LogDay /\ c <= e.at + LogDay
      BY <1>2, <2>3, <2>4, <2>5, <2>6
    <3>2. c + 2 * LogDay >= earliest /\ (until = 0 \/ c - LogDay <= until)
      BY <1>2, <2>3, <2>6, <2>7, <3>1
    <3> QED
      BY <2>6, <3>2
  <2>9. d \in EventLog!Visited(earliest, until)
    BY <2>8 DEF EventLog!Visited
  <2>10. x \in EventLog!ScanSegment(d, earliest, until)
    BY <2>2, <2>4, <2>7 DEF EventLog!ScanSegment, LinesIn
  <2>11. x \in EventLog!Query(earliest, until, 0)
    BY <1>4, <2>9, <2>10
  <2> QED
    BY <2>1, <2>11
<1> HIDE DEF unread, readable
<1>11. /\ EventLog!Cardinality(unread) <= torn
       /\ \A e \in EventLog!Retained : e.id \in readable =>
            \A earliest \in 0..e.at, until \in {0} \cup e.at..LogEnd :
              \E f \in EventLog!Query(earliest, until, 0) : f.id = e.id
  BY <1>9, <1>10
<1> QED
  BY <1>11, Zenon DEF EventLog!QueryFindsRetained, unread, readable

\* Every event accepted within the retention is found by every window that holds
\* its timestamp, whatever the clocks, the rotations, the restarts and the
\* batches published again; n torn writes cost n events at most (Publish,
\* segmentFile, prune and Query).
THEOREM QueriesHold == SpecParts => []QueryFindsRetained
<1> DEFINE Inv == which = "eventlog" => Shelf
<1>1. InitParts => Inv
  BY InitShelves, PartsAssumption DEF InitParts
<1>2. Inv /\ [NextParts]_parts => Inv'
  BY EventLogRuns, NextShelves, PartsAssumption
<1>3. Inv => QueryFindsRetained
  BY ShelfIsQueried, PartsAssumption DEF QueryFindsRetained
<1> QED
  BY <1>1, <1>2, <1>3, PTL DEF SpecParts

-----------------------------------------------------------------------------
(* The metric detector *)

LEMMA MetricRuns ==
    ASSUME [NextParts]_parts, which' = "metric"
    PROVE  which = "metric" /\ [Metric!Next]_(Metric!metric)
  BY DEF NextParts, Runs, Rest, parts, metric, Metric!metric

Stats ==
    [count : Nat, lastSeen : Nat, driftSignaled : BOOLEAN, deviations : Seq(Nat)]

\* What is remembered of the times a series deviated at: some of them, and one
\* near each unless the memory was full.
Remembers(stats, times) ==
    /\ \A i \in DOMAIN stats.deviations : stats.deviations[i] \in times
    /\ Len(stats.deviations) < MaxDeviations => \A t \in times : Metric!DeviatedNear(stats, t)

\* A drift told latches.
Latched(stats, drifted) == drifted \in 0..1 /\ (drifted = 1 => stats.driftSignaled)

Measured ==
    /\ series \in [DOMAIN series -> Stats] /\ IsFiniteSet(DOMAIN series)
    /\ DOMAIN real = DOMAIN series /\ DOMAIN drifts = DOMAIN series
    /\ \A s \in DOMAIN series :
         /\ real[s] \in SUBSET Nat /\ Remembers(series[s], real[s])
         /\ Latched(series[s], drifts[s])
    /\ MaxSeries > 0 => Cardinality(DOMAIN series) <= MaxSeries

\* What was told of a sample at time t, of a series that deviated at the
\* times given and had the statistics stats before.
OnSchedule(stats, times, signals, held, t) ==
    /\ held # {} =>
         \A d \in 1..SeasonalDays - 1 :
           \E u \in times : Metric!Apart(u, t - d * MetricDay) <= SeasonalTolerance
    /\ /\ (signals \ {"threshold"}) \cup held # {} /\ SeasonalDays > 1
       /\ \A d \in 1..SeasonalDays - 1 : t - d * MetricDay \in times
       /\ Len(stats.deviations) < MaxDeviations
       => held = (signals \ {"threshold"}) \cup held
ToldOnSchedule ==
    told.series \in DOMAIN series =>
      OnSchedule(series[told.series], real[told.series], told.signals, told.held, told.at)

LEMMA SameCountOfSeries ==
    ASSUME NEW S PROVE Metric!Cardinality(S) = Cardinality(S)
  BY Zenon DEF Metric!Cardinality, Cardinality

\* Days apart are different times.
LEMMA DaysBefore ==
    ASSUME Metric!MetricAssumption, NEW t \in Nat, NEW d \in Nat \ {0}
    PROVE  t - d * MetricDay \in Int /\ t - d * MetricDay < t
<1>1. MetricDay \in Nat \ {0}
  BY DEF Metric!MetricAssumption
<1>2. d * MetricDay \in Nat \ {0}
  BY <1>1
<1> QED
  BY <1>2

\* The days counted are those before the first one without a deviation: all of
\* them, when each has one.
LEMMA DaysRecur ==
    ASSUME Metric!MetricAssumption, SeasonalDays > 1, NEW stats, NEW t
    PROVE  Metric!Recurring(stats, t) <=>
             \A d \in 1..SeasonalDays - 1 : Metric!DeviatedNear(stats, t - d * MetricDay)
<1> DEFINE N == SeasonalDays - 1
           Near(d) == Metric!DeviatedNear(stats, t - d * MetricDay)
           P(n) == (\A d \in 1..n : Near(d)) /\ (n = N \/ ~Near(n + 1))
           n0 == CHOOSE n \in 0..N : P(n)
           stops == {n \in 0..N : n = N \/ ~Near(n + 1)}
<1>1. N \in Nat /\ N >= 1 /\ SeasonalDays \in Nat
  BY DEF Metric!MetricAssumption
<1>2. Metric!Recurring(stats, t) <=> n0 >= N
  BY DEF Metric!Recurring, Metric!RecurringDays
<1>3. (\A d \in 1..SeasonalDays - 1 : Metric!DeviatedNear(stats, t - d * MetricDay))
        <=> (\A d \in 1..N : Near(d))
  OBVIOUS
<1> HIDE DEF N, Near
<1>4. PICK m \in stops : \A k \in stops : m <= k
  <2>1. stops \in SUBSET Nat /\ N \in stops
    BY <1>1
  <2> QED
    BY <2>1, LeastOf
<1>5. \A d \in 1..m : Near(d)
  <2> SUFFICES ASSUME NEW d \in 1..m, ~Near(d) PROVE FALSE
    OBVIOUS
  <2>1. m \in 0..N
    BY <1>4
  <2>2. d - 1 \in 0..N /\ d - 1 + 1 = d
    BY <1>1, <2>1
  <2>3. d - 1 \in stops
    BY <2>2
  <2> QED
    BY <1>4, <2>1, <2>3
<1>6. m \in 0..N /\ P(m)
  BY <1>4, <1>5
<1>7. n0 \in 0..N /\ P(n0)
  <2> HIDE DEF P, stops
  <2>1. \E n \in 0..N : P(n)
    BY <1>6
  <2> QED
    BY <2>1, Zenon
<1> HIDE DEF n0
<1>8. ASSUME n0 >= N PROVE \A d \in 1..N : Near(d)
  <2>1. n0 = N
    BY <1>1, <1>7, <1>8
  <2> QED
    BY <1>7, <2>1
<1>9. ASSUME \A d \in 1..N : Near(d) PROVE n0 >= N
  <2> SUFFICES ASSUME n0 # N PROVE FALSE
    BY <1>1, <1>7
  <2>1. n0 + 1 \in 1..N
    BY <1>1, <1>7
  <2> QED
    BY <1>7, <1>9, <2>1
<1> QED
  BY <1>2, <1>3, <1>8, <1>9

LEMMA ApartFromSelf ==
    ASSUME Metric!MetricAssumption, NEW t \in Nat
    PROVE  Metric!Apart(t, t) <= SeasonalTolerance
  BY DEF Metric!Apart, Metric!MetricAssumption

LEMMA ApartIsApart ==
    ASSUME NEW t \in Int, NEW u \in Int
    PROVE  Metric!Apart(t, u) = Metric!Apart(u, t)
  BY DEF Metric!Apart

\* The deviation of now is near one that is remembered; the others stay, unless
\* the memory is full.
LEMMA RecordedRemembers ==
    ASSUME Metric!MetricAssumption, NEW stats \in Stats, NEW times \in SUBSET Nat,
           Remembers(stats, times), NEW t \in Nat, NEW after \in Stats,
           after.deviations = Metric!Recorded(stats, t)
    PROVE  /\ Remembers(after, times \cup {t})
           /\ Len(after.deviations) < MaxDeviations => Len(stats.deviations) < MaxDeviations
<1> DEFINE ds == stats.deviations
           n == Len(ds)
           longer == Append(ds, t)
           es == after.deviations
<1>1. ds \in Seq(Nat) /\ es \in Seq(Nat) /\ n \in Nat /\ DOMAIN ds = 1..n /\ MaxDeviations \in Nat
      /\ DOMAIN es = 1..Len(es)
  BY DEF Stats, Metric!MetricAssumption
<1>2. es = IF n > 0 /\ Metric!Apart(t, ds[n]) <= SeasonalTolerance THEN ds
           ELSE SubSeq(longer, IF n < MaxDeviations THEN 1 ELSE 2, n + 1)
  BY DEF Metric!Recorded
<1>3. /\ \A i \in 1..n : ds[i] \in times
      /\ n < MaxDeviations => \A u \in times : \E i \in 1..n : Metric!Apart(ds[i], u) <= SeasonalTolerance
  BY <1>1 DEF Remembers, Metric!DeviatedNear
<1>4. SUFFICES /\ \A i \in 1..Len(es) : es[i] \in times \cup {t}
               /\ Len(es) < MaxDeviations =>
                    /\ n < MaxDeviations
                    /\ \A u \in times \cup {t} :
                         \E i \in 1..Len(es) : Metric!Apart(es[i], u) <= SeasonalTolerance
  BY <1>1, <1>4 DEF Remembers, Metric!DeviatedNear
<1>5. longer \in Seq(Nat) /\ Len(longer) = n + 1 /\ longer[n + 1] = t
      /\ \A i \in 1..n : longer[i] = ds[i]
  BY <1>1
<1> HIDE DEF ds, es, longer
<1>6. CASE n > 0 /\ Metric!Apart(t, ds[n]) <= SeasonalTolerance
  <2>1. es = ds
    BY <1>2, <1>6
  <2>2. ds[n] \in Nat /\ n \in 1..n
    BY <1>1, <1>6
  <2>3. Metric!Apart(ds[n], t) <= SeasonalTolerance
    BY <1>6, <2>2, ApartIsApart
  <2> QED
    BY <1>3, <2>1, <2>2, <2>3 DEF n
<1>7. CASE ~(n > 0 /\ Metric!Apart(t, ds[n]) <= SeasonalTolerance) /\ n < MaxDeviations
  <2>1. es = SubSeq(longer, 1, n + 1)
    BY <1>2, <1>7
  <2>2. Len(es) = n + 1 /\ \A i \in 1..n + 1 : es[i] = longer[i]
    BY <1>1, <1>5, <2>1
  <2>3. es[n + 1] = t /\ n + 1 \in 1..n + 1 /\ \A i \in 1..n : i \in 1..n + 1 /\ es[i] = ds[i]
    BY <1>1, <1>5, <2>2
  <2>4. \A i \in 1..n + 1 : i = n + 1 \/ i \in 1..n
    BY <1>1
  <2>5. Metric!Apart(t, t) <= SeasonalTolerance
    BY ApartFromSelf
  <2> HIDE DEF n
  <2> QED
    BY <1>3, <1>7, <2>2, <2>3, <2>4, <2>5
<1>8. CASE ~(n > 0 /\ Metric!Apart(t, ds[n]) <= SeasonalTolerance) /\ ~(n < MaxDeviations)
  <2>1. es = SubSeq(longer, 2, n + 1)
    BY <1>2, <1>8
  <2>2. Len(es) = n /\ \A i \in 1..n : es[i] = longer[i + 1]
    BY <1>1, <1>5, <2>1
  <2>3. \A i \in 1..n : longer[i + 1] \in times \cup {t}
    <3>1. \A i \in 1..n : i + 1 = n + 1 \/ i + 1 \in 1..n
      BY <1>1
    <3> QED
      BY <1>3, <1>5, <3>1
  <2> QED
    BY <1>8, <2>2, <2>3
<1> QED
  BY <1>6, <1>7, <1>8

\* What a sample leaves: the statistics, what is told and what is held back.
LEMMA OutcomeFits ==
    ASSUME Metric!MetricAssumption, NEW s, NEW stats \in Stats, NEW times \in SUBSET Nat,
           NEW d \in 0..1, Remembers(stats, times), Latched(stats, d), NEW t \in Nat,
           NEW o, NEW now1, NEW d1,
           \E breach, far, apart \in BOOLEAN :
             /\ o = Metric!Outcome(s, stats, t, breach, far, apart)
             /\ now1 = IF Metric!StatisticalOf(o) = {} THEN times ELSE times \cup {t}
             /\ d1 = (IF ~(~Metric!IsIgnored(s) /\ ~apart) THEN d ELSE 0)
                     + (IF "drift" \in o.signals THEN 1 ELSE 0)
    PROVE  /\ o.stats \in Stats /\ now1 \in SUBSET Nat /\ Remembers(o.stats, now1)
           /\ Latched(o.stats, d1) /\ OnSchedule(o.stats, now1, o.signals, o.held, t)
<1>1. PICK breach, far, apart \in BOOLEAN :
             /\ o = Metric!Outcome(s, stats, t, breach, far, apart)
             /\ now1 = IF Metric!StatisticalOf(o) = {} THEN times ELSE times \cup {t}
             /\ d1 = (IF ~(~Metric!IsIgnored(s) /\ ~apart) THEN d ELSE 0)
                     + (IF "drift" \in o.signals THEN 1 ELSE 0)
  OBVIOUS
<1> DEFINE c == IF stats.count < WarmupSamples THEN stats.count + 1 ELSE stats.count
           seen1 == [stats EXCEPT !.lastSeen = t, !.count = c]
           found == (IF far THEN {"zscore"} ELSE {})
                    \cup (IF apart /\ ~stats.driftSignaled THEN {"drift"} ELSE {})
           static == IF breach THEN {"threshold"} ELSE {}
           cold == Metric!IsIgnored(s) \/ ~(stats.count >= WarmupSamples)
           recurring == Metric!Recurring(stats, t)
           back == Metric!Recorded(stats, t)
<1>2. /\ cold => o.stats = seen1 /\ o.held = {} /\ (o.signals = {} \/ o.signals = static)
      /\ (~cold /\ found = {}) =>
           /\ o.stats = [seen1 EXCEPT !.driftSignaled = apart]
           /\ o.held = {} /\ o.signals = static
      /\ (~cold /\ found # {}) =>
           /\ o.stats = [seen1 EXCEPT !.driftSignaled = apart, !.deviations = back]
           /\ o.signals = IF recurring THEN static ELSE static \cup found
           /\ o.held = IF recurring THEN found ELSE {}
  BY <1>1 DEF Metric!Outcome, Metric!Statistical, Stats
<1>3. c \in Nat
  BY DEF Stats
<1>4. back \in Seq(Nat)
  BY DEF Metric!Recorded, Stats
<1> HIDE DEF c, back
<1>5. /\ seen1 \in Stats /\ seen1.deviations = stats.deviations
      /\ seen1.driftSignaled = stats.driftSignaled
      /\ [seen1 EXCEPT !.driftSignaled = apart] \in Stats
      /\ [seen1 EXCEPT !.driftSignaled = apart].deviations = stats.deviations
      /\ [seen1 EXCEPT !.driftSignaled = apart].driftSignaled = apart
      /\ [seen1 EXCEPT !.driftSignaled = apart, !.deviations = back] \in Stats
      /\ [seen1 EXCEPT !.driftSignaled = apart, !.deviations = back].deviations = back
      /\ [seen1 EXCEPT !.driftSignaled = apart, !.deviations = back].driftSignaled = apart
  BY <1>1, <1>3, <1>4 DEF Stats
<1>6. /\ "threshold" \notin found /\ "drift" \notin static /\ static \ {"threshold"} = {}
      /\ "drift" \in found => apart /\ ~stats.driftSignaled
  OBVIOUS
<1>7. Metric!StatisticalOf(o) = (o.signals \ {"threshold"}) \cup o.held
  BY DEF Metric!StatisticalOf
<1>8. d \in 0..1 /\ (d = 1 => stats.driftSignaled)
  BY DEF Latched
<1> HIDE DEF seen1, found, static
<1>9. CASE cold
  <2>1. Metric!StatisticalOf(o) = {} /\ o.held = {} /\ "drift" \notin o.signals /\ now1 = times
    BY <1>1, <1>2, <1>6, <1>7, <1>9
  <2>2. d1 \in {0, d}
    BY <1>1, <1>8, <2>1
  <2> HIDE DEF cold
  <2>3. o.stats \in Stats /\ Remembers(o.stats, now1) /\ Latched(o.stats, d1)
    BY <1>2, <1>5, <1>8, <1>9, <2>1, <2>2 DEF Remembers, Latched, Metric!DeviatedNear
  <2> QED
    BY <1>7, <2>1, <2>3 DEF OnSchedule
<1>10. CASE ~cold /\ found = {}
  <2>1. Metric!StatisticalOf(o) = {} /\ o.held = {} /\ "drift" \notin o.signals /\ now1 = times
    BY <1>1, <1>2, <1>6, <1>7, <1>10
  <2>2. d1 = IF apart THEN d ELSE 0
    BY <1>1, <1>8, <1>10, <2>1
  <2> HIDE DEF cold
  <2>3. o.stats \in Stats /\ Remembers(o.stats, now1)
    BY <1>2, <1>5, <1>10, <2>1 DEF Remembers, Metric!DeviatedNear
  <2>4. Latched(o.stats, d1)
    <3>1. o.stats.driftSignaled = apart
      BY <1>2, <1>5, <1>10
    <3> QED
      BY <1>1, <1>8, <2>2, <3>1 DEF Latched
  <2> QED
    BY <1>7, <2>1, <2>3, <2>4 DEF OnSchedule
<1>11. CASE ~cold /\ found # {}
  <2>1. /\ o.stats \in Stats /\ o.stats.deviations = back /\ o.stats.driftSignaled = apart
        /\ o.signals = IF recurring THEN static ELSE static \cup found
        /\ o.held = IF recurring THEN found ELSE {}
    BY <1>2, <1>5, <1>11
  <2>2. (o.signals \ {"threshold"}) \cup o.held = found
    BY <1>6, <2>1
  <2>3. now1 = times \cup {t} /\ now1 \in SUBSET Nat
    BY <1>1, <1>7, <1>11, <2>2
  <2>4. /\ Remembers(o.stats, now1)
        /\ Len(o.stats.deviations) < MaxDeviations => Len(stats.deviations) < MaxDeviations
    BY <2>1, <2>3, RecordedRemembers DEF back
  <2>5. Latched(o.stats, d1)
    <3>1. d1 = (IF apart THEN d ELSE 0) + (IF "drift" \in o.signals THEN 1 ELSE 0)
      BY <1>1, <1>11
    <3>2. "drift" \in o.signals => apart /\ ~stats.driftSignaled
      BY <1>6, <2>1
    <3> QED
      BY <1>1, <1>8, <2>1, <3>1, <3>2 DEF Latched
  <2>6. ASSUME recurring, NEW e \in 1..SeasonalDays - 1
        PROVE  \E u \in times : Metric!Apart(u, t - e * MetricDay) <= SeasonalTolerance
    <3>1. SeasonalDays > 1
      BY <2>6 DEF Metric!Recurring
    <3>2. Metric!DeviatedNear(stats, t - e * MetricDay)
      BY <2>6, <3>1, DaysRecur
    <3> QED
      BY <3>2 DEF Metric!DeviatedNear, Remembers
  <2>7. ASSUME SeasonalDays > 1, \A e \in 1..SeasonalDays - 1 : t - e * MetricDay \in now1,
               Len(o.stats.deviations) < MaxDeviations
        PROVE  recurring
    <3>1. ASSUME NEW e \in 1..SeasonalDays - 1
          PROVE  Metric!DeviatedNear(stats, t - e * MetricDay)
      <4>1. e \in Nat \ {0}
        BY DEF Metric!MetricAssumption
      <4>2. t - e * MetricDay \in times
        BY <2>3, <2>7, <4>1, DaysBefore
      <4> QED
        BY <2>4, <2>7, <4>2 DEF Remembers
    <3> QED
      BY <2>7, <3>1, DaysRecur
  <2>8. OnSchedule(o.stats, now1, o.signals, o.held, t)
    BY <2>1, <2>2, <2>3, <2>6, <2>7 DEF OnSchedule
  <2> QED
    BY <2>1, <2>3, <2>4, <2>5, <2>8
<1> QED
  BY <1>9, <1>10, <1>11

\* The series kept leave room for the one that the sample is of.
LEMMA KeptFits ==
    ASSUME Metric!MetricAssumption, IsFiniteSet(DOMAIN series), NEW s, NEW t,
           MaxSeries > 0 => Cardinality(DOMAIN series) <= MaxSeries,
           NEW kept \in Metric!Kept(s, t)
    PROVE  /\ kept \subseteq DOMAIN series /\ IsFiniteSet(kept \cup {s})
           /\ MaxSeries > 0 => Cardinality(kept \cup {s}) <= MaxSeries
<1> DEFINE known1 == Metric!Sweep(t)
           excess == Cardinality(known1) - MaxSeries + 1
<1>1. known1 \subseteq DOMAIN series
  BY DEF Metric!Sweep
<1>2. /\ IsFiniteSet(known1) /\ Cardinality(known1) \in Nat
      /\ Cardinality(known1) <= Cardinality(DOMAIN series)
      /\ Cardinality(DOMAIN series) \in Nat /\ MaxSeries \in Nat
  BY <1>1, FS_Subset, FS_CardinalityType DEF Metric!MetricAssumption
<1>3. CASE s \in known1
  <2>1. kept = known1 /\ kept \cup {s} = known1
    BY <1>3 DEF Metric!Kept
  <2> QED
    BY <1>1, <1>2, <2>1
<1>4. CASE s \notin known1
  <2>1. kept \in Metric!MakeRoom(known1)
    BY <1>4 DEF Metric!Kept
  <2>2. /\ kept \in SUBSET known1
        /\ Cardinality(known1 \ kept) = IF MaxSeries = 0 \/ excess < 0 THEN 0 ELSE excess
    BY <2>1, SameCountOfSeries DEF Metric!MakeRoom
  <2>3. s \notin kept /\ IsFiniteSet(kept) /\ Cardinality(kept) \in Nat
    BY <1>2, <1>4, <2>2, FS_Subset, FS_CardinalityType
  <2>4. IsFiniteSet(kept \cup {s}) /\ Cardinality(kept \cup {s}) = Cardinality(kept) + 1
    BY <2>3, FS_AddElement
  <2>5. Cardinality(known1 \ kept) = Cardinality(known1) - Cardinality(known1 \cap kept)
    BY <1>2, <2>2, <2>3, FS_Difference
  <2>6. known1 \cap kept = kept
    BY <2>2
  <2>7. ASSUME MaxSeries > 0 PROVE Cardinality(kept) + 1 <= MaxSeries
    <3>1. Cardinality(kept) = Cardinality(known1) - (IF excess < 0 THEN 0 ELSE excess)
      <4> DEFINE k == Cardinality(known1)
                 c == Cardinality(kept)
      <4>1. Cardinality(known1 \ kept) = k - c
        BY <2>5, <2>6
      <4>2. Cardinality(known1 \ kept) = IF k - MaxSeries + 1 < 0 THEN 0 ELSE k - MaxSeries + 1
        BY <1>2, <2>2, <2>7
      <4>3. excess = k - MaxSeries + 1 /\ k \in Nat /\ c \in Nat /\ MaxSeries \in Nat
        BY <1>2, <2>3
      <4> HIDE DEF k, c, excess
      <4>4. c = k - (IF excess < 0 THEN 0 ELSE excess)
        BY <4>1, <4>2, <4>3
      <4> QED
        BY <4>4 DEF c, k
    <3> HIDE DEF known1
    <3> QED
      BY <1>2, <2>7, <3>1
  <2> QED
    BY <1>1, <2>2, <2>4, <2>7
<1> QED
  BY <1>3, <1>4

LEMMA DetectMeasures ==
    ASSUME Metric!MetricAssumption, Measured, NEW s, NEW t \in Nat, Metric!Detect(s, t)
    PROVE  Measured' /\ ToldOnSchedule'
<1>1. PICK kept \in Metric!Kept(s, t) : \E breach, far, apart \in BOOLEAN :
         LET known1 == s \in kept
             outcome == Metric!Outcome(s, IF known1 THEN series[s] ELSE Metric!Fresh, t,
                                       breach, far, apart)
             before == IF known1 THEN real[s] ELSE {}
             agreed == ~Metric!IsIgnored(s) /\ ~apart IN
         /\ series' = Metric!With(series, kept, s, outcome.stats)
         /\ told' = [series |-> s, at |-> t, signals |-> outcome.signals,
                     held |-> outcome.held]
         /\ real' = Metric!With(real, kept, s,
                         IF Metric!StatisticalOf(outcome) = {} THEN before ELSE before \cup {t})
         /\ drifts' = Metric!With(drifts, kept, s,
                           (IF known1 /\ ~agreed THEN drifts[s] ELSE 0)
                           + (IF "drift" \in outcome.signals THEN 1 ELSE 0))
  BY DEF Metric!Detect
<1>2. PICK breach, far, apart \in BOOLEAN :
         LET known1 == s \in kept
             outcome == Metric!Outcome(s, IF known1 THEN series[s] ELSE Metric!Fresh, t,
                                       breach, far, apart)
             before == IF known1 THEN real[s] ELSE {}
             agreed == ~Metric!IsIgnored(s) /\ ~apart IN
         /\ series' = Metric!With(series, kept, s, outcome.stats)
         /\ told' = [series |-> s, at |-> t, signals |-> outcome.signals,
                     held |-> outcome.held]
         /\ real' = Metric!With(real, kept, s,
                         IF Metric!StatisticalOf(outcome) = {} THEN before ELSE before \cup {t})
         /\ drifts' = Metric!With(drifts, kept, s,
                           (IF known1 /\ ~agreed THEN drifts[s] ELSE 0)
                           + (IF "drift" \in outcome.signals THEN 1 ELSE 0))
  BY <1>1
<1> DEFINE stats == IF s \in kept THEN series[s] ELSE Metric!Fresh
           times == IF s \in kept THEN real[s] ELSE {}
           d == IF s \in kept THEN drifts[s] ELSE 0
           o == Metric!Outcome(s, stats, t, breach, far, apart)
           times1 == IF Metric!StatisticalOf(o) = {} THEN times ELSE times \cup {t}
           d1 == (IF ~(~Metric!IsIgnored(s) /\ ~apart) THEN d ELSE 0)
                 + (IF "drift" \in o.signals THEN 1 ELSE 0)
<1>3. /\ series' = Metric!With(series, kept, s, o.stats)
      /\ told' = [series |-> s, at |-> t, signals |-> o.signals, held |-> o.held]
      /\ real' = Metric!With(real, kept, s, times1)
      /\ drifts' = Metric!With(drifts, kept, s, d1)
  <2>1. d1 = (IF s \in kept /\ ~(~Metric!IsIgnored(s) /\ ~apart) THEN drifts[s] ELSE 0)
             + (IF "drift" \in o.signals THEN 1 ELSE 0)
    OBVIOUS
  <2> QED
    BY <1>2, <2>1
<1>4. /\ kept \subseteq DOMAIN series /\ IsFiniteSet(kept \cup {s})
      /\ MaxSeries > 0 => Cardinality(kept \cup {s}) <= MaxSeries
  BY KeptFits DEF Measured
<1>5. /\ stats \in Stats /\ times \in SUBSET Nat /\ d \in 0..1
      /\ Remembers(stats, times) /\ Latched(stats, d)
  <2>1. CASE s \in kept
    BY <1>4, <2>1 DEF Measured, Latched
  <2>2. CASE s \notin kept
    <3>1. Metric!Fresh \in Stats /\ DOMAIN Metric!Fresh.deviations = {}
      BY DEF Metric!Fresh, Stats
    <3>2. stats = Metric!Fresh /\ times = {} /\ d = 0
      BY <2>2
    <3> QED
      BY <3>1, <3>2 DEF Remembers, Latched
  <2> QED
    BY <2>1, <2>2
<1>6. \E b, f, a \in BOOLEAN :
             /\ o = Metric!Outcome(s, stats, t, b, f, a)
             /\ times1 = IF Metric!StatisticalOf(o) = {} THEN times ELSE times \cup {t}
             /\ d1 = (IF ~(~Metric!IsIgnored(s) /\ ~a) THEN d ELSE 0)
                     + (IF "drift" \in o.signals THEN 1 ELSE 0)
  <2> WITNESS breach \in BOOLEAN, far \in BOOLEAN, apart \in BOOLEAN
  <2> QED
    OBVIOUS
<1> HIDE DEF stats, times, d, o, times1, d1
<1>7. /\ o.stats \in Stats /\ times1 \in SUBSET Nat /\ Remembers(o.stats, times1)
      /\ Latched(o.stats, d1) /\ OnSchedule(o.stats, times1, o.signals, o.held, t)
  BY <1>5, <1>6, OutcomeFits
<1>8. /\ DOMAIN series' = kept \cup {s} /\ DOMAIN real' = kept \cup {s}
      /\ DOMAIN drifts' = kept \cup {s}
      /\ series'[s] = o.stats /\ real'[s] = times1 /\ drifts'[s] = d1
      /\ \A q \in kept : q # s =>
           series'[q] = series[q] /\ real'[q] = real[q] /\ drifts'[q] = drifts[q]
  BY <1>3 DEF Metric!With
<1>9. series' \in [kept \cup {s} -> Stats]
  BY <1>3, <1>4, <1>7 DEF Metric!With, Measured
<1>10. ASSUME NEW q \in kept \cup {s}
       PROVE  /\ real'[q] \in SUBSET Nat /\ Remembers(series'[q], real'[q])
              /\ Latched(series'[q], drifts'[q])
  <2>1. CASE q = s
    BY <1>7, <1>8, <2>1
  <2>2. CASE q # s
    BY <1>4, <1>8, <2>2 DEF Measured
  <2> QED
    BY <2>1, <2>2
<1>11. Measured'
  BY <1>4, <1>8, <1>9, <1>10 DEF Measured, Remembers, Latched, Metric!DeviatedNear
<1>12. ToldOnSchedule'
  <2>1. told'.series = s /\ told'.at = t /\ told'.signals = o.signals /\ told'.held = o.held
    BY <1>3
  <2> QED
    BY <1>7, <1>8, <2>1 DEF ToldOnSchedule, OnSchedule
<1> QED
  BY <1>11, <1>12

\* Fewer series are as they were.
LEMMA FewerMeasure ==
    ASSUME Measured, ToldOnSchedule, told' = told, NEW left \in SUBSET DOMAIN series,
           DOMAIN series' = left, DOMAIN real' = left, DOMAIN drifts' = left,
           series' = [s \in left |-> series[s]],
           \A s \in left : real'[s] = real[s] /\ drifts'[s] = drifts[s]
    PROVE  Measured' /\ ToldOnSchedule'
<1>1. \A s \in left : series'[s] = series[s]
  OBVIOUS
<1>2. /\ IsFiniteSet(left) /\ Cardinality(left) <= Cardinality(DOMAIN series)
      /\ Cardinality(left) \in Nat /\ Cardinality(DOMAIN series) \in Nat
  BY FS_Subset, FS_CardinalityType DEF Measured
<1>3. series' \in [left -> Stats]
  BY DEF Measured
<1>4. MaxSeries > 0 => Cardinality(left) <= MaxSeries
  BY <1>2, PartsAssumption DEF Measured, Metric!MetricAssumption
<1>5. Measured'
  BY <1>1, <1>2, <1>3, <1>4 DEF Measured, Remembers, Latched, Metric!DeviatedNear
<1>6. ToldOnSchedule'
  BY <1>1 DEF ToldOnSchedule, OnSchedule
<1> QED
  BY <1>5, <1>6

LEMMA NextMeasures ==
    ASSUME Metric!MetricAssumption, Measured, ToldOnSchedule, [Metric!Next]_(Metric!metric)
    PROVE  Measured' /\ ToldOnSchedule'
<1>1. ASSUME NEW s \in Gauges, NEW t \in 0..LastSample, Metric!Detect(s, t)
      PROVE  Measured' /\ ToldOnSchedule'
  <2>1. t \in Nat
    OBVIOUS
  <2> QED
    BY <1>1, <2>1, DetectMeasures
<1>2. ASSUME NEW p \in DOMAIN Families, Metric!Forget(p)
      PROVE  Measured' /\ ToldOnSchedule'
  <2> DEFINE left == DOMAIN series \ Families[p]
  <2>1. /\ series' = [s \in left |-> series[s]] /\ real' = [s \in left |-> real[s]]
        /\ drifts' = [s \in left |-> drifts[s]] /\ told' = told
    BY <1>2 DEF Metric!Forget, Metric!Keep
  <2>2. left \in SUBSET DOMAIN series
    OBVIOUS
  <2> HIDE DEF left
  <2> QED
    BY <2>1, <2>2, FewerMeasure
<1>3. ASSUME \/ UNCHANGED Metric!metric \/ Metric!Restart
             \/ \E p \in DOMAIN Families, ignore \in BOOLEAN : Metric!SetIgnored(p, ignore)
      PROVE  Measured' /\ ToldOnSchedule'
  <2>1. series = [s \in DOMAIN series |-> series[s]]
    BY DEF Measured
  <2>2. /\ series' = [s \in DOMAIN series |-> series[s]]
        /\ UNCHANGED <<told, real, drifts>>
    BY <1>3, <2>1 DEF Metric!metric, Metric!Restart, Metric!Restored, Metric!SetIgnored
  <2>3. DOMAIN real = DOMAIN series /\ DOMAIN drifts = DOMAIN series
    BY DEF Measured
  <2> QED
    BY <2>2, <2>3, FewerMeasure
<1> QED
  BY <1>1, <1>2, <1>3 DEF Metric!Next

LEMMA MeasuredIsTold ==
    ASSUME Metric!MetricAssumption, Measured, ToldOnSchedule
    PROVE  Metric!DeviationsAreTold
<1>1. Metric!HeldBackOnSchedule
  BY DEF ToldOnSchedule, OnSchedule, Metric!HeldBackOnSchedule, Metric!StatisticalOf
<1>2. Metric!DriftToldOnce
  BY SameCountOfSeries DEF Measured, Latched, Metric!DriftToldOnce
<1> QED
  BY <1>1, <1>2 DEF Metric!DeviationsAreTold

\* A metric's deviation is held back on schedule only: it is, when the series
\* deviated at that time on each of the days before, and only then, whatever is
\* swept, evicted, forgotten, ignored or restarted in between; a drift is told
\* once until the trends agree, and the table keeps to its bound (Detect,
\* recurringDays, recordDeviation, makeRoom, Forget and Restore).
THEOREM DeviationsHold == SpecParts => []DeviationsAreTold
<1> DEFINE Inv == which = "metric" => Measured /\ ToldOnSchedule
<1>1. InitParts => Inv
  <2> SUFFICES ASSUME Metric!Init PROVE Measured /\ ToldOnSchedule
    BY DEF InitParts
  <2>1. series = <<>> /\ real = <<>> /\ drifts = <<>>
    BY DEF Metric!Init
  <2>2. DOMAIN series = {} /\ DOMAIN real = {} /\ DOMAIN drifts = {}
        /\ series \in [{} -> Stats]
    BY <2>1
  <2>3. IsFiniteSet({}) /\ Cardinality({}) = 0
    BY FS_EmptySet
  <2>4. MaxSeries \in Nat
    BY PartsAssumption DEF Metric!MetricAssumption
  <2> QED
    BY <2>2, <2>3, <2>4 DEF Measured, ToldOnSchedule
<1>2. Inv /\ [NextParts]_parts => Inv'
  BY MetricRuns, NextMeasures, PartsAssumption
<1>3. Inv => DeviationsAreTold
  BY MeasuredIsTold, PartsAssumption DEF DeviationsAreTold
<1> QED
  BY <1>1, <1>2, <1>3, PTL DEF SpecParts

-----------------------------------------------------------------------------
(* The tailer of pods *)

LEMMA PodLogsRun ==
    ASSUME [NextParts]_parts, which' = "podlogs"
    PROVE  which = "podlogs" /\ [PodLogs!Next]_(PodLogs!podlogs)
  BY DEF NextParts, Runs, Rest, parts, podlogs, PodLogs!podlogs, PodLogs!listwatch,
         PodLogs!tailer

Written == Seq([at : Nat, long : BOOLEAN])
Followers ==
    [at : {"connecting", "reading", "asleep", "gone"}, cancelled : BOOLEAN,
     backoff : Nat, since : Nat, wake : Nat, last : Nat, next : Nat, shipped : SUBSET Nat]

\* The lines of a pod bear the times they were written at.
Stamped ==
    /\ tClock \in Nat /\ 1 <= tClock /\ tLines \in [Pods -> Written]
    /\ \A p \in Pods : \A i \in DOMAIN tLines[p] :
         /\ 1 <= tLines[p][i].at /\ tLines[p][i].at <= tClock
         /\ \A j \in DOMAIN tLines[p] : i <= j => tLines[p][i].at <= tLines[p][j].at

\* What the follower f of the lines ls shipped up to its last one has no hole,
\* and it reads on at most one line beyond that one.
WholeUpTo(f, ls, r) ==
    /\ r \in f.shipped /\ ls[r].at = f.last
    /\ \A i \in f.shipped : i..r \subseteq f.shipped
    /\ f.at = "reading" => f.next <= r + 1
Gapless(f, ls) ==
    /\ f.shipped \subseteq DOMAIN ls
    /\ f.at = "reading" => 1 <= f.next /\ f.next <= Len(ls) + 1
    /\ IF f.last = 0 THEN f.shipped = {} ELSE \E r \in Nat : WholeUpTo(f, ls, r)

Filed ==
    /\ tails \in [Pods -> Seq(Followers)] /\ tailed \in [Pods -> Nat]
    /\ \A p \in Pods :
         /\ tailed[p] <= Len(tails[p])
         /\ \A n \in DOMAIN tails[p] :
              /\ ~tails[p][n].cancelled <=> tailed[p] = n
              /\ ~tails[p][n].cancelled => Gapless(tails[p][n], tLines[p])

LEMMA SameCountOfLines ==
    ASSUME NEW S PROVE PodLogs!Cardinality(S) = Cardinality(S)
  BY Zenon DEF PodLogs!Cardinality, Cardinality

LEMMA FirstLines ==
    ASSUME NEW k \in Nat
    PROVE  IsFiniteSet(1..k) /\ Cardinality(1..k) = k
<1>1. 1 \in Int /\ k \in Int
  OBVIOUS
<1>2. IsFiniteSet(1..k) /\ Cardinality(1..k) = IF 1 > k THEN 0 ELSE k - 1 + 1
  BY <1>1, FS_Interval
<1> QED
  BY <1>2

LEMMA Members ==
    ASSUME NEW S, NEW s \in Seq(S)
    PROVE  /\ Len(s) \in Nat /\ DOMAIN s = 1..Len(s)
           /\ \A i \in DOMAIN s : s[i] \in S
  OBVIOUS

LEMMA WaitsAreTimes ==
    ASSUME NEW a \in Nat, NEW b \in Nat
    PROVE  PodLogs!Smaller(a, b) \in Nat
  BY DEF PodLogs!Smaller

LEMMA InitFiles ==
    ASSUME PodLogs!PodLogsAssumption, PodLogs!Init
    PROVE  Stamped /\ Filed
<1>1. /\ tClock = Second /\ Second \in Nat \ {0} /\ tLines = [p \in Pods |-> <<>>]
      /\ tailed = [p \in Pods |-> 0] /\ tails = [p \in Pods |-> <<>>]
  BY DEF PodLogs!Init, PodLogs!PodLogsAssumption
<1>2. Stamped
  BY <1>1 DEF Stamped, Written
<1>3. Filed
  BY <1>1 DEF Filed
<1> QED
  BY <1>2, <1>3

\* Streams started and stopped leave one follower that nobody cancelled to a pod
\* with a stream, and none to the others.
LEMMA AlignFiles ==
    ASSUME PodLogs!PodLogsAssumption, Stamped, Filed, UNCHANGED <<tClock, tLines>>,
           \E order \in [Pods -> {"start", "stop", "keep"}] : PodLogs!Align(order)
    PROVE  Stamped' /\ Filed'
<1>1. PICK order \in [Pods -> {"start", "stop", "keep"}] : PodLogs!Align(order)
  OBVIOUS
<1>2. Stamped'
  BY DEF Stamped
<1>3. PodLogs!Attached \in Followers /\ ~PodLogs!Attached.cancelled
      /\ PodLogs!Attached.at = "connecting" /\ PodLogs!Attached.last = 0
      /\ PodLogs!Attached.shipped = {}
  BY DEF PodLogs!Attached, Followers, PodLogs!PodLogsAssumption
<1>4. \A p \in Pods : Gapless(PodLogs!Attached, tLines[p])
  BY <1>3 DEF Gapless
<1> DEFINE Tails(p) ==
             CASE order[p] = "start" /\ tailed[p] = 0 -> Append(tails[p], PodLogs!Attached)
               [] order[p] = "stop" /\ tailed[p] /= 0 ->
                    [tails[p] EXCEPT ![tailed[p]].cancelled = TRUE]
               [] OTHER -> tails[p]
           Stream(p) ==
             CASE order[p] = "stop" -> 0
               [] order[p] = "start" /\ tailed[p] = 0 -> Len(tails[p]) + 1
               [] OTHER -> tailed[p]
<1>5. tails' = [p \in Pods |-> Tails(p)] /\ tailed' = [p \in Pods |-> Stream(p)]
  BY <1>1 DEF PodLogs!Align
<1>6. ASSUME NEW p \in Pods
      PROVE  /\ Tails(p) \in Seq(Followers) /\ Stream(p) \in Nat
             /\ Stream(p) <= Len(Tails(p))
             /\ \A n \in DOMAIN Tails(p) :
                  /\ ~Tails(p)[n].cancelled <=> Stream(p) = n
                  /\ ~Tails(p)[n].cancelled => Gapless(Tails(p)[n], tLines[p])
  <2>1. /\ tails[p] \in Seq(Followers) /\ tailed[p] \in Nat /\ tailed[p] <= Len(tails[p])
        /\ \A n \in DOMAIN tails[p] :
             /\ ~tails[p][n].cancelled <=> tailed[p] = n
             /\ ~tails[p][n].cancelled => Gapless(tails[p][n], tLines[p])
    BY DEF Filed
  <2>2. order[p] \in {"start", "stop", "keep"} /\ Len(tails[p]) \in Nat
    BY <2>1
  <2>3. CASE order[p] = "start" /\ tailed[p] = 0
    <3>1. Tails(p) = Append(tails[p], PodLogs!Attached) /\ Stream(p) = Len(tails[p]) + 1
      BY <2>3
    <3> HIDE DEF Tails, Stream
    <3>2. /\ Tails(p) \in Seq(Followers) /\ Len(Tails(p)) = Len(tails[p]) + 1
          /\ Tails(p)[Len(tails[p]) + 1] = PodLogs!Attached
          /\ \A n \in 1..Len(tails[p]) : Tails(p)[n] = tails[p][n]
      BY <2>1, <1>3, <3>1
    <3>3. \A n \in 1..Len(tails[p]) : tails[p][n].cancelled
      BY <2>1, <2>2, <2>3
    <3>4. DOMAIN Tails(p) = 1..Len(tails[p]) + 1
      BY <2>2, <3>2
    <3>5. ASSUME NEW n \in DOMAIN Tails(p)
          PROVE  /\ ~Tails(p)[n].cancelled <=> Stream(p) = n
                 /\ ~Tails(p)[n].cancelled => Gapless(Tails(p)[n], tLines[p])
      <4>1. CASE n = Len(tails[p]) + 1
        BY <4>1, <3>1, <3>2, <1>3, <1>4
      <4>2. CASE n # Len(tails[p]) + 1
        <5>1. n \in 1..Len(tails[p]) /\ n # Stream(p)
          BY <4>2, <3>1, <3>4, <2>2
        <5> QED
          BY <5>1, <3>2, <3>3
      <4> QED
        BY <4>1, <4>2
    <3> QED
      BY <2>2, <3>1, <3>2, <3>5
  <2>4. CASE order[p] = "stop" /\ tailed[p] # 0
    <3> DEFINE k == tailed[p]
               gone == [tails[p][k] EXCEPT !.cancelled = TRUE]
    <3>1. Tails(p) = [tails[p] EXCEPT ![k] = gone] /\ Stream(p) = 0
      BY <2>4
    <3>2. k \in DOMAIN tails[p] /\ tails[p][k] \in Followers
      BY <2>1, <2>2, <2>4
    <3>3. gone \in Followers /\ gone.cancelled
      BY <3>2 DEF Followers
    <3> HIDE DEF Tails, Stream, gone, k
    <3>4. /\ Tails(p) \in Seq(Followers) /\ Len(Tails(p)) = Len(tails[p])
          /\ DOMAIN Tails(p) = DOMAIN tails[p]
          /\ Tails(p)[k] = gone /\ \A n \in DOMAIN tails[p] : n # k => Tails(p)[n] = tails[p][n]
      BY <2>1, <3>1, <3>2, <3>3
    <3>5. \A n \in DOMAIN tails[p] : n # 0 /\ (n # k => tails[p][n].cancelled)
      BY <2>1, <2>2 DEF k
    <3> QED
      BY <2>2, <3>1, <3>3, <3>4, <3>5
  <2>5. CASE ~(order[p] = "start" /\ tailed[p] = 0) /\ ~(order[p] = "stop" /\ tailed[p] # 0)
    <3>1. Tails(p) = tails[p] /\ Stream(p) = tailed[p]
      BY <2>5, <2>2
    <3> QED
      BY <2>1, <3>1
  <2> QED
    BY <2>3, <2>4, <2>5
<1> HIDE DEF Tails, Stream
<1>7. tails' \in [Pods -> Seq(Followers)] /\ tailed' \in [Pods -> Nat]
  BY <1>5, <1>6
<1>8. \A p \in Pods : tails'[p] = Tails(p) /\ tailed'[p] = Stream(p) /\ tLines'[p] = tLines[p]
  BY <1>5
<1>9. Filed'
  BY <1>6, <1>7, <1>8 DEF Filed
<1> QED
  BY <1>2, <1>9

\* One follower goes on, without a hole.
LEMMA SetFiles ==
    ASSUME Stamped, Filed, NEW p \in Pods, NEW n \in DOMAIN tails[p], NEW f \in Followers,
           f.cancelled = tails[p][n].cancelled, ~f.cancelled => Gapless(f, tLines[p]),
           PodLogs!Set(p, n, f)
    PROVE  Stamped' /\ Filed'
<1>1. tails' = [tails EXCEPT ![p][n] = f] /\ UNCHANGED <<tailed, tClock, tLines>>
  BY DEF PodLogs!Set
<1>2. Stamped'
  BY <1>1 DEF Stamped
<1>3. /\ tails \in [Pods -> Seq(Followers)] /\ tails[p] \in Seq(Followers)
      /\ tails' \in [Pods -> Seq(Followers)]
      /\ \A q \in Pods : Len(tails'[q]) = Len(tails[q]) /\ DOMAIN tails'[q] = DOMAIN tails[q]
      /\ \A q \in Pods : q # p => tails'[q] = tails[q]
      /\ tails'[p][n] = f /\ \A m \in DOMAIN tails[p] : m # n => tails'[p][m] = tails[p][m]
  <2>1. tails \in [Pods -> Seq(Followers)] /\ tails[p] \in Seq(Followers)
    BY DEF Filed
  <2> DEFINE fs == [tails[p] EXCEPT ![n] = f]
  <2>2. /\ fs \in Seq(Followers) /\ Len(fs) = Len(tails[p]) /\ DOMAIN fs = DOMAIN tails[p]
        /\ fs[n] = f /\ \A m \in DOMAIN tails[p] : m # n => fs[m] = tails[p][m]
    BY <2>1
  <2>3. tails' = [tails EXCEPT ![p] = fs]
    BY <1>1
  <2> HIDE DEF fs
  <2> QED
    BY <2>1, <2>2, <2>3
<1>4. Filed'
  BY <1>1, <1>3 DEF Filed
<1> QED
  BY <1>2, <1>4

\* What a follower knows before one of its steps.
LEMMA OneFollower ==
    ASSUME Stamped, Filed, NEW p \in Pods, NEW n \in DOMAIN tails[p]
    PROVE  /\ tails[p][n] \in Followers /\ tLines[p] \in Written
           /\ ~tails[p][n].cancelled => Gapless(tails[p][n], tLines[p])
           /\ \A i \in DOMAIN tLines[p] :
                /\ tLines[p][i] \in [at : Nat, long : BOOLEAN]
                /\ tLines[p][i].at \in Nat /\ 1 <= tLines[p][i].at
<1>1. /\ tails[p] \in Seq(Followers) /\ tLines[p] \in Written
      /\ ~tails[p][n].cancelled => Gapless(tails[p][n], tLines[p])
  BY DEF Stamped, Filed
<1>2. ASSUME NEW i \in DOMAIN tLines[p]
      PROVE  tLines[p][i] \in [at : Nat, long : BOOLEAN] /\ 1 <= tLines[p][i].at
  BY <1>1, Members DEF Written, Stamped
<1>3. \A i \in DOMAIN tLines[p] : tLines[p][i].at \in Nat
  BY <1>2
<1> QED
  BY <1>1, <1>2, <1>3

\* A follower that waits has no hole, whatever the time it waits to.
LEMMA AsleepFiles ==
    ASSUME PodLogs!PodLogsAssumption, tClock \in Nat, NEW f \in Followers,
           NEW backoff \in Nat, NEW ls, Gapless(f, ls)
    PROVE  /\ PodLogs!Asleep(f, backoff) \in Followers
           /\ PodLogs!Asleep(f, backoff).cancelled = f.cancelled
           /\ Gapless(PodLogs!Asleep(f, backoff), ls)
<1> DEFINE w == PodLogs!Smaller(tClock + backoff, LastLine)
           b == PodLogs!Smaller(2 * backoff, LongestWait)
           g == PodLogs!Asleep(f, backoff)
<1>1. w \in Nat /\ b \in Nat
  <2>1. LastLine \in Nat /\ LongestWait \in Nat
    BY DEF PodLogs!PodLogsAssumption
  <2>2. tClock + backoff \in Nat /\ 2 * backoff \in Nat
    OBVIOUS
  <2> QED
    BY <2>1, <2>2, WaitsAreTimes
<1>2. g = [f EXCEPT !.at = "asleep", !.wake = w, !.backoff = b]
  BY DEF PodLogs!Asleep
<1> HIDE DEF w, b, g
<1>3. /\ g \in Followers /\ g.cancelled = f.cancelled /\ g.at = "asleep"
      /\ g.last = f.last /\ g.shipped = f.shipped
  BY <1>1, <1>2 DEF Followers
<1>4. Gapless(g, ls)
  BY <1>3 DEF Gapless, WholeUpTo
<1> QED
  BY <1>3, <1>4 DEF g

LEMMA EndedFiles ==
    ASSUME PodLogs!PodLogsAssumption, tClock \in Nat, NEW f \in Followers,
           NEW ls, Gapless(f, ls)
    PROVE  /\ PodLogs!Ended(f) \in Followers /\ PodLogs!Ended(f).cancelled = f.cancelled
           /\ Gapless(PodLogs!Ended(f), ls)
<1> DEFINE g == [f EXCEPT !.at = "asleep", !.next = 0, !.since = 0]
           h == [f EXCEPT !.next = 0, !.since = 0]
           b == IF tClock - f.since > LongEnough THEN FirstWait ELSE f.backoff
<1>1. /\ g \in Followers /\ g.at = "asleep" /\ g.cancelled = f.cancelled /\ g.last = f.last
      /\ g.shipped = f.shipped
  BY DEF Followers
<1>2. Gapless(g, ls)
  BY <1>1 DEF Gapless, WholeUpTo
<1>3. b \in Nat
  BY DEF Followers, PodLogs!PodLogsAssumption
<1>4. PodLogs!Ended(f) = PodLogs!Asleep(h, b)
  BY DEF PodLogs!Ended
<1>5. PodLogs!Asleep(h, b) = PodLogs!Asleep(g, b)
  BY DEF PodLogs!Asleep, Followers
<1> HIDE DEF g, h, b
<1> QED
  BY <1>1, <1>2, <1>3, <1>4, <1>5, AsleepFiles

\* The resume time, cut to the second, is not after the last line.
LEMMA FromTheLast ==
    ASSUME PodLogs!PodLogsAssumption, NEW f \in Followers, f.last # 0
    PROVE  PodLogs!From(f) \in Int /\ PodLogs!From(f) <= f.last
<1> DEFINE l == f.last
           d == f.last % Second
<1>1. l \in Nat /\ Second \in Nat \ {0}
  BY DEF Followers, PodLogs!PodLogsAssumption
<1>2. d \in Nat
  BY <1>1
<1>3. PodLogs!From(f) = l - d
  BY DEF PodLogs!From
<1> HIDE DEF l, d
<1> QED
  BY <1>1, <1>2, <1>3 DEF l

LEMMA ConnectFiles ==
    ASSUME PodLogs!PodLogsAssumption, Stamped, Filed, NEW p \in Pods,
           NEW n \in DOMAIN tails[p], PodLogs!Connect(p, n)
    PROVE  Stamped' /\ Filed'
<1> DEFINE f == tails[p][n]
           ls == tLines[p]
           before == {i \in DOMAIN ls : ls[i].at < PodLogs!From(f)}
           c == Cardinality(before)
           g == [f EXCEPT !.at = "reading", !.since = tClock, !.next = c + 1]
<1>1. ~f.cancelled /\ PodLogs!Set(p, n, g)
  BY SameCountOfLines DEF PodLogs!Connect
<1>2. f \in Followers /\ ls \in Written /\ Gapless(f, ls) /\ tClock \in Nat
  BY <1>1, OneFollower DEF Stamped
<1>3. Len(ls) \in Nat /\ DOMAIN ls = 1..Len(ls)
  BY <1>2 DEF Written
<1>4. IsFiniteSet(1..Len(ls)) /\ Cardinality(1..Len(ls)) = Len(ls)
  BY <1>3, FirstLines
<1>5. before \subseteq 1..Len(ls)
  BY <1>3
<1>6. c \in Nat /\ c <= Len(ls)
  BY <1>4, <1>5, FS_Subset, FS_CardinalityType
<1>7. ASSUME NEW r \in DOMAIN ls, f.last # 0, ls[r].at = f.last
      PROVE  c <= r - 1
  <2>1. r \in Nat /\ 1 <= r /\ r - 1 \in Nat
    BY <1>3
  <2>2. before \subseteq 1..(r - 1)
    <3> SUFFICES ASSUME NEW i \in DOMAIN ls, ls[i].at < PodLogs!From(f)
                 PROVE  i \in 1..(r - 1)
      OBVIOUS
    <3>1. PodLogs!From(f) \in Int /\ PodLogs!From(f) <= ls[r].at
      BY <1>2, <1>7, FromTheLast
    <3>2. i \in Nat /\ 1 <= i /\ ls[i].at \in Nat /\ ls[r].at \in Nat
      BY <1>3, OneFollower
    <3>3. ~(r <= i)
      <4>1. r <= i => ls[r].at <= ls[i].at
        BY DEF Stamped
      <4> QED
        BY <3>1, <3>2, <4>1
    <3> QED
      BY <2>1, <3>2, <3>3
  <2>a. before \in SUBSET (1..(r - 1))
    BY <2>2
  <2>3. IsFiniteSet(1..(r - 1)) /\ Cardinality(1..(r - 1)) = r - 1
    BY <2>1, FirstLines
  <2> QED
    BY <2>a, <2>3, FS_Subset
<1> HIDE DEF c
<1>8. /\ g \in Followers /\ g.cancelled = f.cancelled /\ g.at = "reading" /\ g.next = c + 1
      /\ g.last = f.last /\ g.shipped = f.shipped
  <2>1. c + 1 \in Nat
    BY <1>6
  <2> QED
    BY <1>2, <2>1 DEF Followers
<1> HIDE DEF g, f, ls, before
<1>9. Gapless(g, ls)
  <2>1. g.shipped \subseteq DOMAIN ls /\ 1 <= g.next /\ g.next <= Len(ls) + 1
    BY <1>2, <1>3, <1>6, <1>8 DEF Gapless
  <2>2. CASE g.last = 0
    BY <1>2, <1>8, <2>1, <2>2 DEF Gapless
  <2>3. CASE g.last # 0
    <3>1. PICK r \in Nat : WholeUpTo(f, ls, r)
      BY <1>2, <1>8, <2>3 DEF Gapless
    <3>2. r \in DOMAIN ls /\ ls[r].at = f.last
      BY <1>8, <2>1, <3>1 DEF WholeUpTo
    <3>3. g.next <= r + 1
      BY <1>6, <1>7, <1>8, <2>3, <3>2
    <3>4. WholeUpTo(g, ls, r)
      BY <1>8, <3>1, <3>3 DEF WholeUpTo
    <3> QED
      BY <2>1, <2>3, <3>4 DEF Gapless
  <2> QED
    BY <2>2, <2>3
<1> QED
  BY <1>1, <1>8, <1>9, SetFiles DEF f, ls

\* A line read is the one after the last, or one of the same second before.
LEMMA ReadFiles ==
    ASSUME PodLogs!PodLogsAssumption, Stamped, Filed, NEW p \in Pods,
           NEW n \in DOMAIN tails[p], PodLogs!ReadLine(p, n)
    PROVE  Stamped' /\ Filed'
<1> DEFINE f == tails[p][n]
           ls == tLines[p]
           k == f.next
           entry == ls[k]
<1>1. f \in Followers /\ ls \in Written /\ (~f.cancelled => Gapless(f, ls)) /\ tClock \in Nat
  BY OneFollower DEF Stamped
<1>2. /\ f.at = "reading" /\ k \in DOMAIN ls
      /\ IF entry.long /\ ~f.cancelled THEN PodLogs!Set(p, n, PodLogs!Ended(f))
         ELSE \E ships \in IF f.cancelled THEN BOOLEAN ELSE {TRUE} :
                PodLogs!Set(p, n, [f EXCEPT !.last = entry.at, !.next = @ + 1,
                              !.shipped = IF ships /\ ~entry.long THEN @ \cup {f.next} ELSE @])
  BY DEF PodLogs!ReadLine
<1>3. k \in Nat /\ 1 <= k /\ k <= Len(ls) /\ entry \in [at : Nat, long : BOOLEAN] /\ 1 <= entry.at
  <2>1. k \in Nat /\ 1 <= k /\ k <= Len(ls)
    <3>1. Len(ls) \in Nat /\ DOMAIN ls = 1..Len(ls)
      BY <1>1, Members DEF Written
    <3>2. k \in DOMAIN ls
      BY <1>2
    <3> HIDE DEF k, ls
    <3> QED
      BY <3>1, <3>2
  <2> QED
    BY <1>2, <2>1, OneFollower
<1>4. CASE entry.long /\ ~f.cancelled
  <2>1. PodLogs!Set(p, n, PodLogs!Ended(f))
    BY <1>2, <1>4
  <2>2. /\ PodLogs!Ended(f) \in Followers /\ PodLogs!Ended(f).cancelled = f.cancelled
        /\ Gapless(PodLogs!Ended(f), ls)
    BY <1>1, <1>4, EndedFiles
  <2> QED
    BY <2>1, <2>2, SetFiles
<1>5. CASE ~(entry.long /\ ~f.cancelled)
  <2>1. PICK ships \in IF f.cancelled THEN BOOLEAN ELSE {TRUE} :
          PodLogs!Set(p, n, [f EXCEPT !.last = entry.at, !.next = @ + 1,
                        !.shipped = IF ships /\ ~entry.long THEN @ \cup {f.next} ELSE @])
    BY <1>2, <1>5
  <2> DEFINE more == IF ships /\ ~entry.long THEN f.shipped \cup {k} ELSE f.shipped
             g == [f EXCEPT !.last = entry.at, !.next = k + 1, !.shipped = more]
  <2>2. PodLogs!Set(p, n, g)
    BY <1>1, <2>1 DEF Followers
  <2>3. more \in SUBSET Nat
    BY <1>1, <1>3 DEF Followers
  <2>4. ~f.cancelled => more = f.shipped \cup {k}
    BY <1>3, <1>5, <2>1
  <2> HIDE DEF more
  <2>5. /\ g \in Followers /\ g.cancelled = f.cancelled /\ g.at = "reading"
        /\ g.next = k + 1 /\ g.last = entry.at /\ g.shipped = more
    <3>1. entry.at \in Nat /\ k + 1 \in Nat
      BY <1>3
    <3> HIDE DEF entry, k, f
    <3> QED
      BY <1>1, <1>2, <2>3, <3>1 DEF Followers
  <2> HIDE DEF g
  <2>6. ASSUME ~f.cancelled PROVE Gapless(g, ls)
    <3> HIDE DEF f, ls, k, entry
    <3>1. Gapless(f, ls) /\ g.shipped = f.shipped \cup {k}
      BY <1>1, <2>4, <2>5, <2>6
    <3>2. g.shipped \subseteq DOMAIN ls
      BY <1>2, <3>1 DEF Gapless
    <3>3. 1 <= g.next /\ g.next <= Len(ls) + 1
      BY <1>1, <1>3, <2>5 DEF Written
    <3>4. g.last # 0
      BY <1>3, <2>5
    <3>5. \A i \in g.shipped : i..k \subseteq g.shipped
      <4>1. CASE f.last = 0
        <5>1. g.shipped = {k}
          BY <3>1, <4>1 DEF Gapless
        <5> QED
          BY <1>3, <5>1
      <4>2. CASE f.last # 0
        <5>1. PICK r \in Nat : WholeUpTo(f, ls, r)
          BY <3>1, <4>2 DEF Gapless
        <5>2. k <= r + 1 /\ \A i \in f.shipped : i..r \subseteq f.shipped
          BY <1>2, <5>1 DEF WholeUpTo, k
        <5>3. f.shipped \subseteq Nat
          BY <1>1 DEF Followers
        <5> SUFFICES ASSUME NEW i \in g.shipped, NEW j \in i..k PROVE j \in g.shipped
          OBVIOUS
        <5>4. CASE j = k
          BY <3>1, <5>4
        <5>5. CASE j # k
          <6>1. i \in Nat /\ j \in Int /\ i <= j /\ j < k
            BY <1>3, <3>1, <5>3, <5>5
          <6>2. i \in f.shipped
            BY <3>1, <6>1, <1>3
          <6>3. j \in i..r
            BY <1>3, <5>2, <6>1
          <6> QED
            BY <3>1, <5>2, <6>2, <6>3
        <5> QED
          BY <5>4, <5>5
      <4> QED
        BY <4>1, <4>2
    <3>6. WholeUpTo(g, ls, k)
      BY <1>3, <2>5, <3>1, <3>5 DEF WholeUpTo, entry
    <3> QED
      BY <1>3, <3>2, <3>3, <3>4, <3>6 DEF Gapless
  <2> QED
    BY <2>2, <2>5, <2>6, SetFiles
<1> QED
  BY <1>4, <1>5

\* The other steps of a follower: it waits, connects again, or returns.
LEMMA WaitFiles ==
    ASSUME PodLogs!PodLogsAssumption, Stamped, Filed, NEW p \in Pods,
           NEW n \in DOMAIN tails[p],
           \/ PodLogs!ConnectFails(p, n) \/ PodLogs!StreamEnds(p, n)
           \/ PodLogs!Reconnects(p, n) \/ PodLogs!Returns(p, n)
    PROVE  Stamped' /\ Filed'
<1> DEFINE f == tails[p][n]
           ls == tLines[p]
<1>1. /\ f \in Followers /\ ls \in Written /\ (~f.cancelled => Gapless(f, ls))
      /\ tClock \in Nat /\ f.backoff \in Nat
  BY OneFollower DEF Stamped, Followers
<1>2. CASE PodLogs!ConnectFails(p, n)
  <2>1. ~f.cancelled /\ PodLogs!Set(p, n, PodLogs!Asleep(f, f.backoff))
    BY <1>2 DEF PodLogs!ConnectFails
  <2> QED
    BY <1>1, <2>1, AsleepFiles, SetFiles
<1>3. CASE PodLogs!StreamEnds(p, n)
  <2>1. ~f.cancelled /\ PodLogs!Set(p, n, PodLogs!Ended(f))
    BY <1>3 DEF PodLogs!StreamEnds
  <2> QED
    BY <1>1, <2>1, EndedFiles, SetFiles
<1>4. CASE PodLogs!Reconnects(p, n)
  <2> DEFINE g == [f EXCEPT !.at = "connecting", !.wake = 0]
  <2>1. ~f.cancelled /\ PodLogs!Set(p, n, g)
    BY <1>4 DEF PodLogs!Reconnects
  <2>2. /\ g \in Followers /\ g.cancelled = f.cancelled /\ g.at = "connecting"
        /\ g.last = f.last /\ g.shipped = f.shipped
    BY <1>1 DEF Followers
  <2> HIDE DEF g
  <2>3. Gapless(g, ls)
    BY <1>1, <2>1, <2>2 DEF Gapless, WholeUpTo
  <2> QED
    BY <2>1, <2>2, <2>3, SetFiles
<1>5. CASE PodLogs!Returns(p, n)
  <2> DEFINE g == [f EXCEPT !.at = "gone"]
  <2>1. f.cancelled /\ PodLogs!Set(p, n, g)
    BY <1>5 DEF PodLogs!Returns
  <2>2. g \in Followers /\ g.cancelled = f.cancelled
    BY <1>1 DEF Followers
  <2> HIDE DEF g
  <2> QED
    BY <2>1, <2>2, SetFiles
<1> QED
  BY <1>2, <1>3, <1>4, <1>5

\* A line more leaves what was shipped of those before.
LEMMA WriteFiles ==
    ASSUME PodLogs!PodLogsAssumption, Stamped, Filed, NEW p \in Pods, PodLogs!WriteLine(p)
    PROVE  Stamped' /\ Filed'
<1>1. PICK long \in LongLines :
        tLines' = [tLines EXCEPT ![p] = Append(@, [at |-> tClock, long |-> long])]
  BY DEF PodLogs!WriteLine
<1> DEFINE entry == [at |-> tClock, long |-> long]
<1>2. tLines' = [tLines EXCEPT ![p] = Append(tLines[p], entry)]
      /\ UNCHANGED <<tClock, tails, tailed>>
  BY <1>1 DEF PodLogs!WriteLine, PodLogs!tailer, Stamped
<1>3. entry \in [at : Nat, long : BOOLEAN] /\ entry.at = tClock
  BY DEF Stamped, PodLogs!PodLogsAssumption
<1> HIDE DEF entry
<1>4. tLines \in [Pods -> Written] /\ tLines[p] \in Written /\ Len(tLines[p]) \in Nat
  BY DEF Stamped, Written
<1>5. /\ tLines'[p] = Append(tLines[p], entry) /\ tLines'[p] \in Written
      /\ Len(tLines'[p]) = Len(tLines[p]) + 1 /\ DOMAIN tLines'[p] = 1..Len(tLines[p]) + 1
      /\ tLines'[p][Len(tLines[p]) + 1] = entry
      /\ \A i \in 1..Len(tLines[p]) : tLines'[p][i] = tLines[p][i]
  BY <1>2, <1>3, <1>4 DEF Written
<1>6. tLines' \in [Pods -> Written] /\ \A q \in Pods : q # p => tLines'[q] = tLines[q]
  BY <1>2, <1>4, <1>5
<1>7. Stamped'
  <2>1. ASSUME NEW i \in DOMAIN tLines'[p]
        PROVE  /\ 1 <= tLines'[p][i].at /\ tLines'[p][i].at <= tClock
               /\ \A j \in DOMAIN tLines'[p] : i <= j => tLines'[p][i].at <= tLines'[p][j].at
    <3>1. tClock \in Nat /\ 1 <= tClock
      BY DEF Stamped
    <3>2. \A j \in 1..Len(tLines[p]) :
            /\ tLines'[p][j].at \in Nat /\ 1 <= tLines'[p][j].at /\ tLines'[p][j].at <= tClock
            /\ \A m \in 1..Len(tLines[p]) : j <= m => tLines'[p][j].at <= tLines'[p][m].at
      <4>1. DOMAIN tLines[p] = 1..Len(tLines[p])
        BY <1>4 DEF Written
      <4>2. \A j \in 1..Len(tLines[p]) : tLines[p][j].at \in Nat
        <5>1. ASSUME NEW j \in 1..Len(tLines[p])
              PROVE  tLines[p][j].at \in Nat
          <6>1. tLines[p][j] \in [at : Nat, long : BOOLEAN]
            BY <1>4, <4>1, Members DEF Written
          <6> QED
            BY <6>1
        <5> QED
          BY <5>1
      <4> QED
        BY <1>5, <4>1, <4>2 DEF Stamped
    <3>3. tLines'[p][Len(tLines[p]) + 1].at = tClock
      BY <1>3, <1>5
    <3> QED
      BY <1>4, <1>5, <3>1, <3>2, <3>3
  <2> QED
    BY <1>2, <1>6, <2>1 DEF Stamped
<1>8. ASSUME NEW f \in Followers, Gapless(f, tLines[p])
      PROVE  Gapless(f, tLines'[p])
  <2>1. DOMAIN tLines[p] = 1..Len(tLines[p])
    BY <1>4 DEF Written
  <2>2. f.shipped \subseteq DOMAIN tLines'[p]
    BY <1>4, <1>5, <1>8, <2>1 DEF Gapless
  <2>3. \A r \in Nat : WholeUpTo(f, tLines[p], r) => WholeUpTo(f, tLines'[p], r)
    BY <1>5, <1>8, <2>1 DEF Gapless, WholeUpTo
  <2>4. f.at = "reading" => 1 <= f.next /\ f.next <= Len(tLines'[p]) + 1
    BY <1>4, <1>5, <1>8 DEF Gapless, Followers
  <2> QED
    BY <1>8, <2>2, <2>3, <2>4 DEF Gapless
<1>9. Filed'
  <2>1. \A q \in Pods : \A n \in DOMAIN tails[q] :
          ~tails[q][n].cancelled => Gapless(tails[q][n], tLines'[q])
    BY <1>6, <1>8, OneFollower DEF Filed
  <2> QED
    BY <1>2, <2>1 DEF Filed
<1> QED
  BY <1>7, <1>9

LEMMA NextFiles ==
    ASSUME PodLogs!PodLogsAssumption, Stamped, Filed, [PodLogs!Next]_(PodLogs!podlogs)
    PROVE  Stamped' /\ Filed'
<1>1. CASE PodLogs!OnList
  <2> DEFINE order == [p \in Pods |-> PodLogs!Reconcile(pods[p])]
  <2>1. order \in [Pods -> {"start", "stop", "keep"}]
    BY DEF PodLogs!Reconcile
  <2>2. PodLogs!Align(order) /\ UNCHANGED <<tClock, tLines>>
    BY <1>1 DEF PodLogs!OnList
  <2> QED
    BY <2>1, <2>2, AlignFiles
<1>2. CASE PodLogs!OnEvent
  <2> DEFINE order == [p \in Pods |-> IF p /= PodLogs!Frame.object THEN "keep"
                                      ELSE IF PodLogs!Frame.value = none THEN "stop"
                                      ELSE PodLogs!Sync(PodLogs!Frame.value)]
  <2>1. order \in [Pods -> {"start", "stop", "keep"}]
    BY DEF PodLogs!Sync
  <2>2. PodLogs!Align(order) /\ UNCHANGED <<tClock, tLines>>
    BY <1>2 DEF PodLogs!OnEvent
  <2> QED
    BY <2>1, <2>2, AlignFiles
<1>3. CASE \/ PodLogs!PodMoves \/ UNCHANGED PodLogs!podlogs
           \/ (PodLogs!Breaks /\ UNCHANGED <<tClock, tLines, PodLogs!tailer>>)
  <2>1. UNCHANGED <<tClock, tLines, tails, tailed>>
    BY <1>3 DEF PodLogs!PodMoves, PodLogs!podlogs, PodLogs!tailer
  <2> QED
    BY <2>1 DEF Stamped, Filed
<1>4. CASE PodLogs!Tick
  <2>1. tClock' = tClock + 1 /\ UNCHANGED <<tLines, tails, tailed>>
    BY <1>4 DEF PodLogs!Tick, PodLogs!tailer
  <2>2. tClock \in Nat /\ tLines \in [Pods -> Written]
        /\ \A p \in Pods : \A i \in DOMAIN tLines[p] : tLines[p][i].at \in Nat
    <3>1. ASSUME NEW p \in Pods, NEW i \in DOMAIN tLines[p]
          PROVE  tLines[p][i].at \in Nat
      <4>1. tLines[p] \in Written
        BY DEF Stamped
      <4>2. tLines[p][i] \in [at : Nat, long : BOOLEAN]
        BY <4>1, Members DEF Written
      <4> QED
        BY <4>2
    <3> QED
      BY <3>1 DEF Stamped
  <2>3. Stamped'
    BY <2>1, <2>2 DEF Stamped
  <2>4. Filed'
    BY <2>1 DEF Filed
  <2> QED
    BY <2>3, <2>4
<1>5. ASSUME NEW p \in Pods, PodLogs!WriteLine(p)
      PROVE  Stamped' /\ Filed'
  BY <1>5, WriteFiles
<1>6. ASSUME NEW p \in Pods, NEW n \in DOMAIN tails[p],
             PodLogs!Follow(p, n) \/ PodLogs!StreamEnds(p, n)
      PROVE  Stamped' /\ Filed'
  BY <1>6, ConnectFiles, ReadFiles, WaitFiles DEF PodLogs!Follow
<1> QED
  BY <1>1, <1>2, <1>3, <1>4, <1>5, <1>6 DEF PodLogs!Next

LEMMA FiledIsWhole ==
    ASSUME Stamped, Filed
    PROVE  PodLogs!TailsAreWhole
<1>1. PodLogs!NoStrayTail
  BY DEF Filed, PodLogs!NoStrayTail
<1>2. PodLogs!NoHole
  <2> SUFFICES ASSUME NEW p \in Pods, NEW n \in DOMAIN tails[p],
                      tails[p][n].at = "reading", ~tails[p][n].cancelled,
                      NEW i \in tails[p][n].shipped, NEW j \in i..(tails[p][n].next - 1)
               PROVE  j \in tails[p][n].shipped
    BY DEF PodLogs!NoHole
  <2> DEFINE f == tails[p][n]
  <2>1. f \in Followers /\ Gapless(f, tLines[p])
    BY OneFollower
  <2>2. PICK r \in Nat : WholeUpTo(f, tLines[p], r)
    BY <2>1 DEF Gapless
  <2>3. f.next <= r + 1 /\ i..r \subseteq f.shipped /\ f.next \in Nat /\ i \in Nat
    BY <2>1, <2>2 DEF WholeUpTo, Followers
  <2> HIDE DEF f
  <2>4. j \in i..r
    BY <2>3 DEF f
  <2> QED
    BY <2>3, <2>4 DEF f
<1> QED
  BY <1>1, <1>2 DEF PodLogs!TailsAreWhole

\* Each pod is tailed by one follower at most, the one that its stream can stop,
\* and what a follower ships of the pod has no hole from its first line on,
\* however often the stream breaks, the backoff grows and the clock's second
\* holds several lines (reconcile, sync, follow and consume).
THEOREM TailsHold == SpecParts => []TailsAreWhole
<1> DEFINE Inv == which = "podlogs" => Stamped /\ Filed
<1>1. InitParts => Inv
  BY InitFiles, PartsAssumption DEF InitParts
<1>2. Inv /\ [NextParts]_parts => Inv'
  BY PodLogsRun, NextFiles, PartsAssumption
<1>3. Inv => TailsAreWhole
  BY FiledIsWhole DEF TailsAreWhole
<1> QED
  BY <1>1, <1>2, <1>3, PTL DEF SpecParts

-----------------------------------------------------------------------------
(* The terminal *)

LEMMA TerminalRuns ==
    ASSUME [NextParts]_parts, which' = "terminal"
    PROVE  which = "terminal" /\ [Terminal!Next]_(Terminal!terminal)
  BY DEF NextParts, Runs, Rest, parts, terminal, Terminal!terminal, Terminal!server,
         Terminal!feed, Terminal!listing

\* What is shown, of the events published, and what the stream still has to send.
Followed ==
    /\ published \in Nat /\ boot \in 0..published /\ dropped \in BOOLEAN
    /\ tEvents \in Seq(1..published) /\ Len(tEvents) <= EventHistory
    /\ \A i, j \in 1..Len(tEvents) : tEvents[i] = tEvents[j] => i = j
    /\ known = Terminal!Range(tEvents)
    /\ pipe \in Seq(0..published)

\* The event before the newest ones, of this life of the server.
Before(b, p) == Terminal!Larger(b, p - EventHistory)
Shows(view, e) == \E i \in 1..Len(view) : view[i] = e
Comes(coming, e) == \E i \in 1..Len(coming) : coming[i] = e

\* The view is in order and has no hole among the newest events.
Unbroken(view, b, p) ==
    /\ \A i, j \in 1..Len(view) : i <= j => view[j] - view[i] >= j - i
    /\ \A x \in 1..p : \A i \in 1..Len(view) :
         x > Before(b, p) /\ x < view[i] => Shows(view, x)

\* The stream sends in order; between it and the view no newest event is missing.
Complete(view, coming, b, p) ==
    /\ \A i, j \in 1..Len(coming) : i < j /\ coming[i] # 0 /\ coming[j] # 0 => coming[i] < coming[j]
    /\ \A x \in 1..p : x > Before(b, p) => Shows(view, x) \/ Comes(coming, x)
    /\ \A i \in 1..Len(coming) : \A j \in 1..Len(view) :
         coming[i] # 0 /\ ~Shows(view, coming[i]) => view[j] < coming[i]

Keeps == RingSize >= EventHistory /\ ~dropped
Follows ==
    /\ Followed
    /\ Keeps => Unbroken(tEvents, boot, published)
    /\ Keeps /\ stream = "open" => Complete(tEvents, pipe, boot, published)

LEMMA Widened ==
    ASSUME NEW S, NEW T, S \subseteq T, NEW s \in Seq(S)
    PROVE  s \in Seq(T)
  OBVIOUS

LEMMA Lengthened ==
    ASSUME NEW S, NEW s \in Seq(S), NEW e \in S
    PROVE  /\ Append(s, e) \in Seq(S) /\ Len(Append(s, e)) = Len(s) + 1
           /\ Append(s, e)[Len(s) + 1] = e /\ \A i \in 1..Len(s) : Append(s, e)[i] = s[i]
  OBVIOUS

LEMMA Shortened ==
    ASSUME NEW S, NEW s \in Seq(S), NEW n \in Nat, Len(s) = n + 1
    PROVE  /\ SubSeq(s, 2, n + 1) \in Seq(S) /\ Len(SubSeq(s, 2, n + 1)) = n
           /\ \A i \in 1..n : SubSeq(s, 2, n + 1)[i] = s[i + 1]
<1>1. \A i \in 1..n : s[2 + i - 1] \in S /\ 2 + i - 1 = i + 1
  OBVIOUS
<1>2. /\ SubSeq(s, 2, n + 1) = [i \in 1..(1 + (n + 1) - 2) |-> s[2 + i - 1]]
      /\ 1 + (n + 1) - 2 = n
  OBVIOUS
<1> QED
  BY <1>1, <1>2

LEMMA SetOf ==
    ASSUME NEW S, NEW s \in Seq(S)
    PROVE  /\ \A e : e \in Terminal!Range(s) <=> Shows(s, e)
           /\ (\A i, j \in 1..Len(s) : s[i] = s[j] => i = j) =>
                Cardinality(Terminal!Range(s)) = Len(s)
<1> DEFINE T == Terminal!Range(s)
           n == Len(s)
<1>1. n \in Nat /\ DOMAIN s = 1..n /\ s = [i \in 1..n |-> s[i]] /\ T = {s[i] : i \in 1..n}
  BY DEF Terminal!Range
<1>2. \A e : e \in T <=> Shows(s, e)
  BY <1>1 DEF Shows
<1>3. ASSUME \A i, j \in 1..n : s[i] = s[j] => i = j
      PROVE  Cardinality(T) = n
  <2>1. s \in Surjection(1..n, T) /\ s \in Injection(1..n, T)
    <3>1. s \in [1..n -> T] /\ \A v \in T : \E i \in 1..n : s[i] = v
      BY <1>1
    <3>2. \A i, j \in 1..n : s[i] = s[j] => i = j
      BY <1>3
    <3> HIDE DEF T, n
    <3> QED
      BY <3>1, <3>2 DEF Surjection, Injection, IsInjective
  <2>2. IsFiniteSet(1..n) /\ Cardinality(1..n) = n
    <3>1. 1 \in Int /\ n \in Int
      BY <1>1
    <3> HIDE DEF n
    <3>2. IsFiniteSet(1..n) /\ Cardinality(1..n) = IF 1 > n THEN 0 ELSE n - 1 + 1
      BY <3>1, FS_Interval
    <3> QED
      BY <1>1, <3>2
  <2> HIDE DEF T, n
  <2> QED
    BY <2>1, <2>2, FS_Surjection
<1> QED
  BY <1>2, <1>3

\* The newest events of a log, of which some may be left out.
LEMMA NewestAre ==
    ASSUME published \in Nat, NEW from \in 0..published, NEW n \in Nat
    PROVE  LET s == Terminal!Newest(from, n)
               k == Terminal!Larger(from, published - n) IN
           /\ k \in 0..published /\ s \in Seq(1..published) /\ Len(s) = published - k
           /\ Len(s) <= n /\ \A i \in 1..Len(s) : s[i] = k + i
<1> DEFINE k == Terminal!Larger(from, published - n)
           s == Terminal!Newest(from, n)
<1>1. k \in 0..published /\ published - k <= n /\ published - k \in Nat
  BY DEF Terminal!Larger
<1>2. s = [i \in 1..(published - k) |-> k + i]
  BY Zenon DEF Terminal!Newest
<1> HIDE DEF k
<1>3. \A i \in 1..(published - k) : k + i \in 1..published
  BY <1>1
<1>4. s \in Seq(1..published) /\ Len(s) = published - k /\ \A i \in 1..Len(s) : s[i] = k + i
  <2> DEFINE m == published - k
  <2>1. m \in Nat /\ s = [i \in 1..m |-> k + i] /\ \A i \in 1..m : k + i \in 1..published
    BY <1>1, <1>2, <1>3
  <2> HIDE DEF m, s
  <2>2. s \in Seq(1..published) /\ Len(s) = m /\ \A i \in 1..m : s[i] = k + i
    BY <2>1
  <2> QED
    BY <2>2 DEF m
<1> HIDE DEF s
<1> QED
  BY <1>1, <1>4 DEF k, s

LEMMA InitFollows ==
    ASSUME Terminal!TerminalAssumption, Terminal!Init
    PROVE  Follows
<1>1. /\ published = 0 /\ boot = 0 /\ dropped = FALSE /\ tEvents = <<>> /\ known = {}
      /\ pipe = <<>> /\ stream = "seeding" /\ Len(<<>>) = 0 /\ EventHistory \in Nat
  BY DEF Terminal!Init, Terminal!TerminalAssumption
<1>2. <<>> \in Seq(1..published) /\ <<>> \in Seq(0..published)
  OBVIOUS
<1>3. Terminal!Range(<<>>) = {}
  BY DEF Terminal!Range
<1>4. Followed
  <2>1. dropped \in BOOLEAN
    BY <1>1, Zenon
  <2>2. /\ published \in Nat /\ boot \in 0..published /\ Len(tEvents) <= EventHistory
        /\ \A i, j \in 1..Len(tEvents) : tEvents[i] = tEvents[j] => i = j
    BY <1>1
  <2>3. known = Terminal!Range(tEvents) /\ tEvents \in Seq(1..published)
        /\ pipe \in Seq(0..published)
    BY <1>1, <1>2, <1>3, Zenon
  <2> QED
    BY <2>1, <2>2, <2>3 DEF Followed
<1>5. Unbroken(tEvents, boot, published)
  BY <1>1 DEF Unbroken
<1> QED
  BY <1>1, <1>4, <1>5 DEF Follows

\* Steps that lose the stream, or leave it as it is, with a server that may start.
LEMMA BootFollows ==
    ASSUME Terminal!TerminalAssumption, Follows, UNCHANGED <<published, dropped, tEvents, known>>,
           boot' \in boot..published, pipe' \in Seq(0..published),
           stream' # "open" \/ (stream' = stream /\ pipe' = pipe /\ boot' = boot)
    PROVE  Follows'
<1>1. published \in Nat /\ boot \in 0..published /\ boot' \in 0..published /\ EventHistory \in Nat
  BY DEF Follows, Followed, Terminal!TerminalAssumption
<1>2. Before(boot', published) >= Before(boot, published)
      /\ Before(boot', published) \in Int /\ Before(boot, published) \in Int
  BY <1>1 DEF Before, Terminal!Larger
<1>3. Followed'
  BY <1>1 DEF Follows, Followed
<1>4. Keeps' => Keeps
  BY DEF Keeps
<1>5. Keeps => Unbroken(tEvents, boot', published)
  <2> SUFFICES ASSUME Keeps, Unbroken(tEvents, boot, published)
               PROVE  Unbroken(tEvents, boot', published)
    BY DEF Follows
  <2>1. ASSUME NEW x \in 1..published, x > Before(boot', published)
        PROVE  x > Before(boot, published)
    BY <1>2, <2>1
  <2> QED
    BY <2>1 DEF Unbroken
<1>6. (Keeps => Unbroken(tEvents, boot, published))'
  BY <1>4, <1>5
<1>7. (Keeps /\ stream = "open" => Complete(tEvents, pipe, boot, published))'
  BY <1>4 DEF Follows
<1> QED
  BY <1>3, <1>6, <1>7 DEF Follows

LEMMA PublishFollows ==
    ASSUME Terminal!TerminalAssumption, Follows, Terminal!Publish
    PROVE  Follows'
<1> DEFINE e == published + 1
           full == Terminal!Pending >= Behind
<1>1. /\ published' = e
      /\ pipe' = IF stream = "open" /\ ~full THEN Append(pipe, e) ELSE pipe
      /\ dropped' = (dropped \/ (stream = "open" /\ full))
      /\ UNCHANGED <<boot, stream, tEvents, known>>
  BY DEF Terminal!Publish, Terminal!listing
<1> HIDE DEF full
<1>2. /\ published \in Nat /\ boot \in 0..published /\ dropped \in BOOLEAN
      /\ tEvents \in Seq(1..published) /\ pipe \in Seq(0..published)
      /\ EventHistory \in Nat \ {0}
  BY DEF Follows, Followed, Terminal!TerminalAssumption
<1>3. /\ e \in Nat /\ 0..published \subseteq 0..e /\ 1..published \subseteq 1..e /\ e \in 0..e
      /\ e \notin 0..published
  BY <1>2
<1>4. Before(boot, e) >= Before(boot, published)
      /\ Before(boot, e) \in Int /\ Before(boot, published) \in Int
  BY <1>2 DEF Before, Terminal!Larger
<1>5. Followed'
  <2>1. tEvents \in Seq(1..e) /\ pipe \in Seq(0..e)
    BY <1>2, <1>3
  <2>2. pipe' \in Seq(0..e)
    <3>1. pipe' = Append(pipe, e) \/ pipe' = pipe
      BY <1>1, Zenon
    <3>2. Append(pipe, e) \in Seq(0..e)
      BY <1>3, <2>1, Lengthened
    <3> QED
      BY <2>1, <3>1, <3>2, Zenon
  <2>3. boot \in 0..e
    BY <1>2, <1>3
  <2>4. dropped' \in BOOLEAN
    BY <1>1, Zenon
  <2>5. /\ Len(tEvents) <= EventHistory /\ known = Terminal!Range(tEvents)
        /\ \A i, j \in 1..Len(tEvents) : tEvents[i] = tEvents[j] => i = j
    BY DEF Follows, Followed
  <2> HIDE DEF e
  <2> QED
    BY <1>1, <1>3, <2>1, <2>2, <2>3, <2>4, <2>5 DEF Followed
<1>6. Keeps' => Keeps /\ (stream = "open" => pipe' = Append(pipe, e))
  <2>1. ~dropped' => ~dropped /\ (stream = "open" => ~full)
    BY <1>1, Zenon
  <2> QED
    BY <1>1, <2>1, Zenon DEF Keeps
<1>7. \A i \in 1..Len(tEvents) : tEvents[i] \in 1..published /\ tEvents[i] < e
  <2>1. \A i \in 1..Len(tEvents) : tEvents[i] \in 1..published
    BY <1>2
  <2> QED
    BY <1>2, <2>1
<1>8. Keeps' => Unbroken(tEvents, boot, e)
  <2> SUFFICES ASSUME Unbroken(tEvents, boot, published) PROVE Unbroken(tEvents, boot, e)
    BY <1>6 DEF Follows
  <2>1. ASSUME NEW x \in 1..e, NEW i \in 1..Len(tEvents), x > Before(boot, e), x < tEvents[i]
        PROVE  x \in 1..published /\ x > Before(boot, published)
    BY <1>2, <1>4, <1>7, <2>1
  <2> HIDE DEF e
  <2> QED
    BY <2>1 DEF Unbroken
<1>9. Keeps' /\ stream = "open" => Complete(tEvents, pipe', boot, e)
  <2> SUFFICES ASSUME stream = "open", Complete(tEvents, pipe, boot, published),
                      pipe' = Append(pipe, e)
               PROVE  Complete(tEvents, pipe', boot, e)
    BY <1>6 DEF Follows
  <2> DEFINE n == Len(pipe)
             coming == Append(pipe, e)
  <2>1. /\ n \in Nat /\ Len(coming) = n + 1 /\ coming[n + 1] = e
        /\ \A i \in 1..n : coming[i] = pipe[i] /\ pipe[i] \in 0..published
    BY <1>2
  <2>2. \A i \in 1..n : pipe[i] < e /\ pipe[i] \in Nat
    BY <1>2, <2>1
  <2> HIDE DEF coming, n, e
  <2>3. \A i, j \in 1..Len(coming) : i < j /\ coming[i] # 0 /\ coming[j] # 0 => coming[i] < coming[j]
    <3>1. ASSUME NEW i \in 1..(n + 1), NEW j \in 1..(n + 1), i < j, coming[i] # 0, coming[j] # 0
          PROVE  coming[i] < coming[j]
      <4>1. i \in 1..n
        BY <2>1, <3>1
      <4>2. CASE j \in 1..n
        BY <2>1, <3>1, <4>1, <4>2 DEF Complete, n
      <4>3. CASE j = n + 1
        BY <2>1, <2>2, <4>1, <4>3
      <4> QED
        BY <2>1, <4>2, <4>3
    <3> QED
      BY <2>1, <3>1
  <2>4. \A x \in 1..e : x > Before(boot, e) => Shows(tEvents, x) \/ Comes(coming, x)
    <3>1. ASSUME NEW x \in 1..e, x > Before(boot, e)
          PROVE  Shows(tEvents, x) \/ Comes(coming, x)
      <4>1. CASE x = e
        BY <2>1, <4>1 DEF Comes
      <4>2. CASE x # e
        <5>1. x \in 1..published /\ x > Before(boot, published)
          BY <1>2, <1>4, <3>1, <4>2 DEF e
        <5>2. Shows(tEvents, x) \/ Comes(pipe, x)
          BY <5>1 DEF Complete
        <5>3. Comes(pipe, x) => Comes(coming, x)
          BY <2>1 DEF Comes, n
        <5> QED
          BY <5>2, <5>3
      <4> QED
        BY <4>1, <4>2
    <3> QED
      BY <3>1
  <2>5. \A i \in 1..Len(coming) : \A j \in 1..Len(tEvents) :
           coming[i] # 0 /\ ~Shows(tEvents, coming[i]) => tEvents[j] < coming[i]
    <3>1. ASSUME NEW i \in 1..(n + 1), NEW j \in 1..Len(tEvents), coming[i] # 0,
                 ~Shows(tEvents, coming[i])
          PROVE  tEvents[j] < coming[i]
      <4>1. CASE i \in 1..n
        BY <2>1, <3>1, <4>1 DEF Complete, n
      <4>2. CASE i = n + 1
        BY <1>7, <2>1, <4>2
      <4> QED
        BY <2>1, <4>1, <4>2
    <3> QED
      BY <2>1, <3>1
  <2> QED
    BY <2>3, <2>4, <2>5 DEF Complete, coming
<1> QED
  BY <1>1, <1>5, <1>8, <1>9 DEF Follows

LEMMA SeedFollows ==
    ASSUME Terminal!TerminalAssumption, Follows, Terminal!Seed
    PROVE  Follows'
<1>1. /\ UNCHANGED <<published, boot, pipe, dropped>> /\ stream' = "waiting"
      /\ published \in Nat /\ boot \in 0..published /\ EventHistory \in Nat
  BY DEF Terminal!Seed, Terminal!server, Follows, Followed, Terminal!TerminalAssumption
<1>2. CASE UNCHANGED <<tEvents, known>>
  <2>1. UNCHANGED <<published, dropped, tEvents, known>> /\ boot' \in boot..published
        /\ pipe' \in Seq(0..published) /\ stream' # "open"
    BY <1>1, <1>2 DEF Follows, Followed
  <2> QED
    BY <2>1, BootFollows
<1>3. CASE tEvents' = Terminal!Newest(0, EventHistory) /\ known' = Terminal!Range(tEvents')
  <2> DEFINE k == Terminal!Larger(0, published - EventHistory)
  <2>1. /\ k \in 0..published /\ tEvents' \in Seq(1..published)
        /\ Len(tEvents') = published - k /\ Len(tEvents') <= EventHistory
        /\ \A i \in 1..Len(tEvents') : tEvents'[i] = k + i
    <3>1. 0 \in 0..published
      BY <1>1
    <3> QED
      BY <1>1, <1>3, <3>1, NewestAre
  <2>2. Before(boot, published) >= k /\ Before(boot, published) \in Int
    BY <1>1 DEF Before, Terminal!Larger
  <2> HIDE DEF k
  <2>3. \A i, j \in 1..Len(tEvents') : tEvents'[i] = tEvents'[j] => i = j
    BY <2>1
  <2>4. Followed'
    BY <1>1, <1>3, <2>1, <2>3 DEF Follows, Followed
  <2>5. \A i, j \in 1..Len(tEvents') : i <= j => tEvents'[j] - tEvents'[i] >= j - i
    BY <2>1
  <2>6. ASSUME NEW x \in 1..published, x > Before(boot, published)
        PROVE  Shows(tEvents', x)
    <3>1. x - k \in 1..Len(tEvents') /\ k + (x - k) = x
      BY <1>1, <2>1, <2>2, <2>6
    <3>2. tEvents'[x - k] = x
      BY <2>1, <3>1
    <3> QED
      BY <3>1, <3>2 DEF Shows
  <2>7. Unbroken(tEvents', boot, published)
    BY <2>5, <2>6 DEF Unbroken
  <2> QED
    BY <1>1, <2>4, <2>7 DEF Follows
<1> QED
  BY <1>2, <1>3 DEF Terminal!Seed

LEMMA ConnectFollows ==
    ASSUME Terminal!TerminalAssumption, Follows, Terminal!Connect
    PROVE  Follows'
<1> DEFINE n == IF RingSize < EventHistory THEN RingSize ELSE EventHistory
           s == Terminal!Newest(boot, n)
           k == Terminal!Larger(boot, published - n)
           m == Len(s)
<1>1. /\ UNCHANGED <<published, boot, dropped, tEvents, known>> /\ pipe' = Append(s, 0)
      /\ published \in Nat /\ boot \in 0..published /\ n \in Nat
      /\ EventHistory \in Nat /\ RingSize \in Nat
  BY DEF Terminal!Connect, Terminal!Replay, Terminal!server, Follows, Followed,
         Terminal!TerminalAssumption
<1>2. /\ k \in 0..published /\ s \in Seq(1..published) /\ m = published - k
      /\ \A i \in 1..m : s[i] = k + i
  BY <1>1, NewestAre
<1>3. RingSize >= EventHistory => k = Before(boot, published)
  BY <1>1 DEF Before
<1> HIDE DEF s, k, n
<1>4. /\ pipe' \in Seq(0..published) /\ Len(pipe') = m + 1 /\ pipe'[m + 1] = 0
      /\ \A i \in 1..m : pipe'[i] = k + i
  <2>1. 1..published \subseteq 0..published /\ 0 \in 0..published
    BY <1>1
  <2>2. s \in Seq(0..published)
    BY <1>2, <2>1, Widened, Zenon
  <2> DEFINE q == Append(s, 0)
  <2>3. q \in Seq(0..published) /\ Len(q) = m + 1 /\ q[m + 1] = 0 /\ \A i \in 1..m : q[i] = s[i]
    BY <2>1, <2>2
  <2> HIDE DEF q
  <2>4. pipe' = q
    BY <1>1 DEF q
  <2> QED
    BY <1>2, <2>3, <2>4
<1>5. m \in Nat
  BY <1>1, <1>2
<1> HIDE DEF m
<1>6. Followed'
  BY <1>1, <1>4 DEF Follows, Followed
<1>7. ASSUME Keeps', Unbroken(tEvents, boot, published)
      PROVE  Complete(tEvents, pipe', boot, published)
  <2>1. k = Before(boot, published)
    BY <1>3, <1>7 DEF Keeps
  <2>2. \A i \in 1..Len(pipe') : pipe'[i] # 0 => i \in 1..m
    BY <1>4, <1>5
  <2>3. \A i, j \in 1..Len(pipe') : i < j /\ pipe'[i] # 0 /\ pipe'[j] # 0 => pipe'[i] < pipe'[j]
    BY <1>2, <1>4, <1>5, <2>2
  <2>4. ASSUME NEW x \in 1..published, x > Before(boot, published) PROVE Comes(pipe', x)
    <3>1. x - k \in 1..m /\ k + (x - k) = x /\ x - k \in 1..Len(pipe')
      BY <1>1, <1>2, <1>4, <2>1, <2>4
    <3>2. pipe'[x - k] = x
      BY <1>4, <3>1
    <3> QED
      BY <3>1, <3>2 DEF Comes
  <2>5. ASSUME NEW i \in 1..Len(pipe'), NEW j \in 1..Len(tEvents), pipe'[i] # 0,
               ~Shows(tEvents, pipe'[i])
        PROVE  tEvents[j] < pipe'[i]
    <3> DEFINE x == pipe'[i]
               y == tEvents[j]
    <3>1. x = k + i /\ i \in 1..m
      BY <1>4, <2>2, <2>5
    <3>2. x \in 1..published /\ x > k
      BY <1>1, <1>2, <3>1
    <3>3. y \in 1..published
      BY DEF Follows, Followed
    <3>4. ~(x < y)
      BY <1>7, <2>1, <2>5, <3>2 DEF Unbroken
    <3>5. x # y
      BY <2>5 DEF Shows
    <3> HIDE DEF x, y
    <3>6. y < x
      BY <1>1, <3>2, <3>3, <3>4, <3>5
    <3> QED
      BY <3>6 DEF x, y
  <2> QED
    BY <2>3, <2>4, <2>5 DEF Complete
<1>8. Keeps' => Keeps
  BY <1>1 DEF Keeps
<1> QED
  BY <1>1, <1>6, <1>7, <1>8 DEF Follows

\* A view that an event joins, and that loses its oldest one when it is full.
LEMMA JoinedBy ==
    ASSUME Terminal!TerminalAssumption, Followed, NEW e \in 1..published,
           ~Shows(tEvents, e)
    PROVE  LET w == Terminal!Trimmed(Append(tEvents, e))
               n == Len(tEvents) IN
           \E d \in {0, 1} :
             /\ n \in Nat /\ w \in Seq(1..published) /\ Len(w) = n + 1 - d
             /\ Len(w) <= EventHistory /\ (d = 1 => n = EventHistory)
             /\ \A i \in 1..Len(w) : w[i] = IF i + d = n + 1 THEN e ELSE tEvents[i + d]
<1> DEFINE v == Append(tEvents, e)
           n == Len(tEvents)
           w == Terminal!Trimmed(v)
<1>1. EventHistory \in Nat \ {0} /\ n \in Nat /\ n <= EventHistory
  BY DEF Followed, Terminal!TerminalAssumption
<1>2. v \in Seq(1..published) /\ Len(v) = n + 1
      /\ \A i \in 1..(n + 1) : v[i] = IF i = n + 1 THEN e ELSE tEvents[i]
  BY DEF Followed
<1>3. w = IF Len(v) > EventHistory
          THEN SubSeq(v, Len(v) - EventHistory + 1, Len(v)) ELSE v
  BY Zenon DEF Terminal!Trimmed
<1> HIDE DEF v, w, n
<1>4. CASE n < EventHistory
  <2>1. w = v
    BY <1>1, <1>2, <1>3, <1>4
  <2>2. /\ w \in Seq(1..published) /\ Len(w) = n + 1 - 0 /\ Len(w) <= EventHistory
        /\ \A i \in 1..Len(w) : w[i] = IF i + 0 = n + 1 THEN e ELSE tEvents[i + 0]
    BY <1>1, <1>2, <1>4, <2>1
  <2> QED
    BY <1>1, <2>2 DEF w, v, n
<1>5. CASE n = EventHistory
  <2>1. w = SubSeq(v, 2, n + 1)
    BY <1>1, <1>2, <1>3, <1>5
  <2>2. /\ w \in Seq(1..published) /\ Len(w) = n
        /\ \A i \in 1..n : w[i] = v[i + 1]
    BY <1>1, <1>2, <2>1, Shortened
  <2>3. /\ Len(w) = n + 1 - 1 /\ Len(w) <= EventHistory
        /\ \A i \in 1..Len(w) : w[i] = IF i + 1 = n + 1 THEN e ELSE tEvents[i + 1]
    BY <1>1, <1>2, <1>5, <2>2
  <2> QED
    BY <1>1, <1>5, <2>2, <2>3 DEF w, v, n
<1> QED
  BY <1>1, <1>4, <1>5

\* The next event of the stream is shown, once.
LEMMA ReceiveFollows ==
    ASSUME Terminal!TerminalAssumption, Follows, Terminal!Receive
    PROVE  Follows'
<1> DEFINE e == Head(pipe)
           rest == Tail(pipe)
           n == Len(tEvents)
<1>1. /\ UNCHANGED <<published, boot, dropped, stream>> /\ stream = "open"
      /\ pipe # <<>> /\ pipe' = rest
      /\ published \in Nat /\ boot \in 0..published /\ EventHistory \in Nat \ {0}
      /\ n \in Nat /\ n <= EventHistory
      /\ \A i \in 1..n : tEvents[i] \in 1..published
  BY DEF Terminal!Receive, Terminal!server, Follows, Followed, Terminal!TerminalAssumption
<1>2. /\ e \in 0..published /\ rest \in Seq(0..published) /\ Len(rest) \in Nat
      /\ Len(pipe) = Len(rest) + 1 /\ pipe[1] = e
      /\ \A i \in 1..Len(rest) : rest[i] = pipe[i + 1] /\ rest[i] \in 0..published
  BY <1>1 DEF Follows, Followed
<1>3. \/ e = 0 /\ UNCHANGED <<tEvents, known>>
      \/ e # 0 /\ Terminal!Remember(e)
  BY DEF Terminal!Receive
<1>4. Keeps' <=> Keeps
  BY <1>1 DEF Keeps
<1> HIDE DEF e, rest, n
<1>5. ASSUME UNCHANGED <<tEvents, known>>, e = 0 \/ Shows(tEvents, e) PROVE Follows'
  <2>1. Followed'
    BY <1>1, <1>2, <1>5 DEF Follows, Followed
  <2>2. ASSUME Complete(tEvents, pipe, boot, published)
        PROVE  Complete(tEvents, rest, boot, published)
    <3>1. \A i \in 1..Len(rest) : i + 1 \in 1..Len(pipe)
      BY <1>2
    <3>2. ASSUME NEW i \in 1..Len(rest), NEW j \in 1..Len(rest), i < j, rest[i] # 0, rest[j] # 0
          PROVE  rest[i] < rest[j]
      <4>1. i + 1 < j + 1 /\ i + 1 \in 1..Len(pipe) /\ j + 1 \in 1..Len(pipe)
        BY <3>1, <3>2
      <4> QED
        BY <1>2, <2>2, <3>2, <4>1 DEF Complete
    <3>3. ASSUME NEW x \in 1..published, x > Before(boot, published), ~Shows(tEvents, x)
          PROVE  Comes(rest, x)
      <4>1. PICK i \in 1..Len(pipe) : pipe[i] = x
        BY <2>2, <3>3 DEF Complete, Comes
      <4>2. x # e
        BY <1>5, <3>3
      <4>3. i - 1 \in 1..Len(rest) /\ (i - 1) + 1 = i
        BY <1>2, <4>1, <4>2
      <4>4. rest[i - 1] = x
        BY <1>2, <4>1, <4>3
      <4> QED
        BY <4>3, <4>4 DEF Comes
    <3>4. ASSUME NEW i \in 1..Len(rest), NEW j \in 1..Len(tEvents), rest[i] # 0,
                 ~Shows(tEvents, rest[i])
          PROVE  tEvents[j] < rest[i]
      <4>1. i + 1 \in 1..Len(pipe) /\ pipe[i + 1] = rest[i]
        BY <1>2, <3>1
      <4> QED
        BY <2>2, <3>4, <4>1 DEF Complete
    <3> QED
      BY <3>2, <3>3, <3>4 DEF Complete
  <2> QED
    BY <1>1, <1>4, <1>5, <2>1, <2>2 DEF Follows
<1>6. ASSUME e # 0, Terminal!Remember(e), Shows(tEvents, e) PROVE UNCHANGED <<tEvents, known>>
  <2>1. e \in Terminal!Range(tEvents)
    BY <1>6, SetOf DEF Follows, Followed
  <2>2. Terminal!Remembered(tEvents, e) = tEvents
    BY <2>1, Zenon DEF Terminal!Remembered
  <2>3. tEvents' = Terminal!Trimmed(tEvents)
    BY <1>6, <2>2, Zenon DEF Terminal!Remember
  <2>4. ~(Len(tEvents) > EventHistory)
    BY <1>1 DEF n
  <2>5. tEvents' = tEvents
    BY <2>3, <2>4, Zenon DEF Terminal!Trimmed
  <2>6. known' = Terminal!Range(tEvents') /\ known = Terminal!Range(tEvents)
    BY <1>6 DEF Terminal!Remember, Follows, Followed
  <2> QED
    BY <2>5, <2>6, Zenon
<1>7. ASSUME e # 0, Terminal!Remember(e), ~Shows(tEvents, e) PROVE Follows'
  <2> DEFINE w == Terminal!Trimmed(Append(tEvents, e))
  <2>1. e \notin Terminal!Range(tEvents) /\ e \in 1..published
    BY <1>1, <1>2, <1>7, SetOf DEF Follows, Followed
  <2>2. Terminal!Remembered(tEvents, e) = Append(tEvents, e)
    BY <2>1, Zenon DEF Terminal!Remembered
  <2>3. tEvents' = w /\ known' = Terminal!Range(w)
    BY <1>7, <2>2, Zenon DEF Terminal!Remember
  <2>4. PICK d \in {0, 1} :
          /\ w \in Seq(1..published) /\ Len(w) = n + 1 - d
          /\ Len(w) <= EventHistory /\ (d = 1 => n = EventHistory)
          /\ \A i \in 1..Len(w) : w[i] = IF i + d = n + 1 THEN e ELSE tEvents[i + d]
    BY <1>7, <2>1, JoinedBy DEF Follows, n
  <2> HIDE DEF w
  <2>5. \A i \in 1..Len(w) : \/ i + d = n + 1 /\ w[i] = e
                             \/ i + d \in 1..n /\ w[i] = tEvents[i + d]
    BY <1>1, <2>4
  <2>6. \A i, j \in 1..Len(w) : w[i] = w[j] => i = j
    <3>1. ASSUME NEW i \in 1..Len(w), NEW j \in 1..Len(w), w[i] = w[j] PROVE i = j
      <4>1. CASE i + d \in 1..n /\ j + d \in 1..n
        <5>1. i + d # n + 1 /\ j + d # n + 1
          BY <1>1, <4>1
        <5>2. tEvents[i + d] = tEvents[j + d]
          BY <2>5, <3>1, <5>1
        <5>3. i + d = j + d
          BY <4>1, <5>2 DEF Follows, Followed, n
        <5> QED
          BY <2>4, <5>3
      <4>2. CASE i + d = n + 1 /\ j + d = n + 1
        BY <2>4, <4>2
      <4>3. ASSUME NEW a \in 1..Len(w), NEW b \in 1..Len(w), a + d = n + 1, b + d \in 1..n
            PROVE  w[a] # w[b]
        <5>1. b + d # n + 1
          BY <1>1, <4>3
        <5>2. w[a] = e /\ w[b] = tEvents[b + d]
          BY <2>4, <4>3, <5>1
        <5> QED
          BY <1>7, <4>3, <5>2 DEF Shows, n
      <4> QED
        BY <2>5, <3>1, <4>1, <4>2, <4>3
    <3> QED
      BY <3>1
  <2>7. Followed'
    <3>1. /\ published' \in Nat /\ boot' \in 0..published' /\ pipe' \in Seq(0..published')
          /\ dropped' \in BOOLEAN
      BY <1>1, <1>2 DEF Follows, Followed
    <3>2. /\ tEvents' \in Seq(1..published') /\ Len(tEvents') <= EventHistory
          /\ \A i, j \in 1..Len(tEvents') : tEvents'[i] = tEvents'[j] => i = j
      BY <1>1, <2>3, <2>4, <2>6
    <3>3. known' = Terminal!Range(tEvents')
      BY <2>3, Zenon
    <3> QED
      BY <3>1, <3>2, <3>3 DEF Followed
  <2>8. ASSUME Keeps
        PROVE  Unbroken(w, boot, published) /\ Complete(w, rest, boot, published)
    <3>1. Unbroken(tEvents, boot, published) /\ Complete(tEvents, pipe, boot, published)
      BY <1>1, <2>8 DEF Follows
    <3>2. \A i \in 1..n : tEvents[i] < e
      <4>1. 1 \in 1..Len(pipe)
        BY <1>2
      <4> QED
        BY <1>2, <1>7, <3>1, <4>1 DEF Complete, n
    <3>3. \A i, j \in 1..n : i <= j => tEvents[j] - tEvents[i] >= j - i
      BY <3>1 DEF Unbroken, n
    <3>4. \A i \in 1..n : e - tEvents[i] >= n + 1 - i
      <4>1. ASSUME NEW i \in 1..n PROVE e - tEvents[i] >= n + 1 - i
        <5>1. n \in 1..n
          BY <1>1
        <5>2. tEvents[n] - tEvents[i] >= n - i /\ tEvents[n] < e
          BY <1>1, <3>2, <3>3, <5>1
        <5>3. tEvents[n] \in 1..published /\ tEvents[i] \in 1..published
          BY <1>1, <5>1
        <5> QED
          BY <1>1, <2>1, <5>2, <5>3
      <4> QED
        BY <4>1
    <3>5. \A i, j \in 1..Len(w) : i <= j => w[j] - w[i] >= j - i
      <4>1. ASSUME NEW i \in 1..Len(w), NEW j \in 1..Len(w), i <= j
            PROVE  w[j] - w[i] >= j - i
        <5>1. CASE j + d \in 1..n
          <6>1. i + d \in 1..n /\ i + d <= j + d
            BY <1>1, <2>4, <4>1, <5>1
          <6>2. i + d # n + 1 /\ j + d # n + 1
            BY <1>1, <5>1, <6>1
          <6>3. w[i] = tEvents[i + d] /\ w[j] = tEvents[j + d]
            BY <2>4, <6>2
          <6>4. tEvents[j + d] - tEvents[i + d] >= (j + d) - (i + d)
            BY <3>3, <5>1, <6>1
          <6>5. (j + d) - (i + d) = j - i
            <7>1. d \in Int /\ i \in Int /\ j \in Int
              BY <1>1, <2>4, <4>1
            <7> QED
              BY <7>1
          <6> QED
            BY <6>3, <6>4, <6>5
        <5>2. CASE j + d = n + 1 /\ i + d \in 1..n
          <6>1. i + d # n + 1
            BY <1>1, <5>2
          <6>2. w[j] = e /\ w[i] = tEvents[i + d]
            BY <2>4, <5>2, <6>1
          <6>3. e - tEvents[i + d] >= n + 1 - (i + d) /\ n + 1 - (i + d) = j - i
            BY <1>1, <2>4, <3>4, <5>2
          <6> QED
            BY <6>2, <6>3
        <5>3. CASE j + d = n + 1 /\ i + d = n + 1
          <6>1. i = j /\ w[j] = e
            BY <1>1, <2>4, <5>3
          <6> QED
            BY <2>1, <6>1
        <5> QED
          BY <2>5, <5>1, <5>2, <5>3
      <4> QED
        BY <4>1
    <3>6. ASSUME NEW x \in 1..published, x > Before(boot, published), Shows(tEvents, x) \/ x = e
          PROVE  Shows(w, x)
      <4>1. Before(boot, published) \in Int /\ Before(boot, published) >= published - EventHistory
        BY <1>1 DEF Before, Terminal!Larger
      <4>2. Len(w) = n + 1 - d /\ (n + 1) - d \in Nat
        BY <1>1, <2>4
      <4>3. CASE x = e
        <5>1. (n + 1) - d \in 1..Len(w) /\ ((n + 1) - d) + d = n + 1
          BY <1>1, <2>4
        <5>2. w[(n + 1) - d] = e
          BY <2>4, <5>1
        <5> QED
          BY <4>3, <5>1, <5>2 DEF Shows
      <4>4. ASSUME NEW i \in 1..n, tEvents[i] = x PROVE Shows(w, x)
        <5>1. e - x >= n + 1 - i /\ x > published - EventHistory /\ e <= published
          BY <1>1, <1>2, <3>4, <3>6, <4>1, <4>4
        <5>2. i - d \in 1..Len(w) /\ (i - d) + d = i /\ i # n + 1
          <6>1. d = 1 => i # 1
            <7>1. d = 1 => n = EventHistory
              BY <2>4
            <7> QED
              BY <1>1, <2>1, <5>1, <7>1
          <6> QED
            BY <1>1, <2>4, <6>1
        <5>3. w[i - d] = tEvents[i]
          BY <2>4, <5>2
        <5> QED
          BY <4>4, <5>2, <5>3 DEF Shows
      <4> QED
        BY <3>6, <4>3, <4>4 DEF Shows, n
    <3>7. \A x \in 1..published : Shows(w, x) => Shows(tEvents, x) \/ x = e
      BY <2>5 DEF Shows, n
    <3>8. ASSUME NEW x \in 1..published, x > Before(boot, published)
          PROVE  /\ Shows(w, x) \/ Comes(rest, x)
                 /\ x < e => Shows(w, x)
      <4>1. Shows(tEvents, x) \/ Comes(pipe, x)
        BY <3>1, <3>8 DEF Complete
      <4>2. CASE Shows(tEvents, x) \/ x = e
        BY <3>6, <3>8, <4>2
      <4>3. CASE ~Shows(tEvents, x) /\ x # e
        <5>1. PICK i \in 1..Len(pipe) : pipe[i] = x
          BY <4>1, <4>3 DEF Comes
        <5>2. i # 1 /\ i - 1 \in 1..Len(rest) /\ (i - 1) + 1 = i /\ 1 \in 1..Len(pipe) /\ 1 < i
          BY <1>2, <4>3, <5>1
        <5>3. rest[i - 1] = x
          BY <1>2, <5>1, <5>2
        <5>4. x # 0 /\ e # 0
          BY <1>7
        <5>5. e < x
          BY <1>2, <3>1, <5>1, <5>2, <5>4 DEF Complete
        <5> QED
          BY <2>1, <5>2, <5>3, <5>5 DEF Comes
      <4> QED
        BY <4>2, <4>3
    <3>9. \A i \in 1..Len(w) : w[i] \in 1..published /\ w[i] <= e
      <4>1. ASSUME NEW i \in 1..Len(w) PROVE w[i] \in 1..published /\ w[i] <= e
        <5>1. w[i] = e \/ \E j \in 1..n : w[i] = tEvents[j]
          BY <2>5
        <5> QED
          BY <1>1, <2>1, <3>2, <5>1
      <4> QED
        BY <4>1
    <3>10. Unbroken(w, boot, published)
      <4>1. ASSUME NEW x \in 1..published, NEW i \in 1..Len(w), x > Before(boot, published),
                   x < w[i]
            PROVE  Shows(w, x)
        <5>1. x < e
          BY <2>1, <3>9, <4>1
        <5> QED
          BY <3>8, <4>1, <5>1
      <4> QED
        BY <3>5, <4>1 DEF Unbroken
    <3>11. ASSUME NEW i \in 1..Len(rest), NEW j \in 1..Len(rest), i < j, rest[i] # 0,
                  rest[j] # 0
           PROVE  rest[i] < rest[j]
      <4>1. i + 1 < j + 1 /\ i + 1 \in 1..Len(pipe) /\ j + 1 \in 1..Len(pipe)
        BY <1>2, <3>11
      <4> QED
        BY <1>2, <3>1, <3>11, <4>1 DEF Complete
    <3>12. ASSUME NEW i \in 1..Len(rest), NEW j \in 1..Len(w), rest[i] # 0
           PROVE  w[j] < rest[i]
      <4>1. i + 1 \in 1..Len(pipe) /\ 1 \in 1..Len(pipe) /\ 1 < i + 1
        BY <1>2
      <4>2. e < rest[i]
        BY <1>2, <1>7, <3>1, <3>12, <4>1 DEF Complete
      <4>3. rest[i] \in 0..published
        BY <1>2
      <4> QED
        BY <2>1, <3>9, <4>2, <4>3
    <3> QED
      BY <3>8, <3>10, <3>11, <3>12 DEF Complete
  <2> QED
    BY <1>1, <1>4, <2>3, <2>7, <2>8 DEF Follows
<1> QED
  BY <1>3, <1>5, <1>6, <1>7

LEMMA NextFollows ==
    ASSUME Terminal!TerminalAssumption, Follows, [Terminal!Next]_(Terminal!terminal)
    PROVE  Follows'
<1>1. published \in Nat /\ boot \in 0..published /\ pipe \in Seq(0..published)
      /\ boot \in boot..published /\ published \in boot..published
      /\ <<>> \in Seq(0..published)
  BY DEF Follows, Followed
<1>2. ASSUME UNCHANGED <<published, dropped, tEvents, known, boot, pipe, stream>>
      PROVE  Follows'
  BY <1>1, <1>2, BootFollows
<1>3. CASE Terminal!Restart
  <2>1. /\ UNCHANGED <<published, dropped, tEvents, known, pipe>> /\ boot' \in boot..published
        /\ stream' # "open"
    BY <1>1, <1>3 DEF Terminal!Restart, Terminal!listing
  <2> QED
    BY <1>1, <2>1, BootFollows
<1>4. CASE Terminal!Break
  <2>1. /\ UNCHANGED <<published, dropped, tEvents, known, pipe, boot>> /\ stream' = "lost"
    BY <1>4 DEF Terminal!Break, Terminal!listing
  <2> QED
    BY <1>1, <2>1, BootFollows
<1>5. CASE Terminal!Disconnected
  <2>1. /\ UNCHANGED <<published, dropped, tEvents, known, boot>> /\ stream' = "waiting"
        /\ pipe' = <<>>
    BY <1>5 DEF Terminal!Disconnected, Terminal!listing, Terminal!server
  <2> QED
    BY <1>1, <2>1, BootFollows
<1>6. CASE \/ Terminal!Refresh \/ Terminal!Read \/ Terminal!Apply \/ Terminal!OnKey
           \/ Terminal!MarkSelected \/ Terminal!Marked
  <2>1. UNCHANGED <<published, dropped, tEvents, known, boot, pipe, stream>>
    BY <1>6 DEF Terminal!Refresh, Terminal!Read, Terminal!Apply, Terminal!OnKey,
       Terminal!MarkSelected, Terminal!Marked, Terminal!FeedSame, Terminal!feed, Terminal!server
  <2> QED
    BY <1>2, <2>1
<1>7. CASE UNCHANGED Terminal!terminal
  BY <1>2, <1>7 DEF Terminal!terminal, Terminal!feed, Terminal!server
<1> QED
  BY <1>3, <1>4, <1>5, <1>6, <1>7, PublishFollows, SeedFollows, ConnectFollows, ReceiveFollows
     DEF Terminal!Next

\* For any history, ring, backlog and bounds, over restarts and lost streams:
\* the view shows no event twice and knows which it shows, and while the feed
\* is live and all was received, none of the newest events is missing.
THEOREM FeedHolds == SpecParts => []FeedIsWhole
<1> DEFINE Inv == which = "terminal" => Follows
<1>1. Terminal!TerminalAssumption
  BY PartsAssumption
<1>2. InitParts => Inv
  BY <1>1, InitFollows DEF InitParts
<1>3. Inv /\ [NextParts]_parts => Inv'
  <2>1. SUFFICES ASSUME Inv, [NextParts]_parts, which' = "terminal" PROVE Follows'
    BY DEF Follows, Followed, Keeps
  <2>2. which = "terminal" /\ [Terminal!Next]_(Terminal!terminal)
    BY <2>1, TerminalRuns
  <2> QED
    BY <1>1, <2>1, <2>2, NextFollows
<1>4. Inv => FeedIsWhole
  <2>1. SUFFICES ASSUME Follows PROVE Terminal!FeedIsWhole
    BY DEF FeedIsWhole
  <2>2. Cardinality(Terminal!Range(tEvents)) = Len(tEvents) /\ known = Terminal!Range(tEvents)
    BY <2>1, SetOf DEF Follows, Followed
  <2>3. ASSUME stream = "open", pipe = <<>>, ~dropped, RingSize >= EventHistory,
               NEW x \in Terminal!Range(Terminal!Newest(boot, EventHistory))
        PROVE  x \in known
    <3> DEFINE s == Terminal!Newest(boot, EventHistory)
               k == Before(boot, published)
    <3>1. published \in Nat /\ boot \in 0..published /\ EventHistory \in Nat
      BY <1>1, <2>1 DEF Follows, Followed, Terminal!TerminalAssumption
    <3>2. k \in 0..published /\ s \in Seq(1..published) /\ Len(s) = published - k
          /\ \A i \in 1..Len(s) : s[i] = k + i
      BY <3>1, NewestAre DEF Before
    <3>3. Shows(s, x)
      BY <2>3, <3>2, SetOf
    <3> HIDE DEF s, k
    <3>4. x \in 1..published /\ x > k
      BY <3>1, <3>2, <3>3 DEF Shows
    <3>5. Complete(tEvents, pipe, boot, published)
      BY <2>1, <2>3 DEF Follows, Keeps
    <3>6. ~Comes(pipe, x)
      BY <2>3 DEF Comes
    <3>7. Shows(tEvents, x)
      BY <3>4, <3>5, <3>6 DEF Complete, k
    <3> QED
      BY <2>1, <2>2, <3>7, SetOf DEF Follows, Followed
  <2>4. stream = "open" /\ pipe = <<>> /\ ~dropped /\ RingSize >= EventHistory =>
          Terminal!Range(Terminal!Newest(boot, EventHistory)) \subseteq known
    BY <2>3
  <2>5. Terminal!Cardinality(Terminal!Range(tEvents)) = Cardinality(Terminal!Range(tEvents))
    BY Zenon DEF Terminal!Cardinality, Cardinality, Terminal!IsFiniteSet, IsFiniteSet
  <2> QED
    BY <2>2, <2>4, <2>5 DEF Terminal!FeedIsWhole
<1> QED
  BY <1>2, <1>3, <1>4, PTL DEF SpecParts

-----------------------------------------------------------------------------
(* The collector of containers *)

LEMMA ContainersRuns ==
    ASSUME [NextParts]_parts, which' = "containers"
    PROVE  which = "containers" /\ [Containers!Next]_(Containers!containers)
  BY DEF NextParts, Runs, Rest, parts, containers, Containers!containers, Containers!world,
         Containers!collector

\* The containers that run, each under a name of its own; what each used since
\* its last reading fits in the time that passed.
Hosted ==
    /\ system \in 1..LastTick /\ DOMAIN running \subseteq Ids
    /\ \A i \in DOMAIN running :
         running[i].name \in Names /\ running[i].transient \in BOOLEAN
         /\ running[i].usage \in 0..system
         /\ running[i] = [name |-> running[i].name, transient |-> running[i].transient,
                          usage |-> running[i].usage]
    /\ \A i, j \in DOMAIN running :
         running[i].name = running[j].name /\ running[i].transient = running[j].transient => i = j
    /\ DOMAIN used = Ids
    /\ \A i \in Ids : /\ used[i] \in [used : Nat, since : Nat, intact : BOOLEAN]
                      /\ used[i].since + used[i].used <= system

\* The counter of a container moved since its reading by what it used, unless
\* it started over.
Moved(i) ==
    IF used[i].intact
    THEN running[i].usage = prevCPU[i].usage + used[i].used /\ prevCPU[i].system = used[i].since
    ELSE running[i].usage <= used[i].used
Read ==
    /\ DOMAIN prevCPU \subseteq Ids
    /\ \A i \in DOMAIN prevCPU : /\ prevCPU[i].usage \in Nat /\ prevCPU[i].system \in Nat
                                 /\ prevCPU[i].system <= used[i].since
    /\ \A i \in DOMAIN prevCPU \cap DOMAIN running : Moved(i)

\* The containers a poll listed and visited, and what it told of them.
Visits(service) ==
    {i \in DOMAIN poll.listed \ poll.left : ServiceNamed[poll.listed[i].name] = service}
Tallied(service) ==
    IF service \in DOMAIN poll.counts
    THEN poll.counts[service] = Cardinality(Visits(service)) ELSE Visits(service) = {}
IsPolled ==
    /\ poll = [going |-> poll.going, listed |-> poll.listed, left |-> poll.left,
               counts |-> poll.counts]
    /\ poll.going \in BOOLEAN /\ DOMAIN poll.listed \subseteq Ids
    /\ poll.left \subseteq DOMAIN poll.listed
    /\ \A i \in DOMAIN poll.listed :
         poll.listed[i].name \in Names /\ poll.listed[i].transient \in BOOLEAN
    /\ \A i, j \in DOMAIN poll.listed :
         poll.listed[i].name = poll.listed[j].name
         /\ poll.listed[i].transient = poll.listed[j].transient => i = j
    /\ \A service \in {ServiceNamed[name] : name \in Names} : Tallied(service)
    /\ ~poll.going => poll.left = {} /\ DOMAIN prevCPU \subseteq DOMAIN poll.listed
Real(s) ==
    /\ s.used <= s.real.used /\ s.elapsed >= s.real.since /\ s.used <= s.elapsed
    /\ s.real.intact => s.used = s.real.used /\ s.elapsed = s.real.since
Shared ==
    /\ ~poll.going => shares = {}
    /\ \A s \in shares :
         /\ s.id \in DOMAIN poll.listed \ poll.left /\ s.name = poll.listed[s.id].name
         /\ ~poll.listed[s.id].transient /\ Real(s)
    /\ \A s, t \in shares : s.id = t.id => s = t
Collects == Hosted /\ Read /\ IsPolled /\ Shared

LEMMA InitCollects ==
    ASSUME Containers!ContainersAssumption, Containers!Init PROVE Collects
<1>1. Hosted /\ Read
  BY DEF Containers!Init, Containers!ContainersAssumption, Containers!Nothing, Hosted, Read
<1>2. poll = [going |-> FALSE, listed |-> Containers!Nothing, left |-> {},
              counts |-> Containers!Nothing] /\ shares = {} /\ DOMAIN prevCPU = {}
      /\ DOMAIN Containers!Nothing = {}
  BY DEF Containers!Init, Containers!Idle, Containers!Nothing
<1>3. IsPolled
  BY <1>2 DEF IsPolled, Tallied, Visits
<1> QED
  BY <1>1, <1>2, <1>3 DEF Collects, Shared

\* What the poll and its shares hold stays while they do.
LEMMA PollStays ==
    ASSUME IsPolled, Shared, poll' = poll, shares' = shares, prevCPU' = prevCPU
    PROVE  IsPolled' /\ Shared'
<1>1. \A service : Tallied(service)' = Tallied(service)
  BY DEF Tallied, Visits
<1>2. IsPolled'
  BY <1>1 DEF IsPolled
<1> QED
  BY <1>2 DEF Shared, Real

LEMMA WorkCollects ==
    ASSUME Containers!ContainersAssumption, Collects,
           NEW i \in DOMAIN running, Containers!Work(i)
    PROVE  Collects'
<1>1. /\ system < LastTick /\ system' = system + 1 /\ prevCPU' = prevCPU
      /\ poll' = poll /\ shares' = shares
      /\ running' = [running EXCEPT ![i].usage = @ + 1]
      /\ used' = [used EXCEPT ![i].used = @ + 1]
  BY DEF Containers!Work
<1>2. /\ DOMAIN running' = DOMAIN running
      /\ \A j \in DOMAIN running : /\ running'[j].name = running[j].name
                                   /\ running'[j].transient = running[j].transient
                                   /\ j # i => running'[j] = running[j]
      /\ running'[i] = [name |-> running[i].name, transient |-> running[i].transient,
                        usage |-> running[i].usage + 1]
  <2>1. running[i] = [name |-> running[i].name, transient |-> running[i].transient,
                      usage |-> running[i].usage]
    BY DEF Collects, Hosted
  <2>2. /\ DOMAIN running' = DOMAIN running
        /\ running'[i] = [running[i] EXCEPT !.usage = running[i].usage + 1]
        /\ \A j \in DOMAIN running : j # i => running'[j] = running[j]
    BY <1>1
  <2> QED
    BY <2>1, <2>2
<1>3. /\ i \in Ids /\ DOMAIN used = Ids /\ system \in 1..LastTick /\ LastTick \in Nat
      /\ \A j \in Ids : used[j] \in [used : Nat, since : Nat, intact : BOOLEAN]
      /\ \A j \in DOMAIN running : running[j].usage \in 0..system
  BY DEF Collects, Hosted, Containers!ContainersAssumption
<1>4. /\ DOMAIN used' = Ids /\ \A j \in Ids : j # i => used'[j] = used[j]
      /\ used'[i].used = used[i].used + 1 /\ used'[i].since = used[i].since
      /\ used'[i].intact = used[i].intact
      /\ used'[i] = [used |-> used[i].used + 1, since |-> used[i].since,
                     intact |-> used[i].intact]
  <2>1. DOMAIN used' = Ids /\ \A j \in Ids : j # i => used'[j] = used[j]
    BY <1>1, <1>3
  <2>2. used'[i] = [used[i] EXCEPT !.used = used[i].used + 1]
    BY <1>1, <1>3
  <2>3. used[i] \in [used : Nat, since : Nat, intact : BOOLEAN]
    BY <1>3
  <2> QED
    BY <2>1, <2>2, <2>3
<1>5. Hosted'
  <2>1. system' \in 1..LastTick /\ system \in Nat /\ system' = system + 1
    BY <1>1, <1>3
  <2>2. ASSUME NEW j \in DOMAIN running
        PROVE  /\ running'[j].name \in Names /\ running'[j].transient \in BOOLEAN
               /\ running'[j].usage \in 0..system'
               /\ running'[j] = [name |-> running'[j].name, transient |-> running'[j].transient,
                                usage |-> running'[j].usage]
    <3>1. running[j].name \in Names /\ running[j].transient \in BOOLEAN
          /\ running[j].usage \in 0..system
          /\ running[j] = [name |-> running[j].name, transient |-> running[j].transient,
                           usage |-> running[j].usage]
      BY DEF Collects, Hosted
    <3>2. running'[j].usage = running[j].usage \/ running'[j].usage = running[j].usage + 1
      BY <1>2
    <3> QED
      BY <1>2, <2>1, <3>1, <3>2
  <2>3. ASSUME NEW j \in Ids
        PROVE  /\ used'[j] \in [used : Nat, since : Nat, intact : BOOLEAN]
               /\ used'[j].since + used'[j].used <= system'
    <3>1. used[j].since + used[j].used <= system /\ used[j].since \in Nat /\ used[j].used \in Nat
          /\ used[j].intact \in BOOLEAN
      BY <1>3 DEF Collects, Hosted
    <3>2. CASE j = i
      BY <1>4, <2>1, <3>1, <3>2
    <3>3. CASE j # i
      BY <1>3, <1>4, <2>1, <3>1, <3>3
    <3> QED
      BY <3>2, <3>3
  <2> QED
    BY <1>2, <1>4, <2>1, <2>2, <2>3 DEF Collects, Hosted
<1>6. Read'
  <2>1. ASSUME NEW j \in DOMAIN prevCPU PROVE prevCPU[j].system <= used'[j].since
    BY <1>4, <2>1 DEF Collects, Read
  <2>2. ASSUME NEW j \in DOMAIN prevCPU, j \in DOMAIN running PROVE Moved(j)'
    <3>1. Moved(j) /\ prevCPU[j].usage \in Nat /\ j \in Ids
      BY <2>2 DEF Collects, Read
    <3>2. CASE j # i
      BY <1>1, <1>2, <1>4, <3>1, <3>2 DEF Moved
    <3>3. CASE j = i
      <4>1. running[i].usage \in Nat /\ used[i].used \in Nat
        BY <1>3
      <4> QED
        BY <1>1, <1>2, <1>4, <3>1, <3>3, <4>1 DEF Moved
    <3> QED
      BY <3>2, <3>3
  <2> QED
    BY <1>1, <1>2, <2>1, <2>2 DEF Collects, Read
<1> QED
  BY <1>1, <1>5, <1>6, PollStays DEF Collects

\* Time passes, a container stops, or one takes its lasting name.
LEMMA WorldCollects ==
    ASSUME Containers!ContainersAssumption, Collects, used' = used, poll' = poll,
           shares' = shares, prevCPU' = prevCPU, system' \in {system, system + 1},
           system' <= LastTick, DOMAIN running' \subseteq DOMAIN running,
           \A j \in DOMAIN running' : /\ running'[j].name = running[j].name
                                      /\ running'[j].transient \in BOOLEAN
                                      /\ running'[j].usage = running[j].usage
                                      /\ running'[j] = [name |-> running'[j].name,
                                           transient |-> running'[j].transient,
                                           usage |-> running'[j].usage],
           \A j, k \in DOMAIN running' :
             running'[j].name = running'[k].name
             /\ running'[j].transient = running'[k].transient => j = k
    PROVE  Collects'
<1>1. system \in Nat /\ system' \in 1..LastTick /\ system <= system'
  BY DEF Collects, Hosted, Containers!ContainersAssumption
<1>2. \A j \in DOMAIN running' : running'[j].usage \in 0..system'
  <2>1. \A j \in DOMAIN running' : running[j].usage \in 0..system
    BY DEF Collects, Hosted
  <2> QED
    BY <1>1, <2>1
<1>3. \A j \in Ids : used[j].since + used[j].used <= system'
  <2>1. \A j \in Ids : /\ used[j].since \in Nat /\ used[j].used \in Nat
                       /\ used[j].since + used[j].used <= system
    BY DEF Collects, Hosted
  <2> QED
    BY <1>1, <2>1
<1>4. Hosted'
  <2>1. /\ DOMAIN running' \subseteq Ids /\ DOMAIN used = Ids
        /\ \A j \in DOMAIN running' : running'[j].name \in Names
        /\ \A j \in Ids : used[j] \in [used : Nat, since : Nat, intact : BOOLEAN]
    BY DEF Collects, Hosted
  <2> QED
    BY <1>1, <1>2, <1>3, <2>1 DEF Hosted
<1>5. Read'
  BY DEF Collects, Read, Moved
<1> QED
  BY <1>4, <1>5, PollStays DEF Collects

LEMMA BootCollects ==
    ASSUME Containers!ContainersAssumption, Collects, NEW i \in Ids, NEW name \in Names,
           NEW transient \in BOOLEAN, Containers!Boot(i, name, transient)
    PROVE  Collects'
<1>1. /\ i \notin DOMAIN running /\ system' = system /\ prevCPU' = prevCPU /\ poll' = poll
      /\ shares' = shares
      /\ \A j \in DOMAIN running :
           running[j].name # name \/ running[j].transient # transient
      /\ running' = [j \in DOMAIN running \cup {i} |->
                       IF j = i THEN [name |-> name, transient |-> transient, usage |-> 0]
                       ELSE running[j]]
      /\ used' = [used EXCEPT ![i].intact = FALSE]
  BY DEF Containers!Boot, Containers!With
<1>2. /\ DOMAIN running' = DOMAIN running \cup {i}
      /\ \A j \in DOMAIN running : running'[j] = running[j]
      /\ running'[i] = [name |-> name, transient |-> transient, usage |-> 0]
  BY <1>1
<1>3. /\ DOMAIN used' = Ids /\ \A j \in Ids : j # i => used'[j] = used[j]
      /\ used'[i] = [used |-> used[i].used, since |-> used[i].since, intact |-> FALSE]
  <2>1. DOMAIN used = Ids /\ used[i] \in [used : Nat, since : Nat, intact : BOOLEAN]
    BY DEF Collects, Hosted
  <2>2. /\ DOMAIN used' = Ids /\ \A j \in Ids : j # i => used'[j] = used[j]
        /\ used'[i] = [used[i] EXCEPT !.intact = FALSE]
    BY <1>1, <2>1
  <2> QED
    BY <2>1, <2>2
<1>4. \A j \in Ids : /\ used'[j].since = used[j].since /\ used'[j].used = used[j].used
                     /\ used'[j] \in [used : Nat, since : Nat, intact : BOOLEAN]
  <2>1. ASSUME NEW j \in Ids PROVE used[j] \in [used : Nat, since : Nat, intact : BOOLEAN]
    BY DEF Collects, Hosted
  <2>2. ASSUME NEW j \in Ids
        PROVE  /\ used'[j].since = used[j].since /\ used'[j].used = used[j].used
               /\ used'[j] \in [used : Nat, since : Nat, intact : BOOLEAN]
    <3>1. CASE j = i
      <4>1. used[i].used \in Nat /\ used[i].since \in Nat
        BY <2>1, <3>1
      <4>2. used'[j] = [used |-> used[i].used, since |-> used[i].since, intact |-> FALSE]
        BY <1>3, <3>1
      <4> QED
        BY ONLY <3>1, <4>1, <4>2
    <3>2. CASE j # i
      BY <1>3, <2>1, <3>2
    <3> QED
      BY <3>1, <3>2
  <2> QED
    BY <2>2
<1>5. Hosted'
  <2>1. system \in Nat /\ 0 \in 0..system
    BY DEF Collects, Hosted
  <2>2. \A j, k \in DOMAIN running' :
          running'[j].name = running'[k].name /\ running'[j].transient = running'[k].transient
            => j = k
    BY <1>1, <1>2 DEF Collects, Hosted
  <2>3. DOMAIN running' \subseteq Ids /\ \A j \in DOMAIN running' :
          running'[j].name \in Names /\ running'[j].transient \in BOOLEAN
          /\ running'[j].usage \in 0..system
          /\ running'[j] = [name |-> running'[j].name, transient |-> running'[j].transient,
                           usage |-> running'[j].usage]
    BY <1>2, <2>1 DEF Collects, Hosted
  <2>4. /\ \A j \in Ids : used'[j].since + used'[j].used <= system
        /\ system \in 1..LastTick
    BY <1>4 DEF Collects, Hosted
  <2>5. \A j \in Ids : used'[j] \in [used : Nat, since : Nat, intact : BOOLEAN]
    BY <1>4
  <2> QED
    BY <1>1, <1>3, <2>2, <2>3, <2>4, <2>5 DEF Hosted
<1>6. Read'
  <2>1. ASSUME NEW j \in DOMAIN prevCPU, j \in DOMAIN running' PROVE Moved(j)'
    <3>1. CASE j = i
      <4>1. used[i].used \in Nat /\ ~used'[i].intact /\ running'[i].usage = 0
            /\ used'[i].used = used[i].used
        BY <1>2, <1>3, <1>4 DEF Collects, Hosted
      <4> QED
        BY <3>1, <4>1 DEF Moved
    <3>2. CASE j # i
      BY <1>1, <1>2, <1>3, <2>1, <3>2 DEF Collects, Read, Moved
    <3> QED
      BY <3>1, <3>2
  <2>2. \A j \in DOMAIN prevCPU : prevCPU[j].system <= used'[j].since
    BY <1>4 DEF Collects, Read
  <2> QED
    BY <1>1, <2>1, <2>2 DEF Collects, Read
<1> QED
  BY <1>1, <1>5, <1>6, PollStays DEF Collects

LEMMA ListCollects ==
    ASSUME Containers!ContainersAssumption, Collects, Containers!List
    PROVE  Collects'
<1> DEFINE listed == [i \in DOMAIN running |->
                        [name |-> running[i].name, transient |-> running[i].transient]]
<1>1. /\ ~poll.going /\ system' = system /\ running' = running /\ prevCPU' = prevCPU
      /\ shares' = shares /\ used' = used
      /\ poll' = [going |-> TRUE, left |-> DOMAIN running, counts |-> Containers!Nothing,
                  listed |-> listed]
  BY DEF Containers!List, Containers!world
<1>2. /\ poll'.going = TRUE /\ poll'.left = DOMAIN running /\ poll'.listed = listed
      /\ DOMAIN poll'.counts = {}
  BY <1>1 DEF Containers!Nothing
<1>3. /\ DOMAIN listed = DOMAIN running
      /\ \A i \in DOMAIN running : listed[i].name = running[i].name
                                   /\ listed[i].transient = running[i].transient
  OBVIOUS
<1> HIDE DEF listed
<1>4. shares' = {}
  BY <1>1 DEF Collects, Shared
<1>5. IsPolled'
  <2>1. \A service : Visits(service)' = {}
    BY <1>2, <1>3 DEF Visits
  <2>2. \A service : Tallied(service)'
    BY <1>2, <2>1 DEF Tallied
  <2>3. poll' = [going |-> poll'.going, listed |-> poll'.listed, left |-> poll'.left,
                 counts |-> poll'.counts]
    BY <1>1
  <2>4. /\ DOMAIN running \subseteq Ids
        /\ \A j \in DOMAIN running : running[j].name \in Names /\ running[j].transient \in BOOLEAN
        /\ \A j, k \in DOMAIN running :
             running[j].name = running[k].name /\ running[j].transient = running[k].transient
               => j = k
    BY DEF Collects, Hosted
  <2> QED
    BY <1>2, <1>3, <2>2, <2>3, <2>4 DEF IsPolled
<1>6. Hosted' /\ Read'
  BY <1>1 DEF Collects, Hosted, Read, Moved
<1> QED
  BY <1>4, <1>5, <1>6 DEF Collects, Shared

\* A container visited is counted.
LEMMA VisitCounts ==
    ASSUME Containers!ContainersAssumption, IsPolled, NEW i \in poll.left,
           Containers!Visited(i), DOMAIN prevCPU' \subseteq Ids
    PROVE  /\ IsPolled' /\ poll.going /\ poll'.going = poll.going
           /\ poll'.listed = poll.listed /\ poll'.left = poll.left \ {i}
<1> DEFINE mine == ServiceNamed[poll.listed[i].name]
           counts == Containers!Counted(i)
<1>1. /\ poll'.listed = poll.listed /\ poll'.left = poll.left \ {i} /\ poll'.counts = counts
      /\ poll'.going = poll.going
  BY DEF Containers!Visited
<1>2. /\ DOMAIN counts = DOMAIN poll.counts \cup {mine}
      /\ \A service \in DOMAIN poll.counts : service # mine =>
           counts[service] = poll.counts[service]
      /\ counts[mine] = IF mine \in DOMAIN poll.counts THEN poll.counts[mine] + 1 ELSE 1
  BY DEF Containers!Counted, Containers!With
<1> HIDE DEF counts
<1>3. poll.going /\ poll' = [going |-> poll'.going, listed |-> poll'.listed, left |-> poll'.left,
                           counts |-> poll'.counts]
  BY DEF IsPolled, Containers!Visited
<1>4. ASSUME NEW service \in {ServiceNamed[name] : name \in Names}, service # mine
      PROVE  Tallied(service)'
  <2>1. Visits(service)' = Visits(service)
    BY <1>1, <1>4 DEF Visits
  <2>2. Tallied(service)
    BY DEF IsPolled
  <2> QED
    BY <1>1, <1>2, <1>4, <2>1, <2>2 DEF Tallied
<1>5. ASSUME NEW service, service = mine PROVE Tallied(service)'
  <2>1. Visits(service)' = Visits(mine) \cup {i} /\ i \notin Visits(mine)
    BY <1>1, <1>5 DEF Visits, IsPolled
  <2>2. Tallied(mine)
    BY DEF IsPolled
  <2>3. IsFiniteSet(Visits(mine)) /\ Cardinality(Visits(mine)) \in Nat
        /\ Cardinality(Visits(mine) \cup {i}) = Cardinality(Visits(mine)) + 1
    <3>1. IsFiniteSet(Ids)
      BY DEF Containers!ContainersAssumption, Containers!IsFiniteSet, IsFiniteSet
    <3>2. Visits(mine) \subseteq Ids
      BY DEF Visits, IsPolled
    <3>3. IsFiniteSet(Visits(mine))
      BY <3>1, <3>2, FS_Subset
    <3> QED
      BY <2>1, <3>3, FS_AddElement, FS_CardinalityType
  <2>4. Cardinality({}) = 0
    BY FS_EmptySet
  <2> HIDE DEF mine
  <2>5. poll'.counts[service] = Cardinality(Visits(mine)) + 1 /\ service \in DOMAIN poll'.counts
    <3>1. CASE mine \in DOMAIN poll.counts
      BY <1>1, <1>2, <1>5, <2>2, <3>1 DEF Tallied
    <3>2. CASE mine \notin DOMAIN poll.counts
      BY <1>1, <1>2, <1>5, <2>2, <2>4, <3>2 DEF Tallied
    <3> QED
      BY <3>1, <3>2
  <2> QED
    BY <2>1, <2>3, <2>5 DEF Tallied
<1> HIDE DEF mine
<1>6. \A service \in {ServiceNamed[name] : name \in Names} : Tallied(service)'
  BY <1>4, <1>5
<1> QED
  BY <1>1, <1>3, <1>6 DEF IsPolled

\* A container that is skipped leaves the rest as it was.
LEMMA SkipCollects ==
    ASSUME Containers!ContainersAssumption, Collects, NEW i \in poll.left, Containers!Skip(i)
    PROVE  Collects'
<1>1. /\ Containers!Visited(i) /\ system' = system /\ running' = running /\ prevCPU' = prevCPU
      /\ shares' = shares /\ used' = used
  BY DEF Containers!Skip, Containers!world
<1>2. /\ IsPolled' /\ poll.going /\ poll'.going = poll.going /\ poll'.listed = poll.listed
      /\ poll'.left = poll.left \ {i}
  BY <1>1, VisitCounts DEF Collects, Read
<1>3. Hosted' /\ Read'
  BY <1>1 DEF Collects, Hosted, Read, Moved
<1>4. Shared'
  BY <1>1, <1>2 DEF Collects, Shared, Real
<1> QED
  BY <1>2, <1>3, <1>4 DEF Collects

LEMMA MeasureCollects ==
    ASSUME Containers!ContainersAssumption, Collects, NEW i \in poll.left,
           Containers!Measure(i)
    PROVE  Collects'
<1> DEFINE sample == Containers!Reading(i)
           share == Containers!Share(i, sample)
<1>1. /\ ~poll.listed[i].transient /\ Containers!Visited(i)
      /\ system' = system /\ running' = running
      /\ prevCPU' = [j \in DOMAIN prevCPU \cup {i} |-> IF j = i THEN sample ELSE prevCPU[j]]
      /\ shares' = IF Containers!Measurable(i, sample) THEN shares \cup {share} ELSE shares
      /\ used' = [used EXCEPT ![i] = [used |-> 0, since |-> system, intact |-> TRUE]]
  BY DEF Containers!Measure, Containers!TransientContainer, Containers!With, Containers!world
<1>2. i \in Ids /\ i \in DOMAIN poll.listed /\ system \in Nat /\ LastTick \in Nat
      /\ system <= LastTick /\ Width \in Nat /\ LastTick < Width
  BY DEF Collects, Hosted, IsPolled, Containers!ContainersAssumption
<1>3. /\ IsPolled' /\ poll.going /\ poll'.going = poll.going /\ poll'.listed = poll.listed
      /\ poll'.left = poll.left \ {i}
  <2>1. DOMAIN prevCPU' \subseteq Ids
    BY <1>1, <1>2 DEF Collects, Read
  <2> QED
    BY <1>1, <2>1, VisitCounts DEF Collects
<1>4. /\ sample.usage \in Nat /\ sample.system \in Nat /\ sample.system <= system
      /\ sample.usage <= system
      /\ i \in DOMAIN running => sample.usage = running[i].usage /\ sample.system = system
      /\ i \notin DOMAIN running => sample.usage = 0 /\ sample.system = 0
  <2>1. i \in DOMAIN running => running[i].usage \in 0..system
    BY DEF Collects, Hosted
  <2>2. sample = IF i \in DOMAIN running THEN [usage |-> running[i].usage, system |-> system]
                 ELSE [usage |-> 0, system |-> 0]
    BY DEF Containers!Reading
  <2> HIDE DEF sample
  <2>3. CASE i \in DOMAIN running
    BY <1>2, <2>1, <2>2, <2>3
  <2>4. CASE i \notin DOMAIN running
    BY <1>2, <2>2, <2>4
  <2> QED
    BY <2>3, <2>4
<1> HIDE DEF sample
<1>5. /\ DOMAIN used = Ids /\ used[i].used \in Nat /\ used[i].since \in Nat
      /\ used[i].intact \in BOOLEAN /\ used[i].since + used[i].used <= system
  BY <1>2 DEF Collects, Hosted
<1>6. /\ DOMAIN used' = Ids /\ \A j \in Ids : j # i => used'[j] = used[j]
      /\ used'[i] = [used |-> 0, since |-> system, intact |-> TRUE]
  BY <1>1, <1>2, <1>5
<1>7. Hosted'
  <2>1. \A j \in Ids : /\ used'[j] \in [used : Nat, since : Nat, intact : BOOLEAN]
                       /\ used'[j].since + used'[j].used <= system
    <3>1. \A j \in Ids : /\ used[j] \in [used : Nat, since : Nat, intact : BOOLEAN]
                         /\ used[j].since + used[j].used <= system
      BY DEF Collects, Hosted
    <3>2. /\ used'[i] \in [used : Nat, since : Nat, intact : BOOLEAN]
          /\ used'[i].since + used'[i].used <= system
      BY <1>2, <1>6
    <3> QED
      BY <1>6, <3>1, <3>2
  <2> QED
    BY <1>1, <1>6, <2>1 DEF Collects, Hosted
<1>8. Read'
  <2>1. /\ DOMAIN prevCPU' = DOMAIN prevCPU \cup {i} /\ prevCPU'[i] = sample
        /\ \A j \in DOMAIN prevCPU : j # i => prevCPU'[j] = prevCPU[j]
    BY <1>1
  <2>2. ASSUME NEW j \in DOMAIN prevCPU', j \in DOMAIN running PROVE Moved(j)'
    <3>1. CASE j = i
      BY <1>1, <1>4, <1>6, <2>1, <2>2, <3>1 DEF Moved
    <3>2. CASE j # i
      BY <1>1, <1>6, <2>1, <2>2, <3>2 DEF Collects, Read, Moved
    <3> QED
      BY <3>1, <3>2
  <2>3. \A j \in DOMAIN prevCPU' : /\ prevCPU'[j].usage \in Nat /\ prevCPU'[j].system \in Nat
                                   /\ prevCPU'[j].system <= used'[j].since
    BY <1>2, <1>4, <1>6, <2>1 DEF Collects, Read
  <2> QED
    BY <1>1, <1>2, <2>1, <2>2, <2>3 DEF Collects, Read
<1>9. Shared'
  <2>1. ASSUME NEW s \in shares
        PROVE  /\ s.id \in DOMAIN poll.listed \ poll.left /\ s.id # i
               /\ s.name = poll.listed[s.id].name /\ ~poll.listed[s.id].transient /\ Real(s)
    BY DEF Collects, Shared
  <2>2. CASE ~Containers!Measurable(i, sample)
    BY <1>1, <1>3, <2>1, <2>2 DEF Collects, Shared, Real
  <2>3. CASE Containers!Measurable(i, sample)
    <3>1. /\ i \in DOMAIN prevCPU /\ sample.system > prevCPU[i].system
          /\ sample.usage >= prevCPU[i].usage
      BY <2>3 DEF Containers!Measurable
    <3>2. /\ prevCPU[i].usage \in Nat /\ prevCPU[i].system \in Nat
          /\ prevCPU[i].system <= used[i].since
      BY <3>1 DEF Collects, Read
    <3>3. i \in DOMAIN running /\ sample.usage = running[i].usage /\ sample.system = system
      BY <1>4, <3>1, <3>2
    <3>4. Moved(i)
      BY <3>1, <3>3 DEF Collects, Read
    <3> DEFINE u == sample.usage - prevCPU[i].usage
               e == sample.system - prevCPU[i].system
    <3>5. u \in 0..(Width - 1) /\ e \in 0..(Width - 1)
      BY <1>2, <1>4, <3>1, <3>2
    <3>6. u % Width = u /\ e % Width = e
      <4> HIDE DEF u, e
      <4> QED
        BY <1>2, <3>5
    <3>7. used[i] = [used |-> used[i].used, since |-> used[i].since, intact |-> used[i].intact]
      BY <1>2 DEF Collects, Hosted
    <3>8. /\ share.id = i /\ share.name = poll.listed[i].name /\ share.used = u % Width
          /\ share.elapsed = e % Width
          /\ share.real = [used[i] EXCEPT !.since = system - used[i].since]
      BY DEF Containers!Share
    <3> HIDE DEF share
    <3>9. /\ share.real.used = used[i].used /\ share.real.since = system - used[i].since
          /\ share.real.intact = used[i].intact
      BY <3>7, <3>8
    <3>10. /\ share.used = u /\ share.elapsed = e /\ u <= used[i].used
           /\ e >= system - used[i].since /\ u <= e
           /\ used[i].intact => u = used[i].used /\ e = system - used[i].since
      <4> DEFINE was == prevCPU[i]
                 spent == used[i]
      <4>1. sample.usage \in Nat /\ was.usage \in Nat /\ was.system \in Nat /\ spent.used \in Nat
            /\ spent.since \in Nat /\ spent.intact \in BOOLEAN
        BY <1>4, <1>5, <3>2
      <4>2. spent.intact => sample.usage = was.usage + spent.used /\ was.system = spent.since
        BY <3>3, <3>4 DEF Moved
      <4>3. ~spent.intact => sample.usage <= spent.used
        BY <3>3, <3>4 DEF Moved
      <4>4. was.system <= spent.since /\ spent.since + spent.used <= system
            /\ sample.system = system /\ sample.usage >= was.usage
        BY <1>5, <3>1, <3>2, <3>3
      <4>5. share.used = sample.usage - was.usage /\ share.elapsed = system - was.system
        BY <3>3, <3>6, <3>8
      <4>6. u = sample.usage - was.usage /\ e = system - was.system
        BY <3>3
      <4> HIDE DEF u, e, was, spent
      <4>7. /\ u <= spent.used /\ e >= system - spent.since /\ u <= e
            /\ spent.intact => u = spent.used /\ e = system - spent.since
        BY <1>2, <4>1, <4>2, <4>3, <4>4, <4>6
      <4> QED
        BY <4>5, <4>6, <4>7 DEF spent
    <3>11. Real(share)
      BY <3>9, <3>10 DEF Real
    <3>12. shares' = shares \cup {share}
      BY <1>1, <2>3
    <3>13. \A s \in shares' :
             /\ s.id \in DOMAIN poll.listed \ poll'.left /\ s.name = poll.listed[s.id].name
             /\ ~poll.listed[s.id].transient /\ Real(s)
      BY <1>1, <1>2, <1>3, <2>1, <3>8, <3>11, <3>12
    <3>14. \A s, t \in shares' : s.id = t.id => s = t
      BY <2>1, <3>8, <3>12 DEF Collects, Shared
    <3> HIDE DEF u, e
    <3> QED
      BY <1>3, <3>13, <3>14 DEF Shared, Real
  <2> QED
    BY <2>2, <2>3
<1> QED
  BY <1>3, <1>7, <1>8, <1>9 DEF Collects

LEMMA NextCollects ==
    ASSUME Containers!ContainersAssumption, Collects,
           [Containers!Next]_(Containers!containers)
    PROVE  Collects'
<1>1. ASSUME NEW i \in DOMAIN running, Containers!Stop(i) PROVE Collects'
  <2>1. /\ system' = system /\ used' = used /\ poll' = poll /\ shares' = shares
        /\ prevCPU' = prevCPU
        /\ DOMAIN running' \subseteq DOMAIN running
        /\ \A j \in DOMAIN running' : running'[j] = running[j]
    BY <1>1 DEF Containers!Stop, Containers!Only, Containers!collector
  <2> QED
    BY <2>1, WorldCollects DEF Collects, Hosted
<1>2. ASSUME NEW i \in DOMAIN running, Containers!Rename(i) PROVE Collects'
  <2>1. /\ system' = system /\ used' = used /\ poll' = poll /\ shares' = shares
        /\ prevCPU' = prevCPU /\ running[i].transient
        /\ running' = [running EXCEPT ![i].transient = FALSE]
        /\ \A j \in DOMAIN running :
             running[j].name = running[i].name => running[j].transient
    BY <1>2 DEF Containers!Rename, Containers!collector
  <2>2. /\ DOMAIN running' = DOMAIN running
        /\ \A j \in DOMAIN running : /\ running'[j].name = running[j].name
                                     /\ running'[j].usage = running[j].usage
                                     /\ j # i => running'[j] = running[j]
        /\ running'[i].transient = FALSE
        /\ \A j \in DOMAIN running : running'[j] = [name |-> running'[j].name,
             transient |-> running'[j].transient, usage |-> running'[j].usage]
    <3>1. \A j \in DOMAIN running : running[j] = [name |-> running[j].name,
             transient |-> running[j].transient, usage |-> running[j].usage]
      BY DEF Collects, Hosted
    <3>2. /\ DOMAIN running' = DOMAIN running
          /\ running'[i] = [running[i] EXCEPT !.transient = FALSE]
          /\ \A j \in DOMAIN running : j # i => running'[j] = running[j]
      BY <2>1
    <3> QED
      BY <3>1, <3>2
  <2>3. \A j \in DOMAIN running : running[j].transient \in BOOLEAN
    BY DEF Collects, Hosted
  <2>4. \A j \in DOMAIN running' : running'[j].transient \in BOOLEAN
    BY <2>2, <2>3
  <2>6. \A j, k \in DOMAIN running :
          running[j].name = running[k].name /\ running[j].transient = running[k].transient
            => j = k
    BY DEF Collects, Hosted
  <2>5. ASSUME NEW j \in DOMAIN running', NEW k \in DOMAIN running',
               running'[j].name = running'[k].name,
               running'[j].transient = running'[k].transient
        PROVE  j = k
    <3>1. /\ j \in DOMAIN running /\ k \in DOMAIN running
          /\ running[j].name = running[k].name
      BY <2>2, <2>5
    <3>2. CASE j # i /\ k # i
      <4>1. running'[j] = running[j] /\ running'[k] = running[k]
        BY <2>2, <3>1, <3>2
      <4>2. running[j].transient = running[k].transient
        BY <2>5, <4>1
      <4> QED
        BY <2>6, <3>1, <4>2
    <3>3. ASSUME j = i, k # i PROVE FALSE
      <4>1. running[k].transient
        BY <2>1, <3>1, <3>3
      <4>2. running'[k].transient = running[k].transient
        BY <2>2, <3>1, <3>3
      <4>3. running'[j].transient = FALSE
        BY <2>2, <3>3
      <4> QED
        BY <2>5, <4>1, <4>2, <4>3
    <3>4. ASSUME k = i, j # i PROVE FALSE
      <4>1. running[j].transient
        BY <2>1, <3>1, <3>4
      <4>2. running'[j].transient = running[j].transient
        BY <2>2, <3>1, <3>4
      <4>3. running'[k].transient = FALSE
        BY <2>2, <3>4
      <4> QED
        BY <2>5, <4>1, <4>2, <4>3
    <3> QED
      BY <3>2, <3>3, <3>4
  <2>7. system \in Nat /\ system <= LastTick
    BY DEF Collects, Hosted, Containers!ContainersAssumption
  <2>8. \A j \in DOMAIN running' : /\ running'[j].name = running[j].name
                                    /\ running'[j].transient \in BOOLEAN
                                    /\ running'[j].usage = running[j].usage
                                    /\ running'[j] = [name |-> running'[j].name,
                                         transient |-> running'[j].transient,
                                         usage |-> running'[j].usage]
    BY <2>2, <2>4
  <2>9. \A j, k \in DOMAIN running' :
          running'[j].name = running'[k].name
          /\ running'[j].transient = running'[k].transient => j = k
    BY <2>5
  <2>10. /\ DOMAIN running' \subseteq DOMAIN running /\ system' \in {system, system + 1}
         /\ system' <= LastTick
    BY <2>1, <2>2, <2>7
  <2>11. used' = used /\ poll' = poll /\ shares' = shares /\ prevCPU' = prevCPU
    BY <2>1
  <2> QED
    BY <2>8, <2>9, <2>10, <2>11, WorldCollects
<1>3. CASE Containers!Elsewhere
  <2>1. /\ system < LastTick /\ system' = system + 1 /\ used' = used /\ poll' = poll
        /\ shares' = shares /\ prevCPU' = prevCPU /\ running' = running
    BY <1>3 DEF Containers!Elsewhere, Containers!collector
  <2>2. system \in Nat /\ LastTick \in Nat
    BY DEF Collects, Hosted, Containers!ContainersAssumption
  <2>3. system' <= LastTick /\ system' \in {system, system + 1}
    BY <2>1, <2>2
  <2>4. /\ \A j \in DOMAIN running : running[j].transient \in BOOLEAN
        /\ \A j, k \in DOMAIN running :
             running[j].name = running[k].name /\ running[j].transient = running[k].transient
               => j = k
        /\ \A j \in DOMAIN running :
             running[j] = [name |-> running[j].name, transient |-> running[j].transient,
                           usage |-> running[j].usage]
    BY DEF Collects, Hosted
  <2>5. DOMAIN running' \subseteq DOMAIN running
    BY <2>1
  <2> QED
    BY <2>1, <2>3, <2>4, <2>5, WorldCollects
<1>4. CASE Containers!Finish
  <2>1. /\ poll.going /\ poll.left = {} /\ poll' = [poll EXCEPT !.going = FALSE] /\ shares' = {}
        /\ prevCPU' = [j \in DOMAIN prevCPU \cap DOMAIN poll.listed |-> prevCPU[j]]
        /\ system' = system /\ running' = running /\ used' = used
    BY <1>4 DEF Containers!Finish, Containers!Only, Containers!world
  <2>2. /\ poll'.going = FALSE /\ poll'.left = {} /\ poll'.listed = poll.listed
        /\ poll'.counts = poll.counts
    BY <2>1 DEF Collects, IsPolled
  <2>3. /\ DOMAIN prevCPU' = DOMAIN prevCPU \cap DOMAIN poll.listed
        /\ \A j \in DOMAIN prevCPU' : prevCPU'[j] = prevCPU[j]
    BY <2>1
  <2>4. Hosted' /\ Read'
    BY <2>1, <2>3 DEF Collects, Hosted, Read, Moved
  <2>8. poll.left = poll'.left
    BY <2>1, <2>2
  <2>6. \A service : Tallied(service)' = Tallied(service)
    <3>1. \A service : Visits(service)' = Visits(service)
      BY <2>2, <2>8 DEF Visits
    <3> QED
      BY <2>2, <3>1 DEF Tallied
  <2>7. poll' = [going |-> poll'.going, listed |-> poll'.listed, left |-> poll'.left,
                 counts |-> poll'.counts]
    BY <2>1 DEF Collects, IsPolled
  <2>5. IsPolled'
    BY <2>1, <2>2, <2>3, <2>6, <2>7 DEF Collects, IsPolled
  <2> QED
    BY <2>1, <2>4, <2>5 DEF Collects, Shared
<1>5. CASE Containers!Restart
  <2>1. /\ prevCPU' = Containers!Nothing /\ poll' = Containers!Idle /\ shares' = {}
        /\ system' = system /\ running' = running /\ used' = used
    BY <1>5 DEF Containers!Restart, Containers!world
  <2>2. /\ DOMAIN prevCPU' = {} /\ poll'.going = FALSE /\ DOMAIN poll'.listed = {}
        /\ poll'.left = {} /\ DOMAIN poll'.counts = {}
    BY <2>1 DEF Containers!Nothing, Containers!Idle
  <2>3. Hosted' /\ Read'
    BY <2>1, <2>2 DEF Collects, Hosted, Read, Moved
  <2>5. \A service : Tallied(service)'
    BY <2>2 DEF Tallied, Visits
  <2>6. poll' = [going |-> poll'.going, listed |-> poll'.listed, left |-> poll'.left,
                 counts |-> poll'.counts]
    BY <2>1 DEF Containers!Idle
  <2>4. IsPolled'
    BY <2>2, <2>5, <2>6 DEF IsPolled
  <2> QED
    BY <2>1, <2>3, <2>4 DEF Collects, Shared
<1>6. CASE UNCHANGED Containers!containers
  BY <1>6, PollStays DEF Containers!containers, Containers!world, Containers!collector, Collects,
     Hosted, Read, Moved
<1> QED
  BY <1>1, <1>2, <1>3, <1>4, <1>5, <1>6, WorkCollects, BootCollects, ListCollects,
     SkipCollects, MeasureCollects DEF Containers!Next

LEMMA CollectsReal ==
    ASSUME Containers!ContainersAssumption, Collects PROVE Containers!ContainersAreReal
<1>1. Containers!SharesAreReal
  BY DEF Collects, Shared, Real, Containers!SharesAreReal
<1>2. Containers!OneSharePerName
  <2>1. ASSUME NEW s \in shares, NEW t \in shares, s.name = t.name PROVE s = t
    <3>1. /\ s.id \in DOMAIN poll.listed /\ t.id \in DOMAIN poll.listed
          /\ poll.listed[s.id].name = poll.listed[t.id].name
          /\ ~poll.listed[s.id].transient /\ ~poll.listed[t.id].transient
      BY <2>1 DEF Collects, Shared
    <3>2. poll.listed[s.id].transient \in BOOLEAN /\ poll.listed[t.id].transient \in BOOLEAN
      BY <3>1 DEF Collects, IsPolled
    <3>3. s.id = t.id
      BY <3>1, <3>2 DEF Collects, IsPolled
    <3> QED
      BY <3>3 DEF Collects, Shared
  <2> QED
    BY <2>1 DEF Containers!OneSharePerName
<1>3. Containers!AllAreCounted
  <2>1. SUFFICES ASSUME ~poll.going PROVE Containers!AllAreCounted
    BY DEF Containers!AllAreCounted
  <2>2. poll.left = {} /\ DOMAIN prevCPU \subseteq DOMAIN poll.listed
    BY <2>1 DEF Collects, IsPolled
  <2>3. \A service :
          Visits(service) = {i \in DOMAIN poll.listed : ServiceNamed[poll.listed[i].name] = service}
    BY <2>2 DEF Visits
  <2>4. \A S : Containers!Cardinality(S) = Cardinality(S)
    BY Zenon DEF Containers!Cardinality, Cardinality
  <2>5. \A service \in {ServiceNamed[name] : name \in Names} : Tallied(service)
    BY DEF Collects, IsPolled
  <2> QED
    BY <2>2, <2>3, <2>4, <2>5 DEF Tallied, Containers!AllAreCounted
<1> QED
  BY <1>1, <1>2, <1>3 DEF Containers!ContainersAreReal

\* What is told of a container is what it used since its previous reading,
\* through restarts, renames and counters that start over; one share a name;
\* every container listed is counted.
THEOREM SharesHold == SpecParts => [](which = "containers" => Containers!ContainersAreReal)
<1> DEFINE Inv == which = "containers" => Collects
<1>1. Containers!ContainersAssumption
  BY PartsAssumption
<1>2. InitParts => Inv
  BY <1>1, InitCollects DEF InitParts
<1>3. Inv /\ [NextParts]_parts => Inv'
  <2>1. SUFFICES ASSUME Inv, [NextParts]_parts, which' = "containers" PROVE Collects'
    OBVIOUS
  <2> QED
    BY <1>1, <2>1, ContainersRuns, NextCollects
<1>4. Inv => (which = "containers" => Containers!ContainersAreReal)
  BY <1>1, CollectsReal
<1> QED
  BY <1>2, <1>3, <1>4, PTL DEF SpecParts
=============================================================================

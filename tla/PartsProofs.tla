----------------------------- MODULE PartsProofs -----------------------------
(***************************************************************************)
(* Proofs about the parts that MCParts runs, each for any values of its     *)
(* constants.                                                              *)
(***************************************************************************)
EXTENDS MCParts, Sums

-----------------------------------------------------------------------------
(* Of the part that runs, a step is a step of its module; the others rest.  *)

LEMMA SamePart ==
    ASSUME [NextParts]_parts
    PROVE  which' = which
  BY DEF NextParts, Runs, Rest, parts

LEMMA DampenerRuns ==
    ASSUME [NextParts]_parts, which' = "dampener"
    PROVE  which = "dampener" /\ [Dampener!Next]_(Dampener!vars)
  BY DEF NextParts, Runs, Rest, parts, dampener, Dampener!vars

LEMMA JournaldRuns ==
    ASSUME [NextParts]_parts, which' = "journald"
    PROVE  which = "journald" /\ [Journald!Next]_(Journald!journald)
  BY DEF NextParts, Runs, Rest, parts, journald, Journald!journald

-----------------------------------------------------------------------------
(* The journald plugin *)

\* The plugin owes nothing of an entry it handed over or skips.
Handled(i) == sent[i] /= {} \/ ~Journald!Decoded(Journal[i]) \/ Journald!IsExcluded(Journal[i])

\* Nothing is owed between the start of the stream and a position.
UpTo(n) == \A i \in origin + 1 .. n : Handled(i)

JournaldTypes ==
    /\ size \in 0..Len(Journal) /\ origin \in 0..size /\ pos \in 0..size
    /\ phase \in {"down", "running", "stopping"} /\ clean \in BOOLEAN
    /\ cursors \in [pending : 0..size, written : 0..size, flushing : 0..size]
    /\ jDisk = [cursor |-> jDisk.cursor, identity |-> jDisk.identity]
    /\ jDisk.cursor \in 0..size
    /\ sent = [i \in Journald!Entries |-> sent[i]]

Settled ==
    /\ phase = "running" => UpTo(pos)
    /\ UpTo(cursors.pending) /\ UpTo(cursors.flushing) /\ UpTo(jDisk.cursor)

\* What was written last is on the disk, and after a clean end it is what the
\* reader recorded last.
OnDisk ==
    /\ cursors.written /= 0 => jDisk.cursor = cursors.written
    /\ phase = "down" /\ clean /\ upto /= 0 => jDisk.cursor = upto

\* The inductive invariant.
Resuming == JournaldTypes /\ Settled /\ OnDisk

-----------------------------------------------------------------------------
LEMMA InitResumes ==
    ASSUME Journald!JournaldAssumption, Journald!Init
    PROVE  Resuming
<1>1. Len(Journal) \in Nat
  BY DEF Journald!JournaldAssumption
<1>2. JournaldTypes
  <2>1. 0 \in 0..0 /\ 0 \in 0..Len(Journal)
    BY <1>1
  <2>2. sent = [i \in Journald!Entries |-> sent[i]]
    BY DEF Journald!Init
  <2>3. cursors \in [pending : 0..0, written : 0..0, flushing : 0..0]
    BY <2>1 DEF Journald!Init, Journald!NoCursors
  <2> QED
    BY <2>1, <2>2, <2>3 DEF Journald!Init, JournaldTypes
<1>3. \A n : n = 0 => UpTo(n)
  BY DEF Journald!Init, UpTo
<1>4. Settled /\ OnDisk
  BY <1>3 DEF Journald!Init, Settled, OnDisk, Journald!NoCursors
<1> QED
  BY <1>2, <1>4 DEF Resuming

USE DEF Resuming

\* A step that keeps the entries handed over and the start of the stream keeps
\* what is settled settled.
LEMMA KeepsSettled ==
    ASSUME UNCHANGED <<sent, origin>>
    PROVE  \A n : UpTo(n)' <=> UpTo(n)
  BY DEF UpTo, Handled

LEMMA LogStep ==
    ASSUME Journald!JournaldAssumption, Resuming, Journald!Log
    PROVE  Resuming'
<1>1. /\ size' = size + 1 /\ size' \in 0..Len(Journal) /\ size \in Nat
      /\ UNCHANGED <<phase, pos, cursors, jDisk, sent, origin, upto, clean>>
  BY DEF Journald!Log, JournaldTypes, Journald!JournaldAssumption
<1>2. JournaldTypes'
  <2>1. \A n : n \in 0..size => n \in 0..size'
    BY <1>1
  <2> QED
    BY <1>1, <2>1 DEF JournaldTypes
<1>3. Settled'
  BY <1>1, KeepsSettled DEF Settled
<1>4. OnDisk'
  BY <1>1 DEF OnDisk
<1> QED
  BY <1>2, <1>3, <1>4

\* A life starts after the cursor of the disk, or where the journal ends.
LEMMA StartStep ==
    ASSUME Journald!JournaldAssumption, Resuming, Journald!Start
    PROVE  Resuming'
<1>1. /\ phase' = "running" /\ cursors' = Journald!NoCursors
      /\ UNCHANGED <<size, jDisk, sent, upto, clean>>
      /\ size \in Nat /\ origin \in 0..size
      /\ \/ jDisk.cursor /= 0 /\ pos' = jDisk.cursor /\ origin' = origin
         \/ jDisk.cursor = 0 /\ pos' = size /\ origin' = size
  BY DEF Journald!Start, Journald!Args, JournaldTypes, Journald!JournaldAssumption
<1>2. JournaldTypes'
  BY <1>1 DEF JournaldTypes, Journald!NoCursors
<1>3. Settled'
  <2>1. UpTo(0)'
    BY <1>1 DEF UpTo
  <2>2. UpTo(pos)' /\ UpTo(jDisk.cursor)'
    <3>1. CASE origin' = origin
      BY <1>1, <2>1, <3>1 DEF Settled, UpTo, Handled
    <3>2. CASE jDisk.cursor = 0 /\ pos' = size /\ origin' = size
      BY <1>1, <2>1, <3>2 DEF UpTo
    <3> QED
      BY <1>1, <3>1, <3>2
  <2> QED
    BY <1>1, <2>1, <2>2 DEF Settled, Journald!NoCursors
<1>4. OnDisk'
  BY <1>1 DEF OnDisk, Journald!NoCursors
<1> QED
  BY <1>2, <1>3, <1>4

\* An entry is recorded only once it is handed over or known to be skipped.
LEMMA HandleStep ==
    ASSUME Journald!JournaldAssumption, Resuming, Journald!Handle
    PROVE  Resuming'
<1> DEFINE e == Journal[pos + 1]
           skipped == ~Journald!Decoded(e) \/ Journald!IsExcluded(e)
<1>1. PICK delivered \in BOOLEAN :
        /\ phase = "running" /\ phase' = IF skipped \/ delivered THEN phase ELSE "stopping"
        /\ cursors' = IF Journald!Recorded(e, delivered)
                      THEN [cursors EXCEPT !.pending = pos + 1] ELSE cursors
        /\ jDisk' = jDisk \/ jDisk' = [jDisk EXCEPT !.identity = resolver']
        /\ sent' = IF skipped \/ ~delivered THEN sent
                   ELSE [sent EXCEPT ![pos + 1] = @ \cup {Journald!Destination(e)}]
  BY DEF Journald!Handle
<1>2. /\ pos' = pos + 1 /\ pos \in Nat /\ pos' \in 0..size /\ pos' \in Journald!Entries
      /\ UNCHANGED <<size, origin, upto, clean>>
      /\ size \in Nat /\ origin \in Nat
  BY DEF Journald!Handle, JournaldTypes, Journald!JournaldAssumption, Journald!Entries
<1>3. jDisk'.cursor = jDisk.cursor
      /\ jDisk' = [cursor |-> jDisk'.cursor, identity |-> jDisk'.identity]
  BY <1>1 DEF JournaldTypes
<1>4. /\ cursors' \in [pending : 0..size, written : 0..size, flushing : 0..size]
      /\ cursors'.written = cursors.written /\ cursors'.flushing = cursors.flushing
      /\ cursors'.pending = IF Journald!Recorded(e, delivered) THEN pos + 1
                            ELSE cursors.pending
  BY <1>1, <1>2 DEF JournaldTypes
<1>5. /\ sent' = [i \in Journald!Entries |-> sent'[i]]
      /\ \A i \in Journald!Entries : sent[i] /= {} => sent'[i] /= {}
      /\ ~skipped /\ delivered => sent'[pos + 1] /= {}
  BY <1>1, <1>2 DEF JournaldTypes
<1>6. JournaldTypes'
  BY <1>1, <1>2, <1>3, <1>4, <1>5 DEF JournaldTypes
<1>7. ASSUME NEW n \in 0..size, UpTo(n)
      PROVE  UpTo(n)'
  <2> SUFFICES ASSUME NEW i \in origin + 1 .. n
               PROVE  Handled(i)'
    BY <1>2 DEF UpTo
  <2>1. Handled(i) /\ i \in Journald!Entries
    BY <1>2, <1>7, SMTT(30) DEF UpTo, JournaldTypes, Journald!Entries, Journald!JournaldAssumption
  <2> QED
    BY <1>5, <2>1 DEF Handled
<1>8. skipped \/ delivered => \A n : n = pos + 1 => UpTo(n)'
  <2> SUFFICES ASSUME skipped \/ delivered, NEW i \in origin + 1 .. pos + 1
               PROVE  Handled(i)'
    BY <1>2 DEF UpTo
  <2>1. CASE i = pos + 1
    BY <1>5, <2>1 DEF Handled
  <2>2. CASE i /= pos + 1
    <3>1. UpTo(pos) /\ pos \in 0..size
      BY <1>1 DEF Settled, JournaldTypes
    <3>2. i \in origin + 1 .. pos /\ i \in Journald!Entries
      BY <1>2, <2>2 DEF JournaldTypes, Journald!Entries, Journald!JournaldAssumption
    <3>3. Handled(i)
      BY <3>1, <3>2 DEF UpTo
    <3> QED
      BY <1>5, <3>2, <3>3 DEF Handled
  <2> QED
    BY <2>1, <2>2
<1>9. Settled'
  <2>1. phase' = "running" => UpTo(pos)'
    BY <1>1, <1>2, <1>8
  <2>2. UpTo(cursors.pending)'
    <3>1. CASE Journald!Recorded(e, delivered)
      <4>1. skipped \/ delivered
        BY <3>1 DEF Journald!Recorded
      <4> QED
        BY <1>4, <1>8, <3>1, <4>1
    <3>2. CASE ~Journald!Recorded(e, delivered)
      BY <1>4, <1>7, <3>2 DEF Settled, JournaldTypes
    <3> QED
      BY <3>1, <3>2
  <2>3. UpTo(cursors.flushing)' /\ UpTo(jDisk.cursor)'
    BY <1>3, <1>4, <1>7 DEF Settled, JournaldTypes
  <2> QED
    BY <2>1, <2>2, <2>3 DEF Settled
<1>10. OnDisk'
  BY <1>1, <1>2, <1>3, <1>4 DEF OnDisk
<1> QED
  BY <1>6, <1>9, <1>10

\* The pending cursor goes to the disk, by way of flushing.
LEMMA FlushStep ==
    ASSUME Journald!JournaldAssumption, Resuming,
           Journald!Flush \/ Journald!Flushed \/ Journald!FlushFails
    PROVE  Resuming'
<1>1. /\ UNCHANGED <<size, pos, sent, origin, upto>> /\ phase /= "down"
      /\ \A n : UpTo(n)' <=> UpTo(n)
  BY KeepsSettled DEF Journald!Flush, Journald!Flushed, Journald!FlushFails
<1>2. CASE Journald!Flush
  <2>1. UNCHANGED <<phase, jDisk, clean>>
        /\ cursors' = [cursors EXCEPT !.flushing = cursors.pending]
    BY <1>2 DEF Journald!Flush
  <2>2. JournaldTypes'
    BY <1>1, <2>1 DEF JournaldTypes
  <2> QED
    BY <1>1, <2>1, <2>2 DEF JournaldTypes, Settled, OnDisk
<1>3. CASE Journald!Flushed
  <2>1. /\ UNCHANGED <<phase, clean>> /\ cursors.flushing /= 0
        /\ cursors' = [cursors EXCEPT !.written = cursors.flushing, !.flushing = 0]
        /\ jDisk' = [jDisk EXCEPT !.cursor = cursors.flushing]
    BY <1>3 DEF Journald!Flushed
  <2>2. /\ jDisk'.cursor = cursors.flushing
        /\ jDisk' = [cursor |-> jDisk'.cursor, identity |-> jDisk'.identity]
    BY <2>1 DEF JournaldTypes
  <2>3. /\ cursors'.written = cursors.flushing /\ cursors'.flushing = 0
        /\ cursors'.pending = cursors.pending
        /\ cursors' \in [pending : 0..size, written : 0..size, flushing : 0..size]
    <3>1. 0 \in 0..size /\ cursors.flushing \in 0..size
      BY DEF JournaldTypes, Journald!JournaldAssumption
    <3> QED
      BY <2>1, <3>1 DEF JournaldTypes
  <2>4. JournaldTypes'
    BY <1>1, <2>1, <2>2, <2>3 DEF JournaldTypes
  <2>5. UpTo(0)
    BY DEF UpTo, JournaldTypes
  <2> QED
    BY <1>1, <2>1, <2>2, <2>3, <2>4, <2>5 DEF Settled, OnDisk
<1>4. CASE Journald!FlushFails
  <2>1. /\ UNCHANGED jDisk
        /\ cursors' = [cursors EXCEPT !.flushing = 0]
        /\ phase' = IF phase = "stopping" THEN "down" ELSE phase
        /\ clean' = (clean /\ phase /= "stopping")
    BY <1>4 DEF Journald!FlushFails
  <2>2. /\ cursors'.flushing = 0 /\ cursors'.pending = cursors.pending
        /\ cursors'.written = cursors.written
        /\ cursors' \in [pending : 0..size, written : 0..size, flushing : 0..size]
    BY <2>1 DEF JournaldTypes, Journald!JournaldAssumption
  <2>3. JournaldTypes'
    BY <1>1, <2>1, <2>2 DEF JournaldTypes
  <2>4. UpTo(0)
    BY DEF UpTo, JournaldTypes
  <2> QED
    BY <1>1, <2>1, <2>2, <2>3, <2>4 DEF Settled, OnDisk
<1> QED
  BY <1>2, <1>3, <1>4

LEMMA EndStep ==
    ASSUME Journald!JournaldAssumption, Resuming,
           Journald!Stop \/ Journald!Stopped \/ Journald!Crash
    PROVE  Resuming'
<1>1. /\ UNCHANGED <<size, pos, cursors, jDisk, sent, origin>>
      /\ phase' \in {"down", "stopping"} /\ phase /= "down"
      /\ clean' \in BOOLEAN
  BY DEF Journald!Stop, Journald!Stopped, Journald!Crash, JournaldTypes
<1>2. JournaldTypes'
  BY <1>1 DEF JournaldTypes
<1>3. Settled'
  BY <1>1, KeepsSettled DEF Settled
<1>4. OnDisk'
  BY DEF Journald!Stop, Journald!Stopped, Journald!Crash, OnDisk, JournaldTypes
<1> QED
  BY <1>2, <1>3, <1>4

-----------------------------------------------------------------------------

\* Every entry between the start of the stream and the cursor on the disk was
\* handed over or is one the plugin skips, and a clean end leaves the last
\* position recorded on the disk: in every interleaving of the reader with the
\* goroutine that writes the cursor, over any stops, failed writes and crashes.
THEOREM Resumes == SpecParts => []ResumesWhereItStopped
<1> DEFINE Inv == which = "journald" => Resuming
<1>1. InitParts => Inv
  BY InitResumes, PartsAssumption DEF InitParts
<1>2. Inv /\ [NextParts]_parts => Inv'
  <2> SUFFICES ASSUME Inv, [NextParts]_parts, which' = "journald" PROVE Resuming'
    OBVIOUS
  <2>0. Resuming /\ [Journald!Next]_(Journald!journald)
    BY JournaldRuns
  <2>1. CASE Journald!Log
    BY <2>0, <2>1, LogStep, PartsAssumption
  <2>2. CASE Journald!Start
    BY <2>0, <2>2, StartStep, PartsAssumption
  <2>3. CASE Journald!Handle
    BY <2>0, <2>3, HandleStep, PartsAssumption
  <2>4. CASE Journald!Flush \/ Journald!Flushed \/ Journald!FlushFails
    BY <2>0, <2>4, FlushStep, PartsAssumption
  <2>5. CASE Journald!Stop \/ Journald!Stopped \/ Journald!Crash
    BY <2>0, <2>5, EndStep, PartsAssumption
  <2>6. CASE UNCHANGED Journald!journald
    BY <2>0, <2>6, KeepsSettled DEF Resuming, Journald!journald, JournaldTypes, Settled, OnDisk
  <2> QED
    BY <2>0, <2>1, <2>2, <2>3, <2>4, <2>5, <2>6 DEF Journald!Next
<1>3. Inv => ResumesWhereItStopped
  BY DEF Resuming, ResumesWhereItStopped, Journald!ResumesWhereItStopped, Settled, OnDisk,
     UpTo, Handled
<1> QED
  BY <1>1, <1>2, <1>3, PTL DEF SpecParts

HIDE DEF Resuming

-----------------------------------------------------------------------------
(* The dampener *)

\* What the silences of a streak of n add up to.
Silences(n) == SumFunction([i \in 0 .. n - 1 |-> Dampener!Silence(i)])

Remembered(p) ==
    /\ patterns[p] \in [reportedAt : Dampener!Times, lastSeen : Dampener!Times, maxScore : Scores,
                        suppressed : 0..seen, streak : 0..seen]
    /\ patterns[p].lastSeen - patterns[p].reportedAt < MaxCooldown
    /\ patterns[p].reportedAt - since[p] >= Silences(patterns[p].streak)

Dampens ==
    /\ DOMAIN patterns \subseteq Patterns /\ IsFiniteSet(DOMAIN patterns)
    /\ Cardinality(DOMAIN patterns) <= MaxTracked
    /\ latest \in Dampener!Times /\ seen \in 0..MaxSeen
    /\ since \in [Patterns -> Dampener!Times]
    /\ evicted \in [Patterns -> 0..seen] /\ reports \in [Patterns -> 0..seen]
    /\ \A p \in DOMAIN patterns : Remembered(p)

LEMMA SilenceFits ==
    ASSUME Dampener!DampenerAssumption, NEW streak \in Nat
    PROVE  Dampener!Silence(streak) \in Cooldown..MaxCooldown
<1> DEFINE S == [n \in 0..streak |-> Cooldown..MaxCooldown]
           D == [p \in (Cooldown..MaxCooldown) \X (1..streak) |->
                   IF 2 * p[1] >= MaxCooldown THEN MaxCooldown ELSE 2 * p[1]]
           Doubles(f) == f = [n \in 0..streak |->
                   IF n = 0 THEN Cooldown
                   ELSE IF 2 * f[n - 1] >= MaxCooldown THEN MaxCooldown
                   ELSE 2 * f[n - 1]]
<1>1. /\ Cooldown \in Nat \ {0} /\ MaxCooldown \in Nat /\ Cooldown <= MaxCooldown
      /\ 0 \in 0..streak /\ streak \in 0..streak
  BY DEF Dampener!DampenerAssumption
<1>2. ASSUME NEW n \in 1..streak, NEW v \in Cooldown..MaxCooldown
      PROVE  /\ D[<<v, n>>] = IF 2 * v >= MaxCooldown THEN MaxCooldown ELSE 2 * v
             /\ D[<<v, n>>] \in Cooldown..MaxCooldown
  BY <1>1
<1> HIDE DEF D
<1>3. PICK f : Solves(f, streak, Cooldown, D) /\ \A n \in 0..streak : f[n] \in S[n]
  <2>1. Cooldown \in S[0] /\ \A n \in 1..streak : \A v \in S[n - 1] : D[<<v, n>>] \in S[n]
    <3>1. \A n \in 0..streak : S[n] = Cooldown..MaxCooldown
      OBVIOUS
    <3>2. \A n \in 1..streak : n \in 0..streak /\ n - 1 \in 0..streak
      OBVIOUS
    <3>3. Cooldown \in Cooldown..MaxCooldown
      BY <1>1
    <3> HIDE DEF S
    <3> QED
      BY <1>1, <1>2, <3>1, <3>2, <3>3
  <2> HIDE DEF S
  <2> QED
    BY <2>1, Recursion
<1>4. \A n \in 0..streak : f[n] \in Cooldown..MaxCooldown
  BY <1>3
<1>5. f = [n \in 0..streak |-> IF n = 0 THEN Cooldown ELSE D[<<f[n - 1], n>>]]
  BY <1>3 DEF Solves
<1>6. Doubles(f)
  <2>1. ASSUME NEW n \in 0..streak
        PROVE  f[n] = IF n = 0 THEN Cooldown
                      ELSE IF 2 * f[n - 1] >= MaxCooldown THEN MaxCooldown
                      ELSE 2 * f[n - 1]
    <3>1. CASE n = 0
      BY <1>5, <3>1
    <3>2. CASE n # 0
      <4>1. n \in 1..streak /\ n - 1 \in 0..streak
        BY <3>2
      <4>2. f[n - 1] \in Cooldown..MaxCooldown /\ f[n] = D[<<f[n - 1], n>>]
        BY <1>4, <1>5, <3>2, <4>1
      <4> QED
        BY <1>2, <3>2, <4>1, <4>2
    <3> QED
      BY <3>1, <3>2
  <2>2. f = [n \in 0..streak |-> f[n]]
    BY <1>5
  <2> QED
    BY <2>1, <2>2, Zenon
<1> DEFINE m == CHOOSE m : Doubles(m)
<1>7. Doubles(m)
  BY <1>6, Zenon
<1>8. m[streak] = Dampener!Silence(streak)
  BY Zenon DEF Dampener!Silence
<1> HIDE DEF m
<1>9. \A n \in 0..streak : m[n] \in Cooldown..MaxCooldown
  <2> DEFINE T == {n \in 0..streak : m[n] \in Cooldown..MaxCooldown}
  <2>1. m[0] = Cooldown
    BY <1>1, <1>7
  <2>2. 0 \in T
    BY <1>1, <2>1
  <2>3. ASSUME NEW n \in 1..streak, n - 1 \in T PROVE n \in T
    <3>1. n \in 0..streak /\ n # 0
      OBVIOUS
    <3>2. m[n] = IF 2 * m[n - 1] >= MaxCooldown THEN MaxCooldown ELSE 2 * m[n - 1]
      BY <1>7, <3>1
    <3> DEFINE v == m[n - 1]
    <3>3. v \in Cooldown..MaxCooldown
      BY <2>3
    <3> HIDE DEF v
    <3>4. (IF 2 * v >= MaxCooldown THEN MaxCooldown ELSE 2 * v) \in Cooldown..MaxCooldown
      BY <1>1, <3>3
    <3> QED
      BY <3>1, <3>2, <3>4 DEF v
  <2>4. 0..streak \subseteq T
    <3> HIDE DEF T
    <3> QED
      BY <2>2, <2>3, Induction
  <2> QED
    BY <2>4
<1> QED
  BY <1>1, <1>8, <1>9

\* A silence more.
LEMMA SilencesGrow ==
    ASSUME Dampener!DampenerAssumption, NEW n \in Nat
    PROVE  /\ Silences(n) \in Nat /\ Silences(0) = 0
           /\ Silences(n + 1) = Silences(n) + Dampener!Silence(n)
<1> DEFINE f(k) == [i \in 0 .. k - 1 |-> Dampener!Silence(i)]
<1>1. ASSUME NEW k \in Nat PROVE f(k) \in [0 .. k - 1 -> Nat] /\ IsFiniteSet(0 .. k - 1)
  <2>1. \A i \in 0 .. k - 1 : Dampener!Silence(i) \in Nat
    <3>1. Cooldown \in Nat /\ MaxCooldown \in Nat
      BY DEF Dampener!DampenerAssumption
    <3> QED
      BY <3>1, SilenceFits
  <2>2. IsFiniteSet(0 .. k - 1)
    <3>1. 0 \in Int /\ k - 1 \in Int
      OBVIOUS
    <3> QED
      BY <3>1, FS_Interval
  <2> QED
    BY <2>1, <2>2
<1>2. Silences(0) = 0
  <2>1. DOMAIN f(0) = {}
    OBVIOUS
  <2> QED
    BY <2>1, SumNone DEF Silences
<1>3. n + 1 \in Nat /\ n \in 0 .. (n + 1) - 1 /\ Less(f(n + 1), {n}) = f(n)
      /\ f(n + 1)[n] = Dampener!Silence(n)
  BY DEF Less
<1>4. /\ f(n) \in [0 .. n - 1 -> Nat] /\ IsFiniteSet(0 .. n - 1)
      /\ f(n + 1) \in [0 .. (n + 1) - 1 -> Nat] /\ IsFiniteSet(0 .. (n + 1) - 1)
  BY <1>1, <1>3
<1>5. Silences(n) = SumFunction(f(n)) /\ Silences(n + 1) = SumFunction(f(n + 1))
  BY DEF Silences
<1> DEFINE a == f(n)
           b == f(n + 1)
<1> HIDE DEF f
<1>6. SumFunction(a) \in Nat
  BY <1>4, SumLess
<1>7. SumFunction(b) = b[n] + SumFunction(Less(b, {n}))
  BY <1>3, <1>4, SumLess
<1>8. b[n] \in Nat
  BY <1>3, <1>4
<1> QED
  BY <1>2, <1>3, <1>5, <1>6, <1>7, <1>8

\* The module of the dampener counts, and sums, as this one does.
LEMMA SameCount ==
    ASSUME NEW S PROVE Dampener!Cardinality(S) = Cardinality(S)
  BY Zenon DEF Dampener!Cardinality, Cardinality

LEMMA SameSum ==
    ASSUME NEW f PROVE Dampener!SumFunction(f) = SumFunction(f)
  BY Zenon DEF Dampener!SumFunction, SumFunction, Dampener!SumFunctionOnSet, SumFunctionOnSet,
     Dampener!FoldFunctionOnSet, FoldFunctionOnSet, Dampener!MapThenFoldSet, MapThenFoldSet

LEMMA InitDampens ==
    ASSUME Dampener!DampenerAssumption, Dampener!Init
    PROVE  Dampens
<1>1. patterns = <<>> /\ DOMAIN patterns = {} /\ latest = 0 /\ seen = 0
  BY DEF Dampener!Init
<1>2. /\ LastSignal \in Nat /\ MaxTracked \in Nat /\ MaxSeen \in Nat
  BY DEF Dampener!DampenerAssumption
<1>3. Cardinality({}) = 0 /\ IsFiniteSet({})
  BY FS_EmptySet
<1>4. since \in [Patterns -> Dampener!Times]
      /\ evicted \in [Patterns -> 0..0] /\ reports \in [Patterns -> 0..0]
  BY <1>2 DEF Dampener!Init, Dampener!Times
<1> QED
  BY <1>1, <1>2, <1>3, <1>4 DEF Dampens, Dampener!Times

\* The signal judged is counted, the latest timestamp is a timestamp.
LEMMA JudgedDampens ==
    ASSUME Dampener!DampenerAssumption, Dampens, seen < MaxSeen, NEW p \in Patterns,
           NEW when \in Dampener!Times, NEW score \in Scores, NEW heard \in BOOLEAN,
           Dampener!Judged(p, when, score, heard)
    PROVE  /\ latest' \in Dampener!Times /\ seen' = seen + 1 /\ seen' \in 0..MaxSeen
           /\ reports' \in [Patterns -> 0..seen']
<1>1. /\ seen \in 0..MaxSeen /\ MaxSeen \in Nat /\ seen' = seen + 1
      /\ latest' = IF when > latest THEN when ELSE latest
      /\ reports' = IF heard THEN [reports EXCEPT ![p] = @ + 1] ELSE reports
  BY DEF Dampener!DampenerAssumption, Dampens, Dampener!Judged
<1>2. reports \in [Patterns -> 0..seen] /\ latest \in Dampener!Times
  BY DEF Dampens
<1>3. \A n \in 0..seen : n \in 0..seen' /\ n + 1 \in 0..seen'
  BY <1>1
<1>4. reports' \in [Patterns -> 0..seen']
  <2>1. \A q \in Patterns : reports'[q] \in 0..seen'
    BY <1>1, <1>2, <1>3
  <2>2. reports' = [q \in Patterns |-> reports'[q]]
    BY <1>1, <1>2
  <2> QED
    BY <2>1, <2>2
<1> QED
  BY <1>1, <1>2, <1>4

\* What is remembered of a pattern stays true while it is not judged.
LEMMA StaysRemembered ==
    ASSUME Dampener!DampenerAssumption, Dampens, seen' = seen + 1, NEW q \in DOMAIN patterns,
           patterns'[q] = patterns[q], since'[q] = since[q]
    PROVE  Remembered(q)'
<1>1. Remembered(q) /\ seen \in Nat
  BY DEF Dampens
<1> DEFINE e == patterns[q]
<1>2. /\ e \in [reportedAt : Dampener!Times, lastSeen : Dampener!Times, maxScore : Scores,
                suppressed : 0..seen, streak : 0..seen]
      /\ e.lastSeen - e.reportedAt < MaxCooldown
      /\ e.reportedAt - since[q] >= Silences(e.streak)
  BY <1>1 DEF Remembered
<1>3. patterns'[q] = e /\ since'[q] = since[q]
  OBVIOUS
<1> HIDE DEF e
<1>4. 0..seen \subseteq 0..seen'
  BY <1>1
<1>5. e \in [reportedAt : Dampener!Times, lastSeen : Dampener!Times, maxScore : Scores,
             suppressed : 0..seen', streak : 0..seen']
  BY <1>2, <1>4
<1> QED
  BY <1>2, <1>3, <1>5 DEF Remembered, Silences, Dampener!Times

LEMMA NewDampens ==
    ASSUME Dampener!DampenerAssumption, Dampens, seen < MaxSeen, NEW p \in Patterns,
           NEW when \in Dampener!Times, NEW score \in Scores, Dampener!AdmitNew(p, when, score)
    PROVE  Dampens'
<1>1. PICK ps \in Dampener!Evictions :
        /\ patterns' = [q \in (DOMAIN patterns \ ps) \cup {p} |->
                          IF q = p
                          THEN [reportedAt |-> when, lastSeen |-> when, maxScore |-> score,
                                suppressed |-> 0, streak |-> 0]
                          ELSE patterns[q]]
        /\ evicted' = [q \in Patterns |-> evicted[q] + (IF q \in ps THEN 1 ELSE 0)]
  BY DEF Dampener!AdmitNew
<1>2. /\ p \notin DOMAIN patterns /\ since' = [since EXCEPT ![p] = when]
      /\ Dampener!Judged(p, when, score, TRUE)
  BY DEF Dampener!AdmitNew
<1>3. /\ latest' \in Dampener!Times /\ seen' = seen + 1 /\ seen' \in 0..MaxSeen
      /\ reports' \in [Patterns -> 0..seen']
  BY <1>2, JudgedDampens
<1>4. /\ DOMAIN patterns \subseteq Patterns /\ IsFiniteSet(DOMAIN patterns)
      /\ Cardinality(DOMAIN patterns) <= MaxTracked /\ MaxTracked \in Nat \ {0}
      /\ Cardinality(DOMAIN patterns) \in Nat
  BY FS_CardinalityType DEF Dampens, Dampener!DampenerAssumption
<1> DEFINE left == DOMAIN patterns \ ps
<1>5. IsFiniteSet(left) /\ Cardinality(left) \in Nat /\ Cardinality(left) + 1 <= MaxTracked
  <2>1. CASE Cardinality(DOMAIN patterns) < MaxTracked
    <3>1. ps = {}
      BY <1>1, <2>1, SameCount DEF Dampener!Evictions
    <3> QED
      BY <1>4, <2>1, <3>1
  <2>2. CASE ~(Cardinality(DOMAIN patterns) < MaxTracked)
    <3>1. ps \subseteq DOMAIN patterns
          /\ Cardinality(ps) = Cardinality(DOMAIN patterns) \div 10 + 1
      BY <1>1, <2>2, SameCount DEF Dampener!Evictions
    <3>2. ps # {}
      <4>1. Cardinality(ps) # 0
        BY <1>4, <3>1
      <4> QED
        BY <4>1, FS_EmptySet
    <3>3. PICK x \in ps : x \in DOMAIN patterns
      BY <3>1, <3>2
    <3>4. left \subseteq DOMAIN patterns \ {x}
      BY <3>3
    <3>5. /\ IsFiniteSet(DOMAIN patterns \ {x})
          /\ Cardinality(DOMAIN patterns \ {x}) = Cardinality(DOMAIN patterns) - 1
      BY <1>4, <3>3, FS_RemoveElement
    <3> HIDE DEF left
    <3>6. /\ IsFiniteSet(left) /\ Cardinality(left) \in Nat
          /\ Cardinality(left) <= Cardinality(DOMAIN patterns \ {x})
      BY <3>4, <3>5, FS_Subset, FS_CardinalityType
    <3> QED
      BY <1>4, <3>5, <3>6
  <2> QED
    BY <2>1, <2>2
<1>6. DOMAIN patterns' = left \cup {p}
  BY <1>1
<1>7. /\ DOMAIN patterns' \subseteq Patterns /\ IsFiniteSet(DOMAIN patterns')
      /\ Cardinality(DOMAIN patterns') <= MaxTracked
  <2>1. left \subseteq Patterns /\ p \notin left
    BY <1>2, <1>4
  <2> HIDE DEF left
  <2>2. /\ IsFiniteSet(left \cup {p}) /\ Cardinality(left \cup {p}) = Cardinality(left) + 1
    BY <1>5, <2>1, FS_AddElement
  <2> QED
    BY <1>5, <1>6, <2>1, <2>2
<1>8. evicted' \in [Patterns -> 0..seen'] /\ since' \in [Patterns -> Dampener!Times]
  <2>1. evicted \in [Patterns -> 0..seen] /\ since \in [Patterns -> Dampener!Times]
        /\ seen \in Nat
    BY DEF Dampens
  <2>2. \A q \in Patterns : evicted[q] + (IF q \in ps THEN 1 ELSE 0) \in 0..seen'
    BY <1>3, <2>1
  <2> QED
    BY <1>1, <1>2, <2>1, <2>2
<1>9. ASSUME NEW q \in DOMAIN patterns' PROVE Remembered(q)'
  <2>1. CASE q # p
    <3>1. q \in DOMAIN patterns /\ patterns'[q] = patterns[q]
      BY <1>1, <2>1
    <3>2. since'[q] = since[q]
      BY <1>2, <2>1 DEF Dampens
    <3> QED
      BY <1>3, <3>1, <3>2, StaysRemembered
  <2>2. CASE q = p
    <3>1. patterns'[p] = [reportedAt |-> when, lastSeen |-> when, maxScore |-> score,
                          suppressed |-> 0, streak |-> 0]
      BY <1>1
    <3>2. since'[p] = when
      BY <1>2 DEF Dampens
    <3>3. Silences(0) = 0 /\ MaxCooldown \in Nat \ {0} /\ when \in Int /\ 0 \in 0..seen'
      BY <1>3, SilencesGrow DEF Dampener!DampenerAssumption, Dampener!Times
    <3> QED
      BY <2>2, <3>1, <3>2, <3>3 DEF Remembered, Silences, Dampener!Times
  <2> QED
    BY <2>1, <2>2
<1> QED
  BY <1>3, <1>7, <1>8, <1>9 DEF Dampens

\* A pattern reported again, with a streak that took its time.
LEMMA RepeatDampens ==
    ASSUME Dampener!DampenerAssumption, Dampens, seen < MaxSeen, NEW p \in DOMAIN patterns,
           NEW when \in Dampener!Times, NEW score \in Scores, NEW streak \in 0 .. seen + 1,
           streak # 0 => when - since[p] >= Silences(streak),
           Dampener!AdmitRepeat(p, when, score, streak)
    PROVE  Dampens'
<1>1. /\ patterns' = [patterns EXCEPT ![p] =
                        [reportedAt |-> when, lastSeen |-> when, maxScore |-> score,
                         suppressed |-> 0, streak |-> streak]]
      /\ since' = [since EXCEPT ![p] = IF streak = 0 THEN when ELSE @]
      /\ evicted' = evicted /\ Dampener!Judged(p, when, score, TRUE)
  BY DEF Dampener!AdmitRepeat
<1>2. p \in Patterns /\ since \in [Patterns -> Dampener!Times]
  BY DEF Dampens
<1>3. /\ latest' \in Dampener!Times /\ seen' = seen + 1 /\ seen' \in 0..MaxSeen
      /\ reports' \in [Patterns -> 0..seen']
  BY <1>1, <1>2, JudgedDampens
<1>4. DOMAIN patterns' = DOMAIN patterns
  BY <1>1
<1>5. evicted' \in [Patterns -> 0..seen'] /\ since' \in [Patterns -> Dampener!Times]
  <2>1. evicted \in [Patterns -> 0..seen] /\ seen \in Nat
    BY DEF Dampens
  <2>2. 0..seen \subseteq 0..seen'
    BY <1>3, <2>1
  <2> QED
    BY <1>1, <1>2, <2>1, <2>2
<1>6. ASSUME NEW q \in DOMAIN patterns' PROVE Remembered(q)'
  <2>1. CASE q # p
    <3>1. q \in DOMAIN patterns /\ patterns'[q] = patterns[q]
      BY <1>1, <2>1
    <3>2. since'[q] = since[q]
      BY <1>1, <1>2, <2>1
    <3> QED
      BY <1>3, <3>1, <3>2, StaysRemembered
  <2>2. CASE q = p
    <3>1. patterns'[p] = [reportedAt |-> when, lastSeen |-> when, maxScore |-> score,
                          suppressed |-> 0, streak |-> streak]
      BY <1>1
    <3>2. since'[p] = IF streak = 0 THEN when ELSE since[p]
      BY <1>1, <1>2
    <3>3. Silences(0) = 0 /\ MaxCooldown \in Nat \ {0} /\ when \in Int /\ 0 \in 0..seen'
      BY <1>3, SilencesGrow DEF Dampener!DampenerAssumption, Dampener!Times
    <3>4. when - since'[p] >= Silences(streak)
      BY <3>2, <3>3
    <3>5. streak \in 0..seen'
      BY <1>3
    <3> QED
      BY <2>2, <3>1, <3>3, <3>4, <3>5 DEF Remembered, Silences, Dampener!Times
  <2> QED
    BY <2>1, <2>2
<1> QED
  BY <1>3, <1>4, <1>5, <1>6 DEF Dampens

\* What is known of a pattern that comes again.
LEMMA StreakFits ==
    ASSUME Dampener!DampenerAssumption, Dampens, NEW p \in DOMAIN patterns,
           NEW when \in Dampener!Times
    PROVE  /\ Remembered(p) /\ p \in Patterns /\ seen \in Nat
           /\ patterns[p].reportedAt \in Dampener!Times /\ patterns[p].lastSeen \in Dampener!Times
           /\ patterns[p].streak \in 0..seen /\ since[p] \in Dampener!Times
           /\ Dampener!Streak(p, when) \in 0..seen
           /\ ~Dampener!Returning(p, when) => Dampener!Streak(p, when) = patterns[p].streak
           /\ Dampener!Returning(p, when) => Dampener!Streak(p, when) = 0
           /\ Dampener!Silence(Dampener!Streak(p, when)) \in Cooldown..MaxCooldown
<1>1. /\ Remembered(p) /\ p \in Patterns /\ seen \in Nat
      /\ patterns[p].reportedAt \in Dampener!Times /\ patterns[p].lastSeen \in Dampener!Times
      /\ patterns[p].streak \in 0..seen /\ since[p] \in Dampener!Times
  BY DEF Dampens, Remembered
<1>2. /\ Dampener!Streak(p, when) \in 0..seen
      /\ ~Dampener!Returning(p, when) => Dampener!Streak(p, when) = patterns[p].streak
      /\ Dampener!Returning(p, when) => Dampener!Streak(p, when) = 0
  BY <1>1 DEF Dampener!Streak
<1>3. Dampener!Silence(Dampener!Streak(p, when)) \in Cooldown..MaxCooldown
  <2>1. Dampener!Streak(p, when) \in Nat
    BY <1>1, <1>2
  <2> QED
    BY <2>1, SilenceFits
<1> QED
  BY <1>1, <1>2, <1>3

\* A quiet long enough adds a silence to the streak.
LEMMA QuietGrows ==
    ASSUME Dampener!DampenerAssumption, Dampens, NEW p \in DOMAIN patterns,
           NEW when \in Dampener!Times,
           Dampener!Quiet(p, when), ~Dampener!Returning(p, when)
    PROVE  when - since[p] >= Silences(Dampener!Streak(p, when) + 1)
<1> DEFINE n == Dampener!Streak(p, when)
<1>1. /\ Remembered(p) /\ n = patterns[p].streak /\ n \in Nat
      /\ patterns[p].reportedAt \in Int /\ since[p] \in Int /\ when \in Int
  BY StreakFits DEF Dampener!Times
<1>2. /\ when - patterns[p].reportedAt >= Dampener!Silence(n)
      /\ patterns[p].reportedAt - since[p] >= Silences(n)
  BY <1>1 DEF Dampener!Quiet, Remembered
<1>3. Dampener!Silence(n) \in Nat
  <2>1. Dampener!Silence(n) \in Cooldown..MaxCooldown
    BY StreakFits
  <2> QED
    BY <2>1 DEF Dampener!DampenerAssumption
<1> HIDE DEF n
<1>4. Silences(n) \in Nat /\ Silences(n + 1) = Silences(n) + Dampener!Silence(n)
  BY <1>1, SilencesGrow
<1> DEFINE r == patterns[p].reportedAt
           s == since[p]
           a == Silences(n)
           b == Silences(n + 1)
           c == Dampener!Silence(n)
<1>5. r \in Int /\ s \in Int /\ a \in Nat /\ c \in Nat /\ b = a + c
      /\ when - r >= c /\ r - s >= a /\ when \in Int
  BY <1>1, <1>2, <1>3, <1>4
<1> HIDE DEF r, s, a, b, c
<1>6. when - s >= b
  BY <1>5
<1> QED
  BY <1>6 DEF s, b, n

LEMMA SuppressDampens ==
    ASSUME Dampener!DampenerAssumption, Dampens, seen < MaxSeen, NEW p \in DOMAIN patterns,
           NEW when \in Dampener!Times, NEW score \in Scores, ~Dampener!Quiet(p, when),
           Dampener!Suppress(p, when, score)
    PROVE  Dampens'
<1> DEFINE e == patterns[p]
           streak == Dampener!Streak(p, when)
<1>1. /\ patterns' = [patterns EXCEPT ![p] = [e EXCEPT !.lastSeen = when, !.streak = streak,
                                                        !.suppressed = @ + 1]]
      /\ since' = IF streak = e.streak THEN since
                  ELSE [since EXCEPT ![p] = e.reportedAt]
      /\ evicted' = evicted /\ Dampener!Judged(p, when, score, FALSE)
  BY DEF Dampener!Suppress
<1>2. /\ Remembered(p) /\ p \in Patterns /\ since \in [Patterns -> Dampener!Times]
      /\ e.reportedAt \in Dampener!Times /\ streak \in 0..seen /\ seen \in Nat
      /\ streak = e.streak \/ streak = 0
      /\ Dampener!Silence(streak) \in Cooldown..MaxCooldown
  BY StreakFits DEF Dampens
<1>3. /\ latest' \in Dampener!Times /\ seen' = seen + 1 /\ seen' \in 0..MaxSeen
      /\ reports' \in [Patterns -> 0..seen']
  BY <1>1, <1>2, JudgedDampens
<1>4. DOMAIN patterns' = DOMAIN patterns
  BY <1>1
<1>5. evicted' \in [Patterns -> 0..seen'] /\ since' \in [Patterns -> Dampener!Times]
  <2>1. evicted \in [Patterns -> 0..seen] /\ seen \in Nat
    BY DEF Dampens
  <2>2. 0..seen \subseteq 0..seen'
    BY <1>3, <2>1
  <2>3. since' \in [Patterns -> Dampener!Times]
    <3>1. CASE streak = e.streak
      BY <1>1, <1>2, <3>1
    <3>2. CASE streak # e.streak
      BY <1>1, <1>2, <3>2
    <3> QED
      BY <3>1, <3>2
  <2> QED
    BY <1>1, <1>2, <2>1, <2>2, <2>3
<1>6. ASSUME NEW q \in DOMAIN patterns' PROVE Remembered(q)'
  <2>1. CASE q # p
    <3>1. q \in DOMAIN patterns /\ patterns'[q] = patterns[q]
      BY <1>1, <2>1
    <3>2. since'[q] = since[q]
      BY <1>1, <1>2, <2>1
    <3> QED
      BY <1>3, <3>1, <3>2, StaysRemembered
  <2>2. CASE q = p
    <3>1. patterns'[p] = [e EXCEPT !.lastSeen = when, !.streak = streak, !.suppressed = @ + 1]
      BY <1>1
    <3>2. since'[p] = IF streak = e.streak THEN since[p] ELSE e.reportedAt
      BY <1>1, <1>2
    <3>3. Silences(0) = 0 /\ when \in Int /\ MaxCooldown \in Nat /\ Cooldown \in Nat
      BY SilencesGrow DEF Dampener!DampenerAssumption, Dampener!Times
    <3>4. /\ e \in [reportedAt : Dampener!Times, lastSeen : Dampener!Times, maxScore : Scores,
                    suppressed : 0..seen, streak : 0..seen]
          /\ e.reportedAt - since[p] >= Silences(e.streak)
      BY <1>2 DEF Remembered
    <3>5. when - e.reportedAt < MaxCooldown
      <4>1. when - e.reportedAt < Dampener!Silence(streak)
        <5>1. ~(when - e.reportedAt >= Dampener!Silence(streak))
          BY DEF Dampener!Quiet
        <5>2. when - e.reportedAt \in Int /\ Dampener!Silence(streak) \in Int
          BY <1>2, <3>3 DEF Dampener!Times
        <5> HIDE DEF e, streak
        <5> QED
          BY <5>1, <5>2
      <4>2. e.reportedAt \in Int
        BY <1>2 DEF Dampener!Times
      <4> HIDE DEF e, streak
      <4> QED
        BY <1>2, <3>3, <4>1, <4>2
    <3> HIDE DEF e, streak
    <3>6. e.reportedAt - since'[p] >= Silences(streak)
      <4>1. e.reportedAt \in Int
        BY <1>2 DEF Dampener!Times
      <4> QED
        BY <1>2, <3>2, <3>3, <3>4, <4>1
    <3>7. patterns'[p] = [reportedAt |-> e.reportedAt, lastSeen |-> when,
                          maxScore |-> e.maxScore, suppressed |-> e.suppressed + 1,
                          streak |-> streak]
      BY <3>1, <3>4
    <3>8. /\ e.suppressed + 1 \in 0..seen' /\ streak \in 0..seen'
          /\ e.maxScore \in Scores
      BY <1>2, <1>3, <3>4
    <3> QED
      BY <1>2, <2>2, <3>5, <3>6, <3>7, <3>8 DEF Remembered, Silences, Dampener!Times
  <2> QED
    BY <2>1, <2>2
<1> QED
  BY <1>3, <1>4, <1>5, <1>6 DEF Dampens

LEMMA NextDampens ==
    ASSUME Dampener!DampenerAssumption, Dampens, [Dampener!Next]_(Dampener!vars)
    PROVE  Dampens'
<1>1. CASE UNCHANGED Dampener!vars
  BY <1>1 DEF Dampens, Remembered, Silences, Dampener!vars, Dampener!Times
<1>2. CASE Dampener!Next
  <2>1. PICK p \in Patterns, when \in Dampener!Times, score \in Scores :
          seen < MaxSeen /\ Dampener!Admit(p, when, score)
    BY <1>2 DEF Dampener!Next
  <2>2. CASE Dampener!AdmitNew(p, when, score)
    BY <2>1, <2>2, NewDampens
  <2>3. CASE p \in DOMAIN patterns /\ Dampener!AdmitRepeat(p, when, score, 0)
    <3>1. 0 \in 0 .. seen + 1
      BY DEF Dampens
    <3> QED
      BY <2>1, <2>3, <3>1, RepeatDampens
  <2>4. CASE /\ p \in DOMAIN patterns /\ Dampener!Quiet(p, when)
             /\ Dampener!AdmitRepeat(p, when, score, Dampener!Streak(p, when)
                                   + (IF Dampener!Returning(p, when) THEN 0 ELSE 1))
    <3> DEFINE n == Dampener!Streak(p, when)
               streak == n + (IF Dampener!Returning(p, when) THEN 0 ELSE 1)
    <3>1. /\ seen \in Nat /\ n \in 0..seen
          /\ Dampener!Returning(p, when) => n = 0
      BY <2>4, StreakFits
    <3>2. ~Dampener!Returning(p, when) => when - since[p] >= Silences(n + 1)
      BY <2>4, QuietGrows
    <3>3. Dampener!AdmitRepeat(p, when, score, streak)
      BY <2>4
    <3> HIDE DEF n
    <3>4. streak \in 0 .. seen + 1 /\ (streak # 0 => when - since[p] >= Silences(streak))
      BY <3>1, <3>2
    <3> HIDE DEF streak
    <3> QED
      BY <2>1, <2>4, <3>3, <3>4, RepeatDampens
  <2>5. CASE /\ p \in DOMAIN patterns /\ ~Dampener!Quiet(p, when)
             /\ Dampener!Suppress(p, when, score)
    BY <2>1, <2>5, SuppressDampens
  <2> QED
    BY <2>1, <2>2, <2>3, <2>4, <2>5 DEF Dampener!Admit
<1> QED
  BY <1>1, <1>2

LEMMA DampensFits ==
    ASSUME Dampener!DampenerAssumption, Dampens
    PROVE  Dampener!SilencesFit
<1>1. MaxSeen \in Nat /\ seen \in 0..MaxSeen /\ 0..seen \subseteq 0..MaxSeen
  BY DEF Dampener!DampenerAssumption, Dampens
<1>2. ASSUME NEW p \in DOMAIN patterns
      PROVE  /\ patterns[p] \in [reportedAt : Dampener!Times, lastSeen : Dampener!Times,
                                 maxScore : Scores, suppressed : 0..MaxSeen,
                                 streak : 0..MaxSeen]
             /\ Dampener!Silence(patterns[p].streak) \in Cooldown..MaxCooldown
             /\ patterns[p].lastSeen - patterns[p].reportedAt < MaxCooldown
             /\ patterns[p].reportedAt - since[p] >= Silences(patterns[p].streak)
  <2> DEFINE e == patterns[p]
  <2>1. /\ e \in [reportedAt : Dampener!Times, lastSeen : Dampener!Times, maxScore : Scores,
                  suppressed : 0..seen, streak : 0..seen]
        /\ e.lastSeen - e.reportedAt < MaxCooldown
        /\ e.reportedAt - since[p] >= Silences(e.streak)
    BY DEF Dampens, Remembered
  <2> HIDE DEF e
  <2>2. e.streak \in Nat
    BY <1>1, <2>1
  <2>3. Dampener!Silence(e.streak) \in Cooldown..MaxCooldown
    BY <2>2, SilenceFits
  <2>4. e \in [reportedAt : Dampener!Times, lastSeen : Dampener!Times, maxScore : Scores,
               suppressed : 0..MaxSeen, streak : 0..MaxSeen]
    BY <1>1, <2>1
  <2> QED
    BY <2>1, <2>3, <2>4 DEF e
<1>3. Dampener!TypeOK
  <2>1. /\ evicted \in [Patterns -> 0..MaxSeen] /\ reports \in [Patterns -> 0..MaxSeen]
    BY <1>1 DEF Dampens
  <2> QED
    BY <1>2, <2>1, SameCount DEF Dampener!TypeOK, Dampens
<1>4. Dampener!SilenceBounded
  BY <1>2 DEF Dampener!SilenceBounded
<1>5. Dampener!StreakTakesItsTime
  <2>1. ASSUME NEW p \in DOMAIN patterns
        PROVE  patterns[p].reportedAt - since[p] >=
                 Dampener!SumFunction([i \in 0 .. patterns[p].streak - 1 |-> Dampener!Silence(i)])
    <3> DEFINE f == [i \in 0 .. patterns[p].streak - 1 |-> Dampener!Silence(i)]
    <3>1. Silences(patterns[p].streak) = SumFunction(f)
      BY Zenon DEF Silences
    <3>2. Dampener!SumFunction(f) = SumFunction(f)
      BY SameSum
    <3> HIDE DEF f
    <3>3. patterns[p].reportedAt - since[p] >= Dampener!SumFunction(f)
      BY <1>2, <3>1, <3>2
    <3> QED
      BY <3>3 DEF f
  <2> QED
    BY <2>1 DEF Dampener!StreakTakesItsTime
<1> QED
  BY <1>3, <1>4, <1>5 DEF Dampener!SilencesFit

\* However late the signals, whatever is forgotten: a pattern is not silent for
\* longer than the configured maximum, and a streak of reports took as long as
\* the silences it stretched add up to (silence, admit and makeRoom of dampen).
THEOREM DampensHold == SpecParts => []SilencesFit
<1> DEFINE Inv == which = "dampener" => Dampens
<1>1. InitParts => Inv
  BY InitDampens, PartsAssumption DEF InitParts
<1>2. Inv /\ [NextParts]_parts => Inv'
  BY DampenerRuns, NextDampens, PartsAssumption
<1>3. Inv => SilencesFit
  BY DampensFits, PartsAssumption DEF SilencesFit
<1> QED
  BY <1>1, <1>2, <1>3, PTL DEF SpecParts

\* The dampener tells and holds back what the abstract limiter would.
LEMMA DampenerLimits ==
    ASSUME Dampener!DampenerAssumption, Dampens, [Dampener!Next]_(Dampener!vars)
    PROVE  Dampener!Promise!Step
<1> DEFINE given == [p \in DOMAIN patterns |->
                      [at |-> patterns[p].reportedAt, score |-> patterns[p].maxScore]]
<1>1. CASE UNCHANGED Dampener!vars
  BY <1>1 DEF Dampener!vars, Dampener!Promise!Step
<1>2. CASE Dampener!Next
  <2>1. PICK p \in Patterns, when \in Dampener!Times, score \in Scores :
          seen < MaxSeen /\ Dampener!Admit(p, when, score)
    BY <1>2 DEF Dampener!Next
  <2>2. SUFFICES Dampener!Promise!Report(p, when, score) \/ Dampener!Promise!HoldBack(p, when, score)
    BY <2>1, <2>2 DEF Dampener!Promise!Step, Dampener!Promise!Next
  <2>3. CASE Dampener!AdmitNew(p, when, score)
    <3>1. PICK ps \in Dampener!Evictions :
            patterns' = [q \in (DOMAIN patterns \ ps) \cup {p} |->
                          IF q = p
                          THEN [reportedAt |-> when, lastSeen |-> when, maxScore |-> score,
                                suppressed |-> 0, streak |-> 0]
                          ELSE patterns[q]]
      BY <2>3 DEF Dampener!AdmitNew
    <3>2. p \notin DOMAIN patterns /\ Dampener!Judged(p, when, score, TRUE)
      BY <2>3 DEF Dampener!AdmitNew
    <3> DEFINE kept == DOMAIN patterns \ ps
    <3>3. given' = [q \in kept \cup {p} |->
                     IF q = p THEN [at |-> when, score |-> score] ELSE given[q]]
      BY <3>1, <3>2
    <3>4. Dampener!Promise!Judged(p, when, score, TRUE)
      BY <3>2 DEF Dampener!Judged, Dampener!Promise!Judged
    <3>5. kept \in SUBSET DOMAIN given /\ p \notin DOMAIN given
      BY <3>2
    <3> QED
      BY <3>3, <3>4, <3>5 DEF Dampener!Promise!Report
  <2>4. ASSUME p \in DOMAIN patterns, NEW streak,
               Dampener!AdmitRepeat(p, when, score, streak),
               \/ Dampener!Escalates(p, score)
               \/ when - patterns[p].reportedAt >= Cooldown
        PROVE  Dampener!Promise!Report(p, when, score)
    <3>1. /\ patterns' = [patterns EXCEPT ![p] =
                            [reportedAt |-> when, lastSeen |-> when, maxScore |-> score,
                             suppressed |-> 0, streak |-> streak]]
          /\ Dampener!Judged(p, when, score, TRUE)
      BY <2>4 DEF Dampener!AdmitRepeat
    <3> DEFINE kept == DOMAIN given
    <3>2. given' = [q \in kept \cup {p} |->
                     IF q = p THEN [at |-> when, score |-> score] ELSE given[q]]
      <4>1. DOMAIN patterns' = DOMAIN patterns /\ kept \cup {p} = DOMAIN patterns
        BY <2>4, <3>1
      <4>2. \A q \in DOMAIN patterns :
              [at |-> patterns'[q].reportedAt, score |-> patterns'[q].maxScore]
                = IF q = p THEN [at |-> when, score |-> score] ELSE given[q]
        BY <3>1
      <4> QED
        BY <4>1, <4>2
    <3>3. Dampener!Promise!Judged(p, when, score, TRUE)
      BY <3>1 DEF Dampener!Judged, Dampener!Promise!Judged
    <3>4. given[p] = [at |-> patterns[p].reportedAt, score |-> patterns[p].maxScore]
      BY <2>4
    <3>5. score >= given[p].score + Escalation \/ when - given[p].at >= Cooldown
      BY <2>4, <3>4 DEF Dampener!Escalates
    <3> HIDE DEF given
    <3> QED
      BY <3>2, <3>3, <3>5 DEF Dampener!Promise!Report, given
  <2>5. CASE p \in DOMAIN patterns /\ Dampener!Escalates(p, score)
             /\ Dampener!AdmitRepeat(p, when, score, 0)
    BY <2>4, <2>5
  <2>6. CASE /\ p \in DOMAIN patterns /\ Dampener!Quiet(p, when)
             /\ Dampener!AdmitRepeat(p, when, score, Dampener!Streak(p, when)
                                   + (IF Dampener!Returning(p, when) THEN 0 ELSE 1))
    <3>1. /\ Dampener!Silence(Dampener!Streak(p, when)) \in Cooldown..MaxCooldown
          /\ patterns[p].reportedAt \in Dampener!Times
      BY <2>6, StreakFits
    <3>2. when - patterns[p].reportedAt >= Dampener!Silence(Dampener!Streak(p, when))
      BY <2>6 DEF Dampener!Quiet
    <3>3. when - patterns[p].reportedAt >= Cooldown
      <4> DEFINE r == patterns[p].reportedAt
                 s == Dampener!Silence(Dampener!Streak(p, when))
      <4>1. r \in Int /\ when \in Int /\ Cooldown \in Int /\ s \in Int /\ s >= Cooldown /\ when - r >= s
        BY <3>1, <3>2 DEF Dampener!DampenerAssumption, Dampener!Times
      <4> HIDE DEF r, s
      <4>2. when - r >= Cooldown
        BY <4>1
      <4> QED
        BY <4>2 DEF r
    <3> QED
      BY <2>4, <2>6, <3>3
  <2>7. CASE /\ p \in DOMAIN patterns /\ ~Dampener!Escalates(p, score) /\ ~Dampener!Quiet(p, when)
             /\ Dampener!Suppress(p, when, score)
    <3>1. /\ Dampener!Silence(Dampener!Streak(p, when)) \in Cooldown..MaxCooldown
          /\ patterns[p].reportedAt \in Dampener!Times /\ Remembered(p)
      BY <2>7, StreakFits
    <3>2. ~(when - patterns[p].reportedAt >= Dampener!Silence(Dampener!Streak(p, when)))
      BY <2>7 DEF Dampener!Quiet
    <3>3. when - patterns[p].reportedAt < MaxCooldown
      <4> DEFINE r == patterns[p].reportedAt
                 s == Dampener!Silence(Dampener!Streak(p, when))
      <4>1. r \in Int /\ when \in Int /\ MaxCooldown \in Int /\ s \in Int /\ s <= MaxCooldown
            /\ ~(when - r >= s)
        BY <3>1, <3>2 DEF Dampener!DampenerAssumption, Dampener!Times
      <4> HIDE DEF r, s
      <4>2. when - r < MaxCooldown
        BY <4>1
      <4> QED
        BY <4>2 DEF r
    <3>4. score < patterns[p].maxScore + Escalation
      <4> DEFINE m == patterns[p].maxScore
      <4>1. m \in Int /\ score \in Int /\ Escalation \in Int
        <5>1. Scores \subseteq Nat /\ Escalation \in Nat
          BY DEF Dampener!DampenerAssumption
        <5>2. m \in Scores
          BY <3>1 DEF Remembered
        <5> HIDE DEF m
        <5>3. m \in Nat /\ score \in Nat
          BY <5>1, <5>2
        <5> QED
          BY <5>1, <5>3
      <4>2. ~(score >= m + Escalation)
        BY <2>7 DEF Dampener!Escalates
      <4> HIDE DEF m
      <4>3. score < m + Escalation
        BY <4>1, <4>2
      <4> QED
        BY <4>3 DEF m
    <3>5. /\ patterns' = [patterns EXCEPT ![p].lastSeen = when,
                                          ![p].streak = Dampener!Streak(p, when),
                                          ![p].suppressed = @ + 1]
          /\ Dampener!Judged(p, when, score, FALSE)
      BY <2>7 DEF Dampener!Suppress
    <3>6. given' = given
      <4>1. DOMAIN patterns' = DOMAIN patterns
        BY <3>5
      <4>2. ASSUME NEW q \in DOMAIN patterns
            PROVE  /\ patterns'[q].reportedAt = patterns[q].reportedAt
                   /\ patterns'[q].maxScore = patterns[q].maxScore
        <5>1. CASE q # p
          BY <3>5, <5>1
        <5>2. CASE q = p
          <6>1. patterns'[p] = [patterns[p] EXCEPT !.lastSeen = when, !.streak = Dampener!Streak(p,
                when),
                                                    !.suppressed = @ + 1]
            BY <2>7, <3>5
          <6> DEFINE e == patterns[p]
          <6>2. e \in [reportedAt : Dampener!Times, lastSeen : Dampener!Times, maxScore : Scores,
                       suppressed : 0..seen, streak : 0..seen]
            BY <3>1 DEF Remembered
          <6>3. patterns'[p] = [e EXCEPT !.lastSeen = when, !.streak = Dampener!Streak(p, when),
                                         !.suppressed = @ + 1]
            BY <6>1
          <6> HIDE DEF e
          <6>4. patterns'[p].reportedAt = e.reportedAt /\ patterns'[p].maxScore = e.maxScore
            BY <6>2, <6>3
          <6> QED
            BY <5>2, <6>4 DEF e
        <5> QED
          BY <5>1, <5>2
      <4> QED
        BY <4>1, <4>2
    <3>7. Dampener!Promise!Judged(p, when, score, FALSE)
      BY <3>5 DEF Dampener!Judged, Dampener!Promise!Judged
    <3>8. given[p] = [at |-> patterns[p].reportedAt, score |-> patterns[p].maxScore]
          /\ DOMAIN given = DOMAIN patterns
      BY <2>7
    <3> QED
      BY <2>7, <3>3, <3>4, <3>6, <3>7, <3>8 DEF Dampener!Promise!HoldBack
  <2> QED
    BY <2>1, <2>3, <2>5, <2>6, <2>7 DEF Dampener!Admit
<1> QED
  BY <1>1, <1>2

\* The dampener implements the limiter: it speaks up again only when a pattern
\* got worse or its base cooldown passed, and holds back only while the longest
\* cooldown has not ("never silences a pattern for good", package dampen).
THEOREM PromiseKept == SpecParts => KeepsPromise
<1> DEFINE Inv == which = "dampener" => Dampens
           Kept == which = "dampener" => Dampener!Promise!Step
<1>1. InitParts => Inv /\ Dampener!Promise!Init
  BY InitDampens, PartsAssumption DEF InitParts, Dampener!Init, Dampener!Promise!Init
<1>2. Inv /\ [NextParts]_parts => Inv' /\ [Kept]_parts
  BY SamePart, DampenerRuns, NextDampens, DampenerLimits, PartsAssumption
<1> QED
  BY <1>1, <1>2, PTL DEF SpecParts, KeepsPromise

-----------------------------------------------------------------------------
(* The sessions of the console *)

LEMMA LoginRuns ==
    ASSUME [NextParts]_parts, which' = "login"
    PROVE  which = "login" /\ [Login!Next]_(Login!login)
  BY DEF NextParts, Runs, Rest, parts, login, Login!login

\* Tokens are drawn one after the other: a session and a round trip are known by
\* one that was drawn.
Drawn ==
    /\ tokens \in Nat /\ DOMAIN away \subseteq 1..tokens /\ DOMAIN opened \subseteq 1..tokens
    /\ cookie = [b \in Browsers |-> cookie[b]] /\ trip = [b \in Browsers |-> trip[b]]
    /\ closed \subseteq DOMAIN away

\* The round trip whose cookies the browser b holds: b began it, and has no answer.
Awaited(b, tr, begun, cl) ==
    tr[b].token # 0 => tr[b].token \in DOMAIN begun \ cl /\ begun[tr[b].token] = b

\* The session b may come to hold, b opened.
Owns(b, session, given) ==
    session \notin {0, -1} => session \in DOMAIN given /\ given[session].browser = b

\* A load of a callback was accepted before its browser had an answer, in the
\* browser that began the round trip.
Accepted(load, begun, given) ==
    /\ load \in [browser : Browsers, trip : DOMAIN begun, session : Nat \cup {-1},
                 late : {FALSE}]
    /\ begun[load.trip] = load.browser /\ Owns(load.browser, load.session, given)

\* So was the load that opened a session.
Fair(n, begun, given) ==
    /\ ~given[n].late
    /\ given[n].trip # 0 =>
         given[n].trip \in DOMAIN begun /\ begun[given[n].trip] = given[n].browser

Owned ==
    /\ \A b \in Browsers : /\ cookie[b] \in Nat /\ Owns(b, cookie[b], opened)
                          /\ Awaited(b, trip, away, closed)
    /\ \A l \in DOMAIN loads : Accepted(loads[l], away, opened)
    /\ \A n \in DOMAIN opened : Fair(n, away, opened)

LEMMA InitDrawn ==
    ASSUME Login!Init
    PROVE  Drawn /\ Owned
  BY DEF Login!Init, Login!NoTrip, Drawn, Owned, Owns, Awaited

\* What is known of a browser, a load and a session is known as long as the
\* round trips and the sessions only grow.
Grown ==
    /\ DOMAIN away \subseteq DOMAIN away' /\ DOMAIN opened \subseteq DOMAIN opened'
    /\ \A n \in DOMAIN away : away'[n] = away[n]
    /\ \A n \in DOMAIN opened : opened'[n] = opened[n]

LEMMA GrownKeeps ==
    ASSUME Grown
    PROVE  /\ \A b, n : Owns(b, n, opened) => Owns(b, n, opened')
           /\ \A load : Accepted(load, away, opened) => Accepted(load, away', opened')
           /\ \A n \in DOMAIN opened : Fair(n, away, opened) => Fair(n, away', opened')
           /\ \A b : trip'[b] = trip[b] /\ closed' = closed /\ Awaited(b, trip, away, closed)
                     => Awaited(b, trip', away', closed')
<1>1. \A b, n : Owns(b, n, opened) => Owns(b, n, opened')
  BY DEF Grown, Owns
<1>2. ASSUME NEW load, Accepted(load, away, opened) PROVE Accepted(load, away', opened')
  <2>1. load.trip \in DOMAIN away /\ load.trip \in DOMAIN away'
    BY <1>2 DEF Accepted, Grown
  <2>2. away'[load.trip] = load.browser /\ Owns(load.browser, load.session, opened')
    BY <1>1, <1>2, <2>1 DEF Accepted, Grown
  <2>3. load \in [browser : Browsers, trip : DOMAIN away', session : Nat \cup {-1},
                  late : {FALSE}]
    BY <1>2 DEF Accepted, Grown
  <2> QED
    BY <2>2, <2>3 DEF Accepted
<1>3. ASSUME NEW n \in DOMAIN opened, Fair(n, away, opened) PROVE Fair(n, away', opened')
  BY <1>3 DEF Grown, Fair
<1>4. \A b : trip'[b] = trip[b] /\ closed' = closed /\ Awaited(b, trip, away, closed)
             => Awaited(b, trip', away', closed')
  BY DEF Grown, Awaited
<1> QED
  BY <1>1, <1>2, <1>3, <1>4

\* A session opens under a token nobody holds.
LEMMA SessionOpens ==
    ASSUME Drawn, UNCHANGED away, NEW b, NEW s, NEW late, Login!Create(b, s, late)
    PROVE  /\ tokens' = tokens + 1 /\ tokens' \in Nat \ {0, -1} /\ Grown
           /\ DOMAIN away \subseteq 1..tokens' /\ DOMAIN opened' \subseteq 1..tokens'
           /\ DOMAIN opened' = DOMAIN opened \cup {tokens'}
           /\ opened'[tokens'] = [browser |-> b, trip |-> s, late |-> late]
<1>1. /\ tokens' = tokens + 1 /\ tokens \in Nat
      /\ DOMAIN opened \subseteq 1..tokens /\ DOMAIN away \subseteq 1..tokens
      /\ opened' = Login!With(opened, tokens', [browser |-> b, trip |-> s, late |-> late])
  BY DEF Login!Create, Drawn
<1>2. /\ tokens' \in Nat \ {0, -1} /\ 1..tokens \subseteq 1..tokens'
      /\ tokens' \notin 1..tokens /\ tokens' \in 1..tokens'
  BY <1>1
<1>3. /\ DOMAIN opened' = DOMAIN opened \cup {tokens'}
      /\ opened'[tokens'] = [browser |-> b, trip |-> s, late |-> late]
      /\ \A m \in DOMAIN opened : opened'[m] = opened[m]
  BY <1>1, <1>2 DEF Login!With
<1> QED
  BY <1>1, <1>2, <1>3 DEF Grown

LEMMA NextDrawn ==
    ASSUME Drawn, Owned, [Login!Next]_(Login!login)
    PROVE  Drawn' /\ Owned'
<1>1. ASSUME UNCHANGED <<tokens, trip, away, closed, opened>>,
             cookie' = [b \in Browsers |-> cookie'[b]],
             \A b \in Browsers : cookie'[b] \in Nat /\ Owns(b, cookie'[b], opened),
             \A l \in DOMAIN loads' : Accepted(loads'[l], away, opened)
      PROVE  Drawn' /\ Owned'
  <2>1. Grown
    BY <1>1 DEF Grown
  <2>2. \A b \in Browsers : Owns(b, cookie'[b], opened') /\ Awaited(b, trip', away', closed')
    BY <1>1, <2>1, GrownKeeps DEF Owned
  <2>3. \A l \in DOMAIN loads' : Accepted(loads'[l], away', opened')
    BY <1>1, <2>1, GrownKeeps
  <2>4. \A n \in DOMAIN opened' : Fair(n, away', opened')
    BY <1>1, <2>1, GrownKeeps DEF Owned
  <2>5. Owned'
    BY <1>1, <2>2, <2>3, <2>4 DEF Owned
  <2> QED
    BY <1>1, <2>5 DEF Drawn
<1>2. ASSUME UNCHANGED <<tokens, cookie, trip, away, loads, closed, opened>>
      PROVE  Drawn' /\ Owned'
  BY <1>1, <1>2 DEF Drawn, Owned
<1>3. ASSUME NEW b \in Browsers, Login!HandleLogout(b) PROVE Drawn' /\ Owned'
  <2>1. cookie' = [cookie EXCEPT ![b] = 0]
        /\ UNCHANGED <<tokens, trip, away, loads, closed, opened>>
    BY <1>3 DEF Login!HandleLogout
  <2>2. /\ cookie' = [x \in Browsers |-> cookie'[x]]
        /\ \A x \in Browsers : cookie'[x] = 0 \/ cookie'[x] = cookie[x]
    BY <2>1 DEF Drawn
  <2>3. \A x \in Browsers : cookie'[x] \in Nat /\ Owns(x, cookie'[x], opened)
    BY <2>2 DEF Owned, Owns
  <2> QED
    BY <1>1, <2>1, <2>2, <2>3 DEF Owned
<1>4. ASSUME NEW b \in Browsers, Login!HandleLoginSubmit(b) PROVE Drawn' /\ Owned'
  <2>1. CASE /\ Login!Create(b, 0, FALSE) /\ cookie' = [cookie EXCEPT ![b] = tokens']
             /\ UNCHANGED <<trip, away, loads, closed>>
    <3>1. /\ tokens' \in Nat \ {0, -1} /\ Grown
          /\ DOMAIN away \subseteq 1..tokens' /\ DOMAIN opened' \subseteq 1..tokens'
          /\ DOMAIN opened' = DOMAIN opened \cup {tokens'}
          /\ opened'[tokens'] = [browser |-> b, trip |-> 0, late |-> FALSE]
      BY <2>1, SessionOpens
    <3>2. /\ cookie' = [x \in Browsers |-> cookie'[x]]
          /\ \A x \in Browsers : cookie'[x] = IF x = b THEN tokens' ELSE cookie[x]
      BY <2>1 DEF Drawn
    <3>3. Owns(b, tokens', opened') /\ Fair(tokens', away', opened')
      BY <3>1 DEF Owns, Fair
    <3>4. \A x \in Browsers : /\ cookie'[x] \in Nat /\ Owns(x, cookie'[x], opened')
                              /\ Awaited(x, trip', away', closed')
      BY <2>1, <3>1, <3>2, <3>3, GrownKeeps DEF Owned
    <3>5. \A n \in DOMAIN opened' : Fair(n, away', opened')
      BY <3>1, <3>3, GrownKeeps DEF Owned
    <3>6. \A l \in DOMAIN loads' : Accepted(loads'[l], away', opened')
      BY <2>1, <3>1, GrownKeeps DEF Owned
    <3>7. Owned'
      BY <3>4, <3>5, <3>6 DEF Owned
    <3> QED
      BY <2>1, <3>1, <3>2, <3>7 DEF Drawn
  <2>2. CASE UNCHANGED Login!login
    BY <1>2, <2>2 DEF Login!login
  <2> QED
    BY <1>4, <2>1, <2>2 DEF Login!HandleLoginSubmit
<1>5. ASSUME NEW b \in Browsers, Login!HandleOIDCStart(b) PROVE Drawn' /\ Owned'
  <2>1. /\ tokens' = tokens + 1 /\ away' = Login!With(away, tokens', b)
        /\ trip' = [trip EXCEPT ![b] = [token |-> tokens', expiry |-> time + TripTTL]]
        /\ UNCHANGED <<cookie, loads, closed, opened>> /\ tokens \in Nat
        /\ DOMAIN away \subseteq 1..tokens /\ DOMAIN opened \subseteq 1..tokens
    BY <1>5 DEF Login!HandleOIDCStart, Drawn
  <2>2. /\ tokens' \in Nat /\ 1..tokens \subseteq 1..tokens'
        /\ tokens' \notin 1..tokens /\ tokens' \in 1..tokens'
    BY <2>1
  <2>3. /\ DOMAIN away' = DOMAIN away \cup {tokens'} /\ away'[tokens'] = b
        /\ \A n \in DOMAIN away : away'[n] = away[n]
    BY <2>1, <2>2 DEF Login!With
  <2>4. Grown /\ tokens' \notin closed
    BY <2>1, <2>2, <2>3 DEF Grown, Drawn
  <2>5. /\ trip' = [x \in Browsers |-> trip'[x]]
        /\ \A x \in Browsers : IF x = b THEN trip'[x].token = tokens' ELSE trip'[x] = trip[x]
    BY <2>1 DEF Drawn
  <2>6. \A x \in Browsers : Awaited(x, trip', away', closed')
    <3>1. Awaited(b, trip', away', closed')
      BY <2>1, <2>3, <2>4, <2>5 DEF Awaited
    <3>2. \A x \in Browsers : x # b => Awaited(x, trip', away', closed')
      BY <2>1, <2>4, <2>5, GrownKeeps DEF Owned
    <3> QED
      BY <3>1, <3>2
  <2>7. \A x \in Browsers : cookie'[x] \in Nat /\ Owns(x, cookie'[x], opened')
    BY <2>1, <2>4, GrownKeeps DEF Owned
  <2>8. \A l \in DOMAIN loads' : Accepted(loads'[l], away', opened')
    BY <2>1, <2>4, GrownKeeps DEF Owned
  <2>9. \A n \in DOMAIN opened' : Fair(n, away', opened')
    BY <2>1, <2>4, GrownKeeps DEF Owned
  <2>10. Owned'
    BY <2>6, <2>7, <2>8, <2>9 DEF Owned
  <2>11. DOMAIN away' \subseteq 1..tokens' /\ DOMAIN opened' \subseteq 1..tokens'
         /\ closed' \subseteq DOMAIN away'
    BY <2>1, <2>2, <2>3 DEF Drawn
  <2> QED
    BY <2>1, <2>2, <2>5, <2>10, <2>11 DEF Drawn
<1>6. ASSUME NEW b \in Browsers, Login!HandleOIDCCallback(b) PROVE Drawn' /\ Owned'
  <2>0. PICK s \in DOMAIN away, k \in Slots \ DOMAIN loads :
          /\ IF trip[b].token = s /\ time <= trip[b].expiry
             THEN loads' = Login!With(loads, k, [browser |-> b, trip |-> s,
                             session |-> Login!Exchanging, late |-> s \in closed])
             ELSE UNCHANGED loads
          /\ UNCHANGED <<tokens, cookie, trip, away, closed, opened>>
    BY <1>6 DEF Login!HandleOIDCCallback
  <2>1. CASE UNCHANGED loads
    BY <1>2, <2>0, <2>1
  <2>2. CASE /\ trip[b].token = s
             /\ loads' = Login!With(loads, k, [browser |-> b, trip |-> s,
                           session |-> Login!Exchanging, late |-> s \in closed])
    <3> DEFINE load == [browser |-> b, trip |-> s, session |-> -1, late |-> FALSE]
    <3>1. s # 0 /\ s \in DOMAIN away
      BY <2>0 DEF Drawn
    <3>2. s \notin closed /\ away[s] = b
      BY <2>2, <3>1 DEF Owned, Awaited
    <3>3. (s \in closed) = FALSE
      BY <3>2
    <3>4. loads' = Login!With(loads, k, load)
      BY <2>2, <3>3 DEF Login!Exchanging
    <3>5. Accepted(load, away, opened)
      BY <3>1, <3>2 DEF Accepted, Owns
    <3> HIDE DEF load
    <3>6. \A l \in DOMAIN loads' : loads'[l] = load \/ (l \in DOMAIN loads /\ loads'[l] = loads[l])
      BY <3>4 DEF Login!With
    <3>7. \A l \in DOMAIN loads' : Accepted(loads'[l], away, opened)
      BY <3>5, <3>6 DEF Owned
    <3> QED
      BY <1>1, <2>0, <3>7 DEF Drawn, Owned
  <2> QED
    BY <2>0, <2>1, <2>2
<1>7. ASSUME NEW l \in DOMAIN loads, Login!Exchange(l) PROVE Drawn' /\ Owned'
  <2>0. /\ Accepted(loads[l], away, opened) /\ UNCHANGED <<cookie, trip, away, closed>>
        /\ loads[l] \in [browser : Browsers, trip : DOMAIN away, session : Nat \cup {-1},
                         late : {FALSE}]
    BY <1>7 DEF Login!Exchange, Owned, Accepted
  <2> DEFINE Given(n) == [loads[l] EXCEPT !.session = n]
  <2>1. \A n \in Nat : /\ Given(n) \in [browser : Browsers, trip : DOMAIN away,
                                        session : Nat \cup {-1}, late : {FALSE}]
                       /\ Given(n).browser = loads[l].browser
                       /\ Given(n).trip = loads[l].trip /\ Given(n).session = n
    BY <2>0
  <2> HIDE DEF Given
  <2>2. ASSUME NEW n \in Nat, loads' = Login!With(loads, l, Given(n))
        PROVE  \A x \in DOMAIN loads' :
                 loads'[x] = Given(n) \/ (x \in DOMAIN loads /\ loads'[x] = loads[x])
    BY <2>2 DEF Login!With
  <2>3. CASE /\ Login!Create(loads[l].browser, loads[l].trip, loads[l].late)
             /\ loads' = Login!With(loads, l, Given(tokens'))
    <3>1. /\ tokens' \in Nat \ {0, -1} /\ Grown
          /\ DOMAIN away \subseteq 1..tokens' /\ DOMAIN opened' \subseteq 1..tokens'
          /\ DOMAIN opened' = DOMAIN opened \cup {tokens'}
          /\ opened'[tokens'] = [browser |-> loads[l].browser, trip |-> loads[l].trip,
                                 late |-> loads[l].late]
      BY <2>0, <2>3, SessionOpens
    <3>2. Fair(tokens', away', opened') /\ Owns(loads[l].browser, tokens', opened')
      <4>1. /\ loads[l].late = FALSE /\ loads[l].trip \in DOMAIN away'
            /\ away'[loads[l].trip] = loads[l].browser
        BY <2>0 DEF Accepted
      <4>2. /\ opened'[tokens'].late = FALSE /\ opened'[tokens'].trip = loads[l].trip
            /\ opened'[tokens'].browser = loads[l].browser /\ tokens' \in DOMAIN opened'
        BY <3>1, <4>1
      <4> QED
        BY <4>1, <4>2 DEF Fair, Owns
    <3>3. Accepted(Given(tokens'), away', opened')
      BY <2>0, <2>1, <3>1, <3>2 DEF Accepted, Owns
    <3>4. \A x \in DOMAIN loads' : Accepted(loads'[x], away', opened')
      BY <2>2, <2>3, <3>1, <3>3, GrownKeeps DEF Owned
    <3>5. \A x \in Browsers : /\ cookie'[x] \in Nat /\ Owns(x, cookie'[x], opened')
                              /\ Awaited(x, trip', away', closed')
      BY <2>0, <3>1, GrownKeeps DEF Owned
    <3>6. \A n \in DOMAIN opened' : Fair(n, away', opened')
      BY <3>1, <3>2, GrownKeeps DEF Owned
    <3>7. Owned'
      BY <3>4, <3>5, <3>6 DEF Owned
    <3> QED
      BY <2>0, <3>1, <3>7 DEF Drawn
  <2>4. CASE loads' = Login!With(loads, l, Given(0)) /\ UNCHANGED <<tokens, opened>>
    <3>1. 0 \in Nat
      OBVIOUS
    <3>2. Accepted(Given(0), away, opened)
      BY <2>0, <2>1, <3>1 DEF Accepted, Owns
    <3>3. \A x \in DOMAIN loads' : Accepted(loads'[x], away, opened)
      BY <2>2, <2>4, <3>1, <3>2 DEF Owned
    <3> QED
      BY <1>1, <2>0, <2>4, <3>3 DEF Drawn, Owned
  <2> QED
    BY <1>7, <2>3, <2>4 DEF Login!Exchange, Given
<1>8. ASSUME NEW l \in DOMAIN loads, Login!Respond(l) PROVE Drawn' /\ Owned'
  <2> DEFINE load == loads[l]
             b == load.browser
  <2>0. /\ Accepted(load, away, opened) /\ load.session # -1 /\ loads' = Login!Without(loads, {l})
        /\ trip' = [trip EXCEPT ![b] = Login!NoTrip] /\ closed' = closed \cup {load.trip}
        /\ \/ load.session # 0 /\ cookie' = [cookie EXCEPT ![b] = load.session]
           \/ UNCHANGED cookie
        /\ UNCHANGED <<tokens, away, opened>>
    BY <1>8 DEF Login!Respond, Login!Cleared, Login!Exchanging, Owned
  <2>1. /\ b \in Browsers /\ load.trip \in DOMAIN away /\ away[load.trip] = b
        /\ load.session \in Nat \cup {-1} /\ Owns(b, load.session, opened)
    BY <2>0 DEF Accepted
  <2> HIDE DEF load
  <2> HIDE DEF b
  <2>2. Grown
    BY <2>0 DEF Grown
  <2>3. /\ trip' = [x \in Browsers |-> trip'[x]]
        /\ \A x \in Browsers : IF x = b THEN trip'[x].token = 0 ELSE trip'[x] = trip[x]
    BY <2>0 DEF Login!NoTrip, Drawn
  <2>4. ASSUME NEW x \in Browsers PROVE Awaited(x, trip', away', closed')
    <3>1. CASE x = b
      BY <2>3, <3>1 DEF Awaited
    <3>2. CASE x # b
      <4>1. trip'[x] = trip[x] /\ Awaited(x, trip, away, closed)
        BY <2>3, <3>2 DEF Owned
      <4>2. trip[x].token # load.trip \/ trip[x].token = 0
        BY <2>1, <3>2, <4>1 DEF Awaited
      <4> QED
        BY <2>0, <4>1, <4>2 DEF Awaited
    <3> QED
      BY <3>1, <3>2
  <2>5. /\ cookie' = [x \in Browsers |-> cookie'[x]]
        /\ \A x \in Browsers : \/ cookie'[x] = cookie[x]
                               \/ x = b /\ cookie'[x] = load.session
    BY <2>0 DEF Drawn
  <2>6. \A x \in Browsers : cookie'[x] \in Nat /\ Owns(x, cookie'[x], opened')
    BY <2>0, <2>1, <2>2, <2>5, GrownKeeps DEF Owned
  <2>7. \A x \in DOMAIN loads' : x \in DOMAIN loads /\ loads'[x] = loads[x]
    BY <2>0 DEF Login!Without
  <2>8. \A x \in DOMAIN loads' : Accepted(loads'[x], away', opened')
    BY <2>2, <2>7, GrownKeeps DEF Owned
  <2>9. \A n \in DOMAIN opened' : Fair(n, away', opened')
    BY <2>0, <2>2, GrownKeeps DEF Owned
  <2>10. Owned'
    BY <2>4, <2>6, <2>8, <2>9 DEF Owned
  <2>11. closed' \subseteq DOMAIN away'
    BY <2>0, <2>1 DEF Drawn
  <2> QED
    BY <2>0, <2>3, <2>5, <2>10, <2>11 DEF Drawn
<1>9. ASSUME NEW l \in DOMAIN loads, Login!Leave(l) PROVE Drawn' /\ Owned'
  <2>1. \A x \in DOMAIN loads' : x \in DOMAIN loads /\ loads'[x] = loads[x]
    BY <1>9 DEF Login!Leave, Login!Without
  <2>2. \A x \in DOMAIN loads' : Accepted(loads'[x], away, opened)
    BY <2>1 DEF Owned
  <2>3. UNCHANGED <<tokens, cookie, trip, away, closed, opened>>
    BY <1>9 DEF Login!Leave
  <2> QED
    BY <1>1, <2>2, <2>3 DEF Drawn, Owned
<1>10. ASSUME NEW b \in Browsers, Login!Authed(b) PROVE Drawn' /\ Owned'
  BY <1>2, <1>10 DEF Login!Authed
<1>11. CASE Login!Tick
  BY <1>2, <1>11 DEF Login!Tick
<1>12. CASE UNCHANGED Login!login
  BY <1>2, <1>12 DEF Login!login
<1> QED
  BY <1>3, <1>4, <1>5, <1>6, <1>7, <1>8, <1>9, <1>10, <1>11, <1>12 DEF Login!Next

\* A round trip to the provider opens no session once its browser had the answer to
\* a load of its callback, though loads overlap and responses are lost; its sessions
\* are in the browser that began it, and no two browsers share a session (the
\* callback and start of oidc.go, the sessionStore).
THEOREM TripsHold == SpecParts => []TripsClose
<1> DEFINE Inv == which = "login" => Drawn /\ Owned
<1>1. InitParts => Inv
  BY InitDrawn DEF InitParts
<1>2. Inv /\ [NextParts]_parts => Inv'
  BY LoginRuns, NextDrawn
<1>3. Inv => TripsClose
  <2> SUFFICES ASSUME Drawn, Owned PROVE Login!TripsClose
    BY DEF TripsClose
  <2>1. \A n \in DOMAIN opened : ~opened[n].late
    BY DEF Owned, Fair
  <2>2. \A b \in Browsers : cookie[b] \in Nat /\ Owns(b, cookie[b], opened)
    BY DEF Owned
  <2>3. \A b \in Browsers : cookie[b] # 0 =>
          cookie[b] \in DOMAIN opened /\ opened[cookie[b]].browser = b
    BY <2>2 DEF Owns
  <2>4. \A b \in Browsers : cookie[b] # 0 /\ opened[cookie[b]].trip # 0 =>
          away[opened[cookie[b]].trip] = b
    BY <2>3 DEF Owned, Fair
  <2> QED
    BY <2>1, <2>3, <2>4 DEF Login!TripsClose
<1> QED
  BY <1>1, <1>2, <1>3, PTL DEF SpecParts

-----------------------------------------------------------------------------
(* The scaleway plugin *)

LEMMA CockpitRuns ==
    ASSUME [NextParts]_parts, which' = "cockpit"
    PROVE  which = "cockpit" /\ [Cockpit!Next]_(Cockpit!cockpit)
  BY DEF NextParts, Runs, Rest, parts, cockpit, Cockpit!cockpit, Cockpit!logs,
         Cockpit!directory, Cockpit!history

\* The listing names containers that exist or existed, and each one whose name it
\* gave and that was not deleted since.
Listed ==
    /\ DOMAIN byID \subseteq existing \cup deleted /\ existing \cap deleted = {}
    /\ shipped = [i \in Cockpit!Lines |-> shipped[i]]
    /\ \A i \in Cockpit!Lines :
         (\E how \in shipped[i] : how.named) => Of[i] \in DOMAIN byID \cup deleted

\* What a refresh or a start puts in the place of the listing holds as much.
LEMMA ListingGrows ==
    ASSUME Listed, NEW answered, byID' = Cockpit!Refreshed(answered), existing' = existing,
           deleted' = deleted,
           \A i \in Cockpit!Lines :
             \A how \in shipped'[i] : how \in shipped[i] \/ how = Cockpit!Identify(Of[i]),
           shipped' = [i \in Cockpit!Lines |-> shipped'[i]]
    PROVE  Listed'
<1>1. DOMAIN byID' = existing /\ DOMAIN byID \subseteq existing \cup deleted
  BY DEF Cockpit!Refreshed, Listed
<1>2. \A i \in Cockpit!Lines : Cockpit!Identify(Of[i]).named => Of[i] \in DOMAIN byID
  BY DEF Cockpit!Identify
<1>3. \A i \in Cockpit!Lines :
          (\E how \in shipped'[i] : how.named) => Of[i] \in DOMAIN byID \cup deleted
  BY <1>2 DEF Listed
<1> QED
  BY <1>1, <1>3 DEF Listed, Cockpit!Lines

\* What a line gets by a step of the plugin is how the listing attributes it.
Attributed ==
    \A i \in Cockpit!Lines :
      \A how \in shipped'[i] : how \in shipped[i] \/ how = Cockpit!Identify(Of[i])

LEMMA NextListed ==
    ASSUME Listed, [Cockpit!Next]_(Cockpit!cockpit)
    PROVE  Listed' /\ Attributed
<1>1. CASE Cockpit!Store
  BY <1>1 DEF Cockpit!Store, Cockpit!history, Listed, Attributed, Cockpit!Lines
<1>2. CASE Cockpit!Delete
  <2>1. PICK c \in existing : existing' = existing \ {c} /\ deleted' = deleted \cup {c}
    BY <1>2 DEF Cockpit!Delete
  <2>2. UNCHANGED <<byID, shipped>>
    BY <1>2 DEF Cockpit!Delete, Cockpit!history
  <2> QED
    BY <2>1, <2>2 DEF Listed, Attributed, Cockpit!Lines
<1>3. CASE Cockpit!Start
  <2>1. PICK answered \in BOOLEAN : byID' = Cockpit!Refreshed(answered)
    BY <1>3 DEF Cockpit!Start
  <2>2. UNCHANGED <<existing, deleted, shipped>>
    BY <1>3 DEF Cockpit!Start
  <2>3. Attributed /\ shipped' = [i \in Cockpit!Lines |-> shipped'[i]]
    BY <2>2 DEF Listed, Attributed
  <2> QED
    BY <2>1, <2>2, <2>3, ListingGrows DEF Attributed
<1>4. CASE Cockpit!StreamLogs
  <2>1. /\ shipped' = [i \in Cockpit!Lines |->
                         IF i \in Cockpit!Fresh THEN shipped[i] \cup {Cockpit!Identify(Of[i])}
                         ELSE shipped[i]]
        /\ UNCHANGED <<byID, existing, deleted>>
    BY <1>4 DEF Cockpit!StreamLogs, Cockpit!directory
  <2>2. Attributed /\ shipped' = [i \in Cockpit!Lines |-> shipped'[i]]
    BY <2>1 DEF Attributed
  <2>3. \A i \in Cockpit!Lines : Cockpit!Identify(Of[i]).named => Of[i] \in DOMAIN byID
    BY DEF Cockpit!Identify
  <2> QED
    BY <2>1, <2>2, <2>3 DEF Listed, Attributed, Cockpit!Lines
<1>5. CASE Cockpit!EmitFails
  <2>1. PICK answered \in BOOLEAN : byID' = Cockpit!Refreshed(answered)
    BY <1>5 DEF Cockpit!EmitFails
  <2>2. PICK i \in Cockpit!Fresh :
          shipped' = [j \in Cockpit!Lines |->
            IF j \in {k \in Cockpit!Fresh : k < i} THEN shipped[j] \cup {Cockpit!Identify(Of[j])}
            ELSE shipped[j]]
    BY <1>5 DEF Cockpit!EmitFails
  <2>3. Attributed /\ shipped' = [j \in Cockpit!Lines |-> shipped'[j]]
    BY <2>2 DEF Attributed
  <2>4. UNCHANGED <<existing, deleted>>
    BY <1>5 DEF Cockpit!EmitFails
  <2> QED
    BY <2>1, <2>3, <2>4, ListingGrows DEF Attributed
<1>6. CASE Cockpit!Refresh
  <2>1. PICK answered \in BOOLEAN : byID' = Cockpit!Refreshed(answered)
    BY <1>6 DEF Cockpit!Refresh
  <2>2. UNCHANGED <<existing, deleted, shipped>>
    BY <1>6 DEF Cockpit!Refresh, Cockpit!history
  <2>3. Attributed /\ shipped' = [i \in Cockpit!Lines |-> shipped'[i]]
    BY <2>2 DEF Listed, Attributed
  <2> QED
    BY <2>1, <2>2, <2>3, ListingGrows DEF Attributed
<1>7. CASE Cockpit!RefreshFails
  BY <1>7 DEF Cockpit!RefreshFails, Cockpit!ListingOnFailure, Cockpit!history, Listed,
              Attributed, Cockpit!Lines
<1>8. CASE UNCHANGED Cockpit!cockpit
  BY <1>8 DEF Cockpit!cockpit, Cockpit!directory, Cockpit!history, Listed, Attributed,
              Cockpit!Lines
<1> QED
  BY <1>1, <1>2, <1>3, <1>4, <1>5, <1>6, <1>7, <1>8 DEF Cockpit!Next

\* Once a line of a container bore its name, each of its lines does for as long as
\* the account holds the container, whatever refreshes of the listing fail or
\* answer in part between them, and across the lives of the plugin (refresh and
\* identify of the scaleway directory).
THEOREM NamesHold == SpecParts => NamesStick
<1> DEFINE Inv == which = "cockpit" => Listed
<1>1. InitParts => Inv
  BY DEF InitParts, Cockpit!Init, Listed
<1>2. Inv /\ [NextParts]_parts => Inv'
  BY CockpitRuns, NextListed
<1>3. Inv /\ [NextParts]_parts => [which = "cockpit" => Cockpit!NameSticks]_parts
  <2> SUFFICES ASSUME Listed, Attributed
               PROVE  Cockpit!NameSticks
    BY CockpitRuns, NextListed, SamePart
  <2> SUFFICES ASSUME NEW i \in Cockpit!Lines, NEW j \in Cockpit!Lines, Of[i] = Of[j],
                      \E named \in shipped[i] : named.named, Of[j] \in existing,
                      NEW how \in shipped'[j] \ shipped[j]
               PROVE  how.named
    BY DEF Cockpit!NameSticks
  <2>1. Of[j] \in DOMAIN byID
    BY DEF Listed
  <2>2. how = Cockpit!Identify(Of[j])
    BY DEF Attributed
  <2> QED
    BY <2>1, <2>2 DEF Cockpit!Identify
<1> QED
  BY <1>1, <1>2, <1>3, PTL DEF SpecParts, NamesStick

\* The lines are in the order of time.
LEMMA InOrder ==
    ASSUME Cockpit!CockpitAssumption
    PROVE  /\ Cockpit!Lines = 1..Len(At) /\ Len(At) \in Nat
           /\ \A i \in Cockpit!Lines : At[i] \in Nat
           /\ \A i, j \in Cockpit!Lines : At[i] < At[j] => i < j
           /\ \A i, j \in Cockpit!Lines : i <= j => At[i] <= At[j]
           /\ Limit \in Nat \ {0} /\ Lookback \in Nat
<1>1. Cockpit!Lines = 1..Len(At) /\ Len(At) \in Nat /\ \A i \in Cockpit!Lines : At[i] \in Nat
  BY DEF Cockpit!CockpitAssumption, Cockpit!Lines
<1>2. \A i, j \in Cockpit!Lines : i <= j => At[i] <= At[j]
  BY DEF Cockpit!CockpitAssumption
<1>3. ASSUME NEW i \in Cockpit!Lines, NEW j \in Cockpit!Lines, At[i] < At[j] PROVE i < j
  <2>1. CASE j <= i
    <3>1. At[j] <= At[i] /\ At[i] \in Nat /\ At[j] \in Nat
      BY <1>1, <1>2, <2>1
    <3> QED
      BY <1>3, <3>1
  <2> QED
    BY <1>1, <2>1
<1> QED
  BY <1>1, <1>2, <1>3 DEF Cockpit!CockpitAssumption

\* The cursor is not ahead of the store.  The lines shipped in this life are up
\* to the cursor, those at it are remembered, and no line was shipped twice;
\* those before the cursor that the lookback covers were shipped, unless blank.
Polled ==
    /\ stored \in 0..Len(At) /\ cursor \in Nat /\ cursor <= Cockpit!Now
    /\ cLife \subseteq 1..stored /\ \A i \in cLife : At[i] <= cursor
    /\ atCursor = {i \in cLife : At[i] = cursor}
    /\ twice = {}
    /\ DOMAIN shipped = Cockpit!Lines /\ \A i \in cLife : shipped[i] # {}
    /\ \A i \in 1..stored :
         At[i] < cursor /\ i \notin Blank /\ At[i] > Cockpit!Now - Lookback => shipped[i] # {}

LEMMA InitPolled ==
    ASSUME Cockpit!CockpitAssumption, Cockpit!Init PROVE Polled
  BY InOrder DEF Cockpit!Init, Polled, Cockpit!Now

\* The lines from the cursor on, and the page of them.
Later == {i \in 1..stored : At[i] >= cursor}
LEMMA PageIs ==
    ASSUME Cockpit!CockpitAssumption, stored \in 0..Len(At), cursor \in Nat
    PROVE  /\ Cockpit!Page \subseteq Later
           /\ \A i \in Later, j \in Cockpit!Page : i <= j => i \in Cockpit!Page
           /\ \/ Cockpit!Page = Later
              \/ \E i \in Later : /\ i + Limit - 1 \in Later
                                  /\ i..(i + Limit - 1) = Cockpit!Page
<1> DEFINE upTo(i) == {j \in Later : j <= i}
<1>1. \A S : Cockpit!Cardinality(S) = Cardinality(S)
  BY Zenon DEF Cockpit!Cardinality, Cardinality
<1>2. Cockpit!Page = {i \in Later : Cardinality(upTo(i)) <= Limit}
  BY <1>1 DEF Cockpit!Page, Later
<1>3. /\ Later \subseteq 1..stored /\ 1..stored \subseteq Cockpit!Lines /\ stored \in Nat
      /\ Limit \in Nat \ {0}
      /\ \A i \in Later, j \in 1..stored : i <= j => j \in Later
  <2>1. \A i \in 1..stored : i \in Cockpit!Lines /\ At[i] \in Nat
    BY InOrder
  <2>2. \A i, j \in 1..stored : i <= j => At[i] <= At[j]
    BY <2>1, InOrder
  <2>3. ASSUME NEW i \in Later, NEW j \in 1..stored, i <= j PROVE j \in Later
    <3>1. At[i] <= At[j] /\ At[i] \in Nat /\ At[j] \in Nat /\ At[i] >= cursor
      BY <2>1, <2>2, <2>3 DEF Later
    <3> QED
      BY <3>1 DEF Later
  <2> QED
    BY <2>1, <2>3, InOrder DEF Later
<1> HIDE DEF Later
<1>4. \A i \in Later : IsFiniteSet(upTo(i)) /\ Cardinality(upTo(i)) \in Nat
  <2>1. IsFiniteSet(1..stored)
    BY <1>3, FS_Interval
  <2> QED
    BY <1>3, <2>1, FS_Subset, FS_CardinalityType
<1>5. ASSUME NEW i \in Later, NEW j \in Cockpit!Page, i <= j PROVE i \in Cockpit!Page
  <2>1. j \in Later /\ Cardinality(upTo(j)) <= Limit
    BY <1>2
  <2>2. upTo(i) \subseteq upTo(j)
    <3>1. ASSUME NEW k \in Later, k <= i PROVE k <= j
      <4>1. k \in Nat /\ i \in Nat /\ j \in Nat
        BY <1>3, <2>1
      <4> QED
        BY <1>5, <3>1, <4>1
    <3> QED
      BY <3>1
  <2> HIDE DEF upTo
  <2>3. Cardinality(upTo(i)) <= Cardinality(upTo(j))
    BY <1>4, <2>1, <2>2, FS_Subset
  <2>4. Cardinality(upTo(i)) \in Nat /\ Cardinality(upTo(j)) \in Nat
    BY <1>4, <2>1
  <2>5. Cardinality(upTo(i)) <= Limit
    BY <1>3, <2>1, <2>3, <2>4
  <2> QED
    BY <1>2, <2>5
<1>6. ASSUME Cockpit!Page # Later
      PROVE  \E i \in Later : i + Limit - 1 \in Later /\ i..(i + Limit - 1) = Cockpit!Page
  <2>1. Later \in SUBSET Nat /\ Later # {}
    BY <1>2, <1>3, <1>6
  <2>2. PICK a \in Later : \A i \in Later : a <= i
    BY <2>1, LeastOf
  <2>3. Later = a..stored /\ a \in 1..stored
    <3>1. a \in 1..stored /\ stored \in Nat /\ \A i \in Later : i \in 1..stored /\ a <= i
      BY <1>3, <2>2
    <3>2. \A i \in a..stored : i \in 1..stored /\ a <= i
      BY <3>1
    <3>3. \A i \in a..stored : i \in Later
      BY <1>3, <2>2, <3>2
    <3>4. \A i \in Later : i \in a..stored
      BY <3>1
    <3> QED
      BY <3>1, <3>3, <3>4
  <2>4. ASSUME NEW i \in Later PROVE Cardinality(upTo(i)) = i - a + 1
    <3>1. upTo(i) = a..i /\ i \in Nat /\ a \in Nat /\ a <= i
      BY <1>3, <2>3, <2>4
    <3> HIDE DEF upTo
    <3> QED
      BY <3>1, FS_Interval
  <2> HIDE DEF upTo
  <2>5. Cockpit!Page = {i \in a..stored : i - a + 1 <= Limit}
    BY <1>2, <2>3, <2>4
  <2>6. a + Limit - 1 <= stored
    BY <1>3, <1>6, <2>3, <2>5
  <2>7. a..(a + Limit - 1) = Cockpit!Page /\ a + Limit - 1 \in a..stored
    BY <1>3, <2>3, <2>5, <2>6
  <2> QED
    BY <2>3, <2>7
<1> QED
  BY <1>2, <1>5, <1>6

\* A set of positions that is not empty has a last one.
LEMMA LastIn ==
    ASSUME NEW n \in Nat, NEW S \in SUBSET (1..n), S # {}
    PROVE  \E m \in S : \A i \in S : i <= m
<1> DEFINE T == {k \in 0..n : \A i \in S : i <= k}
<1>1. T \in SUBSET Nat /\ n \in T
  OBVIOUS
<1> HIDE DEF T
<1>2. PICK k \in T : \A m \in T : k <= m
  BY <1>1, LeastOf
<1> USE DEF T
<1>3. CASE k \notin S
  <2>1. k \in 0..n /\ \A i \in S : i \in 1..n /\ i <= k /\ i # k
    <3>1. k \in T
      BY <1>2
    <3>2. k \in 0..n /\ \A i \in S : i <= k
      BY <3>1
    <3>3. \A i \in S : i # k
      BY <1>3
    <3> QED
      BY <3>2, <3>3
  <2> HIDE DEF T
  <2>2. k # 0 /\ k - 1 \in 0..n /\ \A i \in S : i <= k - 1
    <3>1. PICK x \in S : TRUE
      OBVIOUS
    <3>2. x \in 1..n /\ x <= k /\ k \in 0..n
      BY <2>1
    <3>3. k # 0 /\ k - 1 \in 0..n
      BY <3>2
    <3>4. ASSUME NEW i \in S PROVE i <= k - 1
      <4>1. i \in 1..n /\ i <= k /\ i # k
        BY <2>1
      <4> QED
        BY <3>2, <4>1
    <3> QED
      BY <3>3, <3>4
  <2>3. k - 1 \in T
    BY <2>2 DEF T
  <2>4. k - 1 >= k
    BY <1>2, <2>3
  <2> QED
    BY <2>1, <2>4
<1> QED
  BY <1>2, <1>3

\* The time the cursor moves to is that of the newest of the lines.
LEMMA NewestIs ==
    ASSUME Cockpit!CockpitAssumption, cursor \in Nat, stored \in 0..Len(At),
           NEW new \in SUBSET (1..stored)
    PROVE  /\ Cockpit!Newest(new) \in {At[i] : i \in new} \cup {cursor}
           /\ Cockpit!Newest(new) \in Nat /\ Cockpit!Newest(new) >= cursor
           /\ \A i \in new : At[i] <= Cockpit!Newest(new)
<1> DEFINE times == {At[i] : i \in new} \cup {cursor}
<1>1. \A i \in new : i \in Cockpit!Lines /\ At[i] \in Nat
  BY InOrder
<1>2. times \in SUBSET Nat /\ cursor \in times
  BY <1>1
<1>3. \E t \in times : \A u \in times : u <= t
  <2>1. CASE new = {}
    BY <2>1
  <2>2. CASE new # {}
    <3>1. PICK m \in new : \A i \in new : i <= m
      <4>1. stored \in Nat
        BY InOrder
      <4> QED
        BY <2>2, <4>1, LastIn
    <3>2. \A i \in new : At[i] <= At[m]
      BY <1>1, <3>1, InOrder
    <3>3. CASE At[m] >= cursor
      BY <1>1, <3>1, <3>2, <3>3
    <3>4. CASE ~(At[m] >= cursor)
      <4>1. \A i \in new : At[i] <= cursor
        BY <1>1, <3>1, <3>2, <3>4
      <4> QED
        BY <1>2, <4>1
    <3> QED
      BY <3>3, <3>4
  <2> QED
    BY <2>1, <2>2
<1>4. Cockpit!Newest(new) \in times /\ \A u \in times : u <= Cockpit!Newest(new)
  BY <1>3, Zenon DEF Cockpit!Newest
<1> QED
  BY <1>2, <1>4

\* A poll ships what the page adds, and the cursor follows.
LEMMA StreamLogsPolled ==
    ASSUME Cockpit!CockpitAssumption, Polled, Cockpit!StreamLogs
    PROVE  Polled'
<1> DEFINE new == Cockpit!Fresh
           t == Cockpit!Newest(new)
<1>1. /\ stored \in 0..Len(At) /\ stored' = stored /\ cursor \in Nat
      /\ new = {i \in Cockpit!Page : i \notin Blank /\ ~(At[i] = cursor /\ i \in atCursor)}
      /\ cursor' = t /\ cLife' = cLife \cup new /\ twice' = twice \cup (cLife \cap new)
      /\ atCursor' = IF t > cursor THEN {i \in new : At[i] = t}
                     ELSE atCursor \cup {i \in new : At[i] = t}
      /\ shipped' = [i \in Cockpit!Lines |->
                       IF i \in new THEN shipped[i] \cup {Cockpit!Identify(Of[i])}
                       ELSE shipped[i]]
  BY Zenon DEF Polled, Cockpit!StreamLogs, Cockpit!Advance, Cockpit!Fresh
<1>2. /\ Cockpit!Page \subseteq Later
      /\ \A i \in Later, j \in Cockpit!Page : i <= j => i \in Cockpit!Page
  BY <1>1, PageIs
<1> HIDE DEF new
<1>3. new \in SUBSET (1..stored) /\ \A i \in new : At[i] >= cursor
  BY <1>1, <1>2 DEF Later
<1>4. /\ t \in {At[i] : i \in new} \cup {cursor} /\ t \in Nat /\ t >= cursor
      /\ \A i \in new : At[i] <= t
  BY <1>1, <1>3, NewestIs
<1> HIDE DEF t
<1>5. \A i \in 1..stored : i \in Cockpit!Lines /\ At[i] \in Nat
  BY <1>1, InOrder
<1>6. /\ cLife \subseteq 1..stored /\ \A i \in cLife : At[i] <= cursor
      /\ atCursor = {i \in cLife : At[i] = cursor} /\ twice = {} /\ cursor <= Cockpit!Now
  BY DEF Polled
<1>7. twice' = {}
  <2>1. \A i \in new : i \notin cLife
    <3>1. SUFFICES ASSUME NEW i \in new, i \in cLife PROVE FALSE
      OBVIOUS
    <3>2. At[i] = cursor
      BY <1>1, <1>3, <1>5, <1>6, <3>1
    <3> QED
      BY <1>1, <1>6, <3>1, <3>2
  <2> QED
    BY <1>1, <1>6, <2>1
<1>8. atCursor' = {i \in cLife' : At[i] = cursor'}
  <2>1. CASE t > cursor
    <3>1. \A i \in cLife : At[i] # t
      BY <1>1, <1>4, <1>5, <1>6, <2>1
    <3> QED
      BY <1>1, <2>1, <3>1
  <2>2. CASE ~(t > cursor)
    <3>1. t = cursor
      BY <1>1, <1>4, <2>2
    <3> QED
      BY <1>1, <1>6, <2>2, <3>1
  <2> QED
    BY <2>1, <2>2
<1>9. cLife' \subseteq 1..stored /\ \A i \in cLife' : At[i] <= cursor'
  <2>1. \A i \in cLife : i \in 1..stored /\ At[i] <= t
    <3>1. \A i \in cLife : i \in 1..stored /\ At[i] \in Nat /\ At[i] <= cursor
      BY <1>5, <1>6
    <3> QED
      BY <1>1, <1>4, <3>1
  <2>2. \A i \in new : i \in 1..stored /\ At[i] <= t
    BY <1>3, <1>4
  <2> QED
    BY <1>1, <2>1, <2>2
<1>10. DOMAIN shipped' = Cockpit!Lines /\ \A i \in 1..stored :
         /\ i \in new => shipped'[i] # {}
         /\ shipped[i] # {} => shipped'[i] # {}
  <2>1. ASSUME NEW i \in 1..stored
        PROVE  (i \in new => shipped'[i] # {}) /\ (shipped[i] # {} => shipped'[i] # {})
    <3>1. i \in Cockpit!Lines
      BY <1>5
    <3> QED
      BY <1>1, <3>1
  <2> QED
    BY <1>1, <2>1
<1>11. \A i \in cLife' : shipped'[i] # {}
  BY <1>1, <1>3, <1>6, <1>10 DEF Polled
<1>12. Cockpit!Now' = Cockpit!Now /\ Cockpit!Now \in Nat
  BY <1>1, <1>5 DEF Cockpit!Now
<1>13. cursor' <= Cockpit!Now'
  <2>1. ASSUME NEW i \in new PROVE At[i] <= Cockpit!Now
    <3>1. i \in 1..stored /\ stored \in 1..stored /\ i <= stored /\ stored # 0
      BY <1>1, <1>3, <2>1
    <3>2. At[i] <= At[stored]
      BY <1>5, <3>1, InOrder
    <3> QED
      BY <3>1, <3>2 DEF Cockpit!Now
  <2> QED
    BY <1>1, <1>4, <1>6, <1>12, <2>1
<1>14. ASSUME NEW i \in 1..stored, At[i] < t, i \notin Blank, At[i] > Cockpit!Now - Lookback
       PROVE  shipped'[i] # {}
  <2>1. At[i] \in Nat
    BY <1>5
  <2>2. CASE At[i] < cursor
    BY <1>10, <1>14, <2>2 DEF Polled
  <2>3. CASE At[i] >= cursor
    <3>1. PICK j \in new : t = At[j]
      BY <1>1, <1>4, <1>14, <2>1, <2>3
    <3>2. j \in 1..stored /\ j \in Cockpit!Page
      BY <1>1, <1>3
    <3>3. i < j
      BY <1>5, <1>14, <3>1, <3>2, InOrder
    <3>4. i \in Cockpit!Page
      BY <1>1, <1>2, <2>3, <3>2, <3>3 DEF Later
    <3>5. CASE i \in new
      BY <1>10, <3>5
    <3>6. CASE i \in atCursor
      <4>1. i \in cLife
        BY <1>6, <3>6
      <4> QED
        BY <1>10, <4>1 DEF Polled
    <3> QED
      BY <1>1, <1>14, <3>4, <3>5, <3>6
  <2> QED
    BY <1>1, <2>1, <2>2, <2>3
<1> QED
  BY <1>1, <1>4, <1>7, <1>8, <1>9, <1>10, <1>11, <1>12, <1>13, <1>14 DEF Polled

\* A start looks back: what it covers is before no cursor.
LEMMA StartPolled ==
    ASSUME Cockpit!CockpitAssumption, Polled, stored' = stored,
           cursor' = Cockpit!Larger(Cockpit!Now - Lookback, 0), atCursor' = {}, cLife' = {},
           twice' = twice, DOMAIN shipped' = Cockpit!Lines
    PROVE  Polled'
<1>1. /\ Cockpit!Now' = Cockpit!Now /\ Cockpit!Now \in Nat /\ Lookback \in Nat
      /\ \A i \in 1..stored : At[i] \in Nat
  <2>1. \A i \in 1..stored : i \in Cockpit!Lines /\ At[i] \in Nat
    BY InOrder DEF Polled
  <2> QED
    BY <2>1, InOrder DEF Polled, Cockpit!Now
<1> DEFINE n == Cockpit!Now
<1>2. cursor' = IF n - Lookback > 0 THEN n - Lookback ELSE 0
  BY DEF Cockpit!Larger
<1>3. n \in Nat
  BY <1>1
<1> HIDE DEF n
<1>4. cursor' \in Nat /\ cursor' <= n /\ \A i \in 1..stored : At[i] < cursor' => ~(At[i] > n - Lookback)
  BY <1>1, <1>2, <1>3
<1> QED
  BY <1>1, <1>4 DEF Polled, n

LEMMA NextPolled ==
    ASSUME Cockpit!CockpitAssumption, Polled, [Cockpit!Next]_(Cockpit!cockpit)
    PROVE  Polled'
<1>1. CASE Cockpit!Store
  <2>1. /\ stored \in 0..Len(At) /\ stored < Len(At) /\ stored' = stored + 1 /\ cursor' = cursor
        /\ atCursor' = atCursor /\ cLife' = cLife /\ twice' = twice /\ shipped' = shipped
    BY <1>1 DEF Cockpit!Store, Cockpit!history, Polled
  <2>2. \A i \in 1..stored' : i \in Cockpit!Lines /\ At[i] \in Nat
    BY <2>1, InOrder
  <2> DEFINE n == Cockpit!Now
             m == Cockpit!Now'
  <2>3. n \in Nat /\ m \in Nat /\ n <= m /\ m = At[stored + 1]
    <3>1. m = At[stored + 1] /\ stored + 1 \in 1..stored'
      BY <2>1, InOrder DEF Cockpit!Now
    <3>2. CASE stored = 0
      BY <2>2, <3>1, <3>2 DEF Cockpit!Now
    <3>3. CASE stored # 0
      <4>1. n = At[stored] /\ stored \in 1..stored' /\ stored <= stored + 1
        BY <2>1, <3>3, InOrder DEF Cockpit!Now
      <4>2. At[stored] <= At[stored + 1]
        BY <2>2, <3>1, <4>1, InOrder
      <4> QED
        BY <2>2, <3>1, <4>1, <4>2
    <3> QED
      BY <3>2, <3>3
  <2>4. cursor \in Nat /\ cursor <= n
    BY DEF Polled
  <2> HIDE DEF n, m
  <2>5. stored' \in 0..Len(At) /\ cLife \subseteq 1..stored' /\ cursor <= m
    BY <2>1, <2>3, <2>4, InOrder DEF Polled
  <2>6. ASSUME NEW i \in 1..stored', At[i] < cursor, i \notin Blank, At[i] > m - Lookback
        PROVE  shipped[i] # {}
    <3>1. i # stored + 1 /\ At[i] \in Nat /\ Lookback \in Nat
      BY <2>2, <2>3, <2>5, <2>6, <2>4, InOrder
    <3>2. At[i] > n - Lookback
      BY <2>3, <2>6, <3>1
    <3>3. i \in 1..stored
      BY <2>1, <2>6, <3>1
    <3> QED
      BY <2>6, <3>2, <3>3 DEF Polled, n
  <2> QED
    BY <2>1, <2>5, <2>6 DEF Polled, m
<1>2. CASE Cockpit!Start
  BY <1>2, StartPolled DEF Cockpit!Start, Polled
<1>3. CASE Cockpit!EmitFails
  BY <1>3, StartPolled DEF Cockpit!EmitFails, Polled
<1>4. CASE Cockpit!StreamLogs
  BY <1>4, StreamLogsPolled
<1>5. CASE \/ Cockpit!Refresh \/ Cockpit!RefreshFails \/ Cockpit!Delete
           \/ UNCHANGED Cockpit!cockpit
  BY <1>5 DEF Cockpit!Refresh, Cockpit!RefreshFails, Cockpit!Delete, Cockpit!cockpit,
              Cockpit!logs, Cockpit!history, Polled, Cockpit!Now
<1> QED
  BY <1>1, <1>2, <1>3, <1>4, <1>5 DEF Cockpit!Next

\* No line is shipped twice in one life of the scaleway plugin; those before
\* the cursor that the lookback covers were shipped, and when a poll brings
\* nothing what it leaves is behind a full page of blank lines and of lines of the
\* instant of the cursor (Poll, advance, Start).
THEOREM PollsHold == SpecParts => []PollsMissNothing
<1> DEFINE IInv == which = "cockpit" => Polled
<1>1. Cockpit!CockpitAssumption
  BY PartsAssumption
<1>2. InitParts => IInv
  BY <1>1, InitPolled DEF InitParts
<1>3. IInv /\ [NextParts]_parts => IInv'
  <2>1. SUFFICES ASSUME IInv, [NextParts]_parts, which' = "cockpit" PROVE Polled'
    BY DEF Polled, Cockpit!Now
  <2>2. which = "cockpit" /\ [Cockpit!Next]_(Cockpit!cockpit)
    BY <2>1, CockpitRuns
  <2> QED
    BY <1>1, <2>1, <2>2, NextPolled
<1>4. IInv => PollsMissNothing
  <2>1. SUFFICES ASSUME Polled PROVE Cockpit!PollsMissNothing
    BY DEF PollsMissNothing
  <2>2. ASSUME Cockpit!Fresh = {}, NEW i \in 1..stored, At[i] >= cursor, i \notin Blank,
               i \notin cLife
        PROVE  \E ahead \in SUBSET (1 .. i - 1) :
                 /\ Cockpit!Cardinality(ahead) = Limit
                 /\ \A j \in ahead : \/ j \in Blank /\ At[j] >= cursor
                                     \/ j \in cLife /\ At[j] = cursor
    <3>1. stored \in 0..Len(At) /\ cursor \in Nat
      BY <2>1 DEF Polled
    <3>2. \A j \in Cockpit!Page : j \in Blank \/ (At[j] = cursor /\ j \in cLife)
      BY <2>1, <2>2 DEF Cockpit!Fresh, Polled
    <3>3. i \in Later /\ i \notin Cockpit!Page
      BY <2>2, <3>2 DEF Later
    <3>4. PICK a \in Later : /\ a + Limit - 1 \in Later
                             /\ a..(a + Limit - 1) = Cockpit!Page
      BY <1>1, <3>1, <3>3, PageIs
    <3>5. ASSUME NEW j \in Cockpit!Page
          PROVE  j \in 1 .. i - 1 /\ At[j] >= cursor
      <4>1. j \in Later /\ ~(i <= j)
        BY <1>1, <3>1, <3>3, PageIs
      <4>2. j \in 1..stored /\ i \in 1..stored /\ stored \in Nat /\ At[j] >= cursor
        BY <1>1, <3>1, <4>1, InOrder DEF Later
      <4> QED
        BY <4>1, <4>2
    <3>6. Cockpit!Cardinality(Cockpit!Page) = Limit
      <4>1. a \in Int /\ Limit \in Nat \ {0}
        BY <1>1, <3>1, <3>4, InOrder DEF Later
      <4>2. Cardinality(a..(a + Limit - 1)) = Limit
        <5> DEFINE b == a + Limit - 1
        <5>1. b \in Int /\ a <= b /\ b - a + 1 = Limit
          BY <4>1
        <5> HIDE DEF b
        <5>2. Cardinality(a..b) = IF a > b THEN 0 ELSE b - a + 1
          BY <4>1, <5>1, FS_Interval
        <5> QED
          BY <4>1, <5>1, <5>2 DEF b
      <4> QED
        BY <3>4, <4>2, Zenon DEF Cockpit!Cardinality, Cardinality
    <3>7. Cockpit!Page \in SUBSET (1 .. i - 1)
      BY <3>5
    <3>8. \A j \in Cockpit!Page : \/ j \in Blank /\ At[j] >= cursor
                                  \/ j \in cLife /\ At[j] = cursor
      BY <3>2, <3>5
    <3> QED
      BY <3>6, <3>7, <3>8, Zenon
  <2> QED
    BY <2>1, <2>2 DEF Polled, Cockpit!PollsMissNothing
<1> QED
  BY <1>2, <1>3, <1>4, PTL DEF SpecParts

-----------------------------------------------------------------------------
(* The plugins *)

LEMMA PluginsRuns ==
    ASSUME [NextParts]_parts, which' = "plugins"
    PROVE  which = "plugins" /\ [Plugins!Next]_(Plugins!plugins)
  BY DEF NextParts, Runs, Rest, parts, plugins, Plugins!plugins

\* What doubling gives: the waits of any number of restarts agree.
LEMMA Doubling ==
    ASSUME Plugins!PluginsAssumption, NEW k \in Nat
    PROVE  /\ Plugins!Doubled(k) \in Nat /\ Plugins!Doubled(0) = FirstRestart
           /\ Plugins!Doubled(k + 1) = 2 * Plugins!Doubled(k)
<1> DEFINE Doubles(f, n) ==
             f = [i \in 0..n |-> IF i = 0 THEN FirstRestart ELSE 2 * f[i - 1]]
           d(n) == CHOOSE f : Doubles(f, n)
<1>1. FirstRestart \in Nat
  BY DEF Plugins!PluginsAssumption
<1>2. ASSUME NEW n \in Nat
      PROVE  /\ Plugins!Doubled(n) = d(n)[n] /\ d(n)[0] = FirstRestart
             /\ \A i \in 0..n : d(n)[i] \in Nat
             /\ \A i \in 1..n : d(n)[i] = 2 * d(n)[i - 1]
  <2> DEFINE S == [i \in 0..n |-> Nat]
             D == [p \in Nat \X (1..n) |-> 2 * p[1]]
  <2>1. /\ FirstRestart \in S[0] /\ \A i \in 1..n : \A v \in S[i - 1] : D[<<v, i>>] \in S[i]
        /\ \A i \in 1..n : \A v \in Nat : D[<<v, i>>] = 2 * v
        /\ \A i \in 0..n : S[i] = Nat
    <3>1. \A i \in 1..n : i \in 0..n /\ i - 1 \in 0..n
      OBVIOUS
    <3>2. \A i \in 1..n : \A v \in Nat : D[<<v, i>>] = 2 * v /\ 2 * v \in Nat
      OBVIOUS
    <3>3. \A i \in 0..n : S[i] = Nat
      OBVIOUS
    <3>4. 0 \in 0..n
      OBVIOUS
    <3> HIDE DEF S, D
    <3> QED
      BY <1>1, <3>1, <3>2, <3>3, <3>4
  <2> HIDE DEF S, D
  <2>2. PICK f : Solves(f, n, FirstRestart, D) /\ \A i \in 0..n : f[i] \in S[i]
    BY <2>1, Recursion
  <2>3. \A i \in 0..n : f[i] \in Nat
    BY <2>1, <2>2
  <2>4. f = [i \in 0..n |-> IF i = 0 THEN FirstRestart ELSE D[<<f[i - 1], i>>]]
    BY <2>2 DEF Solves
  <2>5. \A i \in 0..n : i # 0 => D[<<f[i - 1], i>>] = 2 * f[i - 1]
    <3>1. \A i \in 0..n : i # 0 => i \in 1..n /\ i - 1 \in 0..n
      OBVIOUS
    <3> QED
      BY <2>1, <2>3, <3>1
  <2>6. f = [i \in 0..n |-> IF i = 0 THEN FirstRestart ELSE 2 * f[i - 1]]
    <3>1. \A i \in 0..n : (IF i = 0 THEN FirstRestart ELSE D[<<f[i - 1], i>>])
                          = IF i = 0 THEN FirstRestart ELSE 2 * f[i - 1]
      BY <2>5
    <3> QED
      BY <2>4, <3>1, Zenon
  <2>7. Doubles(d(n), n)
    BY <2>6, Zenon
  <2>8. Plugins!Doubled(n) = d(n)[n]
    BY Zenon DEF Plugins!Doubled
  <2> DEFINE g == d(n)
  <2>9. g = [i \in 0..n |-> IF i = 0 THEN FirstRestart ELSE 2 * g[i - 1]]
    BY <2>7
  <2> HIDE DEF d, g
  <2>10. /\ g[0] = FirstRestart
         /\ \A i \in 1..n : g[i] = 2 * g[i - 1]
    BY <2>9
  <2>11. \A i \in 0..n : g[i] \in Nat
    <3> DEFINE T == {i \in 0..n : g[i] \in Nat}
    <3>1. 0 \in T
      BY <1>1, <2>10
    <3>2. ASSUME NEW i \in 1..n, i - 1 \in T PROVE i \in T
      BY <2>10, <3>2
    <3>3. 0..n \subseteq T
      <4> HIDE DEF T
      <4> QED
        BY <3>1, <3>2, Induction
    <3> QED
      BY <3>3
  <2> QED
    BY <2>8, <2>10, <2>11 DEF g
<1> HIDE DEF d
<1>3. d(0)[0] = FirstRestart /\ 0 \in Nat /\ k + 1 \in Nat /\ k \in 0..k
  BY <1>2
<1>4. \A i \in 0..k : d(k + 1)[i] = d(k)[i]
  <2> DEFINE T == {i \in 0..k : d(k + 1)[i] = d(k)[i]}
  <2>1. 0 \in T
    BY <1>2, <1>3
  <2>2. ASSUME NEW i \in 1..k, i - 1 \in T PROVE i \in T
    <3>1. i \in 1..(k + 1) /\ i \in 0..k
      OBVIOUS
    <3>2. d(k + 1)[i] = 2 * d(k + 1)[i - 1] /\ d(k)[i] = 2 * d(k)[i - 1]
      BY <1>2, <1>3, <3>1
    <3> QED
      BY <2>2, <3>1, <3>2
  <2>3. 0..k \subseteq T
    <3> HIDE DEF T
    <3> QED
      BY <2>1, <2>2, Induction
  <2> QED
    BY <2>3
<1>5. d(k + 1)[k + 1] = 2 * d(k + 1)[k]
  <2>1. k + 1 \in 1..(k + 1) /\ (k + 1) - 1 = k
    OBVIOUS
  <2>2. \A i \in 1..(k + 1) : d(k + 1)[i] = 2 * d(k + 1)[i - 1]
    BY <1>2, <1>3
  <2>3. d(k + 1)[k + 1] = 2 * d(k + 1)[(k + 1) - 1]
    BY <2>1, <2>2
  <2> QED
    BY <2>1, <2>3
<1>6. d(k)[k] \in Nat /\ d(k + 1)[k] = d(k)[k]
  BY <1>2, <1>3, <1>4
<1>7. /\ Plugins!Doubled(k) = d(k)[k] /\ Plugins!Doubled(0) = d(0)[0]
      /\ Plugins!Doubled(k + 1) = d(k + 1)[k + 1]
  BY <1>2, <1>3
<1> QED
  BY <1>3, <1>5, <1>6, <1>7

\* The wait that must follow the k-th of the starts that came in a row.
Pause(k) ==
    IF Plugins!Doubled(k) < LongestRestart THEN Plugins!Doubled(k) ELSE LongestRestart
Longer(b) == IF 2 * b < LongestRestart THEN 2 * b ELSE LongestRestart

Sleeper(p, t, b) == [at |-> "asleep", start |-> p.start, wake |-> t + b, backoff |-> Longer(b)]

LEMMA PausesGrow ==
    ASSUME Plugins!PluginsAssumption, NEW k \in Nat
    PROVE  /\ Pause(k) \in Nat /\ Pause(0) = FirstRestart
           /\ \A b \in Nat : b >= Pause(k) => Longer(b) >= Pause(k + 1)
           /\ \A b \in Nat : b >= Pause(0) => Longer(b) >= Pause(0)
           /\ \A b \in Nat : Longer(b) \in Nat
<1> DEFINE a == Plugins!Doubled(k)
           c == Plugins!Doubled(k + 1)
           z == Plugins!Doubled(0)
<1>1. a \in Nat /\ z = FirstRestart /\ c = 2 * a
  BY Doubling
<1>2. FirstRestart \in Nat /\ LongestRestart \in Nat /\ FirstRestart <= LongestRestart
  BY DEF Plugins!PluginsAssumption
<1> HIDE DEF a, c, z
<1>3. /\ Pause(k) = IF a < LongestRestart THEN a ELSE LongestRestart
      /\ Pause(k + 1) = IF c < LongestRestart THEN c ELSE LongestRestart
      /\ Pause(0) = IF z < LongestRestart THEN z ELSE LongestRestart
  BY DEF Pause, a, c, z
<1>4. Pause(0) = FirstRestart /\ Pause(k) \in Nat
  BY <1>1, <1>2, <1>3
<1>5. \A b \in Nat : b >= Pause(k) => Longer(b) >= Pause(k + 1)
  BY <1>1, <1>2, <1>3 DEF Longer
<1>6. \A b \in Nat : b >= Pause(0) => Longer(b) >= Pause(0)
  BY <1>2, <1>4 DEF Longer
<1>7. \A b \in Nat : Longer(b) \in Nat
  BY <1>2 DEF Longer
<1> QED
  BY <1>4, <1>5, <1>6, <1>7

\* A plugin started n times in a row backs off by what its n-th restart asks;
\* one that runs was started last, one that sleeps wakes after its pause.
Paused(times) == \A k \in 2..Len(times) : times[k] - times[k - 1] >= Pause(k - 2)
Backs(p, times, t) ==
    /\ p = [at |-> p.at, start |-> p.start, wake |-> p.wake, backoff |-> p.backoff]
    /\ p.start \in Nat /\ p.wake \in Nat /\ p.backoff \in Nat
    /\ times \in Seq(0..t) /\ Paused(times)
    /\ p.at = "asleep" =>
         /\ p.backoff >= Pause(Len(times))
         /\ Len(times) > 0 => p.wake - times[Len(times)] >= Pause(Len(times) - 1)
    /\ p.at = "running" =>
         /\ Len(times) > 0 /\ p.start = times[Len(times)]
         /\ p.backoff >= Pause(Len(times) - 1)

\* What is installed was checked first.
Checked ==
    \/ install = Plugins!NoInstall
    \/ /\ install = [step |-> install.step, asset |-> install.asset,
                     intact |-> install.intact, sums |-> install.sums]
       /\ install.step # "downloaded" => Plugins!Verified(install)

Kept ==
    /\ pClock \in Nat /\ Checked
    /\ process = [n \in Supervised |-> process[n]] /\ pStarts = [n \in Supervised |-> pStarts[n]]
    /\ \A n \in Supervised : Backs(process[n], pStarts[n], pClock)

LEMMA InitKept ==
    ASSUME Plugins!PluginsAssumption, Plugins!Init
    PROVE  Kept
<1>1. /\ pClock = 0 /\ install = Plugins!NoInstall
      /\ process = [n \in Supervised |->
            [at |-> "asleep", start |-> 0, wake |-> 0, backoff |-> FirstRestart]]
      /\ pStarts = [n \in Supervised |-> <<>>]
  BY DEF Plugins!Init
<1>2. FirstRestart \in Nat /\ Pause(0) = FirstRestart
  <2>1. 0 \in Nat
    OBVIOUS
  <2> QED
    BY <2>1, PausesGrow DEF Plugins!PluginsAssumption
<1>3. Len(<<>>) = 0 /\ <<>> \in Seq(0..0) /\ Paused(<<>>)
  BY DEF Paused
<1>4. Backs([at |-> "asleep", start |-> 0, wake |-> 0, backoff |-> FirstRestart], <<>>, 0)
  <2> DEFINE p == [at |-> "asleep", start |-> 0, wake |-> 0, backoff |-> FirstRestart]
  <2>1. p.at = "asleep" /\ p.start = 0 /\ p.wake = 0 /\ p.backoff = FirstRestart
    OBVIOUS
  <2>2. p = [at |-> p.at, start |-> p.start, wake |-> p.wake, backoff |-> p.backoff]
    OBVIOUS
  <2> HIDE DEF p
  <2>3. Backs(p, <<>>, 0)
    BY <1>2, <1>3, <2>1, <2>2 DEF Backs
  <2> QED
    BY <2>3 DEF p
<1>5. process = [n \in Supervised |-> process[n]] /\ pStarts = [n \in Supervised |-> pStarts[n]]
  BY <1>1
<1>6. \A n \in Supervised : Backs(process[n], pStarts[n], pClock)
  BY <1>1, <1>4
<1> QED
  BY <1>1, <1>5, <1>6 DEF Kept, Checked

\* The clock may only add to what is known of a plugin.
LEMMA BacksLater ==
    ASSUME NEW t \in Nat, NEW p, NEW times, Backs(p, times, t)
    PROVE  Backs(p, times, t + 1)
<1>1. 0..t \subseteq 0..(t + 1)
  OBVIOUS
<1>2. times \in Seq(0..(t + 1))
  BY <1>1 DEF Backs
<1> QED
  BY <1>2 DEF Backs

LEMMA AppendedTo ==
    ASSUME NEW t \in Nat, NEW times \in Seq(0..t)
    PROVE  LET longer == Append(times, t) IN
           /\ longer \in Seq(0..t) /\ Len(longer) = Len(times) + 1 /\ Len(times) \in Nat
           /\ longer[Len(longer)] = t
           /\ \A i \in 1..Len(times) : longer[i] = times[i] /\ times[i] \in 0..t
<1>1. t \in 0..t
  OBVIOUS
<1> QED
  BY <1>1

\* A start that comes after the pause.
LEMMA StartedAfter ==
    ASSUME Plugins!PluginsAssumption, NEW t \in Nat, NEW p, NEW times, Backs(p, times, t),
           p.at = "asleep", t >= p.wake
    PROVE  LET longer == Append(times, t) IN
           /\ longer \in Seq(0..t) /\ Paused(longer) /\ Len(longer) = Len(times) + 1
           /\ longer[Len(longer)] = t /\ Len(times) \in Nat
<1> DEFINE longer == Append(times, t)
           n == Len(times)
<1>1. /\ longer \in Seq(0..t) /\ Len(longer) = n + 1 /\ n \in Nat /\ longer[n + 1] = t
      /\ \A i \in 1..n : longer[i] = times[i] /\ times[i] \in 0..t
  BY AppendedTo DEF Backs
<1>2. ASSUME NEW k \in 2..Len(longer) PROVE longer[k] - longer[k - 1] >= Pause(k - 2)
  <2>1. CASE k \in 2..n
    <3>1. k \in 1..n /\ k - 1 \in 1..n
      BY <1>1, <2>1
    <3>2. times[k] - times[k - 1] >= Pause(k - 2)
      BY <2>1 DEF Backs, Paused
    <3> QED
      BY <1>1, <3>1, <3>2
  <2>2. CASE k = n + 1
    <3>1. n \in 1..n /\ k - 1 = n /\ k - 2 = n - 1 /\ n > 0 /\ n - 1 \in Nat
      BY <1>1, <2>2
    <3>2. p.wake - times[n] >= Pause(n - 1) /\ p.wake \in Nat
      BY <3>1 DEF Backs
    <3>3. Pause(n - 1) \in Nat
      BY <3>1, PausesGrow
    <3>4. longer[k] = t /\ longer[k - 1] = times[n] /\ times[n] \in 0..t
      BY <1>1, <2>2, <3>1
    <3> DEFINE q == Pause(n - 1)
               w == times[n]
               v == p.wake
    <3>5. q \in Nat /\ w \in Nat /\ v \in Nat /\ v - w >= q /\ t >= v
      BY <3>2, <3>3, <3>4
    <3>6. t - w >= q
      <4> HIDE DEF q, w, v
      <4> QED
        BY <3>5
    <3> QED
      BY <3>1, <3>4, <3>6
  <2> QED
    BY <1>1, <2>1, <2>2
<1> HIDE DEF longer
<1>3. Paused(longer)
  BY <1>2 DEF Paused
<1> QED
  BY <1>1, <1>3 DEF longer

LEMMA RecordOf ==
    ASSUME NEW p, NEW place, NEW start,
           p = [at |-> p.at, start |-> p.start, wake |-> p.wake, backoff |-> p.backoff]
    PROVE  /\ [p EXCEPT !.start = start]
                = [at |-> p.at, start |-> start, wake |-> p.wake, backoff |-> p.backoff]
           /\ [p EXCEPT !.at = place]
                = [at |-> place, start |-> p.start, wake |-> p.wake, backoff |-> p.backoff]
  OBVIOUS

\* The four ways a plugin goes on.
LEMMA GoesOn ==
    ASSUME Plugins!PluginsAssumption, NEW t \in Nat, NEW p, NEW times, Backs(p, times, t)
    PROVE  /\ p.at = "asleep" /\ t >= p.wake =>
                LET s == [p EXCEPT !.start = t] IN
                /\ Backs([s EXCEPT !.at = "running"], Append(times, t), t)
                /\ Backs(Sleeper(s, t, s.backoff), Append(times, t), t)
           /\ p.at = "running" =>
                /\ Backs(Sleeper(p, t, p.backoff), times, t)
                /\ Backs(Sleeper(p, t, FirstRestart), <<>>, t)
           /\ Backs([p EXCEPT !.at = "returned"], times, t)
<1> DEFINE n == Len(times)
           b == p.backoff
<1>1. /\ p = [at |-> p.at, start |-> p.start, wake |-> p.wake, backoff |-> p.backoff]
      /\ p.start \in Nat /\ p.wake \in Nat /\ b \in Nat
      /\ times \in Seq(0..t) /\ Paused(times) /\ n \in Nat
  BY DEF Backs
<1>2. /\ Longer(b) \in Nat /\ t + b \in Nat /\ Longer(FirstRestart) \in Nat
      /\ t + FirstRestart \in Nat /\ FirstRestart \in Nat /\ Pause(0) = FirstRestart
  <2>1. 0 \in Nat /\ FirstRestart \in Nat
    BY DEF Plugins!PluginsAssumption
  <2>2. Pause(0) = FirstRestart /\ \A m \in Nat : Longer(m) \in Nat
    BY <2>1, PausesGrow
  <2> QED
    BY <1>1, <2>1, <2>2
<1>3. ASSUME p.at = "asleep", t >= p.wake
      PROVE  LET s == [p EXCEPT !.start = t] IN
             /\ Backs([s EXCEPT !.at = "running"], Append(times, t), t)
             /\ Backs(Sleeper(s, t, s.backoff), Append(times, t), t)
  <2> DEFINE longer == Append(times, t)
             s == [p EXCEPT !.start = t]
             r == [s EXCEPT !.at = "running"]
             a == Sleeper(s, t, s.backoff)
  <2>1. /\ longer \in Seq(0..t) /\ Paused(longer) /\ Len(longer) = n + 1
        /\ longer[n + 1] = t
    BY <1>3, StartedAfter
  <2>2. b >= Pause(n) /\ Pause(n) \in Nat /\ Longer(b) >= Pause(n + 1)
    BY <1>1, <1>3, PausesGrow DEF Backs
  <2>3. /\ r = [at |-> "running", start |-> t, wake |-> p.wake, backoff |-> b]
        /\ a = [at |-> "asleep", start |-> t, wake |-> t + b, backoff |-> Longer(b)]
    <3>1. s = [at |-> p.at, start |-> t, wake |-> p.wake, backoff |-> b]
      BY <1>1, RecordOf
    <3>2. s.start = t /\ s.wake = p.wake /\ s.backoff = b
      BY <3>1
    <3>3. s = [at |-> s.at, start |-> s.start, wake |-> s.wake, backoff |-> s.backoff]
      BY <3>1, <3>2
    <3> HIDE DEF s, b
    <3>4. r = [at |-> "running", start |-> s.start, wake |-> s.wake, backoff |-> s.backoff]
      BY <3>3, RecordOf
    <3>5. a = [at |-> "asleep", start |-> s.start, wake |-> t + s.backoff,
               backoff |-> Longer(s.backoff)]
      BY Zenon DEF Sleeper
    <3> QED
      BY <3>2, <3>4, <3>5
  <2>4. (n + 1) - 1 = n /\ n + 1 > 0 /\ (t + b) - t >= Pause(n)
    BY <1>1, <2>2
  <2> HIDE DEF longer, n, b, r, a
  <2>5. Backs(r, longer, t)
    BY <1>1, <2>1, <2>2, <2>3, <2>4 DEF Backs
  <2>6. Backs(a, longer, t)
    BY <1>2, <2>1, <2>2, <2>3, <2>4 DEF Backs
  <2> QED
    BY <2>5, <2>6 DEF longer, r, a
<1>4. ASSUME p.at = "running"
      PROVE  /\ Backs(Sleeper(p, t, p.backoff), times, t)
             /\ Backs(Sleeper(p, t, FirstRestart), <<>>, t)
  <2> DEFINE a == Sleeper(p, t, p.backoff)
             c == Sleeper(p, t, FirstRestart)
  <2>1. /\ a = [at |-> "asleep", start |-> p.start, wake |-> t + b, backoff |-> Longer(b)]
        /\ c = [at |-> "asleep", start |-> p.start, wake |-> t + FirstRestart,
                backoff |-> Longer(FirstRestart)]
    BY Zenon DEF Sleeper
  <2>2. n > 0 /\ p.start = times[n] /\ b >= Pause(n - 1) /\ n - 1 \in Nat /\ (n - 1) + 1 = n
        /\ times[n] \in 0..t
    BY <1>1, <1>4 DEF Backs
  <2>3. Longer(b) >= Pause(n) /\ Pause(n - 1) \in Nat
    <3> DEFINE k == n - 1
    <3>1. k \in Nat /\ k + 1 = n /\ b >= Pause(k)
      BY <2>2
    <3> HIDE DEF k, n, b
    <3>2. Longer(b) >= Pause(k + 1) /\ Pause(k) \in Nat
      BY <1>1, <3>1, PausesGrow
    <3> QED
      BY <3>1, <3>2 DEF k
  <2>4. (t + b) - times[n] >= Pause(n - 1)
    <3> DEFINE q == Pause(n - 1)
               w == times[n]
    <3>1. q \in Nat /\ w \in 0..t /\ b >= q
      BY <2>2, <2>3
    <3> HIDE DEF q, w, b
    <3>2. (t + b) - w >= q
      BY <1>1, <3>1
    <3> QED
      BY <3>2 DEF q, w
  <2>5. Len(<<>>) = 0 /\ <<>> \in Seq(0..t) /\ Paused(<<>>)
    BY DEF Paused
  <2>6. Longer(FirstRestart) >= Pause(0)
    <3>1. \A m \in Nat : m >= Pause(0) => Longer(m) >= Pause(0)
      BY <1>1, PausesGrow
    <3>2. FirstRestart >= Pause(0)
      BY <1>2
    <3> QED
      BY <1>2, <3>1, <3>2
  <2> HIDE DEF n, b, a, c
  <2>7. Backs(a, times, t)
    BY <1>1, <1>2, <2>1, <2>3, <2>4 DEF Backs, n
  <2>8. Backs(c, <<>>, t)
    BY <1>1, <1>2, <2>1, <2>5, <2>6 DEF Backs
  <2> QED
    BY <2>7, <2>8 DEF a, c
<1>5. Backs([p EXCEPT !.at = "returned"], times, t)
  <2> DEFINE c == [p EXCEPT !.at = "returned"]
  <2>1. c = [at |-> "returned", start |-> p.start, wake |-> p.wake, backoff |-> b]
    BY <1>1, RecordOf, Zenon
  <2> HIDE DEF n, b, c
  <2>2. Backs(c, times, t)
    BY <1>1, <2>1 DEF Backs
  <2> QED
    BY <2>2 DEF c
<1> QED
  BY <1>3, <1>4, <1>5

\* A step of one plugin, the others as they were.
LEMMA OneGoesOn ==
    ASSUME Plugins!PluginsAssumption, Kept, NEW n \in Supervised, NEW p, NEW times,
           process' = [process EXCEPT ![n] = p],
           pStarts' = pStarts \/ pStarts' = [pStarts EXCEPT ![n] = times],
           pStarts' = pStarts => times = pStarts[n],
           Backs(p, times, pClock), pClock' = pClock, install' = install
    PROVE  Kept'
<1>1. /\ process = [m \in Supervised |-> process[m]]
      /\ pStarts = [m \in Supervised |-> pStarts[m]]
      /\ \A m \in Supervised : Backs(process[m], pStarts[m], pClock)
  BY DEF Kept
<1>2. /\ process' = [m \in Supervised |-> process'[m]]
      /\ \A m \in Supervised : process'[m] = IF m = n THEN p ELSE process[m]
  BY <1>1
<1>3. /\ pStarts' = [m \in Supervised |-> pStarts'[m]]
      /\ \A m \in Supervised : pStarts'[m] = IF m = n THEN times ELSE pStarts[m]
  <2>1. CASE pStarts' = pStarts
    BY <1>1, <2>1
  <2>2. CASE pStarts' = [pStarts EXCEPT ![n] = times]
    BY <1>1, <2>2
  <2> QED
    BY <2>1, <2>2
<1>4. \A m \in Supervised : Backs(process'[m], pStarts'[m], pClock')
  <2>1. ASSUME NEW m \in Supervised PROVE Backs(process'[m], pStarts'[m], pClock)
    <3>1. CASE m = n
      BY <1>2, <1>3, <3>1
    <3>2. CASE m # n
      BY <1>1, <1>2, <1>3, <3>2
    <3> QED
      BY <3>1, <3>2
  <2> QED
    BY <2>1
<1>5. pClock' \in Nat /\ Checked'
  BY DEF Kept, Checked, Plugins!Verified
<1> QED
  BY <1>2, <1>3, <1>4, <1>5 DEF Kept

\* What Asleep makes of a plugin.
LEMMA Sleeps ==
    ASSUME NEW n, NEW p, Plugins!Asleep(n, p)
    PROVE  /\ pClock - p.start > LongestRestart =>
                process' = [process EXCEPT ![n] =
                    Sleeper(p, pClock, FirstRestart)]
           /\ ~(pClock - p.start > LongestRestart) =>
                process' = [process EXCEPT ![n] =
                    Sleeper(p, pClock, p.backoff)]
  BY DEF Plugins!Asleep, Plugins!Set, Plugins!Lasted, Sleeper, Longer

LEMMA StartKeeps ==
    ASSUME Plugins!PluginsAssumption, Kept, NEW n \in Supervised, Plugins!Start(n)
    PROVE  Kept'
<1> DEFINE p == process[n]
           times == pStarts[n]
           s == [p EXCEPT !.start = pClock]
<1>1. /\ p.at = "asleep" /\ pClock >= p.wake /\ Backs(p, times, pClock) /\ pClock \in Nat
      /\ pStarts' = [pStarts EXCEPT ![n] = Append(@, pClock)]
      /\ process' = [process EXCEPT ![n] = [s EXCEPT !.at = "running"]] \/ Plugins!Asleep(n, s)
      /\ install' = install /\ pClock' = pClock
  BY DEF Plugins!Start, Plugins!Due, Plugins!Set, Plugins!InstallSame, Kept
<1>2. pStarts' = [pStarts EXCEPT ![n] = Append(times, pClock)]
  BY <1>1
<1>3. ~(pClock - s.start > LongestRestart)
  <2>1. s.start = pClock
    BY <1>1, RecordOf DEF Backs
  <2>2. LongestRestart \in Nat
    BY DEF Plugins!PluginsAssumption
  <2> HIDE DEF s
  <2> QED
    BY <1>1, <2>1, <2>2
<1>4. pStarts' = pStarts => Append(times, pClock) = pStarts[n]
  <2>1. pStarts = [m \in Supervised |-> pStarts[m]]
    BY DEF Kept
  <2>2. [pStarts EXCEPT ![n] = Append(times, pClock)][n] = Append(times, pClock)
    BY <2>1
  <2> QED
    BY <1>2, <2>2, Zenon
<1> DEFINE r == [s EXCEPT !.at = "running"]
           a == Sleeper(s, pClock, s.backoff)
<1>5. Backs(r, Append(times, pClock), pClock) /\ Backs(a, Append(times, pClock), pClock)
  BY <1>1, GoesOn
<1>6. process' = [process EXCEPT ![n] = r] \/ process' = [process EXCEPT ![n] = a]
  <2>1. CASE process' = [process EXCEPT ![n] = r]
    BY <2>1
  <2>2. CASE Plugins!Asleep(n, s)
    <3> HIDE DEF s
    <3> QED
      BY <1>3, <2>2, Sleeps
  <2> QED
    BY <1>1, <2>1, <2>2
<1> HIDE DEF r, a, times
<1> QED
  BY <1>1, <1>2, <1>4, <1>5, <1>6, OneGoesOn

LEMMA StreamEndsKeeps ==
    ASSUME Plugins!PluginsAssumption, Kept, NEW n \in Supervised, Plugins!StreamEnds(n)
    PROVE  Kept'
<1> DEFINE p == process[n]
           times == pStarts[n]
           a == Sleeper(p, pClock, p.backoff)
           c == Sleeper(p, pClock, FirstRestart)
<1>1. /\ p.at = "running" /\ Plugins!Asleep(n, p)
      /\ pStarts' = [pStarts EXCEPT ![n] =
                        IF pClock - p.start > LongestRestart THEN <<>> ELSE @]
      /\ install' = install /\ pClock' = pClock
  BY DEF Plugins!StreamEnds, Plugins!InstallSame
<1>2. pClock \in Nat /\ Backs(p, times, pClock) /\ pStarts = [m \in Supervised |-> pStarts[m]]
  BY DEF Kept
<1>3. Backs(a, times, pClock) /\ Backs(c, <<>>, pClock)
  BY <1>1, <1>2, GoesOn
<1>4. CASE pClock - p.start > LongestRestart
  <2>1. process' = [process EXCEPT ![n] = c]
    BY <1>1, <1>4, Sleeps
  <2>2. pStarts' = [pStarts EXCEPT ![n] = <<>>]
    BY <1>1, <1>4
  <2>3. pStarts' = pStarts => <<>> = pStarts[n]
    <3>1. [pStarts EXCEPT ![n] = <<>>][n] = <<>>
      BY <1>2
    <3> QED
      BY <2>2, <3>1, Zenon
  <2> HIDE DEF c
  <2> QED
    BY <1>1, <1>3, <2>1, <2>2, <2>3, OneGoesOn
<1>5. CASE ~(pClock - p.start > LongestRestart)
  <2>1. process' = [process EXCEPT ![n] = a]
    BY <1>1, <1>5, Sleeps
  <2>2. pStarts' = [pStarts EXCEPT ![n] = times]
    BY <1>1, <1>5
  <2>3. pStarts' = pStarts
    BY <1>2, <2>2
  <2> HIDE DEF a
  <2> QED
    BY <1>1, <1>3, <2>1, <2>3, OneGoesOn
<1> QED
  BY <1>4, <1>5

LEMMA CancelKeeps ==
    ASSUME Plugins!PluginsAssumption, Kept, NEW n \in Supervised, Plugins!Cancel(n)
    PROVE  Kept'
<1> DEFINE p == process[n]
           c == [p EXCEPT !.at = "returned"]
<1>1. /\ process' = [process EXCEPT ![n] = c] /\ pStarts' = pStarts
      /\ install' = install /\ pClock' = pClock
  BY DEF Plugins!Cancel, Plugins!Set, Plugins!InstallSame
<1>2. pClock \in Nat /\ Backs(p, pStarts[n], pClock)
  BY DEF Kept
<1>3. Backs(c, pStarts[n], pClock)
  BY <1>2, GoesOn
<1> HIDE DEF c
<1> QED
  BY <1>1, <1>3, OneGoesOn

\* The installation: what is written was verified.
LEMMA InstallKeeps ==
    ASSUME Kept, \/ Plugins!Resolve \/ Plugins!Verify \/ Plugins!Write
                 \/ Plugins!Written \/ Plugins!Remove
    PROVE  Checked'
<1> DEFINE Whole(i) ==
             i = [step |-> i.step, asset |-> i.asset, intact |-> i.intact, sums |-> i.sums]
<1>1. Checked
  BY DEF Kept
<1>2. ASSUME NEW step, Whole(install)
      PROVE  LET i == [install EXCEPT !.step = step] IN
             Whole(i) /\ i.step = step /\ (Plugins!Verified(i) <=> Plugins!Verified(install))
  <2> DEFINE i == [install EXCEPT !.step = step]
             q == [step |-> install.step, asset |-> install.asset,
                   intact |-> install.intact, sums |-> install.sums]
  <2>1. [q EXCEPT !.step = step] = [step |-> step, asset |-> install.asset,
                                    intact |-> install.intact, sums |-> install.sums]
    OBVIOUS
  <2>2. install = q
    BY <1>2
  <2> HIDE DEF q
  <2>3. i = [step |-> step, asset |-> install.asset, intact |-> install.intact,
             sums |-> install.sums]
    BY <2>1, <2>2, Zenon
  <2> HIDE DEF i
  <2>4. /\ i.step = step /\ i.asset = install.asset /\ i.intact = install.intact
        /\ i.sums = install.sums
    BY <2>3
  <2>5. Whole(i)
    BY <2>3, <2>4
  <2> QED
    BY <2>4, <2>5, Zenon DEF Plugins!Verified, i
<1>3. CASE Plugins!Resolve
  <2>1. PICK a, b, s : install' = [step |-> "downloaded", asset |-> a, intact |-> b, sums |-> s]
    BY <1>3 DEF Plugins!Resolve
  <2>2. Whole(install') /\ install'.step = "downloaded"
    BY <2>1
  <2> QED
    BY <2>2 DEF Checked
<1>4. CASE Plugins!Verify
  <2>1. \/ install' = Plugins!NoInstall
        \/ install' = [install EXCEPT !.step = "verified"] /\ Plugins!Verified(install)
    BY <1>4 DEF Plugins!Verify
  <2>2. install.step = "downloaded" /\ Plugins!NoInstall.step = "none"
    BY <1>4 DEF Plugins!Verify, Plugins!NoInstall
  <2>3. Whole(install)
    BY <1>1, <2>2 DEF Checked
  <2>4. CASE install' = Plugins!NoInstall
    BY <2>4 DEF Checked, Plugins!NoInstall
  <2>5. CASE install' = [install EXCEPT !.step = "verified"] /\ Plugins!Verified(install)
    <3>1. Whole(install') /\ Plugins!Verified(install')
      BY <1>2, <2>3, <2>5
    <3> QED
      BY <3>1 DEF Checked, Plugins!Verified
  <2> QED
    BY <2>1, <2>4, <2>5
<1>5. CASE Plugins!Write
  <2>1. install' = Plugins!NoInstall \/ install' = [install EXCEPT !.step = "writing"]
    BY <1>5 DEF Plugins!Write
  <2>2. install.step = "verified" /\ Plugins!NoInstall.step = "none"
    BY <1>5 DEF Plugins!Write, Plugins!NoInstall
  <2>3. Whole(install) /\ Plugins!Verified(install)
    BY <1>1, <2>2 DEF Checked
  <2>4. CASE install' = Plugins!NoInstall
    BY <2>4 DEF Checked, Plugins!NoInstall
  <2>5. CASE install' = [install EXCEPT !.step = "writing"]
    <3>1. Whole(install') /\ Plugins!Verified(install')
      BY <1>2, <2>3, <2>5
    <3> QED
      BY <3>1 DEF Checked, Plugins!Verified
  <2> QED
    BY <2>1, <2>4, <2>5
<1>6. CASE Plugins!Written
  BY <1>6 DEF Plugins!Written, Checked, Plugins!NoInstall
<1>7. CASE Plugins!Remove
  BY <1>1, <1>7 DEF Plugins!Remove, Checked, Plugins!Verified
<1> QED
  BY <1>3, <1>4, <1>5, <1>6, <1>7

LEMMA NextKept ==
    ASSUME Plugins!PluginsAssumption, Kept, [Plugins!Next]_(Plugins!plugins)
    PROVE  Kept'
<1>1. ASSUME Checked', UNCHANGED <<pClock, process, pStarts>> PROVE Kept'
  BY <1>1 DEF Kept
<1>2. CASE \/ Plugins!Resolve \/ Plugins!Verify \/ Plugins!Write \/ Plugins!Written
           \/ Plugins!Remove
  <2>1. UNCHANGED <<pClock, process, pStarts>>
    BY <1>2 DEF Plugins!Resolve, Plugins!Verify, Plugins!Write, Plugins!Written,
                Plugins!Remove, Plugins!ProcessSame
  <2>2. Checked'
    BY <1>2, InstallKeeps
  <2> QED
    BY <1>1, <2>1, <2>2
<1>3. CASE Plugins!Tick
  <2>1. pClock' = pClock + 1 /\ UNCHANGED <<process, pStarts, install>>
    BY <1>3 DEF Plugins!Tick, Plugins!InstallSame
  <2>2. Checked'
    BY <2>1 DEF Kept, Checked, Plugins!Verified
  <2>3. /\ pClock' \in Nat
        /\ \A n \in Supervised : Backs(process'[n], pStarts'[n], pClock')
    BY <2>1, BacksLater DEF Kept
  <2> QED
    BY <2>1, <2>2, <2>3 DEF Kept
<1>4. ASSUME NEW n \in Supervised,
             Plugins!Start(n) \/ Plugins!StreamEnds(n) \/ Plugins!Cancel(n)
      PROVE  Kept'
  BY <1>4, StartKeeps, StreamEndsKeeps, CancelKeeps
<1>5. CASE UNCHANGED Plugins!plugins
  <2>1. UNCHANGED <<pClock, process, pStarts, install>>
    BY <1>5 DEF Plugins!plugins
  <2>2. Checked'
    BY <2>1 DEF Kept, Checked, Plugins!Verified
  <2> QED
    BY <1>1, <2>1, <2>2
<1> QED
  BY <1>2, <1>3, <1>4, <1>5 DEF Plugins!Next

\* For any plugins, releases and backoff, whatever fails, is installed or
\* removed: a plugin that keeps failing waits twice as long each time, up to
\* the longest wait, and what is written whole was verified.
THEOREM PluginsHold == SpecParts => []PluginsAreKept
<1> DEFINE IInv == which = "plugins" => Kept
<1>1. Plugins!PluginsAssumption
  BY PartsAssumption
<1>2. InitParts => IInv
  BY <1>1, InitKept DEF InitParts
<1>3. IInv /\ [NextParts]_parts => IInv'
  <2>1. SUFFICES ASSUME IInv, [NextParts]_parts, which' = "plugins" PROVE Kept'
    BY DEF Kept, Checked, Backs
  <2>2. which = "plugins" /\ [Plugins!Next]_(Plugins!plugins)
    BY <2>1, PluginsRuns
  <2> QED
    BY <1>1, <2>1, <2>2, NextKept
<1>4. IInv => PluginsAreKept
  <2>1. SUFFICES ASSUME Kept PROVE Plugins!PluginsAreKept
    BY DEF PluginsAreKept
  <2>2. Plugins!RestartsSpaced
    <3>1. \A n \in Supervised : Paused(pStarts[n])
      BY <2>1 DEF Kept, Backs
    <3> QED
      BY <3>1, Zenon DEF Paused, Pause, Plugins!RestartsSpaced, Plugins!Spaced
  <2>3. Plugins!NothingDamagedInstalled
    BY <2>1 DEF Kept, Checked, Plugins!NothingDamagedInstalled, Plugins!Verified,
                Plugins!NoInstall
  <2> QED
    BY <2>2, <2>3 DEF Plugins!PluginsAreKept
<1> QED
  BY <1>2, <1>3, <1>4, PTL DEF SpecParts

-----------------------------------------------------------------------------
(* The operator *)

LEMMA OperatorRuns ==
    ASSUME [NextParts]_parts, which' = "operator"
    PROVE  which = "operator" /\ [Operator!Next]_(Operator!operator)
  BY DEF NextParts, Runs, Rest, parts, operator, Operator!operator

\* A state of the three stores, and the markings in it.
Filed(m) == m = [k \in Operator!Marked |-> m[k]]
Stored(s) ==
    /\ s = [drain |-> [learnt |-> s.drain.learnt],
            log |-> [learnt |-> s.log.learnt, marks |-> s.log.marks],
            metric |-> [learnt |-> s.metric.learnt, slashed |-> s.metric.slashed,
                        ignored |-> s.metric.ignored]]
    /\ Filed(s.log.marks)
Given(s) == [marks |-> s.log.marks, ignored |-> s.metric.ignored]
Worded(d) == d = [marks |-> d.marks, ignored |-> d.ignored] /\ Filed(d.marks)

\* The markings in force under the decisions d, and what the markings of a snapshot
\* come to under those of the configuration.
Wanted(d, f) ==
    [k \in Operator!Marked |-> IF d.marks[k] # "" \/ k \in f THEN d.marks[k]
                               ELSE Configured[k]]
Over(m) == [k \in Operator!Marked |-> IF m[k] # "" THEN m[k] ELSE Configured[k]]

\* Two states that learned the same.
SameLearnt(s, r) ==
    /\ r.drain.learnt = s.drain.learnt /\ r.log.learnt = s.log.learnt
    /\ r.metric.learnt = s.metric.learnt

\* The stores an operation has before it, from the first, the second, the last.
FromDrain == <<"drain", "log", "metric">>
FromLog == <<"log", "metric">>
FromMetric == <<"metric">>

LEMMA StoresLeft ==
    /\ Head(FromDrain) = "drain" /\ Tail(FromDrain) = FromLog /\ Len(FromDrain) = 3
    /\ Head(FromLog) = "log" /\ Tail(FromLog) = FromMetric /\ Len(FromLog) = 2
    /\ Head(FromMetric) = "metric" /\ Tail(FromMetric) = <<>> /\ Len(FromMetric) = 1
    /\ FromDrain # <<>> /\ FromLog # <<>> /\ FromMetric # <<>>
    /\ FromDrain # FromLog /\ FromLog # FromMetric /\ FromDrain # FromMetric
  BY DEF FromDrain, FromLog, FromMetric

\* What the server applies, or will when it starts, is what was decided, and
\* what it learned comes from the lines that were read.
Serves ==
    /\ oLines \in Nat /\ flight \subseteq 1..oLines
    /\ Stored(live) /\ Stored(oDisk)
    /\ Operator!Learnt(live) \subseteq 1..oLines /\ Operator!Learnt(oDisk) \subseteq 1..oLines
    /\ Worded(decided)
    /\ up => Given(live) = [marks |-> Wanted(decided, fresh), ignored |-> decided.ignored]
    /\ ~up => /\ flight = {} /\ forgetting = <<>> /\ fresh = {}
             /\ Over(oDisk.log.marks) = Wanted(decided, {})
             /\ oDisk.metric.ignored = decided.ignored

\* The stores already visited hold nothing of what is to be dropped, nor will
\* the line that is between the miner and the detector.
Forgets ==
    /\ forgetting \in {<<>>, FromDrain, FromLog, FromMetric}
    /\ forgetting # <<>> => doomed \subseteq 1..oLines /\ doomed \cap flight = {}
    /\ forgetting \in {FromLog, FromMetric} => doomed \cap live.drain.learnt = {}
    /\ forgetting = FromMetric => doomed \cap live.log.learnt = {}
    /\ cut \subseteq 1..oLines /\ cut \cap flight = {}
    /\ cut \cap Operator!Learnt(IF up THEN live ELSE oDisk) = {}

\* The command on a stopped server has the markings of the disk, and the stores
\* already saved are empty.
Offline ==
    cli # Operator!NoCLI =>
      /\ ~up /\ cli = [left |-> cli.left, doomed |-> cli.doomed, state |-> cli.state]
      /\ cli.left \in {FromDrain, FromLog, FromMetric} /\ cli.doomed \subseteq 1..oLines
      /\ Stored(cli.state) /\ cli.state.log.marks = Wanted(decided, {})
      /\ cli.state.metric.ignored = decided.ignored /\ Operator!Learnt(cli.state) = {}
      /\ cli.left \in {FromLog, FromMetric} => oDisk.drain.learnt = {}
      /\ cli.left = FromMetric => oDisk.log.learnt = {}

Governed == Serves /\ Forgets /\ Offline

\* One store learns something else, or is replaced as a whole: the others stay.
DrainLearns(s, learnt, r) == r = [s EXCEPT !.drain.learnt = learnt]
LogLearns(s, learnt, r) == r = [s EXCEPT !.log.learnt = learnt]
MetricLearns(s, learnt, r) == r = [s EXCEPT !.metric.learnt = learnt]
Replaced(s, v, k, r) == r = [s EXCEPT ![k] = v[k]]

LEMMA DrainLearning ==
    ASSUME NEW s, Stored(s), NEW learnt, NEW r, DrainLearns(s, learnt, r)
    PROVE  /\ Stored(r) /\ Given(r) = Given(s) /\ r.drain.learnt = learnt
           /\ r.log = s.log /\ r.metric = s.metric
  BY DEF Stored, Given, DrainLearns

LEMMA LogLearning ==
    ASSUME NEW s, Stored(s), NEW learnt, NEW r, LogLearns(s, learnt, r)
    PROVE  /\ Stored(r) /\ Given(r) = Given(s) /\ r.log.learnt = learnt
           /\ r.drain = s.drain /\ r.metric = s.metric
  BY DEF Stored, Given, LogLearns

LEMMA MetricLearning ==
    ASSUME NEW s, Stored(s), NEW learnt, NEW r, MetricLearns(s, learnt, r)
    PROVE  /\ Stored(r) /\ Given(r) = Given(s) /\ r.metric.learnt = learnt
           /\ r.drain = s.drain /\ r.log = s.log
  BY DEF Stored, Given, MetricLearns

LEMMA MetricSlashing ==
    ASSUME NEW s, Stored(s), NEW slashed, NEW r, r = [s EXCEPT !.metric.slashed = slashed]
    PROVE  /\ Stored(r) /\ Given(r) = Given(s) /\ r.metric.learnt = s.metric.learnt
           /\ r.drain = s.drain /\ r.log = s.log
  BY DEF Stored, Given

LEMMA StoreReplaced ==
    ASSUME NEW s, Stored(s), NEW v, Stored(v), NEW k \in {"drain", "log", "metric"},
           NEW r, Replaced(s, v, k, r)
    PROVE  /\ Stored(r) /\ r[k] = v[k]
           /\ \A j \in {"drain", "log", "metric"} : j # k => r[j] = s[j]
<1>1. PICK d, l, x, m, z, i :
        s = [drain |-> [learnt |-> d], log |-> [learnt |-> l, marks |-> x],
             metric |-> [learnt |-> m, slashed |-> z, ignored |-> i]]
  BY DEF Stored
<1>2. PICK vd, vl, vx, vm, vz, vi :
        v = [drain |-> [learnt |-> vd], log |-> [learnt |-> vl, marks |-> vx],
             metric |-> [learnt |-> vm, slashed |-> vz, ignored |-> vi]]
  BY DEF Stored
<1>3. CASE k = "drain"
  <2>1. r = [s EXCEPT !["drain"] = v["drain"]]
    BY <1>3, Zenon DEF Replaced
  <2>2. v["drain"] = [learnt |-> vd]
    BY <1>2
  <2>3. r = [drain |-> [learnt |-> vd], log |-> [learnt |-> l, marks |-> x],
        metric |-> [learnt |-> m, slashed |-> z, ignored |-> i]]
    BY <1>1, <2>1, <2>2
  <2>4. Stored(r)
    <3>1. /\ r.drain.learnt = vd /\ r.log.learnt = l /\ r.log.marks = x
          /\ r.metric.learnt = m /\ r.metric.slashed = z /\ r.metric.ignored = i
      BY <2>3
    <3>2. Filed(r.log.marks)
      BY <1>1, <1>2, <3>1 DEF Stored
    <3> QED
      BY <2>3, <3>1, <3>2, Zenon DEF Stored
  <2> QED
    BY <1>1, <1>3, <2>2, <2>3, <2>4
<1>4. CASE k = "log"
  <2>1. r = [s EXCEPT !["log"] = v["log"]]
    BY <1>4, Zenon DEF Replaced
  <2>2. v["log"] = [learnt |-> vl, marks |-> vx]
    BY <1>2
  <2>3. r = [drain |-> [learnt |-> d], log |-> [learnt |-> vl, marks |-> vx],
        metric |-> [learnt |-> m, slashed |-> z, ignored |-> i]]
    BY <1>1, <2>1, <2>2
  <2>4. Stored(r)
    <3>1. /\ r.drain.learnt = d /\ r.log.learnt = vl /\ r.log.marks = vx
          /\ r.metric.learnt = m /\ r.metric.slashed = z /\ r.metric.ignored = i
      BY <2>3
    <3>2. Filed(r.log.marks)
      BY <1>1, <1>2, <3>1 DEF Stored
    <3> QED
      BY <2>3, <3>1, <3>2, Zenon DEF Stored
  <2> QED
    BY <1>1, <1>4, <2>2, <2>3, <2>4
<1>5. CASE k = "metric"
  <2>1. r = [s EXCEPT !["metric"] = v["metric"]]
    BY <1>5, Zenon DEF Replaced
  <2>2. v["metric"] = [learnt |-> vm, slashed |-> vz, ignored |-> vi]
    BY <1>2
  <2>3. r = [drain |-> [learnt |-> d], log |-> [learnt |-> l, marks |-> x],
        metric |-> [learnt |-> vm, slashed |-> vz, ignored |-> vi]]
    BY <1>1, <2>1, <2>2
  <2>4. Stored(r)
    <3>1. /\ r.drain.learnt = d /\ r.log.learnt = l /\ r.log.marks = x
          /\ r.metric.learnt = vm /\ r.metric.slashed = vz /\ r.metric.ignored = vi
      BY <2>3
    <3>2. Filed(r.log.marks)
      BY <1>1, <1>2, <3>1 DEF Stored
    <3> QED
      BY <2>3, <3>1, <3>2, Zenon DEF Stored
  <2> QED
    BY <1>1, <1>5, <2>2, <2>3, <2>4
<1> QED
  BY <1>3, <1>4, <1>5

\* Restoring merges what is marked, and leaves the rest.
LEMMA Merging ==
    ASSUME NEW s, Stored(s)
    PROVE  /\ Stored(Operator!Merged(s)) /\ SameLearnt(s, Operator!Merged(s))
           /\ Operator!Merged(s).log.marks = Over(s.log.marks)
           /\ Operator!Merged(s).metric = s.metric
           /\ Operator!Learnt(Operator!Merged(s)) = Operator!Learnt(s)
<1> DEFINE over == Over(s.log.marks)
           r == [s EXCEPT !.log.marks = over]
<1>1. Operator!Merged(s) = r
  BY DEF Operator!Merged, Over
<1>2. Filed(over)
  BY DEF Filed, Over
<1> HIDE DEF over
<1>3. /\ Stored(r) /\ SameLearnt(s, r) /\ r.log.marks = over /\ r.metric = s.metric
  BY <1>2 DEF Stored, SameLearnt
<1>4. Operator!Learnt(r) = Operator!Learnt(s)
  BY <1>3 DEF SameLearnt, Operator!Learnt
<1> QED
  BY <1>1, <1>3, <1>4 DEF over

\* Merging again changes nothing, nor what is wanted once nothing is fresh.
LEMMA OverAgain ==
    /\ \A m : Over(Over(m)) = Over(m)
    /\ \A d, f : Over(Wanted(d, f)) = Wanted(d, {})
  BY DEF Over, Wanted

\* One marking of the log changes as it is ordered.
LEMMA OneMarked ==
    ASSUME NEW s, Stored(s), NEW d, Worded(d), NEW f, NEW k, NEW m,
           s.log.marks = Wanted(d, f)
    PROVE  LET r == Operator!MarkTemplate(s, k, m)
               w == [d EXCEPT !.marks[k] = m] IN
           /\ Stored(r) /\ SameLearnt(s, r) /\ r.metric = s.metric
           /\ Worded(w) /\ w.ignored = d.ignored /\ r.log.marks = Wanted(w, f \cup {k})
           /\ Over(r.log.marks) = Wanted(w, {})
<1> DEFINE r == Operator!MarkTemplate(s, k, m)
           w == [d EXCEPT !.marks[k] = m]
           newMarks == [s.log.marks EXCEPT ![k] = m]
           newWord == [d.marks EXCEPT ![k] = m]
<1>1. /\ Filed(newMarks) /\ Filed(newWord)
      /\ \A j \in Operator!Marked : /\ newMarks[j] = IF j = k THEN m ELSE s.log.marks[j]
                                    /\ newWord[j] = IF j = k THEN m ELSE d.marks[j]
  <2>1. Filed(s.log.marks) /\ Filed(d.marks)
    BY DEF Stored, Worded
  <2>2. ASSUME NEW g, Filed(g)
        PROVE  /\ Filed([g EXCEPT ![k] = m])
               /\ \A j \in Operator!Marked : [g EXCEPT ![k] = m][j] = IF j = k THEN m ELSE g[j]
    BY <2>2 DEF Filed
  <2>3. Filed(newMarks) /\ \A j \in Operator!Marked :
                              newMarks[j] = IF j = k THEN m ELSE s.log.marks[j]
    BY <2>1, <2>2, Zenon
  <2>4. Filed(newWord) /\ \A j \in Operator!Marked :
                             newWord[j] = IF j = k THEN m ELSE d.marks[j]
    BY <2>1, <2>2, Zenon
  <2> QED
    BY <2>3, <2>4
<1>2. r = [s EXCEPT !.log.marks = newMarks] /\ w = [d EXCEPT !.marks = newWord]
  BY DEF Operator!MarkTemplate
<1> HIDE DEF newMarks, newWord, r, w
<1>3. /\ Stored(r) /\ SameLearnt(s, r) /\ r.metric = s.metric /\ r.log.marks = newMarks
  BY <1>1, <1>2 DEF Stored, SameLearnt
<1>4. Worded(w) /\ w.ignored = d.ignored /\ w.marks = newWord
  BY <1>1, <1>2 DEF Worded
<1>5. \A j \in Operator!Marked :
        s.log.marks[j] = IF d.marks[j] # "" \/ j \in f THEN d.marks[j] ELSE Configured[j]
  BY DEF Wanted
<1>6. newMarks = Wanted(w, f \cup {k})
  <2>1. \A j \in Operator!Marked :
          newMarks[j] = IF w.marks[j] # "" \/ j \in f \cup {k} THEN w.marks[j] ELSE Configured[j]
    <3>1. ASSUME NEW j \in Operator!Marked
          PROVE  newMarks[j] = IF newWord[j] # "" \/ j \in f \cup {k}
                               THEN newWord[j] ELSE Configured[j]
      <4>1. CASE j = k
        BY <1>1, <4>1
      <4>2. CASE j # k
        <5>1. newMarks[j] = s.log.marks[j] /\ newWord[j] = d.marks[j]
          BY <1>1, <4>2
        <5> QED
          BY <1>5, <4>2, <5>1
      <4> QED
        BY <4>1, <4>2
    <3> QED
      BY <1>4, <3>1
  <2> QED
    BY <1>1, <2>1 DEF Filed, Wanted
<1> QED
  BY <1>3, <1>4, <1>6, OverAgain DEF r, w

LEMMA OneIgnored ==
    ASSUME NEW s, Stored(s), NEW d, Worded(d), NEW key, NEW ignore,
           s.metric.ignored = d.ignored
    PROVE  LET r == Operator!MarkMetric(s, key, ignore)
               w == [d EXCEPT !.ignored = Operator!Ordered(d.ignored, key, ignore)] IN
           /\ Stored(r) /\ SameLearnt(s, r) /\ r.log = s.log
           /\ Worded(w) /\ w.marks = d.marks /\ r.metric.ignored = w.ignored
<1> DEFINE new == Operator!Ordered(d.ignored, key, ignore)
           r == [s EXCEPT !.metric.ignored = new]
           w == [d EXCEPT !.ignored = new]
<1>1. Operator!MarkMetric(s, key, ignore) = r
  BY DEF Operator!MarkMetric
<1> HIDE DEF new
<1>2. /\ Stored(r) /\ SameLearnt(s, r) /\ r.log = s.log /\ r.metric.ignored = new
  BY DEF Stored, SameLearnt
<1>3. Worded(w) /\ w.marks = d.marks /\ w.ignored = new
  BY DEF Worded
<1> QED
  BY <1>1, <1>2, <1>3 DEF new

\* A command that marks changes the state as it changes the decisions.
LEMMA MarksAsDecided ==
    ASSUME NEW s, Stored(s), Worded(decided), NEW f, s.log.marks = Wanted(decided, f),
           s.metric.ignored = decided.ignored, NEW c \in Operator!MarkChoices(s)
    PROVE  /\ Stored(c.state) /\ SameLearnt(s, c.state) /\ Worded(c.word)
           /\ c.state.log.marks = Wanted(c.word, f \cup c.marked)
           /\ c.state.metric.ignored = c.word.ignored
           /\ \/ /\ c.store = "log" /\ c.word.ignored = decided.ignored
                 /\ Over(c.state.log.marks) = Wanted(c.word, {})
              \/ c.store = "metric" /\ c.word.marks = decided.marks
<1>1. ASSUME NEW k, NEW m,
             c = [state |-> Operator!MarkTemplate(s, k, m),
                  word |-> [decided EXCEPT !.marks[k] = m], store |-> "log", marked |-> {k}]
      PROVE  /\ Stored(c.state) /\ SameLearnt(s, c.state) /\ Worded(c.word)
             /\ c.state.log.marks = Wanted(c.word, f \cup c.marked)
             /\ c.state.metric.ignored = c.word.ignored
             /\ c.store = "log" /\ c.word.ignored = decided.ignored
             /\ Over(c.state.log.marks) = Wanted(c.word, {})
  <2> DEFINE after == Operator!MarkTemplate(s, k, m)
             said == [decided EXCEPT !.marks[k] = m]
  <2>1. /\ Stored(after) /\ SameLearnt(s, after) /\ after.metric = s.metric
        /\ Worded(said) /\ said.ignored = decided.ignored
        /\ after.log.marks = Wanted(said, f \cup {k})
        /\ Over(after.log.marks) = Wanted(said, {})
    BY OneMarked
  <2>2. c.state = after /\ c.word = said /\ c.store = "log" /\ c.marked = {k}
    BY <1>1
  <2> HIDE DEF after, said
  <2> QED
    BY <2>1, <2>2
<1>2. ASSUME NEW key, NEW ignore,
             c = [state |-> Operator!MarkMetric(s, key, ignore),
                  word |-> [decided EXCEPT !.ignored =
                              Operator!Ordered(decided.ignored, key, ignore)],
                  store |-> "metric", marked |-> {}]
      PROVE  /\ Stored(c.state) /\ SameLearnt(s, c.state) /\ Worded(c.word)
             /\ c.state.log.marks = Wanted(c.word, f \cup c.marked)
             /\ c.state.metric.ignored = c.word.ignored
             /\ c.store = "metric" /\ c.word.marks = decided.marks
  <2> DEFINE after == Operator!MarkMetric(s, key, ignore)
             said == [decided EXCEPT !.ignored =
                        Operator!Ordered(decided.ignored, key, ignore)]
  <2>1. /\ Stored(after) /\ SameLearnt(s, after) /\ after.log = s.log
        /\ Worded(said) /\ said.marks = decided.marks /\ after.metric.ignored = said.ignored
    BY OneIgnored
  <2>2. c.state = after /\ c.word = said /\ c.store = "metric" /\ c.marked = {}
    BY <1>2
  <2> HIDE DEF after, said
  <2>3. Wanted(said, f \cup {}) = Wanted(decided, f)
    BY <2>1 DEF Wanted
  <2> QED
    BY <2>1, <2>2, <2>3
<1> QED
  BY <1>1, <1>2 DEF Operator!MarkChoices

\* A step that changes only the markings of the server, as it changes those
\* decided, disturbs nothing.
LEMMA MarkedLive ==
    ASSUME Governed, up, NEW s, live' = s, Stored(s), SameLearnt(live, s), Worded(decided'),
           Given(s) = [marks |-> Wanted(decided', fresh'), ignored |-> decided'.ignored],
           UNCHANGED <<up, oDisk, flight, oLines, forgetting, cli, cut, doomed>>
    PROVE  Governed'
<1>1. Operator!Learnt(s) = Operator!Learnt(live)
  BY DEF SameLearnt, Operator!Learnt
<1>2. Serves'
  BY <1>1 DEF Governed, Serves
<1>3. Forgets'
  BY <1>1 DEF Governed, Forgets, SameLearnt
<1>4. Offline'
  BY DEF Governed, Offline
<1> QED
  BY <1>2, <1>3, <1>4 DEF Governed

\* A step of the pipeline: what the stores and the detector's queue get more are
\* new lines, or for the log detector the line it had before it.
LEMMA LearntMore ==
    ASSUME Governed, up, NEW s, live' = s, Stored(s), Given(s) = Given(live),
           NEW more, more \cap (1..oLines) = {}, more \subseteq 1..oLines',
           oLines' \in Nat, 1..oLines \subseteq 1..oLines',
           flight' \subseteq flight \cup more,
           s.drain.learnt \subseteq live.drain.learnt \cup more,
           s.log.learnt \subseteq live.log.learnt \cup flight,
           s.metric.learnt \subseteq live.metric.learnt \cup more,
           UNCHANGED <<up, oDisk, forgetting, cli, decided, fresh, cut, doomed>>
    PROVE  Governed'
<1>1. /\ Serves /\ Forgets /\ Offline
      /\ flight \subseteq 1..oLines /\ Operator!Learnt(live) \subseteq 1..oLines
  BY DEF Governed, Serves
<1>2. Operator!Learnt(s) \subseteq Operator!Learnt(live) \cup more \cup flight
  BY DEF Operator!Learnt
<1>3. Serves'
  BY <1>1, <1>2 DEF Serves
<1>4. cut' \subseteq 1..oLines' /\ cut' \cap flight' = {}
  BY <1>1 DEF Forgets
<1>6. cut' \cap Operator!Learnt(live') = {}
  BY <1>1, <1>2 DEF Forgets
<1>7. forgetting' # <<>> => doomed' \subseteq 1..oLines' /\ doomed' \cap flight' = {}
  BY <1>1 DEF Forgets
<1>8. /\ forgetting \in {FromLog, FromMetric} => doomed' \cap s.drain.learnt = {}
      /\ forgetting = FromMetric => doomed' \cap s.log.learnt = {}
  BY <1>1, StoresLeft DEF Forgets
<1>9. Forgets'
  BY <1>1, <1>4, <1>6, <1>7, <1>8 DEF Forgets
<1>5. Offline'
  BY <1>1 DEF Offline
<1> QED
  BY <1>3, <1>5, <1>9 DEF Governed

LEMMA NextGoverned ==
    ASSUME Governed, [Operator!Next]_(Operator!operator)
    PROVE  Governed'
<1>0. /\ Serves /\ Forgets /\ Offline /\ Stored(live) /\ Stored(oDisk)
      /\ oLines \in Nat /\ flight \subseteq 1..oLines
  BY DEF Governed, Serves
<1>a. ASSUME UNCHANGED <<up, live, oDisk, flight, oLines, forgetting, cli, decided, fresh, cut,
                         doomed>>
      PROVE  Governed'
  BY <1>a DEF Governed, Serves, Forgets, Offline
<1>1. CASE Operator!Mine
  <2>1. /\ up /\ oLines' = oLines + 1 /\ flight' = {oLines'}
        /\ live' = [live EXCEPT !.drain.learnt = @ \cup {oLines'}]
        /\ UNCHANGED <<up, oDisk, forgetting, cli, decided, fresh, cut, doomed>>
    BY <1>1 DEF Operator!Mine, Operator!AdminSame, Operator!ServerSame
  <2>2. /\ oLines' \in Nat /\ 1..oLines \subseteq 1..oLines' /\ oLines' \notin 1..oLines
        /\ oLines' \in 1..oLines'
    BY <1>0, <2>1
  <2> DEFINE s == live'
  <2>3. /\ Stored(s) /\ Given(s) = Given(live) /\ s.log = live.log /\ s.metric = live.metric
        /\ s.drain.learnt = live.drain.learnt \cup {oLines'}
    <3> DEFINE learnt == live.drain.learnt \cup {oLines'}
    <3>1. DrainLearns(live, learnt, live')
      BY <2>1 DEF DrainLearns
    <3> HIDE DEF learnt
    <3>2. /\ Stored(s) /\ Given(s) = Given(live) /\ s.drain.learnt = learnt
          /\ s.log = live.log /\ s.metric = live.metric
      BY <1>0, <3>1, DrainLearning
    <3> QED
      BY <3>2 DEF learnt
  <2>4. live' = s
    OBVIOUS
  <2> HIDE DEF s
  <2>5. {oLines'} \cap (1..oLines) = {} /\ {oLines'} \subseteq 1..oLines'
    BY <2>2
  <2> QED
    BY <2>1, <2>2, <2>3, <2>4, <2>5, LearntMore
<1>2. CASE Operator!Judge
  <2>1. /\ up /\ flight' = {} /\ live' = [live EXCEPT !.log.learnt = @ \cup flight]
        /\ UNCHANGED <<up, oLines, oDisk, forgetting, cli, decided, fresh, cut, doomed>>
    BY <1>2 DEF Operator!Judge, Operator!AdminSame, Operator!ServerSame
  <2> DEFINE s == live'
  <2>2. /\ Stored(s) /\ Given(s) = Given(live) /\ s.drain = live.drain
        /\ s.metric = live.metric /\ s.log.learnt = live.log.learnt \cup flight
    <3> DEFINE learnt == live.log.learnt \cup flight
    <3>1. LogLearns(live, learnt, live')
      BY <2>1 DEF LogLearns
    <3> HIDE DEF learnt
    <3>2. /\ Stored(s) /\ Given(s) = Given(live) /\ s.log.learnt = learnt
          /\ s.drain = live.drain /\ s.metric = live.metric
      BY <1>0, <3>1, LogLearning
    <3> QED
      BY <3>2 DEF learnt
  <2>3. live' = s
    OBVIOUS
  <2> HIDE DEF s
  <2>4. {} \cap (1..oLines) = {} /\ {} \subseteq 1..oLines'
    OBVIOUS
  <2> QED
    BY <1>0, <2>1, <2>2, <2>3, <2>4, LearntMore
<1>3. CASE Operator!Measure
  <2>1. /\ up /\ oLines' = oLines + 1 /\ flight' = flight
        /\ \/ live' = [live EXCEPT !.metric.learnt = @ \cup {oLines'}]
           \/ live' = [live EXCEPT !.metric.slashed = @ \cup {oLines'}]
        /\ UNCHANGED <<up, oDisk, forgetting, cli, decided, fresh, cut, doomed>>
    BY <1>3 DEF Operator!Measure, Operator!AdminSame, Operator!ServerSame
  <2>2. /\ oLines' \in Nat /\ 1..oLines \subseteq 1..oLines' /\ oLines' \notin 1..oLines
        /\ oLines' \in 1..oLines'
    BY <1>0, <2>1
  <2> DEFINE s == live'
  <2>3. /\ Stored(s) /\ Given(s) = Given(live) /\ s.log = live.log /\ s.drain = live.drain
        /\ s.metric.learnt \subseteq live.metric.learnt \cup {oLines'}
    <3> DEFINE learnt == live.metric.learnt \cup {oLines'}
               slashed == live.metric.slashed \cup {oLines'}
    <3>1. MetricLearns(live, learnt, live') \/ live' = [live EXCEPT !.metric.slashed = slashed]
      BY <2>1 DEF MetricLearns
    <3> HIDE DEF learnt, slashed
    <3>2. /\ Stored(s) /\ Given(s) = Given(live) /\ s.drain = live.drain /\ s.log = live.log
          /\ s.metric.learnt = learnt \/ s.metric.learnt = live.metric.learnt
      BY <1>0, <3>1, MetricLearning, MetricSlashing
    <3> QED
      BY <3>2 DEF learnt
  <2>4. live' = s
    OBVIOUS
  <2> HIDE DEF s
  <2>5. {oLines'} \cap (1..oLines) = {} /\ {oLines'} \subseteq 1..oLines'
    BY <2>2
  <2> QED
    <3>1. /\ s.drain.learnt \subseteq live.drain.learnt \cup {oLines'}
          /\ s.log.learnt \subseteq live.log.learnt \cup flight
          /\ s.metric.learnt \subseteq live.metric.learnt \cup {oLines'}
      BY <2>3
    <3>2. flight' \subseteq flight \cup {oLines'}
      BY <2>1
    <3>3. /\ up /\ Stored(s) /\ Given(s) = Given(live)
          /\ UNCHANGED <<up, oDisk, forgetting, cli, decided, fresh, cut, doomed>>
      BY <2>1, <2>3
    <3>4. oLines' \in Nat /\ 1..oLines \subseteq 1..oLines'
      BY <2>2
    <3> QED
      BY <2>4, <2>5, <3>1, <3>2, <3>3, <3>4, LearntMore
<1>4. CASE Operator!Save
  <2>1. PICK k \in {"drain", "log", "metric"} : oDisk' = [oDisk EXCEPT ![k] = live[k]]
    BY <1>4 DEF Operator!Save, Operator!Keys
  <2>2. up /\ UNCHANGED <<up, live, flight, oLines, forgetting, cli, decided, fresh, cut, doomed>>
    BY <1>4 DEF Operator!Save, Operator!AdminSame, Operator!ServerSame
  <2>3. /\ Stored(oDisk')
        /\ Operator!Learnt(oDisk') \subseteq Operator!Learnt(oDisk) \cup Operator!Learnt(live)
    <3>1. /\ Stored(oDisk') /\ oDisk'[k] = live[k]
          /\ \A l \in {"drain", "log", "metric"} : l # k => oDisk'[l] = oDisk[l]
      <4>1. Replaced(oDisk, live, k, oDisk')
        BY <2>1, Zenon DEF Replaced
      <4> QED
        BY <1>0, <4>1, StoreReplaced
    <3>2. /\ oDisk'["drain"].learnt \subseteq oDisk["drain"].learnt \cup live["drain"].learnt
          /\ oDisk'["log"].learnt \subseteq oDisk["log"].learnt \cup live["log"].learnt
          /\ oDisk'["metric"].learnt
               \subseteq oDisk["metric"].learnt \cup live["metric"].learnt
      BY <3>1
    <3> QED
      BY <3>1, <3>2 DEF Operator!Learnt
  <2>4. Serves'
    BY <1>0, <2>2, <2>3 DEF Serves
  <2>5. Forgets'
    BY <1>0, <2>2 DEF Forgets
  <2>6. Offline'
    BY <1>0, <2>2 DEF Offline
  <2> QED
    BY <2>4, <2>5, <2>6 DEF Governed
<1>5. CASE Operator!Stop
  <2>1. /\ up /\ flight = {} /\ forgetting = <<>> /\ ~up' /\ oDisk' = live
        /\ fresh' = {} /\ UNCHANGED <<live, flight, oLines, forgetting, cli, decided, cut, doomed>>
    BY <1>5 DEF Operator!Stop, Operator!ServerSame
  <2>2. Over(oDisk'.log.marks) = Wanted(decided, {}) /\ oDisk'.metric.ignored = decided.ignored
    <3>1. live.log.marks = Wanted(decided, fresh) /\ live.metric.ignored = decided.ignored
      BY <1>0, <2>1 DEF Serves, Given
    <3> QED
      BY <2>1, <3>1, OverAgain
  <2> QED
    BY <1>0, <2>1, <2>2, StoresLeft DEF Governed, Serves, Forgets, Offline
<1>6. CASE Operator!Crash
  <2>1. /\ up /\ ~up' /\ flight' = {} /\ forgetting' = <<>> /\ cut' = {} /\ doomed' = {}
        /\ decided' = Given(oDisk) /\ live' = oDisk /\ fresh' = {}
        /\ UNCHANGED <<oDisk, oLines, cli>>
    BY <1>6 DEF Operator!Crash, Given
  <2>2. /\ Worded(Given(oDisk)) /\ Given(oDisk).ignored = oDisk.metric.ignored
        /\ Over(oDisk.log.marks) = Wanted(Given(oDisk), {})
    BY <1>0 DEF Stored, Given, Worded, Over, Wanted
  <2> HIDE DEF Given
  <2> QED
    BY <1>0, <2>1, <2>2, StoresLeft DEF Governed, Serves, Forgets, Offline
<1>7. CASE Operator!Start
  <2>1. /\ ~up /\ up' /\ cli = Operator!NoCLI /\ live' = Operator!Merged(oDisk)
        /\ UNCHANGED <<oDisk, flight, oLines, forgetting, cli, decided, fresh, cut, doomed>>
    BY <1>7 DEF Operator!Start, Operator!AdminSame, Operator!ServerSame
  <2>2. /\ Stored(live') /\ Operator!Learnt(live') = Operator!Learnt(oDisk)
        /\ live'.log.marks = Over(oDisk.log.marks) /\ live'.metric = oDisk.metric
    BY <1>0, <2>1, Merging
  <2>3. /\ Over(oDisk.log.marks) = Wanted(decided, {}) /\ fresh = {} /\ forgetting = <<>>
        /\ oDisk.metric.ignored = decided.ignored
    BY <1>0, <2>1 DEF Serves
  <2>4. Given(live') = [marks |-> Wanted(decided, fresh), ignored |-> decided.ignored]
    BY <2>2, <2>3 DEF Given
  <2>5. Serves'
    BY <1>0, <2>1, <2>2, <2>4 DEF Serves
  <2>6. Forgets'
    BY <1>0, <2>1, <2>2, <2>3, StoresLeft DEF Forgets
  <2>7. Offline'
    BY <2>1 DEF Offline
  <2> QED
    BY <2>5, <2>6, <2>7 DEF Governed
<1>8. CASE Operator!MarkRemote
  <2>1. PICK c \in Operator!MarkChoices(live) :
          live' = c.state /\ decided' = c.word /\ fresh' = fresh \cup c.marked
    BY <1>8 DEF Operator!MarkRemote
  <2>2. up /\ UNCHANGED <<up, oDisk, flight, oLines, forgetting, cli, cut, doomed>>
    BY <1>8 DEF Operator!MarkRemote, Operator!PipelineSame
  <2>3. /\ Worded(decided) /\ live.log.marks = Wanted(decided, fresh)
        /\ live.metric.ignored = decided.ignored
    BY <1>0, <2>2 DEF Serves, Given
  <2>4. /\ Stored(c.state) /\ SameLearnt(live, c.state) /\ Worded(c.word)
        /\ c.state.log.marks = Wanted(c.word, fresh \cup c.marked)
        /\ c.state.metric.ignored = c.word.ignored
    BY <1>0, <2>1, <2>3, MarksAsDecided
  <2>5. Given(c.state) = [marks |-> Wanted(decided', fresh'), ignored |-> decided'.ignored]
    BY <2>1, <2>4 DEF Given
  <2> QED
    BY <2>1, <2>2, <2>4, <2>5, MarkedLive
<1>9. CASE Operator!MarkOffline
  <2> DEFINE s == Operator!Merged(oDisk)
  <2>1. PICK c \in Operator!MarkChoices(s) :
          oDisk' = [oDisk EXCEPT ![c.store] = c.state[c.store]] /\ decided' = c.word
    BY <1>9 DEF Operator!MarkOffline, Operator!OpenOffline
  <2>2. /\ ~up /\ cli = Operator!NoCLI
        /\ UNCHANGED <<up, live, flight, oLines, forgetting, cli, fresh, cut, doomed>>
    BY <1>9 DEF Operator!MarkOffline, Operator!PipelineSame
  <2>3. /\ Stored(s) /\ SameLearnt(oDisk, s) /\ s.log.marks = Over(oDisk.log.marks)
        /\ s.metric = oDisk.metric
    BY <1>0, Merging
  <2>4. /\ Worded(decided) /\ s.log.marks = Wanted(decided, {})
        /\ s.metric.ignored = decided.ignored /\ flight = {} /\ forgetting = <<>> /\ fresh = {}
        /\ Over(oDisk.log.marks) = Wanted(decided, {}) /\ oDisk.metric.ignored = decided.ignored
    BY <1>0, <2>2, <2>3 DEF Serves
  <2> HIDE DEF s
  <2>5. /\ Stored(c.state) /\ SameLearnt(s, c.state) /\ Worded(c.word)
        /\ c.state.metric.ignored = c.word.ignored
        /\ \/ /\ c.store = "log" /\ c.word.ignored = decided.ignored
              /\ Over(c.state.log.marks) = Wanted(c.word, {})
           \/ c.store = "metric" /\ c.word.marks = decided.marks
    BY <2>1, <2>3, <2>4, MarksAsDecided
  <2>6. /\ Stored(oDisk') /\ SameLearnt(oDisk, oDisk')
        /\ Over(oDisk'.log.marks) = Wanted(decided', {})
        /\ oDisk'.metric.ignored = decided'.ignored
    <3>1. CASE c.store = "log"
      <4>1. Replaced(oDisk, c.state, "log", oDisk')
        BY <2>1, <3>1, Zenon DEF Replaced
      <4>2. /\ Stored(oDisk') /\ oDisk'["log"] = c.state["log"]
            /\ oDisk'["drain"] = oDisk["drain"] /\ oDisk'["metric"] = oDisk["metric"]
        BY <1>0, <2>5, <4>1, StoreReplaced
      <4>3. /\ oDisk'.log = c.state.log /\ oDisk'.drain = oDisk.drain
            /\ oDisk'.metric = oDisk.metric
        BY <4>2
      <4>4. SameLearnt(oDisk, oDisk')
        BY <2>3, <2>5, <4>3 DEF SameLearnt
      <4> QED
        BY <2>1, <2>4, <2>5, <3>1, <4>2, <4>3, <4>4
    <3>2. CASE c.store = "metric"
      <4>1. Replaced(oDisk, c.state, "metric", oDisk')
        BY <2>1, <3>2, Zenon DEF Replaced
      <4>2. /\ Stored(oDisk') /\ oDisk'["metric"] = c.state["metric"]
            /\ oDisk'["drain"] = oDisk["drain"] /\ oDisk'["log"] = oDisk["log"]
        BY <1>0, <2>5, <4>1, StoreReplaced
      <4>3. /\ oDisk'.metric = c.state.metric /\ oDisk'.drain = oDisk.drain
            /\ oDisk'.log = oDisk.log
        BY <4>2
      <4>4. SameLearnt(oDisk, oDisk')
        BY <2>3, <2>5, <4>3 DEF SameLearnt
      <4>5. Wanted(c.word, {}) = Wanted(decided, {})
        BY <2>5, <3>2 DEF Wanted
      <4> QED
        BY <2>1, <2>4, <2>5, <4>2, <4>3, <4>4, <4>5
    <3> QED
      BY <2>5, <3>1, <3>2
  <2>7. Operator!Learnt(oDisk') = Operator!Learnt(oDisk)
    BY <2>6 DEF SameLearnt, Operator!Learnt
  <2>8. Serves'
    BY <1>0, <2>1, <2>2, <2>4, <2>5, <2>6, <2>7 DEF Serves
  <2>9. Forgets' /\ Offline'
    BY <1>0, <2>2, <2>6, <2>7 DEF Forgets, Offline
  <2> QED
    BY <2>8, <2>9 DEF Governed
<1>10. CASE Operator!Forget
  <2>1. /\ up /\ forgetting = <<>> /\ forgetting' = FromDrain
        /\ doomed' = Operator!Learnt(live) \ flight
        /\ UNCHANGED <<up, live, oDisk, flight, oLines, cli, decided, fresh, cut>>
    BY <1>10 DEF Operator!Forget, Operator!PipelineSame, FromDrain
  <2>2. doomed' \subseteq 1..oLines
    BY <2>1 DEF Governed, Serves
  <2> QED
    BY <1>0, <2>1, <2>2, StoresLeft DEF Governed, Serves, Forgets, Offline
<1>11. CASE Operator!ForgetNext
  <2>1. /\ forgetting # <<>> /\ forgetting' = Tail(forgetting)
        /\ live' = Operator!Dropped(live, Head(forgetting))
        /\ cut' = IF forgetting' = <<>> THEN doomed ELSE cut
        /\ UNCHANGED <<up, oDisk, flight, oLines, cli, decided, fresh, doomed>>
    BY <1>11 DEF Operator!ForgetNext, Operator!PipelineSame
  <2>2. up /\ doomed \subseteq 1..oLines /\ doomed \cap flight = {}
    BY <1>0, <2>1 DEF Serves, Forgets
  <2>3. ASSUME Stored(live'), Given(live') = Given(live),
               Operator!Learnt(live') \subseteq Operator!Learnt(live)
        PROVE  Serves' /\ Offline'
    BY <1>0, <2>1, <2>2, <2>3 DEF Serves, Offline
  <2>4. CASE forgetting = FromDrain
    <3>1. live' = [live EXCEPT !.drain.learnt = {}] /\ forgetting' = FromLog /\ cut' = cut
      BY <2>1, <2>4, StoresLeft DEF Operator!Dropped
    <3>2. /\ Stored(live') /\ Given(live') = Given(live) /\ live'.drain.learnt = {}
          /\ Operator!Learnt(live') \subseteq Operator!Learnt(live)
      <4>1. DrainLearns(live, {}, live')
        BY <3>1 DEF DrainLearns
      <4>2. /\ Stored(live') /\ Given(live') = Given(live) /\ live'.drain.learnt = {}
            /\ live'.log = live.log /\ live'.metric = live.metric
        BY <1>0, <4>1, DrainLearning
      <4> QED
        BY <4>2 DEF Operator!Learnt
    <3>3. Forgets'
      BY <1>0, <2>1, <2>2, <3>1, <3>2, StoresLeft DEF Forgets
    <3> QED
      BY <2>3, <3>2, <3>3 DEF Governed
  <2>5. CASE forgetting = FromLog
    <3>1. live' = [live EXCEPT !.log.learnt = {}] /\ forgetting' = FromMetric /\ cut' = cut
      BY <2>1, <2>5, StoresLeft DEF Operator!Dropped
    <3>2. /\ Stored(live') /\ Given(live') = Given(live) /\ live'.drain = live.drain
          /\ live'.log.learnt = {} /\ Operator!Learnt(live') \subseteq Operator!Learnt(live)
      <4>1. LogLearns(live, {}, live')
        BY <3>1 DEF LogLearns
      <4>2. /\ Stored(live') /\ Given(live') = Given(live) /\ live'.log.learnt = {}
            /\ live'.drain = live.drain /\ live'.metric = live.metric
        BY <1>0, <4>1, LogLearning
      <4> QED
        BY <4>2 DEF Operator!Learnt
    <3>3. Forgets'
      BY <1>0, <2>1, <2>2, <2>5, <3>1, <3>2, StoresLeft DEF Forgets
    <3> QED
      BY <2>3, <3>2, <3>3 DEF Governed
  <2>6. CASE forgetting = FromMetric
    <3>1. live' = [live EXCEPT !.metric.learnt = {}] /\ forgetting' = <<>> /\ cut' = doomed
      BY <2>1, <2>6, StoresLeft DEF Operator!Dropped
    <3>2. /\ Stored(live') /\ Given(live') = Given(live) /\ live'.drain = live.drain
          /\ live'.log = live.log /\ live'.metric.learnt = {}
          /\ Operator!Learnt(live') \subseteq Operator!Learnt(live)
      <4>1. MetricLearns(live, {}, live')
        BY <3>1 DEF MetricLearns
      <4>2. /\ Stored(live') /\ Given(live') = Given(live) /\ live'.drain = live.drain
            /\ live'.log = live.log /\ live'.metric.learnt = {}
        BY <1>0, <4>1, MetricLearning
      <4> QED
        BY <4>2 DEF Operator!Learnt
    <3>3. doomed \cap Operator!Learnt(live') = {}
      BY <1>0, <2>6, <3>2, StoresLeft DEF Forgets, Operator!Learnt
    <3>4. Forgets'
      BY <2>1, <2>2, <3>1, <3>3, StoresLeft DEF Forgets
    <3> QED
      BY <2>3, <3>2, <3>4 DEF Governed
  <2> QED
    BY <1>0, <2>1, <2>4, <2>5, <2>6 DEF Forgets
<1>12. CASE Operator!ForgetOffline
  <2>1. /\ ~up /\ cli = Operator!NoCLI
        /\ cli' = [left |-> FromDrain, doomed |-> Operator!Learnt(oDisk),
                   state |-> Operator!Dropped(Operator!Dropped(Operator!Dropped(
                               Operator!Merged(oDisk), "drain"), "log"), "metric")]
        /\ UNCHANGED <<up, live, oDisk, flight, oLines, forgetting, decided, fresh, cut, doomed>>
    BY <1>12 DEF Operator!ForgetOffline, Operator!PipelineSame, Operator!OpenOffline,
                 Operator!Touched, FromDrain
  <2> DEFINE s == Operator!Merged(oDisk)
             a == [s EXCEPT !.drain.learnt = {}]
             b == [a EXCEPT !.log.learnt = {}]
             c == [b EXCEPT !.metric.learnt = {}]
  <2>s. /\ Stored(s) /\ s.log.marks = Over(oDisk.log.marks) /\ s.metric = oDisk.metric
    BY <1>0, Merging
  <2>a. DrainLearns(s, {}, a) /\ LogLearns(a, {}, b) /\ MetricLearns(b, {}, c)
    BY DEF DrainLearns, LogLearns, MetricLearns
  <2> HIDE DEF s, a, b, c
  <2>2. Stored(a) /\ Given(a) = Given(s) /\ a.drain.learnt = {}
    BY <2>s, <2>a, DrainLearning
  <2>3. /\ Stored(b) /\ Given(b) = Given(s) /\ b.drain.learnt = {} /\ b.log.learnt = {}
    BY <2>2, <2>a, LogLearning
  <2>b. Stored(c) /\ Given(c) = Given(b) /\ c.metric.learnt = {} /\ c.drain = b.drain
        /\ c.log = b.log
    BY <2>3, <2>a, MetricLearning
  <2>4. Stored(c) /\ Given(c) = Given(s) /\ Operator!Learnt(c) = {}
    BY <2>3, <2>b DEF Operator!Learnt
  <2>5. cli' = [left |-> FromDrain, doomed |-> Operator!Learnt(oDisk), state |-> c]
    BY <2>1 DEF s, a, b, c, Operator!Dropped
  <2>6. /\ c.log.marks = Wanted(decided, {}) /\ c.metric.ignored = decided.ignored
        /\ Operator!Learnt(oDisk) \subseteq 1..oLines
    BY <1>0, <2>1, <2>4, <2>s DEF Serves, Given
  <2>7. Offline'
    BY <2>1, <2>4, <2>5, <2>6, StoresLeft DEF Offline
  <2> QED
    BY <1>0, <2>1, <2>7 DEF Governed, Serves, Forgets
<1>13. CASE Operator!SaveOffline
  <2>1. /\ cli # Operator!NoCLI
        /\ oDisk' = [oDisk EXCEPT ![Head(cli.left)] = cli.state[Head(cli.left)]]
        /\ cli' = IF Len(cli.left) = 1 THEN Operator!NoCLI ELSE [cli EXCEPT !.left = Tail(@)]
        /\ cut' = IF cli' = Operator!NoCLI THEN cli.doomed ELSE cut
        /\ UNCHANGED <<up, live, flight, oLines, forgetting, decided, fresh, doomed>>
    BY <1>13 DEF Operator!SaveOffline, Operator!PipelineSame
  <2>2. /\ ~up /\ cli = [left |-> cli.left, doomed |-> cli.doomed, state |-> cli.state]
        /\ cli.left \in {FromDrain, FromLog, FromMetric} /\ cli.doomed \subseteq 1..oLines
        /\ Stored(cli.state) /\ cli.state.log.marks = Wanted(decided, {})
        /\ cli.state.metric.ignored = decided.ignored
        /\ Operator!Learnt(cli.state) = {}
        /\ Over(oDisk.log.marks) = Wanted(decided, {})
        /\ oDisk.metric.ignored = decided.ignored
        /\ flight = {} /\ forgetting = <<>>
    BY <1>0, <2>1 DEF Offline, Serves
  <2>3. /\ cli.state.drain.learnt = {} /\ cli.state.log.learnt = {}
        /\ cli.state.metric.learnt = {}
    BY <2>2 DEF Operator!Learnt
  <2> DEFINE SameMarks(r) == /\ Over(r.log.marks) = Wanted(decided, {})
                        /\ r.metric.ignored = decided.ignored
  <2>k. Over(cli.state.log.marks) = Wanted(decided, {})
    BY <2>2, OverAgain
  <2>4. ASSUME NEW rest, rest \in {FromLog, FromMetric},
               cli' = [cli EXCEPT !.left = rest], Stored(oDisk'),
               SameMarks(oDisk'),
               Operator!Learnt(oDisk') \subseteq Operator!Learnt(oDisk),
               oDisk'.drain.learnt = {}, rest = FromMetric => oDisk'.log.learnt = {}
        PROVE  Governed'
    <3>1. /\ cli' = [left |-> rest, doomed |-> cli.doomed, state |-> cli.state]
          /\ rest # <<>>
      BY <2>2, <2>4, StoresLeft
    <3>2. cli' # Operator!NoCLI
      BY <3>1 DEF Operator!NoCLI
    <3>3. Offline'
      BY <2>1, <2>2, <2>4, <3>1 DEF Offline
    <3>4. cut' = cut
      BY <2>1, <3>2
    <3>5. Serves'
      BY <1>0, <2>1, <2>2, <2>4 DEF Serves
    <3>6. Forgets'
      BY <1>0, <2>1, <2>2, <2>4, <3>4, StoresLeft DEF Forgets
    <3> QED
      BY <3>3, <3>5, <3>6 DEF Governed
  <2>5. CASE cli.left = FromDrain
    <3>1. /\ oDisk' = [oDisk EXCEPT !.drain = cli.state.drain]
          /\ cli' = [cli EXCEPT !.left = FromLog]
      <4>1. Head(cli.left) = "drain" /\ Len(cli.left) # 1 /\ Tail(cli.left) = FromLog
        BY <2>5, StoresLeft
      <4>2. oDisk' = [oDisk EXCEPT !["drain"] = cli.state["drain"]]
        BY <2>1, <4>1, Zenon
      <4>3. cli' = [cli EXCEPT !.left = FromLog]
        BY <2>1, <4>1, Zenon
      <4> QED
        BY <4>2, <4>3
    <3>2. /\ Stored(oDisk') /\ SameMarks(oDisk') /\ oDisk'.drain.learnt = {}
          /\ Operator!Learnt(oDisk') \subseteq Operator!Learnt(oDisk)
      BY <1>0, <2>2, <2>3, <2>k, <3>1 DEF Stored, Operator!Learnt
    <3> QED
      BY <2>4, <3>1, <3>2, StoresLeft
  <2>6. CASE cli.left = FromLog
    <3>1. /\ oDisk' = [oDisk EXCEPT !.log = cli.state.log]
          /\ cli' = [cli EXCEPT !.left = FromMetric] /\ oDisk.drain.learnt = {}
      <4>1. Head(cli.left) = "log" /\ Len(cli.left) # 1 /\ Tail(cli.left) = FromMetric
        BY <2>6, StoresLeft
      <4>2. oDisk' = [oDisk EXCEPT !["log"] = cli.state["log"]]
        BY <2>1, <4>1, Zenon
      <4>3. cli' = [cli EXCEPT !.left = FromMetric]
        BY <2>1, <4>1, Zenon
      <4>4. oDisk.drain.learnt = {}
        BY <1>0, <2>1, <2>6 DEF Offline
      <4> QED
        BY <4>2, <4>3, <4>4
    <3>2. /\ Stored(oDisk') /\ SameMarks(oDisk') /\ oDisk'.drain.learnt = {}
          /\ oDisk'.log.learnt = {}
          /\ Operator!Learnt(oDisk') \subseteq Operator!Learnt(oDisk)
      BY <1>0, <2>2, <2>3, <2>k, <3>1 DEF Stored, Operator!Learnt
    <3> QED
      BY <2>4, <3>1, <3>2
  <2>7. CASE cli.left = FromMetric
    <3>1. /\ oDisk' = [oDisk EXCEPT !.metric = cli.state.metric]
          /\ cli' = Operator!NoCLI /\ oDisk.drain.learnt = {} /\ oDisk.log.learnt = {}
          /\ cut' = cli.doomed
      BY <1>0, <2>1, <2>7, StoresLeft DEF Offline
    <3>2. /\ Stored(oDisk') /\ SameMarks(oDisk')
          /\ Operator!Learnt(oDisk') = {}
      BY <1>0, <2>2, <2>3, <2>k, <3>1 DEF Stored, Operator!Learnt
    <3>3. Offline'
      BY <3>1 DEF Offline
    <3>4. Serves'
      BY <1>0, <2>1, <2>2, <3>2 DEF Serves
    <3>5. Forgets'
      BY <2>1, <2>2, <3>1, <3>2, StoresLeft DEF Forgets
    <3> QED
      BY <3>3, <3>4, <3>5 DEF Governed
  <2> QED
    BY <2>2, <2>5, <2>6, <2>7
<1>14. CASE Operator!KillOffline
  <2>1. /\ cli' = Operator!NoCLI
        /\ UNCHANGED <<up, live, oDisk, flight, oLines, forgetting, decided, fresh, cut, doomed>>
    BY <1>14 DEF Operator!KillOffline
  <2> QED
    BY <1>0, <2>1 DEF Governed, Serves, Forgets, Offline
<1>15. ASSUME NEW b \in Tabs, Operator!HandleTemplateMark(b) PROVE Governed'
  <2>1. PICK r \in Operator!TemplateBatch(oPage[b]) :
          /\ live' = Operator!MarkTemplate(live, r.template, r.marking)
          /\ decided' = [decided EXCEPT !.marks[r.template] = r.marking]
          /\ fresh' = fresh \cup {r.template}
    BY <1>15 DEF Operator!HandleTemplateMark
  <2>2. up /\ UNCHANGED <<up, oDisk, flight, oLines, forgetting, cli, cut, doomed>>
    BY <1>15 DEF Operator!HandleTemplateMark, Operator!PageSame, Operator!PipelineSame
  <2>3. /\ Worded(decided) /\ live.log.marks = Wanted(decided, fresh)
        /\ live.metric.ignored = decided.ignored
    BY <1>0, <2>2 DEF Serves, Given
  <2>5. /\ Stored(live') /\ SameLearnt(live, live') /\ live'.metric = live.metric
        /\ Worded(decided') /\ decided'.ignored = decided.ignored
        /\ live'.log.marks = Wanted(decided', fresh')
    BY <1>0, <2>1, <2>3, OneMarked
  <2>6. Given(live') = [marks |-> Wanted(decided', fresh'), ignored |-> decided'.ignored]
    BY <2>3, <2>5 DEF Given
  <2> QED
    BY <2>2, <2>5, <2>6, MarkedLive
<1>16. ASSUME NEW b \in Tabs, Operator!HandleMetricMark(b) PROVE Governed'
  <2>1. PICK key \in DOMAIN oPage[b].rows :
          LET ignore == Operator!MetricRowView(oPage[b].rows[key]) IN
          /\ live' = Operator!MarkMetric(live, key, ignore)
          /\ decided' = [decided EXCEPT !.ignored =
                           Operator!Ordered(decided.ignored, key, ignore)]
    BY <1>16 DEF Operator!HandleMetricMark
  <2>2. up /\ UNCHANGED <<up, oDisk, flight, oLines, forgetting, cli, fresh, cut, doomed>>
    BY <1>16 DEF Operator!HandleMetricMark, Operator!PageSame, Operator!PipelineSame
  <2>3. /\ Worded(decided) /\ live.log.marks = Wanted(decided, fresh)
        /\ live.metric.ignored = decided.ignored
    BY <1>0, <2>2 DEF Serves, Given
  <2>4. /\ Stored(live') /\ SameLearnt(live, live') /\ live'.log = live.log
        /\ Worded(decided') /\ decided'.marks = decided.marks
        /\ live'.metric.ignored = decided'.ignored
    BY <1>0, <2>1, <2>3, OneIgnored
  <2>5. Wanted(decided', fresh') = Wanted(decided, fresh)
    BY <2>2, <2>4 DEF Wanted
  <2>6. Given(live') = [marks |-> Wanted(decided', fresh'), ignored |-> decided'.ignored]
    BY <2>3, <2>4, <2>5 DEF Given
  <2> QED
    BY <2>2, <2>4, <2>6, MarkedLive
<1>17. ASSUME NEW b \in Tabs,
              \/ Operator!HandleTemplates(b) \/ Operator!HandleTemplateRows(b)
              \/ Operator!HandleMetrics(b) \/ Operator!MetricReread(b)
       PROVE  Governed'
  <2>1. UNCHANGED <<up, live, oDisk, flight, oLines, forgetting, cli, decided, fresh, cut, doomed>>
    BY <1>17 DEF Operator!HandleTemplates, Operator!HandleTemplateRows,
                 Operator!HandleMetrics, Operator!MetricReread, Operator!PageSame,
                 Operator!PipelineSame
  <2> QED
    BY <1>a, <2>1
<1>18. CASE UNCHANGED Operator!operator
  BY <1>a, <1>18 DEF Operator!operator
<1> QED
  BY <1>1, <1>2, <1>3, <1>4, <1>5, <1>6, <1>7, <1>8, <1>9, <1>10, <1>11, <1>12, <1>13,
     <1>14, <1>15, <1>16, <1>17, <1>18 DEF Operator!Next

\* What the operator decided is what the server applies, or will when it starts,
\* and what a Forget that returned had to drop is in no store of it, whatever
\* was learned, saved, edited offline or killed in between (Service.Forget and
\* the marks, online, and forgetOffline and markOffline of the commands).
THEOREM DecisionsStay == SpecParts => []DecisionsHold
<1> DEFINE Inv == which = "operator" => Governed
<1>1. InitParts => Inv
  <2> SUFFICES ASSUME Operator!Init PROVE Governed
    BY DEF InitParts
  <2>1. /\ up = TRUE /\ oLines = 0 /\ live = Operator!Merged(oDisk) /\ flight = {}
        /\ oDisk = [drain |-> [learnt |-> {}],
                    log |-> [learnt |-> {}, marks |-> [k \in Operator!Marked |-> ""]],
                    metric |-> [learnt |-> {}, slashed |-> {}, ignored |-> {}]]
        /\ cli = Operator!NoCLI /\ cut = {} /\ doomed = {} /\ forgetting = <<>> /\ fresh = {}
        /\ decided = [marks |-> oDisk.log.marks, ignored |-> {}]
    BY DEF Operator!Init
  <2>2. /\ Stored(oDisk) /\ Operator!Learnt(oDisk) = {} /\ Worded(decided)
        /\ Over(oDisk.log.marks) = Wanted(decided, {})
        /\ oDisk.metric.ignored = decided.ignored
    BY <2>1 DEF Stored, Filed, Worded, Operator!Learnt, Over, Wanted
  <2>3. /\ Stored(live) /\ Operator!Learnt(live) = {}
        /\ Given(live) = [marks |-> Wanted(decided, fresh), ignored |-> decided.ignored]
    BY <2>1, <2>2, Merging DEF Given
  <2> QED
    BY <2>1, <2>2, <2>3, StoresLeft DEF Governed, Serves, Forgets, Offline
<1>2. Inv /\ [NextParts]_parts => Inv'
  BY OperatorRuns, NextGoverned
<1>3. Inv => DecisionsHold
  <2> SUFFICES ASSUME Governed PROVE Operator!DecisionsHold
    BY DEF DecisionsHold
  <2>1. CASE up
    BY <2>1 DEF Operator!DecisionsHold, Operator!MarkingsSurvive, Operator!ForgetIsWhole,
                Operator!Expected, Governed, Serves, Forgets, Given, Wanted
  <2>2. CASE ~up
    <3>1. /\ Operator!Merged(oDisk).log.marks = Over(oDisk.log.marks) /\ fresh = {}
          /\ Operator!Merged(oDisk).metric = oDisk.metric
          /\ Over(oDisk.log.marks) = Wanted(decided, {})
          /\ oDisk.metric.ignored = decided.ignored
      BY <2>2, Merging DEF Governed, Serves
    <3>2. Operator!MarkingsSurvive
      BY <2>2, <3>1 DEF Operator!MarkingsSurvive, Operator!OpenOffline, Operator!Expected,
                        Wanted
    <3> QED
      BY <2>2, <3>2 DEF Operator!DecisionsHold, Operator!ForgetIsWhole, Governed, Forgets
  <2> QED
    BY <2>1, <2>2
<1> QED
  BY <1>1, <1>2, <1>3, PTL DEF SpecParts

-----------------------------------------------------------------------------
(* The watcher of events *)

LEMMA EventsRun ==
    ASSUME [NextParts]_parts, which' = "events"
    PROVE  which = "events" /\ [ClusterEvents!Next]_(ClusterEvents!events)
  BY DEF NextParts, Runs, Rest, parts, listwatch, occurrences, ClusterEvents!events,
         ClusterEvents!listwatch, ClusterEvents!occurrences

\* How many times an event occurred, or that there is none.
Counts == Nat \cup {none}
Listening ==
    /\ cluster \in [Objects -> Counts] /\ log \in Seq([object : Objects, value : Counts])
    /\ lw = [at |-> lw.at, seen |-> lw.seen] /\ lw.seen \in 0..Len(log)
    /\ eFrom \in 0..lw.seen

\* What was told are occurrences read, in order, and all those since the list.
Telling ==
    /\ eTold \in Seq(1..lw.seen)
    /\ \A i, j \in DOMAIN eTold : i < j => eTold[i] < eTold[j]
    /\ \A i \in DOMAIN eTold : log[eTold[i]].value # none
    /\ \A n \in eFrom + 1 .. lw.seen :
         log[n].value # none => \E i \in DOMAIN eTold : eTold[i] = n

LEMMA InitListens ==
    ASSUME ClusterEvents!Init
    PROVE  Listening /\ Telling
<1>1. /\ cluster = [o \in Objects |-> none] /\ log = <<>> /\ lw = [at |-> "list", seen |-> 0]
      /\ eTold = <<>> /\ eFrom = 0
  BY DEF ClusterEvents!Init, ClusterEvents!LWInit
<1>2. Listening
  BY <1>1 DEF Listening, Counts
<1>3. Telling
  BY <1>1 DEF Telling
<1> QED
  BY <1>2, <1>3

LEMMA NextListens ==
    ASSUME Listening, Telling, [ClusterEvents!Next]_(ClusterEvents!events)
    PROVE  Listening' /\ Telling'
<1>0. /\ Len(log) \in Nat /\ lw.seen \in Nat /\ lw.seen <= Len(log) /\ eFrom \in Nat
      /\ eFrom <= lw.seen /\ log \in Seq([object : Objects, value : Counts])
      /\ eTold \in Seq(1..lw.seen)
  BY DEF Listening, Telling
\* Steps after which the same was read of the same log.
<1>a. ASSUME UNCHANGED <<cluster, log, eTold, eFrom>>, lw'.seen = lw.seen,
             lw' = [at |-> lw'.at, seen |-> lw'.seen]
      PROVE  Listening' /\ Telling'
  BY <1>a DEF Listening, Telling
<1>1. CASE ClusterEvents!Occurring /\ UNCHANGED ClusterEvents!occurrences
  <2>a. PICK o \in Objects : \E v \in Occurrences(cluster[o]) : ClusterEvents!Write(o, v)
    BY <1>1 DEF ClusterEvents!Occurring
  <2>1. PICK v \in Occurrences(cluster[o]) : ClusterEvents!Write(o, v)
    BY <2>a
  <2>2. /\ cluster' = [cluster EXCEPT ![o] = v]
        /\ log' = Append(log, [object |-> o, value |-> v])
        /\ UNCHANGED <<lw, eTold, eFrom>>
    BY <1>1, <2>1 DEF ClusterEvents!Write, ClusterEvents!occurrences
  <2>3. v \in Counts
    BY <2>1 DEF Occurrences, Counts, Listening
  <2>4. [object |-> o, value |-> v] \in [object : Objects, value : Counts]
    BY <2>3
  <2>5. /\ log' \in Seq([object : Objects, value : Counts]) /\ Len(log') = Len(log) + 1
        /\ \A n \in 1..Len(log) : log'[n] = log[n]
    BY <1>0, <2>2, <2>4
  <2>6. Listening'
    BY <1>0, <2>2, <2>3, <2>5 DEF Listening
  <2>7. \A n \in 1..lw.seen : log'[n] = log[n]
    BY <1>0, <2>5
  <2>8. \A i \in DOMAIN eTold : eTold[i] \in 1..lw.seen
    BY <1>0
  <2>9. \A n \in eFrom + 1 .. lw.seen : n \in 1..lw.seen
    BY <1>0
  <2>10. Telling'
    BY <2>2, <2>7, <2>8, <2>9 DEF Telling
  <2> QED
    BY <2>6, <2>10
<1>2. CASE ClusterEvents!Breaks /\ UNCHANGED ClusterEvents!occurrences
  <2>1. /\ UNCHANGED <<cluster, log, eTold, eFrom>>
        /\ \E at1 \in {"list", "wait"} : lw' = [lw EXCEPT !.at = at1]
    BY <1>2 DEF ClusterEvents!Breaks, ClusterEvents!ListFails, ClusterEvents!WatchEnds,
                ClusterEvents!Wakes, ClusterEvents!occurrences
  <2>2. lw'.seen = lw.seen /\ lw' = [at |-> lw'.at, seen |-> lw'.seen]
    BY <2>1 DEF Listening
  <2> QED
    BY <1>a, <2>1, <2>2
<1>3. CASE ClusterEvents!OnList
  <2>1. /\ lw' = [at |-> "watch", seen |-> Len(log)] /\ eFrom' = Len(log)
        /\ UNCHANGED <<cluster, log, eTold>>
    BY <1>3 DEF ClusterEvents!OnList, ClusterEvents!List
  <2>2. lw'.seen = Len(log) /\ lw' = [at |-> lw'.at, seen |-> lw'.seen]
    BY <2>1
  <2>3. Listening'
    BY <1>0, <2>1, <2>2 DEF Listening
  <2>4. 1..lw.seen \subseteq 1..Len(log) /\ eFrom' + 1 .. lw'.seen = {}
    BY <1>0, <2>1, <2>2
  <2>5. eTold \in Seq(1..Len(log))
    BY <1>0, <2>4
  <2>6. Telling'
    BY <2>1, <2>2, <2>4, <2>5 DEF Telling
  <2> QED
    BY <2>3, <2>6
<1>4. CASE ClusterEvents!Handle
  <2> DEFINE next == lw.seen + 1
  <2>1. /\ lw.seen < Len(log) /\ lw' = [lw EXCEPT !.seen = @ + 1]
        /\ eTold' = IF log[next].value # none THEN Append(eTold, next) ELSE eTold
        /\ UNCHANGED <<cluster, log, eFrom>>
    BY <1>4 DEF ClusterEvents!Handle, ClusterEvents!Watch, ClusterEvents!Told,
                ClusterEvents!Frame
  <2>2. lw'.seen = next /\ lw' = [at |-> lw'.at, seen |-> lw'.seen]
    BY <2>1 DEF Listening
  <2>3. next \in Nat /\ next <= Len(log) /\ 1..lw.seen \subseteq 1..next /\ next \in 1..next
    BY <1>0, <2>1
  <2>4. Listening'
    BY <1>0, <2>1, <2>2, <2>3 DEF Listening
  <2>5. \A i \in DOMAIN eTold : eTold[i] \in Nat /\ eTold[i] < next
    BY <1>0
  <2>6. \A n \in eFrom + 1 .. next : n = next \/ n \in eFrom + 1 .. lw.seen
    <3> DEFINE had == lw.seen
    <3>1. had \in Nat /\ eFrom \in Nat /\ next = had + 1
      BY <1>0
    <3> HIDE DEF had, next
    <3> QED
      BY <3>1 DEF had
  <2> HIDE DEF next
  <2>7. eTold \in Seq(1..next)
    BY <1>0, <2>3
  <2>8. CASE log[next].value = none
    <3>1. eTold' = eTold
      BY <2>1, <2>8
    <3> QED
      BY <2>1, <2>2, <2>4, <2>6, <2>7, <2>8, <3>1 DEF Telling
  <2>9. CASE log[next].value # none
    <3>1. /\ eTold' = Append(eTold, next) /\ eTold' \in Seq(1..next)
          /\ DOMAIN eTold' = DOMAIN eTold \cup {Len(eTold) + 1}
          /\ eTold'[Len(eTold) + 1] = next /\ Len(eTold) \in Nat
          /\ \A i \in DOMAIN eTold : eTold'[i] = eTold[i] /\ i \in Nat /\ i <= Len(eTold)
      BY <2>1, <2>3, <2>7, <2>9
    <3>2. \A i, j \in DOMAIN eTold' : i < j => eTold'[i] < eTold'[j]
      BY <2>5, <3>1 DEF Telling
    <3>3. \A i \in DOMAIN eTold' : log[eTold'[i]].value # none
      BY <2>9, <3>1 DEF Telling
    <3>4. \A n \in eFrom + 1 .. next :
            log[n].value # none => \E i \in DOMAIN eTold' : eTold'[i] = n
      BY <2>6, <3>1 DEF Telling
    <3> QED
      BY <2>1, <2>2, <2>4, <3>1, <3>2, <3>3, <3>4 DEF Telling
  <2> QED
    BY <2>8, <2>9
<1>5. CASE UNCHANGED ClusterEvents!events
  BY <1>5 DEF ClusterEvents!events, ClusterEvents!listwatch, ClusterEvents!occurrences,
              Listening, Telling
<1> QED
  BY <1>1, <1>2, <1>3, <1>4, <1>5 DEF ClusterEvents!Next

LEMMA ListeningTells ==
    ASSUME Telling
    PROVE  ClusterEvents!OccurrencesAreTold
  BY DEF Telling, ClusterEvents!OccurrencesAreTold

-----------------------------------------------------------------------------
(* The watcher of workloads *)

LEMMA WorkloadsRun ==
    ASSUME [NextParts]_parts, which' = "workloads"
    PROVE  which = "workloads" /\ [Workloads!Next]_(Workloads!workloads)
  BY DEF NextParts, Runs, Rest, parts, listwatch, workloads, Workloads!workloads,
         Workloads!listwatch, Workloads!changes

\* What is compared of a workload, and what is told of a change.
Specs == [generation : Nat \ {0}, image : Int, restarted : Int, replicas : Int,
          ready : BOOLEAN]
Frames == [object : Objects, value : Specs \cup {none}]
Changes == [type : {"deployment", "restart", "scale", "config"}, from : Nat, to : Nat]

\* A write makes a workload older, or deletes it.
LEMMA WritesAge ==
    ASSUME NEW v \in Specs \cup {none}, NEW w \in SpecWrites(v)
    PROVE  /\ w \in Specs \cup {none}
           /\ v # none /\ w # none => v.generation <= w.generation
<1>1. CASE v = none
  <2>1. w = [generation |-> 1, image |-> 1, restarted |-> 0, replicas |-> 1, ready |-> FALSE]
    BY <1>1 DEF SpecWrites, Born
  <2>2. w \in Specs
    BY <2>1 DEF Specs
  <2> QED
    BY <1>1, <2>2
<1>2. CASE v # none
  <2>1. v \in Specs /\ v.generation \in Nat \ {0}
    BY <1>2 DEF Specs
  <2>2. /\ \/ w = none \/ w = [v EXCEPT !.ready = ~@] \/ w = Bump(v)
           \/ w = Bump([v EXCEPT !.image = 3 - @]) \/ w = Bump([v EXCEPT !.restarted = 1])
           \/ w = Bump([v EXCEPT !.replicas = 3 - @])
    BY <1>2 DEF SpecWrites
  <2>3. ASSUME NEW x \in Specs
        PROVE  Bump(x) \in Specs /\ Bump(x).generation = x.generation + 1
    <3>1. x.generation + 1 \in Nat \ {0}
      BY DEF Specs
    <3> QED
      BY <3>1 DEF Bump, Specs
  <2>4. [v EXCEPT !.ready = ~@] \in Specs /\ [v EXCEPT !.ready = ~@].generation = v.generation
    BY <2>1 DEF Specs
  <2>5. /\ [v EXCEPT !.image = 3 - @] \in Specs
        /\ [v EXCEPT !.image = 3 - @].generation = v.generation
    <3>1. 3 - v.image \in Int
      BY <2>1 DEF Specs
    <3> QED
      BY <2>1, <3>1 DEF Specs
  <2>6. /\ [v EXCEPT !.restarted = 1] \in Specs
        /\ [v EXCEPT !.restarted = 1].generation = v.generation
    BY <2>1 DEF Specs
  <2>7. /\ [v EXCEPT !.replicas = 3 - @] \in Specs
        /\ [v EXCEPT !.replicas = 3 - @].generation = v.generation
    <3>1. 3 - v.replicas \in Int
      BY <2>1 DEF Specs
    <3> QED
      BY <2>1, <3>1 DEF Specs
  <2> DEFINE a == [v EXCEPT !.image = 3 - @]
             b == [v EXCEPT !.restarted = 1]
             c == [v EXCEPT !.replicas = 3 - @]
  <2>a. /\ a \in Specs /\ a.generation = v.generation /\ b \in Specs
        /\ b.generation = v.generation /\ c \in Specs /\ c.generation = v.generation
    BY <2>5, <2>6, <2>7
  <2> HIDE DEF a, b, c
  <2>8. CASE w = none
    BY <2>8
  <2>9. CASE w = [v EXCEPT !.ready = ~@]
    BY <2>1, <2>4, <2>9
  <2>10. CASE w = Bump(v)
    BY <2>1, <2>3, <2>10
  <2>11. CASE w = Bump([v EXCEPT !.image = 3 - @])
    <3>1. w = Bump(a)
      BY <2>11, Zenon DEF a
    <3>2. w \in Specs /\ w.generation = v.generation + 1
      BY <2>3, <2>a, <3>1
    <3> QED
      BY <2>1, <3>2
  <2>12. CASE w = Bump([v EXCEPT !.restarted = 1])
    <3>1. w = Bump(b)
      BY <2>12, Zenon DEF b
    <3>2. w \in Specs /\ w.generation = v.generation + 1
      BY <2>3, <2>a, <3>1
    <3> QED
      BY <2>1, <3>2
  <2>13. CASE w = Bump([v EXCEPT !.replicas = 3 - @])
    <3>1. w = Bump(c)
      BY <2>13, Zenon DEF c
    <3>2. w \in Specs /\ w.generation = v.generation + 1
      BY <2>3, <2>a, <3>1
    <3> QED
      BY <2>1, <3>2
  <2> QED
    BY <2>2, <2>8, <2>9, <2>10, <2>11, <2>12, <2>13
<1> QED
  BY <1>1, <1>2

\* What the first n frames make of an object.
Shows(l, o, n, v) ==
    \/ v = none /\ \A i \in 1..n : l[i].object # o
    \/ \E i \in 1..n : /\ l[i].object = o /\ l[i].value = v
                       /\ \A j \in i + 1 .. n : l[j].object # o

\* A deleted object is not written again, and no write makes one younger.
Aging ==
    \A i, j \in 1..Len(log) :
      i < j /\ log[i].object = log[j].object =>
        /\ log[i].value # none
        /\ log[j].value # none => log[i].value.generation <= log[j].value.generation

Logged ==
    /\ log \in Seq(Frames) /\ cluster \in [Objects -> Specs \cup {none}] /\ Aging
    /\ \A o \in Objects : Shows(log, o, Len(log), cluster[o])

LEMMA ShowsOne ==
    ASSUME NEW l, NEW n \in Nat, NEW o, NEW v, NEW w, Shows(l, o, n, v), Shows(l, o, n, w)
    PROVE  v = w
<1>1. CASE \A i \in 1..n : l[i].object # o
  BY <1>1 DEF Shows
<1>2. CASE \E i \in 1..n : l[i].object = o
  <2>1. PICK i \in 1..n : /\ l[i].object = o /\ l[i].value = v
                          /\ \A j \in i + 1 .. n : l[j].object # o
    BY <1>2 DEF Shows
  <2>2. PICK k \in 1..n : /\ l[k].object = o /\ l[k].value = w
                          /\ \A j \in k + 1 .. n : l[j].object # o
    BY <1>2 DEF Shows
  <2>3. i = k
    BY <2>1, <2>2
  <2> QED
    BY <2>1, <2>2, <2>3
<1> QED
  BY <1>1, <1>2

\* What more frames make of an object comes after what fewer made of it.
LEMMA ShowsAge ==
    ASSUME Logged, NEW m \in 0..Len(log), NEW n \in m..Len(log), NEW o, NEW v, NEW w,
           Shows(log, o, m, v), Shows(log, o, n, w), w # none
    PROVE  /\ v = none => \A i \in 1..m : log[i].object # o
           /\ v # none => v.generation <= w.generation
<1>1. Len(log) \in Nat /\ m \in Nat /\ n \in Nat /\ m <= n /\ n <= Len(log)
  BY DEF Logged
<1>2. PICK k \in 1..n : /\ log[k].object = o /\ log[k].value = w
                        /\ \A j \in k + 1 .. n : log[j].object # o
  BY DEF Shows
<1>3. CASE \A i \in 1..m : log[i].object # o
  BY <1>1, <1>3 DEF Shows
<1>4. CASE \E i \in 1..m : log[i].object = o
  <2>1. PICK i \in 1..m : /\ log[i].object = o /\ log[i].value = v
                          /\ \A j \in i + 1 .. m : log[j].object # o
    BY <1>4 DEF Shows
  <2>2. i \in 1..Len(log) /\ k \in 1..Len(log) /\ i <= k
    BY <1>1, <1>2, <2>1
  <2>3. CASE i = k
    <3>1. log[k] \in Frames
      BY <2>2 DEF Logged
    <3>2. w \in Specs
      BY <1>2, <3>1 DEF Frames
    <3>3. w.generation \in Nat
      BY <3>2 DEF Specs
    <3> QED
      BY <1>2, <2>1, <2>3, <3>3
  <2>4. CASE i < k
    BY <1>2, <2>1, <2>2, <2>4 DEF Logged, Aging
  <2> QED
    BY <2>2, <2>3, <2>4
<1> QED
  BY <1>3, <1>4

\* The first frames stay what they are when the log grows.
LEMMA ShowsStill ==
    ASSUME NEW l, NEW m, NEW n \in Nat, NEW o, NEW v, Shows(l, o, n, v),
           \A i \in 1..n : m[i] = l[i]
    PROVE  Shows(m, o, n, v)
<1>1. \A i \in 1..n : \A j \in i + 1 .. n : j \in 1..n
  OBVIOUS
<1> QED
  BY <1>1 DEF Shows

\* One frame more.
LEMMA ShowsMore ==
    ASSUME NEW l, NEW n \in Nat, NEW o, NEW v,
           IF l[n + 1].object = o THEN v = l[n + 1].value ELSE Shows(l, o, n, v)
    PROVE  Shows(l, o, n + 1, v)
<1>1. CASE l[n + 1].object = o
  <2>1. n + 1 \in 1 .. n + 1 /\ (n + 1) + 1 .. n + 1 = {}
    OBVIOUS
  <2> QED
    BY <1>1, <2>1 DEF Shows
<1>2. CASE l[n + 1].object # o
  <2>1. \A i \in 1 .. n + 1 : i = n + 1 \/ i \in 1..n
    OBVIOUS
  <2>2. CASE v = none /\ \A i \in 1..n : l[i].object # o
    BY <1>2, <2>1, <2>2 DEF Shows
  <2>3. CASE \E i \in 1..n : /\ l[i].object = o /\ l[i].value = v
                             /\ \A j \in i + 1 .. n : l[j].object # o
    <3>1. PICK i \in 1..n : /\ l[i].object = o /\ l[i].value = v
                            /\ \A j \in i + 1 .. n : l[j].object # o
      BY <2>3
    <3>2. \A j \in i + 1 .. n + 1 : j = n + 1 \/ j \in i + 1 .. n
      OBVIOUS
    <3>3. i \in 1 .. n + 1 /\ \A j \in i + 1 .. n + 1 : l[j].object # o
      BY <1>2, <3>1, <3>2
    <3> QED
      BY <3>1, <3>3 DEF Shows
  <2> QED
    BY <1>2, <2>2, <2>3 DEF Shows
<1> QED
  BY <1>1, <1>2

\* The changes told lead from the baseline to a generation, step by step.
Leads(changes, from) == IF Len(changes) = 0 THEN from ELSE changes[Len(changes)].to
Chain(changes, from) ==
    \A i \in DOMAIN changes :
      /\ changes[i].from < changes[i].to
      /\ changes[i].from = IF i = 1 THEN from ELSE changes[i - 1].to

LEMMA ChainGrows ==
    ASSUME NEW changes \in Seq(Changes), NEW from \in Nat, Chain(changes, from),
           NEW c \in Changes, c.from = Leads(changes, from), c.from < c.to
    PROVE  /\ changes \o <<c>> \in Seq(Changes) /\ Chain(changes \o <<c>>, from)
           /\ Leads(changes \o <<c>>, from) = c.to
<1> DEFINE more == changes \o <<c>>
           n == Len(changes)
<1>1. /\ more \in Seq(Changes) /\ n \in Nat /\ Len(more) = n + 1 /\ DOMAIN more = 1 .. n + 1
      /\ DOMAIN changes = 1..n /\ more[n + 1] = c /\ \A i \in 1..n : more[i] = changes[i]
  OBVIOUS
<1> HIDE DEF more, n
<1>2. Leads(changes, from) = IF n = 0 THEN from ELSE changes[n].to
  BY DEF Leads, n
<1>3. Leads(more, from) = c.to
  BY <1>1 DEF Leads
<1>4. ASSUME NEW i \in 1 .. n + 1
      PROVE  /\ more[i].from < more[i].to
             /\ more[i].from = IF i = 1 THEN from ELSE more[i - 1].to
  <2>1. CASE i \in 1..n
    <3>1. i = 1 \/ i - 1 \in 1..n
      BY <2>1, <1>1
    <3> QED
      BY <1>1, <2>1, <3>1 DEF Chain
  <2>2. CASE i = n + 1
    <3>1. (i = 1 <=> n = 0) /\ i - 1 = n /\ (n # 0 => n \in 1..n)
      BY <1>1, <2>2
    <3> QED
      BY <1>1, <1>2, <2>2, <3>1
  <2> QED
    BY <1>1, <2>1, <2>2
<1>5. Chain(more, from)
  BY <1>1, <1>4 DEF Chain
<1> QED
  BY <1>1, <1>3, <1>5 DEF more

\* What the watcher knows is what the frames it has seen make of the cluster,
\* and of the objects it has not seen nothing was told.
Watched ==
    /\ lw = [at |-> lw.at, seen |-> lw.seen] /\ lw.seen \in 0..Len(log)
    /\ state = [o \in DOMAIN state |-> state[o]] /\ DOMAIN state \subseteq Objects
    /\ \A o \in DOMAIN state : state[o] \in Specs /\ state[o] # none
    /\ \A o \in Objects : Shows(log, o, lw.seen, IF o \in DOMAIN state THEN state[o] ELSE none)
    /\ ~seeded => DOMAIN state = {} /\ lw.at # "watch" /\ lw.seen = 0

Chained ==
    /\ baseline \in [Objects -> Nat] /\ wTold \in [Objects -> Seq(Changes)]
    /\ \A o \in Objects :
         /\ Chain(wTold[o], baseline[o])
         /\ o \in DOMAIN state => Leads(wTold[o], baseline[o]) = state[o].generation
         /\ (\A i \in 1..lw.seen : log[i].object # o) => wTold[o] = <<>> /\ baseline[o] = 0

Watching == Logged /\ Watched /\ Chained

LEMMA InitWatches ==
    ASSUME Workloads!Init
    PROVE  Watching
<1>1. /\ cluster = [o \in Objects |-> none] /\ log = <<>> /\ lw = [at |-> "list", seen |-> 0]
      /\ state = <<>> /\ seeded = FALSE /\ wTold = [o \in Objects |-> <<>>]
      /\ baseline = [o \in Objects |-> 0]
  BY DEF Workloads!Init, Workloads!LWInit
<1>2. DOMAIN state = {} /\ Len(log) = 0 /\ 1..0 = {} /\ state = [o \in DOMAIN state |-> state[o]]
  BY <1>1
<1>3. \A o : Shows(log, o, 0, none)
  BY <1>2 DEF Shows
<1>4. Logged
  BY <1>1, <1>2, <1>3 DEF Logged, Aging
<1>5. Watched
  BY <1>1, <1>2, <1>3 DEF Watched
<1>6. Chained
  BY <1>1, <1>2 DEF Chained, Chain
<1> QED
  BY <1>4, <1>5, <1>6 DEF Watching

LEMMA WriteWatches ==
    ASSUME Watching, Workloads!Writing, UNCHANGED Workloads!changes
    PROVE  Watching'
<1>a. PICK o \in Objects : \E v \in SpecWrites(cluster[o]) : Workloads!Write(o, v)
  BY DEF Workloads!Writing
<1>1. PICK v \in SpecWrites(cluster[o]) : Workloads!Write(o, v)
  BY <1>a
<1> DEFINE n == Len(log)
           frame == [object |-> o, value |-> v]
<1>2. /\ cluster' = [cluster EXCEPT ![o] = v] /\ log' = Append(log, frame)
      /\ [object |-> o, value |-> none] \notin {log[i] : i \in DOMAIN log}
      /\ UNCHANGED <<lw, state, seeded, wTold, baseline>>
  BY <1>1 DEF Workloads!Write, Workloads!changes
<1>3. /\ log \in Seq(Frames) /\ cluster \in [Objects -> Specs \cup {none}] /\ n \in Nat
      /\ lw.seen \in Nat /\ lw.seen <= n
  BY DEF Watching, Logged, Watched
<1>4. /\ v \in Specs \cup {none}
      /\ cluster[o] # none /\ v # none => cluster[o].generation <= v.generation
  BY <1>3, WritesAge
<1>5. frame \in Frames
  BY <1>4 DEF Frames
<1>6. /\ log' \in Seq(Frames) /\ Len(log') = n + 1 /\ log'[n + 1] = frame
      /\ \A i \in 1..n : log'[i] = log[i] /\ log[i] \in Frames
      /\ DOMAIN log = 1..n
  BY <1>2, <1>3, <1>5
<1>f. frame.object = o /\ frame.value = v
  OBVIOUS
<1> HIDE DEF n, frame
<1>7. \A i \in 1..n : log[i].object = o => log[i].value # none
  BY <1>2, <1>6 DEF Frames
<1>8. \A i \in 1..n : log[i].object = o /\ v # none => log[i].value.generation <= v.generation
  <2> SUFFICES ASSUME NEW i \in 1..n, log[i].object = o, v # none
               PROVE  log[i].value.generation <= v.generation
    OBVIOUS
  <2>1. Shows(log, o, n, cluster[o])
    BY DEF Watching, Logged, n
  <2>2. PICK m \in 1..n : /\ log[m].object = o /\ log[m].value = cluster[o]
                          /\ \A j \in m + 1 .. n : log[j].object # o
    BY <2>1 DEF Shows
  <2>3. i <= m
    BY <1>3, <2>2
  <2>4. log[i].value # none /\ log[m].value # none
    BY <1>7, <2>2
  <2>5. i = m \/ log[i].value.generation <= log[m].value.generation
    BY <2>2, <2>3, <2>4 DEF Watching, Logged, Aging, n
  <2>6. log[i].value \in Specs /\ log[m].value \in Specs /\ v \in Specs
    BY <1>4, <1>6, <2>4 DEF Frames
  <2>7. /\ log[i].value.generation \in Nat /\ log[m].value.generation \in Nat
        /\ v.generation \in Nat
    BY <2>6 DEF Specs
  <2>8. log[m].value.generation <= v.generation
    BY <1>4, <2>2, <2>4
  <2> QED
    BY <2>5, <2>7, <2>8
<1>9. Aging'
  <2> SUFFICES ASSUME NEW i \in 1 .. n + 1, NEW j \in 1 .. n + 1, i < j,
                      log'[i].object = log'[j].object
               PROVE  /\ log'[i].value # none
                      /\ log'[j].value # none
                           => log'[i].value.generation <= log'[j].value.generation
    BY <1>6 DEF Aging
  <2>1. i \in 1..n /\ (j \in 1..n \/ j = n + 1)
    BY <1>3
  <2>2. CASE j \in 1..n
    BY <1>6, <2>1, <2>2 DEF Watching, Logged, Aging, n
  <2>3. CASE j = n + 1
    BY <1>6, <1>7, <1>8, <1>f, <2>1, <2>3
  <2> QED
    BY <2>1, <2>2, <2>3
<1>10. ASSUME NEW p \in Objects PROVE Shows(log', p, n + 1, cluster'[p])
  <2>1. CASE p = o
    <3>1. cluster'[p] = v
      BY <1>2, <1>3, <2>1
    <3> QED
      BY <1>3, <1>6, <1>f, <2>1, <3>1, ShowsMore
  <2>2. CASE p # o
    <3>1. cluster'[p] = cluster[p]
      BY <1>2, <1>3, <2>2
    <3>2. Shows(log, p, n, cluster[p])
      BY DEF Watching, Logged, n
    <3>3. Shows(log', p, n, cluster[p])
      BY <1>3, <1>6, <3>2, ShowsStill
    <3> QED
      BY <1>3, <1>6, <1>f, <2>2, <3>1, <3>3, ShowsMore
  <2> QED
    BY <2>1, <2>2
<1>11. cluster' \in [Objects -> Specs \cup {none}]
  BY <1>2, <1>3, <1>4
<1>12. Logged'
  BY <1>6, <1>9, <1>10, <1>11 DEF Logged
<1>13. \A i \in 1..lw.seen : log'[i] = log[i]
  BY <1>3, <1>6
<1>14. Watched'
  <2>1. ASSUME NEW p \in Objects
        PROVE  Shows(log', p, lw.seen, IF p \in DOMAIN state THEN state[p] ELSE none)
    BY <1>3, <1>13, ShowsStill DEF Watching, Watched
  <2>2. lw.seen \in 0..Len(log')
    BY <1>3, <1>6
  <2> QED
    BY <1>2, <2>1, <2>2 DEF Watching, Watched
<1>15. Chained'
  BY <1>2, <1>13 DEF Watching, Chained
<1> QED
  BY <1>12, <1>14, <1>15 DEF Watching

\* What a workload that is observed adds to the changes told of it.
LEMMA ObserveWatches ==
    ASSUME Watching, NEW o \in Objects, NEW next \in Specs,
           NEW n \in lw.seen..Len(log), Shows(log, o, n, next), next # none,
           NEW after, after = wTold[o] \o Workloads!Change(o, next, FALSE)
    PROVE  /\ after \in Seq(Changes) /\ Chain(after, baseline[o])
           /\ Leads(after, baseline[o]) = next.generation
<1>1. /\ wTold[o] \in Seq(Changes) /\ baseline[o] \in Nat /\ Chain(wTold[o], baseline[o])
      /\ next.generation \in Nat \ {0} /\ lw.seen \in 0..Len(log)
  BY DEF Watching, Chained, Watched, Specs
<1>2. wTold[o] \o <<>> = wTold[o]
  BY <1>1
<1>3. CASE o \notin DOMAIN state
  <2>1. Shows(log, o, lw.seen, none)
    BY <1>3 DEF Watching, Watched
  <2>2. \A i \in 1..lw.seen : log[i].object # o
    BY <1>1, <2>1, ShowsAge DEF Watching
  <2>3. wTold[o] = <<>> /\ baseline[o] = 0
    BY <2>2 DEF Watching, Chained
  <2> DEFINE c == [type |-> "deployment", from |-> 0, to |-> next.generation]
  <2>4. after = wTold[o] \o <<c>>
    BY <1>3 DEF Workloads!Change, Workloads!Known
  <2>5. c \in Changes /\ c.from = 0 /\ c.to = next.generation
    BY <1>1 DEF Changes
  <2> HIDE DEF c
  <2>6. Leads(wTold[o], baseline[o]) = 0
    BY <2>3 DEF Leads
  <2> QED
    <3>1. c.from = Leads(wTold[o], baseline[o]) /\ c.from < c.to
      BY <1>1, <2>5, <2>6
    <3> QED
      BY <1>1, <2>4, <2>5, <3>1, ChainGrows
<1>4. CASE o \in DOMAIN state
  <2>1. /\ Shows(log, o, lw.seen, state[o]) /\ state[o] # none /\ state[o] \in Specs
        /\ Leads(wTold[o], baseline[o]) = state[o].generation
    BY <1>4 DEF Watching, Watched, Chained
  <2>2. state[o].generation <= next.generation /\ state[o].generation \in Nat
    BY <1>1, <2>1, ShowsAge DEF Watching, Specs
  <2>3. CASE next.generation = state[o].generation
    <3>1. after = wTold[o]
      BY <1>2, <1>4, <2>3 DEF Workloads!Change, Workloads!Known
    <3> QED
      BY <1>1, <1>4, <2>1, <2>3, <3>1
  <2>4. CASE next.generation # state[o].generation
    <3> DEFINE kind == Workloads!Classify(state[o], next)
    <3>1. kind \in {"deployment", "restart", "scale", "config"}
      BY DEF Workloads!Classify
    <3> HIDE DEF kind
    <3> DEFINE c == [type |-> kind, from |-> state[o].generation, to |-> next.generation]
    <3>2. after = wTold[o] \o <<c>>
      BY <1>4, <2>4 DEF Workloads!Change, Workloads!Known, kind
    <3>3. c \in Changes /\ c.from = state[o].generation /\ c.to = next.generation
      BY <1>1, <2>2, <3>1 DEF Changes
    <3> HIDE DEF c
    <3>4. state[o].generation < next.generation
      BY <1>1, <2>2, <2>4
    <3> QED
      BY <1>1, <1>4, <2>1, <3>2, <3>3, <3>4, ChainGrows
  <2> QED
    BY <2>3, <2>4
<1> QED
  BY <1>3, <1>4
\* The first list tells nothing: it is the baseline.
LEMMA SeedWatches ==
    ASSUME Watching, ~seeded, NEW o \in Objects, NEW next \in Specs,
           NEW after, after = wTold[o] \o Workloads!Change(o, next, TRUE)
    PROVE  /\ after \in Seq(Changes) /\ Chain(after, next.generation)
           /\ Leads(after, next.generation) = next.generation
<1>1. DOMAIN state = {} /\ 1..lw.seen = {}
  BY DEF Watching, Watched
<1>2. wTold[o] = <<>>
  BY <1>1 DEF Watching, Chained
<1>3. after = <<>>
  BY <1>1, <1>2 DEF Workloads!Change, Workloads!Known
<1>a. DOMAIN <<>> = {} /\ Len(<<>>) = 0
  OBVIOUS
<1>4. DOMAIN after = {} /\ Len(after) = 0
  BY <1>3, <1>a, Zenon
<1>5. after \in Seq(Changes)
  BY <1>2, <1>3 DEF Watching, Chained
<1> QED
  BY <1>4, <1>5 DEF Chain, Leads

LEMMA ListWatches ==
    ASSUME Watching, Workloads!OnList
    PROVE  Watching'
<1> DEFINE present == {o \in Objects : cluster[o] # none}
           n == Len(log)
           seed == ~seeded
<1>1. /\ lw' = [at |-> "watch", seen |-> n] /\ UNCHANGED <<cluster, log>>
      /\ state' = [o \in present |-> cluster[o]] /\ seeded' = TRUE
      /\ wTold' = [o \in Objects |->
                     IF o \in present THEN wTold[o] \o Workloads!Change(o, cluster[o], seed)
                     ELSE wTold[o]]
      /\ baseline' = IF seeded THEN baseline
                     ELSE [o \in Objects |-> IF o \in present THEN cluster[o].generation
                                             ELSE 0]
  BY DEF Workloads!OnList, Workloads!List, Workloads!Seeding
<1>2. /\ n \in Nat /\ lw.seen \in 0..n /\ n \in lw.seen..n /\ n \in 0..n /\ seed \in BOOLEAN
      /\ lw'.seen = n /\ lw'.at = "watch" /\ lw' = [at |-> lw'.at, seen |-> lw'.seen]
      /\ 1..lw.seen \subseteq 1..n
  BY <1>1 DEF Watching, Logged, Watched
<1>3. seed => DOMAIN state = {} /\ lw.seen = 0
  BY DEF Watching, Watched
<1>4. \A o \in Objects : Shows(log, o, n, cluster[o]) /\ cluster[o] \in Specs \cup {none}
  BY DEF Watching, Logged
<1>5. \A o \in present : o \in Objects /\ cluster[o] \in Specs /\ cluster[o] # none
  BY <1>4
<1>6. \A o \in Objects : o \notin present => cluster[o] = none
  OBVIOUS
<1>7. Logged'
  BY <1>1 DEF Watching, Logged, Aging
<1>s. DOMAIN state' = present /\ \A o \in present : state'[o] = cluster[o]
  BY <1>1
<1> HIDE DEF n, seed, present
<1>8. Watched'
  <2>1. /\ DOMAIN state' = present /\ \A o \in present : state'[o] = cluster[o]
        /\ state' = [o \in DOMAIN state' |-> state'[o]]
    BY <1>1
  <2>2. \A o \in Objects : Shows(log, o, n, IF o \in present THEN cluster[o] ELSE none)
    BY <1>4, <1>6
  <2>3. \A o \in Objects :
          (IF o \in DOMAIN state' THEN state'[o] ELSE none)
            = IF o \in present THEN cluster[o] ELSE none
    BY <2>1
  <2>4. \A o \in Objects :
          Shows(log', o, lw'.seen, IF o \in DOMAIN state' THEN state'[o] ELSE none)
    BY <1>1, <1>2, <2>2, <2>3
  <2>5. lw'.seen \in 0..Len(log')
    BY <1>1, <1>2 DEF n
  <2> QED
    BY <1>1, <1>2, <1>5, <2>1, <2>4, <2>5 DEF Watched
<1>9. ASSUME NEW o \in present
      PROVE  /\ wTold'[o] \in Seq(Changes) /\ baseline'[o] \in Nat
             /\ Chain(wTold'[o], baseline'[o])
             /\ Leads(wTold'[o], baseline'[o]) = cluster[o].generation
  <2> DEFINE after == wTold'[o]
             next == cluster[o]
  <2>1. /\ n \in lw.seen..Len(log) /\ Shows(log, o, n, next) /\ o \in Objects
        /\ next \in Specs /\ next # none
    BY <1>2, <1>4, <1>5 DEF n
  <2>2. next.generation \in Nat
    BY <2>1 DEF Specs
  <2>3. CASE seeded
    <3>1. Workloads!Change(o, next, seed) = Workloads!Change(o, next, FALSE)
      BY <2>3 DEF seed, Workloads!Change
    <3>2. after = wTold[o] \o Workloads!Change(o, next, FALSE) /\ baseline' = baseline
      BY <1>1, <1>5, <2>3, <3>1
    <3> HIDE DEF after, next
    <3>3. /\ after \in Seq(Changes) /\ Chain(after, baseline[o])
          /\ Leads(after, baseline[o]) = next.generation
      BY <2>1, <3>2, ObserveWatches
    <3>4. baseline[o] \in Nat
      BY <2>1 DEF Watching, Chained
    <3> QED
      BY <3>2, <3>3, <3>4 DEF after, next
  <2>4. CASE ~seeded
    <3>1. Workloads!Change(o, next, seed) = Workloads!Change(o, next, TRUE)
      BY <2>4 DEF seed, Workloads!Change
    <3>2. /\ after = wTold[o] \o Workloads!Change(o, next, TRUE)
          /\ baseline'[o] = next.generation
      BY <1>1, <1>5, <2>4, <3>1
    <3> HIDE DEF after, next
    <3>3. /\ after \in Seq(Changes) /\ Chain(after, next.generation)
          /\ Leads(after, next.generation) = next.generation
      BY <2>1, <2>4, <3>2, SeedWatches
    <3> QED
      BY <2>2, <3>2, <3>3 DEF after, next
  <2> QED
    BY <2>3, <2>4
<1>10. ASSUME NEW o \in Objects, o \notin present
       PROVE  /\ wTold'[o] = wTold[o] /\ wTold'[o] \in Seq(Changes) /\ baseline'[o] \in Nat
              /\ Chain(wTold'[o], baseline'[o])
  <2>1. wTold'[o] = wTold[o]
    BY <1>1, <1>10
  <2>2. CASE seeded
    BY <1>1, <2>1, <2>2 DEF Watching, Chained
  <2>3. CASE ~seeded
    <3>1. baseline'[o] = 0
      BY <1>1, <1>10, <2>3
    <3>2. wTold[o] = <<>>
      <4>1. 1..lw.seen = {}
        BY <1>3, <2>3 DEF seed
      <4> QED
        BY <4>1 DEF Watching, Chained
    <3> QED
      BY <2>1, <3>1, <3>2 DEF Chain
  <2> QED
    BY <2>2, <2>3
<1>11. ASSUME NEW o \in Objects, \A i \in 1..n : log[i].object # o
       PROVE  wTold'[o] = <<>> /\ baseline'[o] = 0
  <2>1. cluster[o] = none
    BY <1>4, <1>11 DEF Shows
  <2>2. o \notin present
    BY <1>5, <2>1
  <2>3. wTold[o] = <<>> /\ baseline[o] = 0
    BY <1>2, <1>11 DEF Watching, Chained
  <2> QED
    BY <1>1, <2>2, <2>3
<1>12. Chained'
  <2>1. baseline' \in [Objects -> Nat] /\ wTold' \in [Objects -> Seq(Changes)]
    <3>1. baseline' = [o \in Objects |-> baseline'[o]]
      BY <1>1 DEF Watching, Chained
    <3>2. wTold' = [o \in Objects |-> wTold'[o]]
      BY <1>1
    <3> QED
      BY <1>9, <1>10, <3>1, <3>2
  <2> QED
    BY <1>1, <1>2, <1>9, <1>10, <1>11, <1>s, <2>1 DEF Chained
<1> QED
  BY <1>7, <1>8, <1>12 DEF Watching

LEMMA EventWatches ==
    ASSUME Watching, Workloads!OnEvent
    PROVE  Watching'
<1> DEFINE n == lw.seen + 1
           o == log[n].object
           next == log[n].value
<1>1. /\ lw.at = "watch" /\ lw.seen < Len(log) /\ lw' = [lw EXCEPT !.seen = @ + 1]
      /\ UNCHANGED <<cluster, log, seeded, baseline>>
  BY DEF Workloads!OnEvent, Workloads!Watch
<1>2. IF next = none
      THEN /\ state' = [k \in DOMAIN state \ {o} |-> state[k]] /\ wTold' = wTold
      ELSE /\ state' = [k \in DOMAIN state \cup {o} |-> IF k = o THEN next ELSE state[k]]
           /\ wTold' = [wTold EXCEPT ![o] = @ \o Workloads!Change(o, next, FALSE)]
  BY DEF Workloads!OnEvent, Workloads!Frame
<1>3. /\ lw.seen \in Nat /\ Len(log) \in Nat /\ n \in 1..Len(log) /\ n \in lw.seen..Len(log)
      /\ n \in Nat /\ n \in 0..Len(log) /\ 1..lw.seen \subseteq 1..n /\ n \in 1..n
  BY <1>1 DEF Watching, Logged, Watched
<1>4. lw'.seen = n /\ lw'.at = "watch" /\ lw' = [at |-> lw'.at, seen |-> lw'.seen]
  BY <1>1 DEF Watching, Watched
<1>5. o \in Objects /\ next \in Specs \cup {none}
  <2>1. log[n] \in Frames
    BY <1>3 DEF Watching, Logged
  <2> QED
    BY <2>1 DEF Frames
<1>6. \A p : Shows(log, p, n, IF p = o THEN next
                              ELSE IF p \in DOMAIN state THEN state[p] ELSE none)
             \/ p \notin Objects
  <2> SUFFICES ASSUME NEW p \in Objects
               PROVE  Shows(log, p, n, IF p = o THEN next
                                       ELSE IF p \in DOMAIN state THEN state[p] ELSE none)
    OBVIOUS
  <2>1. Shows(log, p, lw.seen, IF p \in DOMAIN state THEN state[p] ELSE none)
    BY DEF Watching, Watched
  <2>2. CASE p = o
    BY <1>3, <2>2, ShowsMore
  <2>3. CASE p # o
    BY <1>3, <2>1, <2>3, ShowsMore
  <2> QED
    BY <2>2, <2>3
<1>h. o = log[n].object
  OBVIOUS
<1> HIDE DEF n, o, next
<1>7. Logged'
  BY <1>1 DEF Watching, Logged, Aging
<1>8. /\ DOMAIN state' \subseteq Objects /\ state' = [k \in DOMAIN state' |-> state'[k]]
      /\ \A p \in DOMAIN state' : /\ state'[p] \in Specs /\ state'[p] # none
                                  /\ p # o => p \in DOMAIN state /\ state'[p] = state[p]
      /\ \A p \in Objects :
           (IF p \in DOMAIN state' THEN state'[p] ELSE none)
             = IF p = o THEN next ELSE IF p \in DOMAIN state THEN state[p] ELSE none
      /\ o \in DOMAIN state' => state'[o] = next /\ next # none
  <2>1. DOMAIN state \subseteq Objects
        /\ \A p \in DOMAIN state : state[p] \in Specs /\ state[p] # none
    BY DEF Watching, Watched
  <2>2. CASE next = none
    BY <1>2, <1>5, <2>1, <2>2
  <2>3. CASE next # none
    BY <1>2, <1>5, <2>1, <2>3
  <2> QED
    BY <2>2, <2>3
<1>9. Watched'
  <2>1. \A p \in Objects :
          Shows(log', p, lw'.seen, IF p \in DOMAIN state' THEN state'[p] ELSE none)
    BY <1>1, <1>4, <1>6, <1>8
  <2>2. seeded'
    BY <1>1 DEF Watching, Watched
  <2>3. lw'.seen \in 0..Len(log')
    BY <1>1, <1>3, <1>4
  <2> QED
    BY <1>4, <1>8, <2>1, <2>2, <2>3 DEF Watched
<1>10. Chained'
  <2>1. /\ baseline' = baseline /\ baseline \in [Objects -> Nat]
        /\ wTold \in [Objects -> Seq(Changes)]
        /\ \A p \in Objects : p # o => wTold'[p] = wTold[p]
    BY <1>1, <1>2 DEF Watching, Chained
  <2>2. ASSUME NEW p \in Objects, \A i \in 1..n : log[i].object # p
        PROVE  p # o /\ wTold[p] = <<>> /\ baseline[p] = 0
    BY <1>3, <1>h, <2>2 DEF Watching, Chained
  <2>3. /\ wTold' \in [Objects -> Seq(Changes)] /\ Chain(wTold'[o], baseline[o])
        /\ o \in DOMAIN state' => Leads(wTold'[o], baseline[o]) = state'[o].generation
    <3>1. CASE next = none
      BY <1>2, <1>5, <1>8, <3>1 DEF Watching, Chained
    <3>2. CASE next # none
      <4>1. wTold'[o] = wTold[o] \o Workloads!Change(o, next, FALSE)
        BY <1>2, <1>5, <2>1, <3>2
      <4>2. Shows(log, o, n, next) /\ next \in Specs
        BY <1>5, <1>6, <3>2
      <4>3. /\ wTold'[o] \in Seq(Changes) /\ Chain(wTold'[o], baseline[o])
            /\ Leads(wTold'[o], baseline[o]) = next.generation
        <5> DEFINE after == wTold'[o]
        <5>1. after = wTold[o] \o Workloads!Change(o, next, FALSE)
          BY <4>1
        <5> HIDE DEF after
        <5>2. /\ after \in Seq(Changes) /\ Chain(after, baseline[o])
              /\ Leads(after, baseline[o]) = next.generation
          BY <1>3, <1>5, <3>2, <4>2, <5>1, ObserveWatches
        <5> QED
          BY <5>2 DEF after
      <4>4. wTold' \in [Objects -> Seq(Changes)]
        BY <1>2, <2>1, <3>2, <4>1, <4>3
      <4> QED
        BY <1>8, <4>3, <4>4
    <3> QED
      BY <3>1, <3>2
  <2>4. \A p \in Objects : p # o =>
          /\ Chain(wTold[p], baseline[p])
          /\ p \in DOMAIN state' => Leads(wTold[p], baseline[p]) = state'[p].generation
    BY <1>8 DEF Watching, Chained
  <2>5. \A p \in Objects : (\A i \in 1..n : log[i].object # p) =>
          wTold'[p] = <<>> /\ baseline'[p] = 0
    BY <2>1, <2>2
  <2>6. \A p \in Objects :
          /\ Chain(wTold'[p], baseline'[p])
          /\ p \in DOMAIN state' => Leads(wTold'[p], baseline'[p]) = state'[p].generation
    <3> TAKE p \in Objects
    <3>1. CASE p = o
      BY <2>1, <2>3, <3>1
    <3>2. CASE p # o
      BY <2>1, <2>4, <3>2
    <3> QED
      BY <3>1, <3>2
  <2> QED
    BY <1>1, <1>4, <2>1, <2>3, <2>5, <2>6 DEF Chained
<1> QED
  BY <1>7, <1>9, <1>10 DEF Watching

LEMMA NextWatches ==
    ASSUME Watching, [Workloads!Next]_(Workloads!workloads)
    PROVE  Watching'
<1>1. CASE Workloads!Writing /\ UNCHANGED Workloads!changes
  BY <1>1, WriteWatches
<1>2. CASE Workloads!Breaks /\ UNCHANGED Workloads!changes
  <2>1. /\ UNCHANGED <<cluster, log, state, seeded, wTold, baseline>>
        /\ \E w \in {"list", "wait"} : lw' = [lw EXCEPT !.at = w]
    BY <1>2 DEF Workloads!Breaks, Workloads!ListFails, Workloads!WatchEnds,
                Workloads!Wakes, Workloads!changes
  <2>2. /\ lw'.seen = lw.seen /\ lw' = [at |-> lw'.at, seen |-> lw'.seen]
        /\ lw'.at # "watch"
    BY <2>1 DEF Watching, Watched
  <2> QED
    BY <2>1, <2>2 DEF Watching, Logged, Aging, Watched, Chained
<1>3. CASE UNCHANGED Workloads!workloads
  BY <1>3 DEF Workloads!workloads, Workloads!listwatch, Workloads!changes, Watching,
              Logged, Aging, Watched, Chained
<1> QED
  BY <1>1, <1>2, <1>3, ListWatches, EventWatches DEF Workloads!Next

LEMMA WatchingChains ==
    ASSUME Watching
    PROVE  Workloads!ChangesChain
<1>1. ASSUME NEW o \in Objects
      PROVE  /\ wTold[o] \in Seq(Changes) /\ Chain(wTold[o], baseline[o])
             /\ baseline[o] \in Nat
             /\ o \in DOMAIN state => Leads(wTold[o], baseline[o]) = state[o].generation
  BY DEF Watching, Chained
<1>2. ASSUME NEW o \in Objects, NEW i \in DOMAIN wTold[o]
      PROVE  /\ wTold[o][i].from < wTold[o][i].to
             /\ wTold[o][i].from = Workloads!ToldUpTo(o, i - 1)
  <2>1. i \in Nat /\ (i = 1 <=> i - 1 = 0)
    BY <1>1
  <2> QED
    BY <1>1, <2>1 DEF Chain, Workloads!ToldUpTo
<1>3. ASSUME NEW o \in Objects, o \in DOMAIN state
      PROVE  Workloads!ToldUpTo(o, Len(wTold[o])) = state[o].generation
  BY <1>1, <1>3 DEF Leads, Workloads!ToldUpTo
<1>4. ASSUME lw.seen = Len(log), NEW o \in Objects
      PROVE  (IF o \in DOMAIN state THEN state[o] ELSE none) = cluster[o]
  <2>1. /\ Len(log) \in Nat /\ Shows(log, o, Len(log), cluster[o])
        /\ Shows(log, o, Len(log), IF o \in DOMAIN state THEN state[o] ELSE none)
    BY <1>4 DEF Watching, Logged, Watched
  <2> QED
    BY <2>1, ShowsOne
<1>5. \A o \in DOMAIN state : state[o] # none
  BY DEF Watching, Watched
<1> QED
  BY <1>2, <1>3, <1>4, <1>5 DEF Workloads!ChangesChain, Workloads!Known

\* What the kubernetes plugin tells of a cluster has no hole and no repetition,
\* whatever watches expire, frames are lost and lists miss in between: each
\* change of a workload starts where the one before it ended and leads to what
\* the watcher knows (the change watcher's list and frame callbacks), and each
\* occurrence of an event read since the last list is told once, in order.
THEOREM ClusterTold == SpecParts => []ClusterIsTold
<1> DEFINE Inv ==
      /\ which = "workloads" => Watching
      /\ which = "events" => Listening /\ Telling
<1>1. InitParts => Inv
  BY InitWatches, InitListens DEF InitParts
<1>2. Inv /\ [NextParts]_parts => Inv'
  BY WorkloadsRun, NextWatches, EventsRun, NextListens
<1>3. Inv => ClusterIsTold
  BY WatchingChains, ListeningTells DEF ClusterIsTold
<1> QED
  BY <1>1, <1>2, <1>3, PTL DEF SpecParts
=============================================================================

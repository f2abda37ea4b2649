------------------------------ MODULE Journald ------------------------------
(***************************************************************************)
(* The journald plugin: it follows journalctl, names the service of each   *)
(* entry, hands it over and records a cursor that a goroutine writes to a  *)
(* file at most once a second and once more at the end.  A life starts     *)
(* after the cursor of the file, or at the tail of the journal.            *)
(*                                                                         *)
(* A cursor is an index of Journal, 0 when there is none.  Texts, levels   *)
(* and timestamps are left out; a name is matched by belonging to a set.   *)
(***************************************************************************)
EXTENDS Integers, Sequences, FiniteSets

LOCAL INSTANCE TLC

CONSTANTS
    Journal,     \* the entries: [unit, identifier, message], "" for none
    Excluded,    \* the names matched by the exclusion patterns
    Transient,   \* collapseTransient: the unit names it changes -> the kind
    Routes,      \* the routes: sequence of [messages, service]
    MaxLearned,  \* maxLearnedIdentifiers
    MaxLives     \* bound: starts of the plugin

JournaldAssumption ==
    /\ Journal \in Seq([unit : STRING, identifier : STRING, message : STRING])
    /\ MaxLearned \in Nat /\ MaxLives \in Nat

VARIABLES
    size,      \* how many entries the journal holds
    phase,     \* "down", "running" or "stopping"
    pos,       \* the last entry read from journalctl
    cursors,   \* the cursorWriter: [pending, written, flushing]
    resolver,  \* the unitResolver: [units, ambiguous]
    disk,      \* what survives: [cursor, identity]
    sent,      \* history: entry -> the services it was handed over under
    origin,    \* history: where the last start without a cursor began
    upto,      \* history: the last entry handled before the last end
    clean,     \* history: whether that end was clean, its write included
    lives

journald == <<size, phase, pos, cursors, resolver, disk, sent, origin, upto, clean, lives>>

Entries == 1..Len(Journal)
NoCursors == [pending |-> 0, written |-> 0, flushing |-> 0]
NothingLearnt == [units |-> <<>>, ambiguous |-> {}]

Init ==
    /\ size = 0 /\ phase = "down" /\ pos = 0 /\ cursors = NoCursors
    /\ resolver = NothingLearnt /\ disk = [cursor |-> 0, identity |-> NothingLearnt]
    /\ sent = [i \in Entries |-> {}] /\ origin = 0
    /\ upto = 0 /\ clean = FALSE /\ lives = 0

----------------------------------------------------------------------------
(* Naming the service of an entry *)

Decoded(e) == e.message /= ""
IsExcluded(e) == {e.unit, e.identifier} \cap (Excluded \ {""}) /= {}

Service(e) == IF e.unit /= "" THEN e.unit ELSE e.identifier
CollapseTransient(service) ==
    IF service \in DOMAIN Transient THEN Transient[service] ELSE service

Learn(r, identifier, service) ==
    IF \/ "" \in {identifier, service} \/ identifier = service
       \/ identifier \in r.ambiguous
    THEN r
    ELSE IF identifier \in DOMAIN r.units
    THEN IF r.units[identifier] = service THEN r
         ELSE [units |-> [n \in DOMAIN r.units \ {identifier} |-> r.units[n]],
               ambiguous |-> r.ambiguous \cup {identifier}]
    ELSE IF Cardinality(DOMAIN r.units) >= MaxLearned THEN r
    ELSE [r EXCEPT !.units = (identifier :> service) @@ @]

\* resolve: an entry with its unit teaches, one without it asks.
Learnt(e) ==
    IF e.unit = "" THEN resolver
    ELSE Learn(resolver, e.identifier, CollapseTransient(Service(e)))
Resolved(e) ==
    IF e.unit = "" /\ e.identifier \in DOMAIN resolver.units
    THEN resolver.units[e.identifier]
    ELSE CollapseTransient(Service(e))

RouteMessage(service, message) ==
    LET claims == {r \in DOMAIN Routes : message \in Routes[r].messages} IN
    IF claims = {} THEN service
    ELSE Routes[CHOOSE r \in claims : \A q \in claims : r <= q].service

Destination(e) ==
    LET service == RouteMessage(Resolved(e), e.message) IN
    IF service = "" THEN "journal" ELSE service

----------------------------------------------------------------------------
(* The life of the plugin *)

\* A program of the host writes to the journal.
Log ==
    /\ size < Len(Journal) /\ size' = size + 1
    /\ UNCHANGED <<phase, pos, cursors, resolver, disk, sent, origin, upto, clean, lives>>

\* The arguments of journalctl: after the cursor, else at the tail.
Args(cursor) == IF cursor /= 0 THEN cursor ELSE size

Start ==
    /\ phase = "down" /\ lives < MaxLives
    /\ lives' = lives + 1 /\ phase' = "running"
    /\ pos' = Args(disk.cursor)
    /\ origin' = IF disk.cursor /= 0 THEN origin ELSE size
    /\ cursors' = NoCursors /\ resolver' = disk.identity
    /\ UNCHANGED <<size, disk, sent, upto, clean>>

\* Mutant: the position is recorded before the entry is handed over.
RecordedFirst(e, delivered) == Decoded(e)

\* Whether the handler records the cursor: a failed emit ends the stream
\* before it does, a line that does not decode never reaches it.
Recorded(e, delivered) == Decoded(e) /\ (IsExcluded(e) \/ delivered)

\* Read and its handler, for one line of journalctl.  The identities learnt
\* are saved on the spot, which may fail.
Handle ==
    /\ phase = "running" /\ pos < size
    /\ pos' = pos + 1
    /\ \E delivered, saved \in BOOLEAN :
         LET e == Journal[pos + 1]
             skipped == ~Decoded(e) \/ IsExcluded(e) IN
         /\ phase' = IF skipped \/ delivered THEN phase ELSE "stopping"
         /\ cursors' = IF Recorded(e, delivered)
                       THEN [cursors EXCEPT !.pending = pos + 1] ELSE cursors
         /\ resolver' = IF skipped THEN resolver ELSE Learnt(e)
         /\ disk' = IF saved /\ resolver' /= resolver
                    THEN [disk EXCEPT !.identity = resolver'] ELSE disk
         /\ sent' = IF skipped \/ ~delivered THEN sent
                    ELSE [sent EXCEPT ![pos + 1] = @ \cup {Destination(e)}]
    /\ UNCHANGED <<size, origin, upto, clean, lives>>

\* flush takes the pending cursor, at a tick or when the stream has ended,
\* while the reader goes on; the file changes when the rename does.
Flush ==
    /\ phase /= "down" /\ cursors.flushing = 0
    /\ cursors.pending \notin {0, cursors.written}
    /\ cursors' = [cursors EXCEPT !.flushing = cursors.pending]
    /\ UNCHANGED <<size, phase, pos, resolver, disk, sent, origin, upto, clean, lives>>

Flushed ==
    /\ phase /= "down" /\ cursors.flushing /= 0
    /\ cursors' = [cursors EXCEPT !.written = cursors.flushing, !.flushing = 0]
    /\ disk' = [disk EXCEPT !.cursor = cursors.flushing]
    /\ UNCHANGED <<size, phase, pos, resolver, sent, origin, upto, clean, lives>>

\* The context of the plugin ends, or journalctl does.
Stop ==
    /\ phase = "running" /\ phase' = "stopping"
    /\ UNCHANGED <<size, pos, cursors, resolver, disk, sent, origin, upto, clean, lives>>

\* stream returns once the goroutine has flushed a last time.
Stopped ==
    /\ phase = "stopping" /\ cursors.flushing = 0
    /\ cursors.pending \in {0, cursors.written}
    /\ phase' = "down" /\ clean' = TRUE /\ upto' = cursors.pending
    /\ UNCHANGED <<size, pos, cursors, resolver, disk, sent, origin, lives>>

\* A write or a rename fails: this flush is given up, at the end for good.
FlushFails ==
    /\ phase /= "down" /\ cursors.flushing /= 0
    /\ cursors' = [cursors EXCEPT !.flushing = 0]
    /\ phase' = IF phase = "stopping" THEN "down" ELSE phase
    /\ clean' = (clean /\ phase /= "stopping")
    /\ UNCHANGED <<size, pos, resolver, disk, sent, origin, upto, lives>>

Crash ==
    /\ phase /= "down" /\ phase' = "down" /\ clean' = FALSE
    /\ UNCHANGED <<size, pos, cursors, resolver, disk, sent, origin, upto, lives>>

Next ==
    \/ Log \/ Start \/ Handle \/ Stop \/ Stopped \/ Crash
    \/ Flush \/ Flushed \/ FlushFails

Spec == Init /\ [][Next]_journald

----------------------------------------------------------------------------
(* Properties *)

\* Every entry between the start of the stream and the cursor on the disk
\* was handed over, or is one the plugin skips: a restart, after a crash as
\* after a stop, passes over nothing; and after a clean stop the cursor is
\* the last position recorded, so that nothing is read twice.
ResumesWhereItStopped ==
    /\ \A i \in origin + 1..disk.cursor :
         sent[i] /= {} \/ ~Decoded(Journal[i]) \/ IsExcluded(Journal[i])
    /\ phase = "down" /\ clean /\ upto /= 0 => disk.cursor = upto
=============================================================================

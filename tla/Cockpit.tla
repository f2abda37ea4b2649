------------------------------- MODULE Cockpit -------------------------------
(***************************************************************************)
(* The scaleway plugin: it polls the log store for what happened since a   *)
(* cursor, a page at a time, and names each line by a listing of the       *)
(* containers that another goroutine refreshes.  A new life starts a       *)
(* lookback before the present.                                            *)
(*                                                                         *)
(* A line is an index, in the order the store returns lines; its text is   *)
(* reduced to whether it is blank once unwrapped.                          *)
(***************************************************************************)
EXTENDS Integers, Sequences, FiniteSets

CONSTANTS
    At,          \* the lines: their timestamps, in order
    Blank,       \* the lines that are blank
    Of,          \* line -> the container it comes from
    Limit,       \* the size of a page
    Lookback,
    Environment, \* the environment configured, "" for none
    MaxLives,    \* bound: starts of the plugin
    MaxRefreshes \* bound: refreshes of the listing

Lines == DOMAIN At

\* The store holds the lines in the order of time, and each is a line of its own:
\* no two of one instant have the same text.
CockpitAssumption ==
    /\ At \in Seq(Nat) /\ Limit \in Nat \ {0} /\ Lookback \in Nat
    /\ \A i, j \in Lines : i <= j => At[i] <= At[j]

VARIABLES
    stored,     \* how many lines the store holds
    cursor,     \* LogClient: the timestamp of the newest line returned
    seen,       \* LogClient: the lines returned at that timestamp
    byID,       \* directory: container -> the environment it is listed under
    existing,   \* external: the containers the account holds
    deleted,    \* external: those it held once
    life,       \* history: the lines shipped since the start
    shipped,    \* history: line -> how it was attributed, [named, environment]
    twice,      \* history: lines shipped twice in one life
    starts, refreshes

logs == <<stored, cursor, seen>>
directory == <<byID, existing, deleted, refreshes>>
history == <<life, shipped, twice, starts>>
cockpit == <<logs, directory, history>>

Init ==
    /\ stored = 0 /\ cursor = 0 /\ seen = {} /\ byID = <<>> /\ existing = {} /\ deleted = {}
    /\ life = {} /\ shipped = [i \in Lines |-> {}] /\ twice = {}
    /\ starts = 0 /\ refreshes = 0

Larger(a, b) == IF a > b THEN a ELSE b
Now == IF stored = 0 THEN 0 ELSE At[stored]

----------------------------------------------------------------------------
(* The directory of containers *)

EnvironmentOf(namespace) ==
    IF Environment /= "" THEN Environment
    ELSE IF namespace /= "" THEN namespace ELSE "scaleway"

\* The listings: every namespace, or none when its request failed.
Namespaces(answered) == [c \in existing |-> IF answered THEN "namespace" ELSE ""]

\* refresh: the listing is replaced as a whole when the containers are known.
Refreshed(answered) == [c \in existing |-> EnvironmentOf(Namespaces(answered)[c])]

Refresh ==
    /\ starts > 0 /\ refreshes < MaxRefreshes /\ refreshes' = refreshes + 1
    /\ \E answered \in BOOLEAN : byID' = Refreshed(answered)
    /\ UNCHANGED <<logs, existing, deleted, history>>

\* Mutant: a refresh that fails forgets the listing.
ListingForgotten == <<>>

\* A containers listing that fails leaves the directory as it is.
ListingOnFailure == byID
RefreshFails ==
    /\ starts > 0 /\ refreshes < MaxRefreshes /\ refreshes' = refreshes + 1
    /\ byID' = ListingOnFailure
    /\ UNCHANGED <<logs, existing, deleted, history>>

Identify(c) ==
    IF c \in DOMAIN byID THEN [named |-> TRUE, environment |-> byID[c]]
    ELSE [named |-> FALSE, environment |-> EnvironmentOf("")]

----------------------------------------------------------------------------
(* Polling *)

\* External: the page of the store, its oldest lines from the cursor on.
Page ==
    LET from == {i \in 1..stored : At[i] >= cursor} IN
    {i \in from : Cardinality({j \in from : j <= i}) <= Limit}

\* Mutant: lines at the cursor are returned again.
FreshInclusive == {i \in Page : i \notin Blank}

\* Poll keeps what it did not return already and is not blank.
Fresh == {i \in Page : i \notin Blank /\ ~(At[i] = cursor /\ i \in seen)}

\* advance: the cursor follows the lines kept.
Newest(lines) ==
    LET times == {At[i] : i \in lines} \cup {cursor} IN
    CHOOSE t \in times : \A u \in times : u <= t
Advance(lines) ==
    LET newest == Newest(lines)
        there == {i \in lines : At[i] = newest} IN
    /\ cursor' = newest
    /\ seen' = IF newest > cursor THEN there ELSE seen \cup there

\* One turn of streamLogs: the poll, then an emit for each line.
StreamLogs ==
    /\ starts > 0 /\ Fresh /= {}
    /\ Advance(Fresh)
    /\ life' = life \cup Fresh /\ twice' = twice \cup (life \cap Fresh)
    /\ shipped' = [i \in Lines |-> IF i \in Fresh THEN shipped[i] \cup {Identify(Of[i])}
                                   ELSE shipped[i]]
    /\ UNCHANGED <<stored, directory, starts>>

\* An emit fails and the stream ends with the lines after it not shipped, or
\* the plugin is stopped: the supervisor starts it anew, on a listing that
\* it needs.
Start ==
    /\ starts < MaxLives /\ starts' = starts + 1
    /\ cursor' = Larger(Now - Lookback, 0) /\ seen' = {} /\ life' = {}
    /\ \E answered \in BOOLEAN : byID' = Refreshed(answered)
    /\ UNCHANGED <<stored, existing, deleted, refreshes, shipped, twice>>

EmitFails ==
    /\ starts > 0 /\ starts < MaxLives /\ starts' = starts + 1
    /\ \E i \in Fresh :
         LET before == {j \in Fresh : j < i} IN
         shipped' = [j \in Lines |-> IF j \in before THEN shipped[j] \cup {Identify(Of[j])}
                                     ELSE shipped[j]]
    /\ cursor' = Larger(Now - Lookback, 0) /\ seen' = {} /\ life' = {}
    /\ \E answered \in BOOLEAN : byID' = Refreshed(answered)
    /\ UNCHANGED <<stored, existing, deleted, refreshes, twice>>

\* External: a container that is deployed writes a line; the last lines of one that
\* was deleted may still come in.
Store ==
    /\ stored < Len(At) /\ stored' = stored + 1
    /\ existing' = existing \cup ({Of[stored + 1]} \ deleted)
    /\ UNCHANGED <<cursor, seen, byID, deleted, refreshes, history>>

\* External: a container is deleted, for good: another one has another identifier.
Delete ==
    /\ \E c \in existing : existing' = existing \ {c} /\ deleted' = deleted \cup {c}
    /\ UNCHANGED <<logs, byID, refreshes, history>>

Next == Store \/ Delete \/ Start \/ StreamLogs \/ EmitFails \/ Refresh \/ RefreshFails

Spec == Init /\ [][Next]_cockpit

----------------------------------------------------------------------------
(* Properties *)

\* No line is shipped twice in one life.  Each line older than the cursor was
\* shipped, unless it is blank: the lookback covers what an emit that failed
\* left out.  When a poll brings nothing, what it leaves in the store is behind a
\* full page, of blank lines and of lines of the very instant of the cursor: the
\* one case in which the cursor does not advance (Poll, advance).
PollsMissNothing ==
    /\ twice = {}
    /\ \A i \in 1..stored : At[i] < cursor /\ i \notin Blank /\ At[i] > Now - Lookback
         => shipped[i] /= {}
    /\ starts > 0 /\ Fresh = {} =>
         \A i \in 1..stored : At[i] >= cursor /\ i \notin Blank /\ i \notin life =>
           \E ahead \in SUBSET (1 .. i - 1) :
             /\ Cardinality(ahead) = Limit
             /\ \A j \in ahead : \/ j \in Blank /\ At[j] >= cursor
                                 \/ j \in life /\ At[j] = cursor

\* A line of a container keeps the name of the listing once it has it, for as long
\* as the account holds the container: no later refresh, failed or not, sends it
\* back to a made up name.  Once it is deleted, a refresh forgets it, and the lines
\* of it still to be polled get the name Cockpit carries (refresh, identify).
NameSticks ==
    \A i, j \in Lines :
      Of[i] = Of[j] /\ (\E how \in shipped[i] : how.named) /\ Of[j] \in existing
        => \A how \in shipped'[j] \ shipped[j] : how.named
NamesStick == [][NameSticks]_cockpit
=============================================================================

------------------------------ MODULE ListWatch ------------------------------
(***************************************************************************)
(* One collection of the Kubernetes API as a plugin consumes it            *)
(* (api.Client.ListWatch): a list, then the changes made since, in order,  *)
(* until the watch ends or fails, then a list again.  A component extends  *)
(* this module and adds what it does of a list and of a frame.  Backoffs   *)
(* between attempts are waits of any length; bookmarks are left out.       *)
(***************************************************************************)
EXTENDS Integers, Sequences, FiniteSets

CONSTANTS
    Objects,     \* the objects of the collection, by their identity
    Absent,      \* what the cluster holds of an object that does not exist
    Writes(_),   \* what a write may make of the value of an object
    MaxWrites,   \* bound: writes
    MaxBreaks    \* bound: watches and lists that end or fail

VARIABLES
    cluster,     \* object -> its value
    log,         \* the writes made, as frames [object, value]
    lw,          \* the loop: [at, seen], seen an index of log
    breaks

listwatch == <<cluster, log, lw, breaks>>

LWInit ==
    /\ cluster = [o \in Objects |-> Absent] /\ log = <<>>
    /\ lw = [at |-> "list", seen |-> 0] /\ breaks = 0

\* External: somebody writes to the cluster; a deleted identity does not
\* come back.
Write(o, v) ==
    /\ Len(log) < MaxWrites /\ v \in Writes(cluster[o])
    /\ [object |-> o, value |-> Absent] \notin {log[i] : i \in DOMAIN log}
    /\ cluster' = [cluster EXCEPT ![o] = v]
    /\ log' = Append(log, [object |-> o, value |-> v])
    /\ UNCHANGED <<lw, breaks>>

\* list succeeds: the watch starts at its version.
List ==
    /\ lw.at = "list" /\ lw' = [at |-> "watch", seen |-> Len(log)]
    /\ UNCHANGED <<cluster, log, breaks>>

\* A list that fails is tried again after the backoff.
ListFails ==
    /\ lw.at = "list" /\ breaks < MaxBreaks /\ breaks' = breaks + 1
    /\ lw' = [lw EXCEPT !.at = "wait"]
    /\ UNCHANGED <<cluster, log>>

\* watch decodes the next frame.
Frame == log[lw.seen + 1]
Watch ==
    /\ lw.at = "watch" /\ lw.seen < Len(log)
    /\ lw' = [lw EXCEPT !.seen = @ + 1]
    /\ UNCHANGED <<cluster, log, breaks>>

\* The server closes the watch, at once a new list, or it fails and waits:
\* the frames not read by then are never read.
WatchEnds ==
    /\ lw.at = "watch" /\ breaks < MaxBreaks /\ breaks' = breaks + 1
    /\ \E at \in {"list", "wait"} : lw' = [lw EXCEPT !.at = at]
    /\ UNCHANGED <<cluster, log>>

Wakes ==
    /\ lw.at = "wait" /\ lw' = [lw EXCEPT !.at = "list"]
    /\ UNCHANGED <<cluster, log, breaks>>

Breaks == ListFails \/ WatchEnds \/ Wakes
=============================================================================

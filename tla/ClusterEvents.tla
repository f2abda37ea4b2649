---------------------------- MODULE ClusterEvents ----------------------------
(***************************************************************************)
(* The event watcher of the kubernetes plugin on one events collection:    *)
(* which occurrences of the events of the cluster it tells as lines.  An   *)
(* event is how many times it occurred, each time a write.                 *)
(***************************************************************************)
EXTENDS ListWatch

VARIABLES
    told,    \* history: the writes told, as indexes of log, in order
    from     \* history: the version the watch started at

occurrences == <<told, from>>
events == <<listwatch, occurrences>>

Init == LWInit /\ told = <<>> /\ from = 0

\* Ingest gives ListWatch no callback for lists: what happened before a watch
\* is not replayed.
OnList == List /\ from' = Len(log) /\ UNCHANGED told

\* handle tells the occurrences, and not the end of an event.
Told(frame) == frame.value /= Absent
Handle ==
    /\ Watch
    /\ told' = IF Told(Frame) THEN Append(told, lw.seen + 1) ELSE told
    /\ UNCHANGED from

\* External: an event occurs, again, or expires.
Occurring == \E o \in Objects : \E v \in Writes(cluster[o]) : Write(o, v)

Next ==
    \/ (Occurring \/ Breaks) /\ UNCHANGED occurrences
    \/ OnList \/ Handle

Spec == Init /\ [][Next]_events

----------------------------------------------------------------------------
\* Frequency detection counts what is told: each occurrence is told once at
\* most, in the order of the cluster, whatever watches break between them, and
\* those made since the last list were all told.
OccurrencesAreTold ==
    /\ \A i, j \in DOMAIN told : i < j => told[i] < told[j]
    /\ \A i \in DOMAIN told : log[told[i]].value /= Absent
    /\ \A n \in (from + 1)..lw.seen :
         log[n].value /= Absent => \E i \in DOMAIN told : told[i] = n
=============================================================================

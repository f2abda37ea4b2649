--------------------------------- MODULE Feed ---------------------------------
(***************************************************************************)
(* What the broadcast sink promises a subscriber: the last events published *)
(* when it joined, then every later one in order, except those published    *)
(* while Behind events already waited for it.                              *)
(***************************************************************************)
EXTENDS Integers, Sequences

CONSTANTS Subscribers, Kept, Behind

VARIABLES
    published,   \* how many events were published; they are numbered
    joined,      \* the subscribers being fed
    view,        \* what each subscriber is given to see
    unread       \* how many of the later events it has not taken yet

vars == <<published, joined, view, unread>>

Init ==
    /\ published = 0 /\ joined = {}
    /\ view = [s \in Subscribers |-> <<>>]
    /\ unread = [s \in Subscribers |-> 0]

\* s sees the last k events: one gapless run up to the latest.
Join(s) == \E k \in 0..Kept :
    /\ k <= published
    /\ joined' = joined \cup {s}
    /\ view' = [view EXCEPT ![s] = [i \in 1..k |-> published - k + i]]
    /\ UNCHANGED <<published, unread>>

Publish ==
    /\ published' = published + 1
    /\ view' = [s \in Subscribers |->
                  IF s \in joined /\ unread[s] < Behind
                  THEN Append(view[s], published') ELSE view[s]]
    /\ unread' = [s \in Subscribers |->
                    IF s \in joined /\ unread[s] < Behind
                    THEN unread[s] + 1 ELSE unread[s]]
    /\ UNCHANGED joined

Take(s) ==
    /\ unread[s] > 0
    /\ unread' = [unread EXCEPT ![s] = @ - 1]
    /\ UNCHANGED <<published, joined, view>>

\* Some are not fed any longer; what they were given stays theirs to take.
Part ==
    /\ joined' \in SUBSET joined
    /\ UNCHANGED <<published, view, unread>>

Next == Publish \/ Part \/ \E s \in Subscribers : Join(s) \/ Take(s)

Spec == Init /\ [][Next]_vars
===============================================================================

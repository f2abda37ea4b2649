------------------------------ MODULE Streams ------------------------------
(***************************************************************************)
(* What the pipeline promises of each partition key: a first-in first-out  *)
(* stream, handled in order and, once the intake is closed, cut at most    *)
(* once: after that nothing more of any stream is taken in.                *)
(***************************************************************************)
EXTENDS Naturals

CONSTANT Keys

VARIABLES
    arrived,   \* observations of each key taken in
    handled,   \* observations of each key handled, in order
    open       \* ingestion may still add to the streams

vars == <<arrived, handled, open>>

Init ==
    /\ arrived = [k \in Keys |-> 0]
    /\ handled = [k \in Keys |-> 0]
    /\ open = TRUE

Arrive(k) ==
    /\ open
    /\ arrived' = [arrived EXCEPT ![k] = @ + 1]
    /\ UNCHANGED <<handled, open>>

Handle(k) ==
    /\ handled[k] < arrived[k]
    /\ handled' = [handled EXCEPT ![k] = @ + 1]
    /\ UNCHANGED <<arrived, open>>

Close ==
    /\ open
    /\ open' = FALSE
    /\ UNCHANGED <<arrived, handled>>

Next == Close \/ \E k \in Keys : Arrive(k) \/ Handle(k)

Spec == Init /\ [][Next]_vars
=============================================================================

-------------------------------- MODULE Ring --------------------------------
(***************************************************************************)
(* The fixed-capacity ring of internal/core/window: a buffer indexed from  *)
(* 0, the slot to write next, and whether the buffer has wrapped.          *)
(***************************************************************************)
EXTENDS Naturals, Sequences

Least(a, b) == IF a <= b THEN a ELSE b
Greatest(a, b) == IF a >= b THEN a ELSE b

NewRing(capacity, empty) ==
    [buf  |-> [i \in 0 .. Greatest(1, capacity) - 1 |-> empty],
     size |-> Greatest(1, capacity), next |-> 0, full |-> FALSE]

RingAdd(r, obs) ==
    LET next == (r.next + 1) % r.size IN
    [r EXCEPT !.buf[r.next] = obs,
              !.next = next,
              !.full = r.full \/ next = 0]

RingSize(r) == IF r.full THEN r.size ELSE r.next

\* Mutant: one slot too far.
RingLastOff(r, n) ==
    LET k == Least(n, RingSize(r)) IN
    [i \in 1..k |-> r.buf[(r.next + r.size - k + i) % r.size]]

\* Up to n of the entries, from the oldest to the newest.
RingLast(r, n) ==
    LET k == Least(n, RingSize(r)) IN
    [i \in 1..k |-> r.buf[(r.next + r.size - k + i - 1) % r.size]]
=============================================================================

------------------------------ MODULE MCEngine ------------------------------
(* Small instances of Engine for TLC. *)
EXTENDS Engine, TLC

CONSTANTS i1, i2, k1, k2, w1, w2

TwoWorkers == (k1 :> w1) @@ (k2 :> w2)
OneWorker  == (k1 :> w1)
Shared     == (k1 :> w1) @@ (k2 :> w1)
TwoAndOne  == (k1 :> 2) @@ (k2 :> 1)
OneEach    == (k1 :> 1) @@ (k2 :> 1)
JustTwo    == (k1 :> 2)
=============================================================================

--------------------------- MODULE MCWorkerScaling ---------------------------
(* Worker specifications for TLC: static, scaled to zero, autoscaled with   *)
(* and without overlap with the static counts, and a range nobody checks.   *)
EXTENDS WorkerScaling

Static(n)    == [replicas |-> n, autoscaling |-> FALSE, min |-> 0, max |-> 0]
Auto(lo, hi) == [replicas |-> 1, autoscaling |-> TRUE, min |-> lo, max |-> hi]

LegalSpecs == {Static(0), Static(1), Static(3), Auto(1, 3), Auto(2, 4)}
AnyRange   == LegalSpecs \union {Auto(3, 2)}
=============================================================================

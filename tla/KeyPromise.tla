------------------------------ MODULE KeyPromise ------------------------------
(***************************************************************************)
(* What the operator promises of generated encryption keys, without        *)
(* Secrets, operators or Kubernetes: an instance runs with one key from    *)
(* its first pod to its end, and no other instance runs with that key.     *)
(***************************************************************************)
CONSTANTS Instances, Keys

VARIABLES
    phase,      \* phase[i]: the life of instance i
    held        \* held[i]: the keys its pods were started with

vars == <<phase, held>>

Init ==
    /\ phase = [i \in Instances |-> "unborn"]
    /\ held = [i \in Instances |-> {}]

Create(i) ==
    /\ phase[i] = "unborn"
    /\ phase' = [phase EXCEPT ![i] = "alive"]
    /\ UNCHANGED held

Delete(i) ==
    /\ phase[i] = "alive"
    /\ phase' = [phase EXCEPT ![i] = "deleting"]
    /\ UNCHANGED held

(* What an instance that is gone ran with binds nobody.                     *)
End(i) ==
    /\ phase[i] = "deleting"
    /\ phase' = [phase EXCEPT ![i] = "gone"]
    /\ held' = [held EXCEPT ![i] = {}]

Run(i, k) ==
    /\ phase[i] \in {"alive", "deleting"}
    /\ held[i] \subseteq {k}
    /\ \A j \in Instances \ {i} : k \notin held[j]
    /\ held' = [held EXCEPT ![i] = {k}]
    /\ UNCHANGED phase

Next == \E i \in Instances :
            Create(i) \/ Delete(i) \/ End(i) \/ \E k \in Keys : Run(i, k)

Spec == Init /\ [][Next]_vars
=============================================================================

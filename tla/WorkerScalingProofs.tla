-------------------------- MODULE WorkerScalingProofs --------------------------
(***************************************************************************)
(* For any specs, replica counts, operators, edits and faults: an operator *)
(* that reconciles an autoscaled spec leaves alone a count that the        *)
(* autoscaler or a user set.  That a count somebody owns belongs to a      *)
(* Deployment that exists (OwnedExists) is what TypeOK lacks for it.       *)
(***************************************************************************)
EXTENDS WorkerScaling, TLAPS

OwnedExists == owners # {} => replicas # Absent

ScaleInv == TypeOK /\ OwnedExists

LEMMA InitScaleInv == Init => ScaleInv
BY ConstantsOK DEF Init, ScaleInv, TypeOK, OwnedExists, Absent

(* Every step keeps the types, and a count that somebody owns               *)
(* (cluster_worker.rs:47-88, hpa.rs:10-43).                                 *)
LEMMA ScaleInvStep == ScaleInv /\ [Next]_vars => ScaleInv'
<1> SUFFICES ASSUME ScaleInv, [Next]_vars PROVE ScaleInv'
    OBVIOUS
<1>0. ASSUME NEW o \in Operators, PatchDeployment(o)
      PROVE  /\ replicas' \in 0..MaxReplicas /\ owners' \subseteq Managers
             /\ owners' = {} => replicas' = Default
  <2>1. CASE ApplyReplicas(at[o].spec.replicas)
    <3>1. at[o].spec.replicas \in 0..MaxReplicas
        BY ConstantsOK DEF ScaleInv, TypeOK
    <3>2. owners' \subseteq Managers /\ "operator" \in owners'
        BY <2>1 DEF ApplyReplicas, ScaleInv, TypeOK, Managers
    <3>3. QED BY <2>1, <3>1, <3>2 DEF ApplyReplicas
  <2>2. CASE LeaveReplicas
    <3>1. replicas' \in 0..MaxReplicas /\ owners' \subseteq Managers
        BY <2>2, ConstantsOK DEF LeaveReplicas, ScaleInv, TypeOK, Default
    <3>2. ASSUME owners' = {}, replicas # Absent, owners # {"operator"}
          PROVE  replicas' = Default
      <4>1. owners = {}
          BY <2>2, <3>2 DEF LeaveReplicas
      <4>2. replicas = Default
          BY <3>2, <4>1 DEF ScaleInv, TypeOK
      <4>3. QED BY <2>2, <3>2, <4>2 DEF LeaveReplicas
    <3>3. QED BY <2>2, <3>1, <3>2 DEF LeaveReplicas
  <2>3. QED BY <1>0, <2>1, <2>2 DEF PatchDeployment
<1> USE ConstantsOK DEF ScaleInv, TypeOK, OwnedExists, field, bounds, Absent, Default, Managers
<1>1. ASSUME NEW o \in Operators, Begin(o) PROVE ScaleInv'
    BY <1>1 DEF Begin
<1>2. ASSUME NEW o \in Operators, PatchDeployment(o) PROVE ScaleInv'
  <2>1. at' \in [Operators -> [pc : {"idle", "deployment", "apply", "get", "delete"}, spec : Specs]]
      BY <1>2 DEF PatchDeployment, Goto
  <2>2. /\ replicas' \in 0..MaxReplicas /\ owners' \subseteq Managers
        /\ owners' = {} => replicas' = Default
      BY <1>0, <1>2
  <2>3. UNCHANGED <<spec, hpa, bounds>>
      BY <1>2 DEF PatchDeployment
  <2>4. QED BY <2>1, <2>2, <2>3
<1>3. ASSUME NEW o \in Operators, ApplyHpa(o) PROVE ScaleInv'
  <2>1. at' \in [Operators -> [pc : {"idle", "deployment", "apply", "get", "delete"}, spec : Specs]]
      BY <1>3 DEF ApplyHpa, Goto
  <2>2. hpa' = NoHpa \/ hpa' \in [min : 1..MaxReplicas, max : 1..MaxReplicas]
      BY <1>3 DEF ApplyHpa, LegalRange
  <2>3. QED BY <1>3, <2>1, <2>2 DEF ApplyHpa
<1>4. ASSUME NEW o \in Operators, GetHpa(o) PROVE ScaleInv'
    BY <1>4 DEF GetHpa, Goto
<1>5. ASSUME NEW o \in Operators, DeleteHpa(o) PROVE ScaleInv'
    BY <1>5 DEF DeleteHpa, Goto
<1>6. ASSUME NEW o \in Operators, Fault(o) PROVE ScaleInv'
    BY <1>6 DEF Fault, Goto
<1>7. ASSUME NEW n \in 1..MaxReplicas, Autoscale(n) PROVE ScaleInv'
    BY <1>7 DEF Autoscale, Scale
<1>8. ASSUME NEW n \in 0..MaxReplicas, ScaleByHand(n) PROVE ScaleInv'
    BY <1>8 DEF ScaleByHand, Scale
<1>9. ASSUME NEW s \in Specs, EditWorkers(s) PROVE ScaleInv'
    BY <1>9 DEF EditWorkers
<1>10. CASE UNCHANGED vars
    BY <1>10 DEF vars
<1>11. QED
    BY <1>1, <1>2, <1>3, <1>4, <1>5, <1>6, <1>7, <1>8, <1>9, <1>10 DEF Next, Reconcile

(* The state keeps the shape that cluster_worker.rs and the API server give *)
(* it.                                                                      *)
THEOREM TypeCorrect == Spec => []TypeOK
<1>1. ScaleInv => TypeOK
    BY DEF ScaleInv
<1>2. QED BY InitScaleInv, ScaleInvStep, <1>1, PTL DEF Spec

(* Applying a Deployment without replicas gives up the operator's share     *)
(* only, so a count that others own stays (cluster_worker.rs:53-57).        *)
THEOREM CountIsLeft == Spec => LeavesTheirCount
<1> DEFINE Leaves ==
        \A o \in Operators :
            PatchDeployment(o) /\ at[o].spec.autoscaling /\ owners \intersect {"hpa", "user"} # {}
            => replicas' = replicas
<1>1. ScaleInv /\ [Next]_vars => [Leaves]_vars
  <2> SUFFICES ASSUME ScaleInv, NEW o \in Operators, PatchDeployment(o), at[o].spec.autoscaling,
                      owners \intersect {"hpa", "user"} # {}
               PROVE  replicas' = replicas
      OBVIOUS
  <2>1. LeaveReplicas
      BY DEF PatchDeployment
  <2>2. owners # {"operator"} /\ replicas # Absent
      BY DEF ScaleInv, OwnedExists
  <2>3. QED BY <2>1, <2>2 DEF LeaveReplicas
<1>2. QED BY InitScaleInv, ScaleInvStep, <1>1, PTL DEF Spec, LeavesTheirCount
=============================================================================

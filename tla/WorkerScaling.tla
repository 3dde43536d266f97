---------------------------- MODULE WorkerScaling ----------------------------
(***************************************************************************)
(* The replica count of a Cluster's workers, which two controllers set:    *)
(* the operator, with server-side apply, as long as spec.workers has no    *)
(* autoscaling, and the HorizontalPodAutoscaler it creates otherwise.  Who *)
(* owns the field decides what an apply that leaves it out does to it.     *)
(***************************************************************************)
EXTENDS Integers

CONSTANTS
    Specs,          \* values of spec.workers: replicas, autoscaling and its range
    Operators,      \* operator processes at work (two during a rolling upgrade)
    NoHpa,          \* no autoscaler
    MaxReplicas,
    MaxEdits,       \* bound: edits of spec.workers
    MaxScales,      \* bound: manual `kubectl scale`
    MaxFaults       \* bound: failed API calls and operator restarts

Absent == -1        \* the Deployment does not exist
Default == 1        \* what the API server puts where replicas is missing
Managers == {"operator", "hpa", "user"}
Ranges == [min : Int, max : Int]

ASSUME ConstantsOK ==
    /\ MaxReplicas \in Nat \ {0}
    /\ Specs \subseteq [replicas : 0..MaxReplicas, autoscaling : BOOLEAN,
                        min : 0..MaxReplicas, max : 0..MaxReplicas]
    /\ NoHpa \notin Ranges
    /\ MaxEdits \in Nat /\ MaxScales \in Nat /\ MaxFaults \in Nat

VARIABLES
    spec,       \* spec.workers of the Cluster
    at,         \* at[o]: o's reconcile, and the spec it works on
    replicas,   \* spec.replicas of the worker Deployment
    owners,     \* the field managers that own it
    hpa,        \* the range of the autoscaler
    edits, scales, faults

vars == <<spec, at, replicas, owners, hpa, edits, scales, faults>>
field == <<replicas, owners>>
bounds == <<edits, scales, faults>>

(* State has the shape the code and the API server give it; a replica count *)
(* nobody owns is the default.                                              *)
TypeOK ==
    /\ spec \in Specs
    /\ at \in [Operators -> [pc : {"idle", "deployment", "apply", "get", "delete"},
                             spec : Specs]]
    /\ replicas \in {Absent} \union 0..MaxReplicas
    /\ owners \subseteq Managers
    /\ owners = {} => replicas \in {Absent, Default}
    /\ hpa = NoHpa \/ hpa \in [min : 1..MaxReplicas, max : 1..MaxReplicas]
    /\ edits \in 0..MaxEdits /\ scales \in 0..MaxScales /\ faults \in 0..MaxFaults

Init ==
    /\ spec \in Specs
    /\ at = [o \in Operators |-> [pc |-> "idle", spec |-> spec]]
    /\ replicas = Absent /\ owners = {}
    /\ hpa = NoHpa
    /\ edits = 0 /\ scales = 0 /\ faults = 0

Goto(o, step) == at' = [at EXCEPT ![o].pc = step]

-----------------------------------------------------------------------------
(* reconcile_workers and sync_hpa, one API call a step.                     *)

Begin(o) ==
    /\ at[o].pc = "idle"
    /\ at' = [at EXCEPT ![o] = [pc |-> "deployment", spec |-> spec]]
    /\ UNCHANGED <<spec, field, hpa, bounds>>

(* Forced server-side apply of replicas = n: the applier owns the field, the *)
(* others keep a share only if they agree.                                  *)
ApplyReplicas(n) ==
    /\ replicas' = n
    /\ owners' = IF replicas = n THEN owners \union {"operator"} ELSE {"operator"}

(* Apply without replicas: the applier gives its share up, and with the     *)
(* last share the field falls back to its default.                          *)
LeaveReplicas ==
    /\ owners' = owners \ {"operator"}
    /\ replicas' = IF replicas = Absent \/ owners = {"operator"} THEN Default ELSE replicas

PatchDeployment_Always(o) ==
    /\ at[o].pc = "deployment"
    /\ ApplyReplicas(at[o].spec.replicas)
    /\ Goto(o, IF at[o].spec.autoscaling THEN "apply" ELSE "get")
    /\ UNCHANGED <<spec, hpa, bounds>>
PatchDeployment(o) ==
    /\ at[o].pc = "deployment"
    /\ IF at[o].spec.autoscaling
       THEN LeaveReplicas /\ Goto(o, "apply")
       ELSE ApplyReplicas(at[o].spec.replicas) /\ Goto(o, "get")
    /\ UNCHANGED <<spec, hpa, bounds>>

(* The API server refuses a range that is empty or starts below one.        *)
LegalRange(s) == 1 <= s.min /\ s.min <= s.max

ApplyHpa(o) ==
    LET s == at[o].spec IN
    /\ at[o].pc = "apply"
    /\ hpa' = IF LegalRange(s) THEN [min |-> s.min, max |-> s.max] ELSE hpa
    /\ Goto(o, "idle")
    /\ UNCHANGED <<spec, field, bounds>>

GetHpa_Forget(o) ==
    /\ at[o].pc = "get"
    /\ Goto(o, "idle")
    /\ UNCHANGED <<spec, field, hpa, bounds>>
GetHpa(o) ==
    /\ at[o].pc = "get"
    /\ Goto(o, IF hpa = NoHpa THEN "idle" ELSE "delete")
    /\ UNCHANGED <<spec, field, hpa, bounds>>

DeleteHpa_Empties(o) ==
    /\ at[o].pc = "delete"
    /\ hpa' = [min |-> 0, max |-> 0]
    /\ Goto(o, "idle")
    /\ UNCHANGED <<spec, field, bounds>>

(* By name; an autoscaler that is gone meanwhile is an error, and ends the  *)
(* reconcile like success does.                                             *)
DeleteHpa(o) ==
    /\ at[o].pc = "delete"
    /\ hpa' = NoHpa
    /\ Goto(o, "idle")
    /\ UNCHANGED <<spec, field, bounds>>

Reconcile(o) ==
    Begin(o) \/ PatchDeployment(o) \/ ApplyHpa(o) \/ GetHpa(o) \/ DeleteHpa(o)

Fault(o) ==
    /\ at[o].pc # "idle"
    /\ faults < MaxFaults /\ faults' = faults + 1
    /\ Goto(o, "idle")
    /\ UNCHANGED <<spec, field, hpa, edits, scales>>

-----------------------------------------------------------------------------
(* The rest of the cluster.  An update that changes the count takes the     *)
(* field from its owners.                                                   *)
Scale(n, who) ==
    /\ replicas # Absent /\ replicas # n
    /\ replicas' = n /\ owners' = {who}

(* The autoscaler moves the count within its range as the load asks; it     *)
(* leaves a Deployment alone that is scaled to zero.                        *)
Autoscale(n) ==
    /\ hpa # NoHpa /\ n \in hpa.min..hpa.max
    /\ replicas # 0
    /\ Scale(n, "hpa")
    /\ UNCHANGED <<spec, at, hpa, bounds>>

(* Out of its range it must.                                                *)
IntoRange ==
    /\ hpa # NoHpa /\ replicas \notin hpa.min..hpa.max
    /\ \E n \in hpa.min..hpa.max : Autoscale(n)

ScaleByHand(n) ==
    /\ scales < MaxScales /\ scales' = scales + 1
    /\ Scale(n, "user")
    /\ UNCHANGED <<spec, at, hpa, edits, faults>>

EditWorkers(s) ==
    /\ s # spec /\ edits < MaxEdits /\ edits' = edits + 1
    /\ spec' = s
    /\ UNCHANGED <<at, field, hpa, scales, faults>>

Next ==
    \/ \E o \in Operators : Reconcile(o) \/ Fault(o)
    \/ \E n \in 1..MaxReplicas : Autoscale(n)
    \/ \E n \in 0..MaxReplicas : ScaleByHand(n)
    \/ \E s \in Specs : EditWorkers(s)

Spec == Init /\ [][Next]_vars

(* The requeue after five minutes, or the error policy's, starts the next   *)
(* reconcile; the autoscaler acts on a count out of its range.              *)
Fairness == /\ \A o \in Operators : WF_vars(Reconcile(o))
            /\ WF_vars(IntoRange)
FairSpec == Spec /\ Fairness

-----------------------------------------------------------------------------
(* "Workers autoscale via HPA and operator stops managing spec.replicas"    *)
(* (cluster.feature:184): a reconcile of an autoscaled spec never changes   *)
(* a count that the autoscaler or a user set, only one of its own making.   *)
LeavesTheirCount ==
    [][\A o \in Operators :
          PatchDeployment(o) /\ at[o].spec.autoscaling
              /\ owners \intersect {"hpa", "user"} # {}
          => replicas' = replicas]_vars

(* Once edits, manual scaling and faults are over the count settles where   *)
(* the spec wants it, whatever an autoscaler that was about to be deleted   *)
(* did between two calls (cluster_worker.rs:45-88).  The one exception: an  *)
(* autoscaled count that a user set to zero stays there, since the operator *)
(* no longer writes it and zero switches the autoscaler off.                *)
ScaleSettles ==
    <>[](IF spec.autoscaling
         THEN /\ hpa = [min |-> spec.min, max |-> spec.max]
              /\ replicas \in spec.min..spec.max \/ (replicas = 0 /\ owners = {"user"})
         ELSE hpa = NoHpa /\ replicas = spec.replicas)

(* Handing the workers to the autoscaler does not scale them below both the *)
(* count they had and the range they are to have.                           *)
NoDipOnHandover ==
    [][\A o \in Operators :
          PatchDeployment(o) /\ at[o].spec.autoscaling /\ replicas # Absent
          => replicas' >= replicas \/ replicas' >= at[o].spec.min]_vars
=============================================================================

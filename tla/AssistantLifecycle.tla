------------------------- MODULE AssistantLifecycle -------------------------
(***************************************************************************)
(* The life of one Assistant: the finalizer, the reconciles that build its *)
(* sandbox stack in another namespace, the pin of that namespace in the    *)
(* status, and the cleanup that must find the stack again by label.        *)
(*                                                                         *)
(* An operator reconciles the copy of the CR in its watch cache, one API   *)
(* call per step, so users, the API server and the bootstrap Job's pod     *)
(* interleave with it.  The stack has no ownerReference: what cleanup does *)
(* not delete stays forever.                                               *)
(***************************************************************************)
EXTENDS Naturals, Sequences

CONSTANTS
    Operators,      \* operator processes at work (two during a rolling upgrade)
    Namespaces,     \* namespaces a user may name in spec.sandbox.namespace
    CrNamespace,    \* the namespace of the CR
    None,           \* "no such field"
    FreshCache,     \* a reconcile always starts from the latest version of the CR
    LatePods,       \* the Job's pod outlives the purge of its Job
    EarlyEdits,     \* users edit the namespace before the status records one
    MaxEdits,       \* bound: edits of spec.sandbox.namespace
    MaxRotations,   \* bound: TLS Secrets deleted by the user
    MaxFaults       \* bound: failed API calls and operator restarts

ASSUME ConstantsOK ==
    /\ CrNamespace \in Namespaces /\ None \notin Namespaces
    /\ FreshCache \in BOOLEAN /\ LatePods \in BOOLEAN /\ EarlyEdits \in BOOLEAN
    /\ MaxEdits \in Nat /\ MaxRotations \in Nat /\ MaxFaults \in Nat

(* What cleanup deletes, in the order it deletes it.                        *)
Purged == [purgeDeployments     |-> {"apiDeployment", "runnerDeployment"},
           purgeServices        |-> {"apiService", "runnerService"},
           purgeJobs            |-> {"job"},
           purgeSecrets         |-> {"keys", "tls", "target"},
           purgeVolumes         |-> {"dockerVolume"},
           purgeRoleBindings    |-> {"roleBinding"},
           purgeRoles           |-> {"role"},
           purgeServiceAccounts |-> {"serviceAccount"}]
Purges == DOMAIN Purged
Objects == UNION {Purged[p] : p \in Purges}
Rbac == {"serviceAccount", "role", "roleBinding"}

(* Objects a reconcile just creates or applies in the sandbox namespace.    *)
Written == Rbac \union {"keys", "dockerVolume", "apiDeployment", "apiService",
                        "runnerDeployment", "runnerService"}

(* The call that follows each call of apply and of cleanup.                 *)
Then == [namespace |-> "keys", keys |-> "certs",
         serviceAccount |-> "role", role |-> "roleBinding", roleBinding |-> "job",
         job |-> "patchWaiting",
         dockerVolume |-> "apiDeployment", apiDeployment |-> "apiService",
         apiService |-> "runnerDeployment", runnerDeployment |-> "runnerService",
         runnerService |-> "target", target |-> "event", event |-> "patchStatus",
         purgeDeployments |-> "purgeServices", purgeServices |-> "purgeJobs",
         purgeJobs |-> "purgeSecrets", purgeSecrets |-> "purgeVolumes",
         purgeVolumes |-> "purgeRoleBindings", purgeRoleBindings |-> "purgeRoles",
         purgeRoles |-> "purgeServiceAccounts", purgeServiceAccounts |-> "deletedEvent",
         deletedEvent |-> "removeFinalizer"]
Steps == {"idle", "addFinalizer", "certs", "patchWaiting", "patchStatus", "removeFinalizer"}
         \union DOMAIN Then

VARIABLES
    cr,         \* the Assistant in the API server
    cache,      \* cache[o]: the version of it in o's watch cache
    watch,      \* watch[o]: the later versions o's watch has not delivered yet
    pc,         \* pc[o]: the next API call of o's reconcile
    at,         \* at[o]: the sandbox namespace that reconcile works in
    carried,    \* carried[o]: status.target_secret of the version it works on
    stack,      \* stack[n]: the Assistant's objects in namespace n
    pods,       \* namespaces where a pod of the bootstrap Job runs
    edits, rotations, faults

vars == <<cr, cache, watch, pc, at, carried, stack, pods, edits, rotations, faults>>
bounds == <<edits, rotations, faults>>
opVars == <<cache, pc, at, carried>>

CRs == [exists : BOOLEAN, finalizer : BOOLEAN, deleting : BOOLEAN,
        ns : Namespaces, pin : Namespaces \union {None}, target : BOOLEAN]

(* State has the shape the code and the API server give it.                 *)
TypeOK ==
    /\ cr \in CRs
    /\ cache \in [Operators -> CRs]
    /\ watch \in [Operators -> Seq(CRs)]
    /\ pc \in [Operators -> Steps]
    /\ at \in [Operators -> Namespaces]
    /\ carried \in [Operators -> BOOLEAN]
    /\ stack \in [Namespaces -> SUBSET Objects]
    /\ pods \subseteq Namespaces
    /\ edits \in 0..MaxEdits /\ rotations \in 0..MaxRotations /\ faults \in 0..MaxFaults

Init ==
    /\ cr \in [exists : {TRUE}, finalizer : {FALSE}, deleting : {FALSE},
               ns : Namespaces, pin : {None}, target : {FALSE}]
    /\ cache = [o \in Operators |-> cr]
    /\ watch = [o \in Operators |-> << >>]
    /\ pc = [o \in Operators |-> "idle"]
    /\ at = [o \in Operators |-> cr.ns]
    /\ carried = [o \in Operators |-> FALSE]
    /\ stack = [n \in Namespaces |-> {}]
    /\ pods = {}
    /\ edits = 0 /\ rotations = 0 /\ faults = 0

Goto(o, step) == pc' = [pc EXCEPT ![o] = step]
Next1(o) == Goto(o, Then[pc[o]])

-----------------------------------------------------------------------------
(* One reconcile.  kube's finalizer() dispatches on the cached version.     *)

(* A write to the CR; one that changes nothing makes no new version.        *)
Commit(new) ==
    /\ cr' = new
    /\ watch' = IF new = cr THEN watch
                ELSE [o \in Operators |-> Append(watch[o], new)]

WatchDelivers(o) ==
    /\ watch[o] # << >>
    /\ cache' = [cache EXCEPT ![o] = Head(watch[o])]
    /\ watch' = [watch EXCEPT ![o] = Tail(@)]
    /\ UNCHANGED <<cr, pc, at, carried, stack, pods, bounds>>

CanStart(o) == /\ pc[o] = "idle" /\ cache[o].exists
               /\ FreshCache => watch[o] = << >>

BeginFinalizer(o) ==
    /\ CanStart(o)
    /\ ~cache[o].finalizer /\ ~cache[o].deleting
    /\ Goto(o, "addFinalizer")
    /\ UNCHANGED <<cr, watch, cache, at, carried, stack, pods, bounds>>

(* The API server refuses a new finalizer on an object being deleted.       *)
AddFinalizer(o) ==
    /\ pc[o] = "addFinalizer"
    /\ Commit([cr EXCEPT !.finalizer = @ \/ (cr.exists /\ ~cr.deleting)])
    /\ Goto(o, "idle")
    /\ UNCHANGED <<cache, at, carried, stack, pods, bounds>>

PinAllows_Always(recorded, computed) == recorded = recorded /\ computed = computed
PinAllows(recorded, computed) == recorded \in {None, computed}

BeginApply(o) ==
    /\ CanStart(o)
    /\ cache[o].finalizer /\ ~cache[o].deleting
    /\ PinAllows(cache[o].pin, cache[o].ns)         \* else the reconcile fails
    /\ Goto(o, "namespace")
    /\ at' = [at EXCEPT ![o] = cache[o].ns]
    /\ carried' = [carried EXCEPT ![o] = cache[o].target]
    /\ UNCHANGED <<cr, watch, cache, stack, pods, bounds>>

(* Where cleanup looks for the stack: the pinned namespace, else the spec's. *)
StackNamespace_Spec(c) == c.ns
StackNamespace_Pin(c) == c.pin
StackNamespace(c) == IF c.pin # None THEN c.pin ELSE c.ns

FirstPurge_Services == "purgeServices"
FirstPurge == "purgeDeployments"

BeginCleanup_NeedsPin(o) ==
    /\ CanStart(o)
    /\ cache[o].finalizer /\ cache[o].deleting /\ cache[o].pin # None
    /\ Goto(o, FirstPurge)
    /\ at' = [at EXCEPT ![o] = StackNamespace(cache[o])]
    /\ UNCHANGED <<cr, watch, cache, carried, stack, pods, bounds>>
BeginCleanup(o) ==
    /\ CanStart(o)
    /\ cache[o].finalizer /\ cache[o].deleting
    /\ Goto(o, FirstPurge)
    /\ at' = [at EXCEPT ![o] = StackNamespace(cache[o])]
    /\ UNCHANGED <<cr, watch, cache, carried, stack, pods, bounds>>

(* apply: the namespace exists (a user who names a missing one gets an error *)
(* before anything is created), and each object written on the way.          *)
CheckNamespace(o) ==
    /\ pc[o] = "namespace"
    /\ Next1(o)
    /\ UNCHANGED <<cr, watch, cache, at, carried, stack, pods, bounds>>

Add(n, x) == stack' = [stack EXCEPT ![n] = @ \union {x}]

WriteObject(o) ==
    /\ pc[o] \in Written
    /\ Add(at[o], pc[o])
    /\ Next1(o)
    /\ UNCHANGED <<cr, watch, cache, at, carried, pods, bounds>>

ReadCerts_TrustsStatus(o) ==
    /\ pc[o] = "certs"
    /\ Goto(o, IF "tls" \in stack[at[o]] \/ carried[o] THEN "dockerVolume"
               ELSE "serviceAccount")
    /\ UNCHANGED <<cr, watch, cache, at, carried, stack, pods, bounds>>
ReadCerts(o) ==
    /\ pc[o] = "certs"
    /\ Goto(o, IF "tls" \in stack[at[o]] THEN "dockerVolume" ELSE "serviceAccount")
    /\ UNCHANGED <<cr, watch, cache, at, carried, stack, pods, bounds>>

(* A Job that finished is replaced, a running one is left alone.            *)
EnsureJob(o) ==
    /\ pc[o] = "job"
    /\ Add(at[o], "job")
    /\ pods' = pods \union {at[o]}
    /\ Next1(o)
    /\ UNCHANGED <<cr, watch, cache, at, carried, bounds>>

(* Status patches: server-side apply replaces what the operator owns.       *)
PatchStatus(o, pin, target) ==
    /\ cr.exists                                     \* else 404: ApiError
    /\ Commit([cr EXCEPT !.pin = pin, !.target = target])
    /\ Goto(o, "idle")
    /\ UNCHANGED <<cache, at, carried, stack, pods, bounds>>

PatchWaiting_NoPin(o) == pc[o] = "patchWaiting" /\ PatchStatus(o, None, carried[o])
PatchWaiting_NoCarry(o) == pc[o] = "patchWaiting" /\ PatchStatus(o, at[o], FALSE)
PatchWaiting(o) == pc[o] = "patchWaiting" /\ PatchStatus(o, at[o], carried[o])

WriteTarget(o) ==
    /\ pc[o] = "target"
    /\ Add(CrNamespace, "target")
    /\ Next1(o)
    /\ UNCHANGED <<cr, watch, cache, at, carried, pods, bounds>>

PublishEvent(o) ==
    /\ pc[o] \in {"event", "deletedEvent"}
    /\ Next1(o)
    /\ UNCHANGED <<cr, watch, cache, at, carried, stack, pods, bounds>>

PatchReady(o) == pc[o] = "patchStatus" /\ PatchStatus(o, at[o], TRUE)

Purge(o) ==
    /\ pc[o] \in Purges
    /\ stack' = [stack EXCEPT ![at[o]] = @ \ Purged[pc[o]]]
    /\ pods' = IF pc[o] = "purgeJobs" /\ ~LatePods THEN pods \ {at[o]} ELSE pods
    /\ Next1(o)
    /\ UNCHANGED <<cr, watch, cache, at, carried, bounds>>

(* The CR was only waiting for this finalizer.                              *)
RemoveFinalizer(o) ==
    /\ pc[o] = "removeFinalizer"
    /\ Commit([cr EXCEPT !.finalizer = FALSE, !.exists = @ /\ ~cr.deleting])
    /\ Goto(o, "idle")
    /\ UNCHANGED <<cache, at, carried, stack, pods, bounds>>

Reconcile(o) ==
    \/ BeginFinalizer(o) \/ AddFinalizer(o)
    \/ BeginApply(o) \/ CheckNamespace(o) \/ WriteObject(o) \/ ReadCerts(o)
    \/ EnsureJob(o) \/ PatchWaiting(o) \/ WriteTarget(o) \/ PublishEvent(o)
    \/ PatchReady(o)
    \/ BeginCleanup(o) \/ Purge(o) \/ RemoveFinalizer(o)

(* A call that fails ends the reconcile with an error; so does the death of  *)
(* the operator.  Patching the status of a CR that is gone always fails.     *)
ApiError(o) ==
    /\ pc[o] # "idle"
    /\ \/ faults < MaxFaults /\ faults' = faults + 1
       \/ ~cr.exists /\ UNCHANGED faults
    /\ Goto(o, "idle")
    /\ UNCHANGED <<cr, watch, cache, at, carried, stack, pods, edits, rotations>>

-----------------------------------------------------------------------------
(* The cluster: the pod of the bootstrap Job, the garbage collector.        *)

PodPublishes(n) ==
    /\ n \in pods
    /\ Rbac \subseteq stack[n]
    /\ Add(n, "tls")
    /\ pods' = pods \ {n}
    /\ UNCHANGED <<cr, watch, opVars, bounds>>

PodStops(n) ==                      \* the collector got to it, or it failed
    /\ n \in pods
    /\ \/ ("job" \notin stack[n] \/ Rbac \ stack[n] # {}) /\ UNCHANGED faults
       \/ faults < MaxFaults /\ faults' = faults + 1
    /\ pods' = pods \ {n}
    /\ UNCHANGED <<cr, watch, opVars, stack, edits, rotations>>

JobExpires(n) ==                    \* ttlSecondsAfterFinished
    /\ "job" \in stack[n] /\ n \notin pods
    /\ stack' = [stack EXCEPT ![n] = @ \ {"job"}]
    /\ UNCHANGED <<cr, watch, opVars, pods, bounds>>

CollectTarget ==                    \* its owner is the CR
    /\ ~cr.exists /\ "target" \in stack[CrNamespace]
    /\ stack' = [stack EXCEPT ![CrNamespace] = @ \ {"target"}]
    /\ UNCHANGED <<cr, watch, opVars, pods, bounds>>

(* Users.                                                                   *)

EditNamespace(n) ==
    /\ cr.exists /\ n # cr.ns
    /\ EarlyEdits \/ cr.pin # None
    /\ edits < MaxEdits /\ edits' = edits + 1
    /\ Commit([cr EXCEPT !.ns = n])
    /\ UNCHANGED <<opVars, stack, pods, rotations, faults>>

RotateCerts(n) ==
    /\ "tls" \in stack[n]
    /\ rotations < MaxRotations /\ rotations' = rotations + 1
    /\ stack' = [stack EXCEPT ![n] = @ \ {"tls"}]
    /\ UNCHANGED <<cr, watch, opVars, pods, edits, faults>>

DeleteAssistant ==
    /\ cr.exists /\ ~cr.deleting
    /\ Commit([cr EXCEPT !.deleting = TRUE, !.exists = cr.finalizer])
    /\ UNCHANGED <<opVars, stack, pods, bounds>>

Next ==
    \/ \E o \in Operators : WatchDelivers(o) \/ Reconcile(o) \/ ApiError(o)
    \/ \E n \in Namespaces : \/ PodPublishes(n) \/ PodStops(n) \/ JobExpires(n)
                             \/ EditNamespace(n) \/ RotateCerts(n)
    \/ CollectTarget \/ DeleteAssistant

Spec == Init /\ [][Next]_vars

(* The watch delivers, requeues and error_policy keep every operator        *)
(* reconciling, the Job's pod runs and the garbage collector works.  Users, *)
(* faults and the expiry of a finished Job are under no obligation.         *)
Fairness ==
    /\ \A o \in Operators : /\ WF_vars(WatchDelivers(o))
                            /\ WF_vars(Reconcile(o) \/ (~cr.exists /\ ApiError(o)))
    /\ \A n \in Namespaces : WF_vars(PodPublishes(n) \/ PodStops(n))
    /\ WF_vars(CollectTarget)
FairSpec == Spec /\ Fairness

-----------------------------------------------------------------------------
Sandbox(n) == stack[n] \ {"target"}

(* "The finalizer removes them by label before it lets the CR go"           *)
(* (assistant.rs:61-63): no object of the sandbox stack outlives the CR, in *)
(* any namespace.  What is left then has no owner and no reaper.            *)
NoOrphans == ~cr.exists => \A n \in Namespaces : Sandbox(n) = {}

(* Moving the stack "would orphan a privileged pod" (assistant_apply.rs:    *)
(* 250-265): the privileged runner never runs in two namespaces.            *)
OneRunner ==
    \A m, n \in Namespaces :
        "runnerDeployment" \in stack[m] /\ "runnerDeployment" \in stack[n] => m = n

(* "Pinned once the stack exists" (spec/assistant.rs:180-183): a recorded   *)
(* sandbox namespace is never changed or dropped.                           *)
PinKept == [][cr.pin # None => cr'.pin = cr.pin]_vars

(* Once the namespace is recorded, nothing of the stack is created in any   *)
(* other one, whatever is edited and whatever fails (check_pin,             *)
(* assistant_apply.rs:250-265); only a pod of the Job that already ran      *)
(* elsewhere may still publish its certificates.                            *)
PinConfines ==
    [][cr.pin # None =>
          \A n \in Namespaces \ {cr.pin} :
              Sandbox(n)' \subseteq Sandbox(n) \union (IF n \in pods THEN {"tls"} ELSE {})]_vars

(* status.target_secret does not flicker while certificates are rotated     *)
(* (assistant_apply.rs:232-240).                                            *)
TargetKept == [][cr.target => cr'.target]_vars

(* A deleted Assistant goes away.                                           *)
DeletionCompletes == cr.deleting ~> ~cr.exists

(* An Assistant that is not deleted, and whose namespace is not edited away *)
(* from the recorded one, gets its stack and its target Secret, across      *)
(* rotations, failed calls, stale reads and the expiry of the Job.          *)
StackBuilt ==
    <>[](cr.deleting \/ cr.pin \notin {None, cr.ns}
         \/ /\ cr.target /\ cr.pin = cr.ns
            /\ Written \union {"tls"} \subseteq stack[cr.ns]
            /\ "target" \in stack[CrNamespace])
=============================================================================

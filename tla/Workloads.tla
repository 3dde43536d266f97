------------------------------- MODULE Workloads -------------------------------
(***************************************************************************)
(* From a spec that validation accepts to pods that run: the manifests a   *)
(* reconcile renders (PodTemplates) pass the API server's admission, which *)
(* also knows what may not change about an object that exists, and the     *)
(* Deployment controller replaces the pods of the old template by pods of  *)
(* the new one.  Several CRs may put their workloads in one namespace.     *)
(* Here are the calls for claims, Deployments and Services; Children has   *)
(* the other children and the deletion of a CR, WorkerScaling the replica  *)
(* count, which is one here.                                               *)
(***************************************************************************)
EXTENDS PodTemplates, Integers

CONSTANTS
    CRs,        \* [kind, ns, name, place]; place: the namespace of its workloads
    Scenes,     \* the sets of CRs that exist together
    SpecsOf,    \* SpecsOf[c]: the specs users give c
    Width,      \* Width[p]: characters in part p of a name or label value
    MaxEdits,   \* bound: edits of specs
    MaxFaults   \* bound: failed API calls and operator restarts

Kinds == {"Single", "Cluster", "Assistant"}

RolesOf(c) ==
    CASE c.kind = "Single"    -> {"single"}
      [] c.kind = "Cluster"   -> {"main", "worker", "webhook"}
      [] c.kind = "Assistant" -> {"api", "runner"}

ASSUME ConstantsOK ==
    /\ Scenes \subseteq SUBSET CRs
    /\ \A c \in CRs :
          /\ c.kind \in Kinds
          /\ {c.ns, c.name} \subseteq Seq(DOMAIN Width) \ {<< >>}
          /\ \A s \in SpecsOf[c] : RolesOf(c) \ {"webhook"} \subseteq DOMAIN s.role
    /\ MaxEdits \in Nat /\ MaxFaults \in Nat

(* The parts the operator adds to names, and those that are labels alone.   *)
ASSUME WidthsOK ==
    /\ Width \in [DOMAIN Width -> Nat]
    /\ {"1", "api", "runner", "docker", "sandbox"} \subseteq DOMAIN Width
    /\ Width["1"] = 1 /\ Width["api"] = 3 /\ Width["runner"] = 6
    /\ Width["docker"] = 6 /\ Width["sandbox"] = 7
    /\ \A label \in {"n8n", "n8n-sandbox", "workflow-engine", "main", "worker", "webhook",
                     "sandbox-api", "sandbox-runner"} :
          label \in DOMAIN Width /\ Width[label] <= MaxName

VARIABLES
    crs,        \* the CRs that exist
    spec,       \* spec[c]
    calls,      \* calls[c]: the calls the reconcile of c still has to make
    claims,     \* access mode of each PersistentVolumeClaim
    deps,       \* the Deployments
    services,   \* selector of each Service
    pods,       \* pods[d]: the pods of Deployment d
    edits, faults

vars == <<crs, spec, calls, claims, deps, services, pods, edits, faults>>
cluster == <<claims, deps, services, pods>>

WorkloadName(c, r) ==
    IF c.kind = "Assistant" THEN SandboxName(c.ns, c.name, r) ELSE RoleName(c.name, r)
Obj(c, name) == <<c.place, name>>
Workload(c, r) == Obj(c, WorkloadName(c, r))
ObjsOf(c) == {Workload(c, r) : r \in RolesOf(c)}
Objs == DOMAIN pods

(* The characters of the parts and the dashes between them.                 *)
Length(value) ==
    Cardinality(UNION {{i} \X (1..Width[value[i]]) : i \in DOMAIN value}) + Len(value) - 1
Valid(c, s) ==
    CASE c.kind = "Single"    -> ValidSingle(s)
      [] c.kind = "Cluster"   -> ValidCluster(s)
      [] c.kind = "Assistant" -> ValidAssistant(Length(c.ns), Length(c.name), s)

Wanted(c, s, r) ==
    IF c.kind = "Assistant" THEN SandboxDeployment(c.ns, c.name, r, s)
    ELSE InstanceDeployment(c.name, r, s)

-----------------------------------------------------------------------------
(* The calls a reconcile makes for a spec, in their order.                  *)

Call(verb, obj, body) == [verb |-> verb, obj |-> obj, body |-> body]
If(condition, list) == IF condition THEN list ELSE << >>

ApplyClaim(c, name, mode) == <<Call("claim", Obj(c, name), [mode |-> mode])>>
ApplyWorkload(c, s, r) == <<Call("deployment", Workload(c, r), Wanted(c, s, r))>>
ServiceSelector(c, r) ==
    IF c.kind = "Assistant" THEN SandboxService(c.ns, c.name, r) ELSE InstanceService(c.name, r)
ApplyService(c, r) == <<Call("service", Workload(c, r), ServiceSelector(c, r))>>
Serve(c, s, r) == ApplyWorkload(c, s, r) \o ApplyService(c, r)
RemoveRole(c, r) == [k \in 1..2 |-> Call(<<"noDeployment", "noService">>[k], Workload(c, r), << >>)]

OwnData(c, s, r, name) ==
    If(s.role[r].persistence # None, ApplyClaim(c, name, s.role[r].persistence))

SinglePlan(c, s) == OwnData(c, s, "single", DataClaim(c.name)) \o Serve(c, s, "single")

MainPlan(c, s) == OwnData(c, s, "main", DataClaim(RoleName(c.name, "main"))) \o Serve(c, s, "main")
WebhookPlan(c, s) ==
    IF "webhook" \in DOMAIN s.role THEN Serve(c, s, "webhook") ELSE RemoveRole(c, "webhook")
ClusterPlan(c, s) ==
    If("sharedStorage" \in s.community, ApplyClaim(c, NodesClaim(c.name), s.nodes))
    \o If(SharedFilesystem(s.binary), ApplyClaim(c, BinaryClaim(c.name), s.binary.shared))
    \o MainPlan(c, s) \o ApplyWorkload(c, s, "worker") \o WebhookPlan(c, s)

SandboxClaim(c, s) == OwnData(c, s, "runner", SandboxName(c.ns, c.name, "docker"))
AssistantPlan(c, s) ==
    SandboxClaim(c, s) \o Serve(c, s, "api") \o Serve(c, s, "runner")

Plan(c, s) ==
    CASE c.kind = "Single"    -> SinglePlan(c, s)
      [] c.kind = "Cluster"   -> ClusterPlan(c, s)
      [] c.kind = "Assistant" -> AssistantPlan(c, s)

-----------------------------------------------------------------------------
(* What the API server admits.                                              *)

LegalLabels(labels) == \A k \in DOMAIN labels : Length(labels[k]) <= MaxName

LegalQuantity(q) ==
    CASE q.json = None     -> TRUE
      [] q.json = "number" -> q.value.n >= 0
      [] q.json = "string" -> q.value.unit = "percent" /\ q.value.n >= 0

(* Both zero would forbid every step of a rollout.                          *)
LegalStrategy(st) ==
    /\ st.type \in {None, "RollingUpdate", "Recreate"}
    /\ LegalQuantity(st.surge) /\ LegalQuantity(st.unavailable)
    /\ ~(\A q \in {st.surge, st.unavailable} : q.json # None /\ q.value.n = 0)
    /\ st.unavailable.value.unit = "percent" => st.unavailable.value.n <= 100

(* The parameters of a rolling update that the API server filled in belong  *)
(* to no manager, so applying Recreate leaves them there, and they may not  *)
(* stand beside it.                                                         *)
Filled(st) == st.type # "Recreate" /\ \E q \in {st.surge, st.unavailable} : q.json = None

AdmittedDeployment(d, obj) ==
    /\ LegalLabels(d.labels) /\ LegalLabels(d.template.labels)
    /\ Matches(d.selector, d.template.labels)
    /\ \A v, w \in d.template.volumes : v.name = w.name \/ v.path = w.path => v = w
    /\ LegalStrategy(d.strategy)
    /\ obj \in DOMAIN deps =>
          /\ deps[obj].selector = d.selector
          /\ d.strategy.type = "Recreate" => ~Filled(deps[obj].strategy)

Admitted(call) ==
    CASE call.verb = "claim" -> call.obj \in DOMAIN claims => claims[call.obj] = call.body.mode
      [] call.verb = "deployment" -> AdmittedDeployment(call.body, call.obj)
      [] call.verb = "service" -> Length(call.obj[2]) <= MaxName /\ LegalLabels(call.body)
      [] call.verb \in {"noDeployment", "noService"} -> TRUE

With(f, x, v) == [y \in DOMAIN f \union {x} |-> IF y = x THEN v ELSE f[y]]
Without(f, x) == [y \in DOMAIN f \ {x} |-> f[y]]

Effect(call) ==
    /\ claims' = IF call.verb = "claim" THEN With(claims, call.obj, call.body.mode) ELSE claims
    /\ deps' = CASE call.verb = "deployment"   -> With(deps, call.obj, call.body)
                 [] call.verb = "noDeployment" -> Without(deps, call.obj)
                 [] OTHER                      -> deps
    /\ services' = CASE call.verb = "service"   -> With(services, call.obj, call.body)
                     [] call.verb = "noService" -> Without(services, call.obj)
                     [] OTHER                   -> services

-----------------------------------------------------------------------------
(* The operator.  A spec that is refused ends its reconcile before a call,  *)
(* a call that is refused ends it there.                                    *)

Begin(c) ==
    /\ calls[c] = << >>
    /\ Valid(c, spec[c])
    /\ calls' = [calls EXCEPT ![c] = Plan(c, spec[c])]
    /\ UNCHANGED <<crs, spec, cluster, edits, faults>>

MakeCall(c) ==
    /\ calls[c] # << >>
    /\ IF Admitted(Head(calls[c]))
       THEN Effect(Head(calls[c])) /\ calls' = [calls EXCEPT ![c] = Tail(@)]
       ELSE UNCHANGED <<claims, deps, services>> /\ calls' = [calls EXCEPT ![c] = << >>]
    /\ UNCHANGED <<crs, spec, pods, edits, faults>>

Reconcile(c) == Begin(c) \/ MakeCall(c)

Fault(c) ==
    /\ calls[c] # << >>
    /\ faults < MaxFaults /\ faults' = faults + 1
    /\ calls' = [calls EXCEPT ![c] = << >>]
    /\ UNCHANGED <<crs, spec, cluster, edits>>

EditSpec(c, s) ==
    /\ s # spec[c]
    /\ edits < MaxEdits /\ edits' = edits + 1
    /\ spec' = [spec EXCEPT ![c] = s]
    /\ UNCHANGED <<crs, calls, cluster, faults>>

-----------------------------------------------------------------------------
(* The Deployment controller, for one replica.                              *)

New(d) == {p \in pods[d] : p.template = deps[d].template}
Old(d) == pods[d] \ New(d)
Ready(ps) == {p \in ps : p.ready}

(* Of one pod any part is rounded up for the surge and down for what may be *)
(* missing; 25% is the default of both.                                     *)
Resolved(q, roundedUp) ==
    LET v == IF q.json = None THEN Percent(25) ELSE q.value
    IN  IF v.unit = "count" THEN v.n
        ELSE IF roundedUp THEN (v.n + 99) \div 100 ELSE v.n \div 100
Surge(d) == Resolved(deps[d].strategy.surge, TRUE)
Unavailable(d) ==
    LET n == Resolved(deps[d].strategy.unavailable, FALSE)
    IN  IF Surge(d) = 0 /\ n = 0 THEN 1 ELSE n

MayStart(d) ==
    /\ New(d) = {}
    /\ IF deps[d].strategy.type = "Recreate" THEN pods[d] = {}
       ELSE Cardinality(pods[d]) < 1 + Surge(d)

MayStop(d, p) ==
    LET room == Cardinality(pods[d]) - (1 - Unavailable(d)) - Cardinality(New(d) \ Ready(New(d)))
    IN  \/ deps[d].strategy.type = "Recreate"
        \/ room > 0 /\ (~p.ready \/ Cardinality(Ready(pods[d])) > 1 - Unavailable(d))

StartPod(d) ==
    /\ d \in DOMAIN deps /\ MayStart(d)
    /\ pods' = [pods EXCEPT ![d] = @ \union {[template |-> deps[d].template, ready |-> FALSE]}]
    /\ UNCHANGED <<crs, spec, calls, claims, deps, services, edits, faults>>

StopPod(d) ==
    /\ \E p \in pods[d] :
          /\ d \in DOMAIN deps => p \in Old(d) /\ MayStop(d, p)
          /\ pods' = [pods EXCEPT ![d] = @ \ {p}]
    /\ UNCHANGED <<crs, spec, calls, claims, deps, services, edits, faults>>

(* A pod comes up once its claims exist and no other running pod has one    *)
(* that only one may have, if its environment is complete and it may read   *)
(* its TLS files.                                                           *)
Mountable(d, p) ==
    \A v \in p.template.volumes : v.claim # NoClaim =>
        LET claim == <<d[1], v.claim>> IN
        /\ claim \in DOMAIN claims
        /\ claims[claim] = "ReadWriteOnce" =>
              \A e \in Objs : \A q \in Ready(pods[e]) :
                  e[1] # d[1] \/ \A w \in q.template.volumes : w.claim # v.claim
ReadsTls(p) == (\E v \in p.template.volumes : v.name = <<"tls">>) => p.template.fsGroup = TlsFsGroup
Starts(p) == p.template.complete /\ ReadsTls(p) /\ p.template.image.tag # ""

PodReady(d) ==
    /\ \E p \in pods[d] :
          /\ ~p.ready /\ Starts(p) /\ Mountable(d, p)
          /\ pods' = [pods EXCEPT ![d] = (@ \ {p}) \union {[p EXCEPT !.ready = TRUE]}]
    /\ UNCHANGED <<crs, spec, calls, claims, deps, services, edits, faults>>

Pod(d) == StartPod(d) \/ StopPod(d) \/ PodReady(d)

Init ==
    /\ crs \in Scenes
    /\ spec \in {f \in [crs -> UNION {SpecsOf[c] : c \in crs}] : \A c \in crs : f[c] \in SpecsOf[c]}
    /\ calls = [c \in crs |-> << >>]
    /\ claims = << >> /\ deps = << >> /\ services = << >>
    /\ pods = [d \in UNION {ObjsOf(c) : c \in crs} |-> {}]
    /\ edits = 0 /\ faults = 0

Next ==
    \/ \E c \in crs : Reconcile(c) \/ Fault(c) \/ \E s \in SpecsOf[c] : EditSpec(c, s)
    \/ \E d \in Objs : Pod(d)

Spec == Init /\ [][Next]_vars

(* The requeue after five minutes, or the error policy's, starts the next   *)
(* reconcile; controllers and kubelets do their work.                       *)
Fairness == /\ \A c \in CRs : WF_vars(c \in crs /\ Reconcile(c))
            /\ WF_vars(\E d \in Objs : Pod(d))
FairSpec == Spec /\ Fairness

-----------------------------------------------------------------------------
(* "A second pod would register a duplicate runner identity, so never       *)
(* surge" (sandbox_workloads.rs:85-87): whatever is edited during a         *)
(* rollout, a part of the sandbox never has two pods.                       *)
OneAtATime ==
    \A c \in {a \in crs : a.kind = "Assistant"} : \A d \in ObjsOf(c) : Cardinality(pods[d]) <= 1

(* "selectors are immutable after creation" (labels.rs:4), "a string intstr *)
(* must be a percent" (builders/mod.rs:73): what validation lets through is *)
(* admitted, call by call, whatever the specs before it left in the cluster.*)
AcceptedIsAdmitted == \A c \in crs : calls[c] # << >> => Admitted(Head(calls[c]))

(* "Distinct per component so the API and runner Services don't select each *)
(* other's pods" (sandbox_workloads.rs:32-33), nor those of another CR in   *)
(* the namespace; and what the finalizer finds by its labels are exactly    *)
(* the Assistant's own Deployments (sandbox_names.rs:58-61).                *)
SelectsOwn ==
    /\ \A d \in DOMAIN services : \A e \in Objs : \A p \in pods[e] :
          d[1] = e[1] => (Matches(services[d], p.template.labels) <=> d = e)
    /\ \A c \in {a \in crs : a.kind = "Assistant"} : \A d \in DOMAIN deps :
          d[1] = c.place =>
              (Matches(CleanupSelector(c.ns, c.name), deps[d].labels)
               <=> d \in ObjsOf(c))

(* Once edits and faults are over, every workload of a spec that validation *)
(* accepts runs one pod, of the template of that spec, and it is ready, and *)
(* a role that is gone runs none                                            *)
(* (validate.rs:74-112, 139-161; sandbox_workloads.rs:92-104).              *)
RolledOut(c) ==
    c \in crs /\ Valid(c, spec[c]) =>
        \A r \in RolesOf(c) :
            pods[Workload(c, r)] =
                {[template |-> Wanted(c, spec[c], q).template, ready |-> TRUE] :
                    q \in DOMAIN spec[c].role \intersect {r}}
RolloutsFinish == \A c \in CRs : <>[]RolledOut(c)
-----------------------------------------------------------------------------
(* What the CRs of a scene and their users keep to in WorkloadsProofs; the  *)
(* odd scenes of MCWorkloads break one of these each.                       *)
Accepted(c) == {s \in SpecsOf[c] : Valid(c, s)}
Roles(c, s) == RolesOf(c) \intersect DOMAIN s.role
CallsOf(c) == UNION {{Plan(c, s)[k] : k \in DOMAIN Plan(c, s)} : s \in Accepted(c)}

(* No two CRs have objects of one name.                                     *)
NamesDistinct ==
    \A cs \in Scenes : \A c, e \in cs :
        /\ c # e => ObjsOf(c) \intersect ObjsOf(e) = {}
        /\ c.kind = "Assistant" /\ e.kind = "Assistant" /\ c.ns = e.ns /\ c.name = e.name
           => c = e

(* Pods are not labelled with the operator's own keys.                      *)
OperatorKeys == {"name", "instance", "component", "version", "assistant", "namespace"}
OwnKeysOnly ==
    \A c \in UNION Scenes : \A s \in Accepted(c) : \A r \in Roles(c, s) :
        DOMAIN s.role[r].labels \intersect OperatorKeys = {}

(* Labels and the names of instances, which nothing measures, are short.    *)
LabelsFit ==
    \A c \in UNION Scenes : \A s \in Accepted(c) : \A r \in Roles(c, s) :
        /\ LegalLabels(s.role[r].labels)
        /\ c.kind # "Assistant" =>
              /\ Length(RoleName(c.name, r)) <= MaxName
              /\ Length(<<ImageVersion(s.role[r].image)>>) <= MaxName

(* Counts and percentages are ones, and leave a rollout a step to take.     *)
StrategiesMove ==
    \A c \in UNION Scenes : \A s \in Accepted(c) : \A r \in Roles(c, s) :
        LET st == s.role[r].strategy IN
        /\ {st.surge, st.unavailable} \subseteq [unit : {None, "count", "percent"}, n : Nat]
        /\ ~(\A q \in {st.surge, st.unavailable} : q.unit # None /\ q.n = 0)
        /\ st.unavailable.unit = "percent" => st.unavailable.n <= 100

(* Recreate does not follow a strategy with a parameter left open.          *)
RecreateStays ==
    \A c \in UNION Scenes : \A s, t \in Accepted(c) : \A r \in Roles(c, s) \intersect Roles(c, t) :
        s.role[r].strategy.type = "Recreate" => ~Filled(RenderedStrategy(t.role[r].strategy))

(* A claim is asked for in one access mode.                                 *)
ClaimsKeepMode ==
    \A cs \in Scenes : \A c, e \in cs : \A x \in CallsOf(c), y \in CallsOf(e) :
        x.verb = "claim" /\ y.verb = "claim" /\ x.obj = y.obj => x.body = y.body
=============================================================================

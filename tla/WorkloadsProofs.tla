---------------------------- MODULE WorkloadsProofs ----------------------------
(***************************************************************************)
(* For every set of CRs, specs, edits and faults: a part of a sandbox has  *)
(* never two pods, a Service selects the pods of its own workload and no   *)
(* others, and what validation accepts the API server admits, as long as   *)
(*  - no two CRs have objects of one name (NamesDistinct; the scenes       *)
(*    RoleNamesake and OnePrefix of MCWorkloads break it),                 *)
(*  - users do not label pods with the operator's own keys (OwnKeysOnly;   *)
(*    Relabelled), which the second and third need,                        *)
(* and, for the third, as long as                                          *)
(*  - labels and names that nothing measures are short (LabelsFit;         *)
(*    PinnedByDigest, NameTooLong),                                        *)
(*  - a rollout may take a step (StrategiesMove; NothingMayMove and        *)
(*    NoQuantity),                                                         *)
(*  - Recreate does not follow an open strategy (RecreateStays;            *)
(*    StrategyEdited), and                                                 *)
(*  - a claim keeps its access mode (ClaimsKeepMode; AccessModeEdited).    *)
(* MCWorkloads assumes all six of the scenes of the run workloads.         *)
(*                                                                         *)
(* All rest on one invariant, AllRendered: whatever is in the cluster or   *)
(* on its way there was rendered from a spec of one of the CRs, perhaps an *)
(* old one.                                                                *)
(***************************************************************************)
EXTENDS Workloads, FiniteSetTheorems, SequenceTheorems, TLAPS

(* What the specs of a CR ask for, object by object.                        *)
Rendering(c, s, r) == [obj |-> Workload(c, r), dep |-> Wanted(c, s, r)]
Renderings(c) == UNION {{Rendering(c, s, r) : r \in Roles(c, s)} : s \in Accepted(c)}

(* The calls plan of c for s may be made of.                                *)
ClaimNames(c) ==
    {DataClaim(c.name), DataClaim(RoleName(c.name, "main")), NodesClaim(c.name),
     BinaryClaim(c.name), SandboxName(c.ns, c.name, "docker")}
Modes(c, s) == {s.nodes, s.binary.shared} \union {s.role[r].persistence : r \in RolesOf(c)}
CallsFor(c, s) ==
    {Call("deployment", Workload(c, r), Wanted(c, s, r)) : r \in Roles(c, s)}
    \union {Call("service", Workload(c, r), Wanted(c, s, r).selector) : r \in Roles(c, s)}
    \union {Call("claim", Obj(c, n), [mode |-> mode]) : n \in ClaimNames(c), mode \in Modes(c, s)}
    \union {Call(verb, Workload(c, r), << >>) :
              verb \in {"noDeployment", "noService"}, r \in RolesOf(c)}

-----------------------------------------------------------------------------
(* The plans.                                                               *)

(* A Service selects what the Deployment of its workload does: the two are  *)
(* rendered apart.                                                          *)
LEMMA ServiceOfDeployment ==
    ASSUME NEW c \in CRs, NEW s \in SpecsOf[c], NEW r \in RolesOf(c)
    PROVE  ServiceSelector(c, r) = Wanted(c, s, r).selector
<1>1. CASE c.kind = "Assistant"
    BY <1>1 DEF ServiceSelector, SandboxService, Wanted, SandboxDeployment, Deployment
<1>2. CASE c.kind # "Assistant"
    BY <1>2 DEF ServiceSelector, InstanceService, Wanted, InstanceDeployment, Deployment
<1>3. QED BY <1>1, <1>2

LEMMA PartCalls ==
    ASSUME NEW c \in CRs, NEW s \in SpecsOf[c], NEW r \in Roles(c, s)
    PROVE  /\ ApplyWorkload(c, s, r) \in Seq(CallsFor(c, s))
           /\ ApplyService(c, r) \in Seq(CallsFor(c, s))
           /\ Serve(c, s, r) \in Seq(CallsFor(c, s))
           /\ \A n \in ClaimNames(c) : OwnData(c, s, r, n) \in Seq(CallsFor(c, s))
<1>1. r \in RolesOf(c)
    BY DEF Roles
<1>2. /\ Call("deployment", Workload(c, r), Wanted(c, s, r)) \in CallsFor(c, s)
      /\ Call("service", Workload(c, r), Wanted(c, s, r).selector) \in CallsFor(c, s)
    BY DEF CallsFor
<1>3. /\ ApplyWorkload(c, s, r) \in Seq(CallsFor(c, s))
      /\ ApplyService(c, r) \in Seq(CallsFor(c, s))
    BY <1>1, <1>2, ServiceOfDeployment DEF ApplyWorkload, ApplyService
<1>4. Serve(c, s, r) \in Seq(CallsFor(c, s))
    BY <1>3 DEF Serve
<1>5. ASSUME NEW n \in ClaimNames(c)
      PROVE  OwnData(c, s, r, n) \in Seq(CallsFor(c, s))
  <2>1. s.role[r].persistence \in Modes(c, s)
      BY <1>1 DEF Modes
  <2>2. Call("claim", Obj(c, n), [mode |-> s.role[r].persistence]) \in CallsFor(c, s)
      BY <2>1 DEF CallsFor
  <2>3. ApplyClaim(c, n, s.role[r].persistence) \in Seq(CallsFor(c, s))
      BY <2>2 DEF ApplyClaim
  <2>4. QED BY <2>3 DEF OwnData, If
<1>6. QED BY <1>3, <1>4, <1>5

LEMMA RemovalCalls ==
    ASSUME NEW c \in CRs, NEW s \in SpecsOf[c], NEW r \in RolesOf(c)
    PROVE  RemoveRole(c, r) \in Seq(CallsFor(c, s))
<1>1. \A verb \in {"noDeployment", "noService"} :
          Call(verb, Workload(c, r), << >>) \in CallsFor(c, s)
    BY DEF CallsFor
<1>2. \A k \in 1..2 : <<"noDeployment", "noService">>[k] \in {"noDeployment", "noService"}
    OBVIOUS
<1>3. RemoveRole(c, r) \in [1..2 -> CallsFor(c, s)]
    BY <1>1, <1>2 DEF RemoveRole
<1>4. QED BY <1>3, SeqDef

(* A plan is made of calls for renderings, claims and removals of its CR    *)
(* (single_children.rs, cluster_apply.rs, assistant_apply.rs).              *)
LEMMA PlanCalls ==
    ASSUME NEW c \in CRs, NEW s \in SpecsOf[c]
    PROVE  Plan(c, s) \in Seq(CallsFor(c, s))
<1> USE ConstantsOK
<1> /\ DataClaim(c.name) \in ClaimNames(c)
    /\ DataClaim(RoleName(c.name, "main")) \in ClaimNames(c)
    /\ NodesClaim(c.name) \in ClaimNames(c)
    /\ BinaryClaim(c.name) \in ClaimNames(c)
    /\ SandboxName(c.ns, c.name, "docker") \in ClaimNames(c)
    BY DEF ClaimNames
<1>1. CASE c.kind = "Single"
  <2>1. "single" \in Roles(c, s)
      BY <1>1 DEF RolesOf, Roles
  <2>2. SinglePlan(c, s) \in Seq(CallsFor(c, s))
      BY <2>1, PartCalls DEF SinglePlan
  <2>3. QED BY <1>1, <2>2 DEF Plan
<1>2. CASE c.kind = "Cluster"
  <2>1. /\ {"main", "worker"} \subseteq Roles(c, s) /\ "webhook" \in RolesOf(c)
        /\ "webhook" \in DOMAIN s.role => "webhook" \in Roles(c, s)
      BY <1>2 DEF RolesOf, Roles
  <2>2. MainPlan(c, s) \in Seq(CallsFor(c, s))
      BY <2>1, PartCalls DEF MainPlan
  <2>3. WebhookPlan(c, s) \in Seq(CallsFor(c, s))
      BY <2>1, PartCalls, RemovalCalls DEF WebhookPlan
  <2>4. ApplyWorkload(c, s, "worker") \in Seq(CallsFor(c, s))
      BY <2>1, PartCalls
  <2>5. If("sharedStorage" \in s.community, ApplyClaim(c, NodesClaim(c.name), s.nodes))
            \in Seq(CallsFor(c, s))
    <3>1. s.nodes \in Modes(c, s)
        BY DEF Modes
    <3>2. Call("claim", Obj(c, NodesClaim(c.name)), [mode |-> s.nodes]) \in CallsFor(c, s)
        BY <3>1 DEF CallsFor
    <3>3. QED BY <3>2 DEF If, ApplyClaim
  <2>6. If(SharedFilesystem(s.binary), ApplyClaim(c, BinaryClaim(c.name), s.binary.shared))
            \in Seq(CallsFor(c, s))
    <3>1. s.binary.shared \in Modes(c, s)
        BY DEF Modes
    <3>2. Call("claim", Obj(c, BinaryClaim(c.name)), [mode |-> s.binary.shared]) \in CallsFor(c, s)
        BY <3>1 DEF CallsFor
    <3>3. QED BY <3>2 DEF If, ApplyClaim
  <2>7. ClusterPlan(c, s) \in Seq(CallsFor(c, s))
      BY <2>2, <2>3, <2>4, <2>5, <2>6 DEF ClusterPlan
  <2>8. QED BY <1>2, <2>7 DEF Plan
<1>3. CASE c.kind = "Assistant"
  <2>1. {"api", "runner"} \subseteq Roles(c, s)
      BY <1>3 DEF RolesOf, Roles
  <2>2. AssistantPlan(c, s) \in Seq(CallsFor(c, s))
      BY <2>1, PartCalls DEF AssistantPlan, SandboxClaim, ClaimNames
  <2>3. QED BY <1>3, <2>2 DEF Plan
<1>4. QED BY <1>1, <1>2, <1>3 DEF Kinds

-----------------------------------------------------------------------------
(* The invariant.                                                           *)

Specified ==
    /\ crs \in Scenes
    /\ DOMAIN spec = crs /\ \A c \in crs : spec[c] \in SpecsOf[c]
    /\ DOMAIN calls = crs /\ \A c \in crs : calls[c] \in Seq(CallsOf(c))
    /\ DOMAIN pods = UNION {ObjsOf(c) : c \in crs}

AllRendered ==
    /\ \A d \in DOMAIN claims : \E c \in crs : \E x \in CallsOf(c) :
          x.verb = "claim" /\ x.obj = d /\ x.body.mode = claims[d]
    /\ \A d \in DOMAIN deps : \E c \in crs : \E x \in Renderings(c) :
          x.obj = d /\ x.dep = deps[d]
    /\ \A d \in DOMAIN services : \E c \in crs : \E x \in Renderings(c) :
          x.obj = d /\ x.dep.selector = services[d]
    /\ \A d \in DOMAIN pods : \A p \in pods[d] : \E c \in crs : \E x \in Renderings(c) :
          x.obj = d /\ x.dep.template = p.template

PodsAlone ==
    \A c \in {a \in crs : a.kind = "Assistant"} : \A d \in ObjsOf(c) :
        pods[d] = {} \/ \E p \in pods[d] : pods[d] = {p}

WorkInv == Specified /\ AllRendered /\ PodsAlone

LEMMA InScenes == UNION Scenes \subseteq CRs
BY ConstantsOK

(* What is known of the members of these sets.                              *)
LEMMA RenderedObj ==
    ASSUME NEW c, NEW x \in Renderings(c)
    PROVE  /\ x.obj \in ObjsOf(c)
           /\ \E s \in Accepted(c) : \E r \in Roles(c, s) : x = Rendering(c, s, r)
<1>1. PICK s \in Accepted(c) : \E r \in Roles(c, s) : x = Rendering(c, s, r)
    BY DEF Renderings
<1>2. QED BY <1>1 DEF ObjsOf, Roles, Rendering

LEMMA CallForms ==
    ASSUME NEW c \in CRs, NEW x \in CallsOf(c)
    PROVE  /\ x.verb \in {"deployment", "service", "claim", "noDeployment", "noService"}
           /\ x.verb = "deployment" =>
                 \E y \in Renderings(c) : x = Call("deployment", y.obj, y.dep)
           /\ x.verb = "service" =>
                 \E y \in Renderings(c) : x = Call("service", y.obj, y.dep.selector)
<1>1. PICK s \in Accepted(c) : \E k \in DOMAIN Plan(c, s) : x = Plan(c, s)[k]
    BY DEF CallsOf
<1>2. s \in SpecsOf[c]
    BY DEF Accepted
<1>3. x \in CallsFor(c, s)
  <2>1. Plan(c, s) \in Seq(CallsFor(c, s))
      BY <1>2, PlanCalls
  <2>2. QED BY <1>1, <2>1, LenProperties, ElementOfSeq
<1>4. ASSUME NEW r \in Roles(c, s)
      PROVE  \E y \in Renderings(c) : y.obj = Workload(c, r) /\ y.dep = Wanted(c, s, r)
  <2>1. Rendering(c, s, r) \in Renderings(c)
      BY DEF Renderings
  <2>2. QED BY <2>1 DEF Rendering
<1>5. CASE \E r \in Roles(c, s) : x = Call("deployment", Workload(c, r), Wanted(c, s, r))
  <2>1. x.verb = "deployment"
      BY <1>5 DEF Call
  <2>2. QED BY <1>4, <1>5, <2>1
<1>6. CASE \E r \in Roles(c, s) : x = Call("service", Workload(c, r), Wanted(c, s, r).selector)
  <2>1. x.verb = "service"
      BY <1>6 DEF Call
  <2>2. QED BY <1>4, <1>6, <2>1
<1>7. CASE x.verb \in {"claim", "noDeployment", "noService"}
    BY <1>7
<1>8. \/ \E r \in Roles(c, s) : x = Call("deployment", Workload(c, r), Wanted(c, s, r))
      \/ \E r \in Roles(c, s) : x = Call("service", Workload(c, r), Wanted(c, s, r).selector)
      \/ x.verb \in {"claim", "noDeployment", "noService"}
    BY <1>3 DEF CallsFor, Call
<1>9. QED BY <1>5, <1>6, <1>7, <1>8

(* A plan of an accepted spec is a sequence of calls.                       *)
LEMMA PlanOfCalls ==
    ASSUME NEW c \in CRs, NEW s \in Accepted(c)
    PROVE  Plan(c, s) \in Seq(CallsOf(c))
<1>1. Plan(c, s) \in Seq(CallsFor(c, s))
    BY PlanCalls DEF Accepted
<1>2. Plan(c, s) \in [1..Len(Plan(c, s)) -> CallsOf(c)] /\ Len(Plan(c, s)) \in Nat
    BY <1>1, LenProperties DEF CallsOf
<1>3. QED BY <1>2, SeqDef

(* The Deployments of an Assistant are recreated, never rolled              *)
(* (sandbox_workloads.rs:85-87).                                            *)
LEMMA SandboxRecreates ==
    ASSUME NEW c \in CRs, c.kind = "Assistant", NEW x \in Renderings(c)
    PROVE  x.dep.strategy.type = "Recreate"
<1>1. PICK s \in Accepted(c) : \E r \in Roles(c, s) : x = Rendering(c, s, r)
    BY RenderedObj
<1> PICK r \in Roles(c, s) : x = Rendering(c, s, r)
    BY <1>1
<1>2. Wanted(c, s, r).strategy = Recreate
    BY DEF Wanted, SandboxDeployment, Deployment, Rendering
<1>3. Recreate.type = "Recreate"
    BY DEF Recreate, RenderedStrategy, NoStrategy
<1>4. QED BY <1>2, <1>3 DEF Rendering

LEMMA InitWorkInv == Init => WorkInv
<1> SUFFICES ASSUME Init PROVE WorkInv
    OBVIOUS
<1>1. crs \in Scenes
    BY DEF Init
<1>2. DOMAIN spec = crs /\ \A c \in crs : spec[c] \in SpecsOf[c]
    BY DEF Init
<1>3. DOMAIN calls = crs /\ \A c \in crs : calls[c] \in Seq(CallsOf(c))
    BY DEF Init
<1>4. DOMAIN pods = UNION {ObjsOf(c) : c \in crs} /\ \A d \in DOMAIN pods : pods[d] = {}
    BY DEF Init
<1>5. DOMAIN claims = {} /\ DOMAIN deps = {} /\ DOMAIN services = {}
    BY DEF Init
<1>6. PodsAlone
    BY <1>4 DEF PodsAlone
<1>7. QED BY <1>1, <1>2, <1>3, <1>4, <1>5, <1>6 DEF WorkInv, Specified, AllRendered

(* What a call admits into the cluster is a rendering.                      *)
LEMMA CallStep ==
    ASSUME WorkInv, NEW c \in crs, MakeCall(c)
    PROVE  WorkInv'
<1> DEFINE call == Head(calls[c])
<1>0. c \in CRs /\ crs \in Scenes /\ crs' = crs /\ pods' = pods /\ spec' = spec
    BY InScenes DEF WorkInv, Specified, MakeCall
<1>1. calls[c] \in Seq(CallsOf(c)) /\ calls[c] # << >>
    BY DEF WorkInv, Specified, MakeCall
<1>2. call \in CallsOf(c) /\ Tail(calls[c]) \in Seq(CallsOf(c))
    BY <1>1
<1>3. calls' = [calls EXCEPT ![c] = Tail(calls[c])] \/ calls' = [calls EXCEPT ![c] = << >>]
    BY DEF MakeCall
<1>4. Specified'
  <2>1. DOMAIN calls = crs /\ \A e \in crs : calls[e] \in Seq(CallsOf(e))
      BY DEF WorkInv, Specified
  <2>2. PICK rest \in Seq(CallsOf(c)) : calls' = [calls EXCEPT ![c] = rest]
      BY <1>2, <1>3, EmptySeq
  <2>3. DOMAIN calls' = crs /\ \A e \in crs : calls'[e] \in Seq(CallsOf(e))
      BY <2>1, <2>2
  <2>4. QED BY <1>0, <2>3 DEF WorkInv, Specified
<1>5. PodsAlone'
    BY <1>0 DEF WorkInv, PodsAlone
<1>6. ASSUME Effect(call), NEW d \in DOMAIN deps'
      PROVE  \E e \in crs : \E x \in Renderings(e) : x.obj = d /\ x.dep = deps'[d]
  <2>1. CASE call.verb = "deployment"
    <3>1. PICK x \in Renderings(c) : call = Call("deployment", x.obj, x.dep)
        BY <1>0, <1>2, <2>1, CallForms
    <3>2. deps' = With(deps, x.obj, x.dep)
        BY <1>6, <3>1 DEF Effect, Call
    <3>3. CASE d = x.obj
        BY <3>2, <3>3 DEF With
    <3>4. CASE d # x.obj
      <4>1. d \in DOMAIN deps /\ deps'[d] = deps[d]
          BY <1>6, <3>2, <3>4 DEF With
      <4>2. QED BY <4>1 DEF WorkInv, AllRendered
    <3>5. QED BY <3>3, <3>4
  <2>2. CASE call.verb # "deployment"
    <3>1. deps' = deps \/ deps' = Without(deps, call.obj)
        BY <1>6, <2>2 DEF Effect
    <3>2. d \in DOMAIN deps /\ deps'[d] = deps[d]
        BY <1>6, <3>1 DEF Without
    <3>3. QED BY <3>2 DEF WorkInv, AllRendered
  <2>3. QED BY <2>1, <2>2
<1>7. ASSUME Effect(call), NEW d \in DOMAIN services'
      PROVE  \E e \in crs : \E x \in Renderings(e) : x.obj = d /\ x.dep.selector = services'[d]
  <2>1. CASE call.verb = "service"
    <3>1. PICK x \in Renderings(c) : call = Call("service", x.obj, x.dep.selector)
        BY <1>0, <1>2, <2>1, CallForms
    <3>2. services' = With(services, x.obj, x.dep.selector)
        BY <1>7, <3>1 DEF Effect, Call
    <3>3. CASE d = x.obj
        BY <3>2, <3>3 DEF With
    <3>4. CASE d # x.obj
      <4>1. d \in DOMAIN services /\ services'[d] = services[d]
          BY <1>7, <3>2, <3>4 DEF With
      <4>2. QED BY <4>1 DEF WorkInv, AllRendered
    <3>5. QED BY <3>3, <3>4
  <2>2. CASE call.verb # "service"
    <3>1. services' = services \/ services' = Without(services, call.obj)
        BY <1>7, <2>2 DEF Effect
    <3>2. d \in DOMAIN services /\ services'[d] = services[d]
        BY <1>7, <3>1 DEF Without
    <3>3. QED BY <3>2 DEF WorkInv, AllRendered
  <2>3. QED BY <2>1, <2>2
<1>10. ASSUME Effect(call), NEW d \in DOMAIN claims'
      PROVE  \E e \in crs : \E x \in CallsOf(e) :
                x.verb = "claim" /\ x.obj = d /\ x.body.mode = claims'[d]
  <2>1. CASE call.verb = "claim" /\ d = call.obj
    <3>1. claims'[d] = call.body.mode
        BY <1>10, <2>1 DEF Effect, With
    <3>2. QED BY <1>2, <2>1, <3>1
  <2>2. CASE ~(call.verb = "claim" /\ d = call.obj)
    <3>1. d \in DOMAIN claims /\ claims'[d] = claims[d]
        BY <1>10, <2>2 DEF Effect, With
    <3>2. QED BY <3>1 DEF WorkInv, AllRendered
  <2>3. QED BY <2>1, <2>2
<1>8. AllRendered'
  <2>1. CASE Effect(call)
      BY <1>0, <1>6, <1>7, <1>10, <2>1 DEF WorkInv, AllRendered
  <2>2. CASE UNCHANGED <<claims, deps, services>>
      BY <1>0, <2>2 DEF WorkInv, AllRendered
  <2>3. QED BY <2>1, <2>2 DEF MakeCall
<1>9. QED BY <1>4, <1>5, <1>8 DEF WorkInv

(* A new pod is one of the Deployment's template, and where pods are        *)
(* recreated there is none before it.                                       *)
LEMMA PodStep ==
    ASSUME WorkInv, NamesDistinct, NEW d \in Objs, Pod(d)
    PROVE  WorkInv'
<1>0. /\ DOMAIN pods' = DOMAIN pods /\ d \in DOMAIN pods
      /\ \A e \in DOMAIN pods \ {d} : pods'[e] = pods[e]
      /\ UNCHANGED <<crs, spec, calls, claims, deps, services>>
    BY DEF Pod, StartPod, StopPod, PodReady, Objs
<1>1. Specified'
    BY <1>0 DEF WorkInv, Specified
<1>2. ASSUME NEW p \in pods'[d]
      PROVE  \E c \in crs : \E x \in Renderings(c) : x.obj = d /\ x.dep.template = p.template
  <2>1. CASE StartPod(d)
    <3>1. p \in pods[d] \/ (d \in DOMAIN deps /\ p.template = deps[d].template)
        BY <1>0, <2>1 DEF StartPod
    <3>2. QED BY <1>0, <3>1 DEF WorkInv, AllRendered
  <2>2. CASE StopPod(d)
    <3>1. p \in pods[d]
        BY <1>0, <2>2 DEF StopPod
    <3>2. QED BY <1>0, <3>1 DEF WorkInv, AllRendered
  <2>3. CASE PodReady(d)
    <3>1. PICK q \in pods[d] : pods' = [pods EXCEPT ![d] = (pods[d] \ {q}) \union {[q EXCEPT !.ready = TRUE]}]
        BY <2>3 DEF PodReady
    <3>2. \E c \in crs : \E x \in Renderings(c) : x.obj = d /\ x.dep.template = q.template
        BY <1>0 DEF WorkInv, AllRendered
    <3>3. p \in pods[d] \/ p = [q EXCEPT !.ready = TRUE]
        BY <1>0, <3>1
    <3>4. CASE p = [q EXCEPT !.ready = TRUE]
      <4>1. \E c \in crs : \E x \in Renderings(c) : x.obj = d /\ x.dep.template = p.template
          BY <3>2, <3>4
      <4>2. QED BY <4>1
    <3>5. QED BY <1>0, <3>3, <3>4 DEF WorkInv, AllRendered
  <2>4. QED BY <2>1, <2>2, <2>3 DEF Pod
<1>3. AllRendered'
    BY <1>0, <1>2 DEF WorkInv, AllRendered
<1>4. ASSUME NEW c \in crs, c.kind = "Assistant", d \in ObjsOf(c)
      PROVE  pods'[d] = {} \/ \E p \in pods'[d] : pods'[d] = {p}
  <2>0. pods[d] = {} \/ \E p \in pods[d] : pods[d] = {p}
      BY <1>4 DEF WorkInv, PodsAlone
  <2>1. CASE StartPod(d)
    <3>1. d \in DOMAIN deps /\ MayStart(d)
        BY <2>1 DEF StartPod
    <3>2. PICK e \in crs : \E x \in Renderings(e) : x.obj = d /\ x.dep = deps[d]
        BY <3>1 DEF WorkInv, AllRendered
    <3>3. crs \in Scenes /\ c \in CRs /\ e \in CRs
        BY InScenes DEF WorkInv, Specified
    <3>4. d \in ObjsOf(e)
        BY <3>2, RenderedObj
    <3>5. e = c
        BY <3>3, <3>4, <1>4 DEF NamesDistinct
    <3>6. deps[d].strategy.type = "Recreate"
        BY <3>2, <3>3, <3>5, <1>4, SandboxRecreates
    <3>7. pods[d] = {}
        BY <3>1, <3>6 DEF MayStart
    <3>8. pods'[d] = {[template |-> deps[d].template, ready |-> FALSE]}
        BY <1>0, <2>1, <3>7 DEF StartPod
    <3>9. QED BY <3>8
  <2>2. CASE StopPod(d)
    <3>1. pods'[d] \subseteq pods[d]
        BY <1>0, <2>2 DEF StopPod
    <3>2. QED BY <2>0, <3>1
  <2>3. CASE PodReady(d)
    <3>1. PICK q \in pods[d] : pods' = [pods EXCEPT ![d] = (pods[d] \ {q}) \union {[q EXCEPT !.ready = TRUE]}]
        BY <2>3 DEF PodReady
    <3>2. pods[d] = {q}
        BY <2>0
    <3>3. pods'[d] = {[q EXCEPT !.ready = TRUE]}
        BY <1>0, <3>1, <3>2
    <3>4. QED BY <3>3
  <2>4. QED BY <2>1, <2>2, <2>3 DEF Pod
<1>5. PodsAlone'
  <2>1. \A c \in crs : ObjsOf(c) \subseteq DOMAIN pods
      BY DEF WorkInv, Specified
  <2>2. QED BY <1>0, <1>4, <2>1 DEF WorkInv, PodsAlone
<1>6. QED BY <1>1, <1>3, <1>5 DEF WorkInv

LEMMA ClusterFrame ==
    ASSUME WorkInv, UNCHANGED <<crs, claims, deps, services, pods>>
    PROVE  AllRendered' /\ PodsAlone'
BY DEF WorkInv, AllRendered, PodsAlone

LEMMA WorkInvStep == WorkInv /\ NamesDistinct /\ [Next]_vars => WorkInv'
<1> SUFFICES ASSUME WorkInv, NamesDistinct, [Next]_vars PROVE WorkInv'
    OBVIOUS
<1>0. /\ crs \in Scenes /\ crs \subseteq CRs /\ DOMAIN spec = crs /\ DOMAIN calls = crs
      /\ \A c \in crs : spec[c] \in SpecsOf[c] /\ calls[c] \in Seq(CallsOf(c))
    BY InScenes DEF WorkInv, Specified
<1>1. ASSUME NEW c \in crs, Begin(c) PROVE WorkInv'
  <2>1. Plan(c, spec[c]) \in Seq(CallsOf(c))
      BY <1>0, <1>1, PlanOfCalls DEF Begin, Accepted
  <2>2. DOMAIN calls' = crs /\ \A e \in crs : calls'[e] \in Seq(CallsOf(e))
      BY <1>0, <1>1, <2>1 DEF Begin
  <2>3. UNCHANGED <<crs, spec, claims, deps, services, pods>>
      BY <1>1 DEF Begin, cluster
  <2>4. Specified'
      BY <1>0, <2>2, <2>3 DEF WorkInv, Specified
  <2>5. QED BY <2>2, <2>3, <2>4, ClusterFrame DEF WorkInv
<1>2. ASSUME NEW c \in crs, MakeCall(c) PROVE WorkInv'
    BY <1>2, CallStep
<1>3. ASSUME NEW c \in crs, Fault(c) PROVE WorkInv'
  <2>1. calls' = [calls EXCEPT ![c] = << >>] /\ << >> \in Seq(CallsOf(c))
      BY <1>3, EmptySeq DEF Fault
  <2>2. DOMAIN calls' = crs /\ \A e \in crs : calls'[e] \in Seq(CallsOf(e))
      BY <1>0, <2>1
  <2>3. UNCHANGED <<crs, spec, claims, deps, services, pods>>
      BY <1>3 DEF Fault, cluster
  <2>4. Specified'
      BY <1>0, <2>2, <2>3 DEF WorkInv, Specified
  <2>5. QED BY <2>2, <2>3, <2>4, ClusterFrame DEF WorkInv
<1>4. ASSUME NEW c \in crs, NEW s \in SpecsOf[c], EditSpec(c, s) PROVE WorkInv'
  <2>1. DOMAIN spec' = crs /\ \A e \in crs : spec'[e] \in SpecsOf[e]
      BY <1>0, <1>4 DEF EditSpec
  <2>2. UNCHANGED <<crs, calls, claims, deps, services, pods>>
      BY <1>4 DEF EditSpec, cluster
  <2>3. Specified'
      BY <1>0, <2>1, <2>2 DEF WorkInv, Specified
  <2>5. QED BY <2>1, <2>2, <2>3, ClusterFrame DEF WorkInv
<1>5. ASSUME NEW d \in Objs, Pod(d) PROVE WorkInv'
    BY <1>5, PodStep
<1>6. CASE UNCHANGED vars
  <2>1. UNCHANGED <<crs, spec, calls, claims, deps, services, pods>>
      BY <1>6 DEF vars, cluster
  <2>2. Specified'
      BY <2>1 DEF WorkInv, Specified
  <2>3. QED BY <2>1, <2>2, ClusterFrame DEF WorkInv
<1>7. QED BY <1>1, <1>2, <1>3, <1>4, <1>5, <1>6 DEF Next, Reconcile

(* A part of a sandbox never has two pods (sandbox_workloads.rs:85-87).     *)
THEOREM NeverTwoRunners == ASSUME NamesDistinct PROVE Spec => []OneAtATime
<1>1. WorkInv => OneAtATime
  <2> SUFFICES ASSUME WorkInv, NEW c \in crs, c.kind = "Assistant", NEW d \in ObjsOf(c)
               PROVE  Cardinality(pods[d]) <= 1
      BY DEF OneAtATime
  <2>1. CASE pods[d] = {}
      BY <2>1, FS_EmptySet
  <2>2. ASSUME NEW p \in pods[d], pods[d] = {p} PROVE Cardinality(pods[d]) <= 1
    <3>1. Cardinality({p}) = 1
        BY FS_Singleton
    <3>2. QED BY <2>2, <3>1
  <2>3. QED BY <2>1, <2>2 DEF WorkInv, PodsAlone
<1>2. QED BY InitWorkInv, WorkInvStep, <1>1, PTL DEF Spec

-----------------------------------------------------------------------------
(* Selectors.                                                               *)

(* What the labels and the selector of a rendering say of its object.       *)
LEMMA SandboxRendering ==
    ASSUME OwnKeysOnly, NEW c \in UNION Scenes, c.kind = "Assistant", NEW x \in Renderings(c)
    PROVE  \E r \in {"api", "runner"} :
              /\ x.obj = <<c.place, SandboxName(c.ns, c.name, r)>>
              /\ x.dep.selector = SandboxSelector(c.ns, c.name, SandboxComponent(r))
              /\ x.dep.labels = SandboxLabels(c.ns, c.name, SandboxComponent(r))
              /\ \A k \in OperatorKeys :
                    /\ k \in DOMAIN x.dep.template.labels <=> k \in DOMAIN x.dep.labels
                    /\ k \in DOMAIN x.dep.labels => x.dep.template.labels[k] = x.dep.labels[k]
<1>1. PICK s \in Accepted(c) : \E r \in Roles(c, s) : x = Rendering(c, s, r)
    BY RenderedObj
<1> PICK r \in Roles(c, s) : x = Rendering(c, s, r)
    BY <1>1
<1>2. r \in {"api", "runner"}
    BY DEF RolesOf, Roles
<1>3. x.obj = <<c.place, SandboxName(c.ns, c.name, r)>>
    BY DEF Workload, Obj, WorkloadName, Rendering
<1> DEFINE own == SandboxLabels(c.ns, c.name, SandboxComponent(r))
<1>4. /\ x.dep.selector = SandboxSelector(c.ns, c.name, SandboxComponent(r))
      /\ x.dep.labels = own
      /\ x.dep.template = SandboxTemplate(c.ns, c.name, r, s)
    BY DEF Wanted, SandboxDeployment, Deployment, Rendering
<1>5. x.dep.template.labels = Merged(own, s.role[r].labels)
    BY <1>4 DEF SandboxTemplate, SandboxPod, PodTemplate
<1>6. \A k \in OperatorKeys : k \notin DOMAIN s.role[r].labels
    BY DEF OwnKeysOnly
<1>7. QED BY <1>2, <1>3, <1>4, <1>5, <1>6 DEF Merged

LEMMA InstanceRendering ==
    ASSUME OwnKeysOnly, NEW c \in UNION Scenes, c.kind # "Assistant", NEW x \in Renderings(c)
    PROVE  \E n :
              /\ x.obj = <<c.place, n>>
              /\ x.dep.selector = SelectorLabels(n)
              /\ {"name", "instance"} \subseteq DOMAIN x.dep.labels
              /\ x.dep.labels["name"] = <<"n8n">> /\ x.dep.labels["instance"] = n
              /\ "assistant" \notin DOMAIN x.dep.labels
              /\ \A k \in OperatorKeys :
                    /\ k \in DOMAIN x.dep.template.labels <=> k \in DOMAIN x.dep.labels
                    /\ k \in DOMAIN x.dep.labels => x.dep.template.labels[k] = x.dep.labels[k]
<1>1. PICK s \in Accepted(c) : \E r \in Roles(c, s) : x = Rendering(c, s, r)
    BY RenderedObj
<1> PICK r \in Roles(c, s) : x = Rendering(c, s, r)
    BY <1>1
<1> DEFINE n == RoleName(c.name, r)
           own == CommonLabels(n, s.role[r].image, Component(r))
<1>2. x.obj = <<c.place, n>>
    BY DEF Workload, Obj, WorkloadName, Rendering
<1>3. /\ x.dep.selector = SelectorLabels(n) /\ x.dep.labels = own
      /\ x.dep.template = InstanceTemplate(c.name, r, s)
    BY DEF Wanted, InstanceDeployment, Deployment, Rendering
<1>4. x.dep.template.labels = Merged(own, s.role[r].labels)
    BY <1>3 DEF InstanceTemplate, PodTemplate
<1>5. /\ DOMAIN own = {"name", "instance", "component", "version"}
      /\ own["name"] = <<"n8n">> /\ own["instance"] = n
    BY DEF CommonLabels, SelectorLabels, Merged
<1>6. \A k \in OperatorKeys : k \notin DOMAIN s.role[r].labels
    BY DEF OwnKeysOnly
<1>7. \A k \in OperatorKeys :
          /\ k \in DOMAIN x.dep.template.labels <=> k \in DOMAIN own
          /\ k \in DOMAIN own => x.dep.template.labels[k] = own[k]
    BY <1>4, <1>6 DEF Merged
<1> HIDE DEF n, own
<1>8. QED BY <1>2, <1>3, <1>5, <1>7

(* The two parts of a sandbox have different names, labels and all.         *)
LEMMA SandboxPartsDiffer ==
    ASSUME NEW c \in CRs, NEW q \in {"api", "runner"}, NEW r \in {"api", "runner"}
    PROVE  /\ SandboxName(c.ns, c.name, q) = SandboxName(c.ns, c.name, r) => q = r
           /\ SandboxComponent(q) = SandboxComponent(r) => q = r
<1>1. SandboxComponent(q) = SandboxComponent(r) => q = r
    BY DEF SandboxComponent
<1> DEFINE base == c.ns \o c.name
           S == DOMAIN Width \union {"sandbox", "api", "runner", "1"}
<1>2. base \in Seq(S)
  <2>1. base \in Seq(DOMAIN Width)
      BY ConstantsOK
  <2>2. QED BY <2>1, SeqMonotonic
<1>3. /\ SandboxName(c.ns, c.name, "api") = base \o <<"sandbox", "api">>
      /\ SandboxName(c.ns, c.name, "runner") = base \o <<"sandbox", "runner", "1">>
    BY DEF SandboxName
<1> HIDE DEF base
<1>4. Len(base \o <<"sandbox", "api">>) = Len(base) + 2
  <2>1. <<"sandbox", "api">> \in Seq(S) /\ Len(<<"sandbox", "api">>) = 2
      OBVIOUS
  <2> HIDE DEF S
  <2>2. QED BY <1>2, <2>1, ConcatProperties
<1>5. Len(base \o <<"sandbox", "runner", "1">>) = Len(base) + 3
  <2>1. <<"sandbox", "runner", "1">> \in Seq(S) /\ Len(<<"sandbox", "runner", "1">>) = 3
      OBVIOUS
  <2> HIDE DEF S
  <2>2. QED BY <1>2, <2>1, ConcatProperties
<1>6. SandboxName(c.ns, c.name, "api") # SandboxName(c.ns, c.name, "runner")
  <2> SUFFICES ASSUME SandboxName(c.ns, c.name, "api") = SandboxName(c.ns, c.name, "runner")
               PROVE  FALSE
      OBVIOUS
  <2>1. Len(base \o <<"sandbox", "api">>) = Len(base \o <<"sandbox", "runner", "1">>)
      BY <1>3
  <2>2. Len(base) \in Nat
      BY <1>2, LenProperties
  <2>3. QED BY <1>4, <1>5, <2>1, <2>2
<1>7. QED BY <1>1, <1>6

LEMMA SelectorsExact ==
    ASSUME NamesDistinct, OwnKeysOnly, NEW cs \in Scenes, NEW c \in cs, NEW e \in cs,
           NEW x \in Renderings(c), NEW y \in Renderings(e), x.obj[1] = y.obj[1]
    PROVE  Matches(x.dep.selector, y.dep.template.labels) <=> x.obj = y.obj
<1>0. /\ c \in CRs /\ e \in CRs /\ c \in UNION Scenes /\ e \in UNION Scenes
      /\ x.obj = y.obj => c = e
    BY InScenes, RenderedObj DEF NamesDistinct
<1>1. CASE c.kind # "Assistant" /\ e.kind # "Assistant"
  <2>1. PICK n : x.obj = <<c.place, n>> /\ x.dep.selector = SelectorLabels(n)
      BY <1>0, <1>1, InstanceRendering
  <2>2. PICK m :
            /\ y.obj = <<e.place, m>>
            /\ {"name", "instance"} \subseteq DOMAIN y.dep.template.labels
            /\ y.dep.template.labels["name"] = <<"n8n">> /\ y.dep.template.labels["instance"] = m
      BY <1>0, <1>1, InstanceRendering DEF OperatorKeys
  <2>3. Matches(x.dep.selector, y.dep.template.labels) <=> m = n
      BY <2>1, <2>2 DEF Matches, SelectorLabels
  <2>4. QED BY <2>1, <2>2, <2>3
<1>2. CASE c.kind = "Assistant" /\ e.kind # "Assistant"
  <2>1. PICK r : x.dep.selector = SandboxSelector(c.ns, c.name, SandboxComponent(r))
      BY <1>0, <1>2, SandboxRendering
  <2>2. y.dep.template.labels["name"] = <<"n8n">>
      BY <1>0, <1>2, InstanceRendering DEF OperatorKeys
  <2>3. "name" \in DOMAIN x.dep.selector /\ x.dep.selector["name"] = <<"n8n-sandbox">>
      BY <2>1 DEF SandboxSelector
  <2>4. <<"n8n-sandbox">> # <<"n8n">>
      OBVIOUS
  <2>5. ~Matches(x.dep.selector, y.dep.template.labels)
      BY <2>2, <2>3, <2>4 DEF Matches
  <2>6. QED BY <1>0, <1>2, <2>5
<1>3. CASE c.kind # "Assistant" /\ e.kind = "Assistant"
  <2>1. PICK n : x.dep.selector = SelectorLabels(n)
      BY <1>0, <1>3, InstanceRendering
  <2>2. y.dep.template.labels["name"] = <<"n8n-sandbox">>
    <3>1. PICK q :
              /\ y.dep.labels = SandboxLabels(e.ns, e.name, SandboxComponent(q))
              /\ \A k \in OperatorKeys :
                    k \in DOMAIN y.dep.labels => y.dep.template.labels[k] = y.dep.labels[k]
        BY <1>0, <1>3, SandboxRendering
    <3>2. QED BY <3>1 DEF OperatorKeys, SandboxLabels
  <2>3. "name" \in DOMAIN x.dep.selector /\ x.dep.selector["name"] = <<"n8n">>
      BY <2>1 DEF SelectorLabels
  <2>4. <<"n8n-sandbox">> # <<"n8n">>
      OBVIOUS
  <2>5. ~Matches(x.dep.selector, y.dep.template.labels)
      BY <2>2, <2>3, <2>4 DEF Matches
  <2>6. QED BY <1>0, <1>3, <2>5
<1>4. CASE c.kind = "Assistant" /\ e.kind = "Assistant"
  <2>1. PICK r \in {"api", "runner"} :
            /\ x.obj = <<c.place, SandboxName(c.ns, c.name, r)>>
            /\ x.dep.selector = SandboxSelector(c.ns, c.name, SandboxComponent(r))
      BY <1>0, <1>4, SandboxRendering
  <2>2. PICK q \in {"api", "runner"} :
            /\ y.obj = <<e.place, SandboxName(e.ns, e.name, q)>>
            /\ y.dep.labels = SandboxLabels(e.ns, e.name, SandboxComponent(q))
            /\ \A k \in OperatorKeys :
                  /\ k \in DOMAIN y.dep.template.labels <=> k \in DOMAIN y.dep.labels
                  /\ k \in DOMAIN y.dep.labels => y.dep.template.labels[k] = y.dep.labels[k]
      BY <1>0, <1>4, SandboxRendering
  <2>3. LET l == y.dep.template.labels IN
        /\ {"name", "instance", "component", "namespace"} \subseteq DOMAIN l
        /\ l["name"] = <<"n8n-sandbox">> /\ l["instance"] = e.name
        /\ l["component"] = <<SandboxComponent(q)>> /\ l["namespace"] = e.ns
      BY <2>2 DEF OperatorKeys, SandboxLabels
  <2>4. Matches(x.dep.selector, y.dep.template.labels) <=>
            /\ e.name = c.name /\ e.ns = c.ns
            /\ SandboxComponent(q) = SandboxComponent(r)
      BY <2>1, <2>3 DEF Matches, SandboxSelector
  <2>5. Matches(x.dep.selector, y.dep.template.labels) <=> c = e /\ q = r
      BY <1>0, <1>4, <2>4, SandboxPartsDiffer DEF NamesDistinct
  <2>6. x.obj = y.obj <=> c = e /\ q = r
      BY <1>0, <2>1, <2>2, SandboxPartsDiffer
  <2>7. QED BY <2>5, <2>6
<1>5. QED BY <1>1, <1>2, <1>3, <1>4

LEMMA CleanupExact ==
    ASSUME NamesDistinct, OwnKeysOnly, NEW cs \in Scenes, NEW c \in cs,
           c.kind = "Assistant", NEW e \in cs, NEW y \in Renderings(e)
    PROVE  Matches(CleanupSelector(c.ns, c.name), y.dep.labels) <=> y.obj \in ObjsOf(c)
<1>1. y.obj \in ObjsOf(c) <=> c = e
    BY RenderedObj DEF NamesDistinct
<1>0. e \in UNION Scenes
    OBVIOUS
<1>2. CASE e.kind # "Assistant"
  <2>1. "assistant" \notin DOMAIN y.dep.labels
      BY <1>0, <1>2, InstanceRendering
  <2>2. QED BY <1>1, <1>2, <2>1 DEF Matches, CleanupSelector
<1>3. CASE e.kind = "Assistant"
  <2>1. PICK q : y.dep.labels = SandboxLabels(e.ns, e.name, SandboxComponent(q))
      BY <1>0, <1>3, SandboxRendering
  <2>2. Matches(CleanupSelector(c.ns, c.name), y.dep.labels) <=> e.name = c.name /\ e.ns = c.ns
      BY <2>1 DEF Matches, CleanupSelector, SandboxLabels
  <2>3. QED BY <1>1, <1>3, <2>2 DEF NamesDistinct
<1>4. QED BY <1>2, <1>3

(* A Service selects the pods of its own workload and of no other, of       *)
(* whatever spec they are, and the finalizer's selector finds the           *)
(* Deployments of its Assistant and no others (sandbox_workloads.rs:31-40,  *)
(* sandbox_names.rs:43-61, labels.rs:3-10).                                 *)
THEOREM ServicesSelectOwn ==
    ASSUME NamesDistinct, OwnKeysOnly
    PROVE  Spec => []SelectsOwn
<1>1. WorkInv => SelectsOwn
  <2> SUFFICES ASSUME WorkInv PROVE SelectsOwn
      OBVIOUS
  <2>0. crs \in Scenes
      BY DEF WorkInv, Specified
  <2>1. ASSUME NEW d \in DOMAIN services, NEW o \in Objs, NEW p \in pods[o], d[1] = o[1]
        PROVE  Matches(services[d], p.template.labels) <=> d = o
    <3>1. PICK c \in crs : \E x \in Renderings(c) : x.obj = d /\ x.dep.selector = services[d]
        BY DEF WorkInv, AllRendered
    <3> PICK x \in Renderings(c) : x.obj = d /\ x.dep.selector = services[d]
        BY <3>1
    <3>2. PICK e \in crs : \E y \in Renderings(e) : y.obj = o /\ y.dep.template = p.template
        BY DEF WorkInv, AllRendered, Objs
    <3> PICK y \in Renderings(e) : y.obj = o /\ y.dep.template = p.template
        BY <3>2
    <3>3. Matches(x.dep.selector, y.dep.template.labels) <=> x.obj = y.obj
        BY <2>0, <2>1, SelectorsExact
    <3>4. QED BY <3>3
  <2>2. ASSUME NEW c \in crs, c.kind = "Assistant", NEW d \in DOMAIN deps
        PROVE  Matches(CleanupSelector(c.ns, c.name), deps[d].labels) <=> d \in ObjsOf(c)
    <3>1. PICK e \in crs : \E y \in Renderings(e) : y.obj = d /\ y.dep = deps[d]
        BY DEF WorkInv, AllRendered
    <3> PICK y \in Renderings(e) : y.obj = d /\ y.dep = deps[d]
        BY <3>1
    <3>2. Matches(CleanupSelector(c.ns, c.name), y.dep.labels) <=> y.obj \in ObjsOf(c)
        BY <2>0, <2>2, CleanupExact
    <3>3. QED BY <3>2
  <2>3. QED BY <2>1, <2>2 DEF SelectsOwn
<1>2. QED BY InitWorkInv, WorkInvStep, <1>1, PTL DEF Spec

-----------------------------------------------------------------------------
(* Lengths.                                                                 *)

Values == Seq(DOMAIN Width)

(* The characters of a value, by part and place in it.                      *)
Characters(value) == UNION {{i} \X (1..Width[value[i]]) : i \in DOMAIN value}

LEMMA CharacterOf ==
    ASSUME NEW v \in Values, NEW x
    PROVE  x \in Characters(v) <=>
               \E i \in 1..Len(v) : \E k \in 1..Width[v[i]] : x = <<i, k>>
<1>1. DOMAIN v = 1..Len(v)
    BY LenProperties DEF Values
<1>2. QED BY <1>1 DEF Characters

LEMMA CharactersFinite ==
    ASSUME NEW v \in Values
    PROVE  IsFiniteSet(Characters(v)) /\ Cardinality(Characters(v)) \in Nat
<1> DEFINE Part(i) == {i} \X (1..Width[v[i]])
           Parts == {Part(i) : i \in DOMAIN v}
           f == [i \in DOMAIN v |-> Part(i)]
<1>1. DOMAIN v = 1..Len(v) /\ Len(v) \in Nat /\ \A i \in 1..Len(v) : v[i] \in DOMAIN Width
    BY LenProperties, ElementOfSeq DEF Values
<1>2. IsFiniteSet(DOMAIN v)
    BY <1>1, FS_Interval
<1>3. f \in Surjection(DOMAIN v, Parts)
    BY DEF Surjection
<1>4. IsFiniteSet(Parts)
    BY <1>2, <1>3, FS_Surjection
<1>5. ASSUME NEW i \in DOMAIN v PROVE IsFiniteSet(Part(i))
  <2>1. Width[v[i]] \in Nat
      BY <1>1, WidthsOK
  <2>2. IsFiniteSet(1..Width[v[i]])
      BY <2>1, FS_Interval
  <2>3. IsFiniteSet({i})
      BY FS_Singleton
  <2>4. QED BY <2>2, <2>3, FS_Product
<1>6. IsFiniteSet(UNION Parts)
    BY <1>4, <1>5, FS_UNION
<1>7. QED BY <1>6, FS_CardinalityType DEF Characters

LEMMA LengthOf ==
    ASSUME NEW v \in Values
    PROVE  /\ Length(v) = Cardinality(Characters(v)) + Len(v) - 1
           /\ Length(v) \in Int
           /\ v # << >> => Length(v) \in Nat
<1>1. Length(v) = Cardinality(Characters(v)) + Len(v) - 1
    BY DEF Length, Characters
<1>2. Len(v) \in Nat /\ (v # << >> => Len(v) > 0)
    BY LenProperties, EmptySeq DEF Values
<1>3. Cardinality(Characters(v)) \in Nat
    BY CharactersFinite
<1>4. QED BY <1>1, <1>2, <1>3

(* The length of one part is its width.                                     *)
LEMMA LengthOfPart ==
    ASSUME NEW w \in DOMAIN Width
    PROVE  <<w>> \in Values /\ Length(<<w>>) = Width[w]
<1>1. <<w>> \in Values /\ Len(<<w>>) = 1 /\ <<w>>[1] = w
    BY DEF Values
<1>2. Width[w] \in Nat
    BY WidthsOK
<1>3. Characters(<<w>>) = {1} \X (1..Width[w])
    BY <1>1, CharacterOf
<1>4. IsFiniteSet({1}) /\ Cardinality({1}) = 1
    BY FS_Singleton
<1>5. IsFiniteSet(1..Width[w]) /\ Cardinality(1..Width[w]) = Width[w]
    BY <1>2, FS_Interval
<1>6. Cardinality(Characters(<<w>>)) = Width[w]
  <2>1. Cardinality({1} \X (1..Width[w])) = Cardinality({1}) * Cardinality(1..Width[w])
      BY <1>4, <1>5, FS_Product
  <2>2. Cardinality({1} \X (1..Width[w])) = 1 * Width[w]
      BY <1>4, <1>5, <2>1
  <2>3. 1 * Width[w] = Width[w]
      BY <1>2
  <2>4. QED BY <1>3, <2>2, <2>3
<1>7. Length(<<w>>) = Cardinality(Characters(<<w>>)) + Len(<<w>>) - 1
    BY <1>1, LengthOf
<1>8. QED BY <1>1, <1>2, <1>6, <1>7

(* Values that are joined get a dash between them.                          *)
LEMMA LengthOfJoin ==
    ASSUME NEW v \in Values, NEW w \in Values
    PROVE  v \o w \in Values /\ Length(v \o w) = Length(v) + 1 + Length(w)
<1> DEFINE n == Len(v)
           Moved == {<<x[1] + n, x[2]>> : x \in Characters(w)}
           f == [x \in Characters(w) |-> <<x[1] + n, x[2]>>]
<1>1. /\ n \in Nat /\ Len(w) \in Nat /\ v \o w \in Values /\ Len(v \o w) = n + Len(w)
      /\ \A i \in 1..n + Len(w) : (v \o w)[i] = IF i <= n THEN v[i] ELSE w[i - n]
    BY LenProperties, ConcatProperties DEF Values
<1>2. \A x \in Characters(w) : x[1] \in 1..Len(w) /\ x = <<x[1], x[2]>>
    BY CharacterOf
<1>3. \A x \in Characters(v) : x[1] \in 1..n
    BY CharacterOf
<1>4. Characters(v) \intersect Moved = {}
    BY <1>1, <1>2, <1>3
<1>5. ASSUME NEW x, x \in Characters(v \o w) PROVE x \in Characters(v) \union Moved
  <2>1. PICK i \in 1..n + Len(w) : \E k \in 1..Width[(v \o w)[i]] : x = <<i, k>>
    <3>1. \A u \in Values : \A y \in Characters(u) :
              \E i \in 1..Len(u) : \E k \in 1..Width[u[i]] : y = <<i, k>>
        BY CharacterOf
    <3>2. v \o w \in Values /\ Len(v \o w) = n + Len(w)
        BY <1>1
    <3> HIDE DEF n, Moved, f
    <3>3. \E i \in 1..Len(v \o w) : \E k \in 1..Width[(v \o w)[i]] : x = <<i, k>>
        BY <1>5, <3>1, <3>2, Zenon
    <3>4. QED BY <3>2, <3>3
  <2>2. PICK k \in 1..Width[(v \o w)[i]] : x = <<i, k>>
      BY <2>1
  <2>3. CASE i <= n
    <3>1. i \in 1..n /\ k \in 1..Width[v[i]]
        BY <1>1, <2>3
    <3>2. QED BY <2>2, <3>1, CharacterOf
  <2>4. CASE i > n
    <3>1. i - n \in 1..Len(w) /\ k \in 1..Width[w[i - n]]
        BY <1>1, <2>4
    <3>2. <<i - n, k>> \in Characters(w)
        BY <3>1, CharacterOf
    <3>3. x = <<<<i - n, k>>[1] + n, <<i - n, k>>[2]>>
        BY <1>1, <2>2
    <3>4. QED BY <3>2, <3>3
  <2>5. QED BY <1>1, <2>3, <2>4
<1>6. ASSUME NEW x \in Characters(v) PROVE x \in Characters(v \o w)
  <2>1. PICK i \in 1..n : \E k \in 1..Width[v[i]] : x = <<i, k>>
      BY CharacterOf
  <2>2. i \in 1..n + Len(w) /\ (v \o w)[i] = v[i]
      BY <1>1
  <2>3. QED BY <1>1, <2>1, <2>2, CharacterOf
<1>7. ASSUME NEW x \in Characters(w) PROVE <<x[1] + n, x[2]>> \in Characters(v \o w)
  <2>1. PICK i \in 1..Len(w) : \E k \in 1..Width[w[i]] : x = <<i, k>>
      BY CharacterOf
  <2>2. PICK k \in 1..Width[w[i]] : x = <<i, k>>
      BY <2>1
  <2>3. i + n \in 1..n + Len(w) /\ (v \o w)[i + n] = w[i]
    <3>1. i + n \in 1..n + Len(w) /\ ~(i + n <= n) /\ (i + n) - n = i
        BY <1>1
    <3>2. QED BY <1>1, <3>1
  <2>4. x[1] + n = i + n /\ x[2] = k
      BY <2>2
  <2>5. QED BY <1>1, <2>3, <2>4, CharacterOf
<1>8. Characters(v \o w) = Characters(v) \union Moved
    BY <1>5, <1>6, <1>7
<1>9. IsFiniteSet(Moved) /\ Cardinality(Moved) = Cardinality(Characters(w))
  <2>1. f \in Surjection(Characters(w), Moved)
      BY DEF Surjection
  <2>2. ASSUME NEW x \in Characters(w), NEW y \in Characters(w), f[x] = f[y]
        PROVE  x = y
    <3>1. x[1] + n = y[1] + n /\ x[2] = y[2]
        BY <2>2
    <3>2. x[1] = y[1]
        BY <1>1, <1>2, <3>1
    <3>3. QED BY <1>2, <3>1, <3>2
  <2>3. f \in Injection(Characters(w), Moved)
      BY <2>2 DEF Injection, IsInjective
  <2>4. QED BY <2>1, <2>3, CharactersFinite, FS_Surjection
<1>10. Cardinality(Characters(v \o w)) = Cardinality(Characters(v)) + Cardinality(Characters(w))
  <2>1. Cardinality(Characters(v) \intersect Moved) = 0
      BY <1>4, FS_EmptySet
  <2>2. IsFiniteSet(Characters(v)) /\ Cardinality(Characters(v)) \in Nat
      BY CharactersFinite
  <2>3. Cardinality(Characters(w)) \in Nat
      BY CharactersFinite
  <2> HIDE DEF Moved, f
  <2>4. Cardinality(Characters(v) \union Moved)
            = Cardinality(Characters(v)) + Cardinality(Moved)
              - Cardinality(Characters(v) \intersect Moved)
      BY <1>9, <2>2, FS_Union
  <2>5. QED BY <1>8, <1>9, <2>1, <2>2, <2>3, <2>4
<1>11. /\ Cardinality(Characters(v)) \in Nat /\ Cardinality(Characters(w)) \in Nat
    BY CharactersFinite
<1>12. /\ Length(v) = Cardinality(Characters(v)) + n - 1
       /\ Length(w) = Cardinality(Characters(w)) + Len(w) - 1
       /\ Length(v \o w) = Cardinality(Characters(v \o w)) + Len(v \o w) - 1
    BY <1>1, LengthOf
<1>13. QED BY <1>1, <1>10, <1>11, <1>12

(* What validate_assistant measures is the length of the name that is       *)
(* rendered (assistant_validate.rs:5-10, sandbox_names.rs:3-41).            *)
THEOREM SandboxNameLength ==
    ASSUME NEW c \in CRs, NEW part \in {"api", "runner", "docker"}
    PROVE  /\ Length(c.ns) \in Nat /\ Length(c.name) \in Nat
           /\ Length(SandboxName(c.ns, c.name, part))
                  = NameWidth(Length(c.ns), Length(c.name), part)
<1>1. {"1", "api", "runner", "docker", "sandbox"} \subseteq DOMAIN Width
    BY WidthsOK
<1>2. /\ c.ns \in Values /\ c.name \in Values /\ c.ns # << >> /\ c.name # << >>
    BY ConstantsOK DEF Values
<1>3. Length(c.ns) \in Nat /\ Length(c.name) \in Nat
    BY <1>2, LengthOf
<1> DEFINE base == c.ns \o c.name
<1>4. base \in Values /\ Length(base) = Length(c.ns) + 1 + Length(c.name)
    BY <1>2, LengthOfJoin
<1> DEFINE sandbox == <<"sandbox">>
           api == <<"api">>
           runner == <<"runner">>
           one == <<"1">>
           docker == <<"docker">>
<1>5. /\ sandbox \in Values /\ Length(sandbox) = 7
      /\ api \in Values /\ Length(api) = 3
      /\ runner \in Values /\ Length(runner) = 6
      /\ one \in Values /\ Length(one) = 1
      /\ docker \in Values /\ Length(docker) = 6
    BY <1>1, LengthOfPart, WidthsOK
<1>6. /\ <<"sandbox", "api">> = sandbox \o api
      /\ <<"sandbox", "runner", "1">> = (sandbox \o runner) \o one
      /\ <<"sandbox", "runner", "1", "docker">> = ((sandbox \o runner) \o one) \o docker
    OBVIOUS
<1>7. /\ SandboxName(c.ns, c.name, "api") = base \o <<"sandbox", "api">>
      /\ SandboxName(c.ns, c.name, "runner") = base \o <<"sandbox", "runner", "1">>
      /\ SandboxName(c.ns, c.name, "docker") = base \o <<"sandbox", "runner", "1", "docker">>
    BY DEF SandboxName
<1> HIDE DEF base, sandbox, api, runner, one, docker
<1>7a. /\ SandboxName(c.ns, c.name, "api") = base \o (sandbox \o api)
       /\ SandboxName(c.ns, c.name, "runner") = base \o ((sandbox \o runner) \o one)
       /\ SandboxName(c.ns, c.name, "docker") = base \o (((sandbox \o runner) \o one) \o docker)
    BY <1>6, <1>7, Zenon
<1>8. sandbox \o api \in Values /\ Length(sandbox \o api) = 11
    BY <1>5, LengthOfJoin
<1>9. sandbox \o runner \in Values /\ Length(sandbox \o runner) = 14
    BY <1>5, LengthOfJoin
<1>10. (sandbox \o runner) \o one \in Values /\ Length((sandbox \o runner) \o one) = 16
    BY <1>5, <1>9, LengthOfJoin
<1>11. /\ ((sandbox \o runner) \o one) \o docker \in Values
       /\ Length(((sandbox \o runner) \o one) \o docker) = 23
    BY <1>5, <1>10, LengthOfJoin
<1>12. ASSUME NEW w \in Values
       PROVE  Length(base \o w) = Length(c.ns) + 1 + Length(c.name) + 1 + Length(w)
    BY <1>4, LengthOfJoin
<1>13. /\ Length(SandboxName(c.ns, c.name, "api")) = Length(c.ns) + 1 + Length(c.name) + 12
       /\ Length(SandboxName(c.ns, c.name, "runner")) = Length(c.ns) + 1 + Length(c.name) + 17
       /\ Length(SandboxName(c.ns, c.name, "docker")) = Length(c.ns) + 1 + Length(c.name) + 24
  <2>1. Length(SandboxName(c.ns, c.name, "api")) = Length(c.ns) + 1 + Length(c.name) + 1 + 11
      BY <1>8, <1>12, <1>7a, Zenon
  <2>2. Length(SandboxName(c.ns, c.name, "runner")) = Length(c.ns) + 1 + Length(c.name) + 1 + 16
      BY <1>10, <1>12, <1>7a, Zenon
  <2>3. Length(SandboxName(c.ns, c.name, "docker")) = Length(c.ns) + 1 + Length(c.name) + 1 + 23
      BY <1>11, <1>12, <1>7a, Zenon
  <2>4. QED BY <1>3, <2>1, <2>2, <2>3
<1>14. QED
  <2>1. CASE part = "api"
      BY <1>3, <1>13, <2>1 DEF NameWidth, SuffixWidth
  <2>2. CASE part = "runner"
      BY <1>3, <1>13, <2>2 DEF NameWidth, SuffixWidth
  <2>3. CASE part = "docker"
      BY <1>3, <1>13, <2>3 DEF NameWidth, SuffixWidth
  <2>4. QED BY <2>1, <2>2, <2>3

LEMMA SandboxFits ==
    ASSUME NEW c \in CRs, c.kind = "Assistant", NEW s \in Accepted(c), NEW r \in {"api", "runner"}
    PROVE  /\ Length(c.ns) <= MaxName /\ Length(c.name) <= MaxName
           /\ Length(SandboxName(c.ns, c.name, r)) <= MaxName
<1>1. NameWidth(Length(c.ns), Length(c.name), "docker") <= MaxName
    BY DEF Accepted, Valid, ValidAssistant
<1>2. Length(c.ns) \in Nat /\ Length(c.name) \in Nat
    BY SandboxNameLength
<1>3. Length(SandboxName(c.ns, c.name, r)) = NameWidth(Length(c.ns), Length(c.name), r)
    BY SandboxNameLength
<1>4. QED BY <1>1, <1>2, <1>3 DEF NameWidth, SuffixWidth, MaxName

-----------------------------------------------------------------------------
(* What an accepted spec renders is legal.                                  *)

LEMMA MergedLegal ==
    ASSUME NEW f, NEW g, LegalLabels(f), LegalLabels(g)
    PROVE  LegalLabels(Merged(f, g))
BY DEF LegalLabels, Merged

LEMMA ShortWords ==
    ASSUME NEW w \in {"n8n", "n8n-sandbox", "workflow-engine", "main", "worker", "webhook",
                     "sandbox-api", "sandbox-runner"}
    PROVE  Length(<<w>>) <= MaxName
BY WidthsOK, LengthOfPart

LEMMA LabelsLegal ==
    ASSUME LabelsFit, NEW c \in UNION Scenes, NEW x \in Renderings(c)
    PROVE  /\ LegalLabels(x.dep.labels) /\ LegalLabels(x.dep.template.labels)
           /\ LegalLabels(x.dep.selector)
           /\ Length(x.obj[2]) <= MaxName
<1>1. PICK s \in Accepted(c) : \E r \in Roles(c, s) : x = Rendering(c, s, r)
    BY RenderedObj
<1> PICK r \in Roles(c, s) : x = Rendering(c, s, r)
    BY <1>1
<1>2. x.obj = <<c.place, WorkloadName(c, r)>> /\ x.dep = Wanted(c, s, r) /\ r \in RolesOf(c)
    BY DEF Rendering, Workload, Obj, Roles
<1>3. c \in CRs /\ c.kind \in Kinds
    BY InScenes, ConstantsOK
<1>4. LegalLabels(s.role[r].labels)
    BY DEF LabelsFit
<1>5. CASE c.kind = "Assistant"
  <2> DEFINE own == SandboxLabels(c.ns, c.name, SandboxComponent(r))
  <2>1. r \in {"api", "runner"}
      BY <1>2, <1>5 DEF RolesOf
  <2>2. /\ Length(c.ns) <= MaxName /\ Length(c.name) <= MaxName
        /\ Length(SandboxName(c.ns, c.name, r)) <= MaxName
      BY <1>3, <1>5, <2>1, SandboxFits
  <2>3. SandboxComponent(r) \in {"sandbox-api", "sandbox-runner"}
      BY <2>1 DEF SandboxComponent
  <2>4. Length(<<"n8n-sandbox">>) <= MaxName /\ Length(<<SandboxComponent(r)>>) <= MaxName
      BY <2>3, ShortWords
  <2>5. LegalLabels(own)
      BY <2>2, <2>4 DEF LegalLabels, SandboxLabels
  <2>6. /\ x.dep.labels = own
        /\ x.dep.selector = SandboxSelector(c.ns, c.name, SandboxComponent(r))
        /\ x.dep.template = SandboxTemplate(c.ns, c.name, r, s)
      BY <1>2, <1>5 DEF Wanted, SandboxDeployment, Deployment
  <2>7. x.dep.template.labels = Merged(own, s.role[r].labels)
      BY <2>6 DEF SandboxTemplate, SandboxPod, PodTemplate
  <2>8. LegalLabels(x.dep.selector)
      BY <2>2, <2>4, <2>6 DEF LegalLabels, SandboxSelector
  <2>9. Length(x.obj[2]) <= MaxName
      BY <1>2, <1>5, <2>2 DEF WorkloadName
  <2> HIDE DEF own
  <2>10. QED BY <1>4, <2>5, <2>6, <2>7, <2>8, <2>9, MergedLegal
<1>6. CASE c.kind # "Assistant"
  <2> DEFINE n == RoleName(c.name, r)
             own == CommonLabels(n, s.role[r].image, Component(r))
  <2>1. r \in {"single", "main", "worker", "webhook"}
      BY <1>2, <1>3, <1>6 DEF RolesOf, Kinds
  <2>2. Length(n) <= MaxName /\ Length(<<ImageVersion(s.role[r].image)>>) <= MaxName
      BY <1>6 DEF LabelsFit
  <2>3. Component(r) \in {"workflow-engine", "main", "worker", "webhook"}
      BY <2>1 DEF Component
  <2>4. Length(<<"n8n">>) <= MaxName /\ Length(<<Component(r)>>) <= MaxName
      BY <2>3, ShortWords
  <2>5. LegalLabels(SelectorLabels(n))
      BY <2>2, <2>4 DEF LegalLabels, SelectorLabels
  <2>6. LegalLabels([component |-> <<Component(r)>>, version |-> <<ImageVersion(s.role[r].image)>>])
      BY <2>2, <2>4 DEF LegalLabels
  <2>7. /\ x.dep.labels = own /\ x.dep.selector = SelectorLabels(n)
        /\ x.dep.template = InstanceTemplate(c.name, r, s)
      BY <1>2, <1>6 DEF Wanted, InstanceDeployment, Deployment
  <2>8. x.dep.template.labels = Merged(own, s.role[r].labels)
      BY <2>7 DEF InstanceTemplate, PodTemplate
  <2>9. Length(x.obj[2]) <= MaxName
      BY <1>2, <1>6, <2>2 DEF WorkloadName
  <2>10. LegalLabels(own)
      BY <2>5, <2>6, MergedLegal DEF CommonLabels
  <2> HIDE DEF n, own
  <2>11. QED BY <1>4, <2>5, <2>7, <2>8, <2>9, <2>10, MergedLegal
<1>7. QED BY <1>5, <1>6

(* No two volumes of a pod have one name or one path (volumes.rs, pvc.rs,   *)
(* cluster_main_volumes.rs).                                                *)
LEMMA InstanceVolumesApart ==
    ASSUME NEW cr, NEW s, NEW r \in {"single", "main", "worker", "webhook"},
           NEW v \in InstanceVolumes(cr, r, s), NEW w \in InstanceVolumes(cr, r, s),
           v.name = w.name \/ v.path = w.path
    PROVE  v = w
<1> DEFINE Db(k) == Volume(<<"n8n-db-ssl", k>>, <<"/etc/n8n/ssl", k>>, NoClaim)
           data == Volume(<<"n8n-data">>, <<"/home/node/.n8n">>, DataClaim(RoleName(cr, r)))
           nodes == Volume(<<"n8n-nodes">>, <<"/home/node/.n8n/nodes">>, NodesClaim(cr))
           binary == Volume(<<"n8n-binary-data">>, <<"/home/node/binary-data">>, BinaryClaim(cr))
<1>1. ASSUME NEW u \in InstanceVolumes(cr, r, s)
      PROVE  u \in {data, nodes, binary} \/ \E k : u = Db(k)
  <2>1. \A y \in DbVolumes(s.db) : \E k : y = Db(k)
      BY DEF DbVolumes
  <2>2. SharedVolumes(cr, s) \subseteq {nodes, binary}
      BY DEF SharedVolumes
  <2>3. PersistenceVolume(RoleName(cr, r), s.role[r]) \subseteq {data}
      BY DEF PersistenceVolume
  <2> HIDE DEF Db, data, nodes, binary
  <2>4. QED BY <2>1, <2>2, <2>3 DEF InstanceVolumes
<1>2. /\ data.name = <<"n8n-data">> /\ data.path = <<"/home/node/.n8n">>
      /\ nodes.name = <<"n8n-nodes">> /\ nodes.path = <<"/home/node/.n8n/nodes">>
      /\ binary.name = <<"n8n-binary-data">> /\ binary.path = <<"/home/node/binary-data">>
      /\ \A k : Db(k).name = <<"n8n-db-ssl", k>> /\ Db(k).path = <<"/etc/n8n/ssl", k>>
    BY DEF Volume
<1>3. /\ \A k, l : /\ <<"n8n-db-ssl", k>> = <<"n8n-db-ssl", l>> => k = l
                   /\ <<"/etc/n8n/ssl", k>> = <<"/etc/n8n/ssl", l>> => k = l
    OBVIOUS
<1>4. \A k : /\ <<"n8n-db-ssl", k>> \notin {<<"n8n-data">>, <<"n8n-nodes">>, <<"n8n-binary-data">>}
            /\ <<"/etc/n8n/ssl", k>> \notin {<<"/home/node/.n8n">>, <<"/home/node/.n8n/nodes">>,
                                             <<"/home/node/binary-data">>}
    OBVIOUS
<1>5. /\ <<"n8n-data">> # <<"n8n-nodes">> /\ <<"n8n-data">> # <<"n8n-binary-data">>
      /\ <<"n8n-nodes">> # <<"n8n-binary-data">>
      /\ <<"/home/node/.n8n">> # <<"/home/node/.n8n/nodes">>
      /\ <<"/home/node/.n8n">> # <<"/home/node/binary-data">>
      /\ <<"/home/node/.n8n/nodes">> # <<"/home/node/binary-data">>
    OBVIOUS
<1> HIDE DEF Db, data, nodes, binary
<1>6. CASE v \in {data, nodes, binary} /\ w \in {data, nodes, binary}
    BY <1>2, <1>5, <1>6
<1>7. ASSUME NEW k, v = Db(k) PROVE v = w
  <2>1. CASE \E l : w = Db(l)
      BY <1>2, <1>3, <1>7, <2>1
  <2>2. CASE w \in {data, nodes, binary}
      BY <1>2, <1>4, <1>7, <2>2
  <2>3. QED BY <1>1, <2>1, <2>2
<1>8. ASSUME NEW k, w = Db(k), v \in {data, nodes, binary} PROVE v = w
    BY <1>2, <1>4, <1>8
<1>9. QED BY <1>1, <1>6, <1>7, <1>8

LEMMA VolumesApart ==
    ASSUME NEW c \in CRs, NEW x \in Renderings(c),
           NEW v \in x.dep.template.volumes, NEW w \in x.dep.template.volumes,
           v.name = w.name \/ v.path = w.path
    PROVE  v = w
<1>1. PICK s \in Accepted(c) : \E r \in Roles(c, s) : x = Rendering(c, s, r)
    BY RenderedObj
<1> PICK r \in Roles(c, s) : x = Rendering(c, s, r)
    BY <1>1
<1>2. x.dep = Wanted(c, s, r) /\ r \in RolesOf(c) /\ c.kind \in Kinds
    BY ConstantsOK DEF Rendering, Roles
<1>3. CASE c.kind = "Assistant"
  <2>1. x.dep.template.volumes = SandboxVolumes(c.ns, c.name, r, s.role[r])
      BY <1>2, <1>3 DEF Wanted, SandboxDeployment, Deployment, SandboxTemplate, SandboxPod, PodTemplate
  <2> DEFINE tls == Volume(<<"tls">>, <<"/tls">>, NoClaim)
             docker == Volume(<<"docker">>, <<"/var/lib/docker">>,
                              IF s.role[r].persistence = None THEN NoClaim
                              ELSE SandboxName(c.ns, c.name, "docker"))
  <2>2. v \in {tls, docker} /\ w \in {tls, docker}
      BY <2>1 DEF SandboxVolumes
  <2>3. tls.name # docker.name /\ tls.path # docker.path
    <3>1. <<"tls">> # <<"docker">> /\ <<"/tls">> # <<"/var/lib/docker">>
        OBVIOUS
    <3>2. QED BY <3>1 DEF Volume
  <2> HIDE DEF tls, docker
  <2>4. QED BY <2>2, <2>3
<1>4. CASE c.kind # "Assistant"
  <2>1. x.dep.template.volumes = InstanceVolumes(c.name, r, s)
      BY <1>2, <1>4 DEF Wanted, InstanceDeployment, Deployment, InstanceTemplate, PodTemplate
  <2>2. r \in {"single", "main", "worker", "webhook"}
      BY <1>2, <1>4 DEF RolesOf, Kinds
  <2>3. QED BY <2>1, <2>2, InstanceVolumesApart
<1>5. QED BY <1>3, <1>4

(* Strategies are rendered in the types the API server wants, and a         *)
(* rolling update may take a step (builders/mod.rs:69-104).                 *)
LEMMA RenderedStrategyLegal ==
    ASSUME NEW st, ValidStrategy(st),
           {st.surge, st.unavailable} \subseteq [unit : {None, "count", "percent"}, n : Nat],
           ~(\A q \in {st.surge, st.unavailable} : q.unit # None /\ q.n = 0),
           st.unavailable.unit = "percent" => st.unavailable.n <= 100
    PROVE  LegalStrategy(RenderedStrategy(st))
<1> DEFINE Given(v) == IF st.type = "RollingUpdate" THEN v ELSE Unset
           out == RenderedStrategy(st)
           Quantities == [unit : {None, "count", "percent"}, n : Nat]
<1>1. Unset \in Quantities /\ Unset.unit = None
    BY DEF Unset
<1>2. Given(st.surge) \in Quantities /\ Given(st.unavailable) \in Quantities
    BY <1>1
<1>3. /\ out.type = st.type
      /\ out.surge = IntOrString(Given(st.surge))
      /\ out.unavailable = IntOrString(Given(st.unavailable))
    BY DEF RenderedStrategy
<1>4. ASSUME NEW q \in Quantities
      PROVE  /\ LegalQuantity(IntOrString(q)) /\ IntOrString(q).value = q
             /\ IntOrString(q).json = None <=> q.unit = None
  <2>1. CASE q.unit = None
      BY <2>1 DEF IntOrString, LegalQuantity, None
  <2>2. CASE q.unit = "count"
      BY <2>2 DEF IntOrString, LegalQuantity, None
  <2>3. CASE q.unit = "percent"
      BY <2>3 DEF IntOrString, LegalQuantity, None
  <2>4. QED BY <2>1, <2>2, <2>3
<1>5. LegalQuantity(out.surge) /\ LegalQuantity(out.unavailable)
    BY <1>2, <1>3, <1>4
<1>6. ~(\A q \in {out.surge, out.unavailable} : q.json # None /\ q.value.n = 0)
  <2>1. ~(\A q \in {Given(st.surge), Given(st.unavailable)} : q.unit # None /\ q.n = 0)
      BY <1>1
  <2> HIDE DEF Given, Quantities, out
  <2>2. QED BY <1>2, <1>3, <1>4, <2>1
<1>7. out.unavailable.value.unit = "percent" => out.unavailable.value.n <= 100
  <2>1. Given(st.unavailable).unit = "percent" => Given(st.unavailable).n <= 100
      BY <1>1 DEF None
  <2> HIDE DEF Given, Quantities, out
  <2>2. QED BY <1>2, <1>3, <1>4, <2>1
<1>8. out.type \in {None, "RollingUpdate", "Recreate"}
    BY <1>3 DEF ValidStrategy
<1> HIDE DEF out
<1>9. LegalStrategy(out)
    BY <1>5, <1>6, <1>7, <1>8 DEF LegalStrategy
<1>10. QED BY <1>9 DEF out

LEMMA StrategyLegal ==
    ASSUME StrategiesMove, NEW c \in UNION Scenes, NEW x \in Renderings(c)
    PROVE  LegalStrategy(x.dep.strategy)
<1>1. PICK s \in Accepted(c) : \E r \in Roles(c, s) : x = Rendering(c, s, r)
    BY RenderedObj
<1> PICK r \in Roles(c, s) : x = Rendering(c, s, r)
    BY <1>1
<1>2. x.dep = Wanted(c, s, r) /\ r \in DOMAIN s.role /\ c.kind \in Kinds
    BY InScenes, ConstantsOK DEF Rendering, Roles
<1>3. CASE c.kind = "Assistant"
  <2>1. x.dep.strategy = Recreate
      BY <1>2, <1>3 DEF Wanted, SandboxDeployment, Deployment
  <2>2. /\ Recreate.type = "Recreate"
        /\ Recreate.surge = [json |-> None, value |-> Unset]
        /\ Recreate.unavailable = [json |-> None, value |-> Unset]
    <3>1. IntOrString(Unset) = [json |-> None, value |-> Unset]
        BY DEF IntOrString, Unset, None
    <3> DEFINE st == [NoStrategy EXCEPT !.type = "Recreate"]
    <3>2. st.type = "Recreate"
        BY DEF NoStrategy
    <3> HIDE DEF st
    <3>3. /\ RenderedStrategy(st).type = "Recreate"
          /\ RenderedStrategy(st).surge = IntOrString(Unset)
          /\ RenderedStrategy(st).unavailable = IntOrString(Unset)
        BY <3>2 DEF RenderedStrategy
    <3>4. QED BY <3>1, <3>3 DEF Recreate, st
  <2>3. QED BY <2>1, <2>2 DEF LegalStrategy, LegalQuantity, Unset, None
<1>4. CASE c.kind # "Assistant"
  <2>1. x.dep.strategy = RenderedStrategy(s.role[r].strategy)
      BY <1>2, <1>4 DEF Wanted, InstanceDeployment, Deployment
  <2>2. ValidStrategy(s.role[r].strategy)
      BY <1>2, <1>4 DEF Accepted, Valid, ValidSingle, ValidCluster, Kinds
  <2>3. QED BY <2>1, <2>2, RenderedStrategyLegal DEF StrategiesMove
<1>5. QED BY <1>3, <1>4

(* The roles of an instance have different names.                           *)
LEMMA RoleNamesDiffer ==
    ASSUME NEW c \in CRs, c.kind # "Assistant", NEW q \in RolesOf(c), NEW r \in RolesOf(c),
           RoleName(c.name, q) = RoleName(c.name, r)
    PROVE  q = r
<1>1. c.kind \in Kinds /\ c.name \in Values
    BY ConstantsOK DEF Values
<1>2. CASE c.kind = "Single"
    BY <1>2 DEF RolesOf
<1>3. CASE c.kind = "Cluster"
  <2>1. q \in {"main", "worker", "webhook"} /\ r \in {"main", "worker", "webhook"}
      BY <1>3 DEF RolesOf
  <2>2. <<q>> \in Values /\ <<r>> \in Values
      BY <2>1, WidthsOK, LengthOfPart
  <2>3. c.name \o <<q>> = c.name \o <<r>>
      BY <2>1 DEF RoleName
  <2>4. <<q>> = <<r>>
      BY <1>1, <2>2, <2>3, ConcatSimplifications DEF Values
  <2>5. QED BY <2>4
<1>4. QED BY <1>1, <1>2, <1>3 DEF Kinds

(* A Deployment keeps its selector, whatever spec it is rendered from, and  *)
(* is not turned into a recreated one (labels.rs:3-10, common.rs:108-118).  *)
LEMMA Replaces ==
    ASSUME RecreateStays, NEW c \in UNION Scenes,
           NEW x \in Renderings(c), NEW y \in Renderings(c), x.obj = y.obj
    PROVE  /\ x.dep.selector = y.dep.selector
           /\ x.dep.strategy.type = "Recreate" => ~Filled(y.dep.strategy)
<1>1. PICK s \in Accepted(c) : \E r \in Roles(c, s) : x = Rendering(c, s, r)
    BY RenderedObj
<1> PICK r \in Roles(c, s) : x = Rendering(c, s, r)
    BY <1>1
<1>2. PICK t \in Accepted(c) : \E q \in Roles(c, t) : y = Rendering(c, t, q)
    BY RenderedObj
<1> PICK q \in Roles(c, t) : y = Rendering(c, t, q)
    BY <1>2
<1>3. c \in CRs /\ c.kind \in Kinds
    BY InScenes, ConstantsOK
<1>4. /\ x.dep = Wanted(c, s, r) /\ r \in RolesOf(c)
      /\ y.dep = Wanted(c, t, q) /\ q \in RolesOf(c)
      /\ WorkloadName(c, r) = WorkloadName(c, q)
    BY DEF Rendering, Roles, Workload, Obj
<1>5. CASE c.kind = "Assistant"
  <2>1. q = r
      BY <1>3, <1>4, <1>5, SandboxPartsDiffer DEF WorkloadName, RolesOf
  <2>2. x.dep.selector = y.dep.selector /\ y.dep.strategy = Recreate
      BY <1>4, <1>5, <2>1 DEF Wanted, SandboxDeployment, Deployment
  <2>3. Recreate.type = "Recreate"
      BY DEF Recreate, RenderedStrategy, NoStrategy
  <2>4. QED BY <2>2, <2>3 DEF Filled
<1>6. CASE c.kind # "Assistant"
  <2>1. q = r
      BY <1>3, <1>4, <1>6, RoleNamesDiffer DEF WorkloadName
  <2>2. /\ x.dep.selector = y.dep.selector
        /\ x.dep.strategy = RenderedStrategy(s.role[r].strategy)
        /\ y.dep.strategy = RenderedStrategy(t.role[r].strategy)
      BY <1>4, <1>6, <2>1 DEF Wanted, InstanceDeployment, Deployment
  <2>3. x.dep.strategy.type = s.role[r].strategy.type
      BY <2>2 DEF RenderedStrategy
  <2>4. r \in Roles(c, s) \intersect Roles(c, t)
      BY <2>1
  <2>5. QED BY <2>2, <2>3, <2>4 DEF RecreateStays
<1>7. QED BY <1>5, <1>6

(* The next call of a reconcile is admitted, whatever is in the cluster.    *)
LEMMA CallAdmitted ==
    ASSUME WorkInv, NamesDistinct, OwnKeysOnly, LabelsFit, StrategiesMove, RecreateStays,
           ClaimsKeepMode, NEW c \in crs, NEW call \in CallsOf(c)
    PROVE  Admitted(call)
<1>1. /\ crs \in Scenes /\ c \in UNION Scenes /\ c \in CRs
      /\ \A e \in crs : e \in UNION Scenes
    BY InScenes DEF WorkInv, Specified
<1>2. call.verb \in {"deployment", "service", "claim", "noDeployment", "noService"}
    BY <1>1, CallForms
<1>3. CASE call.verb = "claim"
  <2>1. ASSUME call.obj \in DOMAIN claims PROVE claims[call.obj] = call.body.mode
    <3>1. PICK e \in crs : \E x \in CallsOf(e) :
              x.verb = "claim" /\ x.obj = call.obj /\ x.body.mode = claims[call.obj]
        BY <2>1 DEF WorkInv, AllRendered
    <3>2. PICK x \in CallsOf(e) :
              x.verb = "claim" /\ x.obj = call.obj /\ x.body.mode = claims[call.obj]
        BY <3>1
    <3>3. x.body = call.body
        BY <1>1, <1>3, <3>2 DEF ClaimsKeepMode
    <3>4. QED BY <3>2, <3>3
  <2>2. QED BY <1>3, <2>1 DEF Admitted
<1>4. CASE call.verb = "deployment"
  <2>1. PICK x \in Renderings(c) : call = Call("deployment", x.obj, x.dep)
      BY <1>1, <1>4, CallForms
  <2>2. call.obj = x.obj /\ call.body = x.dep
      BY <2>1 DEF Call
  <2>3. LegalLabels(x.dep.labels) /\ LegalLabels(x.dep.template.labels)
      BY <1>1, LabelsLegal
  <2>4. Matches(x.dep.selector, x.dep.template.labels)
      BY <1>1, SelectorsExact
  <2>5. \A v, w \in x.dep.template.volumes : v.name = w.name \/ v.path = w.path => v = w
      BY <1>1, VolumesApart
  <2>6. LegalStrategy(x.dep.strategy)
      BY <1>1, StrategyLegal
  <2>7. ASSUME x.obj \in DOMAIN deps
        PROVE  /\ deps[x.obj].selector = x.dep.selector
               /\ x.dep.strategy.type = "Recreate" => ~Filled(deps[x.obj].strategy)
    <3>1. PICK e \in crs : \E y \in Renderings(e) : y.obj = x.obj /\ y.dep = deps[x.obj]
        BY <2>7 DEF WorkInv, AllRendered
    <3>2. PICK y \in Renderings(e) : y.obj = x.obj /\ y.dep = deps[x.obj]
        BY <3>1
    <3>3. x.obj \in ObjsOf(c) /\ x.obj \in ObjsOf(e)
        BY <3>2, RenderedObj
    <3>4. e = c
        BY <1>1, <3>3 DEF NamesDistinct
    <3>5. y \in Renderings(c)
        BY <3>4
    <3>6. QED BY <1>1, <3>2, <3>5, Replaces
  <2>8. AdmittedDeployment(x.dep, x.obj)
      BY <2>3, <2>4, <2>5, <2>6, <2>7 DEF AdmittedDeployment
  <2>9. QED BY <1>4, <2>2, <2>8 DEF Admitted
<1>5. CASE call.verb = "service"
  <2>1. PICK x \in Renderings(c) : call = Call("service", x.obj, x.dep.selector)
      BY <1>1, <1>5, CallForms
  <2>2. call.obj = x.obj /\ call.body = x.dep.selector
      BY <2>1 DEF Call
  <2>3. QED BY <1>1, <1>5, <2>2, LabelsLegal DEF Admitted
<1>6. CASE call.verb \in {"noDeployment", "noService"}
    BY <1>6 DEF Admitted
<1>7. QED BY <1>2, <1>3, <1>4, <1>5, <1>6

(* What validation lets through is admitted, call by call, whatever the     *)
(* specs before it left in the cluster and wherever faults stopped their    *)
(* reconciles (validate.rs:7-161, labels.rs:3-10, builders/mod.rs:69-104),  *)
(* as long as users keep to the six rules validation does not know.         *)
THEOREM NothingIsRefused ==
    ASSUME NamesDistinct, OwnKeysOnly, LabelsFit, StrategiesMove, RecreateStays, ClaimsKeepMode
    PROVE  Spec => []AcceptedIsAdmitted
<1>1. WorkInv => AcceptedIsAdmitted
  <2> SUFFICES ASSUME WorkInv, NEW c \in crs, calls[c] # << >> PROVE Admitted(Head(calls[c]))
      BY DEF AcceptedIsAdmitted
  <2>1. calls[c] \in Seq(CallsOf(c))
      BY DEF WorkInv, Specified
  <2>2. Head(calls[c]) \in CallsOf(c)
      BY <2>1, HeadTailProperties
  <2>3. QED BY <2>2, CallAdmitted
<1>2. QED BY InitWorkInv, WorkInvStep, <1>1, PTL DEF Spec

(* A sandbox name that is checked with the longest suffix is short enough   *)
(* with every other (assistant_validate.rs:5-10, 73-79).                    *)
THEOREM NamesFit ==
    ASSUME NEW nsWidth \in Nat, NEW crWidth \in Nat, NEW s, ValidAssistant(nsWidth, crWidth, s)
    PROVE  \A part \in DOMAIN SuffixWidth : NameWidth(nsWidth, crWidth, part) <= MaxName
<1>1. nsWidth + 1 + crWidth + 24 <= 63
    BY DEF ValidAssistant, NameWidth, SuffixWidth, MaxName
<1>2. \A part \in DOMAIN SuffixWidth : SuffixWidth[part] \in Nat /\ SuffixWidth[part] <= 24
    BY DEF SuffixWidth
<1>3. QED BY <1>1, <1>2 DEF NameWidth, MaxName
=============================================================================

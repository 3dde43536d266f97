------------------------------ MODULE Children ------------------------------
(***************************************************************************)
(* The children of the Singles and Clusters of one namespace.              *)
(*                                                                         *)
(* A reconcile takes the spec of its CR and runs a fixed plan of API calls *)
(* that depends on that spec alone: what must exist is applied (forced     *)
(* server-side apply, which also takes an object over from another owner), *)
(* what must not is looked up and deleted, by name.  The first error ends  *)
(* the reconcile.  Reconciles of different CRs interleave call by call,    *)
(* with users who edit and delete CRs, with CRDs that come and go and with *)
(* the garbage collector.  One operator runs: a CR has one reconcile at a  *)
(* time.  (Two replicas of it are modelled where they share a Secret or a  *)
(* Job: EncryptionKey, CertBootstrap, AssistantLifecycle.)                 *)
(*                                                                         *)
(* A name is the sequence of its dash-separated segments: "shop-redirect"  *)
(* is <<"shop", "redirect">>.                                              *)
(***************************************************************************)
EXTENDS Naturals, Sequences

CONSTANTS
    CRs, KindOf, NameOf,    \* the CRs of the namespace
    Present,        \* the sets of them that there may be at the start
    SpecsOf,        \* SpecsOf[c]: the specs users give c
    None,           \* "no owner", "no thing"
    Optional,       \* API kinds that may not be served, of Extensions
    ApiMayChange,   \* the CRDs of those kinds are installed or removed
    NsMayEnd,       \* the namespace may be deleted
    MaxEdits,       \* bound: edits of specs and of CRDs
    MaxFaults       \* bound: failed API calls and operator restarts

Extensions == {"HTTPRoute", "DestinationRule"}
Nets == {"none", "ingress", "route", "redirect", "both"}
Specs == [legal : BOOLEAN, net : Nets, volumes : BOOLEAN, multiMain : BOOLEAN,
          autoscale : BOOLEAN, webhooks : Nets \union {"off"}]

(* What the operator creates, and what it appends to the names of CRs.      *)
Kinds == {"Secret", "PVC", "Deployment", "Service", "Ingress", "HPA"} \union Extensions
Suffixes == {"main", "worker", "webhook", "redirect", "data", "nodes", "binary",
             "encryption", "key"}
Segments == Suffixes \union UNION {{NameOf[c][i] : i \in DOMAIN NameOf[c]} : c \in CRs}
Names == Seq(Segments)

ASSUME ConstantsOK ==
    /\ \A c \in CRs : /\ KindOf[c] \in {"Single", "Cluster"} /\ NameOf[c] \in Names
                      /\ SpecsOf[c] \subseteq Specs /\ SpecsOf[c] # {}
                      /\ KindOf[c] = "Single" => \A s \in SpecsOf[c] : s.webhooks = "off"
    /\ None \notin CRs /\ None \notin Specs /\ None \notin Kinds \X Names
    /\ Present \subseteq SUBSET CRs
    /\ Optional \subseteq Extensions
    /\ ApiMayChange \in BOOLEAN /\ NsMayEnd \in BOOLEAN
    /\ MaxEdits \in Nat /\ MaxFaults \in Nat

-----------------------------------------------------------------------------
(* Plans.  A call acts on one thing; the removal of a thing is two calls,   *)
(* get_opt and delete.  "skip" is how many calls of the plan a probe that   *)
(* finds nothing, and a failure the code ignores, pass over.                *)

Call(op, kind, name, skip) == [op |-> op, thing |-> <<kind, name>>, skip |-> skip]
Plain(op) == <<[op |-> op, thing |-> None, skip |-> 0]>>
Apply(kind, name) == <<Call("apply", kind, name, 0)>>
Ensure(kind, name) == <<Call("ensure", kind, name, 0)>>
Remove(kind, name) == <<Call("probe", kind, name, 2), Call("delete", kind, name, 0)>>
DropQuietly(kind, name) == <<Call("deleteQuietly", kind, name, 1)>>
When(condition, plan) == IF condition THEN plan ELSE << >>

Redirect(name) == Append(name, "redirect")
KeySecret(name) == Append(Append(name, "encryption"), "key")
BinaryData(name) == Append(Append(name, "binary"), "data")

(* delete_http_route, whose result every caller ignores: a lookup of the    *)
(* API groups that fails and a delete that fails leave the rest undone.     *)
RemoveRoutes(name) ==
    << Call("lookup", "HTTPRoute", name, 5),
       Call("probeQuietly", "HTTPRoute", name, 2),
       Call("deleteQuietly", "HTTPRoute", name, 3),
       Call("probeQuietly", "HTTPRoute", Redirect(name), 2),
       Call("deleteQuietly", "HTTPRoute", Redirect(name), 1) >>

ApplyRoutes(name, redirect) ==
    Apply("HTTPRoute", name)
    \o IF redirect
       THEN Apply("HTTPRoute", Redirect(name))
       ELSE << Call("probeQuietly", "HTTPRoute", Redirect(name), 2),
               Call("delete", "HTTPRoute", Redirect(name), 0) >>

Networking_NoCheck(name, net) ==
    (IF net \in {"ingress", "both"} THEN Apply("Ingress", name) ELSE Remove("Ingress", name))
    \o (IF net \in {"route", "redirect", "both"}
        THEN ApplyRoutes(name, net = "redirect") ELSE RemoveRoutes(name))
Networking(name, net) ==
    IF net = "both" THEN Plain("fail")
    ELSE (IF net = "ingress" THEN Apply("Ingress", name) ELSE Remove("Ingress", name))
         \o (IF net \in {"route", "redirect"}
             THEN ApplyRoutes(name, net = "redirect") ELSE RemoveRoutes(name))

Finish == Plain("event") \o Plain("status")

(* Validation; only a Single's looks at the networking.                     *)
SingleValid(s) == s.legal /\ s.net # "both"
ClusterValid(s) == s.legal

SinglePlan(n, s) ==
    IF ~SingleValid(s) THEN Plain("fail")
    ELSE Ensure("Secret", KeySecret(n))
         \o When(s.volumes, Apply("PVC", Append(n, "data")))
         \o Apply("Deployment", n) \o Apply("Service", n)
         \o Networking(n, s.net)
         \o Finish

StickySessions(main, multiMain) ==
    IF multiMain THEN <<Call("applyIfServed", "DestinationRule", main, 1)>>
    ELSE << Call("probeQuietly", "DestinationRule", main, 2),
            Call("delete", "DestinationRule", main, 0) >>

MainPlan(main, s) ==
    When(s.volumes, Apply("PVC", Append(main, "data")))
    \o Apply("Deployment", main) \o Apply("Service", main)
    \o StickySessions(main, s.multiMain)
    \o Networking(main, s.net)

WorkerPlan_NoCleanup(worker, s) ==
    Apply("Deployment", worker) \o When(s.autoscale, Apply("HPA", worker))
WorkerPlan(worker, s) ==
    Apply("Deployment", worker)
    \o (IF s.autoscale THEN Apply("HPA", worker) ELSE Remove("HPA", worker))

WebhookPlan(webhook, s) ==
    IF s.webhooks = "off"
    THEN DropQuietly("Deployment", webhook) \o DropQuietly("Service", webhook)
         \o DropQuietly("Ingress", webhook) \o RemoveRoutes(webhook)
    ELSE Apply("Deployment", webhook) \o Apply("Service", webhook)
         \o Networking(webhook, s.webhooks)

ClusterPlan_WebhooksFirst(n, s) ==
    IF ~ClusterValid(s) THEN Plain("fail")
    ELSE Ensure("Secret", KeySecret(n))
         \o WebhookPlan(Append(n, "webhook"), s)
         \o MainPlan(Append(n, "main"), s)
         \o WorkerPlan(Append(n, "worker"), s)
         \o Finish
ClusterPlan_WebhooksOnce(n, s) ==
    IF ~ClusterValid(s) THEN Plain("fail")
    ELSE Ensure("Secret", KeySecret(n))
         \o MainPlan(Append(n, "main"), s)
         \o WorkerPlan(Append(n, "worker"), s)
         \o When(s.webhooks = "off", WebhookPlan(Append(n, "webhook"), s))
         \o Finish
ClusterPlan_BareMain(n, s) ==
    IF ~ClusterValid(s) THEN Plain("fail")
    ELSE MainPlan(n, s) \o WorkerPlan(Append(n, "worker"), s)
         \o WebhookPlan(Append(n, "webhook"), s) \o Finish
ClusterPlan(n, s) ==
    IF ~ClusterValid(s) THEN Plain("fail")
    ELSE Ensure("Secret", KeySecret(n))
         \o When(s.volumes, Apply("PVC", Append(n, "nodes"))
                            \o Apply("PVC", BinaryData(n)))
         \o MainPlan(Append(n, "main"), s)
         \o WorkerPlan(Append(n, "worker"), s)
         \o WebhookPlan(Append(n, "webhook"), s)
         \o Finish

ApplyPlan(c, s) == IF KindOf[c] = "Single" THEN SinglePlan(NameOf[c], s)
                                            ELSE ClusterPlan(NameOf[c], s)
CleanupPlan == Plain("event") \o Plain("removeFinalizer")
FinalizerPlan == Plain("addFinalizer")

CallsOf(plan) == {plan[i] : i \in DOMAIN plan}
Calls == (UNION {CallsOf(ApplyPlan(c, s)) : c \in CRs, s \in UNION {SpecsOf[d] : d \in CRs}})
         \union CallsOf(CleanupPlan \o FinalizerPlan)

(* The roles of a Cluster; with webhooks off there is no webhook role.      *)
Clusters == {c \in CRs : KindOf[c] = "Cluster"}
Main(c) == <<"Deployment", Append(NameOf[c], "main")>>
Worker(c) == <<"Deployment", Append(NameOf[c], "worker")>>
Webhook(c) == <<"Deployment", Append(NameOf[c], "webhook")>>

Things == ({call.thing : call \in Calls} \ {None})
          \union (UNION {{Main(c), Worker(c), Webhook(c)} : c \in Clusters})

-----------------------------------------------------------------------------
VARIABLES
    cr,         \* cr[c]: the CR in the API server; ready is the spec that the
                \*        status was last patched for
    todo,       \* todo[c]: the calls left in its reconcile, << >> if none runs
    doing,      \* doing[c]: the spec that reconcile works on
    obj,        \* obj[t]: owner of thing t and the spec it was applied for
    served,     \* the extension kinds the API server serves
    ending,     \* the namespace is being deleted
    edits, faults

vars == <<cr, todo, doing, obj, served, ending, edits, faults>>
world == <<served, ending>>
bounds == <<edits, faults>>

Absent == [owner |-> None, spec |-> None]

(* State has the shape the code and the API server give it.                 *)
TypeOK ==
    /\ cr \in [CRs -> [exists : BOOLEAN, finalizer : BOOLEAN, deleting : BOOLEAN,
                       spec : Specs, ready : Specs \union {None}]]
    /\ todo \in [CRs -> Seq(Calls)]
    /\ doing \in [CRs -> Specs \union {None}]
    /\ obj \in [Things -> [owner : CRs, spec : Specs] \union {Absent}]
    /\ served \subseteq Extensions
    /\ ending \in BOOLEAN
    /\ edits \in 0..MaxEdits /\ faults \in 0..MaxFaults

Init ==
    /\ \E there \in Present, s \in [CRs -> UNION {SpecsOf[c] : c \in CRs}] :
        /\ \A c \in CRs : s[c] \in SpecsOf[c]
        /\ \A c \in CRs \ there : s[c] = CHOOSE one \in SpecsOf[c] : TRUE
        /\ cr = [c \in CRs |-> [exists |-> c \in there, finalizer |-> FALSE,
                                deleting |-> FALSE, spec |-> s[c], ready |-> None]]
    /\ todo = [c \in CRs |-> << >>]
    /\ doing = [c \in CRs |-> None]
    /\ obj = [t \in Things |-> Absent]
    /\ served \in {Extensions, Extensions \ Optional}
    /\ ending = FALSE
    /\ edits = 0 /\ faults = 0

-----------------------------------------------------------------------------
(* A reconcile.                                                             *)

Idle(c) == todo[c] = << >>
Doing(c, op) == ~Idle(c) /\ Head(todo[c]).op = op
This(c) == Head(todo[c]).thing

GoOn(c, n) ==       \* n calls of the plan are done with
    /\ todo' = [todo EXCEPT ![c] = SubSeq(@, n + 1, Len(@))]
    /\ doing' = [doing EXCEPT ![c] = IF n < Len(todo[c]) THEN @ ELSE None]
Stop(c) == GoOn(c, Len(todo[c]))

Begin_ValidatesFirst(c) ==
    /\ Idle(c) /\ cr[c].exists /\ (cr[c].deleting => cr[c].finalizer /\ cr[c].spec.legal)
    /\ todo' = [todo EXCEPT ![c] = CASE cr[c].deleting -> CleanupPlan
                                     [] ~cr[c].deleting /\ ~cr[c].finalizer -> FinalizerPlan
                                     [] OTHER -> ApplyPlan(c, cr[c].spec)]
    /\ doing' = [doing EXCEPT ![c] = cr[c].spec]
    /\ UNCHANGED <<cr, obj, world, bounds>>
Begin(c) ==
    /\ Idle(c) /\ cr[c].exists /\ (cr[c].deleting => cr[c].finalizer)
    /\ todo' = [todo EXCEPT ![c] = CASE cr[c].deleting -> CleanupPlan
                                     [] ~cr[c].deleting /\ ~cr[c].finalizer -> FinalizerPlan
                                     [] OTHER -> ApplyPlan(c, cr[c].spec)]
    /\ doing' = [doing EXCEPT ![c] = cr[c].spec]
    /\ UNCHANGED <<cr, obj, world, bounds>>

IsServed(t) == t[1] \in Extensions => t[1] \in served
(* A namespace that is being deleted admits no new object.                  *)
CanWrite(t) == IsServed(t) /\ (ending => obj[t] # Absent)

Put_ByName(c, t) ==
    obj' = [obj EXCEPT ![t] = [owner |-> NameOf[c], spec |-> doing[c]]]
Put(c, t) == obj' = [obj EXCEPT ![t] = [owner |-> c, spec |-> doing[c]]]
Drop(t) == obj' = [obj EXCEPT ![t] = Absent]

ApplyCall(c) ==
    /\ Doing(c, "apply") \/ Doing(c, "applyIfServed")
    /\ CanWrite(This(c))
    /\ Put(c, This(c))
    /\ GoOn(c, 1)
    /\ UNCHANGED <<cr, world, bounds>>

NotServed(c) ==
    /\ Doing(c, "applyIfServed") /\ ~IsServed(This(c))
    /\ GoOn(c, 1)
    /\ UNCHANGED <<cr, obj, world, bounds>>

Lookup(c) ==                    \* gateway_api_available
    /\ Doing(c, "lookup")
    /\ GoOn(c, IF IsServed(This(c)) THEN 1 ELSE Head(todo[c]).skip)
    /\ UNCHANGED <<cr, obj, world, bounds>>

EnsureCall(c) ==                \* detailed in EncryptionKey
    /\ Doing(c, "ensure") /\ CanWrite(This(c))
    /\ IF obj[This(c)] = Absent THEN Put(c, This(c)) ELSE UNCHANGED obj
    /\ GoOn(c, 1)
    /\ UNCHANGED <<cr, world, bounds>>

Probe(c) ==
    /\ Doing(c, "probe") \/ Doing(c, "probeQuietly")
    /\ GoOn(c, IF obj[This(c)] = Absent THEN Head(todo[c]).skip ELSE 1)
    /\ UNCHANGED <<cr, obj, world, bounds>>

Delete(c) ==
    /\ Doing(c, "delete") \/ Doing(c, "deleteQuietly")
    /\ obj[This(c)] # Absent
    /\ Drop(This(c))
    /\ GoOn(c, 1)
    /\ UNCHANGED <<cr, world, bounds>>

PublishEvent(c) ==              \* creates an Event next to the CR
    /\ Doing(c, "event") /\ ~ending
    /\ GoOn(c, 1)
    /\ UNCHANGED <<cr, obj, world, bounds>>

PatchStatus(c) ==
    /\ Doing(c, "status") /\ cr[c].exists
    /\ cr' = [cr EXCEPT ![c].ready = doing[c]]
    /\ GoOn(c, 1)
    /\ UNCHANGED <<obj, world, bounds>>

AddFinalizer(c) ==
    /\ Doing(c, "addFinalizer") /\ cr[c].exists
    /\ cr' = [cr EXCEPT ![c].finalizer = @ \/ ~cr[c].deleting]
    /\ GoOn(c, 1)
    /\ UNCHANGED <<obj, world, bounds>>

RemoveFinalizer(c) ==
    /\ Doing(c, "removeFinalizer")
    /\ cr' = [cr EXCEPT ![c].finalizer = FALSE, ![c].exists = FALSE]
    /\ GoOn(c, 1)
    /\ UNCHANGED <<obj, world, bounds>>

(* Calls whose failure the code ignores: what they were to do is not done.  *)
IgnoresFailure == {"lookup", "probeQuietly", "deleteQuietly", "applyIfServed"}

Missing(c) == (Doing(c, "delete") \/ Doing(c, "deleteQuietly")) /\ obj[This(c)] = Absent
Refused(c) ==
    \/ Doing(c, "fail")
    \/ Doing(c, "apply") /\ ~CanWrite(This(c))
    \/ Doing(c, "applyIfServed") /\ IsServed(This(c)) /\ ~CanWrite(This(c))
    \/ Doing(c, "ensure") /\ ~CanWrite(This(c))
    \/ Doing(c, "event") /\ ending
    \/ (Doing(c, "status") \/ Doing(c, "addFinalizer")) /\ ~cr[c].exists
    \/ Missing(c) /\ Doing(c, "delete")

Fail(c) ==                      \* error_policy requeues
    /\ Refused(c)
    /\ Stop(c)
    /\ UNCHANGED <<cr, obj, world, bounds>>

Ignore(c) ==
    /\ Missing(c) /\ Doing(c, "deleteQuietly")
    /\ GoOn(c, Head(todo[c]).skip)
    /\ UNCHANGED <<cr, obj, world, bounds>>

Reconcile(c) ==
    \/ Begin(c) \/ ApplyCall(c) \/ NotServed(c) \/ EnsureCall(c)
    \/ Lookup(c) \/ Probe(c) \/ Delete(c) \/ PublishEvent(c) \/ PatchStatus(c)
    \/ AddFinalizer(c) \/ RemoveFinalizer(c) \/ Fail(c) \/ Ignore(c)

(* A call fails: the reconcile ends, unless the code ignores the failure.   *)
Fault_Continues(c) ==
    /\ ~Idle(c)
    /\ faults < MaxFaults /\ faults' = faults + 1
    /\ GoOn(c, 1)
    /\ UNCHANGED <<cr, obj, world, edits>>
Fault(c) ==
    /\ ~Idle(c)
    /\ faults < MaxFaults /\ faults' = faults + 1
    /\ \/ Stop(c)
       \/ Head(todo[c]).op \in IgnoresFailure /\ GoOn(c, Head(todo[c]).skip)
    /\ UNCHANGED <<cr, obj, world, edits>>

-----------------------------------------------------------------------------
(* The cluster and its users.                                               *)

Collect(t) ==                   \* garbage collection
    /\ obj[t] # Absent /\ ~cr[obj[t].owner].exists
    /\ Drop(t)
    /\ UNCHANGED <<cr, todo, doing, world, bounds>>

Terminate ==                    \* the namespace controller deletes what is in it
    /\ ending /\ \E t \in Things : obj[t] # Absent
    /\ obj' = [t \in Things |-> Absent]
    /\ UNCHANGED <<cr, todo, doing, world, bounds>>

EditSpec(c, s) ==
    /\ cr[c].exists /\ s # cr[c].spec
    /\ edits < MaxEdits /\ edits' = edits + 1
    /\ cr' = [cr EXCEPT ![c].spec = s]
    /\ UNCHANGED <<todo, doing, obj, world, faults>>

Deleted(record) == [record EXCEPT !.deleting = TRUE, !.exists = record.finalizer]

DeleteCR(c) ==
    /\ cr[c].exists /\ ~cr[c].deleting
    /\ cr' = [cr EXCEPT ![c] = Deleted(@)]
    /\ UNCHANGED <<todo, doing, obj, world, bounds>>

EndNamespace ==
    /\ NsMayEnd /\ ~ending /\ ending' = TRUE
    /\ cr' = [c \in CRs |-> IF cr[c].exists THEN Deleted(cr[c]) ELSE cr[c]]
    /\ UNCHANGED <<todo, doing, obj, served, bounds>>

InstallApi(k) ==
    /\ ApiMayChange /\ k \notin served
    /\ edits < MaxEdits /\ edits' = edits + 1
    /\ served' = served \union {k}
    /\ UNCHANGED <<cr, todo, doing, obj, ending, faults>>

RemoveApi(k) ==                 \* the objects of a kind go with its CRD
    /\ ApiMayChange /\ k \in served
    /\ edits < MaxEdits /\ edits' = edits + 1
    /\ served' = served \ {k}
    /\ obj' = [t \in Things |-> IF t[1] = k THEN Absent ELSE obj[t]]
    /\ UNCHANGED <<cr, todo, doing, ending, faults>>

Next ==
    \/ \E c \in CRs : \/ Reconcile(c) \/ Fault(c) \/ DeleteCR(c)
                      \/ \E s \in SpecsOf[c] : EditSpec(c, s)
    \/ \E t \in Things : Collect(t)
    \/ \E k \in Optional : InstallApi(k) \/ RemoveApi(k)
    \/ EndNamespace \/ Terminate

Spec == Init /\ [][Next]_vars

(* Requeues and error_policy keep every CR reconciled; the collector works. *)
Fairness == /\ \A c \in CRs : WF_vars(Reconcile(c))
            /\ WF_vars(Terminate \/ \E t \in Things : Collect(t))
FairSpec == Spec /\ Fairness

-----------------------------------------------------------------------------
Living(c) == cr[c].exists /\ ~cr[c].deleting

(* What a spec asks for, read off the CRDs and not off the plans.           *)
Exposed(name, net) ==
    {<<"Ingress", name>> : i \in {net} \cap {"ingress"}}
    \union {<<"HTTPRoute", name>> : i \in {net} \cap {"route", "redirect"}}
    \union {<<"HTTPRoute", Redirect(name)>> : i \in {net} \cap {"redirect"}}
Role(name, net) == {<<"Deployment", name>>, <<"Service", name>>} \union Exposed(name, net)
Wanted(c, s) ==
    LET n == NameOf[c]
        only(condition, things) == IF condition THEN things ELSE {}
    IN  {<<"Secret", KeySecret(n)>>} \union
        IF KindOf[c] = "Single"
        THEN Role(n, s.net) \union only(s.volumes, {<<"PVC", Append(n, "data")>>})
        ELSE UNION { Role(Append(n, "main"), s.net),
                     {<<"Deployment", Append(n, "worker")>>},
                     only(s.multiMain, {<<"DestinationRule", Append(n, "main")>>}),
                     only(s.autoscale, {<<"HPA", Append(n, "worker")>>}),
                     only(s.webhooks # "off", Role(Append(n, "webhook"), s.webhooks)),
                     only(s.volumes, {<<"PVC", Append(n, "nodes")>>,
                                      <<"PVC", BinaryData(n)>>,
                                      <<"PVC", Append(Append(n, "main"), "data")>>}) }

Deletes == {"delete", "deleteQuietly"}

(* Instances of one namespace "get independent children", deleting one      *)
(* "leaves the other untouched" (single.feature:98-107, 150-156): a thing   *)
(* that its owner wants stays the owner's, whatever the reconciles of       *)
(* other CRs, called by name only, do.                                      *)
KeptWhileWanted ==
    [][\A t \in Things, c \in CRs :
         /\ obj[t].owner = c /\ Living(c)
         /\ t \in Wanted(c, cr[c].spec)
         /\ \A call \in CallsOf(todo[c]) : ~(call.thing = t /\ call.op \in Deletes)
         /\ IsServed(t)' /\ ~ending
         => obj'[t].owner = c]_vars

(* The main role takes production webhooks back before the webhook role     *)
(* goes (cluster_apply.rs:99-101, cluster_main.rs:57-63).                   *)
Offloads(c) == obj[Main(c)] # Absent /\ obj[Main(c)].spec.webhooks # "off"

TakenBackFirst ==
    [][\A c \in Clusters :
         Living(c) /\ ~ending /\ obj[Webhook(c)] # Absent /\ obj'[Webhook(c)] = Absent
         => ~Offloads(c)]_vars

(* A spec that can be delivered: legal, and what it exposes is served.      *)
Rejected(s) == ~s.legal \/ s.net = "both" \/ s.webhooks = "both"
Deliverable(c) ==
    /\ Living(c) /\ ~Rejected(cr[c].spec)
    /\ \A t \in Wanted(c, cr[c].spec) : t[1] = "HTTPRoute" => IsServed(t)

(* With webhooks configured, production webhooks "are handled solely by the *)
(* webhook role" (cluster_main.rs:57-58): no Cluster stays for good with    *)
(* them switched off in main and no webhook role, unless its spec cannot be *)
(* delivered.                                                               *)
WebhooksHandled ==
    \A c \in Clusters :
        Offloads(c) /\ obj[Webhook(c)] = Absent
        ~> obj[Webhook(c)] # Absent \/ ~Offloads(c) \/ ~Deliverable(c)

(* A status is written only once every child it stands for is in place, but *)
(* for the DestinationRule, which a failed lookup of the API groups skips   *)
(* (single_apply.rs:45-59, cluster_apply.rs:99-116, destination_rule.rs:24- *)
(* 30).  A terminating namespace takes the children away at any time.       *)
StatusAfterChildren ==
    [][\A c \in CRs : cr'[c].ready # cr[c].ready /\ ~ending =>
         \A t \in Wanted(c, doing[c]) :
             t[1] \notin {"Secret", "DestinationRule"} =>
                 obj[t] = [owner |-> c, spec |-> doing[c]]]_vars

(* "Operator rejects setting both ingress and httpRoute" (single.feature:   *)
(* 49-52): while a CR asks for both, its status does not say ready.         *)
RejectedNotReady ==
    \A c \in CRs : Living(c) /\ Rejected(cr[c].spec) => cr[c].ready = None

(* What a Cluster's plan has before the networking that is refused: that of *)
(* main, or that of the webhook role.                                       *)
BeforeRefusal(c, s, t) ==
    \/ t[1] = "Secret"
    \/ /\ t \in Wanted(c, s)
       /\ s.net = "both" => t[1] = "PVC" \/ t[2] = Append(NameOf[c], "main")

(* What is left of that for the children, whatever the order of edits,      *)
(* faults and reconciles.  A Single that asks for both, and a CR that is    *)
(* not legal, is refused before anything is applied for it.  A Cluster is   *)
(* refused half-way (cluster_apply.rs:99-101, networking.rs:18-24): it gets *)
(* what its plan has before that, nothing behind it, and never a status.    *)
(* Children that were applied for an earlier spec stay.                     *)
RejectedStopsShort ==
    \A c \in CRs :
        /\ cr[c].ready # None => ~Rejected(cr[c].ready)
        /\ \A t \in Things :
            obj[t].owner = c /\ Rejected(obj[t].spec) =>
                /\ KindOf[c] = "Cluster" /\ obj[t].spec.legal
                /\ BeforeRefusal(c, obj[t].spec, t)

(* "Rejects" read strictly: nothing is ever applied for a rejected spec.    *)
(* Clusters do not keep this (child_both).                                  *)
RejectedTouchesNothing ==
    \A c \in CRs, t \in Things : obj[t].owner = c => ~Rejected(obj[t].spec)

(* Every spec that can be delivered is, once users and faults leave it      *)
(* alone: what it asks for is applied, what it does not ask for is gone,    *)
(* the status speaks of it.                                                 *)
Delivered(c) ==
    /\ cr[c].ready = cr[c].spec
    /\ \A t \in Wanted(c, cr[c].spec) :
        \/ obj[t] = [owner |-> c, spec |-> cr[c].spec]
        \/ t[1] = "Secret" /\ obj[t] # Absent
        \/ ~IsServed(t)
    /\ \A t \in Things :
        obj[t].owner = c /\ t[1] \notin {"PVC", "Secret"} => t \in Wanted(c, cr[c].spec)
Converges == <>[](\A c \in CRs : Deliverable(c) => Delivered(c))

(* "No-op when the Istio CRDs aren't served - same guard the operator uses  *)
(* for HTTPRoutes" (destination_rule.rs:40-41): a legal spec reaches the    *)
(* workers of a Cluster even where the Gateway API is not served.           *)
WorkersFollow ==
    <>[](\A c \in Clusters :
           Living(c) /\ ~Rejected(cr[c].spec) => obj[Worker(c)].spec = cr[c].spec)

(* A CR that is deleted goes away, whatever its spec (single.feature:13-16), *)
(* as long as its namespace admits the event the finalizer publishes first. *)
DeletionCompletes == \A c \in CRs : cr[c].deleting ~> ~cr[c].exists \/ ending

(* ... and also when the whole namespace is deleted.                        *)
NamespaceEmpties == ending ~> \A c \in CRs : ~cr[c].exists
=============================================================================

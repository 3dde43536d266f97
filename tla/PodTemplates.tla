----------------------------- MODULE PodTemplates -----------------------------
(***************************************************************************)
(* The manifests a reconcile renders: labels, selectors, pod templates,    *)
(* volumes, strategies, names of objects.  Names and label values are      *)
(* sequences of dash-separated parts, labels functions from keys.  A volume *)
(* and its mount, always built together, are one record.  The revisions in *)
(* the annotations are followed in InstanceAi and CertBootstrap.           *)
(***************************************************************************)
EXTENDS SpecValidation, Sequences, TLC

(* Keys of g are taken from g, the others from f: merge_string_map.         *)
Merged(f, g) == [k \in DOMAIN f \union DOMAIN g |-> IF k \in DOMAIN g THEN g[k] ELSE f[k]]

Matches(selector, labels) ==
    \A k \in DOMAIN selector : k \in DOMAIN labels /\ labels[k] = selector[k]

-----------------------------------------------------------------------------
(* Labels and names of the instances.                                       *)

SelectorLabels(name) == [name |-> <<"n8n">>, instance |-> name]

(* What follows the last colon: the digest of an image that has one, its    *)
(* tag, or "latest".                                                        *)
ImageVersion(image) ==
    IF image.digest # None THEN image.digest ELSE IF image.tag # None THEN image.tag ELSE "latest"

CommonLabels(name, image, component) ==
    Merged(SelectorLabels(name), [component |-> <<component>>, version |-> <<ImageVersion(image)>>])

RoleName(cr, r) == IF r = "single" THEN cr ELSE cr \o <<r>>
Component(r) == IF r = "single" THEN "workflow-engine" ELSE r

(* Labels and names of the sandbox stack of Assistant `cr` of namespace ns. *)

SandboxComponent(r) == CASE r = "api" -> "sandbox-api" [] r = "runner" -> "sandbox-runner"

SandboxLabels(ns, cr, component) ==
    [name |-> <<"n8n-sandbox">>, instance |-> cr, component |-> <<component>>,
     assistant |-> cr, namespace |-> ns]
SandboxSelector_Shared(ns, cr, component) ==
    [name |-> <<"n8n-sandbox">>, instance |-> cr, namespace |-> ns]
SandboxSelector(ns, cr, component) ==
    [name |-> <<"n8n-sandbox">>, instance |-> cr, component |-> <<component>>, namespace |-> ns]
CleanupSelector(ns, cr) == [assistant |-> cr, namespace |-> ns]

SandboxName(ns, cr, part) == ns \o cr \o
    (CASE part = "api" -> <<"sandbox", "api">>
       [] part = "runner" -> <<"sandbox", "runner", "1">>
       [] part = "docker" -> <<"sandbox", "runner", "1", "docker">>)

-----------------------------------------------------------------------------
(* Volumes, each with its claim if it has one.                              *)
NoClaim == << >>
Volume(name, path, claim) == [name |-> name, path |-> path, claim |-> claim]

DataClaim(name) == name \o <<"data">>
NodesClaim(cr) == cr \o <<"nodes">>
BinaryClaim(cr) == cr \o <<"binary", "data">>

DbVolumes(db) ==
    IF db.type = "sqlite" \/ db.type \notin DOMAIN BlockOf \/ BlockOf[db.type] \notin db.blocks
    THEN {}
    ELSE {Volume(<<"n8n-db-ssl", k>>, <<"/etc/n8n/ssl", k>>, NoClaim) : k \in db.ssl}

PersistenceVolume(name, part) ==
    IF part.persistence = None THEN {}
    ELSE {Volume(<<"n8n-data">>, <<"/home/node/.n8n">>, DataClaim(name))}

SharedFilesystem(bd) == bd.mode = "filesystem" /\ bd.shared # None

SharedVolumes(cr, s) ==
    {Volume(<<"n8n-nodes">>, <<"/home/node/.n8n/nodes">>, NodesClaim(cr)) :
        x \in s.community \intersect {"sharedStorage"}}
    \union IF SharedFilesystem(s.binary)
           THEN {Volume(<<"n8n-binary-data">>, <<"/home/node/binary-data">>, BinaryClaim(cr))}
           ELSE {}

InstanceVolumes(cr, r, s) ==
    CASE r = "single" -> DbVolumes(s.db) \union PersistenceVolume(RoleName(cr, r), s.role[r])
      [] r = "main"   -> DbVolumes(s.db) \union SharedVolumes(cr, s)
                         \union PersistenceVolume(RoleName(cr, r), s.role[r])
      [] r \in {"worker", "webhook"} -> DbVolumes(s.db) \union SharedVolumes(cr, s)

SandboxVolumes(ns, cr, r, part) ==
    {Volume(<<"tls">>, <<"/tls">>, NoClaim)} \union
    IF r = "api" THEN {}
    ELSE {Volume(<<"docker">>, <<"/var/lib/docker">>,
                 IF part.persistence = None THEN NoClaim ELSE SandboxName(ns, cr, "docker"))}

-----------------------------------------------------------------------------
(* Pod templates.  apply_pod_config replaces the security context and merges *)
(* the user's labels over the operator's.                                   *)

NoGroup == 0
TlsFsGroup == 101

PodTemplate(labels, image, volumes, complete, part) ==
    [labels   |-> Merged(labels, part.labels),
     image    |-> image,
     fsGroup  |-> part.fsGroup,
     volumes  |-> volumes,
     complete |-> complete]

(* Whether the environment has every variable its modes need.               *)
DbComplete(db) == db.type # "sqlite" => BlockOf[db.type] \in db.blocks
EnvComplete(r, s) ==
    IF r = "single" THEN s.db.type # None => DbComplete(s.db)
    ELSE /\ DbComplete(s.db) /\ s.db.type # "sqlite"
         /\ s.binary.mode = "s3" => s.binary.s3

InstanceTemplate(cr, r, s) ==
    LET part == s.role[r] IN
    PodTemplate(CommonLabels(RoleName(cr, r), part.image, Component(r)), part.image,
                InstanceVolumes(cr, r, s), EnvComplete(r, s), part)

(* The operator owns fsGroup: it is set after the user's security context.  *)
SandboxPod(ns, cr, r, s) ==
    PodTemplate(SandboxLabels(ns, cr, SandboxComponent(r)), [tag |-> s.version, digest |-> None],
                SandboxVolumes(ns, cr, r, s.role[r]), TRUE, s.role[r])

SandboxTemplate_GroupFirst(ns, cr, r, s) ==
    [SandboxPod(ns, cr, r, s) EXCEPT !.fsGroup = IF @ = NoGroup THEN TlsFsGroup ELSE @]
SandboxTemplate(ns, cr, r, s) ==
    [SandboxPod(ns, cr, r, s) EXCEPT !.fsGroup = TlsFsGroup]

-----------------------------------------------------------------------------
(* Strategies.  A count must be rendered as a number: the API server takes  *)
(* a string for a percentage.                                               *)
IntOrString_Verbatim(v) == [json |-> IF v.unit = None THEN None ELSE "string", value |-> v]
IntOrString(v) ==
    [json |-> CASE v.unit = None -> None [] v.unit = "count" -> "number" [] OTHER -> "string",
     value |-> v]

(* Only a rolling update has parameters.                                    *)
RenderedStrategy(s) ==
    LET Parameter(v) == IntOrString(IF s.type = "RollingUpdate" THEN v ELSE Unset)
    IN  [type |-> s.type, surge |-> Parameter(s.surge), unavailable |-> Parameter(s.unavailable)]
Recreate == RenderedStrategy([NoStrategy EXCEPT !.type = "Recreate"])

(* A Deployment of one replica: what its object is labelled with, the pods  *)
(* it selects and makes, and how it replaces them.                          *)
Deployment(labels, selector, template, strategy) ==
    [labels |-> labels, selector |-> selector, template |-> template, strategy |-> strategy]

InstanceDeployment(cr, r, s) ==
    Deployment(CommonLabels(RoleName(cr, r), s.role[r].image, Component(r)),
               SelectorLabels(RoleName(cr, r)), InstanceTemplate(cr, r, s),
               RenderedStrategy(s.role[r].strategy))

SandboxDeployment_Surges(ns, cr, r, s) ==
    LET component == SandboxComponent(r) IN
    Deployment(SandboxLabels(ns, cr, component), SandboxSelector(ns, cr, component),
               SandboxTemplate(ns, cr, r, s), RenderedStrategy(NoStrategy))
SandboxDeployment(ns, cr, r, s) ==
    LET component == SandboxComponent(r) IN
    Deployment(SandboxLabels(ns, cr, component), SandboxSelector(ns, cr, component),
               SandboxTemplate(ns, cr, r, s), Recreate)

(* The pods a Service selects.                                              *)
InstanceService(cr, r) == SelectorLabels(RoleName(cr, r))
SandboxService(ns, cr, r) == SandboxSelector(ns, cr, SandboxComponent(r))
=============================================================================

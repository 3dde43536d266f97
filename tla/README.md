# n8n-rustful-operator in TLA+

Specifications of the operator's reconcilers, their model-checking configurations
and machine-checked proofs. Paths below are relative to the repository; line numbers
refer to the commit the modules were written from. Every definition that stands
for code is listed with its lines in `PROJECT.json` (`map`).

## 1. The system

The operator is one process with three controllers (`src/reconciler/run.rs`), one
each for the custom resources `Single`, `Cluster` and `Assistant`. A controller
keeps a watch cache of its own CRs (nothing is watched besides them), runs at most
one reconcile of a CR at a time, starts it from the cached version, and runs it
again after a requeue (15 s or 300 s after success, 5 min after an error,
`error_policy`) or a change of the CR. There is no leader election: during the
default rolling update of its Deployment (`yaml/install.yaml`) two processes work.
Everything the operator knows is in the API server: a reconcile is a sequence of
API calls, and the hard behaviours are what happens between two of them.

| Component | State it keeps | Operations | Talks to |
|---|---|---|---|
| Assistant reconciler: `reconciler/assistant*.rs`, `builders/sandbox_*.rs` | finalizer; `status.sandboxNamespace` (the *pin*), `status.targetSecret`, `certsReady`; the sandbox stack, without ownerReferences because it lives in another namespace | `apply` (namespace, keys, certificates, volume, Deployments, Services, target Secret, status), `cleanup` (purge by label, remove finalizer) | certificate bootstrap; Singles and Clusters through the target Secret |
| Certificate bootstrap: `assistant_certs.rs`, `sandbox_certs.rs`, `bin/tlspub.rs` | two TLS Secrets, the Job and its RBAC | `ensure_certs`; every attempt of the Job mints a CA and publishes both Secrets | the Job controller, users who rotate by deleting a Secret |
| Encryption key: `reconciler/encryption.rs`, `owner.rs` | the Secret `<name>-encryption-key` | get, else create, tolerate 409 | pods of the instance, garbage collector |
| Single reconciler: `reconciler/single*.rs` | finalizer, `status.ready`, children | validate, apply children, networking, event, status; cleanup | encryption key, networking |
| Cluster reconciler: `reconciler/cluster*.rs` | the same for the roles main, worker, webhook | validate, key, volumes, main, workers, webhooks, event, status; cleanup | the same, Istio and autoscaling objects |
| Networking: `reconciler/networking.rs`, `builders/{http_route,ingress,destination_rule}.rs` | Ingress, HTTPRoute, `-redirect` HTTPRoute, DestinationRule | apply what the spec asks for, delete by name what it does not | API kinds that may not be installed |
| Container environment: `env/*.rs`, `builders/deployment.rs` | the env list of each container | wired entries, layered user entries (`build_user_env`) | validation (`RESERVED_ENV`) |
| Validation: `reconciler/validate.rs`, `*_validate.rs` | none | accept or reject a spec | its reconciler |
| Instance AI: `env/instance_ai.rs`, `assistant_apply.rs` 145-185, `single_children.rs` 19-25 | the target Secret's resourceVersion in a pod annotation | write, read, roll out | Assistant on one side, Single or Cluster on the other |
| Autoscaling: `builders/hpa.rs`, `cluster_worker.rs` | HPA, field ownership of `replicas` | apply or delete HPA | the HPA controller |
| Rendering: `builders/*.rs`, `labels.rs` | none | spec to manifest | |
| CRD types: `spec/*.rs`, `crdgen.rs` | none | data | |
| Process: `main.rs`, `state.rs`, `metrics/*`, `telemetry.rs` | counters, last event, log filter | HTTP endpoints | |

### What is hard here, and what must hold

* **Stale reads.** The CR comes from a cache; Secrets, Jobs and CRDs are read one
  call before they are acted on. *The pin must not move, no running Job may be
  deleted, one CR must not delete another's objects.*
* **Partial failure.** Every `?` ends a reconcile between two calls, and the next
  one starts from the top. *Objects must never be created where cleanup will not
  find them; a mixed pair of certificates must not be taken for a complete one;
  webhooks must not stay without a handler.*
* **Server-side apply.** It overwrites whoever wrote before, and drops what the
  operator owned and leaves out. *Status fields must be carried along; a child
  name must belong to one CR.*
* **Deletion.** Finalizer, label purge, background deletion and garbage collection
  run beside reconciles and pods. *Nothing outlives the CR, deletion completes,
  keys live as long as the data they encrypt.*
* **Two writers, one field.** An Assistant writes the Secret that a Single or Cluster
  rolls out, and neither tells the other; the operator and the autoscaler both set
  `replicas`. *What is stamped must be what runs, a count the autoscaler set must be
  left alone, and both must come to rest.*
* **Two lists for one fact.** Names the operator wires and names it reserves, one
  URL computed per role; what validation accepts and what the API server admits.
  *They must agree.*
* **Replacing pods.** Names decide which Service selects which pods and which CR owns
  them, strategies whether the old pod goes before the new one comes. *Selectors meet
  their own pods, a privileged runner is never doubled, rollouts finish.*

`PROJECT.json` lists these hazards at their lines, with the properties that would
break.

## 2. Modules

| Module | Models | State ↔ code |
|---|---|---|
| `CertBootstrap` | `ensure_certs`, call by call; the Job controller; attempts of the Job with `tlspub`'s two publishes; rotation, drift, eviction | `pc[o]` is the next `.await` of the operator; `seen` the Secrets already read in this reconcile; `secret`, `rbac`, `job`, `pod` the API server; `rolled`, `certsReady` what was written from `seen`. A CA, a publish and a resourceVersion share the number of the attempt |
| `AssistantLifecycle` | one Assistant: `finalizer()`, `apply`, `cleanup`, status patches, target Secret, over a lagging watch | `cr` is the object, `cache`/`watch` an operator's reflector, `at` the sandbox namespace and `carried` the target Secret the running reconcile took from its copy; `stack[n]` the labelled objects of a namespace; `Then` the order of the calls |
| `EncryptionKey`, `MCEncryptionKey` | the key Secret of every Single and Cluster of a namespace; pods that read it, ownership, collection | one member of `CRs` is one uid; `used[c]` are the keys its pods were started with |
| `Children`, `MCChildren` | all calls of the Single and the Cluster reconciler with networking, for any CRs of one namespace | a *plan* is the sequence of calls for a spec (`SinglePlan`, `ClusterPlan`); `todo[c]` is what is left of it; `obj[t]` owner and spec of each child, by kind and name |
| `ContainerEnv`, `MCContainerEnv` | validation of `extraEnv`, wired entries, layers, the merge loop of `build_user_env` | `order`, `latest` are the loop's locals; `container[r]` the result for role r |
| `InstanceAi` | the Secret `<target>-instance-ai` between the Assistants that write it and the instances that roll out its resourceVersion; the user's key Secret | `at[a]` are the locals of an Assistant's reconcile (copy of the spec, keys read), `inst[t]` those of an instance's (revision read); `secret[t]` content (its keys, and which of them the spec named), owner and revision; `template[t]` the stamp of the Deployment, `pod[t]` stamp and environment of what runs |
| `KeyPromise` | what the key handling promises, without calls, names or operators: a CR gets one key, and no other as long as it lives | `held[c]` is the key, `phase[c]` its life |
| `WorkerScaling`, `MCWorkerScaling` | `reconcile_workers` and `sync_hpa` call by call, with the autoscaler and users who scale | `field` is `replicas` with `owners`, its field managers; `hpa` the range of the autoscaler |
| `SpecValidation` | every rule of the three validators, as predicates of a spec, in the order in which they reject | - |
| `PodTemplates` | labels, selectors, names, volumes, claims, security context and strategy of each workload, as functions of a spec | - |
| `Workloads`, `MCWorkloads` | the calls for claims, Deployments and Services of all three kinds, admission by the API server, replacement of pods | `calls[c]` is what is left of c's reconcile; `claims`, `deps`, `services` the objects by namespace and name; `pods[d]` the templates of the pods of d |
| `*Proofs` | theorems about the module they extend | |

How they fit together. `CertBootstrap` details what the steps `certs` to `job` of
`AssistantLifecycle` abbreviate, with the Secrets as numbered versions; the second
keeps only their presence. `InstanceAi` in the same way details its step for the target
Secret and, on the other side, the read of the Secret before the Deployment in
`Children`. The call `ensure` of `Children` is detailed in `EncryptionKey`, its call for
the workers and the autoscaler in `WorkerScaling`, and what its applies of volumes,
Deployments and Services carry in `Workloads`. `Workloads` EXTENDS `PodTemplates`,
which EXTENDS `SpecValidation`: a spec is validated, rendered, admitted and rolled
out by one chain of definitions.

`EncryptionKey` implements `KeyPromise` (`Promise == INSTANCE KeyPromise WITH ...`): the
phase is the CR's life, the key held is the one its pods were started with, as long
as the CR is not gone. `KeepsPromise` is checked by TLC as a property of `key_distinct`
and proved.

Definitions named `X_Y` stand beside `X` and differ from it by a plausible mistake;
no specification uses them. They show that the properties notice it.

### Plan

Done, in this order: the Assistant's certificates and life cycle (most concurrency,
most failure paths), keys (irrecoverable loss), children of Singles and Clusters,
environment; the target Secret between Assistant and instance; workers between
operator and autoscaler; validation, names, manifests and rollouts, with several CRs
in one namespace; the key's abstract specification; proofs of every safety property
that a run checks. Next:

1. Abstract specifications of "an atomic pair or nothing", implemented by
   `CertBootstrap` without evictions and exhaustion, and "the namespace holds what the
   specs ask for", implemented by `Children`.
2. The readiness part of the Assistant's status (`assistant_status.rs`).

## 3. What is checked

Runs (`tlc -config <run>.cfg <module>`), with the sizes that matter:

| Run | Module | Result | Bounds |
|---|---|---|---|
| `cert_pair` | CertBootstrap | CompletedPairMatches, RunningJobKept, PairArrives hold | 1 operator, BackoffLimit 2, 2 failures (attempts before or after the last publish, API calls), 1 rotation, 6 attempts |
| `cert_evicted` | CertBootstrap | TypeOK, AttemptsCanPublish, CertsArrive hold | BackoffLimit 0, 2 evictions or failures, 1 rotation, 6 attempts |
| `life_patient` | AssistantLifecycle | TypeOK, NoOrphans, OneRunner, DeletionCompletes, StackBuilt hold | stale cache, 2 failures or restarts, 1 rotation, 1 edit between 2 namespaces that waits until the status records one, finished Jobs expire; 1 operator, pods end with their Job; 246,988 states |
| `life_edit` | AssistantLifecycle | PinKept, PinConfines, TargetKept hold | 2 edits between 2 namespaces at any moment, 2 failures or restarts, 1 rotation; pods may outlive their Job; fresh cache, 1 operator; 755,715 states |
| `key_distinct` | MCEncryptionKey | TypeOK, OneKeyPerInstance, KeyOwned, KeepsPromise hold | 2 CRs, 2 operators, 1 failure, 3 keys |
| `key_shared` | MCEncryptionKey | OneKeyPerInstance **violated** | a Single and a Cluster of one name |
| `child_one` | MCChildren | TypeOK, RejectedStopsShort, TakenBackFirst, StatusAfterChildren, WebhooksHandled, Converges, DeletionCompletes hold | a Single (4 specs) or a Cluster (5 specs, two of which ask for both kinds of route, for main or for the webhook role) alone, 1 edit of spec or CRD, 1 failure; the namespace does not end; 118,472 states |
| `child_mixed` | MCChildren | KeptWhileWanted holds | a Single and a Cluster of the same name, 1 edit, namespace may end; 729,530 states |
| `env_layers` | MCContainerEnv | NoDuplicateEnv, LayersWin, WebhookUrlAgrees hold | 8 settings, up to 2 cluster-wide entries and 1 of a role, over 4 names |
| `ai_rollout` | InstanceAi | TypeOK, StampMeansContent, NeverWithoutKey, Converges hold | 1 Assistant that may be edited and deleted and names a model key, a Brave key, both or neither (a model with a URL alone), 1 target, 2 versions of the user's keys, which may also be removed, 1 failure; 490,814 states |
| `scale_workers` | MCWorkerScaling | TypeOK, LeavesTheirCount, ScaleSettles hold | 5 specs with and without autoscaling, 2 operators, 4 replicas, 2 edits, 1 manual scaling (to zero as well), 1 failure; 146,710 states |
| `workloads` | MCWorkloads | OneAtATime, AcceptedIsAdmitted, SelectsOwn, RolloutsFinish hold | a Cluster (3 specs), a Single (3), an Assistant (2) or one with the longest legal name alone, or two Assistants that share a sandbox namespace; 2 edits, 1 failure; 53,033 states |

The conditions of a passing run (one operator, no eviction, a fresh cache, edits that wait
for the record, pods that end with their Job, distinct names) are not what the code
guarantees: each is there because a property of the run is violated without it, by the
configuration named in the tables below. The runs of `Children` take one operator, so that
a CR has one reconcile at a time; two replicas are modelled where they share a Secret, a Job
or a count (`EncryptionKey`, `CertBootstrap`, `AssistantLifecycle`, `WorkerScaling`).

*Edits of the sandbox namespace* come in two kinds. Before the status records a namespace
nothing refuses an edit, and what was created is found only by luck: with such edits
(`EarlyEdits`) a failed call leads to orphans (`life_pinlate`), and a stale cache to a pin
that moves (`life_stalepin`) and to a second runner. `life_patient` therefore lets users wait
for the record, and then allows failures, restarts and a stale cache; `life_edit` lets them
edit at any moment, with failures, but reads the latest CR.

*Expiry.* The bootstrap Job of `AssistantLifecycle` may expire at any moment after it finished
(`ttlSecondsAfterFinished`, `sandbox_certs.rs:109`), so StackBuilt asks for all of the
stack but the Job.

*Scaling to zero.* When a user scales autoscaled workers to zero, the autoscaler is switched
off and the operator, which no longer writes `replicas`, leaves the zero in place until
autoscaling is taken out of the spec. ScaleSettles says so: the count ends in its range, or
stays at a zero that only a user owns.

*Rejected routes.* A CR that asks for an Ingress and an HTTPRoute at once is refused: a Single
before anything is applied, a Cluster half-way (`networking.rs:23`). RejectedStopsShort says
how far it gets: not behind the refused networking, and never to a status. Children that an
earlier spec had are not taken away, for either kind.

Why these bounds are enough to be interesting. *Certificates*: a mixed pair takes one
failed attempt over an older pair, a burnt Job takes BackoffLimit + 1 failures, a
retry after both takes one more attempt; six attempts leave room for the Job to run
out, be replaced and succeed, twice (a run whose attempts ran out would break
CertsArrive, so the bound is not what makes it hold). *Life cycle*: orphans need one
namespace to leave and one to go to, one failure between creation and pin, and one
edit; a status patch that drops the pin or the target needs a stack that stands and one
rotation, and the second edit shows whether the pin still holds. *Keys*: a second key needs one collection and one re-creation. *Children*: each
two-spec edit exercises removing what the old spec had and creating what the new one
has, or an accepted spec before and after one that is refused half-way; the failure falls on
any call. A failed lookup of the API groups counts as "not installed", and passes over the
deletion of the routes. *Environment*: a name needs to be set by three
layers and twice in one of them. *Target Secret*: a stale stamp takes one write between
the read of the revision and the patch, an incomplete content one removal between the
reads of the two keys; both fit several times into two versions and one edit, and so does
an edit from a spec with a key to one with a URL alone. A resourceVersion is
used again only when neither the Secret, a reconcile, a template nor a pod has it any
more, so reuse hides no confusion of two versions. *Workers*: four replicas leave room for a range below, around and above
the count of the spec; the two edits switch autoscaling on and off again, with a second
operator between any two calls. *Workloads*: each set of specs contains one that
validation refuses or that changes template, strategy or security context, so that an
old and a new pod meet; the longest legal name fills 63 characters exactly.

Deadlock is not checked where the program legitimately comes to rest: every CR
deleted and collected (`AssistantLifecycle`, `EncryptionKey`, `Children`), every
container rendered (`ContainerEnv`), a refused spec that nobody edits (`Workloads`).
`CertBootstrap`, `InstanceAi` and `WorkerScaling` never rest, and deadlock is checked
there.

### Fairness

Weak fairness of each operator's reconcile: the code requeues after success (15 s
while certificates are missing, 300 s otherwise) and after an error (5 min), so a CR
is never forgotten; of watch delivery, of the Job controller, of running containers,
of garbage collection, of the namespace controller, of the Deployment controller's
rollouts and of an autoscaler whose count is out of its range: what Kubernetes
guarantees. An autoscaler moves within its range only if it likes, and nothing makes a
container restart, so no property leans on a restart to read a Secret again.
Users, faults and the TTL of finished Jobs are under no obligation; faults are bounded in
number, since nothing can be promised while every call fails. No strong fairness is
assumed.

### Where the code does something else than it says

`key_shared` is a run that must find its property violated, and a finding in
`PROJECT.json`: `encryption.rs:49-51` calls a Secret created by another CR of that name
"the desired state". It is collected with the other CR; the survivor then gets a new
key and cannot read its credentials.

More of the same kind, each with a configuration that shows it and that can be run
by hand (`work_odd.cfg` names one scene of `MCWorkloads`; replace it to see the
others):

| Configuration | Property | The code | A doc or comment |
|---|---|---|---|
| `cert_exhausted` | NoStaleCAAtRest | when the last attempt dies between its publishes over an older pair (rotation deleted one Secret), both Secrets exist, `ensure_certs` looks no further, and the mixed pair stays | no retry leaves "one Secret on a stale CA", `tlspub.rs:120-124` |
| `cert_evict` | CompletedPairMatches | an evicted attempt that still runs interleaves its publishes with its replacement's; the Job completes over a mixed pair | "idempotent and race-free", `tlspub.rs:121-123` |
| `cert_race` | NoNewCAUnderPair | Secrets read before the Job published, Job read after it completed: it is deleted and recreated under a complete pair | "Created only when those Secrets are missing", `sandbox_certs.rs:77-79` |
| `cert_twoops` | RunningJobKept | of two operators one deletes, by name, the Job the other has just recreated | "A still-running Job is left alone", `assistant_certs.rs:169-170` |
| `cert_drift` | DriftRepaired | the RBAC is applied only while a TLS Secret is missing | "restores the least-privilege grant on the next reconcile", `assistant_certs.rs:133-136` |
| `life_pinlate` | NoOrphans | keys and RBAC are created before the first status patch records the namespace; a failed call in between and an edit of `spec.sandbox.namespace` make cleanup look elsewhere | the finalizer removes the stack "before it lets the CR go", `assistant.rs:61-63` |
| `life_stalepin` | PinKept | the pin is checked in the cached CR; from a version without it an edit is accepted and moves the pin | "Pinned once the stack exists", `spec/assistant.rs:180-183` |
| `life_latepod` | NoOrphans | the Job is deleted in the background, its pod publishes after the Secrets were purged | `assistant.rs:61-63` |
| `life_twoops` | NoOrphans | an apply in flight in the outgoing operator writes after the incoming one's cleanup | `assistant.rs:61-63` |
| `key_recreated` | KeyOwned | a Single deleted and created again before collection uses its predecessor's Secret | "is owned by the Single", `single.feature:31` |
| `child_webhook` | KeptWhileWanted | a Cluster `shop` without webhooks deletes the Deployment and Service `shop-webhook` on every reconcile, whoever owns them (`<name>-redirect` is deleted and overwritten by name alone in the same way) | "Two Instances in the same namespace get independent children", `single.feature:98` |
| `child_gateway` | WorkersFollow | an HTTPRoute that is not served ends the Cluster's reconcile before its workers | "same guard the operator uses for HTTPRoutes", `destination_rule.rs:40-41` |
| `child_ended` | NamespaceEmpties | cleanup publishes an Event first, which a terminating namespace refuses (unless a recent equal Event exists to be patched), so finalizer and namespace wait for each other | "is gone within 60 seconds", `single.feature:13-16` |
| `child_ready` | RejectedNotReady | a Single that was ready stays `ready=true` after an edit to an illegal spec | "never reaches status.ready=true", `single.feature:49-51` |
| `child_both` | RejectedTouchesNothing | `validate_cluster` does not look at networking: key and main role exist before the conflict is found. (How far it gets is RejectedStopsShort.) | "Mutually exclusive", `spec/networking.rs:6-9` |
| `env_reserved` | NoDuplicateEnv | `N8N_MULTI_MAIN_SETUP_KEY_TTL` and the names of `env/storage.rs` (`N8N_DEFAULT_BINARY_DATA_MODE` and four more families) are wired but not reserved | "Env names (and prefixes) the operator wires itself", `validate.rs:25-26` |
| `ai_reappears` | LifecycleCloses | an absent Secret is stamped `none`; when an Assistant's Secret is written and collected between two reconciles of the instance, the stamp is the same before and after, and a pod that read the content in between keeps it | "the life cycle closes itself", `docs/superpowers/specs/2026-09-15-n8n-assistant-sandbox-design.md:278-280` |
| `ai_retarget` | OldTargetLetGo | an Assistant whose target is edited leaves the Secret of the old target behind; the old instance runs with the module on | the same |
| `ai_shared` | Converges | two Assistants with one target overwrite its Secret in turn, by forced apply; the instance is rolled out again and again | "Rotation of the source propagates at the next reconcile", the same, 275-276 |
| `scale_range` | ScaleSettles | `min > max` is not validated: the API server refuses the autoscaler after the Deployment has lost its `replicas`, on every reconcile | "Workers autoscale via HPA", `cluster.feature:184` |
| `scale_dip` | NoDipOnHandover | `replicas`, owned by the operator alone, is left out in the apply that hands over to the autoscaler, so it falls to 1 until the autoscaler raises it | "operator stops managing spec.replicas", `cluster.feature:184` |
| `work_odd`, `StrategyEdited` | AcceptedIsAdmitted | a strategy edited to `Recreate` keeps the `rollingUpdate` that was defaulted, which the API server refuses | accepted by `validate_strategy` |
| `work_odd`, `Relabelled` | AcceptedIsAdmitted | pod labels may overwrite the ones the selector matches | accepted |
| `work_odd`, `PinnedByDigest` | AcceptedIsAdmitted | an image digest makes a version label longer than 63 characters | accepted |
| `work_odd`, `NothingMayMove` | AcceptedIsAdmitted | `maxSurge` and `maxUnavailable` may both be zero | accepted |
| `work_odd`, `NoQuantity` | AcceptedIsAdmitted | `maxSurge` and `maxUnavailable` may be any string; the API server takes counts and percentages | accepted |
| `work_odd`, `AccessModeEdited` | AcceptedIsAdmitted | the access mode of a claim is immutable | accepted |
| `work_odd`, `NameTooLong` | AcceptedIsAdmitted | only an Assistant's names are measured; a Single's or Cluster's may exceed 63 characters with their suffix | accepted |
| `work_odd`, `RoleNamesake` | AcceptedIsAdmitted | a Single `n8n-main` and a Cluster `n8n` share the Deployment `n8n-main`, whose selector is immutable | `single.feature:98` |
| `work_odd`, `ClaimHeld` | RolloutsFinish | a rolling update of an instance with a `ReadWriteOnce` claim waits for a volume that the old pod holds (on another node) | accepted |
| `work_odd`, `OnePrefix` | SelectsOwn | `a-ai`/`n8n` and `a`/`ai-n8n` both get the sandbox prefix `a-ai-n8n` | `sandbox_names.rs:19` |

## 4. What is proved

With TLAPS, for every value of the constants that satisfies the modules' ASSUMEs.

**CertBootstrapProofs.** `TypeCorrect` and `GrantPrecedesAttempts` hold for any number
of operators and any faults. TypeOK bounds the Job's failure count, which is only
kept because a Job that exhausted it has no active attempt; AttemptsCanPublish only
because of what every `pc` on the path already stands on. The inductive invariant is
`BootstrapInv == TypeOK /\ FirstInv /\ AttemptInv /\ GrantInv`: a Job's first attempt
is at most the next one (FirstInv), the attempt a Job counts is the newest and lives
only while the Job runs (AttemptInv), the RBAC objects before each step exist
(GrantInv). `CompletedJobsAgree` and `RunningJobsAreKept` need the hypothesis
`Undisturbed` (one operator, no eviction), which `cert_twoops` and `cert_evict` show
to be necessary, and `PairInv`: what the live attempt has published is its own, and
an operator that is about to delete a Job has seen one that finished and still is.

**AssistantLifecycleProofs.** `TypeCorrect`. What is proved about edits of the sandbox
namespace rests on one of two conditions, neither of which limits failures or restarts.

Under the first, `~EarlyEdits`, users edit the namespace only once the status records one.
HomeInv says that then every version of the CR that is cached or on its way, and every apply
that runs, leads to the same namespace, and that nothing of the stack, no pod included, is
anywhere else: before the record because nobody edits, afterwards because the record decides.
It holds for any number of operators, any lag of their watches, any failed calls and late
pods, and gives `RunnersAreOne` and one half of `PinIsKept`. `NothingOutlivesTheCR` takes
`Steady`, which adds one operator and pods that end with their Job (`life_twoops` and
`life_latepod` show what each is for, `life_pinlate` what the wait is for). NoOrphans is not
inductive: VersionInv says that an older version without a deletion mark cannot reappear
after one with it; PhaseInv that apply runs under the finalizer and that cleanup has left
nothing behind the step it is at; StackInv that the stack is there only while the finalizer
is.

Under the second, `Prompt`, the namespace may be edited at any moment, but there is one
operator and its reconciles start from the latest version of the CR; a stale cache moves the
pin (`life_stalepin`). LatestInv says that the last version in the watch is the CR, so what
a reconcile copied is what is there; PinInv that a running apply works in the pinned
namespace, once there is a pin, and carries the recorded target. The other half of
`PinIsKept`, `TargetIsKept`, and `PinConfinesStack` follow: once a namespace is recorded no
call creates a thing of the stack elsewhere, but for the Secrets that a pod which was
already running there publishes.

**EncryptionKeyProofs.** `TypeCorrect`; `InstancesKeepTheirKey` and `KeysAreOwned` as
long as no two CRs share a name (`NamesDistinct`; `key_shared` and `key_recreated`
show the need), for any number of operators. `KeyInv == TypeOK /\ OwnerMatchesName /\
UsedIsLive`: a key that was ever used is still in the Secret, whose owner carries its
name, so only the death of that very CR lets it be collected.

`ReconcileKeepsPromise` is the refinement: under the same hypothesis every step is a step
of `KeyPromise` or leaves its variables alone. Its invariant adds to KeyInv that the
Secrets of two names hold different keys (KeysDiffer) and that only CRs that were created are
reconciled and deployed (OnlyBorn).

**InstanceAiProofs.** `TypeCorrect`, `StampIsContent` and `KeyWithModule`, for any number
of Assistants and instances, shared targets included. `AiInv` adds to the two
properties KeyInHand: a reconcile that is past the read of a key its copy of the spec names
holds that key, whatever users do to their Secret meanwhile, and so does every Secret an
Assistant wrote for the spec behind it. StampMeansContent is preserved by a
write because the new revision is not one that anybody still holds (lemma
NewRevisionFresh, from the assumption that a fresh one always remains).

**WorkerScalingProofs.** `TypeCorrect` and `CountIsLeft`, for any number of operators. The
invariant is TypeOK and OwnedExists: a count that has an owner exists. With it, a share
that the autoscaler or a user holds means that the apply that leaves the field out does
not take the last one.

**WorkloadsProofs.** `NeverTwoRunners`, `ServicesSelectOwn` and `NothingIsRefused`, for any
CRs, specs, edits and faults that keep to rules the validators do not know. `WorkInv` says
that specs are among those users give, that every claim, Deployment, Service and pending
call is what the renderer makes of an accepted spec for the one workload of that name
(AllRendered), and that parts that are to be alone are (PodsAlone). The rules, in the last
section of `Workloads`, with the theorems that take them and the scenes that show the need:

| Rule | Theorem | Without it |
|---|---|---|
| `NamesDistinct`: no two CRs have objects of one name | all three | `RoleNamesake`, `OnePrefix` |
| `OwnKeysOnly`: users do not label pods with the operator's keys | `ServicesSelectOwn`, `NothingIsRefused` | `Relabelled` |
| `LabelsFit`: users' labels, and the labels made of names and image versions that nothing measures, fit into 63 characters | `NothingIsRefused` | `PinnedByDigest`, `NameTooLong` |
| `StrategiesMove`: surge and unavailability are counts or percentages, and not both zero | `NothingIsRefused` | `NoQuantity`, `NothingMayMove` |
| `RecreateStays`: `Recreate` does not follow a strategy with a parameter left open | `NothingIsRefused` | `StrategyEdited` |
| `ClaimsKeepMode`: a claim is asked for in one access mode | `NothingIsRefused` | `AccessModeEdited` |

Each scene breaks its rule alone and violates a property; the scenes of the run `workloads`
satisfy all six, which `MCWorkloads` states as an assumption that TLC evaluates. What is
left for the validators and the renderer, and proved of them: claims and
volumes of one pod have different names and paths (VolumesApart), an accepted strategy renders
to a legal one (StrategyLegal), a selector is among the labels of its pods and never changes
(SelectorsExact, Replaces), and every name and label of an Assistant is short enough.
That last one rests on `SandboxNameLength`, that what `validate_assistant` computes is the
length of the name that is rendered, and on `NamesFit`, that the one name it measures is
no shorter than the others.

**ChildrenProofs.** For any Singles and Clusters, any names and any specs. The invariant
`ChildInv == TypeOK /\ SpecsKnown /\ PlansFit /\ Owned`: specs are ones users give; what is
left of a reconcile is a suffix of a plan for a spec that validation accepted, long
enough for the calls it may pass over; and every child was applied for such a spec of its owner. A plan is a
sequence built by concatenation, so a lemma says of each of its blocks which calls it
may contain and that no call passes over more than the block (Fit). From it follow
`TypeCorrect` and `Admitted` (no child is there for a spec that its owner's validation
refuses). `RejectedGoNoFurther` takes no assumption: in the plan of a spec that asks for an
Ingress and an HTTPRoute at once, everything applied ahead of the refusal is BeforeRefusal's
(blocks MainHead and BeforeMain), a probe or an ignored failure passes over neither the
refusal nor an apply (Tidy), and so what is left of such a reconcile still has the refusal
ahead of whatever else it would apply, and of the status. The other three are about children of several CRs and
take `NamesApart`: no two CRs reach for one thing. `WantedIsKept` (`child_webhook` shows the
need) follows from what a plan for one spec never deletes; `StatusIsLast` from InPlace, that
each child of the spec is there or still to be applied, and takes `RoutesStay`, that the API of HTTPRoute is not
uninstalled meanwhile; `WebhooksTakenBack` from TakenBack, that main has the webhooks, or is
still to get them, before the webhook role goes. `PlainNamesApart` says when names are apart:
when they begin differently, as names without dashes do, or belong to a Single and a
Cluster of one name. Names that do not are a real matter: besides the clash of
`child_webhook`, the claim for data of a Single `shop-binary` is the shared claim
`shop-binary-data` of a Cluster `shop`.

**ContainerEnvProofs.** `UserEnvHasNoDuplicates`, for any inputs: the loop invariant says
that `order` lists the domain of `latest` without repetition and that every entry is
filed under its own name (LoopInv). No run checks it besides: NoDuplicateEnv, about the
whole container, says more on the small instance. `HighestLayerWins` and `OneWebhookUrl`
hold for any settings and any lists of extraEnv. Their invariant BuildInv says that the
layers are those of the role, that `latest[n]` is the last entry of its name that the
loop has passed (LoopLast), and hence that a finished environment holds of each name in
the layers the last entry (Rendered); lemmas about concatenation (JoinedLast, LastOfFour)
then tell which layer that entry is from, and the names that each block of defaults may
set show that secureCookie and WEBHOOK_URL come from one place. `OneEntryEach` needs
the hypothesis `LeavesUnreserved`: no user sets one of the names that are wired and not
reserved. Its proof is what found that `env/storage.rs` contributes such names;
`env_reserved` shows the need.

Only model-checked: liveness (CertsArrive, PairArrives, StackBuilt, DeletionCompletes,
WebhooksHandled, Converges of `Children` and of `InstanceAi`, ScaleSettles,
RolloutsFinish), out of the prover's reach.

## 5. What is not modelled

HTTP endpoints, metrics and telemetry: nothing the operator decides reads them. (A
failed reconcile of a Cluster is not counted in the failure metric, one of a Single or
an Assistant is: `cluster.rs:48`.) The CRD generator, which prints a schema. Ports,
probes, resources, commands and the rules of Ingresses and routes: pure functions of
the spec that neither admission, selection nor rollouts depend on in the code's
values, and that unit tests compare. `ready` and `failure_message` of the Assistant's
status, which only report. Whether a string is a DNS label is a flag of the spec.

Abstractions inside the modules: contents of Secrets are reduced to the CA, the key or
the version they hold; a spec to the fields that change which calls are made or what
they carry; several entries of one environment family to one; names and label values
to sequences of parts with a length each; failing calls to a failure before their
effect (a lost answer after the effect is the operator's death after the call, which
ends the reconcile at the next step). Calls to the API server are atomic, as they are.

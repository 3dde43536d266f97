------------------------------ MODULE InstanceAi ------------------------------
(***************************************************************************)
(* How an Assistant configures an instance.  The Assistant's reconcile     *)
(* copies keys out of the user's Secrets into "<target>-instance-ai"; the  *)
(* pods of the instance take that Secret as environment when a container   *)
(* starts; the reconcile of the Single or Cluster reads the Secret's       *)
(* resourceVersion and stamps it on the pod template, so that a change     *)
(* rolls the pods.  Nobody tells anybody: each side polls, and between two *)
(* calls of one reconcile everything else goes on.                         *)
(***************************************************************************)
EXTENDS Naturals

CONSTANTS
    Assistants,     \* the Assistants of one namespace
    Targets,        \* its Singles and Clusters
    Nobody,         \* "no Assistant"
    Undeployed,     \* the instance has no Deployment yet
    Revisions,      \* resourceVersions; only the ones still seen somewhere matter
    Deletable,      \* Assistants a user may delete
    MaxEdits,       \* bound: edits of Assistants
    MaxKeys,        \* bound: versions of the user's key Secret
    MaxFaults       \* bound: failed API calls and operator restarts

NoRevision == 0     \* "none": the Secret does not exist

ASSUME ConstantsOK ==
    /\ Nobody \notin Assistants /\ Deletable \subseteq Assistants
    /\ Revisions \subseteq Nat \ {NoRevision} /\ Undeployed \notin Nat
    /\ \A s1, s2, s3, s4 \in Revisions \union {NoRevision, Undeployed} :
           \E r \in Revisions : r \notin {s1, s2, s3, s4}
    /\ MaxEdits \in Nat /\ MaxKeys \in Nat /\ MaxFaults \in Nat

VARIABLES
    cr,         \* cr[a]: the life of Assistant a
    spec,       \* spec[a]: its target, and which keys it names (Keys)
    userKey,    \* version of the Secret with the model and Brave keys, 0 if missing
    issued,     \* the last version of it
    at,         \* at[a]: the reconcile of a, its copy of the spec, the keys it read
    secret,     \* secret[t]: the Secret "<t>-instance-ai"
    inst,       \* inst[t]: the reconcile of instance t, the revision it read
    template,   \* template[t]: the revision stamped on t's pod template
    pod,        \* pod[t]: stamp and environment of the pod that runs
    edits, faults

vars == <<cr, spec, userKey, issued, at, secret, inst, template, pod, edits, faults>>
userVars == <<cr, spec, userKey, issued>>
instanceVars == <<inst, template, pod>>

(* A spec names a key for its model, unless a URL alone will do (LM Studio), *)
(* and one for Brave search if it wants that.  asks says which of them the   *)
(* spec behind a content named: without "model" it stands for the URL.       *)
Keys == {"model", "brave"}
Contents == [by : Assistants \union {Nobody}, asks : SUBSET Keys,
             model : 0..MaxKeys, brave : 0..MaxKeys]
Empty == [by |-> Nobody, asks |-> {}, model |-> 0, brave |-> 0]
Absent == [revision |-> NoRevision, data |-> Empty, owner |-> Nobody]
Specs == [target : Targets, asks : SUBSET Keys]
Stamps == Revisions \union {NoRevision}

(* State has the shape the code and the API server give it.  A new          *)
(* resourceVersion always remains.                                          *)
TypeOK ==
    /\ cr \in [Assistants -> {"unborn", "alive", "deleting", "gone"}]
    /\ spec \in [Assistants -> Specs]
    /\ userKey \in 0..MaxKeys /\ issued \in 0..MaxKeys
    /\ at \in [Assistants -> [pc : {"idle", "model", "brave", "write"}, spec : Specs,
                              model : 0..MaxKeys, brave : 0..MaxKeys]]
    /\ secret \in [Targets -> [revision : Stamps, data : Contents,
                               owner : Assistants \union {Nobody}]]
    /\ inst \in [Targets -> [pc : {"idle", "patch"}, seen : Stamps]]
    /\ template \in [Targets -> Stamps \union {Undeployed}]
    /\ pod \in [Targets -> [stamp : Stamps \union {Undeployed}, env : Contents]]
    /\ edits \in 0..MaxEdits /\ faults \in 0..MaxFaults

Init ==
    /\ cr = [a \in Assistants |-> "unborn"]
    /\ spec \in [Assistants -> Specs]
    /\ userKey = 0 /\ issued = 0
    /\ at = [a \in Assistants |-> [pc |-> "idle", spec |-> spec[a], model |-> 0, brave |-> 0]]
    /\ secret = [t \in Targets |-> Absent]
    /\ inst = [t \in Targets |-> [pc |-> "idle", seen |-> NoRevision]]
    /\ template = [t \in Targets |-> Undeployed]
    /\ pod = [t \in Targets |-> [stamp |-> Undeployed, env |-> Empty]]
    /\ edits = 0 /\ faults = 0

-----------------------------------------------------------------------------
(* The reconcile of an Assistant, from where the sandbox stack exists.  It  *)
(* works on the copy of the spec it started with, however old.              *)

BeginAssistant(a) ==
    /\ cr[a] = "alive" /\ at[a].pc = "idle"
    /\ at' = [at EXCEPT ![a] = [pc |-> "model", spec |-> spec[a], model |-> 0, brave |-> 0]]
    /\ UNCHANGED <<userVars, secret, instanceVars, edits, faults>>

(* read_key: a key the spec does not name is none, and no call is made; for *)
(* one it names a missing Secret or entry is an error, and nothing is       *)
(* written.                                                                 *)
KeyFor(asks, key) == IF key \in asks THEN userKey ELSE 0

MissingKey(asks, key) == key \in asks /\ userKey = 0

Asks(a) == at[a].spec.asks

ReadModelKey_Lenient(a) ==
    /\ at[a].pc = "model"
    /\ at' = [at EXCEPT ![a].model = KeyFor(Asks(a), "model"), ![a].pc = "brave"]
    /\ UNCHANGED <<userVars, secret, instanceVars, edits, faults>>
ReadModelKey(a) ==
    /\ at[a].pc = "model"
    /\ at' = [at EXCEPT ![a].model = KeyFor(Asks(a), "model"),
                        ![a].pc = IF MissingKey(Asks(a), "model") THEN "idle" ELSE "brave"]
    /\ UNCHANGED <<userVars, secret, instanceVars, edits, faults>>

ReadBraveKey(a) ==
    /\ at[a].pc = "brave"
    /\ at' = [at EXCEPT ![a].brave = KeyFor(Asks(a), "brave"),
                        ![a].pc = IF MissingKey(Asks(a), "brave") THEN "idle" ELSE "write"]
    /\ UNCHANGED <<userVars, secret, instanceVars, edits, faults>>

(* build_instance_ai_data: the sandbox's URL and key stand for the          *)
(* Assistant; a key the spec does not name has no entry.                    *)
SecretData_StringData(a) ==
    [by |-> a, asks |-> Asks(a), model |-> at[a].model,
     brave |-> IF "brave" \in Asks(a) THEN at[a].brave
               ELSE secret[at[a].spec.target].data.brave]
SecretData(a) ==
    [by |-> a, asks |-> Asks(a), model |-> at[a].model, brave |-> at[a].brave]

(* Every change of the Secret has a resourceVersion of its own.             *)
Seen(t) == {secret[t].revision, inst[t].seen, template[t], pod[t].stamp}
NewRevision_Uid(t) ==
    IF secret[t].revision # NoRevision THEN secret[t].revision
    ELSE CHOOSE r \in Revisions : r \notin Seen(t)
NewRevision(t) == CHOOSE r \in Revisions : r \notin Seen(t)

(* Forced apply by one field manager replaces the whole content, whoever    *)
(* wrote before; applying what is already there changes nothing.            *)
WriteTarget(a) ==
    LET t == at[a].spec.target IN
    /\ at[a].pc = "write"
    /\ secret' = IF secret[t].data = SecretData(a) /\ secret[t].owner = a THEN secret
                 ELSE [secret EXCEPT ![t] = [revision |-> NewRevision(t),
                                             data |-> SecretData(a), owner |-> a]]
    /\ at' = [at EXCEPT ![a].pc = "idle"]
    /\ UNCHANGED <<userVars, instanceVars, edits, faults>>

(* The finalizer runs when no reconcile of the same object does.            *)
Cleanup(a) ==
    /\ cr[a] = "deleting" /\ at[a].pc = "idle"
    /\ cr' = [cr EXCEPT ![a] = "gone"]
    /\ UNCHANGED <<spec, userKey, issued, at, secret, instanceVars, edits, faults>>

AssistantStep(a) ==
    \/ BeginAssistant(a) \/ ReadModelKey(a) \/ ReadBraveKey(a) \/ WriteTarget(a)
    \/ Cleanup(a)

-----------------------------------------------------------------------------
(* The reconcile of the instance: first the revision, then, after other     *)
(* calls, the Deployment.                                                   *)

ReadRevision_Once(t) ==
    /\ inst[t].pc = "idle"
    /\ inst' = [inst EXCEPT ![t] = [pc |-> "patch",
                   seen |-> IF template[t] = Undeployed THEN secret[t].revision
                            ELSE inst[t].seen]]
    /\ UNCHANGED <<userVars, at, secret, template, pod, edits, faults>>
ReadRevision_Default(t) ==
    /\ inst[t].pc = "idle"
    /\ inst' = [inst EXCEPT ![t] = [pc |-> "patch",
                   seen |-> IF secret[t].revision = NoRevision THEN Undeployed
                            ELSE secret[t].revision]]
    /\ UNCHANGED <<userVars, at, secret, template, pod, edits, faults>>
ReadRevision(t) ==
    /\ inst[t].pc = "idle"
    /\ inst' = [inst EXCEPT ![t] = [pc |-> "patch", seen |-> secret[t].revision]]
    /\ UNCHANGED <<userVars, at, secret, template, pod, edits, faults>>

PatchDeployment(t) ==
    /\ inst[t].pc = "patch"
    /\ template' = [template EXCEPT ![t] = inst[t].seen]
    /\ inst' = [inst EXCEPT ![t].pc = "idle"]
    /\ UNCHANGED <<userVars, at, secret, pod, edits, faults>>

InstanceStep(t) == ReadRevision(t) \/ PatchDeployment(t)

(* A call that fails, or the death of the operator, ends the reconcile.     *)
Fault ==
    /\ faults < MaxFaults /\ faults' = faults + 1
    /\ \/ /\ \E a \in Assistants : /\ at[a].pc # "idle"
                                   /\ at' = [at EXCEPT ![a].pc = "idle"]
          /\ UNCHANGED inst
       \/ /\ \E t \in Targets : /\ inst[t].pc # "idle"
                                /\ inst' = [inst EXCEPT ![t].pc = "idle"]
          /\ UNCHANGED at
    /\ UNCHANGED <<userVars, secret, template, pod, edits>>

-----------------------------------------------------------------------------
(* The cluster.  envFrom is optional: without the Secret a container starts *)
(* without the entries.                                                     *)

(* The Deployment controller replaces a pod whose template is another.      *)
RollOut(t) ==
    /\ template[t] # Undeployed /\ pod[t].stamp # template[t]
    /\ pod' = [pod EXCEPT ![t] = [stamp |-> template[t], env |-> secret[t].data]]
    /\ UNCHANGED <<userVars, at, secret, inst, template, edits, faults>>

(* A container starts again (crash, eviction): same template, new content.  *)
RestartContainer(t) ==
    /\ pod[t].stamp # Undeployed /\ pod[t].env # secret[t].data
    /\ pod' = [pod EXCEPT ![t].env = secret[t].data]
    /\ UNCHANGED <<userVars, at, secret, inst, template, edits, faults>>

(* The Secret is owned by the Assistant that wrote it last.                 *)
CollectTarget(t) ==
    /\ secret[t].owner # Nobody /\ cr[secret[t].owner] = "gone"
    /\ secret' = [secret EXCEPT ![t] = Absent]
    /\ UNCHANGED <<userVars, at, instanceVars, edits, faults>>

(* Users.                                                                   *)

CreateAssistant(a) ==
    /\ cr[a] = "unborn"
    /\ cr' = [cr EXCEPT ![a] = "alive"]
    /\ UNCHANGED <<spec, userKey, issued, at, secret, instanceVars, edits, faults>>

EditAssistant(a, s) ==
    /\ cr[a] = "alive" /\ s # spec[a]
    /\ edits < MaxEdits /\ edits' = edits + 1
    /\ spec' = [spec EXCEPT ![a] = s]
    /\ UNCHANGED <<cr, userKey, issued, at, secret, instanceVars, faults>>

DeleteAssistant(a) ==
    /\ a \in Deletable /\ cr[a] = "alive"
    /\ cr' = [cr EXCEPT ![a] = "deleting"]
    /\ UNCHANGED <<spec, userKey, issued, at, secret, instanceVars, edits, faults>>

PutUserKey ==
    /\ issued < MaxKeys /\ issued' = issued + 1
    /\ userKey' = issued + 1
    /\ UNCHANGED <<cr, spec, at, secret, instanceVars, edits, faults>>

DropUserKey ==
    /\ userKey # 0
    /\ userKey' = 0
    /\ UNCHANGED <<cr, spec, issued, at, secret, instanceVars, edits, faults>>

Next ==
    \/ \E a \in Assistants : \/ AssistantStep(a) \/ CreateAssistant(a) \/ DeleteAssistant(a)
                             \/ \E s \in Specs : EditAssistant(a, s)
    \/ \E t \in Targets : \/ InstanceStep(t)
                          \/ RollOut(t) \/ RestartContainer(t) \/ CollectTarget(t)
    \/ PutUserKey \/ DropUserKey \/ Fault

Spec == Init /\ [][Next]_vars

(* Requeues (15 or 300 s, 5 min after an error) keep every reconcile        *)
(* running; the Deployment controller and the garbage collector work.       *)
(* Nothing makes a container restart, and users are under no obligation.    *)
Fairness ==
    /\ \A a \in Assistants : WF_vars(AssistantStep(a))
    /\ \A t \in Targets : /\ WF_vars(InstanceStep(t))
                          /\ WF_vars(RollOut(t)) /\ WF_vars(CollectTarget(t))
FairSpec == Spec /\ Fairness

-----------------------------------------------------------------------------
(* A pod whose stamp is the Secret's current resourceVersion runs its       *)
(* current content: when the stamp is up to date no rollout is missing,     *)
(* although the revision was read before the Deployment was patched, and    *)
(* the pod read the content later still (single_children.rs:19-51,          *)
(* cluster_main.rs:76-107).                                                 *)
StampMeansContent ==
    \A t \in Targets :
        secret[t].revision # NoRevision /\ pod[t].stamp = secret[t].revision
            => pod[t].env = secret[t].data

(* No pod is configured for a key it does not hold: where the module is     *)
(* switched on for a spec that names a model or a Brave key, the entry is   *)
(* there, whatever happens to the user's Secret and to the spec between the *)
(* reads of a reconcile; a model with a URL alone needs none (read_key,     *)
(* assistant_apply.rs:267-281).                                             *)
HoldsItsKeys(c) == /\ "model" \in c.asks => c.model # 0
                   /\ "brave" \in c.asks => c.brave # 0

NeverWithoutKey == \A t \in Targets : HoldsItsKeys(pod[t].env)

CanRead(asks) == \A key \in Keys : ~MissingKey(asks, key)

Wanted(a) == [by |-> a, asks |-> spec[a].asks, model |-> KeyFor(spec[a].asks, "model"),
              brave |-> KeyFor(spec[a].asks, "brave")]

(* "Rotation of the source propagates at the next reconcile" (design        *)
(* document, 275-276): edits, rotated and removed keys reach the pods, and  *)
(* then the pods are left alone: stamp and revision agree for good.  A spec *)
(* with a URL and no key gets there without the user's Secret.              *)
Converges ==
    <>[](\A t \in Targets :
            /\ template[t] = secret[t].revision /\ pod[t].stamp = template[t]
            /\ \A a \in Assistants :
                   cr[a] = "alive" /\ spec[a].target = t /\ CanRead(spec[a].asks)
                       => pod[t].env = Wanted(a))

(* "The life cycle closes itself": deleting the Assistant ends in a rollout *)
(* without its variables (design document, 278-280).                        *)
LifecycleCloses ==
    (\A a \in Assistants : cr[a] = "gone") ~> (\A t \in Targets : pod[t].env = Empty)

(* An instance that no Assistant names any more runs without the module.    *)
OldTargetLetGo ==
    <>[](\A t \in Targets :
            (\A a \in Assistants : cr[a] = "alive" => spec[a].target # t)
                => pod[t].env = Empty)
=============================================================================

---------------------------- MODULE EncryptionKey ----------------------------
(***************************************************************************)
(* The n8n encryption key of an instance.  Every reconcile of a Single or  *)
(* a Cluster makes sure that a key Secret exists, then applies a           *)
(* Deployment whose pods read the key when they start.  n8n cannot read    *)
(* its stored credentials with any other key, so the Secret may be minted  *)
(* again only for an instance that never ran.                              *)
(*                                                                         *)
(* The Secret's name derives from the name of the CR alone, its lifetime   *)
(* from the uid of the CR that created it.  A member of CRs stands for one *)
(* uid: a CR deleted and created again is two members.                     *)
(***************************************************************************)
EXTENDS Naturals

CONSTANTS
    CRs,            \* the Singles and Clusters of one namespace, by uid
    KindOf, NameOf, \* of each CR
    BringsKey,      \* CRs whose spec names a Secret of the user
    Operators,      \* operator processes at work (two during a rolling upgrade)
    None,           \* "no owner"
    MaxKeys,        \* bound: keys ever generated
    MaxFaults       \* bound: API calls that fail, restarts of an operator

Names == {NameOf[c] : c \in CRs}
Identity(c) == <<KindOf[c], NameOf[c]>>

ASSUME ConstantsOK ==
    /\ NameOf \in [CRs -> Names] /\ BringsKey \subseteq CRs /\ None \notin CRs
    /\ MaxKeys \in Nat /\ MaxFaults \in Nat

VARIABLES
    cr,         \* cr[c]: the life of CR c
    pc,         \* pc[o][c]: the next API call of o's reconcile of c
    key,        \* key[n]: what the Secret "<n>-encryption-key" holds, 0 if absent
    owner,      \* owner[n]: the CR in its ownerReferences
    deployed,   \* CRs with a Deployment
    used,       \* used[c]: keys that pods of c were started with
    minted, faults

vars == <<cr, pc, key, owner, deployed, used, minted, faults>>
secretVars == <<key, owner>>

(* State has the shape the code and the API server give it.                 *)
TypeOK ==
    /\ cr \in [CRs -> {"unborn", "alive", "deleting", "gone"}]
    /\ pc \in [Operators -> [CRs -> {"idle", "get", "create", "deploy"}]]
    /\ key \in [Names -> 0..MaxKeys]
    /\ owner \in [Names -> CRs \union {None}]
    /\ deployed \subseteq CRs
    /\ used \in [CRs -> SUBSET (0..MaxKeys)]
    /\ minted \in 0..MaxKeys /\ faults \in 0..MaxFaults

Init ==
    /\ cr = [c \in CRs |-> "unborn"]
    /\ pc = [o \in Operators |-> [c \in CRs |-> "idle"]]
    /\ key = [n \in Names |-> 0]
    /\ owner = [n \in Names |-> None]
    /\ deployed = {}
    /\ used = [c \in CRs |-> {}]
    /\ minted = 0 /\ faults = 0

Goto(o, c, step) == pc' = [pc EXCEPT ![o][c] = step]

-----------------------------------------------------------------------------
(* A reconcile; the controller runs at most one of each CR at a time.       *)

BeginApply(o, c) ==
    /\ pc[o][c] = "idle" /\ cr[c] = "alive"
    /\ Goto(o, c, IF c \in BringsKey THEN "deploy" ELSE "get")
    /\ UNCHANGED <<cr, secretVars, deployed, used, minted, faults>>

NeedsKey(c) == key[NameOf[c]] = 0

GetSecret(o, c) ==
    /\ pc[o][c] = "get"
    /\ Goto(o, c, IF NeedsKey(c) THEN "create" ELSE "deploy")
    /\ UNCHANGED <<cr, secretVars, deployed, used, minted, faults>>

Write_OwnerByName(c) == /\ minted < MaxKeys /\ minted' = minted + 1
                        /\ key' = [key EXCEPT ![NameOf[c]] = minted + 1]
                        /\ owner' = [owner EXCEPT ![NameOf[c]] = NameOf[c]]
Write_Unrandom(c) == /\ minted < MaxKeys /\ minted' = minted + 1
                     /\ key' = [key EXCEPT ![NameOf[c]] = 1]
                     /\ owner' = [owner EXCEPT ![NameOf[c]] = c]
Write(c) == /\ minted < MaxKeys /\ minted' = minted + 1
            /\ key' = [key EXCEPT ![NameOf[c]] = minted + 1]
            /\ owner' = [owner EXCEPT ![NameOf[c]] = c]

CreateSecret_Apply(o, c) ==
    /\ pc[o][c] = "create"
    /\ Write(c)
    /\ Goto(o, c, "deploy")
    /\ UNCHANGED <<cr, deployed, used, faults>>
CreateSecret_Unowned(o, c) ==
    /\ pc[o][c] = "create"
    /\ IF key[NameOf[c]] = 0
       THEN /\ minted < MaxKeys /\ minted' = minted + 1
            /\ key' = [key EXCEPT ![NameOf[c]] = minted + 1]
       ELSE UNCHANGED <<key, minted>>
    /\ Goto(o, c, "deploy")
    /\ UNCHANGED <<cr, owner, deployed, used, faults>>
CreateSecret(o, c) ==
    /\ pc[o][c] = "create"
    /\ \/ key[NameOf[c]] = 0 /\ Write(c)
       \/ key[NameOf[c]] # 0 /\ UNCHANGED <<secretVars, minted>>  \* 409: tolerated
    /\ Goto(o, c, "deploy")
    /\ UNCHANGED <<cr, deployed, used, faults>>

(* Applying a Deployment of the same name takes it over.                    *)
ApplyDeployment(o, c) ==
    /\ pc[o][c] = "deploy"
    /\ deployed' = {d \in deployed : Identity(d) # Identity(c)} \union {c}
    /\ Goto(o, c, "idle")
    /\ UNCHANGED <<cr, secretVars, used, minted, faults>>

(* The finalizer's cleanup deletes nothing, it lets the CR go.              *)
Cleanup(o, c) ==
    /\ pc[o][c] = "idle" /\ cr[c] = "deleting"
    /\ cr' = [cr EXCEPT ![c] = "gone"]
    /\ UNCHANGED <<pc, secretVars, deployed, used, minted, faults>>

Reconcile(o, c) ==
    \/ BeginApply(o, c) \/ GetSecret(o, c) \/ CreateSecret(o, c)
    \/ ApplyDeployment(o, c) \/ Cleanup(o, c)

ApiError(o, c) ==
    /\ pc[o][c] # "idle"
    /\ faults < MaxFaults /\ faults' = faults + 1
    /\ Goto(o, c, "idle")
    /\ UNCHANGED <<cr, secretVars, deployed, used, minted>>

-----------------------------------------------------------------------------
(* The cluster: pods start (again), the garbage collector removes what      *)
(* belongs to a CR that is gone.                                            *)

StartPod(c) ==
    /\ c \in deployed \ BringsKey
    /\ key[NameOf[c]] # 0
    /\ used' = [used EXCEPT ![c] = @ \union {key[NameOf[c]]}]
    /\ UNCHANGED <<cr, pc, secretVars, deployed, minted, faults>>

CollectSecret(n) ==
    /\ key[n] # 0 /\ owner[n] # None /\ cr[owner[n]] = "gone"
    /\ key' = [key EXCEPT ![n] = 0]
    /\ owner' = [owner EXCEPT ![n] = None]
    /\ UNCHANGED <<cr, pc, deployed, used, minted, faults>>

CollectDeployment(c) ==
    /\ c \in deployed /\ cr[c] = "gone"
    /\ deployed' = deployed \ {c}
    /\ UNCHANGED <<cr, pc, secretVars, used, minted, faults>>

(* Users.                                                                   *)

CreateCR(c) ==
    /\ cr[c] = "unborn"
    /\ \A d \in CRs \ {c} : Identity(d) = Identity(c) => cr[d] \in {"unborn", "gone"}
    /\ cr' = [cr EXCEPT ![c] = "alive"]
    /\ UNCHANGED <<pc, secretVars, deployed, used, minted, faults>>

DeleteCR(c) ==
    /\ cr[c] = "alive"
    /\ cr' = [cr EXCEPT ![c] = "deleting"]
    /\ UNCHANGED <<pc, secretVars, deployed, used, minted, faults>>

Next ==
    \/ \E o \in Operators, c \in CRs : Reconcile(o, c) \/ ApiError(o, c)
    \/ \E c \in CRs : \/ StartPod(c) \/ CollectDeployment(c)
                      \/ CreateCR(c) \/ DeleteCR(c)
    \/ \E n \in Names : CollectSecret(n)

Spec == Init /\ [][Next]_vars

-----------------------------------------------------------------------------
(* As long as an instance exists its pods have only ever seen one key,      *)
(* whatever two operators, failed calls and garbage collection did          *)
(* (encryption.rs:31-57).                                                   *)
OneKeyPerInstance ==
    \A c \in CRs : cr[c] # "gone" => \A k, l \in used[c] : k = l

(* "the Secret is owned by the Single" it was generated for                 *)
(* (single.feature:28-31, encryption.rs:40): it lives and dies with the CR  *)
(* whose pods use it.                                                       *)
KeyOwned ==
    \A c \in deployed \ BringsKey :
        cr[c] = "alive" /\ key[NameOf[c]] # 0 => owner[NameOf[c]] = c

(* The promise the whole makes: the detailed steps, two operators, 409s,    *)
(* failures and the garbage collector included, are steps of KeyPromise.    *)
(* Pods of a CR that is gone no longer count (encryption.rs:15-59).         *)
Promise == INSTANCE KeyPromise WITH
    Instances <- CRs,
    Keys  <- 1..MaxKeys,
    phase <- cr,
    held  <- [c \in CRs |-> IF cr[c] = "gone" THEN {} ELSE used[c]]

(* Every behaviour keeps the promise: one key per instance for its life,    *)
(* never another instance's (encryption.rs:31-57).                          *)
KeepsPromise == Promise!Spec
=============================================================================

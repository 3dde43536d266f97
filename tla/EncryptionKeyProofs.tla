------------------------- MODULE EncryptionKeyProofs -------------------------
(***************************************************************************)
(* One key per instance, for any number of CRs, operators, keys and        *)
(* faults, as long as no two CRs share a name.  The run key_shared of      *)
(* MCEncryptionKey shows that this assumption is needed.                   *)
(*                                                                         *)
(* OneKeyPerInstance is not inductive: that the key a pod was started with *)
(* is still the one in the Secret (UsedIsLive) keeps it, and that needs to *)
(* know whose death lets the garbage collector take a Secret               *)
(* (OwnerMatchesName).                                                     *)
(***************************************************************************)
EXTENDS EncryptionKey, TLAPS

(* No two CRs, of either kind and over time, have the same name.            *)
NamesDistinct == \A c, d \in CRs : NameOf[c] = NameOf[d] => c = d

(* A Secret that exists belongs to a CR whose name it carries.              *)
OwnerMatchesName ==
    \A n \in Names : key[n] # 0 => owner[n] \in CRs /\ NameOf[owner[n]] = n

(* Every key that pods of an existing CR were started with is in its Secret. *)
UsedIsLive ==
    \A c \in CRs : cr[c] # "gone" =>
        \A k \in used[c] : k # 0 /\ key[NameOf[c]] = k

KeyInv == TypeOK /\ OwnerMatchesName /\ UsedIsLive

(* Every step keeps the types (encryption.rs:15-59 and its callers).        *)
LEMMA TypeStep == TypeOK /\ [Next]_vars => TypeOK'
<1> SUFFICES ASSUME TypeOK, [Next]_vars PROVE TypeOK'
    OBVIOUS
<1> USE ConstantsOK DEF TypeOK
<1>1. ASSUME NEW o \in Operators, NEW c \in CRs, Reconcile(o, c) PROVE TypeOK'
  <2>0. NameOf[c] \in Names
      BY DEF Names
  <2>1. CASE BeginApply(o, c)
      BY <2>1 DEF BeginApply, Goto, secretVars
  <2>2. CASE GetSecret(o, c)
      BY <2>2 DEF GetSecret, Goto, secretVars
  <2>3. CASE CreateSecret(o, c)
    <3>1. pc' \in [Operators -> [CRs -> {"idle", "get", "create", "deploy"}]]
        BY <2>3 DEF CreateSecret, Goto
    <3>2. CASE Write(c)
        BY <3>1, <3>2, <2>3, <2>0 DEF CreateSecret, Write
    <3>3. CASE UNCHANGED <<secretVars, minted>>
        BY <3>1, <3>3, <2>3 DEF CreateSecret, secretVars
    <3>4. QED BY <3>2, <3>3, <2>3 DEF CreateSecret
  <2>4. CASE ApplyDeployment(o, c)
      BY <2>4 DEF ApplyDeployment, Goto, secretVars
  <2>5. CASE Cleanup(o, c)
      BY <2>5 DEF Cleanup, secretVars
  <2>6. QED BY <1>1, <2>1, <2>2, <2>3, <2>4, <2>5 DEF Reconcile
<1>2. ASSUME NEW o \in Operators, NEW c \in CRs, ApiError(o, c) PROVE TypeOK'
    BY <1>2 DEF ApiError, Goto, secretVars
<1>3. ASSUME NEW c \in CRs, StartPod(c) PROVE TypeOK'
  <2>1. key[NameOf[c]] \in 0..MaxKeys
      BY DEF Names
  <2>2. QED BY <1>3, <2>1 DEF StartPod, secretVars
<1>4. ASSUME NEW c \in CRs, CollectDeployment(c) PROVE TypeOK'
    BY <1>4 DEF CollectDeployment, secretVars
<1>5. ASSUME NEW c \in CRs, CreateCR(c) PROVE TypeOK'
    BY <1>5 DEF CreateCR, secretVars
<1>6. ASSUME NEW c \in CRs, DeleteCR(c) PROVE TypeOK'
    BY <1>6 DEF DeleteCR, secretVars
<1>7. ASSUME NEW n \in Names, CollectSecret(n) PROVE TypeOK'
    BY <1>7 DEF CollectSecret
<1>8. CASE UNCHANGED vars
    BY <1>8 DEF vars
<1>9. QED BY <1>1, <1>2, <1>3, <1>4, <1>5, <1>6, <1>7, <1>8 DEF Next

(* A Secret is written only where there is none, and taken away only when   *)
(* the CR whose name it carries is gone.                                    *)
LEMMA SecretStep ==
    ASSUME KeyInv, Next, NamesDistinct,
           NEW d \in CRs, key[NameOf[d]] # 0, cr[d] # "gone"
    PROVE  key'[NameOf[d]] = key[NameOf[d]]
<1>0. NameOf[d] \in Names
    BY DEF Names
<1>1. ASSUME NEW n \in Names, CollectSecret(n) PROVE key'[NameOf[d]] = key[NameOf[d]]
  <2>1. n # NameOf[d]
      BY <1>0, <1>1 DEF CollectSecret, KeyInv, OwnerMatchesName, NamesDistinct
  <2>2. QED BY <1>0, <1>1, <2>1 DEF CollectSecret, KeyInv, TypeOK
<1>2. ASSUME NEW o \in Operators, NEW c \in CRs, Reconcile(o, c)
      PROVE  key'[NameOf[d]] = key[NameOf[d]]
  <2>1. CASE CreateSecret(o, c)
    <3>0. key \in [Names -> 0..MaxKeys] /\ NameOf[c] \in Names
        BY DEF KeyInv, TypeOK, Names
    <3>1. CASE key[NameOf[c]] = 0
      <4>1. NameOf[c] # NameOf[d]
          BY <3>1
      <4>2. key' = [key EXCEPT ![NameOf[c]] = minted + 1]
          BY <2>1, <3>1 DEF CreateSecret, Write
      <4>3. QED BY <1>0, <3>0, <4>1, <4>2
    <3>2. CASE key[NameOf[c]] # 0
        BY <2>1, <3>2 DEF CreateSecret, secretVars
    <3>3. QED BY <3>1, <3>2
  <2>2. CASE ~ CreateSecret(o, c)
      BY <1>2, <2>2 DEF Reconcile, BeginApply, GetSecret, ApplyDeployment, Cleanup, secretVars
  <2>3. QED BY <2>1, <2>2
<1>3. CASE \/ \E o \in Operators, c \in CRs : ApiError(o, c)
           \/ \E c \in CRs : StartPod(c) \/ CollectDeployment(c) \/ CreateCR(c) \/ DeleteCR(c)
    BY <1>3 DEF ApiError, StartPod, CollectDeployment, CreateCR, DeleteCR, secretVars
<1>4. QED BY <1>1, <1>2, <1>3 DEF Next

(* Each step keeps every Secret under the name of its owner.                *)
LEMMA OwnerStep == KeyInv /\ [Next]_vars => OwnerMatchesName'
<1> SUFFICES ASSUME KeyInv, [Next]_vars,
                    NEW n \in Names, key'[n] # 0
             PROVE  owner'[n] \in CRs /\ NameOf[owner'[n]] = n
    BY DEF OwnerMatchesName
<1> USE DEF KeyInv, TypeOK
<1>1. CASE UNCHANGED secretVars
    BY <1>1 DEF secretVars, OwnerMatchesName
<1>2. ASSUME NEW o \in Operators, NEW c \in CRs, CreateSecret(o, c), Write(c)
      PROVE  owner'[n] \in CRs /\ NameOf[owner'[n]] = n
  <2>1. NameOf[c] \in Names
      BY DEF Names
  <2>2. CASE n = NameOf[c]
      BY <1>2, <2>1, <2>2 DEF Write
  <2>3. CASE n # NameOf[c]
      BY <1>2, <2>1, <2>3 DEF Write, OwnerMatchesName
  <2>4. QED BY <2>2, <2>3
<1>3. ASSUME NEW m \in Names, CollectSecret(m)
      PROVE  owner'[n] \in CRs /\ NameOf[owner'[n]] = n
  <2>1. n # m
      BY <1>3 DEF CollectSecret
  <2>2. QED BY <1>3, <2>1 DEF CollectSecret, OwnerMatchesName
<1>4. [Next]_vars => \/ UNCHANGED secretVars
                     \/ \E o \in Operators, c \in CRs : CreateSecret(o, c) /\ Write(c)
                     \/ \E m \in Names : CollectSecret(m)
    BY DEF Next, Reconcile, BeginApply, GetSecret, CreateSecret, ApplyDeployment, Cleanup,
           ApiError, StartPod, CollectDeployment, CreateCR, DeleteCR, secretVars, vars
<1>5. QED BY <1>1, <1>2, <1>3, <1>4

(* No CR comes back from the dead.                                          *)
LEMMA GoneStep ==
    ASSUME TypeOK, Next, NEW d \in CRs, cr'[d] # "gone"
    PROVE  cr[d] # "gone"
<1> USE DEF TypeOK
<1>1. ASSUME NEW o \in Operators, NEW c \in CRs, Cleanup(o, c) PROVE cr[d] # "gone"
    BY <1>1 DEF Cleanup
<1>2. ASSUME NEW c \in CRs, CreateCR(c) \/ DeleteCR(c) PROVE cr[d] # "gone"
    BY <1>2 DEF CreateCR, DeleteCR
<1>3. \/ cr' = cr
      \/ \E o \in Operators, c \in CRs : Cleanup(o, c)
      \/ \E c \in CRs : CreateCR(c) \/ DeleteCR(c)
    BY DEF Next, Reconcile, BeginApply, GetSecret, CreateSecret, ApplyDeployment,
           ApiError, StartPod, CollectDeployment, CollectSecret
<1>4. QED BY <1>1, <1>2, <1>3

(* A pod that starts sees the key of the pods before it.                    *)
LEMMA UsedStep ==
    ASSUME KeyInv, [Next]_vars, NamesDistinct PROVE UsedIsLive'
<1>1. CASE UNCHANGED vars
    BY <1>1 DEF vars, KeyInv, UsedIsLive
<1>2. CASE Next
  <2> SUFFICES ASSUME NEW d \in CRs, cr'[d] # "gone", NEW k \in used'[d]
               PROVE  k # 0 /\ key'[NameOf[d]] = k
      BY DEF UsedIsLive
  <2>1. cr[d] # "gone"
      BY <1>2, GoneStep DEF KeyInv
  <2>2. k # 0 /\ key[NameOf[d]] = k
    <3>1. CASE used' = used
        BY <2>1, <3>1 DEF KeyInv, UsedIsLive
    <3>2. ASSUME NEW c \in CRs, StartPod(c) PROVE k # 0 /\ key[NameOf[d]] = k
      <4>1. used' = [used EXCEPT ![c] = @ \union {key[NameOf[c]]}] /\ key[NameOf[c]] # 0
          BY <3>2 DEF StartPod
      <4>2. k \in used[d] \/ (d = c /\ k = key[NameOf[c]])
          BY <4>1 DEF KeyInv, TypeOK
      <4>3. QED BY <2>1, <4>1, <4>2 DEF KeyInv, UsedIsLive
    <3>3. used' = used \/ \E c \in CRs : StartPod(c)
        BY <1>2 DEF Next, Reconcile, BeginApply, GetSecret, CreateSecret, ApplyDeployment,
                    Cleanup, ApiError, CollectSecret, CollectDeployment, CreateCR, DeleteCR
    <3>4. QED BY <3>1, <3>2, <3>3
  <2>3. key'[NameOf[d]] = key[NameOf[d]]
      BY <1>2, <2>1, <2>2, SecretStep
  <2>4. QED BY <2>2, <2>3
<1>3. QED BY <1>1, <1>2

(* The types hold in every reachable state.                                 *)
THEOREM TypeCorrect == Spec => []TypeOK
<1>1. Init => TypeOK
    BY ConstantsOK DEF Init, TypeOK
<1>2. QED BY <1>1, TypeStep, PTL DEF Spec

(* The invariant holds in every reachable state.                            *)
LEMMA KeyInvariant == ASSUME NamesDistinct PROVE Spec => []KeyInv
<1>1. Init => KeyInv
    BY ConstantsOK DEF Init, KeyInv, TypeOK, OwnerMatchesName, UsedIsLive
<1>2. KeyInv /\ [Next]_vars => KeyInv'
    BY TypeStep, OwnerStep, UsedStep, NamesDistinct DEF KeyInv
<1>3. QED BY <1>1, <1>2, PTL DEF Spec

(* The pods of an existing instance have only ever seen one key, whatever   *)
(* operators, faults and garbage collection do (encryption.rs:31-57), if    *)
(* no two CRs share a name.                                                 *)
THEOREM InstancesKeepTheirKey ==
    ASSUME NamesDistinct PROVE Spec => []OneKeyPerInstance
<1>1. KeyInv => OneKeyPerInstance
    BY DEF KeyInv, UsedIsLive, OneKeyPerInstance
<1>2. QED BY <1>1, KeyInvariant, NamesDistinct, PTL

(* A generated Secret is owned by the CR it was generated for               *)
(* (encryption.rs:40), under the same assumption.                           *)
THEOREM KeysAreOwned ==
    ASSUME NamesDistinct PROVE Spec => []KeyOwned
<1>1. KeyInv => KeyOwned
  <2> SUFFICES ASSUME KeyInv, NEW c \in deployed \ BringsKey,
                      cr[c] = "alive", key[NameOf[c]] # 0
               PROVE  owner[NameOf[c]] = c
      BY DEF KeyOwned
  <2>1. c \in CRs /\ NameOf[c] \in Names
      BY DEF KeyInv, TypeOK, Names
  <2>2. owner[NameOf[c]] \in CRs /\ NameOf[owner[NameOf[c]]] = NameOf[c]
      BY <2>1 DEF KeyInv, OwnerMatchesName
  <2>3. QED BY <2>1, <2>2, NamesDistinct DEF NamesDistinct
<1>2. QED BY <1>1, KeyInvariant, NamesDistinct, PTL

-----------------------------------------------------------------------------
(* The implementation of KeyPromise.  Two Secrets never hold the same key,  *)
(* and only CRs that were created are reconciled.                           *)
KeysDiffer ==
    /\ \A n \in Names : key[n] <= minted
    /\ \A n, m \in Names : n # m /\ key[n] # 0 => key[n] # key[m]

OnlyBorn ==
    /\ \A c \in deployed : cr[c] # "unborn"
    /\ \A o \in Operators, c \in CRs : pc[o][c] # "idle" => cr[c] # "unborn"

PromiseInv == KeyInv /\ KeysDiffer /\ OnlyBorn

(* A generated key is new (encryption.rs:32-33).                            *)
LEMMA DifferStep == KeyInv /\ KeysDiffer /\ [Next]_vars => KeysDiffer'
<1> SUFFICES ASSUME KeyInv, KeysDiffer, [Next]_vars PROVE KeysDiffer'
    OBVIOUS
<1>0. minted \in Nat /\ MaxKeys \in Nat /\ key \in [Names -> 0..MaxKeys]
    BY ConstantsOK DEF KeyInv, TypeOK
<1>1. CASE UNCHANGED <<key, minted>>
    BY <1>1 DEF KeysDiffer
<1>2. ASSUME NEW c \in CRs, Write(c) PROVE KeysDiffer'
  <2>1. NameOf[c] \in Names
      BY DEF Names
  <2>2. /\ minted' = minted + 1
        /\ \A n \in Names : key'[n] = IF n = NameOf[c] THEN minted + 1 ELSE key[n]
      BY <1>0, <1>2, <2>1 DEF Write
  <2>3. \A n \in Names : key[n] \in Nat /\ key[n] <= minted
      BY <1>0 DEF KeysDiffer
  <2>4. \A n \in Names : key'[n] <= minted'
      BY <1>0, <2>2, <2>3
  <2>5. ASSUME NEW n \in Names, NEW m \in Names, n # m, key'[n] # 0
        PROVE  key'[n] # key'[m]
      BY <1>0, <2>2, <2>3, <2>5 DEF KeysDiffer
  <2>6. QED BY <2>4, <2>5 DEF KeysDiffer
<1>3. ASSUME NEW n \in Names, CollectSecret(n), UNCHANGED minted PROVE KeysDiffer'
  <2>1. \A m \in Names : key'[m] = IF m = n THEN 0 ELSE key[m]
      BY <1>0, <1>3 DEF CollectSecret
  <2>2. QED BY <1>0, <1>3, <2>1 DEF KeysDiffer
<1>4. [Next]_vars => \/ UNCHANGED <<key, minted>>
                     \/ \E c \in CRs : Write(c)
                     \/ \E n \in Names : CollectSecret(n) /\ UNCHANGED minted
    BY DEF Next, Reconcile, BeginApply, GetSecret, CreateSecret, ApplyDeployment, Cleanup,
           ApiError, StartPod, CollectDeployment, CollectSecret, CreateCR, DeleteCR,
           secretVars, vars
<1>5. QED BY <1>1, <1>2, <1>3, <1>4

(* A CR is reconciled and deployed only once it exists.                     *)
LEMMA BornStep == TypeOK /\ OnlyBorn /\ [Next]_vars => OnlyBorn'
<1> SUFFICES ASSUME TypeOK, OnlyBorn, [Next]_vars PROVE OnlyBorn'
    OBVIOUS
<1> USE DEF TypeOK, OnlyBorn
<1>1. ASSUME NEW o \in Operators, NEW c \in CRs, Reconcile(o, c) PROVE OnlyBorn'
  <2>1. CASE BeginApply(o, c)
      BY <2>1 DEF BeginApply, Goto
  <2>2. CASE GetSecret(o, c)
      BY <2>2 DEF GetSecret, Goto
  <2>3. CASE CreateSecret(o, c)
      BY <2>3 DEF CreateSecret, Goto
  <2>4. CASE ApplyDeployment(o, c)
      BY <2>4 DEF ApplyDeployment, Goto
  <2>5. CASE Cleanup(o, c)
      BY <2>5 DEF Cleanup
  <2>6. QED BY <1>1, <2>1, <2>2, <2>3, <2>4, <2>5 DEF Reconcile
<1>2. ASSUME NEW o \in Operators, NEW c \in CRs, ApiError(o, c) PROVE OnlyBorn'
    BY <1>2 DEF ApiError, Goto
<1>3. ASSUME NEW c \in CRs, CreateCR(c) \/ DeleteCR(c) PROVE OnlyBorn'
    BY <1>3 DEF CreateCR, DeleteCR
<1>4. ASSUME NEW c \in CRs, CollectDeployment(c) PROVE OnlyBorn'
    BY <1>4 DEF CollectDeployment
<1>5. CASE UNCHANGED <<cr, pc, deployed>>
    BY <1>5
<1>6. QED
    BY <1>1, <1>2, <1>3, <1>4, <1>5 DEF Next, StartPod, CollectSecret, vars

(* The keys an instance holds, as KeyPromise sees them.                     *)
HeldBy == [c \in CRs |-> IF cr[c] = "gone" THEN {} ELSE used[c]]

(* A pod that starts is KeyPromise's Run, or runs for a CR that is gone.    *)
LEMMA StartRuns ==
    ASSUME PromiseInv, NamesDistinct, NEW c \in CRs, StartPod(c)
    PROVE  [Promise!Next]_<<cr, HeldBy>>
<1>a. key[NameOf[c]] \in 1..MaxKeys
    BY ConstantsOK DEF StartPod, Names, PromiseInv, KeyInv, TypeOK
<1>b. PICK k \in 1..MaxKeys : k = key[NameOf[c]]
    BY <1>a
<1>0. c \in deployed /\ k # 0 /\ cr' = cr /\ NameOf[c] \in Names
    BY <1>b DEF StartPod, Names
<1>1. used' = [used EXCEPT ![c] = @ \union {k}] /\ used \in [CRs -> SUBSET (0..MaxKeys)]
    BY <1>b DEF StartPod, PromiseInv, KeyInv, TypeOK
<1>2. CASE cr[c] = "gone"
    BY <1>0, <1>1, <1>2 DEF HeldBy
<1>3. CASE cr[c] # "gone"
  <2>1. cr[c] \in {"alive", "deleting"}
      BY <1>0, <1>3 DEF PromiseInv, KeyInv, TypeOK, OnlyBorn
  <2>3. used[c] \subseteq {k}
      BY <1>b, <1>3 DEF PromiseInv, KeyInv, UsedIsLive
  <2>4. ASSUME NEW d \in CRs \ {c} PROVE k \notin HeldBy[d]
    <3>1. NameOf[d] # NameOf[c] /\ NameOf[d] \in Names
        BY DEF NamesDistinct, Names
    <3>2. k # key[NameOf[d]]
        BY <1>b, <1>0, <3>1 DEF PromiseInv, KeysDiffer
    <3>3. QED BY <3>2 DEF HeldBy, PromiseInv, KeyInv, UsedIsLive
  <2>5. HeldBy' = [HeldBy EXCEPT ![c] = {k}]
    <3>1. \A d \in CRs : HeldBy'[d] = IF d = c THEN {k} ELSE HeldBy[d]
        BY <1>0, <1>1, <1>3, <2>3 DEF HeldBy
    <3>2. QED BY <3>1 DEF HeldBy
  <2>6. Promise!Run(c, k)
      BY <1>0, <1>3, <2>1, <2>3, <2>4, <2>5 DEF Promise!Run, HeldBy
  <2>7. QED BY <2>6 DEF Promise!Next
<1>4. QED BY <1>2, <1>3

(* Every other step is a step in the life of one CR or invisible.           *)
LEMMA LifeSteps ==
    ASSUME TypeOK, [Next]_vars, used' = used
    PROVE  [Promise!Next]_<<cr, HeldBy>>
<1> USE DEF TypeOK
<1>1. ASSUME NEW o \in Operators, NEW c \in CRs, Cleanup(o, c)
      PROVE  Promise!End(c)
  <2>1. cr[c] = "deleting" /\ cr' = [cr EXCEPT ![c] = "gone"]
      BY <1>1 DEF Cleanup
  <2>2. \A d \in CRs : HeldBy'[d] = IF d = c THEN {} ELSE HeldBy[d]
      BY <2>1 DEF HeldBy
  <2>3. HeldBy' = [HeldBy EXCEPT ![c] = {}]
      BY <2>2 DEF HeldBy
  <2>4. QED BY <2>1, <2>3 DEF Promise!End, HeldBy
<1>2. ASSUME NEW c \in CRs, CreateCR(c) PROVE Promise!Create(c)
  <2>1. cr[c] = "unborn" /\ cr' = [cr EXCEPT ![c] = "alive"]
      BY <1>2 DEF CreateCR
  <2>2. HeldBy' = HeldBy
      BY <2>1 DEF HeldBy
  <2>3. QED BY <2>1, <2>2 DEF Promise!Create, HeldBy
<1>3. ASSUME NEW c \in CRs, DeleteCR(c) PROVE Promise!Delete(c)
  <2>1. cr[c] = "alive" /\ cr' = [cr EXCEPT ![c] = "deleting"]
      BY <1>3 DEF DeleteCR
  <2>2. HeldBy' = HeldBy
      BY <2>1 DEF HeldBy
  <2>3. QED BY <2>1, <2>2 DEF Promise!Delete, HeldBy
<1>4. CASE cr' = cr
    BY <1>4 DEF HeldBy
<1>5. \/ cr' = cr
      \/ \E o \in Operators, c \in CRs : Cleanup(o, c)
      \/ \E c \in CRs : CreateCR(c) \/ DeleteCR(c)
    BY DEF Next, Reconcile, BeginApply, GetSecret, CreateSecret, ApplyDeployment,
           ApiError, StartPod, CollectDeployment, CollectSecret, vars
<1>6. QED BY <1>1, <1>2, <1>3, <1>4, <1>5 DEF Promise!Next

(* The generated keys implement KeyPromise: every step of the reconciles,   *)
(* of two operators and of the cluster is one of the promise's, or none.    *)
THEOREM ReconcileKeepsPromise ==
    ASSUME NamesDistinct PROVE Spec => KeepsPromise
<1>1. Init => PromiseInv
    BY ConstantsOK
    DEF Init, PromiseInv, KeyInv, TypeOK, OwnerMatchesName, UsedIsLive, KeysDiffer, OnlyBorn
<1>2. PromiseInv /\ [Next]_vars => PromiseInv'
    BY TypeStep, OwnerStep, UsedStep, DifferStep, BornStep, NamesDistinct
    DEF PromiseInv, KeyInv
<1>3. Init => Promise!Init
    BY DEF Init, Promise!Init
<1>4. PromiseInv /\ [Next]_vars => [Promise!Next]_(Promise!vars)
  <2> SUFFICES ASSUME PromiseInv, [Next]_vars PROVE [Promise!Next]_(Promise!vars)
      OBVIOUS
  <2>1. CASE used' = used
      BY <2>1, LifeSteps DEF PromiseInv, KeyInv, Promise!vars, HeldBy
  <2>2. ASSUME NEW c \in CRs, StartPod(c) PROVE [Promise!Next]_(Promise!vars)
      BY <2>2, StartRuns, NamesDistinct DEF Promise!vars, HeldBy
  <2>3. used' = used \/ \E c \in CRs : StartPod(c)
      BY DEF Next, Reconcile, BeginApply, GetSecret, CreateSecret, ApplyDeployment,
             Cleanup, ApiError, CollectSecret, CollectDeployment, CreateCR, DeleteCR, vars
  <2>4. QED BY <2>1, <2>2, <2>3
<1>5. QED BY <1>1, <1>2, <1>3, <1>4, PTL DEF Spec, KeepsPromise, Promise!Spec
=============================================================================

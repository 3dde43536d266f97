--------------------------- MODULE InstanceAiProofs ---------------------------
(***************************************************************************)
(* The revision protocol of the instance-ai Secret, for any number of      *)
(* Assistants and targets (shared targets included), keys and faults.      *)
(*                                                                         *)
(* StampMeansContent is inductive once TypeOK is known: a write takes a    *)
(* revision no stamp carries (NewRevisionFresh).  NeverWithoutKey is not:  *)
(* the pods copy the Secret, and the Secret the reconcile that wrote it    *)
(* (KeyInHand).                                                            *)
(***************************************************************************)
EXTENDS InstanceAi, TLAPS

(* A reconcile past the read of a key its spec names holds that key, and a  *)
(* Secret holds the keys the spec behind it named.                          *)
ReadSoFar(l) ==
    /\ l.pc \in {"brave", "write"} /\ "model" \in l.spec.asks => l.model # 0
    /\ l.pc = "write" /\ "brave" \in l.spec.asks => l.brave # 0

KeyInHand ==
    /\ \A a \in Assistants : ReadSoFar(at[a])
    /\ \A t \in Targets : HoldsItsKeys(secret[t].data)

AiInv == TypeOK /\ StampMeansContent /\ KeyInHand /\ NeverWithoutKey

(* The resourceVersion of a write is carried by no stamp that is left.      *)
LEMMA NewRevisionFresh ==
    ASSUME TypeOK, NEW t \in Targets
    PROVE  NewRevision(t) \in Revisions /\ NewRevision(t) \notin Seen(t)
<1>1. /\ secret[t].revision \in Revisions \union {NoRevision, Undeployed}
      /\ inst[t].seen \in Revisions \union {NoRevision, Undeployed}
      /\ template[t] \in Revisions \union {NoRevision, Undeployed}
      /\ pod[t].stamp \in Revisions \union {NoRevision, Undeployed}
    BY DEF TypeOK, Stamps
<1>2. \E r \in Revisions : r \notin Seen(t)
    BY <1>1, ConstantsOK DEF Seen
<1>3. QED BY <1>2 DEF NewRevision

(* What a write puts into the Secret is well formed.                        *)
LEMMA SecretDataContents ==
    ASSUME TypeOK, NEW a \in Assistants
    PROVE  SecretData(a) \in Contents
BY DEF TypeOK, SecretData, Contents, Specs, Asks

(* A reconcile that ends leaves its locals as they were.                    *)
LEMMA Ended ==
    ASSUME TypeOK, NEW a \in Assistants
    PROVE  [at EXCEPT ![a].pc = "idle"]
               \in [Assistants -> [pc : {"idle", "model", "brave", "write"}, spec : Specs,
                                   model : 0..MaxKeys, brave : 0..MaxKeys]]
BY DEF TypeOK

(* Every step keeps the types (assistant_apply.rs:145-189,                  *)
(* single_children.rs:16-51 and their surroundings).                        *)
LEMMA TypeStep == TypeOK /\ [Next]_vars => TypeOK'
<1> SUFFICES ASSUME TypeOK, [Next]_vars PROVE TypeOK'
    OBVIOUS
<1>0. /\ MaxEdits \in Nat /\ MaxKeys \in Nat /\ MaxFaults \in Nat
      /\ Nobody \notin Assistants
    BY ConstantsOK
<1> USE <1>0 DEF TypeOK, userVars, instanceVars
<1>1. ASSUME NEW a \in Assistants, AssistantStep(a) PROVE TypeOK'
  <2>1. CASE BeginAssistant(a)
      BY <2>1 DEF BeginAssistant
  <2>2. CASE ReadModelKey(a)
      BY <2>2 DEF ReadModelKey, KeyFor
  <2>3. CASE ReadBraveKey(a)
      BY <2>3 DEF ReadBraveKey, KeyFor
  <2>4. CASE WriteTarget(a)
    <3>1. at[a].spec.target \in Targets
        BY DEF Specs
    <3>2. NewRevision(at[a].spec.target) \in Stamps
        BY <3>1, NewRevisionFresh DEF Stamps
    <3>3. SecretData(a) \in Contents
        BY SecretDataContents
    <3>4. secret' \in [Targets -> [revision : Stamps, data : Contents,
                                   owner : Assistants \union {Nobody}]]
        BY <2>4, <3>1, <3>2, <3>3 DEF WriteTarget
    <3>5. at' = [at EXCEPT ![a].pc = "idle"]
        BY <2>4 DEF WriteTarget
    <3>6. at' \in [Assistants -> [pc : {"idle", "model", "brave", "write"}, spec : Specs,
                                  model : 0..MaxKeys, brave : 0..MaxKeys]]
        BY <3>5, Ended
    <3>7. QED BY <2>4, <3>4, <3>6 DEF WriteTarget
  <2>5. CASE Cleanup(a)
      BY <2>5 DEF Cleanup
  <2>6. QED BY <1>1, <2>1, <2>2, <2>3, <2>4, <2>5 DEF AssistantStep
<1>2. ASSUME NEW a \in Assistants,
             CreateAssistant(a) \/ DeleteAssistant(a) \/ \E s \in Specs : EditAssistant(a, s)
      PROVE  TypeOK'
  <2>1. CASE CreateAssistant(a) \/ DeleteAssistant(a)
      BY <2>1 DEF CreateAssistant, DeleteAssistant
  <2>2. ASSUME NEW s \in Specs, EditAssistant(a, s) PROVE TypeOK'
    <3>1. edits' \in 0..MaxEdits /\ spec' \in [Assistants -> Specs]
        BY <2>2 DEF EditAssistant
    <3>2. QED BY <2>2, <3>1 DEF EditAssistant
  <2>3. QED BY <1>2, <2>1, <2>2
<1>3. ASSUME NEW t \in Targets, InstanceStep(t) PROVE TypeOK'
    BY <1>3 DEF InstanceStep, ReadRevision, PatchDeployment, Stamps
<1>4. ASSUME NEW t \in Targets, RollOut(t) \/ RestartContainer(t) PROVE TypeOK'
    BY <1>4 DEF RollOut, RestartContainer
<1>5. ASSUME NEW t \in Targets, CollectTarget(t) PROVE TypeOK'
    BY <1>5 DEF CollectTarget, Absent, Empty, Contents, Stamps
<1>6. CASE PutUserKey \/ DropUserKey
    BY <1>6 DEF PutUserKey, DropUserKey
<1>7. CASE Fault
  <2>1. faults' \in 0..MaxFaults
      BY <1>7 DEF Fault
  <2>2. ASSUME NEW a \in Assistants, at' = [at EXCEPT ![a].pc = "idle"], UNCHANGED inst
        PROVE  TypeOK'
    <3>1. at' \in [Assistants -> [pc : {"idle", "model", "brave", "write"}, spec : Specs,
                                  model : 0..MaxKeys, brave : 0..MaxKeys]]
        BY <2>2, Ended
    <3>2. QED BY <1>7, <2>1, <2>2, <3>1 DEF Fault
  <2>3. ASSUME NEW t \in Targets, inst' = [inst EXCEPT ![t].pc = "idle"], UNCHANGED at
        PROVE  TypeOK'
    <3>1. inst' \in [Targets -> [pc : {"idle", "patch"}, seen : Stamps]]
        BY <2>3
    <3>2. QED BY <1>7, <2>1, <2>3, <3>1 DEF Fault
  <2>4. QED BY <1>7, <2>2, <2>3 DEF Fault
<1>8. CASE UNCHANGED vars
    BY <1>8 DEF vars
<1>9. QED BY <1>1, <1>2, <1>3, <1>4, <1>5, <1>6, <1>7, <1>8 DEF Next

(* A pod's steps copy its Secret into its own environment.                  *)
LEMMA PodSteps ==
  ASSUME TypeOK, NEW t \in Targets, RollOut(t) \/ RestartContainer(t)
  PROVE  /\ UNCHANGED <<at, secret>>
         /\ pod'[t].env = secret[t].data
         /\ \A u \in Targets : u # t => pod'[u] = pod[u]
<1>1. CASE RollOut(t)
    BY <1>1 DEF RollOut, TypeOK
<1>2. CASE RestartContainer(t)
  <2>1. UNCHANGED <<at, secret>> /\ pod' = [pod EXCEPT ![t].env = secret[t].data]
      BY <1>2 DEF RestartContainer
  <2>2. pod \in [Targets -> [stamp : Stamps \union {Undeployed}, env : Contents]]
      BY DEF TypeOK
  <2>3. QED BY <2>1, <2>2
<1>3. QED BY <1>1, <1>2

(* A stamp that names the Secret's current revision means its content: a    *)
(* write leaves every stamp behind, a pod takes both at once.               *)
LEMMA StampStep == TypeOK /\ StampMeansContent /\ [Next]_vars => StampMeansContent'
<1> SUFFICES ASSUME TypeOK, StampMeansContent, [Next]_vars PROVE StampMeansContent'
    OBVIOUS
<1> USE DEF StampMeansContent, userVars, instanceVars
<1>1. ASSUME NEW a \in Assistants, WriteTarget(a) PROVE StampMeansContent'
  <2> DEFINE t == at[a].spec.target
  <2>1. t \in Targets
      BY DEF TypeOK, Specs
  <2>2. pod[t].stamp # NewRevision(t)
      BY <2>1, NewRevisionFresh DEF Seen
  <2>3. SUFFICES ASSUME NEW u \in Targets,
                        secret'[u].revision # NoRevision,
                        pod'[u].stamp = secret'[u].revision
                 PROVE  pod'[u].env = secret'[u].data
      OBVIOUS
  <2>4. pod' = pod
      BY <1>1 DEF WriteTarget
  <2>5. CASE secret'[u] = secret[u]
      BY <2>3, <2>4, <2>5
  <2>6. CASE u = t /\ secret'[t].revision = NewRevision(t)
      BY <2>2, <2>3, <2>4, <2>6
  <2>7. QED BY <1>1, <2>1, <2>5, <2>6 DEF WriteTarget, TypeOK
<1>2. ASSUME NEW t \in Targets, RollOut(t) \/ RestartContainer(t) PROVE StampMeansContent'
    BY <1>2, PodSteps
<1>3. ASSUME NEW t \in Targets, CollectTarget(t) PROVE StampMeansContent'
    BY <1>3 DEF CollectTarget, Absent, TypeOK
<1>4. CASE UNCHANGED <<secret, pod>>
    BY <1>4
<1>5. QED
    BY <1>1, <1>2, <1>3, <1>4
    DEF Next, vars, AssistantStep, BeginAssistant, ReadModelKey, ReadBraveKey, Cleanup,
        CreateAssistant, DeleteAssistant, EditAssistant, InstanceStep, ReadRevision,
        PatchDeployment, PutUserKey, DropUserKey, Fault

(* The keys a reconcile holds reach the Secret and from there the pods.     *)
LEMMA KeyStep ==
    TypeOK /\ KeyInHand /\ NeverWithoutKey /\ [Next]_vars => KeyInHand' /\ NeverWithoutKey'
<1> SUFFICES ASSUME TypeOK, KeyInHand, NeverWithoutKey, [Next]_vars
             PROVE  KeyInHand' /\ NeverWithoutKey'
    OBVIOUS
<1> USE DEF KeyInHand, NeverWithoutKey, userVars, instanceVars
<1>1. ASSUME NEW a \in Assistants,
             BeginAssistant(a) \/ ReadModelKey(a) \/ ReadBraveKey(a)
      PROVE  KeyInHand' /\ NeverWithoutKey'
  <2>1. \A b \in Assistants : b # a => at'[b] = at[b]
      BY <1>1 DEF BeginAssistant, ReadModelKey, ReadBraveKey, TypeOK
  <2>2. CASE BeginAssistant(a)
      BY <2>1, <2>2 DEF BeginAssistant, ReadSoFar, TypeOK
  <2>3. CASE ReadModelKey(a)
      BY <2>1, <2>3 DEF ReadModelKey, ReadSoFar, KeyFor, MissingKey, Asks, TypeOK
  <2>4. CASE ReadBraveKey(a)
      BY <2>1, <2>4 DEF ReadBraveKey, ReadSoFar, KeyFor, MissingKey, Asks, TypeOK
  <2>5. QED BY <1>1, <2>2, <2>3, <2>4
<1>2. ASSUME NEW a \in Assistants, WriteTarget(a) PROVE KeyInHand' /\ NeverWithoutKey'
  <2>1. at[a].spec.target \in Targets
      BY DEF TypeOK, Specs
  <2>2. HoldsItsKeys(SecretData(a))
      BY <1>2 DEF WriteTarget, ReadSoFar, HoldsItsKeys, SecretData, Asks
  <2>3. \A t \in Targets : HoldsItsKeys(secret'[t].data)
      BY <1>2, <2>1, <2>2 DEF WriteTarget, TypeOK
  <2>4. \A b \in Assistants : ReadSoFar(at'[b])
      BY <1>2 DEF WriteTarget, ReadSoFar, TypeOK
  <2>5. QED BY <1>2, <2>3, <2>4 DEF WriteTarget
<1>3. ASSUME NEW t \in Targets, RollOut(t) \/ RestartContainer(t)
      PROVE  KeyInHand' /\ NeverWithoutKey'
    BY <1>3, PodSteps
<1>4. ASSUME NEW t \in Targets, CollectTarget(t) PROVE KeyInHand' /\ NeverWithoutKey'
    BY <1>4 DEF CollectTarget, Absent, Empty, HoldsItsKeys, TypeOK
<1>5. CASE Fault
    BY <1>5 DEF Fault, ReadSoFar, TypeOK
<1>6. CASE UNCHANGED <<at, secret, pod>>
    BY <1>6
<1>7. QED
    BY <1>1, <1>2, <1>3, <1>4, <1>5, <1>6
    DEF Next, vars, AssistantStep, Cleanup, CreateAssistant, DeleteAssistant,
        EditAssistant, InstanceStep, ReadRevision, PatchDeployment, PutUserKey, DropUserKey

(* Initially nothing is deployed and no Secret exists.                      *)
LEMMA InitInv == Init => AiInv
BY ConstantsOK
DEF Init, AiInv, TypeOK, StampMeansContent, KeyInHand, NeverWithoutKey, ReadSoFar,
    HoldsItsKeys, Absent, Empty, Contents, Stamps, Specs

(* AiInv is an invariant of every behaviour.                                *)
THEOREM AiInvariant == Spec => []AiInv
<1>1. AiInv /\ [Next]_vars => AiInv'
    BY TypeStep, StampStep, KeyStep DEF AiInv
<1>2. QED BY InitInv, <1>1, PTL DEF Spec

(* The state always has the shape TypeOK gives it.                          *)
THEOREM TypeCorrect == Spec => []TypeOK
<1>1. AiInv => TypeOK
    BY DEF AiInv
<1>2. QED BY AiInvariant, <1>1, PTL

(* An up-to-date stamp means up-to-date content, for every interleaving of  *)
(* any number of writers, instances and restarts.                           *)
THEOREM StampIsContent == Spec => []StampMeansContent
<1>1. AiInv => StampMeansContent
    BY DEF AiInv
<1>2. QED BY AiInvariant, <1>1, PTL

(* No pod runs the module without a key the spec behind its content named.  *)
THEOREM KeyWithModule == Spec => []NeverWithoutKey
<1>1. AiInv => NeverWithoutKey
    BY DEF AiInv
<1>2. QED BY AiInvariant, <1>1, PTL
=============================================================================

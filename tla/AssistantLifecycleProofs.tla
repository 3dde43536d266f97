---------------------- MODULE AssistantLifecycleProofs ----------------------
(***************************************************************************)
(* Proofs about the life of an Assistant, for any namespaces and any       *)
(* number of failures, edits, rotations and lagging watch events.          *)
(***************************************************************************)
EXTENDS AssistantLifecycle, SequenceTheorems, TLAPS

(* Every call has a successor, and the steps that write an object are named *)
(* after an object.                                                         *)
LEMMA ThenType == \A s \in DOMAIN Then : Then[s] \in Steps
  BY DEF Then, Steps

LEMMA ObjectNames == /\ Written \subseteq Objects /\ Written \subseteq DOMAIN Then
                     /\ Purges \subseteq DOMAIN Then
                     /\ {"job", "tls", "target", "keys"} \subseteq Objects
                     /\ {"namespace", "job", "target", "event", "deletedEvent"}
                           \subseteq DOMAIN Then
<1>1. Objects = {"apiDeployment", "runnerDeployment", "apiService", "runnerService",
                 "job", "keys", "tls", "target", "dockerVolume", "roleBinding",
                 "role", "serviceAccount"}
  BY DEF Objects, Purges, Purged
<1>. QED
  BY <1>1 DEF Written, Rbac, Purges, Purged, Then

LEMMA CommitType ==
  ASSUME TypeOK, NEW new \in CRs, Commit(new)
  PROVE  cr' \in CRs /\ watch' \in [Operators -> Seq(CRs)]
  BY DEF Commit, TypeOK

LEMMA TypeStep ==
  ASSUME TypeOK, [Next]_vars
  PROVE  TypeOK'
<1>. USE ConstantsOK, ObjectNames DEF TypeOK, opVars, bounds
<1>1. ASSUME NEW o \in Operators, WatchDelivers(o) PROVE TypeOK'
  <2>1. Head(watch[o]) \in CRs /\ Tail(watch[o]) \in Seq(CRs)
    BY <1>1 DEF WatchDelivers
  <2>. QED
    BY <1>1, <2>1 DEF WatchDelivers
<1>2. ASSUME NEW o \in Operators, BeginFinalizer(o) PROVE TypeOK'
  BY <1>2 DEF BeginFinalizer, Goto, Steps
<1>3. ASSUME NEW o \in Operators, AddFinalizer(o) PROVE TypeOK'
  <2>1. Commit([cr EXCEPT !.finalizer = cr.finalizer \/ (cr.exists /\ ~cr.deleting)])
    BY <1>3 DEF AddFinalizer
  <2>2. [cr EXCEPT !.finalizer = cr.finalizer \/ (cr.exists /\ ~cr.deleting)] \in CRs
    BY <1>3 DEF CRs, AddFinalizer
  <2>3. cr' \in CRs /\ watch' \in [Operators -> Seq(CRs)]
    BY <2>1, <2>2, CommitType
  <2>. QED
    BY <1>3, <2>3 DEF AddFinalizer, Goto, Steps
<1>4. ASSUME NEW o \in Operators, BeginApply(o) PROVE TypeOK'
  <2>1. cache[o].ns \in Namespaces /\ cache[o].target \in BOOLEAN
    BY DEF CRs
  <2>2. pc' \in [Operators -> Steps]
    BY <1>4 DEF BeginApply, Goto, Steps, Then
  <2>. QED
    BY <1>4, <2>1, <2>2 DEF BeginApply
<1>5. ASSUME NEW o \in Operators, CheckNamespace(o) PROVE TypeOK'
  <2>1. pc' \in [Operators -> Steps]
    BY <1>5, ThenType DEF CheckNamespace, Next1, Goto
  <2>. QED
    BY <1>5, <2>1 DEF CheckNamespace
<1>6. ASSUME NEW o \in Operators, WriteObject(o) PROVE TypeOK'
  <2>1. pc' \in [Operators -> Steps]
    BY <1>6, ThenType DEF WriteObject, Next1, Goto
  <2>2. stack' \in [Namespaces -> SUBSET Objects]
    BY <1>6, ObjectNames DEF WriteObject, Add
  <2>. QED
    BY <1>6, <2>1, <2>2 DEF WriteObject
<1>7. ASSUME NEW o \in Operators, ReadCerts(o) PROVE TypeOK'
  BY <1>7 DEF ReadCerts, Goto, Steps, Then
<1>8. ASSUME NEW o \in Operators, EnsureJob(o) PROVE TypeOK'
  <2>1. pc' \in [Operators -> Steps]
    BY <1>8, ThenType DEF EnsureJob, Next1, Goto
  <2>2. stack' \in [Namespaces -> SUBSET Objects]
    BY <1>8, ObjectNames DEF EnsureJob, Add
  <2>. QED
    BY <1>8, <2>1, <2>2 DEF EnsureJob
<1>9. ASSUME NEW o \in Operators, PatchWaiting(o) PROVE TypeOK'
  <2>1. Commit([cr EXCEPT !.pin = at[o], !.target = carried[o]])
    BY <1>9 DEF PatchWaiting, PatchStatus
  <2>2. [cr EXCEPT !.pin = at[o], !.target = carried[o]] \in CRs
    BY <1>9 DEF CRs, PatchWaiting, PatchStatus
  <2>3. cr' \in CRs /\ watch' \in [Operators -> Seq(CRs)]
    BY <2>1, <2>2, CommitType
  <2>. QED
    BY <1>9, <2>3 DEF PatchWaiting, PatchStatus, Goto, Steps
<1>10. ASSUME NEW o \in Operators, WriteTarget(o) PROVE TypeOK'
  <2>1. pc' \in [Operators -> Steps]
    BY <1>10, ThenType DEF WriteTarget, Next1, Goto
  <2>2. stack' \in [Namespaces -> SUBSET Objects]
    BY <1>10, ObjectNames DEF WriteTarget, Add
  <2>. QED
    BY <1>10, <2>1, <2>2 DEF WriteTarget
<1>11. ASSUME NEW o \in Operators, PublishEvent(o) PROVE TypeOK'
  <2>1. pc' \in [Operators -> Steps]
    BY <1>11, ThenType DEF PublishEvent, Next1, Goto
  <2>. QED
    BY <1>11, <2>1 DEF PublishEvent
<1>12. ASSUME NEW o \in Operators, PatchReady(o) PROVE TypeOK'
  <2>1. Commit([cr EXCEPT !.pin = at[o], !.target = TRUE])
    BY <1>12 DEF PatchReady, PatchStatus
  <2>2. [cr EXCEPT !.pin = at[o], !.target = TRUE] \in CRs
    BY <1>12 DEF CRs, PatchReady, PatchStatus
  <2>3. cr' \in CRs /\ watch' \in [Operators -> Seq(CRs)]
    BY <2>1, <2>2, CommitType
  <2>. QED
    BY <1>12, <2>3 DEF PatchReady, PatchStatus, Goto, Steps
<1>13. ASSUME NEW o \in Operators, BeginCleanup(o) PROVE TypeOK'
  <2>1. StackNamespace(cache[o]) \in Namespaces
    BY DEF StackNamespace, CRs
  <2>2. pc' \in [Operators -> Steps]
    BY <1>13 DEF BeginCleanup, FirstPurge, Goto, Steps, Then
  <2>. QED
    BY <1>13, <2>1, <2>2 DEF BeginCleanup
<1>14. ASSUME NEW o \in Operators, Purge(o) PROVE TypeOK'
  <2>1. pc' \in [Operators -> Steps]
    BY <1>14, ThenType DEF Purge, Next1, Goto
  <2>2. stack' \in [Namespaces -> SUBSET Objects]
    BY <1>14 DEF Purge
  <2>. QED
    BY <1>14, <2>1, <2>2 DEF Purge
<1>15. ASSUME NEW o \in Operators, RemoveFinalizer(o) PROVE TypeOK'
  <2>1. Commit([cr EXCEPT !.finalizer = FALSE, !.exists = cr.exists /\ ~cr.deleting])
    BY <1>15 DEF RemoveFinalizer
  <2>2. [cr EXCEPT !.finalizer = FALSE, !.exists = cr.exists /\ ~cr.deleting] \in CRs
    BY <1>15 DEF CRs, RemoveFinalizer
  <2>3. cr' \in CRs /\ watch' \in [Operators -> Seq(CRs)]
    BY <2>1, <2>2, CommitType
  <2>. QED
    BY <1>15, <2>3 DEF RemoveFinalizer, Goto, Steps
<1>16. ASSUME NEW o \in Operators, ApiError(o) PROVE TypeOK'
  BY <1>16 DEF ApiError, Goto, Steps
<1>17. ASSUME NEW n \in Namespaces, PodPublishes(n) PROVE TypeOK'
  BY <1>17, ObjectNames DEF PodPublishes, Add
<1>18. ASSUME NEW n \in Namespaces, PodStops(n) PROVE TypeOK'
  BY <1>18 DEF PodStops
<1>19. ASSUME NEW n \in Namespaces, EditNamespace(n) PROVE TypeOK'
  <2>1. Commit([cr EXCEPT !.ns = n])
    BY <1>19 DEF EditNamespace
  <2>2. [cr EXCEPT !.ns = n] \in CRs
    BY <1>19 DEF CRs, EditNamespace
  <2>3. cr' \in CRs /\ watch' \in [Operators -> Seq(CRs)]
    BY <2>1, <2>2, CommitType
  <2>. QED
    BY <1>19, <2>3 DEF EditNamespace, Goto, Steps
<1>20. ASSUME NEW n \in Namespaces, RotateCerts(n) PROVE TypeOK'
  BY <1>20 DEF RotateCerts
<1>24. ASSUME NEW n \in Namespaces, JobExpires(n) PROVE TypeOK'
  BY <1>24 DEF JobExpires
<1>21. ASSUME CollectTarget PROVE TypeOK'
  BY <1>21 DEF CollectTarget
<1>22. ASSUME DeleteAssistant PROVE TypeOK'
  <2>1. Commit([cr EXCEPT !.deleting = TRUE, !.exists = cr.finalizer])
    BY <1>22 DEF DeleteAssistant
  <2>2. [cr EXCEPT !.deleting = TRUE, !.exists = cr.finalizer] \in CRs
    BY <1>22 DEF CRs, DeleteAssistant
  <2>3. cr' \in CRs /\ watch' \in [Operators -> Seq(CRs)]
    BY <2>1, <2>2, CommitType
  <2>. QED
    BY <1>22, <2>3 DEF DeleteAssistant, Goto, Steps
<1>23. CASE UNCHANGED vars
  BY <1>23 DEF vars
<1>. QED
  BY <1>1, <1>2, <1>3, <1>4, <1>5, <1>6, <1>7, <1>8, <1>9, <1>10, <1>11,
     <1>12, <1>13, <1>14, <1>15, <1>16, <1>17, <1>18, <1>19, <1>20, <1>21,
     <1>22, <1>23, <1>24
  DEF Next, Reconcile

(* TypeOK for every value of the constants.                                 *)
THEOREM TypeCorrect == Spec => []TypeOK
<1>1. Init => TypeOK
  <2>. SUFFICES ASSUME Init PROVE TypeOK
    OBVIOUS
  <2>1. cr \in CRs /\ cr.ns \in Namespaces
    BY DEF Init, CRs
  <2>2. cache \in [Operators -> CRs] /\ watch \in [Operators -> Seq(CRs)]
    BY <2>1 DEF Init
  <2>3. pc \in [Operators -> Steps] /\ at \in [Operators -> Namespaces]
    BY <2>1 DEF Init, Steps
  <2>4. edits \in 0..MaxEdits /\ rotations \in 0..MaxRotations /\ faults \in 0..MaxFaults
    BY ConstantsOK DEF Init
  <2>. QED
    BY <2>1, <2>2, <2>3, <2>4 DEF Init, TypeOK
<1>2. TypeOK /\ [Next]_vars => TypeOK'
  BY TypeStep
<1>. QED
  BY <1>1, <1>2, PTL DEF Spec

-----------------------------------------------------------------------------
(* The steps of apply.                                                      *)
Building == Written \union {"namespace", "certs", "job", "patchWaiting", "target",
                            "event", "patchStatus"}

(* Only a running apply creates objects, where it works; but for the        *)
(* certificates, which a pod of the Job publishes.                          *)
LEMMA GrowsWhereItWorks ==
  ASSUME TypeOK, [Next]_vars, NEW n \in Namespaces,
         ~ \E o \in Operators : pc[o] \in Building /\ at[o] = n
  PROVE  /\ Sandbox(n)' \subseteq Sandbox(n) \union (IF n \in pods THEN {"tls"} ELSE {})
         /\ n \in pods' => n \in pods
<1>. USE DEF TypeOK, opVars, bounds
<1>. DEFINE Shrinks == /\ Sandbox(n)' \subseteq Sandbox(n)
                       /\ n \in pods' => n \in pods
<1>1. ASSUME NEW o \in Operators, WriteObject(o) \/ EnsureJob(o) PROVE Shrinks
  <2>1. pc[o] \in Building /\ at[o] \in Namespaces
    BY <1>1 DEF WriteObject, EnsureJob, Building
  <2>2. n # at[o]
    BY <2>1
  <2>. QED
    BY <1>1, <2>2 DEF WriteObject, EnsureJob, Add, Sandbox
<1>2. ASSUME NEW o \in Operators, WriteTarget(o) PROVE Shrinks
  BY <1>2 DEF WriteTarget, Add, Sandbox
<1>3. ASSUME NEW o \in Operators, Purge(o) PROVE Shrinks
  BY <1>3 DEF Purge, Sandbox
<1>4. ASSUME UNCHANGED <<stack, pods>> PROVE Shrinks
  BY <1>4 DEF Sandbox
<1>5. ASSUME NEW o \in Operators,
             \/ BeginFinalizer(o) \/ AddFinalizer(o) \/ BeginApply(o) \/ CheckNamespace(o)
             \/ ReadCerts(o) \/ PatchWaiting(o) \/ PublishEvent(o) \/ PatchReady(o)
             \/ BeginCleanup(o) \/ RemoveFinalizer(o) \/ ApiError(o) \/ WatchDelivers(o)
      PROVE  UNCHANGED <<stack, pods>>
  BY <1>5 DEF BeginFinalizer, AddFinalizer, BeginApply, CheckNamespace, ReadCerts, PatchWaiting,
              PublishEvent, PatchReady, PatchStatus, BeginCleanup, RemoveFinalizer, ApiError,
              WatchDelivers
<1>6. ASSUME \/ \E m \in Namespaces : EditNamespace(m)
             \/ DeleteAssistant \/ UNCHANGED vars
      PROVE  UNCHANGED <<stack, pods>>
  BY <1>6 DEF EditNamespace, DeleteAssistant, vars
<1>7. ASSUME NEW m \in Namespaces, PodPublishes(m)
      PROVE  /\ Sandbox(n)' \subseteq Sandbox(n) \union (IF n \in pods THEN {"tls"} ELSE {})
             /\ n \in pods' => n \in pods
  BY <1>7 DEF PodPublishes, Add, Sandbox
<1>8. ASSUME NEW m \in Namespaces, PodStops(m) PROVE Shrinks
  BY <1>8 DEF PodStops, Sandbox
<1>9. ASSUME CollectTarget \/ \E m \in Namespaces : RotateCerts(m) \/ JobExpires(m)
      PROVE  Shrinks
  <2>1. ASSUME NEW m \in Namespaces, NEW x, stack' = [stack EXCEPT ![m] = stack[m] \ x]
        PROVE  Sandbox(n)' \subseteq Sandbox(n)
    BY <2>1 DEF Sandbox
  <2>2. CASE CollectTarget
    BY <2>1, <2>2, ConstantsOK DEF CollectTarget
  <2>3. ASSUME NEW m \in Namespaces, RotateCerts(m) \/ JobExpires(m) PROVE Shrinks
    BY <2>1, <2>3 DEF RotateCerts, JobExpires
  <2>. QED
    BY <1>9, <2>2, <2>3
<1>. HIDE DEF Shrinks
<1>10. \/ Shrinks
       \/ /\ Sandbox(n)' \subseteq Sandbox(n) \union (IF n \in pods THEN {"tls"} ELSE {})
          /\ n \in pods' => n \in pods
  BY <1>1, <1>2, <1>3, <1>4, <1>5, <1>6, <1>7, <1>8, <1>9 DEF Next, Reconcile
<1>. QED
  BY <1>10 DEF Shrinks

-----------------------------------------------------------------------------
(* The first condition: users edit the sandbox namespace only once the      *)
(* status records one.  Then every version of the CR that an operator may   *)
(* still act on leads to the same namespace, and so does what apply works   *)
(* in: calls may fail, caches lag, and any number of operators work.        *)
HomeInv ==
    /\ \A o \in Operators :
          /\ at[o] = StackNamespace(cr)
          /\ StackNamespace(cache[o]) = StackNamespace(cr)
          /\ \A i \in 1..Len(watch[o]) : StackNamespace(watch[o][i]) = StackNamespace(cr)
    /\ \A n \in Namespaces : n # StackNamespace(cr) => Sandbox(n) = {} /\ n \notin pods

(* That namespace does not move with a step.                                *)
LEMMA HomeStays ==
  ASSUME ~EarlyEdits, TypeOK, HomeInv, [Next]_vars
  PROVE  StackNamespace(cr') = StackNamespace(cr)
<1>. USE DEF TypeOK, opVars, bounds
<1>1. ASSUME UNCHANGED cr PROVE StackNamespace(cr') = StackNamespace(cr)
  BY <1>1
<1>2. ASSUME UNCHANGED <<cr.ns, cr.pin>> PROVE StackNamespace(cr') = StackNamespace(cr)
  BY <1>2 DEF StackNamespace
<1>3. ASSUME NEW o \in Operators, AddFinalizer(o) \/ RemoveFinalizer(o)
      PROVE  StackNamespace(cr') = StackNamespace(cr)
  BY <1>2, <1>3 DEF AddFinalizer, RemoveFinalizer, Commit, CRs
<1>4. ASSUME NEW o \in Operators, PatchWaiting(o) \/ PatchReady(o)
      PROVE  StackNamespace(cr') = StackNamespace(cr)
  <2>1. PICK target : cr' = [cr EXCEPT !.pin = at[o], !.target = target]
    BY <1>4 DEF PatchWaiting, PatchReady, PatchStatus, Commit
  <2>2. cr'.pin = at[o] /\ at[o] # None
    BY <2>1, ConstantsOK DEF CRs
  <2>. QED
    BY <2>2 DEF StackNamespace, HomeInv
<1>5. ASSUME NEW n \in Namespaces, EditNamespace(n)
      PROVE  StackNamespace(cr') = StackNamespace(cr)
  <2>1. cr.pin # None /\ cr'.pin = cr.pin
    BY <1>5 DEF EditNamespace, Commit, CRs
  <2>. QED
    BY <2>1 DEF StackNamespace
<1>6. ASSUME DeleteAssistant PROVE StackNamespace(cr') = StackNamespace(cr)
  BY <1>2, <1>6 DEF DeleteAssistant, Commit, CRs
<1>7. ASSUME NEW o \in Operators,
             \/ BeginFinalizer(o) \/ BeginApply(o) \/ CheckNamespace(o) \/ WriteObject(o)
             \/ ReadCerts(o) \/ EnsureJob(o) \/ WriteTarget(o) \/ PublishEvent(o)
             \/ BeginCleanup(o) \/ Purge(o) \/ ApiError(o) \/ WatchDelivers(o)
      PROVE  UNCHANGED cr
  BY <1>7 DEF BeginFinalizer, BeginApply, CheckNamespace, WriteObject, ReadCerts, EnsureJob,
              WriteTarget, PublishEvent, BeginCleanup, Purge, ApiError, WatchDelivers
<1>8. ASSUME \/ \E n \in Namespaces : PodPublishes(n) \/ PodStops(n) \/ RotateCerts(n)
                                      \/ JobExpires(n)
             \/ CollectTarget \/ UNCHANGED vars
      PROVE  UNCHANGED cr
  BY <1>8 DEF PodPublishes, PodStops, RotateCerts, JobExpires, CollectTarget, vars
<1>. QED
  BY <1>1, <1>3, <1>4, <1>5, <1>6, <1>7, <1>8 DEF Next, Reconcile

(* What a step does to the versions on their way, and to where apply works. *)
LEMMA VersionsMove ==
  ASSUME TypeOK, [Next]_vars, NEW o \in Operators
  PROVE  /\ cache'[o] = cache[o] \/ (1 \in 1..Len(watch[o]) /\ cache'[o] = watch[o][1])
         /\ \A i \in 1..Len(watch'[o]) :
               \/ \E j \in 1..Len(watch[o]) : watch'[o][i] = watch[o][j]
               \/ watch'[o][i] = cr'
         /\ \/ at'[o] = at[o]
            \/ at'[o] = StackNamespace(cache[o])
            \/ PinAllows(cache[o].pin, cache[o].ns) /\ at'[o] = cache[o].ns
<1>. USE DEF TypeOK, opVars, bounds
<1>. DEFINE Delivered == cache'[o] = cache[o] \/ (1 \in 1..Len(watch[o]) /\ cache'[o] = watch[o][1])
            OnTheirWay == \A i \in 1..Len(watch'[o]) :
                             \/ \E j \in 1..Len(watch[o]) : watch'[o][i] = watch[o][j]
                             \/ watch'[o][i] = cr'
            Placed == \/ at'[o] = at[o]
                      \/ at'[o] = StackNamespace(cache[o])
                      \/ PinAllows(cache[o].pin, cache[o].ns) /\ at'[o] = cache[o].ns
<1>1. ASSUME UNCHANGED <<cache, watch, at>> PROVE Delivered /\ OnTheirWay /\ Placed
  BY <1>1
<1>2. ASSUME NEW p \in Operators, WatchDelivers(p) PROVE Delivered /\ OnTheirWay /\ Placed
  <2>1. CASE p # o
    BY <1>2, <2>1 DEF WatchDelivers
  <2>2. CASE p = o
    <3>1. watch[o] # << >> /\ watch'[o] = Tail(watch[o]) /\ cache'[o] = Head(watch[o])
          /\ UNCHANGED at
      BY <1>2, <2>2 DEF WatchDelivers
    <3>2. /\ 1 \in 1..Len(watch[o]) /\ cache'[o] = watch[o][1]
          /\ \A i \in 1..Len(watch'[o]) :
                i + 1 \in 1..Len(watch[o]) /\ watch'[o][i] = watch[o][i + 1]
      BY <3>1
    <3>. QED
      BY <3>1, <3>2
  <2>. QED
    BY <2>1, <2>2
<1>3. ASSUME NEW new \in CRs, Commit(new), UNCHANGED <<cache, at>>
      PROVE  Delivered /\ OnTheirWay /\ Placed
  <2>1. CASE watch' = watch
    BY <1>3, <2>1
  <2>2. CASE watch'[o] = Append(watch[o], cr')
    BY <1>3, <2>2
  <2>. QED
    BY <1>3, <2>1, <2>2 DEF Commit
<1>4. ASSUME NEW p \in Operators, AddFinalizer(p) PROVE Delivered /\ OnTheirWay /\ Placed
  <2>1. [cr EXCEPT !.finalizer = cr.finalizer \/ (cr.exists /\ ~cr.deleting)] \in CRs
    BY DEF CRs
  <2>. HIDE DEF Delivered, OnTheirWay, Placed
  <2>. QED
    BY <1>3, <1>4, <2>1 DEF AddFinalizer
<1>5. ASSUME NEW p \in Operators, NEW pin \in Namespaces, NEW target \in BOOLEAN,
             PatchStatus(p, pin, target)
      PROVE  Delivered /\ OnTheirWay /\ Placed
  <2>1. [cr EXCEPT !.pin = pin, !.target = target] \in CRs
    BY DEF CRs
  <2>. HIDE DEF Delivered, OnTheirWay, Placed
  <2>. QED
    BY <1>3, <1>5, <2>1 DEF PatchStatus
<1>6. ASSUME NEW p \in Operators, PatchWaiting(p) \/ PatchReady(p)
      PROVE  Delivered /\ OnTheirWay /\ Placed
  BY <1>5, <1>6, Zenon DEF PatchWaiting, PatchReady
<1>7. ASSUME NEW p \in Operators, RemoveFinalizer(p) PROVE Delivered /\ OnTheirWay /\ Placed
  <2>1. [cr EXCEPT !.finalizer = FALSE, !.exists = cr.exists /\ ~cr.deleting] \in CRs
    BY DEF CRs
  <2>. HIDE DEF Delivered, OnTheirWay, Placed
  <2>. QED
    BY <1>3, <1>7, <2>1 DEF RemoveFinalizer
<1>8. ASSUME NEW n \in Namespaces, EditNamespace(n) PROVE Delivered /\ OnTheirWay /\ Placed
  <2>1. [cr EXCEPT !.ns = n] \in CRs
    BY DEF CRs
  <2>. HIDE DEF Delivered, OnTheirWay, Placed
  <2>. QED
    BY <1>3, <1>8, <2>1 DEF EditNamespace
<1>9. ASSUME DeleteAssistant PROVE Delivered /\ OnTheirWay /\ Placed
  <2>1. [cr EXCEPT !.deleting = TRUE, !.exists = cr.finalizer] \in CRs
    BY DEF CRs
  <2>. HIDE DEF Delivered, OnTheirWay, Placed
  <2>. QED
    BY <1>3, <1>9, <2>1 DEF DeleteAssistant
<1>10. ASSUME NEW p \in Operators, BeginApply(p) PROVE Delivered /\ OnTheirWay /\ Placed
  BY <1>10 DEF BeginApply
<1>11. ASSUME NEW p \in Operators, BeginCleanup(p) PROVE Delivered /\ OnTheirWay /\ Placed
  BY <1>11 DEF BeginCleanup
<1>12. ASSUME NEW p \in Operators,
              \/ BeginFinalizer(p) \/ CheckNamespace(p) \/ WriteObject(p) \/ ReadCerts(p)
              \/ EnsureJob(p) \/ WriteTarget(p) \/ PublishEvent(p) \/ Purge(p) \/ ApiError(p)
       PROVE  UNCHANGED <<cache, watch, at>>
  BY <1>12 DEF BeginFinalizer, CheckNamespace, WriteObject, ReadCerts, EnsureJob, WriteTarget,
               PublishEvent, Purge, ApiError
<1>13. ASSUME \/ \E n \in Namespaces : PodPublishes(n) \/ PodStops(n) \/ RotateCerts(n)
                                       \/ JobExpires(n)
              \/ CollectTarget \/ UNCHANGED vars
       PROVE  UNCHANGED <<cache, watch, at>>
  BY <1>13 DEF PodPublishes, PodStops, RotateCerts, JobExpires, CollectTarget, vars
<1>. HIDE DEF Delivered, OnTheirWay, Placed
<1>14. Delivered /\ OnTheirWay /\ Placed
  BY <1>1, <1>2, <1>4, <1>6, <1>7, <1>8, <1>9, <1>10, <1>11, <1>12, <1>13
  DEF Next, Reconcile
<1>. QED
  BY <1>14 DEF Delivered, OnTheirWay, Placed

LEMMA HomeStep ==
  ASSUME ~EarlyEdits, TypeOK, HomeInv, [Next]_vars
  PROVE  HomeInv'
<1>. DEFINE home == StackNamespace(cr)
<1>1. StackNamespace(cr') = home
  BY HomeStays
<1>2. ASSUME NEW o \in Operators
      PROVE  /\ at'[o] = home
             /\ StackNamespace(cache'[o]) = home
             /\ \A i \in 1..Len(watch'[o]) : StackNamespace(watch'[o][i]) = home
  <2>1. \A recorded, computed : PinAllows(recorded, computed) => recorded \in {None, computed}
    BY DEF PinAllows
  <2>2. PinAllows(cache[o].pin, cache[o].ns) => cache[o].ns = StackNamespace(cache[o])
    BY <2>1 DEF StackNamespace
  <2>3. at[o] = home /\ StackNamespace(cache[o]) = home
        /\ \A i \in 1..Len(watch[o]) : StackNamespace(watch[o][i]) = home
    BY DEF HomeInv
  <2>. HIDE DEF home
  <2>. QED
    BY <1>1, <2>2, <2>3, VersionsMove
<1>3. ASSUME NEW n \in Namespaces, n # home
      PROVE  Sandbox(n)' = {} /\ n \notin pods'
  <2>1. Sandbox(n) = {} /\ n \notin pods /\ \A o \in Operators : at[o] # n
    BY <1>3 DEF HomeInv
  <2>. QED
    BY <2>1, GrowsWhereItWorks
<1>. QED
  BY <1>1, <1>2, <1>3 DEF HomeInv

LEMMA AlwaysHome ==
  ASSUME ~EarlyEdits
  PROVE  Spec => [](TypeOK /\ HomeInv)
<1>1. Init => HomeInv
  BY DEF Init, HomeInv, StackNamespace, Sandbox
<1>2. TypeOK /\ HomeInv /\ [Next]_vars => HomeInv'
  BY HomeStep
<1>. QED
  BY TypeCorrect, <1>1, <1>2, PTL DEF Spec

(* The privileged runner is never in two namespaces when the namespace is   *)
(* edited only after the status records one: whatever calls fail, however   *)
(* far the caches lag, however many operators work.                         *)
THEOREM RunnersAreOne ==
  ASSUME ~EarlyEdits
  PROVE  Spec => []OneRunner
<1>1. HomeInv => OneRunner
  BY DEF HomeInv, OneRunner, Sandbox
<1>. QED
  BY AlwaysHome, <1>1, PTL

-----------------------------------------------------------------------------
(* The conditions under which cleanup finds everything: those edits, one    *)
(* operator, and a Job whose pod does not outlive its purge.                *)
Steady == /\ ~EarlyEdits /\ ~LatePods
          /\ \A o1, o2 \in Operators : o1 = o2

(* What each step of cleanup may still find.                                *)
Left == [purgeDeployments |-> {"apiDeployment", "runnerDeployment", "apiService",
                               "runnerService", "job", "keys", "tls", "dockerVolume",
                               "roleBinding", "role", "serviceAccount"},
         purgeServices |-> {"apiService", "runnerService", "job", "keys", "tls",
                            "dockerVolume", "roleBinding", "role", "serviceAccount"},
         purgeJobs |-> {"job", "keys", "tls", "dockerVolume", "roleBinding", "role",
                        "serviceAccount"},
         purgeSecrets |-> {"keys", "tls", "dockerVolume", "roleBinding", "role",
                           "serviceAccount"},
         purgeVolumes |-> {"dockerVolume", "roleBinding", "role", "serviceAccount"},
         purgeRoleBindings |-> {"roleBinding", "role", "serviceAccount"},
         purgeRoles |-> {"role", "serviceAccount"},
         purgeServiceAccounts |-> {"serviceAccount"},
         deletedEvent |-> {}, removeFinalizer |-> {}]
PodsMayRun == {"purgeDeployments", "purgeServices", "purgeJobs"}

(* Once an older version is being deleted so is the CR, and until then its  *)
(* finalizer still holds.                                                   *)
Past(v, c) == /\ v.deleting => c.deleting
              /\ v.finalizer /\ ~v.deleting => c.finalizer

(* The versions an operator has yet to act on, in their order.              *)
VersionsOf(o) ==
    /\ Past(cache[o], cr)
    /\ \A i \in 1..Len(watch[o]) :
          /\ Past(watch[o][i], cr)
          /\ cache[o].deleting => watch[o][i].deleting
          /\ \A j \in 1..Len(watch[o]) :
                i < j /\ watch[o][i].deleting => watch[o][j].deleting
VersionInv == /\ cr.finalizer => cr.exists
              /\ \A o \in Operators : VersionsOf(o)

(* Apply runs under the finalizer; cleanup has left nothing behind it.      *)
PhaseInv ==
    \A o \in Operators :
        /\ pc[o] \in Building => cr.finalizer
        /\ pc[o] \in DOMAIN Left =>
              /\ cache[o].deleting /\ Sandbox(at[o]) \subseteq Left[pc[o]]
              /\ pc[o] \notin PodsMayRun => pods = {}

(* There is a stack only while the finalizer is there.                      *)
StackInv == ~cr.finalizer => pods = {} /\ \A n \in Namespaces : Sandbox(n) = {}

LEMMA ObjectSet ==
  Objects = {"apiDeployment", "runnerDeployment", "apiService", "runnerService",
             "job", "keys", "tls", "target", "dockerVolume", "roleBinding",
             "role", "serviceAccount"}
  BY DEF Objects, Purges, Purged

LEMMA PurgeOrder ==
  \A s \in Purges : /\ s \in DOMAIN Left /\ Then[s] \in DOMAIN Left
                    /\ Left[s] \ Purged[s] \subseteq Left[Then[s]]
                    /\ Then[s] \notin Building
  BY DEF Purges, Purged, Left, Then, Building, Written, Rbac

(* A write to the CR that keeps what older versions rely on.                *)
LEMMA VersionCommit ==
  ASSUME TypeOK, VersionInv, NEW new \in CRs, Commit(new), UNCHANGED cache,
         cr.deleting => new.deleting, new.finalizer => new.exists,
         (cr.finalizer => new.finalizer) \/ (\A o \in Operators : cache[o].deleting)
  PROVE  VersionInv'
<1>1. cr' = new
  BY DEF Commit
<1>2. ASSUME NEW o \in Operators PROVE VersionsOf(o)'
  <2>1. CASE new = cr
    BY <1>1, <2>1 DEF Commit, VersionInv, VersionsOf, Past
  <2>2. CASE new # cr
    <3>1. watch'[o] = Append(watch[o], new)
      BY <2>2 DEF Commit
    <3>2. watch[o] \in Seq(CRs)
      BY DEF TypeOK
    <3>3. /\ Len(watch'[o]) = Len(watch[o]) + 1
          /\ watch'[o][Len(watch[o]) + 1] = new
          /\ \A i \in 1..Len(watch[o]) : watch'[o][i] = watch[o][i]
      BY <3>1, <3>2
    <3>4. VersionsOf(o)
      BY DEF VersionInv
    <3>5. \A i \in 1..Len(watch'[o]) :
             \/ i \in 1..Len(watch[o]) /\ watch'[o][i] = watch[o][i]
             \/ i = Len(watch[o]) + 1 /\ watch'[o][i] = new
      BY <3>2, <3>3
    <3>6. ASSUME NEW v, Past(v, cr), cache[o].deleting => v.deleting
          PROVE  Past(v, cr')
      BY <1>1, <3>6 DEF Past
    <3>7. Past(new, cr')
      BY <1>1 DEF Past
    <3>8. Past(cache'[o], cr')
      BY <1>1, <3>4, <3>6 DEF VersionsOf
    <3>9. ASSUME NEW i \in 1..Len(watch'[o]), NEW j \in 1..Len(watch'[o])
          PROVE  /\ Past(watch'[o][i], cr')
                 /\ cache'[o].deleting => watch'[o][i].deleting
                 /\ i < j /\ watch'[o][i].deleting => watch'[o][j].deleting
      <4>1. CASE i \in 1..Len(watch[o])
        <5>1. /\ Past(watch[o][i], cr)
              /\ cache[o].deleting => watch[o][i].deleting
              /\ watch'[o][i] = watch[o][i]
          BY <3>3, <3>4, <4>1 DEF VersionsOf
        <5>2. Past(watch[o][i], cr')
          BY <3>6, <5>1
        <5>3. CASE j \in 1..Len(watch[o])
          BY <3>3, <3>4, <4>1, <5>1, <5>2, <5>3 DEF VersionsOf
        <5>4. CASE j = Len(watch[o]) + 1
          BY <3>3, <5>1, <5>2, <5>4 DEF Past
        <5>. QED
          BY <3>5, <5>3, <5>4
      <4>2. CASE i = Len(watch[o]) + 1
        <5>1. ~(i < j)
          BY <3>2, <3>3, <4>2
        <5>2. cache[o].deleting => new.deleting
          BY <3>4 DEF VersionsOf, Past
        <5>. QED
          BY <3>3, <3>7, <4>2, <5>1, <5>2
      <4>. QED
        BY <3>5, <4>1, <4>2
    <3>. QED
      <4>1. \A i \in 1..Len(watch'[o]) :
               /\ Past(watch'[o][i], cr')
               /\ cache'[o].deleting => watch'[o][i].deleting
               /\ \A j \in 1..Len(watch'[o]) :
                     i < j /\ watch'[o][i].deleting => watch'[o][j].deleting
        BY <3>9
      <4>. QED
        BY <3>8, <4>1 DEF VersionsOf
  <2>. QED
    BY <2>1, <2>2
<1>. QED
  BY <1>1, <1>2 DEF VersionInv

LEMMA VersionUnchanged ==
  ASSUME VersionInv, UNCHANGED <<cr, cache, watch>>
  PROVE  VersionInv'
BY DEF VersionInv, VersionsOf, Past

LEMMA VersionStep ==
  ASSUME Steady, TypeOK, VersionInv, PhaseInv, [Next]_vars
  PROVE  VersionInv'
<1>. USE ConstantsOK DEF TypeOK, VersionInv, VersionsOf, opVars, bounds
<1>1. ASSUME NEW o \in Operators, WatchDelivers(o) PROVE VersionInv'
  <2>1. /\ watch[o] # << >> /\ cache' = [cache EXCEPT ![o] = Head(watch[o])]
        /\ watch' = [watch EXCEPT ![o] = Tail(watch[o])] /\ UNCHANGED cr
    BY <1>1 DEF WatchDelivers
  <2>2. /\ cache'[o] = watch[o][1]
        /\ Len(watch'[o]) = Len(watch[o]) - 1
        /\ \A i \in 1..Len(watch'[o]) : watch'[o][i] = watch[o][i + 1]
    BY <2>1
  <2>3. \A p \in Operators : p # o => cache'[p] = cache[p] /\ watch'[p] = watch[p]
    BY <2>1
  <2>4. /\ 1 \in 1..Len(watch[o])
        /\ \A i \in 1..Len(watch'[o]) : i + 1 \in 1..Len(watch[o]) /\ 1 < i + 1
    BY <2>1, <2>2
  <2>5. VersionsOf(o)'
    BY <2>1, <2>2, <2>4 DEF Past
  <2>6. \A p \in Operators : p # o => VersionsOf(p)'
    BY <2>1, <2>3 DEF Past
  <2>. QED
    BY <2>1, <2>5, <2>6 DEF Past
<1>2. ASSUME NEW o \in Operators, BeginFinalizer(o) PROVE VersionInv'
  BY <1>2, VersionUnchanged DEF BeginFinalizer
<1>3. ASSUME NEW o \in Operators, AddFinalizer(o) PROVE VersionInv'
  <2>1. /\ Commit([cr EXCEPT !.finalizer = cr.finalizer \/ (cr.exists /\ ~cr.deleting)])
        /\ UNCHANGED cache
    BY <1>3 DEF AddFinalizer
  <2>2. [cr EXCEPT !.finalizer = cr.finalizer \/ (cr.exists /\ ~cr.deleting)] \in CRs
    BY <1>3 DEF CRs, AddFinalizer
  <2>. QED
    BY <1>3, <2>1, <2>2, VersionCommit DEF AddFinalizer, Past, CRs
<1>4. ASSUME NEW o \in Operators, BeginApply(o) PROVE VersionInv'
  BY <1>4, VersionUnchanged DEF BeginApply
<1>5. ASSUME NEW o \in Operators, CheckNamespace(o) PROVE VersionInv'
  BY <1>5, VersionUnchanged DEF CheckNamespace
<1>6. ASSUME NEW o \in Operators, WriteObject(o) PROVE VersionInv'
  BY <1>6, VersionUnchanged DEF WriteObject
<1>7. ASSUME NEW o \in Operators, ReadCerts(o) PROVE VersionInv'
  BY <1>7, VersionUnchanged DEF ReadCerts
<1>8. ASSUME NEW o \in Operators, EnsureJob(o) PROVE VersionInv'
  BY <1>8, VersionUnchanged DEF EnsureJob
<1>9. ASSUME NEW o \in Operators, PatchWaiting(o) PROVE VersionInv'
  <2>1. Commit([cr EXCEPT !.pin = at[o], !.target = carried[o]]) /\ UNCHANGED cache
    BY <1>9 DEF PatchWaiting, PatchStatus
  <2>2. [cr EXCEPT !.pin = at[o], !.target = carried[o]] \in CRs
    BY <1>9 DEF CRs, PatchWaiting, PatchStatus
  <2>. QED
    BY <1>9, <2>1, <2>2, VersionCommit DEF PatchWaiting, PatchStatus, Past, CRs
<1>10. ASSUME NEW o \in Operators, WriteTarget(o) PROVE VersionInv'
  BY <1>10, VersionUnchanged DEF WriteTarget
<1>11. ASSUME NEW o \in Operators, PublishEvent(o) PROVE VersionInv'
  BY <1>11, VersionUnchanged DEF PublishEvent
<1>12. ASSUME NEW o \in Operators, PatchReady(o) PROVE VersionInv'
  <2>1. Commit([cr EXCEPT !.pin = at[o], !.target = TRUE]) /\ UNCHANGED cache
    BY <1>12 DEF PatchReady, PatchStatus
  <2>2. [cr EXCEPT !.pin = at[o], !.target = TRUE] \in CRs
    BY <1>12 DEF CRs, PatchReady, PatchStatus
  <2>. QED
    BY <1>12, <2>1, <2>2, VersionCommit DEF PatchReady, PatchStatus, Past, CRs
<1>13. ASSUME NEW o \in Operators, BeginCleanup(o) PROVE VersionInv'
  BY <1>13, VersionUnchanged DEF BeginCleanup
<1>14. ASSUME NEW o \in Operators, Purge(o) PROVE VersionInv'
  BY <1>14, VersionUnchanged DEF Purge
<1>15. ASSUME NEW o \in Operators, RemoveFinalizer(o) PROVE VersionInv'
  <2>1. Commit([cr EXCEPT !.finalizer = FALSE, !.exists = cr.exists /\ ~cr.deleting])
        /\ UNCHANGED cache
    BY <1>15 DEF RemoveFinalizer
  <2>2. [cr EXCEPT !.finalizer = FALSE, !.exists = cr.exists /\ ~cr.deleting] \in CRs
    BY DEF CRs
  <2>3. cr.deleting /\ \A p \in Operators : cache[p].deleting
    BY <1>15 DEF RemoveFinalizer, PhaseInv, Left, Past, Steady
  <2>. QED
    BY <2>1, <2>2, <2>3, VersionCommit DEF Past, CRs
<1>16. ASSUME NEW o \in Operators, ApiError(o) PROVE VersionInv'
  BY <1>16, VersionUnchanged DEF ApiError
<1>17. ASSUME NEW n \in Namespaces, PodPublishes(n) PROVE VersionInv'
  BY <1>17, VersionUnchanged DEF PodPublishes
<1>18. ASSUME NEW n \in Namespaces, PodStops(n) PROVE VersionInv'
  BY <1>18, VersionUnchanged DEF PodStops
<1>19. ASSUME NEW n \in Namespaces, EditNamespace(n) PROVE VersionInv'
  <2>1. Commit([cr EXCEPT !.ns = n]) /\ UNCHANGED cache
    BY <1>19 DEF EditNamespace
  <2>2. [cr EXCEPT !.ns = n] \in CRs
    BY <1>19 DEF CRs, EditNamespace
  <2>. QED
    BY <2>1, <2>2, VersionCommit DEF Past, CRs
<1>20. ASSUME NEW n \in Namespaces, RotateCerts(n) PROVE VersionInv'
  BY <1>20, VersionUnchanged DEF RotateCerts
<1>24. ASSUME NEW n \in Namespaces, JobExpires(n) PROVE VersionInv'
  BY <1>24, VersionUnchanged DEF JobExpires
<1>21. ASSUME CollectTarget PROVE VersionInv'
  BY <1>21, VersionUnchanged DEF CollectTarget
<1>22. ASSUME DeleteAssistant PROVE VersionInv'
  <2>1. Commit([cr EXCEPT !.deleting = TRUE, !.exists = cr.finalizer]) /\ UNCHANGED cache
    BY <1>22 DEF DeleteAssistant
  <2>2. [cr EXCEPT !.deleting = TRUE, !.exists = cr.finalizer] \in CRs
    BY <1>22 DEF CRs, DeleteAssistant
  <2>. QED
    BY <1>22, <2>1, <2>2, VersionCommit DEF DeleteAssistant, Past, CRs
<1>23. CASE UNCHANGED vars
  BY <1>23, VersionUnchanged DEF vars
<1>. QED
  BY <1>1, <1>2, <1>3, <1>4, <1>5, <1>6, <1>7, <1>8, <1>9, <1>10, <1>11,
     <1>12, <1>13, <1>14, <1>15, <1>16, <1>17, <1>18, <1>19, <1>20, <1>21,
     <1>22, <1>23, <1>24
  DEF Next, Reconcile

LEMMA StackStep ==
  ASSUME Steady, TypeOK, HomeInv, VersionInv, PhaseInv, StackInv, [Next]_vars
  PROVE  PhaseInv' /\ StackInv'
<1>. USE DEF TypeOK, opVars, bounds
<1>. DEFINE home == StackNamespace(cr)
<1>0. /\ home \in Namespaces /\ \A o \in Operators : at[o] = home
      /\ \A n \in Namespaces : n # home => Sandbox(n) = {} /\ n \notin pods
  BY DEF HomeInv, StackNamespace, CRs
<1>. HIDE DEF home
<1>1. ASSUME NEW o \in Operators, WatchDelivers(o) PROVE PhaseInv' /\ StackInv'
  <2>1. cache[o].deleting => cache'[o].deleting
    <3>1. watch[o] # << >> => 1 \in 1..Len(watch[o]) /\ Head(watch[o]) = watch[o][1]
      OBVIOUS
    <3>. QED
      BY <1>1, <3>1 DEF WatchDelivers, VersionInv, VersionsOf
  <2>2. UNCHANGED <<cr, pc, at, stack, pods>>
    BY <1>1 DEF WatchDelivers
  <2>3. \A p \in Operators : cache[p].deleting => cache'[p].deleting
    BY <1>1, <2>1 DEF WatchDelivers
  <2>. QED
    BY <2>2, <2>3 DEF PhaseInv, StackInv, Sandbox
<1>2. ASSUME NEW o \in Operators, BeginFinalizer(o) PROVE PhaseInv' /\ StackInv'
  <2>1. UNCHANGED <<cr, cache, at, stack, pods>> /\ pc'[o] \in {"addFinalizer", "idle"}
        /\ \A p \in Operators : p # o => pc'[p] = pc[p]
    BY <1>2 DEF BeginFinalizer, Goto
  <2>. QED
    BY <2>1 DEF PhaseInv, StackInv, Sandbox, Building, Written, Rbac, Left
<1>3. ASSUME NEW o \in Operators, AddFinalizer(o) PROVE PhaseInv' /\ StackInv'
  <2>1. /\ pc'[o] = "idle" /\ \A p \in Operators : p = o
        /\ UNCHANGED <<cache, at, stack, pods>>
        /\ (cr.finalizer => cr'.finalizer)
    BY <1>3 DEF AddFinalizer, Goto, Commit, CRs, Steady
  <2>. QED
    BY <2>1 DEF PhaseInv, StackInv, Sandbox, Building, Written, Rbac, Left
<1>4. ASSUME NEW o \in Operators, BeginApply(o) PROVE PhaseInv' /\ StackInv'
  <2>1. /\ pc'[o] = "namespace" /\ \A p \in Operators : p = o
        /\ UNCHANGED <<cr, cache, stack, pods>> /\ cr.finalizer
    BY <1>4 DEF BeginApply, CanStart, Goto, Steady, VersionInv, VersionsOf, Past
  <2>. QED
    BY <2>1 DEF PhaseInv, StackInv, Sandbox, Left
<1>5. ASSUME NEW o \in Operators, CheckNamespace(o) PROVE PhaseInv' /\ StackInv'
  <2>1. /\ pc[o] \in Building /\ pc'[o] \in {"keys"}
        /\ \A p \in Operators : p = o
        /\ UNCHANGED <<cr, cache, at, stack, pods>>
    BY <1>5 DEF CheckNamespace, Next1, Goto, Steady, Building, Then
  <2>. QED
    BY <2>1 DEF PhaseInv, StackInv, Sandbox, Building, Written, Rbac, Left
<1>6. ASSUME NEW o \in Operators, WriteObject(o) PROVE PhaseInv' /\ StackInv'
  <2>1. /\ pc[o] \in Building /\ \A p \in Operators : p = o
        /\ UNCHANGED <<cr, cache, at>> /\ pods' = pods
        /\ stack' = [stack EXCEPT ![at[o]] = stack[at[o]] \union {pc[o]}]
    BY <1>6 DEF WriteObject, Add, Building, Steady
  <2>2. pc'[o] \in Building /\ pc'[o] \notin DOMAIN Left
    BY <1>6 DEF WriteObject, Next1, Goto, Building, Written, Rbac, Then, Left
  <2>. QED
    BY <1>0, <2>1, <2>2 DEF PhaseInv, StackInv, Sandbox
<1>7. ASSUME NEW o \in Operators, ReadCerts(o) PROVE PhaseInv' /\ StackInv'
  <2>1. /\ pc[o] \in Building /\ pc'[o] \in {"dockerVolume", "serviceAccount"}
        /\ \A p \in Operators : p = o
        /\ UNCHANGED <<cr, cache, at, stack, pods>>
    BY <1>7 DEF ReadCerts, Next1, Goto, Steady, Building, Then
  <2>. QED
    BY <2>1 DEF PhaseInv, StackInv, Sandbox, Building, Written, Rbac, Left
<1>8. ASSUME NEW o \in Operators, EnsureJob(o) PROVE PhaseInv' /\ StackInv'
  <2>1. /\ pc[o] \in Building /\ \A p \in Operators : p = o
        /\ UNCHANGED <<cr, cache, at>> /\ pods' = pods \union {home}
        /\ stack' = [stack EXCEPT ![at[o]] = stack[at[o]] \union {"job"}]
    BY <1>0, <1>8 DEF EnsureJob, Add, Building, Steady
  <2>2. pc'[o] \in Building /\ pc'[o] \notin DOMAIN Left
    BY <1>8 DEF EnsureJob, Next1, Goto, Building, Written, Rbac, Then, Left
  <2>. QED
    BY <1>0, <2>1, <2>2 DEF PhaseInv, StackInv, Sandbox
<1>9. ASSUME NEW o \in Operators, PatchWaiting(o) PROVE PhaseInv' /\ StackInv'
  <2>1. /\ pc'[o] = "idle" /\ \A p \in Operators : p = o
        /\ UNCHANGED <<cache, at, stack, pods>>
        /\ cr'.finalizer = cr.finalizer
    BY <1>9 DEF PatchWaiting, PatchStatus, Goto, Commit, CRs, Steady
  <2>. QED
    BY <2>1 DEF PhaseInv, StackInv, Sandbox, Building, Written, Rbac, Left
<1>10. ASSUME NEW o \in Operators, WriteTarget(o) PROVE PhaseInv' /\ StackInv'
  <2>1. /\ pc[o] \in Building /\ \A p \in Operators : p = o
        /\ UNCHANGED <<cr, cache, at>> /\ pods' = pods
        /\ stack' = [stack EXCEPT ![CrNamespace] = stack[CrNamespace] \union {"target"}]
    BY <1>10 DEF WriteTarget, Add, Building, Steady
  <2>2. pc'[o] \in Building /\ pc'[o] \notin DOMAIN Left
    BY <1>10 DEF WriteTarget, Next1, Goto, Building, Written, Rbac, Then, Left
  <2>. QED
    BY <1>0, <2>1, <2>2 DEF PhaseInv, StackInv, Sandbox
<1>11. ASSUME NEW o \in Operators, PublishEvent(o) PROVE PhaseInv' /\ StackInv'
  <2>1. \A p \in Operators : p = o
    BY DEF Steady
  <2>2. UNCHANGED <<cr, cache, at, stack, pods>>
    BY <1>11 DEF PublishEvent
  <2>3. CASE pc[o] = "event"
    <3>1. pc'[o] = "patchStatus"
      BY <1>11, <2>3 DEF PublishEvent, Next1, Goto, Then
    <3>. QED
      BY <2>1, <2>2, <2>3, <3>1 DEF PhaseInv, StackInv, Sandbox, Building, Left
  <2>4. CASE pc[o] = "deletedEvent"
    <3>1. pc'[o] = "removeFinalizer"
      BY <1>11, <2>4 DEF PublishEvent, Next1, Goto, Then
    <3>2. /\ Left["deletedEvent"] = {} /\ Left["removeFinalizer"] = {}
          /\ "deletedEvent" \in DOMAIN Left
          /\ {"deletedEvent", "removeFinalizer"} \cap PodsMayRun = {}
          /\ "removeFinalizer" \notin Building
      BY DEF Left, PodsMayRun, Building, Written, Rbac
    <3>. QED
      BY <2>1, <2>2, <2>4, <3>1, <3>2 DEF PhaseInv, StackInv, Sandbox
  <2>. QED
    BY <1>11, <2>3, <2>4 DEF PublishEvent
<1>12. ASSUME NEW o \in Operators, PatchReady(o) PROVE PhaseInv' /\ StackInv'
  <2>1. /\ pc'[o] = "idle" /\ \A p \in Operators : p = o
        /\ UNCHANGED <<cache, at, stack, pods>>
        /\ cr'.finalizer = cr.finalizer
    BY <1>12 DEF PatchReady, PatchStatus, Goto, Commit, CRs, Steady
  <2>. QED
    BY <2>1 DEF PhaseInv, StackInv, Sandbox, Building, Written, Rbac, Left
<1>13. ASSUME NEW o \in Operators, BeginCleanup(o) PROVE PhaseInv' /\ StackInv'
  <2>1. /\ pc'[o] = "purgeDeployments" /\ \A p \in Operators : p = o
        /\ UNCHANGED <<cr, cache, stack, pods>> /\ cache[o].deleting
        /\ at'[o] \in Namespaces
    BY <1>13 DEF BeginCleanup, FirstPurge, CanStart, Goto, Steady, VersionInv, VersionsOf, Past,
                StackNamespace, CRs
  <2>2. /\ Left["purgeDeployments"] = Objects \ {"target"}
        /\ "purgeDeployments" \in PodsMayRun /\ "purgeDeployments" \notin Building
    BY ObjectSet DEF Left, PodsMayRun, Building, Written, Rbac
  <2>3. Sandbox(at[o])' \subseteq Objects \ {"target"}
    BY <2>1 DEF Sandbox
  <2>. QED
    BY <2>1, <2>2, <2>3 DEF PhaseInv, StackInv, Sandbox
<1>14. ASSUME NEW o \in Operators, Purge(o) PROVE PhaseInv' /\ StackInv'
  <2>1. \A p \in Operators : p = o
    BY DEF Steady
  <2>2. /\ UNCHANGED <<cr, cache, at>> /\ pc[o] \in Purges
        /\ stack' = [stack EXCEPT ![at[o]] = stack[at[o]] \ Purged[pc[o]]]
        /\ pods' = IF pc[o] = "purgeJobs" THEN pods \ {at[o]} ELSE pods
        /\ pc'[o] = Then[pc[o]]
    BY <1>14 DEF Purge, Next1, Goto, Steady
  <2>3. /\ pc[o] \in DOMAIN Left /\ pc'[o] \in DOMAIN Left
        /\ Left[pc[o]] \ Purged[pc[o]] \subseteq Left[pc'[o]]
        /\ pc'[o] \notin Building
    BY <2>2, PurgeOrder
  <2>4. Sandbox(at[o])' \subseteq Left[pc'[o]]
    BY <2>2, <2>3 DEF PhaseInv, Sandbox
  <2>5. pc'[o] \notin PodsMayRun => pods' = {}
    <3>1. pods \subseteq {at[o]} /\ (pc[o] \notin PodsMayRun => pods = {})
      BY <1>0, <2>3 DEF PhaseInv, StackInv
    <3>2. pc[o] # "purgeJobs" /\ pc[o] \in PodsMayRun => pc'[o] \in PodsMayRun
      BY <2>2 DEF PodsMayRun, Then
    <3>. QED
      BY <2>2, <3>1, <3>2
  <2>6. StackInv'
    <3>1. /\ \A n \in Namespaces : Sandbox(n)' \subseteq Sandbox(n)
          /\ pods' \subseteq pods /\ cr' = cr
      BY <2>2 DEF Sandbox
    <3>. QED
      BY <1>0, <3>1 DEF StackInv
  <2>. QED
    BY <2>1, <2>2, <2>3, <2>4, <2>5, <2>6 DEF PhaseInv
<1>15. ASSUME NEW o \in Operators, RemoveFinalizer(o) PROVE PhaseInv' /\ StackInv'
  <2>1. /\ pc[o] = "removeFinalizer" /\ pc'[o] = "idle" /\ \A p \in Operators : p = o
        /\ UNCHANGED <<cache, at, stack, pods>>
    BY <1>15 DEF RemoveFinalizer, Goto, Commit, CRs, Steady
  <2>2. pods = {} /\ \A n \in Namespaces : Sandbox(n) = {}
    <3>1. /\ "removeFinalizer" \in DOMAIN Left /\ Left["removeFinalizer"] = {}
          /\ "removeFinalizer" \notin PodsMayRun
      BY DEF Left, PodsMayRun
    <3>. QED
      BY <1>0, <2>1, <3>1 DEF PhaseInv
  <2>. QED
    BY <2>1, <2>2 DEF PhaseInv, StackInv, Sandbox, Building, Written, Rbac, Left
<1>16. ASSUME NEW o \in Operators, ApiError(o) PROVE PhaseInv' /\ StackInv'
  <2>1. UNCHANGED <<cr, cache, at, stack, pods>> /\ pc'[o] \in {"addFinalizer", "idle"}
        /\ \A p \in Operators : p # o => pc'[p] = pc[p]
    BY <1>16 DEF ApiError, Goto
  <2>. QED
    BY <2>1 DEF PhaseInv, StackInv, Sandbox, Building, Written, Rbac, Left
<1>17. ASSUME NEW n \in Namespaces, PodPublishes(n) PROVE PhaseInv' /\ StackInv'
  <2>1. /\ n = home /\ n \in pods /\ cr.finalizer
        /\ stack' = [stack EXCEPT ![n] = stack[n] \union {"tls"}]
        /\ pods' = pods \ {n} /\ UNCHANGED <<cr, cache, pc, at>>
    BY <1>0, <1>17 DEF PodPublishes, Add, StackInv
  <2>2. \A s \in PodsMayRun : "tls" \in Left[s]
    BY DEF PodsMayRun, Left
  <2>3. \A p \in Operators : pc[p] \in DOMAIN Left => pc[p] \in PodsMayRun
    BY <2>1 DEF PhaseInv
  <2>. QED
    BY <1>0, <2>1, <2>2, <2>3 DEF PhaseInv, StackInv, Sandbox
<1>18. ASSUME NEW n \in Namespaces, PodStops(n) PROVE PhaseInv' /\ StackInv'
  BY <1>18 DEF PodStops, PhaseInv, StackInv, Sandbox
<1>19. ASSUME NEW n \in Namespaces, EditNamespace(n) PROVE PhaseInv' /\ StackInv'
  <2>1. /\ UNCHANGED <<cache, pc, at, stack, pods>> /\ cr'.finalizer = cr.finalizer
    BY <1>19 DEF EditNamespace, Commit, CRs
  <2>. QED
    BY <2>1 DEF PhaseInv, StackInv, Sandbox
<1>20. ASSUME NEW n \in Namespaces, RotateCerts(n) PROVE PhaseInv' /\ StackInv'
  BY <1>20 DEF RotateCerts, PhaseInv, StackInv, Sandbox
<1>24. ASSUME NEW n \in Namespaces, JobExpires(n) PROVE PhaseInv' /\ StackInv'
  BY <1>24 DEF JobExpires, PhaseInv, StackInv, Sandbox
<1>21. ASSUME CollectTarget PROVE PhaseInv' /\ StackInv'
  <2>1. UNCHANGED <<cr, cache, pc, at, pods>>
    BY <1>21 DEF CollectTarget
  <2>2. \A m \in Namespaces : Sandbox(m)' = Sandbox(m)
    BY <1>21 DEF CollectTarget, Sandbox
  <2>. QED
    BY <1>0, <2>1, <2>2 DEF PhaseInv, StackInv
<1>22. ASSUME DeleteAssistant PROVE PhaseInv' /\ StackInv'
  <2>1. /\ UNCHANGED <<cache, pc, at, stack, pods>>
        /\ cr'.finalizer = cr.finalizer
    BY <1>22 DEF DeleteAssistant, Commit, CRs
  <2>. QED
    BY <2>1 DEF PhaseInv, StackInv, Sandbox
<1>23. CASE UNCHANGED vars
  BY <1>23 DEF vars, PhaseInv, StackInv, Sandbox
<1>. QED
  BY <1>1, <1>2, <1>3, <1>4, <1>5, <1>6, <1>7, <1>8, <1>9, <1>10, <1>11,
     <1>12, <1>13, <1>14, <1>15, <1>16, <1>17, <1>18, <1>19, <1>20, <1>21,
     <1>22, <1>23, <1>24
  DEF Next, Reconcile

(* Nothing outlives the CR when its namespace is edited only after the      *)
(* status records one: whatever calls failed, however late the watch,       *)
(* however often certificates were rotated, the namespaces are empty when   *)
(* the CR goes.                                                             *)
THEOREM NothingOutlivesTheCR ==
  ASSUME Steady
  PROVE  Spec => []NoOrphans
<1>1. Init => VersionInv /\ PhaseInv /\ StackInv
  <2>. SUFFICES ASSUME Init PROVE VersionInv /\ PhaseInv /\ StackInv
    OBVIOUS
  <2>1. /\ cr.pin = None /\ ~cr.finalizer /\ ~cr.deleting /\ cr.exists
        /\ \A o \in Operators : cache[o] = cr /\ at[o] = cr.ns /\ Len(watch[o]) = 0
    BY DEF Init
  <2>2. VersionInv
    BY <2>1 DEF VersionInv, VersionsOf, Past
  <2>3. PhaseInv /\ StackInv
    BY DEF Init, PhaseInv, StackInv, Sandbox, Building, Written, Rbac, Left
  <2>. QED
    BY <2>2, <2>3
<1>2. TypeOK /\ HomeInv /\ VersionInv /\ PhaseInv /\ StackInv /\ [Next]_vars
        => VersionInv' /\ PhaseInv' /\ StackInv'
  BY VersionStep, StackStep
<1>3. VersionInv /\ StackInv => NoOrphans
  BY DEF VersionInv, StackInv, NoOrphans
<1>4. Spec => [](TypeOK /\ HomeInv)
  BY AlwaysHome DEF Steady
<1>. QED
  BY <1>1, <1>2, <1>3, <1>4, PTL DEF Spec

-----------------------------------------------------------------------------
(* The second condition: one operator, whose reconciles start from the      *)
(* latest version of the CR.  Then the namespace may be edited at any time. *)
Prompt == /\ FreshCache
          /\ \A o1, o2 \in Operators : o1 = o2

(* The last version that was delivered, or is on its way, is the CR.        *)
LatestInv ==
    \A o \in Operators :
        cr = IF watch[o] = << >> THEN cache[o] ELSE watch[o][Len(watch[o])]

(* While apply runs, its pin is not refused by the CR's, and the target     *)
(* Secret it carries along is the one the CR records.                       *)
PinInv ==
    \A o \in Operators :
        pc[o] \in Building =>
            /\ cr.exists /\ cr.finalizer
            /\ cr.pin \in {None, at[o]} /\ carried[o] = cr.target

LEMMA CommitIsLatest ==
  ASSUME TypeOK, LatestInv, NEW new \in CRs, Commit(new), UNCHANGED cache
  PROVE  LatestInv'
<1>1. CASE new = cr
  BY <1>1 DEF Commit, LatestInv
<1>2. CASE new # cr
  <2>1. ASSUME NEW o \in Operators
        PROVE  watch'[o] # << >> /\ watch'[o][Len(watch'[o])] = new
    <3>1. watch'[o] = Append(watch[o], new) /\ watch[o] \in Seq(CRs)
      BY <1>2 DEF Commit, TypeOK
    <3>. QED
      BY <3>1
  <2>. QED
    BY <2>1 DEF Commit, LatestInv
<1>. QED
  BY <1>1, <1>2

LEMMA LastOfTail ==
  ASSUME NEW S, NEW seq \in Seq(S), seq # << >>
  PROVE  seq[Len(seq)] = IF Tail(seq) = << >> THEN Head(seq) ELSE Tail(seq)[Len(Tail(seq))]
<1>. DEFINE rest == Tail(seq)
            m == Len(seq)
            k == Len(rest)
<1>1. /\ rest \in Seq(S) /\ k = m - 1 /\ m \in Nat \ {0}
      /\ \A i \in 1..k : rest[i] = seq[i + 1]
  BY HeadTailProperties, EmptySeq
<1>2. Head(seq) = seq[1]
  OBVIOUS
<1>3. rest = << >> => k = 0
  BY EmptySeq, Zenon
<1>4. rest # << >> => k \in Nat \ {0}
  BY <1>1, EmptySeq, Zenon
<1>. HIDE DEF rest, m, k
<1>5. rest = << >> => m = 1
  BY <1>1, <1>3
<1>6. rest # << >> => rest[k] = seq[m]
  BY <1>1, <1>4
<1>. QED
  BY <1>2, <1>5, <1>6, Zenon DEF rest, m, k

LEMMA LatestStep ==
  ASSUME TypeOK, LatestInv, [Next]_vars
  PROVE  LatestInv'
<1>. USE DEF opVars, bounds
<1>1. CASE UNCHANGED <<cr, cache, watch>>
  BY <1>1 DEF LatestInv
<1>2. ASSUME NEW o \in Operators, WatchDelivers(o) PROVE LatestInv'
  <2>1. /\ watch[o] \in Seq(CRs) /\ watch[o] # << >> /\ cr' = cr
        /\ cr = watch[o][Len(watch[o])]
        /\ cache'[o] = Head(watch[o]) /\ watch'[o] = Tail(watch[o])
        /\ \A p \in Operators \ {o} : cache'[p] = cache[p] /\ watch'[p] = watch[p]
    BY <1>2 DEF WatchDelivers, TypeOK, LatestInv
  <2>2. cr = IF watch'[o] = << >> THEN cache'[o] ELSE watch'[o][Len(watch'[o])]
    BY <2>1, LastOfTail
  <2>. QED
    BY <2>1, <2>2 DEF LatestInv
<1>3. ASSUME NEW new \in CRs, Commit(new), UNCHANGED cache PROVE LatestInv'
  BY <1>3, CommitIsLatest
<1>4. ASSUME NEW o \in Operators, AddFinalizer(o) PROVE LatestInv'
  <2>1. [cr EXCEPT !.finalizer = cr.finalizer \/ (cr.exists /\ ~cr.deleting)] \in CRs
    BY DEF CRs, TypeOK
  <2>. QED
    BY <1>3, <1>4, <2>1 DEF AddFinalizer
<1>5. ASSUME NEW o \in Operators, NEW pin \in Namespaces, NEW target \in BOOLEAN,
             PatchStatus(o, pin, target)
      PROVE  LatestInv'
  <2>1. [cr EXCEPT !.pin = pin, !.target = target] \in CRs
    BY DEF CRs, TypeOK
  <2>. QED
    BY <1>3, <1>5, <2>1 DEF PatchStatus
<1>6. ASSUME NEW o \in Operators, PatchWaiting(o) \/ PatchReady(o) PROVE LatestInv'
  BY <1>5, <1>6 DEF PatchWaiting, PatchReady, TypeOK
<1>7. ASSUME NEW o \in Operators, RemoveFinalizer(o) PROVE LatestInv'
  <2>1. [cr EXCEPT !.finalizer = FALSE, !.exists = cr.exists /\ ~cr.deleting] \in CRs
    BY DEF CRs, TypeOK
  <2>. QED
    BY <1>3, <1>7, <2>1 DEF RemoveFinalizer
<1>8. ASSUME NEW n \in Namespaces, EditNamespace(n) PROVE LatestInv'
  <2>1. [cr EXCEPT !.ns = n] \in CRs
    BY DEF CRs, TypeOK
  <2>. QED
    BY <1>3, <1>8, <2>1 DEF EditNamespace
<1>9. ASSUME DeleteAssistant PROVE LatestInv'
  <2>1. [cr EXCEPT !.deleting = TRUE, !.exists = cr.finalizer] \in CRs
    BY DEF CRs, TypeOK
  <2>. QED
    BY <1>3, <1>9, <2>1 DEF DeleteAssistant
<1>10. ASSUME NEW o \in Operators,
              \/ BeginFinalizer(o) \/ BeginApply(o) \/ CheckNamespace(o) \/ WriteObject(o)
              \/ ReadCerts(o) \/ EnsureJob(o) \/ WriteTarget(o) \/ PublishEvent(o)
              \/ BeginCleanup(o) \/ Purge(o) \/ ApiError(o)
       PROVE  UNCHANGED <<cr, cache, watch>>
  BY <1>10 DEF BeginFinalizer, BeginApply, CheckNamespace, WriteObject, ReadCerts, EnsureJob,
               WriteTarget, PublishEvent, BeginCleanup, Purge, ApiError
<1>11. ASSUME \/ \E n \in Namespaces : PodPublishes(n) \/ PodStops(n) \/ RotateCerts(n)
                                       \/ JobExpires(n)
              \/ CollectTarget \/ UNCHANGED vars
       PROVE  UNCHANGED <<cr, cache, watch>>
  BY <1>11 DEF PodPublishes, PodStops, RotateCerts, JobExpires, CollectTarget, vars
<1>. QED
  BY <1>1, <1>2, <1>4, <1>6, <1>7, <1>8, <1>9, <1>10, <1>11 DEF Next, Reconcile

(* What each step does to apply's record of the CR, with one operator: it   *)
(* begins from the CR itself, goes on, or ends; the CR's pin and target are *)
(* written at its end only.                                                 *)
LEMMA ApplyAlone ==
  ASSUME Prompt, TypeOK, LatestInv, [Next]_vars
  PROVE  \/ \E o \in Operators : BeginApply(o)
         \/ \E o \in Operators : PatchWaiting(o) \/ PatchReady(o)
         \/ /\ cr'.pin = cr.pin /\ cr'.target = cr.target
            /\ \A o \in Operators :
                  pc'[o] \in Building =>
                      /\ pc[o] \in Building
                      /\ at'[o] = at[o] /\ carried'[o] = carried[o]
                      /\ cr.exists /\ cr.finalizer => cr'.exists /\ cr'.finalizer
<1>. DEFINE Kept == /\ cr'.pin = cr.pin /\ cr'.target = cr.target
                    /\ \A o \in Operators :
                          pc'[o] \in Building =>
                              /\ pc[o] \in Building
                              /\ at'[o] = at[o] /\ carried'[o] = carried[o]
                              /\ cr.exists /\ cr.finalizer => cr'.exists /\ cr'.finalizer
<1>. USE DEF TypeOK, opVars, bounds
<1>1. ASSUME UNCHANGED <<cr, pc, at, carried>> PROVE Kept
  BY <1>1
<1>2. ASSUME NEW o \in Operators, WatchDelivers(o) PROVE Kept
  BY <1>1, <1>2 DEF WatchDelivers
<1>3. ASSUME NEW o \in Operators, BeginFinalizer(o) \/ AddFinalizer(o) \/ RemoveFinalizer(o)
      PROVE  Kept
  <2>1. /\ pc'[o] \in {"addFinalizer", "idle"} /\ \A p \in Operators : p = o
        /\ cr'.pin = cr.pin /\ cr'.target = cr.target
    BY <1>3 DEF BeginFinalizer, AddFinalizer, RemoveFinalizer, Goto, Commit, CRs, Prompt
  <2>. QED
    BY <2>1 DEF Building, Written, Rbac
<1>4. ASSUME NEW o \in Operators,
             \/ CheckNamespace(o) \/ WriteObject(o) \/ ReadCerts(o) \/ EnsureJob(o)
             \/ WriteTarget(o) \/ PublishEvent(o)
      PROVE  Kept
  <2>1. UNCHANGED <<cr, at, carried>> /\ \A p \in Operators : p = o
    BY <1>4 DEF CheckNamespace, WriteObject, ReadCerts, EnsureJob, WriteTarget, PublishEvent,
                Prompt
  <2>2. pc'[o] \in Building => pc[o] \in Building
    <3>1. CASE pc[o] = "deletedEvent"
      BY <1>4, <3>1 DEF CheckNamespace, WriteObject, ReadCerts, EnsureJob, WriteTarget,
                        PublishEvent, Goto, Next1, Then, Building, Written, Rbac
    <3>2. CASE pc[o] # "deletedEvent"
      BY <1>4, <3>2 DEF CheckNamespace, WriteObject, ReadCerts, EnsureJob, WriteTarget,
                        PublishEvent, Building
    <3>. QED
      BY <3>1, <3>2
  <2>. QED
    BY <2>1, <2>2
<1>5. ASSUME NEW o \in Operators, BeginCleanup(o) \/ Purge(o) \/ ApiError(o) PROVE Kept
  <2>1. UNCHANGED cr /\ \A p \in Operators : p = o
    BY <1>5 DEF BeginCleanup, Purge, ApiError, Prompt
  <2>2. pc'[o] \notin Building
    <3>1. CASE Purge(o)
      BY <3>1, PurgeOrder, ObjectNames DEF Purge, Goto, Next1
    <3>2. CASE BeginCleanup(o) \/ ApiError(o)
      BY <3>2 DEF BeginCleanup, ApiError, FirstPurge, Goto, Building, Written, Rbac
    <3>. QED
      BY <1>5, <3>1, <3>2
  <2>. QED
    BY <2>1, <2>2
<1>6. ASSUME NEW n \in Namespaces, EditNamespace(n) PROVE Kept
  BY <1>6 DEF EditNamespace, Commit, CRs
<1>7. ASSUME DeleteAssistant PROVE Kept
  BY <1>7 DEF DeleteAssistant, Commit, CRs
<1>8. ASSUME \/ \E n \in Namespaces : PodPublishes(n) \/ PodStops(n) \/ RotateCerts(n)
                                       \/ JobExpires(n)
             \/ CollectTarget \/ UNCHANGED vars
      PROVE  Kept
  BY <1>1, <1>8 DEF PodPublishes, PodStops, RotateCerts, JobExpires, CollectTarget, vars
<1>. QED
  BY <1>2, <1>3, <1>4, <1>5, <1>6, <1>7, <1>8 DEF Next, Reconcile

(* A patch of the status writes the pin and the target apply worked with.   *)
LEMMA PatchWrites ==
  ASSUME Prompt, TypeOK, NEW o \in Operators, PatchWaiting(o) \/ PatchReady(o)
  PROVE  /\ pc[o] \in Building /\ \A p \in Operators : p = o /\ pc'[p] \notin Building
         /\ cr' = [cr EXCEPT !.pin = at[o], !.target = cr'.target]
         /\ cr'.target \in {carried[o], TRUE}
         /\ UNCHANGED <<at, stack, pods>>
<1>1. pc'[o] = "idle" /\ pc[o] \in {"patchWaiting", "patchStatus"}
  BY DEF PatchWaiting, PatchReady, PatchStatus, Goto, TypeOK
<1>2. PICK target \in {carried[o], TRUE} : cr' = [cr EXCEPT !.pin = at[o], !.target = target]
  BY DEF PatchWaiting, PatchReady, PatchStatus, Commit
<1>3. cr'.target = target
  BY <1>2 DEF TypeOK, CRs
<1>. QED
  BY <1>1, <1>2, <1>3
  DEF PatchWaiting, PatchReady, PatchStatus, Prompt, Building, Written, Rbac

LEMMA PinStep ==
  ASSUME Prompt, TypeOK, LatestInv, PinInv, [Next]_vars
  PROVE  PinInv'
<1>1. ASSUME NEW o \in Operators, BeginApply(o) PROVE PinInv'
  <2>1. cr = cache[o] /\ cache[o].exists /\ cache[o].finalizer
    BY <1>1 DEF BeginApply, CanStart, LatestInv, Prompt
  <2>2. /\ cr' = cr /\ at'[o] = cr.ns /\ carried'[o] = cr.target
        /\ cr.pin \in {None, cr.ns} /\ \A p \in Operators : p = o
    BY <1>1, <2>1 DEF BeginApply, PinAllows, TypeOK, Prompt
  <2>. QED
    BY <2>1, <2>2 DEF PinInv
<1>2. ASSUME NEW o \in Operators, PatchWaiting(o) \/ PatchReady(o) PROVE PinInv'
  BY <1>2, PatchWrites DEF PinInv
<1>. QED
  BY <1>1, <1>2, ApplyAlone DEF PinInv

LEMMA PromptInv ==
  ASSUME Prompt
  PROVE  Spec => [](TypeOK /\ LatestInv /\ PinInv)
<1>1. Init => LatestInv /\ PinInv
  BY DEF Init, LatestInv, PinInv, Building, Written, Rbac
<1>2. TypeOK /\ LatestInv /\ PinInv /\ [Next]_vars => LatestInv' /\ PinInv'
  BY LatestStep, PinStep
<1>. QED
  BY TypeCorrect, <1>1, <1>2, PTL DEF Spec

(* No write to the CR takes the record away.                                *)
LEMMA PinStaysRecorded ==
  ASSUME TypeOK, [Next]_vars, cr.pin # None
  PROVE  cr'.pin # None
<1>. USE ConstantsOK DEF TypeOK, opVars, bounds
<1>1. ASSUME UNCHANGED cr PROVE cr'.pin # None
  BY <1>1
<1>2. ASSUME NEW o \in Operators, AddFinalizer(o) \/ RemoveFinalizer(o) PROVE cr'.pin # None
  BY <1>2 DEF AddFinalizer, RemoveFinalizer, Commit, CRs
<1>3. ASSUME NEW o \in Operators, PatchWaiting(o) \/ PatchReady(o) PROVE cr'.pin # None
  <2>1. PICK target : cr' = [cr EXCEPT !.pin = at[o], !.target = target]
    BY <1>3 DEF PatchWaiting, PatchReady, PatchStatus, Commit
  <2>. QED
    BY <2>1 DEF CRs
<1>4. ASSUME DeleteAssistant \/ \E n \in Namespaces : EditNamespace(n) PROVE cr'.pin # None
  BY <1>4 DEF DeleteAssistant, EditNamespace, Commit, CRs
<1>5. ASSUME NEW o \in Operators,
             \/ BeginFinalizer(o) \/ BeginApply(o) \/ CheckNamespace(o) \/ WriteObject(o)
             \/ ReadCerts(o) \/ EnsureJob(o) \/ WriteTarget(o) \/ PublishEvent(o)
             \/ BeginCleanup(o) \/ Purge(o) \/ ApiError(o) \/ WatchDelivers(o)
      PROVE  UNCHANGED cr
  BY <1>5 DEF BeginFinalizer, BeginApply, CheckNamespace, WriteObject, ReadCerts, EnsureJob,
              WriteTarget, PublishEvent, BeginCleanup, Purge, ApiError, WatchDelivers
<1>6. ASSUME \/ \E n \in Namespaces : PodPublishes(n) \/ PodStops(n) \/ RotateCerts(n)
                                      \/ JobExpires(n)
             \/ CollectTarget \/ UNCHANGED vars
      PROVE  UNCHANGED cr
  BY <1>6 DEF PodPublishes, PodStops, RotateCerts, JobExpires, CollectTarget, vars
<1>. QED
  BY <1>1, <1>2, <1>3, <1>4, <1>5, <1>6 DEF Next, Reconcile

(* A recorded sandbox namespace is never changed or dropped, whatever is    *)
(* edited and whatever fails (check_pin, patch_waiting): with reconciles    *)
(* that see the latest CR, or with edits that wait for the record.          *)
THEOREM PinIsKept ==
  ASSUME Prompt \/ ~EarlyEdits
  PROVE  Spec => PinKept
<1>1. ASSUME Prompt PROVE Spec => PinKept
  <2>1. TypeOK /\ LatestInv /\ PinInv /\ [Next]_vars => (cr.pin # None => cr'.pin = cr.pin)
    <3>. SUFFICES ASSUME TypeOK, LatestInv, PinInv, [Next]_vars, cr.pin # None
                  PROVE  cr'.pin = cr.pin
      OBVIOUS
    <3>1. ASSUME NEW o \in Operators, BeginApply(o) PROVE cr'.pin = cr.pin
      BY <3>1 DEF BeginApply
    <3>2. ASSUME NEW o \in Operators, PatchWaiting(o) \/ PatchReady(o) PROVE cr'.pin = cr.pin
      BY <1>1, <3>2, PatchWrites DEF PinInv, TypeOK, CRs
    <3>. QED
      BY <1>1, <3>1, <3>2, ApplyAlone
  <2>. QED
    BY <1>1, <2>1, PromptInv, PTL DEF PinKept, Spec
<1>2. ASSUME ~EarlyEdits PROVE Spec => PinKept
  <2>1. TypeOK /\ HomeInv /\ [Next]_vars => (cr.pin # None => cr'.pin = cr.pin)
    <3>. SUFFICES ASSUME TypeOK, HomeInv, [Next]_vars, cr.pin # None
                  PROVE  cr'.pin = cr.pin
      OBVIOUS
    <3>1. StackNamespace(cr') = cr.pin
      BY <1>2, HomeStays DEF StackNamespace
    <3>2. cr'.pin # None
      BY PinStaysRecorded
    <3>. QED
      BY <3>1, <3>2 DEF StackNamespace
  <2>. QED
    BY <1>2, <2>1, AlwaysHome, PTL DEF PinKept, Spec
<1>. QED
  BY <1>1, <1>2

(* Once the namespace is recorded, nothing of the stack is created in any   *)
(* other one, whatever is edited and whatever fails, when reconciles see    *)
(* the latest CR.                                                           *)
THEOREM PinConfinesStack ==
  ASSUME Prompt
  PROVE  Spec => PinConfines
<1>. DEFINE Confined == cr.pin # None =>
               \A n \in Namespaces \ {cr.pin} :
                  Sandbox(n)' \subseteq Sandbox(n) \union (IF n \in pods THEN {"tls"} ELSE {})
<1>1. TypeOK /\ LatestInv /\ PinInv /\ [Next]_vars => Confined
  <2>. SUFFICES ASSUME TypeOK, PinInv, [Next]_vars, cr.pin # None,
                       NEW n \in Namespaces \ {cr.pin}
                PROVE  Sandbox(n)' \subseteq Sandbox(n) \union (IF n \in pods THEN {"tls"} ELSE {})
    OBVIOUS
  <2>1. ~ \E o \in Operators : pc[o] \in Building /\ at[o] = n
    BY DEF PinInv
  <2>. QED
    BY <2>1, GrowsWhereItWorks
<1>. QED
  BY PromptInv, <1>1, PTL DEF PinConfines, Spec

(* Once the target Secret is recorded in the status it stays recorded,      *)
(* however often certificates are rotated (patch_waiting carries it along). *)
THEOREM TargetIsKept ==
  ASSUME Prompt
  PROVE  Spec => TargetKept
<1>1. TypeOK /\ LatestInv /\ PinInv /\ [Next]_vars => (cr.target => cr'.target)
  <2>. SUFFICES ASSUME TypeOK, LatestInv, PinInv, [Next]_vars, cr.target
                PROVE  cr'.target
    OBVIOUS
  <2>1. ASSUME NEW o \in Operators, BeginApply(o) PROVE cr'.target
    BY <2>1 DEF BeginApply
  <2>2. ASSUME NEW o \in Operators, PatchWaiting(o) \/ PatchReady(o) PROVE cr'.target
    <3>1. carried[o] = cr.target /\ cr'.target \in {carried[o], TRUE}
      BY <2>2, PatchWrites DEF PinInv
    <3>. QED
      BY <3>1
  <2>. QED
    BY <2>1, <2>2, ApplyAlone
<1>. QED
  BY PromptInv, <1>1, PTL DEF TargetKept, Spec
=============================================================================

------------------------- MODULE CertBootstrapProofs -------------------------
(***************************************************************************)
(* Proofs about the mTLS bootstrap, for any number of operators, attempts, *)
(* failures and rotations.                                                 *)
(***************************************************************************)
EXTENDS CertBootstrap, TLAPS

(* A Job's first attempt is one already started or the next to start.       *)
FirstInv == job.first <= lastGen + 1

(* Attempts: the one the Job counts as its own is the newest, and it only   *)
(* lives while the Job does.                                                *)
AttemptInv ==
    \A g \in Gens :
        /\ pod[g] # "unborn" => g <= lastGen
        /\ Live(g) /\ g \notin evicted =>
              /\ g = lastGen /\ g >= job.first
              /\ job.phase = "running" /\ job.failures <= BackoffLimit

(* The grant: what each step of the bootstrap path already stands on.       *)
GrantInv ==
    /\ \A o \in Operators :
          /\ pc[o] \in {"Role", "RoleBinding"} => "ServiceAccount" \in rbac
          /\ pc[o] = "RoleBinding" => "Role" \in rbac
          /\ pc[o] \in {"getJob", "deleteJob", "probeJob", "createJob"} => rbac = RbacKinds
    /\ job.phase = "running" => rbac = RbacKinds
    /\ (\E g \in Gens : Live(g)) => rbac = RbacKinds

BootstrapInv == TypeOK /\ FirstInv /\ AttemptInv /\ GrantInv

(* A single operator and no pod replaced while it still runs.               *)
Undisturbed == /\ \A o1, o2 \in Operators : o1 = o2
               /\ "evict" \notin Faults

(* What one CA's attempt has published so far, and what it leaves behind.   *)
PairInv ==
    /\ evicted = {}
    /\ \A o \in Operators : pc[o] = "deleteJob" => job.phase # "running"
    /\ \A g \in Gens :
          /\ pod[g] \in {"publishRunner", "exit"} => secret.api \in {0, g}
          /\ pod[g] = "exit" => secret.runner \in {0, g}
          /\ g \in JobPods /\ pod[g] = "succeeded" /\ job.phase \in {"running", "complete"}
                => g = lastGen /\ secret.api \in {0, g} /\ secret.runner \in {0, g}
    /\ job.phase = "complete" => \E g \in JobPods : pod[g] = "succeeded"

LEMMA InitBootstrap == Init => BootstrapInv
<1>. USE ConstantsOK DEF Init, Gens, Running
<1>1. Init => TypeOK
  <2>. SUFFICES ASSUME Init PROVE TypeOK
    OBVIOUS
  <2>1. job \in [phase : {"absent", "running", "complete", "failed"},
                 first : 0..MaxGen + 1, failures : 0..BackoffLimit + 1]
    BY DEF NoJob
  <2>2. /\ pc \in [Operators -> OpStates]
        /\ seen \in [Operators -> [Sides -> 0..MaxGen]]
        /\ secret \in [Sides -> 0..MaxGen] /\ rolled \in [Sides -> 0..MaxGen]
        /\ pod \in [Gens -> PodStates]
    BY DEF OpStates, PodStates
  <2>3. /\ lastGen \in 0..MaxGen /\ faults \in 0..MaxFaults
        /\ rotations \in 0..MaxRotations
    OBVIOUS
  <2>. QED
    BY <2>1, <2>2, <2>3 DEF TypeOK
<1>2. Init => FirstInv /\ AttemptInv
  BY DEF FirstInv, AttemptInv, Live, NoJob
<1>3. Init => GrantInv
  BY DEF GrantInv, Live, NoJob
<1>. QED
  BY <1>1, <1>2, <1>3 DEF BootstrapInv

(* A failure is counted at most once per attempt, and never beyond the one  *)
(* that exhausts the Job.                                                   *)
LEMMA CountsOnce ==
  ASSUME TypeOK, AttemptInv, NEW g \in Gens, CountFailure(g)
  PROVE  job' \in [phase : {"absent", "running", "complete", "failed"},
                   first : 0..MaxGen + 1, failures : 0..BackoffLimit + 1]
<1>1. CASE Active(g)
  <2>1. job.failures <= BackoffLimit
    BY <1>1 DEF AttemptInv, Active
  <2>. QED
    BY <1>1, <2>1, ConstantsOK DEF CountFailure, TypeOK
<1>2. CASE ~Active(g)
  BY <1>2 DEF CountFailure, TypeOK
<1>. QED
  BY <1>1, <1>2

(* The shape of the state survives every step.                              *)
LEMMA TypeStep ==
  ASSUME TypeOK, AttemptInv, [Next]_vars
  PROVE  TypeOK'
<1>. USE ConstantsOK DEF TypeOK, Sides, RbacKinds, Gens, OpStates, PodStates, Running,
                         NoJob, opVars, podVars, stackVars
<1>1. ASSUME NEW o \in Operators, ReadApiTls(o) PROVE TypeOK'
  BY <1>1 DEF ReadApiTls, Goto
<1>2. ASSUME NEW o \in Operators, ReadRunnerTls(o) PROVE TypeOK'
  BY <1>2 DEF ReadRunnerTls, Goto
<1>3. ASSUME NEW o \in Operators, ApplyRbac(o) PROVE TypeOK'
  BY <1>3 DEF ApplyRbac, AfterRbac, Goto
<1>4. ASSUME NEW o \in Operators, GetJob(o) PROVE TypeOK'
  BY <1>4 DEF GetJob, JobFinished, Goto
<1>5. ASSUME NEW o \in Operators, DeleteJob(o) PROVE TypeOK'
  <2>1. job' \in [phase : {"absent", "running", "complete", "failed"},
                  first : 0..MaxGen + 1, failures : 0..BackoffLimit + 1]
    BY <1>5 DEF DeleteJob
  <2>2. evicted' \subseteq Gens
    BY <1>5 DEF DeleteJob, JobPods
  <2>3. pc' \in [Operators -> OpStates]
    BY <1>5 DEF DeleteJob, Goto
  <2>. QED
    BY <1>5, <2>1, <2>2, <2>3 DEF DeleteJob
<1>6. ASSUME NEW o \in Operators, ProbeJob(o) PROVE TypeOK'
  BY <1>6 DEF ProbeJob, Goto
<1>7. ASSUME NEW o \in Operators, CreateJob(o) PROVE TypeOK'
  BY <1>7 DEF CreateJob, Goto
<1>8. ASSUME NEW o \in Operators, PatchWaiting(o) PROVE TypeOK'
  BY <1>8 DEF PatchWaiting, Goto
<1>9. ASSUME NEW o \in Operators, ApplyApiDeployment(o) PROVE TypeOK'
  <2>1. seen[o] \in [Sides -> 0..MaxGen]
    OBVIOUS
  <2>2. rolled' \in [Sides -> 0..MaxGen]
    BY <1>9, <2>1 DEF ApplyApiDeployment
  <2>3. pc' \in [Operators -> OpStates]
    BY <1>9 DEF ApplyApiDeployment, Goto
  <2>. QED
    BY <1>9, <2>2, <2>3 DEF ApplyApiDeployment
<1>10. ASSUME NEW o \in Operators, ApplyRunnerDeployment(o) PROVE TypeOK'
  <2>1. seen[o] \in [Sides -> 0..MaxGen]
    OBVIOUS
  <2>2. rolled' \in [Sides -> 0..MaxGen]
    BY <1>10, <2>1 DEF ApplyRunnerDeployment
  <2>3. pc' \in [Operators -> OpStates]
    BY <1>10 DEF ApplyRunnerDeployment, Goto
  <2>. QED
    BY <1>10, <2>2, <2>3 DEF ApplyRunnerDeployment
<1>11. ASSUME NEW o \in Operators, PatchReady(o) PROVE TypeOK'
  BY <1>11 DEF PatchReady, Goto
<1>12. ASSUME NEW o \in Operators, ApiError(o) PROVE TypeOK'
  BY <1>12 DEF ApiError, Fault, Goto
<1>13. ASSUME NEW g \in Gens, PublishApi(g) PROVE TypeOK'
  <2>0. g \in 0..MaxGen
    OBVIOUS
  <2>1. secret' \in [Sides -> 0..MaxGen]
    BY <1>13, <2>0 DEF PublishApi, Published
  <2>2. pod' \in [Gens -> PodStates]
    BY <1>13 DEF PublishApi
  <2>. QED
    BY <1>13, <2>1, <2>2 DEF PublishApi
<1>14. ASSUME NEW g \in Gens, PublishRunner(g) PROVE TypeOK'
  <2>0. g \in 0..MaxGen
    OBVIOUS
  <2>1. secret' \in [Sides -> 0..MaxGen]
    BY <1>14, <2>0 DEF PublishRunner, Published
  <2>2. pod' \in [Gens -> PodStates]
    BY <1>14 DEF PublishRunner
  <2>. QED
    BY <1>14, <2>1, <2>2 DEF PublishRunner
<1>15. ASSUME NEW g \in Gens, ExitZero(g) PROVE TypeOK'
  BY <1>15 DEF ExitZero
<1>16. ASSUME NEW g \in Gens, AttemptFails(g) PROVE TypeOK'
  <2>1. job' \in [phase : {"absent", "running", "complete", "failed"},
                  first : 0..MaxGen + 1, failures : 0..BackoffLimit + 1]
    BY <1>16, CountsOnce DEF AttemptFails
  <2>2. pod' \in [Gens -> PodStates]
    BY <1>16 DEF AttemptFails
  <2>3. faults' \in 0..MaxFaults
    BY <1>16 DEF AttemptFails, Fault
  <2>. QED
    BY <1>16, <2>1, <2>2, <2>3 DEF AttemptFails
<1>17. ASSUME NEW g \in Gens, EvictPod(g) PROVE TypeOK'
  <2>1. job' \in [phase : {"absent", "running", "complete", "failed"},
                  first : 0..MaxGen + 1, failures : 0..BackoffLimit + 1]
    BY <1>17, CountsOnce DEF EvictPod
  <2>2. faults' \in 0..MaxFaults
    BY <1>17 DEF EvictPod, Fault
  <2>. QED
    BY <1>17, <2>1, <2>2 DEF EvictPod
<1>18. ASSUME NEW g \in Gens, GracePeriodEnds(g) PROVE TypeOK'
  BY <1>18 DEF GracePeriodEnds
<1>19. ASSUME StartPod PROVE TypeOK'
  BY <1>19 DEF StartPod, Active, JobPods
<1>20. ASSUME JobCompletes PROVE TypeOK'
  BY <1>20 DEF JobCompletes, JobEnds, JobPods
<1>21. ASSUME JobFails PROVE TypeOK'
  BY <1>21 DEF JobFails, JobEnds, JobPods
<1>22. ASSUME JobExpires PROVE TypeOK'
  BY <1>22 DEF JobExpires, JobFinished
<1>23. ASSUME NEW s \in Sides, DeleteTlsSecret(s) PROVE TypeOK'
  BY <1>23 DEF DeleteTlsSecret
<1>24. ASSUME WidenRole PROVE TypeOK'
  BY <1>24 DEF WidenRole
<1>25. CASE UNCHANGED vars
  BY <1>25 DEF vars
<1>. QED
  BY <1>1, <1>2, <1>3, <1>4, <1>5, <1>6, <1>7, <1>8, <1>9, <1>10, <1>11,
     <1>12, <1>13, <1>14, <1>15, <1>16, <1>17, <1>18, <1>19, <1>20, <1>21,
     <1>22, <1>23, <1>24, <1>25
  DEF Next, OperatorStep, TlspubStep, JobController

LEMMA FirstStep ==
  ASSUME TypeOK, FirstInv, [Next]_vars
  PROVE  FirstInv'
<1>. USE ConstantsOK DEF TypeOK, FirstInv, NoJob, opVars, podVars, stackVars, Gens
<1>1. ASSUME NEW o \in Operators, ReadApiTls(o) PROVE FirstInv'
  BY <1>1 DEF ReadApiTls, Goto
<1>2. ASSUME NEW o \in Operators, ReadRunnerTls(o) PROVE FirstInv'
  BY <1>2 DEF ReadRunnerTls, Goto
<1>3. ASSUME NEW o \in Operators, ApplyRbac(o) PROVE FirstInv'
  BY <1>3 DEF ApplyRbac, AfterRbac, Goto
<1>4. ASSUME NEW o \in Operators, GetJob(o) PROVE FirstInv'
  BY <1>4 DEF GetJob, JobFinished, Goto
<1>5. ASSUME NEW o \in Operators, DeleteJob(o) PROVE FirstInv'
  BY <1>5 DEF DeleteJob, JobPods, Goto
<1>6. ASSUME NEW o \in Operators, ProbeJob(o) PROVE FirstInv'
  BY <1>6 DEF ProbeJob, Goto
<1>7. ASSUME NEW o \in Operators, CreateJob(o) PROVE FirstInv'
  BY <1>7 DEF CreateJob, Goto
<1>8. ASSUME NEW o \in Operators, PatchWaiting(o) PROVE FirstInv'
  BY <1>8 DEF PatchWaiting, Goto
<1>9. ASSUME NEW o \in Operators, ApplyApiDeployment(o) PROVE FirstInv'
  BY <1>9 DEF ApplyApiDeployment, Goto
<1>10. ASSUME NEW o \in Operators, ApplyRunnerDeployment(o) PROVE FirstInv'
  BY <1>10 DEF ApplyRunnerDeployment, Goto
<1>11. ASSUME NEW o \in Operators, PatchReady(o) PROVE FirstInv'
  BY <1>11 DEF PatchReady, Goto
<1>12. ASSUME NEW o \in Operators, ApiError(o) PROVE FirstInv'
  BY <1>12 DEF ApiError, Fault, Goto
<1>13. ASSUME NEW g \in Gens, PublishApi(g) PROVE FirstInv'
  BY <1>13 DEF PublishApi, Published
<1>14. ASSUME NEW g \in Gens, PublishRunner(g) PROVE FirstInv'
  BY <1>14 DEF PublishRunner, Published
<1>15. ASSUME NEW g \in Gens, ExitZero(g) PROVE FirstInv'
  BY <1>15 DEF ExitZero
<1>16. ASSUME NEW g \in Gens, AttemptFails(g) PROVE FirstInv'
  BY <1>16 DEF AttemptFails, CountFailure, Active, JobPods, Fault
<1>17. ASSUME NEW g \in Gens, EvictPod(g) PROVE FirstInv'
  BY <1>17 DEF EvictPod, CountFailure, Active, JobPods, Fault
<1>18. ASSUME NEW g \in Gens, GracePeriodEnds(g) PROVE FirstInv'
  BY <1>18 DEF GracePeriodEnds
<1>19. ASSUME StartPod PROVE FirstInv'
  BY <1>19 DEF StartPod, Active, JobPods
<1>20. ASSUME JobCompletes PROVE FirstInv'
  BY <1>20 DEF JobCompletes, JobEnds, JobPods
<1>21. ASSUME JobFails PROVE FirstInv'
  BY <1>21 DEF JobFails, JobEnds, JobPods
<1>22. ASSUME JobExpires PROVE FirstInv'
  BY <1>22 DEF JobExpires, JobFinished
<1>23. ASSUME NEW s \in Sides, DeleteTlsSecret(s) PROVE FirstInv'
  BY <1>23 DEF DeleteTlsSecret
<1>24. ASSUME WidenRole PROVE FirstInv'
  BY <1>24 DEF WidenRole
<1>25. CASE UNCHANGED vars
  BY <1>25 DEF vars
<1>. QED
  BY <1>1, <1>2, <1>3, <1>4, <1>5, <1>6, <1>7, <1>8, <1>9, <1>10, <1>11,
     <1>12, <1>13, <1>14, <1>15, <1>16, <1>17, <1>18, <1>19, <1>20, <1>21,
     <1>22, <1>23, <1>24, <1>25
  DEF Next, OperatorStep, TlspubStep, JobController

LEMMA AttemptStep ==
  ASSUME TypeOK, FirstInv, AttemptInv, [Next]_vars
  PROVE  AttemptInv'
<1>. USE ConstantsOK DEF TypeOK, AttemptInv, Live, Gens, Running,
                         NoJob, opVars, podVars, stackVars
<1>1. ASSUME NEW o \in Operators, ReadApiTls(o) PROVE AttemptInv'
  BY <1>1 DEF ReadApiTls, Goto
<1>2. ASSUME NEW o \in Operators, ReadRunnerTls(o) PROVE AttemptInv'
  BY <1>2 DEF ReadRunnerTls, Goto
<1>3. ASSUME NEW o \in Operators, ApplyRbac(o) PROVE AttemptInv'
  BY <1>3 DEF ApplyRbac, AfterRbac, Goto
<1>4. ASSUME NEW o \in Operators, GetJob(o) PROVE AttemptInv'
  BY <1>4 DEF GetJob, JobFinished, Goto
<1>5. ASSUME NEW o \in Operators, DeleteJob(o) PROVE AttemptInv'
  BY <1>5 DEF DeleteJob, JobPods, Goto
<1>6. ASSUME NEW o \in Operators, ProbeJob(o) PROVE AttemptInv'
  BY <1>6 DEF ProbeJob, Goto
<1>7. ASSUME NEW o \in Operators, CreateJob(o) PROVE AttemptInv'
  BY <1>7 DEF CreateJob, Goto
<1>8. ASSUME NEW o \in Operators, PatchWaiting(o) PROVE AttemptInv'
  BY <1>8 DEF PatchWaiting, Goto
<1>9. ASSUME NEW o \in Operators, ApplyApiDeployment(o) PROVE AttemptInv'
  BY <1>9 DEF ApplyApiDeployment, Goto
<1>10. ASSUME NEW o \in Operators, ApplyRunnerDeployment(o) PROVE AttemptInv'
  BY <1>10 DEF ApplyRunnerDeployment, Goto
<1>11. ASSUME NEW o \in Operators, PatchReady(o) PROVE AttemptInv'
  BY <1>11 DEF PatchReady, Goto
<1>12. ASSUME NEW o \in Operators, ApiError(o) PROVE AttemptInv'
  BY <1>12 DEF ApiError, Fault, Goto
<1>13. ASSUME NEW g \in Gens, PublishApi(g) PROVE AttemptInv'
  BY <1>13 DEF PublishApi, Published
<1>14. ASSUME NEW g \in Gens, PublishRunner(g) PROVE AttemptInv'
  BY <1>14 DEF PublishRunner, Published
<1>15. ASSUME NEW g \in Gens, ExitZero(g) PROVE AttemptInv'
  BY <1>15 DEF ExitZero
<1>16. ASSUME NEW g \in Gens, AttemptFails(g) PROVE AttemptInv'
  BY <1>16 DEF AttemptFails, CountFailure, Active, JobPods, Fault
<1>17. ASSUME NEW g \in Gens, EvictPod(g) PROVE AttemptInv'
  BY <1>17 DEF EvictPod, CountFailure, Active, JobPods, Fault
<1>18. ASSUME NEW g \in Gens, GracePeriodEnds(g) PROVE AttemptInv'
  BY <1>18 DEF GracePeriodEnds
<1>19. ASSUME StartPod PROVE AttemptInv'
  <2>1. /\ lastGen + 1 \in Gens
        /\ pod' = [pod EXCEPT ![lastGen + 1] = "publishApi"]
        /\ lastGen' = lastGen + 1
        /\ job.phase = "running" /\ job.failures <= BackoffLimit
        /\ UNCHANGED <<job, evicted>>
    BY <1>19 DEF StartPod
  <2>2. \A g \in Gens : ~ (Live(g) /\ g \notin evicted)
    BY <1>19 DEF StartPod, Active, JobPods
  <2>3. lastGen + 1 >= job.first
    BY <2>1 DEF FirstInv
  <2>. QED
    BY <2>1, <2>2, <2>3
<1>20. ASSUME JobCompletes PROVE AttemptInv'
  BY <1>20 DEF JobCompletes, JobEnds, JobPods
<1>21. ASSUME JobFails PROVE AttemptInv'
  BY <1>21 DEF JobFails, JobEnds, JobPods
<1>22. ASSUME JobExpires PROVE AttemptInv'
  BY <1>22 DEF JobExpires, JobFinished
<1>23. ASSUME NEW s \in Sides, DeleteTlsSecret(s) PROVE AttemptInv'
  BY <1>23 DEF DeleteTlsSecret
<1>24. ASSUME WidenRole PROVE AttemptInv'
  BY <1>24 DEF WidenRole
<1>25. CASE UNCHANGED vars
  BY <1>25 DEF vars
<1>. QED
  BY <1>1, <1>2, <1>3, <1>4, <1>5, <1>6, <1>7, <1>8, <1>9, <1>10, <1>11,
     <1>12, <1>13, <1>14, <1>15, <1>16, <1>17, <1>18, <1>19, <1>20, <1>21,
     <1>22, <1>23, <1>24, <1>25
  DEF Next, OperatorStep, TlspubStep, JobController

LEMMA GrantStep ==
  ASSUME TypeOK, AttemptInv, GrantInv, [Next]_vars
  PROVE  GrantInv'
<1>. USE ConstantsOK DEF TypeOK, GrantInv, Live, Gens, Running, RbacKinds,
                         NoJob, opVars, podVars, stackVars
<1>1. ASSUME NEW o \in Operators, ReadApiTls(o) PROVE GrantInv'
  BY <1>1 DEF ReadApiTls, Goto
<1>2. ASSUME NEW o \in Operators, ReadRunnerTls(o) PROVE GrantInv'
  BY <1>2 DEF ReadRunnerTls, Goto
<1>3. ASSUME NEW o \in Operators, ApplyRbac(o) PROVE GrantInv'
  BY <1>3 DEF ApplyRbac, AfterRbac, Goto
<1>4. ASSUME NEW o \in Operators, GetJob(o) PROVE GrantInv'
  BY <1>4 DEF GetJob, JobFinished, Goto
<1>5. ASSUME NEW o \in Operators, DeleteJob(o) PROVE GrantInv'
  BY <1>5 DEF DeleteJob, JobPods, Goto
<1>6. ASSUME NEW o \in Operators, ProbeJob(o) PROVE GrantInv'
  BY <1>6 DEF ProbeJob, Goto
<1>7. ASSUME NEW o \in Operators, CreateJob(o) PROVE GrantInv'
  BY <1>7 DEF CreateJob, Goto
<1>8. ASSUME NEW o \in Operators, PatchWaiting(o) PROVE GrantInv'
  BY <1>8 DEF PatchWaiting, Goto
<1>9. ASSUME NEW o \in Operators, ApplyApiDeployment(o) PROVE GrantInv'
  BY <1>9 DEF ApplyApiDeployment, Goto
<1>10. ASSUME NEW o \in Operators, ApplyRunnerDeployment(o) PROVE GrantInv'
  BY <1>10 DEF ApplyRunnerDeployment, Goto
<1>11. ASSUME NEW o \in Operators, PatchReady(o) PROVE GrantInv'
  BY <1>11 DEF PatchReady, Goto
<1>12. ASSUME NEW o \in Operators, ApiError(o) PROVE GrantInv'
  BY <1>12 DEF ApiError, Fault, Goto
<1>13. ASSUME NEW g \in Gens, PublishApi(g) PROVE GrantInv'
  BY <1>13 DEF PublishApi, Published
<1>14. ASSUME NEW g \in Gens, PublishRunner(g) PROVE GrantInv'
  BY <1>14 DEF PublishRunner, Published
<1>15. ASSUME NEW g \in Gens, ExitZero(g) PROVE GrantInv'
  BY <1>15 DEF ExitZero
<1>16. ASSUME NEW g \in Gens, AttemptFails(g) PROVE GrantInv'
  BY <1>16 DEF AttemptFails, CountFailure, Active, JobPods, Fault
<1>17. ASSUME NEW g \in Gens, EvictPod(g) PROVE GrantInv'
  BY <1>17 DEF EvictPod, CountFailure, Active, JobPods, Fault
<1>18. ASSUME NEW g \in Gens, GracePeriodEnds(g) PROVE GrantInv'
  BY <1>18 DEF GracePeriodEnds
<1>19. ASSUME StartPod PROVE GrantInv'
  BY <1>19 DEF StartPod, Active, JobPods
<1>20. ASSUME JobCompletes PROVE GrantInv'
  BY <1>20 DEF JobCompletes, JobEnds, JobPods
<1>21. ASSUME JobFails PROVE GrantInv'
  BY <1>21 DEF JobFails, JobEnds, JobPods
<1>22. ASSUME JobExpires PROVE GrantInv'
  BY <1>22 DEF JobExpires, JobFinished
<1>23. ASSUME NEW s \in Sides, DeleteTlsSecret(s) PROVE GrantInv'
  BY <1>23 DEF DeleteTlsSecret
<1>24. ASSUME WidenRole PROVE GrantInv'
  BY <1>24 DEF WidenRole
<1>25. CASE UNCHANGED vars
  BY <1>25 DEF vars
<1>. QED
  BY <1>1, <1>2, <1>3, <1>4, <1>5, <1>6, <1>7, <1>8, <1>9, <1>10, <1>11,
     <1>12, <1>13, <1>14, <1>15, <1>16, <1>17, <1>18, <1>19, <1>20, <1>21,
     <1>22, <1>23, <1>24, <1>25
  DEF Next, OperatorStep, TlspubStep, JobController

LEMMA BootstrapInvariant == Spec => []BootstrapInv
<1>1. BootstrapInv /\ [Next]_vars => BootstrapInv'
  BY TypeStep, FirstStep, AttemptStep, GrantStep DEF BootstrapInv
<1>. QED
  BY InitBootstrap, <1>1, PTL DEF Spec

(* TypeOK for every value of the constants.                                 *)
THEOREM TypeCorrect == Spec => []TypeOK
<1>1. BootstrapInv => TypeOK
  BY DEF BootstrapInv
<1>. QED
  BY BootstrapInvariant, <1>1, PTL

(* No attempt of the Job ever runs without the grant it publishes with,     *)
(* whatever the number of operators and the failures.                       *)
THEOREM GrantPrecedesAttempts == Spec => []AttemptsCanPublish
<1>1. BootstrapInv => AttemptsCanPublish
  BY DEF BootstrapInv, GrantInv, AttemptsCanPublish
<1>. QED
  BY BootstrapInvariant, <1>1, PTL

-----------------------------------------------------------------------------

LEMMA JobPodsType == JobPods \subseteq Gens
  BY DEF JobPods

LEMMA PairStep ==
  ASSUME Undisturbed, TypeOK, FirstInv, AttemptInv, PairInv, [Next]_vars
  PROVE  PairInv'
<1>. USE ConstantsOK DEF TypeOK, PairInv, Live, Gens, Running, Sides,
                         NoJob, opVars, podVars, stackVars
<1>1. ASSUME NEW o \in Operators, ReadApiTls(o) PROVE PairInv'
  BY <1>1 DEF ReadApiTls, Goto, JobPods
<1>2. ASSUME NEW o \in Operators, ReadRunnerTls(o) PROVE PairInv'
  BY <1>2 DEF ReadRunnerTls, Goto, JobPods
<1>3. ASSUME NEW o \in Operators, ApplyRbac(o) PROVE PairInv'
  <2>1. AfterRbac[pc[o]] # "deleteJob"
    BY <1>3 DEF ApplyRbac, AfterRbac, RbacKinds
  <2>2. UNCHANGED <<secret, job, pod, evicted, lastGen>>
    BY <1>3 DEF ApplyRbac
  <2>3. \A p \in Operators : pc'[p] = "deleteJob" => pc[p] = "deleteJob"
    BY <1>3, <2>1 DEF ApplyRbac, Goto
  <2>. QED
    BY <2>2, <2>3 DEF JobPods
<1>4. ASSUME NEW o \in Operators, GetJob(o) PROVE PairInv'
  BY <1>4 DEF GetJob, JobFinished, Goto, JobPods
<1>5. ASSUME NEW o \in Operators, DeleteJob(o) PROVE PairInv'
  <2>1. job.phase # "running"
    BY <1>5 DEF DeleteJob
  <2>2. \A g \in JobPods : ~ Live(g)
    BY <2>1 DEF AttemptInv, JobPods
  <2>3. evicted' = {} /\ job' = NoJob /\ UNCHANGED <<secret, pod, lastGen>>
    BY <1>5, <2>2 DEF DeleteJob
  <2>. QED
    BY <2>3, JobPodsType DEF JobPods
<1>6. ASSUME NEW o \in Operators, ProbeJob(o) PROVE PairInv'
  BY <1>6 DEF ProbeJob, Goto, JobPods
<1>7. ASSUME NEW o \in Operators, CreateJob(o) PROVE PairInv'
  <2>1. \A p \in Operators : pc'[p] # "deleteJob"
    BY <1>7 DEF CreateJob, Goto, Undisturbed
  <2>2. CASE job.phase = "absent"
    <3>1. /\ job' = [phase |-> "running", first |-> lastGen + 1, failures |-> 0]
          /\ UNCHANGED <<secret, pod, lastGen, evicted>>
      BY <1>7, <2>2 DEF CreateJob
    <3>2. JobPods' = {}
      BY <3>1 DEF JobPods, AttemptInv
    <3>. QED
      BY <2>1, <3>1, <3>2
  <2>3. CASE job.phase # "absent"
    BY <1>7, <2>1, <2>3 DEF CreateJob, JobPods
  <2>. QED
    BY <2>2, <2>3
<1>8. ASSUME NEW o \in Operators, PatchWaiting(o) PROVE PairInv'
  BY <1>8 DEF PatchWaiting, Goto, JobPods
<1>9. ASSUME NEW o \in Operators, ApplyApiDeployment(o) PROVE PairInv'
  BY <1>9 DEF ApplyApiDeployment, Goto, JobPods
<1>10. ASSUME NEW o \in Operators, ApplyRunnerDeployment(o) PROVE PairInv'
  BY <1>10 DEF ApplyRunnerDeployment, Goto, JobPods
<1>11. ASSUME NEW o \in Operators, PatchReady(o) PROVE PairInv'
  BY <1>11 DEF PatchReady, Goto, JobPods
<1>12. ASSUME NEW o \in Operators, ApiError(o) PROVE PairInv'
  BY <1>12 DEF ApiError, Fault, Goto, JobPods
<1>13. ASSUME NEW g \in Gens, PublishApi(g) PROVE PairInv'
  <2>1. /\ Live(g) /\ g = lastGen /\ g >= job.first /\ job.phase = "running"
        /\ pod' = [pod EXCEPT ![g] = "publishRunner"]
        /\ secret' = [secret EXCEPT !.api = g]
        /\ UNCHANGED <<lastGen, evicted, job, pc>>
    BY <1>13 DEF PublishApi, Published, AttemptInv
  <2>2. secret'.api = g /\ secret'.runner = secret.runner
    BY <2>1
  <2>3. g \in JobPods /\ JobPods' = JobPods
    BY <2>1 DEF JobPods
  <2>4. \A h \in Gens : h # g => ~ Live(h)
    BY <2>1 DEF AttemptInv
  <2>5. \A h \in JobPods : pod[h] # "succeeded"
    BY <2>1, JobPodsType
  <2>6. pod[g] = "publishRunner" => secret.api \in {0, g}
    OBVIOUS
  <2>. QED
    BY <1>13, <2>1, <2>2, <2>3, <2>4, <2>5, <2>6 DEF PublishApi
<1>14. ASSUME NEW g \in Gens, PublishRunner(g) PROVE PairInv'
  <2>1. /\ Live(g) /\ g = lastGen /\ g >= job.first /\ job.phase = "running"
        /\ pod' = [pod EXCEPT ![g] = "exit"]
        /\ secret' = [secret EXCEPT !.runner = g]
        /\ UNCHANGED <<lastGen, evicted, job, pc>>
    BY <1>14 DEF PublishRunner, Published, AttemptInv
  <2>2. secret'.runner = g /\ secret'.api = secret.api
    BY <2>1
  <2>3. g \in JobPods /\ JobPods' = JobPods
    BY <2>1 DEF JobPods
  <2>4. \A h \in Gens : h # g => ~ Live(h)
    BY <2>1 DEF AttemptInv
  <2>5. \A h \in JobPods : pod[h] # "succeeded"
    BY <2>1, JobPodsType
  <2>6. pod[g] = "publishRunner" => secret.api \in {0, g}
    OBVIOUS
  <2>. QED
    BY <1>14, <2>1, <2>2, <2>3, <2>4, <2>5, <2>6 DEF PublishRunner
<1>15. ASSUME NEW g \in Gens, ExitZero(g) PROVE PairInv'
  <2>1. /\ Live(g) /\ g = lastGen /\ job.phase = "running"
        /\ pod' = [pod EXCEPT ![g] = "succeeded"]
        /\ UNCHANGED <<secret, lastGen, evicted, job, pc>>
    BY <1>15 DEF ExitZero, AttemptInv
  <2>2. secret.api \in {0, g} /\ secret.runner \in {0, g}
    BY <1>15 DEF ExitZero
  <2>3. JobPods' = JobPods
    BY <2>1 DEF JobPods
  <2>. QED
    BY <2>1, <2>2, <2>3
<1>16. ASSUME NEW g \in Gens, AttemptFails(g) PROVE PairInv'
  <2>1. /\ job'.phase = job.phase /\ job'.first = job.first
        /\ pod' = [pod EXCEPT ![g] = "failed"]
        /\ UNCHANGED <<secret, lastGen, evicted, pc>>
    BY <1>16 DEF AttemptFails, CountFailure
  <2>2. pod[g] # "succeeded" /\ pod[g] # "unborn"
    BY <1>16 DEF AttemptFails
  <2>3. JobPods' = JobPods
    BY <2>1, <2>2 DEF JobPods
  <2>. QED
    BY <2>1, <2>2, <2>3
<1>17. ASSUME NEW g \in Gens, EvictPod(g) PROVE PairInv'
  BY <1>17 DEF EvictPod, Fault, Undisturbed
<1>18. ASSUME NEW g \in Gens, GracePeriodEnds(g) PROVE PairInv'
  BY <1>18 DEF GracePeriodEnds
<1>19. ASSUME StartPod PROVE PairInv'
  <2>1. /\ lastGen + 1 \in Gens /\ lastGen' = lastGen + 1
        /\ pod' = [pod EXCEPT ![lastGen + 1] = "publishApi"]
        /\ job.phase = "running"
        /\ \A g \in JobPods : pod[g] # "succeeded"
        /\ UNCHANGED <<job, secret, evicted, pc>>
    BY <1>19 DEF StartPod
  <2>2. JobPods' \subseteq JobPods \union {lastGen + 1}
    BY <2>1 DEF JobPods
  <2>. QED
    BY <2>1, <2>2
<1>20. ASSUME JobCompletes PROVE PairInv'
  BY <1>20 DEF JobCompletes, JobEnds, JobPods
<1>21. ASSUME JobFails PROVE PairInv'
  BY <1>21 DEF JobFails, JobEnds, JobPods
<1>22. ASSUME JobExpires PROVE PairInv'
  BY <1>22 DEF JobExpires, JobFinished, JobPods
<1>23. ASSUME NEW s \in Sides, DeleteTlsSecret(s) PROVE PairInv'
  BY <1>23 DEF DeleteTlsSecret, JobPods
<1>24. ASSUME WidenRole PROVE PairInv'
  BY <1>24 DEF WidenRole, JobPods
<1>25. CASE UNCHANGED vars
  BY <1>25 DEF vars, JobPods
<1>. QED
  BY <1>1, <1>2, <1>3, <1>4, <1>5, <1>6, <1>7, <1>8, <1>9, <1>10, <1>11,
     <1>12, <1>13, <1>14, <1>15, <1>16, <1>17, <1>18, <1>19, <1>20, <1>21,
     <1>22, <1>23, <1>24, <1>25
  DEF Next, OperatorStep, TlspubStep, JobController

LEMMA PairInvariant ==
  ASSUME Undisturbed
  PROVE  Spec => []PairInv
<1>1. Init => PairInv
  BY DEF Init, PairInv, JobPods, NoJob, Gens
<1>2. BootstrapInv /\ PairInv /\ [Next]_vars => PairInv'
  BY PairStep, Undisturbed DEF BootstrapInv
<1>. QED
  BY BootstrapInvariant, <1>1, <1>2, PTL DEF Spec

(* With one operator and no pod replaced while it runs, a completed Job     *)
(* leaves the two Secrets on one CA, however often attempts failed between  *)
(* or after their publishes and users deleted either Secret.                *)
THEOREM CompletedJobsAgree ==
  ASSUME Undisturbed
  PROVE  Spec => []CompletedPairMatches
<1>1. TypeOK /\ PairInv => CompletedPairMatches
  BY DEF TypeOK, PairInv, CompletedPairMatches, BothPresent, JobPods
<1>2. BootstrapInv => TypeOK
  BY DEF BootstrapInv
<1>. QED
  BY BootstrapInvariant, PairInvariant, <1>1, <1>2, PTL

(* With one operator the Job that is deleted has always finished, although  *)
(* it is deleted by name, one call after its status was read.               *)
THEOREM RunningJobsAreKept ==
  ASSUME Undisturbed
  PROVE  Spec => RunningJobKept
<1>1. TypeOK /\ PairInv /\ [Next]_vars =>
        [job.phase = "running" => job'.phase # "absent"]_vars
  <2>. SUFFICES ASSUME TypeOK, PairInv, Next, job.phase = "running"
                PROVE  job'.phase # "absent"
    OBVIOUS
  <2>. USE DEF PairInv, opVars, podVars, stackVars
  <2>1. ASSUME NEW o \in Operators, OperatorStep(o) PROVE job'.phase # "absent"
    BY <2>1 DEF OperatorStep, ReadApiTls, ReadRunnerTls, ApplyRbac, GetJob, DeleteJob,
                ProbeJob, CreateJob, PatchWaiting, ApplyApiDeployment,
                ApplyRunnerDeployment, PatchReady
  <2>2. ASSUME NEW o \in Operators, ApiError(o) PROVE job'.phase # "absent"
    BY <2>2 DEF ApiError
  <2>3. ASSUME NEW g \in Gens, TlspubStep(g) \/ GracePeriodEnds(g)
        PROVE  job'.phase # "absent"
    BY <2>3 DEF TlspubStep, PublishApi, PublishRunner, ExitZero, GracePeriodEnds
  <2>4. ASSUME NEW g \in Gens, AttemptFails(g) \/ EvictPod(g)
        PROVE  job'.phase # "absent"
    BY <2>4 DEF AttemptFails, EvictPod, CountFailure, TypeOK
  <2>5. CASE JobController \/ JobExpires
    BY <2>5 DEF JobController, StartPod, JobCompletes, JobFails, JobEnds,
                JobExpires, JobFinished, TypeOK
  <2>6. CASE (\E s \in Sides : DeleteTlsSecret(s)) \/ WidenRole
    BY <2>6 DEF DeleteTlsSecret, WidenRole
  <2>. QED
    BY <2>1, <2>2, <2>3, <2>4, <2>5, <2>6 DEF Next
<1>. QED
  BY TypeCorrect, PairInvariant, <1>1, PTL DEF Spec, RunningJobKept
=============================================================================

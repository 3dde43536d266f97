---------------------------- MODULE CertBootstrap ----------------------------
(***************************************************************************)
(* The mTLS bootstrap of an Assistant's sandbox stack.                     *)
(*                                                                         *)
(* Every reconcile of an Assistant runs ensure_certs: while one of the two *)
(* TLS Secrets is missing it applies the RBAC of the bootstrap Job and     *)
(* (re)creates the Job; once both exist it stamps their resourceVersions   *)
(* on the sandbox Deployments.  Every attempt (pod) of the Job mints a     *)
(* fresh CA and publishes two Secrets one after the other, concurrently    *)
(* with the operator and with a user who rotates by deleting the Secrets.  *)
(*                                                                         *)
(* A CA, what an attempt publishes and the resourceVersion of a Secret are *)
(* all named by the attempt's number (its "generation"): an attempt writes *)
(* each Secret at most once, so the generation determines the version.     *)
(* Generation 0 is "no such Secret".                                       *)
(***************************************************************************)
EXTENDS Naturals

CONSTANTS
    Operators,      \* operator processes at work (two during a rolling upgrade)
    BackoffLimit,   \* backoffLimit of the Job (4 in the code)
    Faults,         \* the kinds of failure that may occur, a subset of FaultKinds
    MaxGen,         \* bound: attempts ever started
    MaxFaults,      \* bound: failures of attempts and of API calls
    MaxRotations    \* bound: TLS Secrets deleted by the user

FaultKinds == {"attempt",   \* an attempt fails before its last publish took effect
               "late",      \* an attempt fails although both publishes took effect
               "evict",     \* a pod is replaced while it is still running
               "api",       \* an API call of the operator fails, or the operator dies
               "drift"}     \* the Role is widened out of band

ASSUME ConstantsOK == /\ BackoffLimit \in Nat
                      /\ Faults \subseteq FaultKinds
                      /\ MaxGen \in Nat /\ MaxFaults \in Nat /\ MaxRotations \in Nat

Sides == {"api", "runner"}
RbacKinds == {"ServiceAccount", "Role", "RoleBinding"}
Gens == 1..MaxGen

VARIABLES
    pc,         \* pc[o]: the next API call of operator o
    seen,       \* seen[o]: the Secret versions o has read in this reconcile
    secret,     \* secret[s]: the generation in the TLS Secret of side s
    rbac,       \* the RBAC objects that exist
    widened,    \* the live Role grants more than build_certs_rbac asks for
    job,        \* the Job object: phase, generation of its first attempt, failures
    pod,        \* pod[g]: where attempt g is
    evicted,    \* attempts that the Job controller no longer counts as its own
    lastGen,    \* the newest generation
    rolled,     \* rolled[s]: the tls-revision annotation of the Deployment of s
    certsReady, \* status.certsReady
    faults, rotations

opVars   == <<pc, seen>>
podVars  == <<pod, evicted, lastGen>>
stackVars == <<rolled, certsReady>>
vars == <<pc, seen, secret, rbac, widened, job, pod, evicted, lastGen,
          rolled, certsReady, faults, rotations>>

NoJob == [phase |-> "absent", first |-> 0, failures |-> 0]

OpStates == {"readApi", "readRunner", "getJob", "deleteJob", "probeJob",
             "createJob", "patchWaiting", "applyApi", "applyRunner", "patchReady"}
            \union RbacKinds
Running == {"publishApi", "publishRunner", "exit"}
PodStates == {"unborn", "succeeded", "failed"} \union Running

(* State has the shape the code and the API server give it. *)
TypeOK ==
    /\ pc \in [Operators -> OpStates]
    /\ seen \in [Operators -> [Sides -> 0..MaxGen]]
    /\ secret \in [Sides -> 0..MaxGen]
    /\ rbac \subseteq RbacKinds
    /\ widened \in BOOLEAN
    /\ job \in [phase : {"absent", "running", "complete", "failed"},
                first : 0..MaxGen + 1, failures : 0..BackoffLimit + 1]
    /\ pod \in [Gens -> PodStates]
    /\ evicted \subseteq Gens
    /\ lastGen \in 0..MaxGen
    /\ rolled \in [Sides -> 0..MaxGen]
    /\ certsReady \in BOOLEAN
    /\ faults \in 0..MaxFaults
    /\ rotations \in 0..MaxRotations

Init ==
    /\ pc = [o \in Operators |-> "readApi"]
    /\ seen = [o \in Operators |-> [s \in Sides |-> 0]]
    /\ secret = [s \in Sides |-> 0]
    /\ rbac = {} /\ widened = FALSE
    /\ job = NoJob
    /\ pod = [g \in Gens |-> "unborn"]
    /\ evicted = {} /\ lastGen = 0
    /\ rolled = [s \in Sides |-> 0]
    /\ certsReady = FALSE
    /\ faults = 0 /\ rotations = 0

-----------------------------------------------------------------------------
(* Attempts of the Job.                                                     *)

Live(g) == pod[g] \in Running
JobPods == {g \in Gens : g >= job.first /\ pod[g] # "unborn"}  \* of the live Job
Active(g) == g \in JobPods /\ Live(g) /\ g \notin evicted

Fault(kinds) == /\ Faults \cap kinds # {}
                /\ faults < MaxFaults
                /\ faults' = faults + 1

(* The Secret a publish leaves behind: forced server-side apply overwrites. *)
Published_CreateOnly(s, g) == IF secret[s] = 0 THEN g ELSE secret[s]
Published(s, g) == g

-----------------------------------------------------------------------------
(* ensure_certs and the part of apply around it, one API call per step.     *)

Goto(o, next) == pc' = [pc EXCEPT ![o] = next]

ReadApiTls(o) ==
    /\ pc[o] = "readApi"
    /\ seen' = [seen EXCEPT ![o].api = secret.api]
    /\ Goto(o, "readRunner")
    /\ UNCHANGED <<secret, rbac, widened, job, podVars, stackVars, faults, rotations>>

BothPresent(found) == found.api # 0 /\ found.runner # 0

ReadRunnerTls(o) ==
    /\ pc[o] = "readRunner"
    /\ seen' = [seen EXCEPT ![o].runner = secret.runner]
    /\ Goto(o, IF BothPresent(seen'[o]) THEN "applyApi" ELSE "ServiceAccount")
    /\ UNCHANGED <<secret, rbac, widened, job, podVars, stackVars, faults, rotations>>

AfterRbac_JobBeforeBinding == [k \in RbacKinds |->
    IF k = "ServiceAccount" THEN "Role" ELSE "getJob"]
AfterRbac == [k \in RbacKinds |-> CASE k = "ServiceAccount" -> "Role"
                                    [] k = "Role" -> "RoleBinding"
                                    [] k = "RoleBinding" -> "getJob"]

ApplyRbac(o) ==
    /\ pc[o] \in RbacKinds
    /\ rbac' = rbac \union {pc[o]}
    /\ widened' = (widened /\ pc[o] # "Role")
    /\ Goto(o, AfterRbac[pc[o]])
    /\ UNCHANGED <<seen, secret, job, podVars, stackVars, faults, rotations>>

JobFinished_AnyJob == job.phase # "absent"
JobFinished_CompleteOnly == job.phase = "complete"
JobFinished == job.phase \in {"complete", "failed"}

GetJob(o) ==
    /\ pc[o] = "getJob"
    /\ Goto(o, IF JobFinished THEN "deleteJob" ELSE "probeJob")
    /\ UNCHANGED <<seen, secret, rbac, widened, job, podVars, stackVars, faults, rotations>>

(* Deletes by name whatever Job is there; its live pods outlive it until    *)
(* the garbage collector stops them.  A 404 fails the reconcile.            *)
DeleteJob(o) ==
    /\ pc[o] = "deleteJob"
    /\ job' = NoJob
    /\ evicted' = evicted \union
                    (IF job.phase = "absent" THEN {} ELSE {g \in JobPods : Live(g)})
    /\ Goto(o, IF job.phase = "absent" THEN "readApi" ELSE "probeJob")
    /\ UNCHANGED <<seen, secret, rbac, widened, pod, lastGen, stackVars, faults, rotations>>

ProbeJob(o) ==
    /\ pc[o] = "probeJob"
    /\ Goto(o, IF job.phase = "absent" THEN "createJob" ELSE "patchWaiting")
    /\ UNCHANGED <<seen, secret, rbac, widened, job, podVars, stackVars, faults, rotations>>

CreateJob(o) ==
    /\ pc[o] = "createJob"
    /\ job' = IF job.phase = "absent"
              THEN [phase |-> "running", first |-> lastGen + 1, failures |-> 0]
              ELSE job                                   \* 409 is tolerated
    /\ Goto(o, "patchWaiting")
    /\ UNCHANGED <<seen, secret, rbac, widened, podVars, stackVars, faults, rotations>>

PatchWaiting(o) ==
    /\ pc[o] = "patchWaiting"
    /\ certsReady' = FALSE
    /\ Goto(o, "readApi")
    /\ UNCHANGED <<seen, secret, rbac, widened, job, podVars, rolled, faults, rotations>>

ApplyApiDeployment(o) ==
    /\ pc[o] = "applyApi"
    /\ rolled' = [rolled EXCEPT !.api = seen[o].api]
    /\ Goto(o, "applyRunner")
    /\ UNCHANGED <<seen, secret, rbac, widened, job, podVars, certsReady, faults, rotations>>

ApplyRunnerDeployment(o) ==
    /\ pc[o] = "applyRunner"
    /\ rolled' = [rolled EXCEPT !.runner = seen[o].runner]
    /\ Goto(o, "patchReady")
    /\ UNCHANGED <<seen, secret, rbac, widened, job, podVars, certsReady, faults, rotations>>

PatchReady(o) ==
    /\ pc[o] = "patchReady"
    /\ certsReady' = TRUE
    /\ Goto(o, "readApi")
    /\ UNCHANGED <<seen, secret, rbac, widened, job, podVars, rolled, faults, rotations>>

OperatorStep(o) ==
    \/ ReadApiTls(o) \/ ReadRunnerTls(o)
    \/ ApplyRbac(o) \/ GetJob(o) \/ DeleteJob(o) \/ ProbeJob(o) \/ CreateJob(o)
    \/ PatchWaiting(o)
    \/ ApplyApiDeployment(o) \/ ApplyRunnerDeployment(o) \/ PatchReady(o)

(* error_policy requeues; a restarted operator reconciles every object.     *)
ApiError(o) ==
    /\ pc[o] # "readApi"
    /\ Fault({"api"})
    /\ Goto(o, "readApi")
    /\ UNCHANGED <<seen, secret, rbac, widened, job, podVars, stackVars, rotations>>

-----------------------------------------------------------------------------
(* tlspub: the API Secret, then the runner's, then exit 0.                  *)

PublishApi(g) ==
    /\ pod[g] = "publishApi" /\ rbac = RbacKinds
    /\ secret' = [secret EXCEPT !.api = Published("api", g)]
    /\ pod' = [pod EXCEPT ![g] = "publishRunner"]
    /\ UNCHANGED <<opVars, rbac, widened, job, evicted, lastGen, stackVars, faults, rotations>>

PublishRunner(g) ==
    /\ pod[g] = "publishRunner" /\ rbac = RbacKinds
    /\ secret' = [secret EXCEPT !.runner = Published("runner", g)]
    /\ pod' = [pod EXCEPT ![g] = "exit"]
    /\ UNCHANGED <<opVars, rbac, widened, job, evicted, lastGen, stackVars, faults, rotations>>

ExitZero(g) ==
    /\ pod[g] = "exit"
    /\ pod' = [pod EXCEPT ![g] = "succeeded"]
    /\ UNCHANGED <<opVars, secret, rbac, widened, job, evicted, lastGen, stackVars, faults, rotations>>

TlspubStep(g) == PublishApi(g) \/ PublishRunner(g) \/ ExitZero(g)

CountFailure(g) == job' = IF Active(g) THEN [job EXCEPT !.failures = @ + 1] ELSE job

(* bootstrap-mtls.sh, collect or a publish fails, or the container dies.    *)
AttemptFails(g) ==
    /\ \/ pod[g] \in {"publishApi", "publishRunner"} /\ Fault({"attempt"})
       \/ pod[g] = "exit" /\ Fault({"late"})
    /\ pod' = [pod EXCEPT ![g] = "failed"]
    /\ CountFailure(g)
    /\ UNCHANGED <<opVars, secret, rbac, widened, evicted, lastGen, stackVars, rotations>>

(* The pod is deleted under the Job (drain, preemption): it counts as       *)
(* failed and is replaced, yet runs on until its grace period ends.         *)
EvictPod(g) ==
    /\ Active(g)
    /\ Fault({"evict"})
    /\ evicted' = evicted \union {g}
    /\ CountFailure(g)
    /\ UNCHANGED <<opVars, secret, rbac, widened, pod, lastGen, stackVars, rotations>>

GracePeriodEnds(g) ==
    /\ g \in evicted /\ Live(g)
    /\ pod' = [pod EXCEPT ![g] = "failed"]
    /\ UNCHANGED <<opVars, secret, rbac, widened, job, evicted, lastGen, stackVars, faults, rotations>>

-----------------------------------------------------------------------------
(* The Job controller of the cluster.                                       *)

StartPod_NoBackoff ==
    /\ job.phase = "running"
    /\ lastGen < MaxGen
    /\ ~ \E g \in JobPods : Active(g)
    /\ ~ \E g \in JobPods : pod[g] = "succeeded"
    /\ lastGen' = lastGen + 1
    /\ pod' = [pod EXCEPT ![lastGen + 1] = "publishApi"]
    /\ UNCHANGED <<opVars, secret, rbac, widened, job, evicted, stackVars, faults, rotations>>

StartPod ==
    /\ job.phase = "running"
    /\ job.failures <= BackoffLimit
    /\ lastGen < MaxGen
    /\ ~ \E g \in JobPods : Active(g)
    /\ ~ \E g \in JobPods : pod[g] = "succeeded"
    /\ lastGen' = lastGen + 1
    /\ pod' = [pod EXCEPT ![lastGen + 1] = "publishApi"]
    /\ UNCHANGED <<opVars, secret, rbac, widened, job, evicted, stackVars, faults, rotations>>

JobEnds(phase) ==
    /\ job.phase = "running"
    /\ \A g \in JobPods : ~ Live(g)
    /\ job' = [job EXCEPT !.phase = phase]
    /\ UNCHANGED <<opVars, secret, rbac, widened, podVars, stackVars, faults, rotations>>

JobCompletes == (\E g \in JobPods : pod[g] = "succeeded") /\ JobEnds("complete")

JobFails == /\ job.failures > BackoffLimit
            /\ ~ \E g \in JobPods : pod[g] = "succeeded"
            /\ JobEnds("failed")

JobExpires ==                                     \* ttlSecondsAfterFinished
    /\ JobFinished
    /\ job' = NoJob
    /\ UNCHANGED <<opVars, secret, rbac, widened, podVars, stackVars, faults, rotations>>

JobController == StartPod \/ JobCompletes \/ JobFails

-----------------------------------------------------------------------------
(* Users: rotation deletes the TLS Secrets; someone edits the Role.         *)

DeleteTlsSecret(s) ==
    /\ secret[s] # 0
    /\ rotations < MaxRotations /\ rotations' = rotations + 1
    /\ secret' = [secret EXCEPT ![s] = 0]
    /\ UNCHANGED <<opVars, rbac, widened, job, podVars, stackVars, faults>>

WidenRole ==
    /\ "drift" \in Faults
    /\ "Role" \in rbac /\ ~widened
    /\ widened' = TRUE
    /\ UNCHANGED <<opVars, secret, rbac, job, podVars, stackVars, faults, rotations>>

Next ==
    \/ \E o \in Operators : OperatorStep(o) \/ ApiError(o)
    \/ \E g \in Gens : \/ TlspubStep(g) \/ AttemptFails(g)
                       \/ EvictPod(g) \/ GracePeriodEnds(g)
    \/ JobController \/ JobExpires
    \/ \E s \in Sides : DeleteTlsSecret(s)
    \/ WidenRole

(* Requeues (15 s, 300 s) and error_policy (5 min) keep every operator      *)
(* reconciling; containers and the Job controller make progress.  Users,    *)
(* faults and the Job's TTL are under no obligation.                        *)
Fairness ==
    /\ \A o \in Operators : WF_vars(OperatorStep(o))
    /\ \A g \in Gens : WF_vars(TlspubStep(g))
    /\ WF_vars(JobController)

Spec == Init /\ [][Next]_vars
FairSpec == Spec /\ Fairness

-----------------------------------------------------------------------------
(* A Job that completed leaves the two Secrets on one CA: the point of      *)
(* overwriting with forced server-side apply in tlspub (tlspub.rs:112-133). *)
(* Breaking it takes an earlier attempt's half-published pair.              *)
CompletedPairMatches ==
    job.phase = "complete" /\ BothPresent(secret) => secret.api = secret.runner

(* No attempt runs before the whole grant it publishes with exists: the     *)
(* three RBAC objects precede the Job on every path, whatever call failed   *)
(* in between (assistant_certs.rs:137-181).                                 *)
AttemptsCanPublish == (\E g \in Gens : Live(g)) => rbac = RbacKinds

(* A running bootstrap Job is never deleted (assistant_certs.rs:169-170):   *)
(* the verdict of job_finished still holds when the delete reaches the Job. *)
RunningJobKept == [][job.phase = "running" => job'.phase # "absent"]_vars

(* A Job is created only while a Secret is missing: "rerunning it would     *)
(* mint a new CA under the running pods" (sandbox_certs.rs:77-79).          *)
NoNewCAUnderPair ==
    [][job.phase # "running" /\ job'.phase = "running" => ~BothPresent(secret)]_vars

(* Once no Job runs, two Secrets that are both there are on one CA: no      *)
(* retry leaves "one Secret on a stale CA" (tlspub.rs:120-124).             *)
NoStaleCAAtRest ==
    job.phase # "running" /\ ~(\E g \in Gens : Live(g)) /\ BothPresent(secret)
        => secret.api = secret.runner

(* Both Secrets eventually stay, the Deployments carry their versions and   *)
(* the status says so, whatever operators, retries and users did.           *)
Settled == BothPresent(secret) /\ rolled = secret /\ certsReady
CertsArrive == <>[]Settled

(* ... and the pair the Deployments end up with is on one CA, as long as no *)
(* Job runs out of attempts.                                                *)
PairArrives == <>[](Settled /\ secret.api = secret.runner)

(* A Role widened out of band is narrowed again by a later reconcile        *)
(* (assistant_certs.rs:132-138).                                            *)
DriftRepaired == widened ~> ~widened
=============================================================================

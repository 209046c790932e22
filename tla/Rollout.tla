------------------------------- MODULE Rollout -------------------------------
(***************************************************************************)
(* rollout.go and the part of handleMessage that acts on its answer: one   *)
(* worker deploys builds of a service one after the other, each time as an *)
(* update of the same Kubernetes Deployment, polls the Deployment until    *)
(* the rollout is complete, has failed or has taken too long, and turns    *)
(* what it found into a verdict.  Nothing keeps another worker from        *)
(* deploying a build of the same service in the meantime: the lease is one *)
(* per deployment id, the Deployment one per service.                      *)
(*                                                                         *)
(* The cluster is external: the deployment controller starts and stops     *)
(* pods (maxSurge 1, maxUnavailable 0, as ensureDeployment asks) and now   *)
(* and then reports what it sees in the status of the Deployment.  Between *)
(* two reports the status is stale, and the poll reads nothing else.       *)
(***************************************************************************)
EXTENDS Naturals, FiniteSets

CONSTANTS
    Builds,          \* images of the service
    Replicas,        \* spec.replicas, K8S_DEFAULT_REPLICAS
    Slots,           \* room for pods: one more than Replicas
    MaxGeneration,   \* bound on the updates of the Deployment
    NoBuild

ASSUME RolloutAssumption ==
    /\ NoBuild \notin Builds
    /\ Replicas \in Nat \ {0}
    /\ IsFiniteSet(Slots) /\ Cardinality(Slots) = Replicas + 1
    /\ MaxGeneration \in Nat

VARIABLES
    image,        \* the pod template's image, NoBuild before the first deploy
    generation,   \* metadata.generation
    pod,          \* pod[s]: the image of the pod in slot s, or NoBuild
    up,           \* the slots whose pod is ready
    status,       \* what the controller reported last
    rolledOut,    \* history: the last generation that was completely rolled out
    stuck,        \* history: the last generation that was reported as failed
    mine,         \* history: the generation the worker's own Deploy left
    pc,           \* the worker's next call
    expired,      \* the context it waits with has ended
    foundReady,   \* the check after the timeout found the rollout complete
    verdict       \* what handleMessage makes of the build

clusterVars == <<image, generation, pod, up, status, rolledOut, stuck>>
workerVars == <<mine, pc, expired, foundReady, verdict>>
vars == <<clusterVars, workerVars>>

Images == Builds \union {NoBuild}
Generations == 0 .. MaxGeneration
Counts == 0 .. (Replicas + 1)
Reports == [observed : Generations, updated : Counts, replicas : Counts,
            available : Counts, enough : BOOLEAN, failed : BOOLEAN]
Verdicts == {"none", "success", "failed", "error", "pending", "requeue"}

(* Every variable has its type, only a pod that exists is ready, and there *)
(* is a verdict only after the build's wait, never during the next one's.  *)
TypeOK ==
    /\ image \in Images /\ generation \in Generations
    /\ pod \in [Slots -> Images] /\ up \subseteq {s \in Slots : pod[s] # NoBuild}
    /\ status \in Reports
    /\ rolledOut \in Generations /\ stuck \in Generations /\ mine \in Generations
    /\ pc \in {"idle", "wait", "check", "publish"}
    /\ expired \in BOOLEAN /\ foundReady \in BOOLEAN
    /\ verdict \in Verdicts /\ (verdict # "none" => pc = "idle")

Init ==
    /\ image = NoBuild /\ generation = 0
    /\ pod = [s \in Slots |-> NoBuild] /\ up = {}
    /\ status = [observed |-> 0, updated |-> 0, replicas |-> 0,
                 available |-> 0, enough |-> FALSE, failed |-> FALSE]
    /\ rolledOut = 0 /\ stuck = 0 /\ mine = 0
    /\ pc = "idle"
    /\ expired = FALSE /\ foundReady = FALSE /\ verdict = "none"
-----------------------------------------------------------------------------
(* The deployment controller and the pods.                                 *)

Running == {s \in Slots : pod[s] # NoBuild}
Updated == {s \in Slots : pod[s] = image} \ {s \in Slots : pod[s] = NoBuild}

(* Nothing runs but ready pods of the newest image, as many as asked for. *)
RolledOut ==
    /\ Running = Updated /\ up = Updated
    /\ Cardinality(Updated) = Replicas

StartPod(s) ==
    /\ image # NoBuild /\ pod[s] = NoBuild
    /\ Cardinality(Updated) < Replicas
    /\ pod' = [pod EXCEPT ![s] = image]
    /\ UNCHANGED <<image, generation, up, status, rolledOut, stuck, workerVars>>

PodReady(s) ==
    /\ pod[s] # NoBuild
    /\ up' = up \union {s}
    /\ UNCHANGED <<image, generation, pod, status, rolledOut, stuck, workerVars>>

PodUnready(s) ==
    /\ up' = up \ {s}
    /\ UNCHANGED <<image, generation, pod, status, rolledOut, stuck, workerVars>>

StopPod(s) ==
    /\ pod[s] \notin {NoBuild, image}
    /\ s \in up => Cardinality(up) > Replicas
    /\ pod' = [pod EXCEPT ![s] = NoBuild]
    /\ up' = up \ {s}
    /\ UNCHANGED <<image, generation, status, rolledOut, stuck, workerVars>>

(* A rollout that is not complete may be reported as failed: its progress  *)
(* deadline has passed, or a pod could not be created.                     *)
Report ==
    /\ \E failed \in BOOLEAN :
          /\ failed => ~RolledOut
          /\ status' = [observed |-> generation,
                        updated |-> Cardinality(Updated),
                        replicas |-> Cardinality(Running),
                        available |-> Cardinality(up),
                        enough |-> Cardinality(up) >= Replicas,
                        failed |-> failed]
          /\ stuck' = IF failed THEN generation ELSE stuck
    /\ rolledOut' = IF RolledOut THEN generation ELSE rolledOut
    /\ UNCHANGED <<image, generation, pod, up, workerVars>>

Cluster ==
    \/ \E s \in Slots : StartPod(s) \/ PodReady(s) \/ PodUnready(s) \/ StopPod(s)
    \/ generation > 0 /\ Report
-----------------------------------------------------------------------------
(* ensureDeployment writes the image of build b: an update that changes    *)
(* nothing leaves the generation alone.                                    *)
UpdateDeployment(b) ==
    /\ \/ image = b /\ UNCHANGED generation
       \/ image # b /\ generation < MaxGeneration /\ generation' = generation + 1
    /\ image' = b
    /\ UNCHANGED <<pod, up, status, rolledOut, stuck>>

(* The worker's own Deploy.  Mutant: the verdict on the build before stays. *)
Deploy_KeepsVerdict ==
    /\ pc = "idle"
    /\ \E b \in Builds : UpdateDeployment(b)
    /\ mine' = generation'
    /\ pc' = "wait"
    /\ expired' = FALSE /\ foundReady' = FALSE
    /\ UNCHANGED verdict
Deploy ==
    /\ pc = "idle"
    /\ \E b \in Builds : UpdateDeployment(b)
    /\ mine' = generation'
    /\ pc' = "wait"
    /\ expired' = FALSE /\ foundReady' = FALSE /\ verdict' = "none"

(* Another worker deploys a build of this service while this one watches. *)
Overwrite ==
    /\ pc # "idle"
    /\ \E b \in Builds \ {image} : UpdateDeployment(b)
    /\ UNCHANGED workerVars

(* Mutant AnyGeneration: the status may be one of an earlier generation. *)
deploymentRolloutComplete_AnyGeneration ==
    /\ status.enough
    /\ status.updated = Replicas
    /\ status.replicas = Replicas
    /\ status.available = Replicas
deploymentRolloutComplete ==
    /\ status.enough
    /\ generation <= status.observed
    /\ status.updated = Replicas
    /\ status.replicas = Replicas
    /\ status.available = Replicas

(* What one round of the loop of WaitForRollout may return, besides the    *)
(* error of the Get itself; with no answer the loop goes on.  Mutant: the  *)
(* end of the context goes unnoticed.                                      *)
Answers_NoDeadline ==
    IF status.failed THEN {"failed"}
    ELSE IF deploymentRolloutComplete THEN {"ready"} ELSE {}
Answers ==
    IF status.failed THEN {"failed"}
    ELSE IF deploymentRolloutComplete THEN {"ready"}
    ELSE IF expired THEN {"timeout"} ELSE {}

(* isRetriableDeployError tells the two apart. *)
GetErrors == {"retriable", "fatal"}

End(v) ==
    /\ pc' = "idle" /\ verdict' = v
    /\ UNCHANGED <<mine, expired, foundReady>>

(* handleMessage on the answer of its first wait: every error after the    *)
(* end of rolloutCtx counts as a timeout and gets one more check.          *)
AfterWait(answer) ==
    \/ /\ answer = "ready"
       /\ pc' = "publish"
       /\ UNCHANGED <<mine, expired, foundReady, verdict>>
    \/ /\ answer # "ready" /\ expired
       /\ pc' = "check"
       /\ expired' = FALSE
       /\ UNCHANGED <<mine, foundReady, verdict>>
    \/ answer = "failed" /\ ~expired /\ End("failed")
    \/ answer = "retriable" /\ ~expired /\ End("requeue")
    \/ answer = "fatal" /\ ~expired /\ End("error")

(* ... and of the check: whatever is not a reported failure is as good as  *)
(* ready, but cancelCheck has ended the context it is published with.      *)
AfterCheck(answer) ==
    \/ answer = "failed" /\ End("pending")
    \/ /\ answer # "failed"
       /\ pc' = "publish"
       /\ expired' = TRUE
       /\ foundReady' = (answer = "ready")
       /\ UNCHANGED <<mine, verdict>>

Act(answer) ==
    /\ \/ pc = "wait" /\ AfterWait(answer)
       \/ pc = "check" /\ AfterCheck(answer)
    /\ UNCHANGED clusterVars

Poll == \E answer \in Answers : Act(answer)

GetFails == \E answer \in GetErrors : Act(answer)

(* publishRolloutSuccess: ledger.Complete does not run on an ended context. *)
PublishRolloutSuccess ==
    /\ pc = "publish"
    /\ End(IF expired THEN "requeue" ELSE "success")
    /\ UNCHANGED clusterVars

(* The deadline of the context passes. *)
DeadlinePasses ==
    /\ pc # "idle" /\ ~expired
    /\ expired' = TRUE
    /\ UNCHANGED <<clusterVars, mine, pc, foundReady, verdict>>

Worker == Deploy \/ Poll \/ GetFails \/ PublishRolloutSuccess \/ DeadlinePasses

Next == Cluster \/ Worker \/ Overwrite

Spec == Init /\ [][Next]_vars

(* The worker goes on polling and time goes on; the cluster owes nothing,  *)
(* and no Get needs to fail.                                               *)
Fairness == WF_vars(Poll) /\ WF_vars(PublishRolloutSuccess) /\ WF_vars(DeadlinePasses)

FairSpec == Spec /\ Fairness
-----------------------------------------------------------------------------
(* Properties.                                                             *)

(* A build is announced as running only if the generation its Deploy left   *)
(* behind, or one that another worker has put in its place since, was       *)
(* completely rolled out: no pod of an older image left, none of the new    *)
(* ones unready, however stale the status that was polled.                  *)
SuccessIsRolledOut == verdict = "success" => rolledOut >= mine

(* Every wait comes to a verdict, whatever the cluster does. *)
WaitEnds == (pc # "idle") ~> (pc = "idle")

(* A rollout is called failed only if it failed itself: "later deploys     *)
(* update them in place" (README.md line 49) must not inherit the failure  *)
(* of the workload they replace.                                           *)
FailureIsOwn == verdict = "failed" => stuck >= mine

(* A rollout that turns out to be ready in the check after the timeout is  *)
(* a success, as in TestWaitForRolloutTimeoutThenReady.                    *)
LateReadyCounts == foundReady /\ pc = "idle" => verdict = "success"
=============================================================================

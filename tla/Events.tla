------------------------------- MODULE Events -------------------------------
(***************************************************************************)
(* events.go: the identity of what is published about a build.  Whoever    *)
(* listens at an exchange can tell a repetition, which retries and replays *)
(* bring, from a new event by the EventID only.  It hashes the build, the  *)
(* stage and a status; the hash is taken to be injective.                  *)
(***************************************************************************)
EXTENDS Integers

CONSTANTS
    Builds,
    Tries      \* attempts after which a retry is announced: 1 .. Tries - 1

deploymentEventID(build, status) == <<build, "orchestration", status>>

Event(exchange, build, type, status) ==
    [Exchange |-> exchange, EventID |-> deploymentEventID(build, status),
     DeploymentID |-> build, EventType |-> type]
ServiceEvent(build, type, status) == Event("services", build, type, status)
DeploymentEvent(build, type, status) == Event("deployment", build, type, status)

newDeploySucceededEvent(b) == ServiceEvent(b, "deploy.succeeded", <<"RUNNING">>)
newDeployFailedEvent(b) == ServiceEvent(b, "deploy.failed", <<"DEPLOY_FAILED">>)

newOrchestrationStartedEvent(b) ==
    DeploymentEvent(b, "orchestration.started", <<"ORCHESTRATING">>)
newOrchestrationDeployedEvent(b) ==
    DeploymentEvent(b, "orchestration.deployed", <<"DEPLOYED">>)
newOrchestrationRunningEvent(b) ==
    DeploymentEvent(b, "orchestration.running", <<"RUNNING">>)
newOrchestrationFailedEvent(b) ==
    DeploymentEvent(b, "orchestration.failed", <<"DEPLOY_FAILED">>)
newOrchestrationRolloutPendingEvent(b) ==
    DeploymentEvent(b, "orchestration.retrying", <<"ROLLOUT_PENDING">>)

(* Mutant: every retry of a build has one id. *)
RetryStatus_NoAttempt(attempt) == <<"DEPLOY_RETRYING">>
RetryStatus(attempt) == <<"DEPLOY_RETRYING", attempt>>
newOrchestrationRetryingEvent(b, attempt) ==
    DeploymentEvent(b, "orchestration.retrying", RetryStatus(attempt))
-----------------------------------------------------------------------------
(* What there is to tell about a build, each thing with its event. *)
Told(b) ==
    {<<<<"succeeded">>, newDeploySucceededEvent(b)>>,
     <<<<"deployFailed">>, newDeployFailedEvent(b)>>,
     <<<<"started">>, newOrchestrationStartedEvent(b)>>,
     <<<<"deployed">>, newOrchestrationDeployedEvent(b)>>,
     <<<<"running">>, newOrchestrationRunningEvent(b)>>,
     <<<<"orchFailed">>, newOrchestrationFailedEvent(b)>>,
     <<<<"pending">>, newOrchestrationRolloutPendingEvent(b)>>}
    \union {<<<<"retrying", attempt>>, newOrchestrationRetryingEvent(b, attempt)>> :
              attempt \in 1 .. Tries - 1}
AllTold == UNION {Told(b) : b \in Builds}

(* Two things told on one exchange never have one id, or a listener that   *)
(* drops repetitions would drop news: a second retry, or the announcement  *)
(* that a rollout is pending.  Across the exchanges ids do repeat:         *)
(* deploy.succeeded and orchestration.running of a build share theirs.     *)
IdsDiffer(a, b) ==
    a # b /\ a[2].Exchange = b[2].Exchange => a[2].EventID # b[2].EventID
=============================================================================

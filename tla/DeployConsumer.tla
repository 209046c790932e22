--------------------------- MODULE DeployConsumer ---------------------------
(***************************************************************************)
(* consumer.go: the processes that take build.succeeded messages off the   *)
(* deploy queue, one at a time (Qos 1), drive the deployment and publish   *)
(* its outcome.  Each worker is one process of the service; the workers    *)
(* share the ledger table (StageLedger) and the queues (DeployBroker).     *)
(*                                                                         *)
(* One action is one call that another process, the broker or the database *)
(* can observe; what the code computes between two such calls is part of   *)
(* the action that follows it.  pc[w] names the call worker w makes next.  *)
(*                                                                         *)
(* Faults of the kinds in Faults strike at most MaxFaults times in all.    *)
(***************************************************************************)
EXTENDS Naturals, FiniteSets

CONSTANTS
    Workers,       \* processes of the service, replicas and roll-outs of it
    Deployments,   \* deployment ids named by build.succeeded messages
    Malformed,     \* those whose message handleMessage rejects unread
    MaxAttempts,   \* cfg.MaxAttempts
    NumBackoffs,   \* len(cfg.RetryBackoffs)
    Faults,        \* the kinds of fault that may strike, see FaultKinds
    MaxFaults,     \* and how often in all
    NoCopy         \* "no delivery in hand"

FaultKinds == {
    "dup",     \* the producer sends a build.succeeded once more
    "crash",   \* a process dies in the middle of a delivery
    "unack",   \* the broker closes a consumer channel; publishing still works
    "nopub",   \* the broker closes a publisher channel; consuming still works
    "link",    \* a process loses its broker connection
    "pub",     \* one publish fails, or is delivered but not confirmed in time
    "db",      \* one ledger call fails, with or without having been applied
    "stall" }  \* the lease of a worker that is still at work runs out

ASSUME ConstantsAssumption ==
    /\ Malformed \subseteq Deployments
    /\ MaxAttempts \in Nat \ {0}
    /\ NumBackoffs \in Nat \ {0}
    /\ Faults \subseteq FaultKinds
    /\ MaxFaults \in Nat
    /\ NoCopy \notin Deployments \X (0 .. (MaxAttempts - 1))

VARIABLES
    ready, retry, dlq,   \* the queues, see DeployBroker
    stage, leased,       \* the ledger, see StageLedger
    events,   \* events[d]: the kinds of event published about d so far
    pc,       \* pc[w]: the call w makes next
    msg,      \* msg[w]: the delivery in w's hands
    disp,     \* disp[w]: what Claim answered for it, "none" before
    phase,    \* phase[w]: inside "handle"Message or inside schedule"Retry"
    link,     \* link[w]: which of w's channels still work
    spent     \* faults so far

brokerVars == <<ready, retry, dlq>>
ledgerVars == <<stage, leased>>
workerVars == <<pc, msg, disp, phase, link>>
vars == <<brokerVars, ledgerVars, events, workerVars, spent>>

Ledger == INSTANCE StageLedger
Broker == INSTANCE DeployBroker

EventKinds == {"started", "deployed", "succeeded", "running", "deployFailed",
               "orchFailed", "retrying", "pending"}

(* handleMessage between startLeaseRenewal and completeFailure *)
WorkPcs == {"deploy", "deployed", "rollout", "late", "pending", "complete",
            "succeeded", "running"}
FailPcs == {"fail", "deployFailed", "orchFailed"}
StoredPcs == {"storedService", "storedProgress"}
RetryPcs == {"retrying", "requeue", "release"}
SettlePcs == {"ack", "nackRequeue", "nackDrop"}
Pcs == {"idle", "claim", "started", "deadLetter"} \union WorkPcs
          \union FailPcs \union StoredPcs \union RetryPcs \union SettlePcs

Dispositions == {"none", "Acquired", "Busy", "Completed", "Failed"}
Links == {"up", "noack", "nopub", "down"}

(* Between deliveries, and only then, a worker has none in hand. *)
WorkerTypeOK ==
    /\ pc \in [Workers -> Pcs]
    /\ msg \in [Workers -> Broker!Copies \union {NoCopy}]
    /\ disp \in [Workers -> Dispositions]
    /\ phase \in [Workers -> {"handle", "retry"}]
    /\ link \in [Workers -> Links]
    /\ \A w \in Workers : pc[w] = "idle" <=> msg[w] = NoCopy

(* Every variable has its type; in particular no queue ever holds a         *)
(* negative number of copies and every message carries an attempt below     *)
(* MaxAttempts.                                                             *)
TypeOK ==
    /\ Broker!BrokerTypeOK
    /\ Ledger!LedgerTypeOK
    /\ events \in [Deployments -> SUBSET EventKinds]
    /\ WorkerTypeOK
    /\ spent \in Nat

Init ==
    /\ Broker!BrokerInit
    /\ Ledger!LedgerInit
    /\ events = [d \in Deployments |-> {}]
    /\ pc = [w \in Workers |-> "idle"]
    /\ msg = [w \in Workers |-> NoCopy]
    /\ disp = [w \in Workers |-> "none"]
    /\ phase = [w \in Workers |-> "handle"]
    /\ link = [w \in Workers |-> "up"]
    /\ spent = 0
-----------------------------------------------------------------------------
(* Helpers: where a worker stands and how it moves.  Here and below, a name *)
(* with an underscore is a mutant: the definition that follows it with one  *)
(* plausible mistake.  Nothing in the specification uses a mutant.          *)

Dep(w) == msg[w][1]
CanPublish(w) == link[w] \in {"up", "noack"}
CanSettle(w) == link[w] \in {"up", "nopub"}   \* the delivery is still its own

NoFault == UNCHANGED spent
Strike(f) ==
    /\ f \in Faults
    /\ spent < MaxFaults
    /\ spent' = spent + 1

Goto(w, call) ==
    /\ pc' = [pc EXCEPT ![w] = call]
    /\ UNCHANGED <<msg, disp, phase, link>>

(* The attempt number scheduleRetry arrives at: a busy lease is not counted. *)
(* Mutants: no attempt is counted; a busy lease is counted too.              *)
Attempt_NeverCounted(w, counted) == msg[w][2]
Attempt(w, counted) == msg[w][2] + (IF counted THEN 1 ELSE 0)
Counted_Always(w) == TRUE
Counted(w) == disp[w] # "Busy"

(* The first call of scheduleRetry.  Mutant: used-up attempts go to the     *)
(* dead-letter queue without a word.                                        *)
RetryEntry_Silent(w, counted) ==
    IF Attempt(w, counted) >= MaxAttempts THEN "deadLetter"
    ELSE IF counted THEN "retrying" ELSE "requeue"
RetryEntry(w, counted) ==
    IF Attempt(w, counted) >= MaxAttempts THEN "fail"
    ELSE IF counted THEN "retrying" ELSE "requeue"

ScheduleRetry(w, counted) ==
    /\ pc' = [pc EXCEPT ![w] = RetryEntry(w, counted)]
    /\ phase' = [phase EXCEPT ![w] = "retry"]
    /\ UNCHANGED <<msg, disp, link>>

(* A failed call ends handleMessage with a requeue, which scheduleRetry    *)
(* answers; it ends scheduleRetry with an error, and the delivery goes     *)
(* back to the deploy queue as it was.                                     *)
GiveUp(w) ==
    IF phase[w] = "handle" THEN ScheduleRetry(w, TRUE)
    ELSE Goto(w, "nackRequeue")

(* The delivery is over.  A process whose consumer channel is gone leaves  *)
(* the receive loop and exits; it comes back with new channels.            *)
(* Mutant: the worker is idle with the delivery still in hand.             *)
Finish_KeepsDelivery(w) ==
    /\ pc' = [pc EXCEPT ![w] = "idle"]
    /\ UNCHANGED msg
    /\ disp' = [disp EXCEPT ![w] = "none"]
    /\ phase' = [phase EXCEPT ![w] = "handle"]
    /\ link' = [link EXCEPT ![w] = IF CanSettle(w) THEN @ ELSE "up"]
Finish(w) ==
    /\ pc' = [pc EXCEPT ![w] = "idle"]
    /\ msg' = [msg EXCEPT ![w] = NoCopy]
    /\ disp' = [disp EXCEPT ![w] = "none"]
    /\ phase' = [phase EXCEPT ![w] = "handle"]
    /\ link' = [link EXCEPT ![w] = IF CanSettle(w) THEN @ ELSE "up"]
-----------------------------------------------------------------------------
(* Calls that can fail.  A publish is confirmed, or fails; a failed one    *)
(* may have been delivered all the same.  So with a ledger call.           *)

Confirmed(w) == CanPublish(w) /\ NoFault
Unsent(w) ==
    \/ ~CanPublish(w) /\ NoFault
    \/ CanPublish(w) /\ Strike("pub")
Unconfirmed(w) == CanPublish(w) /\ Strike("pub")

Tell(d, kind) == events' = [events EXCEPT ![d] = @ \union {kind}]

Announce(w, kind, next) ==
    /\ \/ Confirmed(w) /\ Tell(Dep(w), kind) /\ Goto(w, next)
       \/ Unconfirmed(w) /\ Tell(Dep(w), kind) /\ GiveUp(w)
       \/ Unsent(w) /\ UNCHANGED events /\ GiveUp(w)
    /\ UNCHANGED <<brokerVars, ledgerVars>>

(* stmt is one statement of the ledger, as an action on stage and leased. *)
Persist(w, stmt, next) ==
    /\ \/ NoFault /\ stmt /\ Goto(w, next)
       \/ Strike("db") /\ stmt /\ GiveUp(w)
       \/ Strike("db") /\ UNCHANGED ledgerVars /\ GiveUp(w)
    /\ UNCHANGED <<brokerVars, events>>
-----------------------------------------------------------------------------
(* handleMessage                                                           *)

Receive(w) ==
    /\ pc[w] = "idle"
    /\ \E m \in Broker!Copies :
          /\ Broker!Take(m)
          /\ msg' = [msg EXCEPT ![w] = m]
          /\ pc' = [pc EXCEPT ![w] = IF m[1] \in Malformed
                                     THEN "deadLetter" ELSE "claim"]
    /\ UNCHANGED <<retry, dlq, ledgerVars, events, disp, phase, link, spent>>

(* Claim answered: go on, replay the stored outcome, or come back later. *)
ClaimAnswered(w) ==
    LET answer == Ledger!Disposition(Dep(w))
    IN  /\ Ledger!Claim(Dep(w))
        /\ NoFault
        /\ disp' = [disp EXCEPT ![w] = answer]
        /\ pc' = [pc EXCEPT ![w] =
                     CASE answer = "Acquired" -> "started"
                       [] answer = "Busy" -> RetryEntry(w, FALSE)
                       [] OTHER -> "storedService"]
        /\ phase' = [phase EXCEPT ![w] = IF answer = "Busy" THEN "retry" ELSE @]
        /\ UNCHANGED <<msg, link>>

Claim(w) ==
    /\ pc[w] = "claim"
    /\ \/ ClaimAnswered(w)
       \/ Strike("db") /\ Ledger!Claim(Dep(w)) /\ GiveUp(w)
       \/ Strike("db") /\ UNCHANGED ledgerVars /\ GiveUp(w)
    /\ UNCHANGED <<brokerVars, events>>

AnnounceStarted(w) == pc[w] = "started" /\ Announce(w, "started", "deploy")

(* Deploy and WaitForRollout answer as the cluster pleases; reconciler.go  *)
(* and rollout.go decide which answers count as retriable.                 *)
Deploy(w) ==
    /\ pc[w] = "deploy"
    /\ \/ Goto(w, "deployed")
       \/ GiveUp(w)                \* isRetriableDeployError
       \/ Goto(w, "fail")
    /\ UNCHANGED <<brokerVars, ledgerVars, events, spent>>

AnnounceDeployed(w) == pc[w] = "deployed" /\ Announce(w, "deployed", "rollout")

(* publishRolloutSuccess begins with Complete under the caller's context;  *)
(* a context that is already cancelled makes Complete fail unexecuted.     *)
(* Mutant: publishes before it persists.                                   *)
PublishRolloutSuccess_TellsFirst(w, cancelled) ==
    IF cancelled THEN GiveUp(w) ELSE Goto(w, "succeeded")
PublishRolloutSuccess(w, cancelled) ==
    IF cancelled THEN GiveUp(w) ELSE Goto(w, "complete")

WaitForRollout(w) ==
    /\ pc[w] = "rollout"
    /\ \/ PublishRolloutSuccess(w, FALSE)
       \/ Goto(w, "late")          \* the rollout timeout passed
       \/ GiveUp(w)                \* isRetriableDeployError
       \/ Goto(w, "fail")
    /\ UNCHANGED <<brokerVars, ledgerVars, events, spent>>

(* The check after the timeout: a rollout that is ready, or whose state    *)
(* could not be read, goes to publishRolloutSuccess with the context of    *)
(* the check, which cancelCheck has ended; only a rollout that reports     *)
(* failure is announced as pending.                                        *)
LateCheck(w) ==
    /\ pc[w] = "late"
    /\ \/ PublishRolloutSuccess(w, TRUE)
       \/ Goto(w, "pending")
    /\ UNCHANGED <<brokerVars, ledgerVars, events, spent>>

AnnouncePending(w) == pc[w] = "pending" /\ Announce(w, "pending", "ack")

CompleteStage(w) ==
    pc[w] = "complete" /\ Persist(w, Ledger!Complete(Dep(w)), "succeeded")

AnnounceSucceeded(w) == pc[w] = "succeeded" /\ Announce(w, "succeeded", "running")

AnnounceRunning(w) == pc[w] = "running" /\ Announce(w, "running", "ack")
-----------------------------------------------------------------------------
(* completeFailure: called by handleMessage, and by scheduleRetry when the *)
(* attempts are used up; the latter goes on to the dead-letter queue.      *)

FailStage(w) ==
    pc[w] = "fail" /\ Persist(w, Ledger!Fail(Dep(w)), "deployFailed")

AnnounceDeployFailed(w) ==
    pc[w] = "deployFailed" /\ Announce(w, "deployFailed", "orchFailed")

AnnounceFailed(w) ==
    /\ pc[w] = "orchFailed"
    /\ Announce(w, "orchFailed",
                IF phase[w] = "handle" THEN "ack" ELSE "deadLetter")

(* publishStored: the two events of the row Claim returned.  Mutant: the   *)
(* progress event first.                                                   *)

StoredServiceEvent_ProgressFirst(w) ==
    IF disp[w] = "Completed" THEN "running" ELSE "orchFailed"
StoredServiceEvent(w) ==
    IF disp[w] = "Completed" THEN "succeeded" ELSE "deployFailed"
StoredProgressEvent(w) ==
    IF disp[w] = "Completed" THEN "running" ELSE "orchFailed"

ReplayService(w) ==
    /\ pc[w] = "storedService"
    /\ Announce(w, StoredServiceEvent(w), "storedProgress")

ReplayProgress(w) ==
    /\ pc[w] = "storedProgress"
    /\ Announce(w, StoredProgressEvent(w), "ack")
-----------------------------------------------------------------------------
(* scheduleRetry, copyToDLQ and the end of processDelivery                 *)

EmitRetrying(w) == pc[w] = "retrying" /\ Announce(w, "retrying", "requeue")

RetryCopy(w) == <<Dep(w), Attempt(w, Counted(w))>>

(* Mutant: the delivery is acknowledged whether or not the copy went out. *)
PublishRetry_IgnoresError(w) ==
    /\ pc[w] = "requeue"
    /\ \/ Confirmed(w) /\ Broker!Delay(RetryCopy(w))
       \/ Unconfirmed(w) /\ Broker!Delay(RetryCopy(w))
       \/ Unsent(w) /\ UNCHANGED retry
    /\ Goto(w, IF Counted(w) THEN "release" ELSE "ack")
    /\ UNCHANGED <<ready, dlq, ledgerVars, events>>
PublishRetry(w) ==
    /\ pc[w] = "requeue"
    /\ \/ /\ Confirmed(w)
          /\ Broker!Delay(RetryCopy(w))
          /\ Goto(w, IF Counted(w) THEN "release" ELSE "ack")
       \/ Unconfirmed(w) /\ Broker!Delay(RetryCopy(w)) /\ Goto(w, "nackRequeue")
       \/ Unsent(w) /\ UNCHANGED retry /\ Goto(w, "nackRequeue")
    /\ UNCHANGED <<ready, dlq, ledgerVars, events>>

ReleaseClaim(w) ==
    pc[w] = "release" /\ Persist(w, Ledger!Release(Dep(w)), "ack")

(* A copy that cannot be dead-lettered is dropped if handleMessage had     *)
(* rejected it, and requeued if its attempts were used up.                 *)
CopyToDLQ(w) ==
    LET otherwise == IF phase[w] = "handle" THEN "nackDrop" ELSE "nackRequeue"
    IN  /\ pc[w] = "deadLetter"
        /\ \/ Confirmed(w) /\ Broker!DeadLetter(Dep(w)) /\ Goto(w, "ack")
           \/ Unconfirmed(w) /\ Broker!DeadLetter(Dep(w)) /\ Goto(w, otherwise)
           \/ Unsent(w) /\ UNCHANGED dlq /\ Goto(w, otherwise)
        /\ UNCHANGED <<ready, retry, ledgerVars, events>>

(* Ack, or Nack without requeue: the deploy queue has no dead-letter route. *)
(* Mutant: the Ack is forgotten, and the broker requeues the delivery.      *)
Discard_Forgotten(w) ==
    /\ pc[w] \in {"ack", "nackDrop"}
    /\ IF CanSettle(w) THEN Broker!Return(msg[w]) ELSE UNCHANGED ready
    /\ Finish(w)
    /\ UNCHANGED <<retry, dlq, ledgerVars, events, spent>>
Discard(w) ==
    /\ pc[w] \in {"ack", "nackDrop"}
    /\ Finish(w)
    /\ UNCHANGED <<brokerVars, ledgerVars, events, spent>>

(* Nack with requeue; without its channel the broker has already requeued. *)
NackRequeue(w) ==
    /\ pc[w] = "nackRequeue"
    /\ IF CanSettle(w) THEN Broker!Return(msg[w]) ELSE UNCHANGED ready
    /\ Finish(w)
    /\ UNCHANGED <<retry, dlq, ledgerVars, events, spent>>
-----------------------------------------------------------------------------
(* The renewal goroutine, which lives from before Deploy until             *)
(* handleMessage returns; a renewal that does not happen changes nothing.  *)
Renew(w) ==
    /\ pc[w] \in WorkPcs \/ (pc[w] \in FailPcs /\ phase[w] = "handle")
    /\ Ledger!Renew(Dep(w))
    /\ UNCHANGED <<brokerVars, events, workerVars, spent>>

(* A worker whose claim was granted and whose delivery is not over. *)
AtWork(w) == disp[w] = "Acquired" /\ pc[w] \notin SettlePcs

(* Nobody is left who would renew the lease, and its time passes. *)
LeaseRunsOut(d) ==
    /\ \A w \in Workers : AtWork(w) => Dep(w) # d
    /\ Ledger!Expire(d)
    /\ UNCHANGED <<brokerVars, events, workerVars, spent>>

(* Renewals were missed for so long that the lease of a worker still at    *)
(* work runs out.                                                          *)
LeaseMissed(d) ==
    /\ Strike("stall")
    /\ Ledger!Expire(d)
    /\ UNCHANGED <<brokerVars, events, workerVars>>

RetryExpires(m) ==
    /\ Broker!Expire(m)
    /\ UNCHANGED <<ledgerVars, events, workerVars, spent>>
-----------------------------------------------------------------------------
(* Faults around the code.                                                 *)

Republish(d) ==
    /\ Strike("dup")
    /\ Broker!Return(<<d, 0>>)
    /\ UNCHANGED <<retry, dlq, ledgerVars, events, workerVars>>

(* The broker requeues what a consumer had not settled when it went away. *)
Requeued(w) == IF CanSettle(w) THEN Broker!Return(msg[w]) ELSE UNCHANGED ready

(* SIGTERM in the middle of a delivery is a crash too: main waits for the  *)
(* HTTP server only.                                                       *)
Crash(w) ==
    /\ pc[w] # "idle"
    /\ Strike("crash")
    /\ Requeued(w)
    /\ pc' = [pc EXCEPT ![w] = "idle"]
    /\ msg' = [msg EXCEPT ![w] = NoCopy]
    /\ disp' = [disp EXCEPT ![w] = "none"]
    /\ phase' = [phase EXCEPT ![w] = "handle"]
    /\ link' = [link EXCEPT ![w] = "up"]
    /\ UNCHANGED <<retry, dlq, ledgerVars, events>>

LoseConsumerChannel(w) ==
    /\ pc[w] # "idle" /\ CanSettle(w)
    /\ Strike("unack")
    /\ Requeued(w)
    /\ link' = [link EXCEPT ![w] = IF @ = "up" THEN "noack" ELSE "down"]
    /\ UNCHANGED <<retry, dlq, ledgerVars, events, pc, msg, disp, phase>>

LosePublisherChannel(w) ==
    /\ CanPublish(w)
    /\ Strike("nopub")
    /\ link' = [link EXCEPT ![w] = IF @ = "up" THEN "nopub" ELSE "down"]
    /\ UNCHANGED <<brokerVars, ledgerVars, events, pc, msg, disp, phase>>

LoseConnection(w) ==
    /\ pc[w] # "idle" /\ link[w] # "down"
    /\ Strike("link")
    /\ Requeued(w)
    /\ link' = [link EXCEPT ![w] = "down"]
    /\ UNCHANGED <<retry, dlq, ledgerVars, events, pc, msg, disp, phase>>

(* No build waits and nobody works: the service waits for the next one. *)
Quiet ==
    /\ Broker!Empty
    /\ \A w \in Workers : pc[w] = "idle"
    /\ UNCHANGED vars
-----------------------------------------------------------------------------
HandleMessage(w) ==
    \/ Receive(w) \/ Claim(w)
    \/ AnnounceStarted(w) \/ Deploy(w) \/ AnnounceDeployed(w)
    \/ WaitForRollout(w) \/ LateCheck(w) \/ AnnouncePending(w)
    \/ CompleteStage(w) \/ AnnounceSucceeded(w) \/ AnnounceRunning(w)
    \/ FailStage(w) \/ AnnounceDeployFailed(w) \/ AnnounceFailed(w)
    \/ ReplayService(w) \/ ReplayProgress(w)

SettleDelivery(w) ==
    \/ EmitRetrying(w) \/ PublishRetry(w) \/ ReleaseClaim(w)
    \/ CopyToDLQ(w) \/ Discard(w) \/ NackRequeue(w)

Work(w) == HandleMessage(w) \/ SettleDelivery(w)

Fault ==
    \/ \E d \in Deployments : Republish(d) \/ LeaseMissed(d)
    \/ \E w \in Workers : \/ Crash(w) \/ LoseConsumerChannel(w)
                          \/ LosePublisherChannel(w) \/ LoseConnection(w)

Next ==
    \/ \E w \in Workers : Work(w) \/ Renew(w)
    \/ \E d \in Deployments : LeaseRunsOut(d)
    \/ \E m \in Broker!Copies : RetryExpires(m)
    \/ Fault
    \/ Quiet

Spec == Init /\ [][Next]_vars

(* A process runs on; a TTL and an unrenewed lease run out. *)
Fairness ==
    /\ \A w \in Workers : WF_vars(Work(w))
    /\ \A d \in Deployments : WF_vars(LeaseRunsOut(d))
    /\ \A m \in Broker!Copies : WF_vars(RetryExpires(m))

FairSpec == Spec /\ Fairness
-----------------------------------------------------------------------------
(* Properties.                                                             *)

WellFormed == Deployments \ Malformed

Succeeded(d) == {"succeeded", "running"} \subseteq events[d]
Failed(d) == {"deployFailed", "orchFailed"} \subseteq events[d]
Settled(d) == Succeeded(d) \/ Failed(d)
Parked(d) == "pending" \in events[d]

Queued(d) == \E m \in Broker!Copies : m[1] = d /\ (ready[m] > 0 \/ retry[m] > 0)
Processing(w, d) == pc[w] # "idle" /\ Dep(w) = d

(* A live delivery whose message the worker has not given away yet. *)
Carries(w, d) ==
    /\ Processing(w, d)
    /\ CanSettle(w)
    /\ pc[w] \notin {"release", "ack", "nackDrop"}

(* No build request is ever forgotten, whatever strikes and in whatever    *)
(* order: until both events of its outcome are out, or it was announced as *)
(* pending, a copy of the message is in a queue or in the hands of a       *)
(* worker that will requeue it or hand it on before it acknowledges it.    *)
NeverForgotten ==
    \A d \in WellFormed :
        \/ Settled(d)
        \/ Parked(d)
        \/ Queued(d)
        \/ \E w \in Workers : Carries(w, d)

(* The event that must be out before an event of this kind. *)
Precedes(kind) ==
    CASE kind = "deployed" -> {"started"}
      [] kind \in {"succeeded", "pending"} -> {"deployed"}
      [] kind = "running" -> {"succeeded"}
      [] kind = "orchFailed" -> {"deployFailed"}
      [] OTHER -> {}
(* Consumers of the events can rely on their order: deploy.succeeded comes *)
(* after started and deployed and before running, and the orchestration    *)
(* failure after deploy.failed, also when a retry, a replay of the stored  *)
(* result or another process publishes them.                               *)
EventOrder ==
    \A d \in Deployments : \A k \in events[d] : Precedes(k) \subseteq events[d]

(* Whoever waits for a build that ends in the dead-letter queue has been   *)
(* told: both failure events went out before the copy did.                 *)
DeadLetterAnnounced == \A d \in dlq \ Malformed : Failed(d)

(* What a worker may rely on at each call: inside scheduleRetry the attempt *)
(* number stays below MaxAttempts, only a rejected message is dropped, and  *)
(* a call is reached only after the ones that must precede it.              *)
ControlAt(w) ==
    /\ pc[w] = "idle" => CanSettle(w)
    /\ pc[w] \in {"idle", "claim"} => phase[w] = "handle" /\ disp[w] = "none"
    /\ pc[w] \in WorkPcs \union {"started"} =>
           phase[w] = "handle" /\ disp[w] = "Acquired"
    /\ pc[w] \in StoredPcs =>
           phase[w] = "handle" /\ disp[w] \in {"Completed", "Failed"}
    /\ phase[w] = "handle" => disp[w] # "Busy"
    /\ pc[w] \in RetryPcs \union {"nackRequeue"} => phase[w] = "retry"
    /\ pc[w] \in {"retrying", "requeue"} => Attempt(w, Counted(w)) < MaxAttempts
    /\ pc[w] = "deadLetter" /\ phase[w] = "handle" => Dep(w) \in Malformed
    /\ pc[w] = "nackDrop" => Dep(w) \in Malformed

(* What has been published by the time a worker makes call p, with the      *)
(* answer ds of Claim and inside phase ph.                                  *)
ToldBefore(p, ds, ph) ==
    {k \in EventKinds :
       \/ k = "started" /\ p \in WorkPcs
       \/ k = "deployed" /\ (p \in WorkPcs \ {"deploy", "deployed"} \/ ds = "Completed")
       \/ k = "succeeded" /\ (p = "running" \/ (p = "storedProgress" /\ ds = "Completed"))
       \/ k = "deployFailed" /\ (p = "orchFailed" \/ (p = "storedProgress" /\ ds = "Failed"))
       \/ k \in {"deployFailed", "orchFailed"} /\ p = "deadLetter" /\ ph = "retry"}
ToldAt(w) == ToldBefore(pc[w], disp[w], phase[w]) \subseteq events[Dep(w)]

(* Every worker stands where its calls so far have brought it, and what the *)
(* ledger calls COMPLETED was announced as deployed.                        *)
Bookkeeping ==
    /\ \A w \in Workers : ControlAt(w) /\ (pc[w] # "idle" => ToldAt(w))
    /\ \A d \in Deployments : stage[d] = "COMPLETED" => "deployed" \in events[d]

(* The next four hold while processes may die, lose their consumer channel *)
(* and receive duplicates, but calls that are made succeed.                *)
CallsSucceed == Faults \subseteq {"dup", "crash", "unack"}

(* The lease is a lock: no two processes drive the same deployment, not    *)
(* even a process that lost its consumer channel and the one its message   *)
(* was redelivered to.                                                     *)
Driving(w, d) == Processing(w, d) /\ AtWork(w)
OneDriver ==
    \A v, w \in Workers : \A d \in Deployments :
        Driving(v, d) /\ Driving(w, d) => v = w

(* A finished stage stays as it finished. *)
TerminalSticky ==
    [][\A d \in Deployments :
          stage[d] \in Ledger!TerminalStates => stage'[d] = stage[d]]_vars

(* Nobody is told both that a deployment succeeded and that it failed. *)
OneOutcome ==
    \A d \in Deployments :
        ~ ("succeeded" \in events[d] /\ "deployFailed" \in events[d])

(* What was published is what the ledger says, at every moment and not only *)
(* at the end: an announced success is a completed stage, an announced      *)
(* failure a failed one, so that a replay repeats what was said before.     *)
Truthful ==
    \A d \in Deployments :
        /\ "succeeded" \in events[d] => stage[d] = "COMPLETED"
        /\ "deployFailed" \in events[d] => stage[d] = "FAILED"

(* What the row says while w drives the deployment, call by call.          *)
Held(w) ==
    CASE pc[w] \in {"succeeded", "running"} -> stage[Dep(w)] = "COMPLETED"
      [] pc[w] \in {"deployFailed", "orchFailed", "deadLetter"} -> stage[Dep(w)] = "FAILED"
      [] OTHER -> stage[Dep(w)] = "IN_PROGRESS" /\ Dep(w) \in leased

(* What the row says of a deployment, as far as the outside is concerned.  *)
Outcome ==
    [d \in Deployments |->
        CASE stage[d] = "COMPLETED" -> "succeeded"
          [] stage[d] = "FAILED" -> "failed"
          [] OTHER -> "open"]

Promise == INSTANCE DeliveryPromise WITH told <- events, outcome <- Outcome

(* The processes together implement DeliveryPromise, with the ledger as    *)
(* the place where the outcome is decided: one outcome per build, written  *)
(* before it is announced, no progress announced of a build that is over   *)
(* and no event ahead of its turn, whoever dies between which two calls.   *)
PromiseKept == Promise!Spec

Drives == [w \in Workers |-> IF AtWork(w) THEN {Dep(w)} ELSE {}]
Lock == INSTANCE LeaseLock WITH drives <- Drives

(* No UPDATE of the ledger asks who holds the lease, yet each one that     *)
(* ends or releases a stage is sent by the process that drives it, while   *)
(* it does, and none comes from a process that found the stage busy, over  *)
(* or has left it.                                                         *)
LockHonoured == Lock!Spec

(* The answer of Claim stays true for as long as the worker acts on it.    *)
LockAt(w) ==
    /\ CanPublish(w)
    /\ disp[w] = "none" =>
           pc[w] \in {"idle", "claim", "deadLetter"} \union SettlePcs
    /\ disp[w] = "Busy" => pc[w] \in {"requeue"} \union SettlePcs
    /\ disp[w] \in {"Completed", "Failed"} => pc[w] \in StoredPcs \union SettlePcs
    /\ disp[w] = "Completed" => stage[Dep(w)] = "COMPLETED"
    /\ disp[w] = "Failed" => stage[Dep(w)] = "FAILED"
    /\ AtWork(w) => Held(w)

(* The inductive form of the properties above that need CallsSucceed.      *)
Locked == OneDriver /\ Truthful /\ \A w \in Workers : LockAt(w)

(* The same if channels and connections close under the workers as well:   *)
(* no call is lost that could have been answered.                          *)
LinksMayFail == Faults \subseteq {"dup", "crash", "unack", "nopub", "link"}

(* What keeps the lease a lock then, although a worker that cannot publish *)
(* may write FAILED over COMPLETED and tell nobody: whoever drives finds   *)
(* the row leased for itself, or over; whoever replays finds it over; and  *)
(* only a driver whose retry was published releases a lease, its own.      *)
Over(d) == stage[d] \in Ledger!TerminalStates
Leased(d) == stage[d] = "IN_PROGRESS" /\ d \in leased
OverPcs == {"succeeded", "running", "deployFailed", "orchFailed", "deadLetter"}
GuardAt(w) ==
    /\ disp[w] = "none" =>
           pc[w] \in {"idle", "claim", "deadLetter"} \union SettlePcs
    /\ disp[w] = "Busy" => pc[w] \in {"requeue"} \union SettlePcs
    /\ disp[w] \in {"Completed", "Failed"} =>
           /\ Over(Dep(w)) /\ pc[w] # "release"
           /\ pc[w] \in StoredPcs \union SettlePcs \/ ~CanPublish(w)
    /\ AtWork(w) =>
           \/ Leased(Dep(w))
           \/ /\ Over(Dep(w))
              /\ \/ pc[w] \in OverPcs
                 \/ pc[w] \in {"retrying", "requeue", "fail"} /\ ~CanPublish(w)

Guarded == OneDriver /\ \A w \in Workers : GuardAt(w)

(* No stage that is over is ever opened again.                             *)
NeverReopened == [][\A d \in Deployments : Over(d) => Over(d)']_vars

(* A process that consumes but cannot publish: the publisher opens its      *)
(* channel once, and nothing notices that it has been closed.              *)
Mute(w) == link[w] = "nopub"
MuteForGood == <>[](\E w \in Workers : Mute(w))

(* Every build gets an answer: both events of its outcome, or the           *)
(* announcement that it is pending, after which nobody concludes it.  The   *)
(* one thing that prevents it for good is a process that cannot publish     *)
(* any more and takes the same delivery again and again.                    *)
Answered == \A d \in WellFormed : <>(Settled(d) \/ Parked(d)) \/ MuteForGood

(* The queues drain, with the same exception: retries, redeliveries of      *)
(* busy leases and replays do not feed each other for ever.                 *)
Drains ==
    <>[](Broker!Empty /\ \A w \in Workers : pc[w] = "idle") \/ MuteForGood
=============================================================================

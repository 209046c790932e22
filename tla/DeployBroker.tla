---------------------------- MODULE DeployBroker ----------------------------
(***************************************************************************)
(* The RabbitMQ objects the service declares and uses: the deploy queue,   *)
(* the delayed retry queues <prefix>.1 .. <prefix>.n with their TTL and    *)
(* dead-letter route back to the deploy queue, and the dead-letter queue.  *)
(*                                                                         *)
(* A message is the pair of the deployment it asks for and the attempt     *)
(* number in its x-shiply-attempt header.  A queue is a bag of messages: a *)
(* requeued delivery goes back near its old place and a retry queue is     *)
(* emptied by time, so the order of a queue is nothing to rely on.         *)
(***************************************************************************)
EXTENDS Naturals

CONSTANTS
    Deployments,
    MaxAttempts,   \* cfg.MaxAttempts
    NumBackoffs    \* len(cfg.RetryBackoffs)

VARIABLES
    ready,   \* copies in the deploy queue that no consumer holds
    retry,   \* copies waiting in a retry queue
    dlq      \* deployments with a copy in the dead-letter queue

(* scheduleRetry never writes an attempt of MaxAttempts into a header. *)
Attempts == 0 .. (MaxAttempts - 1)
Copies == Deployments \X Attempts

BrokerTypeOK ==
    /\ ready \in [Copies -> Nat]
    /\ retry \in [Copies -> Nat]
    /\ dlq \subseteq Deployments

(* One build.succeeded event per deployment, not tried yet. *)
BrokerInit ==
    /\ ready = [m \in Copies |-> IF m[2] = 0 THEN 1 ELSE 0]
    /\ retry = [m \in Copies |-> 0]
    /\ dlq = {}
-----------------------------------------------------------------------------
DeclaredRetryQueues == 1 .. NumBackoffs

(* The retry queue scheduleRetry chooses for an attempt. *)
RetryQueue(attempt) ==
    LET idx == IF attempt > 0 THEN attempt - 1 ELSE 0
    IN  IF idx >= NumBackoffs THEN NumBackoffs ELSE idx + 1

Take(m) ==
    /\ ready[m] > 0
    /\ ready' = [ready EXCEPT ![m] = @ - 1]

Return(m) == ready' = [ready EXCEPT ![m] = @ + 1]

(* The default exchange drops a message for a queue nobody declared, and   *)
(* still confirms it: retry publishes are not mandatory.                   *)
Delay(m) ==
    retry' = IF RetryQueue(m[2]) \in DeclaredRetryQueues
             THEN [retry EXCEPT ![m] = @ + 1] ELSE retry

DeadLetter(d) == dlq' = dlq \union {d}

(* The TTL of a retry queue runs out and the copy is routed back. *)
Expire(m) ==
    /\ retry[m] > 0
    /\ retry' = [retry EXCEPT ![m] = @ - 1]
    /\ Return(m)
    /\ UNCHANGED dlq

Empty == \A m \in Copies : ready[m] = 0 /\ retry[m] = 0
=============================================================================

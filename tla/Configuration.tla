---------------------------- MODULE Configuration ----------------------------
(***************************************************************************)
(* config.go: what the service makes of its environment.  A number, a      *)
(* duration or a part of a schedule in the environment is <<n>> when it    *)
(* parses as n, and <<>> when it is not set or does not parse.  Back-offs  *)
(* are in a unit of which Millisecond is a multiple, the other durations   *)
(* in units of 15 seconds, the deadline of a call; an int32 is one of      *)
(* -Half .. Half - 1, so that small numbers reach the limits.              *)
(***************************************************************************)
EXTENDS Names

CONSTANTS Half, Millisecond

(* The default of the port, 3000, is an int32. *)
defaultAppContainerPort == 3
ASSUME UnitsAssumption ==
    /\ Half \in Nat /\ Half > defaultAppContainerPort
    /\ Millisecond \in Nat \ {0}

Int32(n) == ((n + Half) % (2 * Half)) - Half
MaxInt32 == Half - 1

(* Mutant: zero passes for a number. *)
envInt32OrDefault_Zero(value, fallback) ==
    IF value = <<>> \/ Last(value) < 0 THEN fallback ELSE Int32(Last(value))
envInt32OrDefault(value, fallback) ==
    IF value = <<>> \/ Last(value) < 1 THEN fallback ELSE Int32(Last(value))

envDurationOrDefault(value, fallback) ==
    IF value = <<>> \/ Last(value) <= 0 THEN fallback ELSE Last(value)

envDurationsOrDefault(values, fallback) ==
    IF values = <<>> \/ \E i \in DOMAIN values :
                           values[i] = <<>> \/ Last(values[i]) <= 0
    THEN fallback
    ELSE [i \in DOMAIN values |-> Last(values[i])]

envOrDefault(text, fallback) ==
    IF TrimSpace(text) = <<>> THEN fallback ELSE TrimSpace(text)

(* The defaults: 5 attempts, 1 replica; a rollout timeout of 20 minutes    *)
(* and 2 minutes more for the lease; four back-offs, here two.             *)
DefaultAttempts == 5
DefaultReplicas == 1
DefaultTimeout == 80
LeaseMargin == 8
DefaultBackoffs == <<10, 30>>
DefaultPrefix == PrefixWord
DefaultExchange == <<"s">>
DefaultRoutingKey == <<"b">>
DefaultRetryPrefix == <<"s", ".", "b">>

(* Mutant: the lease follows the default timeout, not the one given. *)
LeaseDefault_Fixed(timeout) == DefaultTimeout + LeaseMargin
LeaseDefault(timeout) == timeout + LeaseMargin

(* k8s_client.go: the configuration of the cluster the process runs in, of *)
(* the file KUBECONFIG names, or of the one in the home directory.         *)
kubeRESTConfig(env) ==
    IF env.inCluster THEN "cluster"
    ELSE IF env.kubeconfig # <<>> THEN "file"
    ELSE IF env.home THEN "home" ELSE "none"

loadConfig(env) ==
    LET timeout == envDurationOrDefault(env.timeout, DefaultTimeout)
    IN  [RolloutTimeout |-> timeout,
         LeaseDuration |-> envDurationOrDefault(env.lease, LeaseDefault(timeout)),
         MaxAttempts |-> envInt32OrDefault(env.attempts, DefaultAttempts),
         DefaultReplicas |-> envInt32OrDefault(env.replicas, DefaultReplicas),
         DefaultContainerPort |->
             envInt32OrDefault(env.port, defaultAppContainerPort),
         RetryBackoffs |-> envDurationsOrDefault(env.backoffs, DefaultBackoffs),
         NamespacePrefix |-> envOrDefault(env.prefix, DefaultPrefix),
         RabbitMQExchange |-> envOrDefault(env.exchange, DefaultExchange),
         BuildSucceededRoutingKey |->
             envOrDefault(env.routingKey, DefaultRoutingKey),
         RetryQueuePrefix |-> envOrDefault(env.retryPrefix, DefaultRetryPrefix),
         Cluster |-> kubeRESTConfig(env) # "none",
         Database |-> TrimSpace(env.databaseURL) # <<>>]

(* deployRequestFromEvent does not trust the port. *)
ContainerPort(cfg) ==
    IF cfg.DefaultContainerPort <= 0 THEN defaultAppContainerPort
    ELSE cfg.DefaultContainerPort

(* The deadlines handleMessage works under once Claim has answered, along  *)
(* each way it may go: it cannot announce the start; Deploy fails; the     *)
(* rollout fails or, looked at once more, is ready; it is announced as     *)
(* pending.  scheduleRetry adds the announcement of the retry, and then    *)
(* the retry copy and Release under one deadline.                          *)
Call == 1
Apply == 4
HandlingTimes(rollout) ==
    {Call, Call + Apply + Call, Call + Apply + rollout + Call,
     Call + Apply + rollout + Call + Call}
RetryTime == Call + Call

(* x-message-ttl.  Mutant: it is not converted to int32. *)
MessageTTL_Wide(backoff) == backoff \div Millisecond
MessageTTL(backoff) == Int32(backoff \div Millisecond)
-----------------------------------------------------------------------------
(* What is expected of a configuration.                                    *)

(* The service can work with it: no context or lease that ends as it       *)
(* begins, a last back-off for attempts that outnumber the schedule, an    *)
(* exchange and a key that retries come back by, prefixes of names, a      *)
(* port, an attempt and a replica.  Only numbers beyond int32 are cut to   *)
(* anything, so that there may be no attempt, or a rollout of no replica,  *)
(* which is a success.                                                     *)
Cut(value) == value # <<>> /\ Last(value) > MaxInt32
Usable(env) ==
    LET c == loadConfig(env)
    IN  /\ c.RolloutTimeout > 0 /\ c.LeaseDuration > 0
        /\ c.RetryBackoffs # <<>> /\ c.NamespacePrefix # <<>>
        /\ c.RabbitMQExchange # <<>> /\ c.BuildSucceededRoutingKey # <<>>
        /\ c.RetryQueuePrefix # <<>>
        /\ \A i \in DOMAIN c.RetryBackoffs : c.RetryBackoffs[i] > 0
        /\ ContainerPort(c) \in 1 .. MaxInt32
        /\ c.MaxAttempts >= 1 \/ Cut(env.attempts)
        /\ c.DefaultReplicas >= 1 \/ Cut(env.replicas)

(* A lease nobody has chosen.  If no renewal succeeds it lasts until       *)
(* handleMessage returns, counted from the answer of Claim, which has no   *)
(* deadline; but not through the retry after that, which after a late      *)
(* check, or a completeFailure that failed, takes all that is left of the  *)
(* lease, and after a failed announcement of a pending rollout more.  If   *)
(* no two renewals in a row fail, the third of the lease that two periods  *)
(* of startLeaseRenewal leave covers what is done without its goroutine:   *)
(* the announcement of the start, and the retry.  (Not if a rollout may    *)
(* take no longer than one call.)                                          *)
LeaseLasts(env) ==
    LET c == loadConfig(env)
    IN  envDurationOrDefault(env.lease, 0) = 0 =>
            /\ \A time \in HandlingTimes(c.RolloutTimeout) : time < c.LeaseDuration
            /\ c.RolloutTimeout > Call =>
                   3 * (Call + RetryTime) < c.LeaseDuration
=============================================================================

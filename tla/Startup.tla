------------------------------- MODULE Startup -------------------------------
(***************************************************************************)
(* The life of the service's processes, from loadConfig to the end (main,  *)
(* NewKubernetesClient, NewDeployConsumer, NewRabbitPublisher,             *)
(* NewPostgresStageLedger, Close), and the durable retry queues they       *)
(* declare at a broker that outlives them.  In a rolling update an old and *)
(* a new process, with another environment, run side by side.              *)
(***************************************************************************)
EXTENDS Configuration

CONSTANTS
    Processes,
    Envs,      \* the environments processes are launched in
    None       \* a queue that has not been declared

VARIABLES
    queues,    \* queues[q]: the arguments retry queue q was declared with, or None
    pc,        \* pc[p]: what p does next
    cfg,       \* cfg[p]: p's configuration
    declared,  \* declared[p]: how many retry queues p has declared
    held,      \* held[p]: the connections and channels p has open
    layouts    \* what processes have begun to declare so far (history)

vars == <<queues, pc, cfg, declared, held, layouts>>

(* NewKubernetesClient, then NewDeployConsumer with the steps of           *)
(* NewRabbitPublisher and NewPostgresStageLedger inside it.                *)
SetUp == <<"client", "dial", "channel", "exchange", "queue", "bind", "dlq",
           "retry", "qos", "publisher", "exchanges", "confirm",
           "ledger", "ping", "consume">>
Resources == {"conn", "ch", "pub", "db"}
Up == {"consume", "serving"}

Configs == {loadConfig(e) : e \in Envs}

(* The retry queues of a configuration, named by prefix and index, and the *)
(* arguments of each.                                                      *)
QueueName(c, i) == <<c.RetryQueuePrefix, i>>
QueuesOf(c) == {QueueName(c, i) : i \in DOMAIN c.RetryBackoffs}
Arguments(c, i) ==
    [ttl |-> MessageTTL(c.RetryBackoffs[i]),
     exchange |-> c.RabbitMQExchange,
     routingKey |-> c.BuildSucceededRoutingKey]
Layout(c) == [q \in QueuesOf(c) |-> Arguments(c, q[2])]

Queues == UNION {QueuesOf(c) : c \in Configs}
QueueIndices == UNION {DOMAIN c.RetryBackoffs : c \in Configs}

ASSUME StartupAssumption ==
    /\ Envs # {} /\ \A e \in Envs : e.backoffs \in Seq(Seq(Int))
    /\ \A c \in Configs : \A i \in DOMAIN c.RetryBackoffs : None # Arguments(c, i)

TypeOK ==
    /\ queues \in [Queues -> {None} \union
                      [ttl : 0 .. MaxInt32,
                       exchange : {c.RabbitMQExchange : c \in Configs},
                       routingKey : {c.BuildSucceededRoutingKey : c \in Configs}]]
    /\ pc \in [Processes -> {"down", "serving", "failed", "refused", "closing"}
                            \union Range(SetUp)]
    /\ cfg \in [Processes -> Configs]
    /\ declared \in [Processes -> {0} \union QueueIndices]
    /\ held \in [Processes -> SUBSET Resources]
    /\ layouts \subseteq {Layout(c) : c \in Configs}

Init ==
    /\ queues = [q \in Queues |-> None]
    /\ pc = [p \in Processes |-> "down"]
    /\ cfg = [p \in Processes |-> CHOOSE c \in Configs : TRUE]
    /\ declared = [p \in Processes |-> 0]
    /\ held = [p \in Processes |-> {}]
    /\ layouts = {}
-----------------------------------------------------------------------------
Goto(p, step) == pc' = [pc EXCEPT ![p] = step]
Following(step) == SetUp[1 + CHOOSE i \in DOMAIN SetUp : SetUp[i] = step]

Opens(step) ==
    CASE step = "dial" -> {"conn"}
      [] step = "channel" -> {"ch"}
      [] step = "publisher" -> {"pub"}
      [] step = "ledger" -> {"db"}
      [] OTHER -> {}

(* What the error path of a step closes, by name.  Mutant: the paths of    *)
(* the ledger return without consumer.Close().                             *)
Closes_NoConsumerClose(step) ==
    CASE step \in {"client", "dial"} -> {}
      [] step = "channel" -> {"conn"}
      [] step \in {"exchanges", "confirm"} -> {"pub", "ch", "conn"}
      [] step = "ledger" -> {}
      [] step = "ping" -> {"db"}
      [] OTHER -> {"ch", "conn"}
Closes(step) ==
    CASE step \in {"client", "dial"} -> {}
      [] step = "channel" -> {"conn"}
      [] step \in {"exchanges", "confirm", "ledger"} -> {"pub", "ch", "conn"}
      [] step = "ping" -> {"db", "pub", "ch", "conn"}
      [] OTHER -> {"ch", "conn"}

(* main begins in whatever environment it finds. *)
Launch(p) ==
    /\ pc[p] = "down"
    /\ \E c \in Configs : cfg' = [cfg EXCEPT ![p] = c]
    /\ declared' = [declared EXCEPT ![p] = 0]
    /\ Goto(p, "client")
    /\ UNCHANGED <<queues, held, layouts>>

(* A step that only opens something, or declares what is the same in every *)
(* environment.  NewKubernetesClient needs a configuration of the cluster, *)
(* NewPostgresStageLedger a URL and a schema with a legal name.            *)
Pass(p) ==
    /\ pc[p] \in Range(SetUp) \ {"retry", "consume"}
    /\ pc[p] = "client" => cfg[p].Cluster
    /\ pc[p] = "ledger" => cfg[p].Database
    /\ held' = [held EXCEPT ![p] = @ \union Opens(pc[p])]
    /\ Goto(p, Following(pc[p]))
    /\ UNCHANGED <<queues, cfg, declared, layouts>>

(* declareDeployRetryTopology's loop: RabbitMQ accepts the declaration of  *)
(* a queue it has if all arguments are the same, and no negative TTL.      *)
(* Mutants: all back-offs have one queue; the last one is not declared.    *)
QueueOf_Shared(c, i) == QueueName(c, 1)
QueueOf(c, i) == QueueName(c, i)
ToDeclare_AllButLast(c) == 1 .. Len(c.RetryBackoffs) - 1
ToDeclare(c) == 1 .. Len(c.RetryBackoffs)

Accepts(q, args) == args.ttl >= 0 /\ queues[q] \in {None, args}

DeclareRetryQueue(p) ==
    LET i == declared[p] + 1
        q == QueueOf(cfg[p], i)
    IN  /\ pc[p] = "retry" /\ i \in ToDeclare(cfg[p])
        /\ Accepts(q, Arguments(cfg[p], i))
        /\ queues' = [queues EXCEPT ![q] = Arguments(cfg[p], i)]
        /\ declared' = [declared EXCEPT ![p] = i]
        /\ layouts' = layouts \union {Layout(cfg[p])}
        /\ UNCHANGED <<pc, cfg, held>>

RetryQueuesDeclared(p) ==
    /\ pc[p] = "retry" /\ declared[p] + 1 \notin ToDeclare(cfg[p])
    /\ Goto(p, Following("retry"))
    /\ UNCHANGED <<queues, cfg, declared, held, layouts>>

Refused(p) ==
    LET i == declared[p] + 1
    IN  /\ pc[p] = "retry" /\ i \in ToDeclare(cfg[p])
        /\ ~ Accepts(QueueOf(cfg[p], i), Arguments(cfg[p], i))
        /\ held' = [held EXCEPT ![p] = @ \ Closes("retry")]
        /\ Goto(p, "refused")
        /\ UNCHANGED <<queues, cfg, declared, layouts>>

(* Any call of the set-up may fail; its function cleans up and returns.    *)
Fails(p) ==
    /\ pc[p] \in Range(SetUp) \ {"consume"}
    /\ held' = [held EXCEPT ![p] = @ \ Closes(pc[p])]
    /\ Goto(p, "failed")
    /\ UNCHANGED <<queues, cfg, declared, layouts>>

Consume(p) ==
    /\ pc[p] = "consume"
    /\ Goto(p, "serving")
    /\ UNCHANGED <<queues, cfg, declared, held, layouts>>

(* A signal ends main, and the deferred Close closes the ledger first and  *)
(* the connection last; meanwhile the consumer goroutine may go on.        *)
CloseOrder == <<"db", "pub", "ch", "conn">>
Stop(p) ==
    /\ pc[p] \in Up
    /\ Goto(p, "closing")
    /\ UNCHANGED <<queues, cfg, declared, held, layouts>>
Close(p) ==
    /\ pc[p] = "closing"
    /\ \E i \in DOMAIN CloseOrder :
          /\ CloseOrder[i] \in held[p]
          /\ \A k \in 1 .. i - 1 : CloseOrder[k] \notin held[p]
          /\ held' = [held EXCEPT ![p] = @ \ {CloseOrder[i]}]
    /\ UNCHANGED <<queues, pc, cfg, declared, layouts>>

(* The process ends: main returns, log.Fatalf, or a crash.  What it held   *)
(* is closed by the system; the queues stay.                               *)
Exit(p) ==
    /\ pc[p] # "down"
    /\ held' = [held EXCEPT ![p] = {}]
    /\ Goto(p, "down")
    /\ UNCHANGED <<queues, cfg, declared, layouts>>

(* With no process up, an operator deletes a queue of an old layout.       *)
DeleteQueue(q) ==
    /\ \A p \in Processes : pc[p] = "down"
    /\ queues[q] # None
    /\ queues' = [queues EXCEPT ![q] = None]
    /\ UNCHANGED <<pc, cfg, declared, held, layouts>>

Next ==
    \/ \E p \in Processes :
          \/ Launch(p) \/ Pass(p) \/ DeclareRetryQueue(p)
          \/ RetryQueuesDeclared(p) \/ Refused(p) \/ Fails(p)
          \/ Consume(p) \/ Stop(p) \/ Close(p) \/ Exit(p)
    \/ \E q \in Queues : DeleteQueue(q)

Spec == Init /\ [][Next]_vars
-----------------------------------------------------------------------------
(* Properties.                                                             *)

(* A start that fails leaves no connection and no channel behind, at       *)
(* whichever of its steps it fails, and a process that consumes holds all. *)
NothingLeftOpen ==
    \A p \in Processes :
        /\ pc[p] \in {"failed", "refused"} => held[p] = {}
        /\ pc[p] \in Up => held[p] = Resources

(* While a process consumes, each retry queue that scheduleRetry may       *)
(* choose exists, delays for as long as the process's own schedule says,   *)
(* and then returns the retry to the exchange and by the routing key the   *)
(* process's own deploy queue is bound with, whatever processes with other *)
(* settings have done at the broker: else retries would be dropped, come   *)
(* back too early, or go to nobody.                                        *)
TopologyIsConfigured ==
    \A p \in Processes :
        pc[p] \in Up =>
            \A i \in DOMAIN cfg[p].RetryBackoffs :
                LET queue == queues[QueueName(cfg[p], i)]
                    delay == cfg[p].RetryBackoffs[i] \div Millisecond
                IN  /\ queue # None
                    /\ queue.ttl = delay \/ delay > MaxInt32
                    /\ queue.exchange = cfg[p].RabbitMQExchange
                    /\ queue.routingKey = cfg[p].BuildSucceededRoutingKey

(* The broker refuses a process only when one of its queues has other      *)
(* arguments, be it the delay, the exchange or the routing key, in a       *)
(* layout a process has begun to declare before, or when it names a time   *)
(* beyond int32: a restart, a crash between two declarations, and          *)
(* processes that start together with the same settings, or with another   *)
(* prefix of their queues, are never refused.                              *)
RefusedMeansChanged ==
    \A p \in Processes :
        pc[p] = "refused" =>
            \/ \E i \in DOMAIN cfg[p].RetryBackoffs : Arguments(cfg[p], i).ttl < 0
            \/ \E l \in layouts :
                  \E q \in DOMAIN l \intersect QueuesOf(cfg[p]) :
                      l[q] # Layout(cfg[p])[q]
=============================================================================

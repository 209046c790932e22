----------------------------- MODULE StartupProofs -----------------------------
(***************************************************************************)
(* What a start of the service leaves behind, for any number of processes, *)
(* any environments and layouts, and any width of an int32.              *)
(***************************************************************************)
EXTENDS Startup, TLAPS

(* Numbers. *)
LEMMA Remainder ==
  ASSUME NEW n \in Int, NEW m \in Nat \ {0}
  PROVE  n % m \in 0 .. (m - 1) /\ (n \in 0 .. (m - 1) => n % m = n)
  OBVIOUS

LEMMA Int32Bounded ==
  ASSUME UnitsAssumption, NEW n \in Int
  PROVE  /\ Int32(n) \in Int /\ Int32(n) <= MaxInt32
         /\ n \in 0 .. MaxInt32 => Int32(n) = n
<1> DEFINE m == 2 * Half
<1>1. Half \in Nat \ {0} /\ m \in Nat \ {0} /\ n + Half \in Int /\ m = Half + Half
  BY DEF UnitsAssumption, defaultAppContainerPort
<1> HIDE DEF m
<1>2. /\ (n + Half) % m \in 0 .. (m - 1)
      /\ n + Half \in 0 .. (m - 1) => (n + Half) % m = n + Half
  BY <1>1, Remainder
<1>3. Int32(n) = ((n + Half) % m) - Half /\ MaxInt32 = Half - 1
  BY DEF Int32, MaxInt32, m
<1>4. QED
  BY <1>1, <1>2, <1>3

LEMMA Quotient ==
  ASSUME NEW n \in Nat, NEW m \in Nat \ {0}
  PROVE  n \div m \in Nat
  OBVIOUS

(* Schedules. *)
LEMMA SchedulesTyped ==
  ASSUME StartupAssumption, NEW c \in Configs
  PROVE  c.RetryBackoffs \in Seq(Nat)
<1>1. PICK e \in Envs : c = loadConfig(e)
  BY DEF Configs
<1>2. c.RetryBackoffs = envDurationsOrDefault(e.backoffs, DefaultBackoffs)
  BY <1>1 DEF loadConfig
<1>3. e.backoffs \in Seq(Seq(Int))
  BY DEF StartupAssumption
<1>4. CASE e.backoffs = <<>> \/ \E i \in DOMAIN e.backoffs :
                e.backoffs[i] = <<>> \/ Last(e.backoffs[i]) <= 0
  BY <1>2, <1>4 DEF envDurationsOrDefault, DefaultBackoffs
<1>5. CASE \A i \in DOMAIN e.backoffs :
                e.backoffs[i] # <<>> /\ ~(Last(e.backoffs[i]) <= 0)
  <2>1. \A i \in DOMAIN e.backoffs : Last(e.backoffs[i]) \in Nat
    BY <1>3, <1>5 DEF Last
  <2>2. DOMAIN e.backoffs = 1 .. Len(e.backoffs) /\ Len(e.backoffs) \in Nat
    BY <1>3
  <2>3. [i \in DOMAIN e.backoffs |-> Last(e.backoffs[i])] \in Seq(Nat)
    BY <2>1, <2>2
  <2>4. QED
    BY <1>2, <1>5, <2>3 DEF envDurationsOrDefault, DefaultBackoffs
<1>6. QED
  BY <1>4, <1>5

TTL(c, i) == MessageTTL(c.RetryBackoffs[i])

LEMMA DelaysTyped ==
  ASSUME StartupAssumption, UnitsAssumption, NEW c \in Configs,
         NEW i \in DOMAIN c.RetryBackoffs
  PROVE  /\ i \in QueueIndices /\ i \in 1 .. Len(c.RetryBackoffs)
         /\ c.RetryBackoffs[i] \div Millisecond \in Nat
         /\ TTL(c, i) \in Int /\ TTL(c, i) <= MaxInt32
         /\ \/ TTL(c, i) = c.RetryBackoffs[i] \div Millisecond
            \/ c.RetryBackoffs[i] \div Millisecond > MaxInt32
<1>1. c.RetryBackoffs \in Seq(Nat)
  BY SchedulesTyped
<1>2. c.RetryBackoffs[i] \in Nat /\ i \in 1 .. Len(c.RetryBackoffs)
  BY <1>1
<1>3. Millisecond \in Nat \ {0} /\ MaxInt32 \in Int
  BY DEF UnitsAssumption, MaxInt32
<1> DEFINE d == c.RetryBackoffs[i] \div Millisecond
<1>4. d \in Nat
  BY <1>2, <1>3, Quotient
<1>5. TTL(c, i) = Int32(d)
  BY DEF TTL, MessageTTL
<1> HIDE DEF d
<1>6. /\ Int32(d) \in Int /\ Int32(d) <= MaxInt32
      /\ d \in 0 .. MaxInt32 => Int32(d) = d
  BY <1>4, Int32Bounded
<1>7. i \in QueueIndices
  BY DEF QueueIndices
<1>8. Int32(d) = d \/ d > MaxInt32
  BY <1>3, <1>4, <1>6
<1>9. QED
  BY <1>2, <1>4, <1>5, <1>6, <1>7, <1>8 DEF d

(* A queue of a configuration and its arguments. *)
LEMMA ArgumentsTyped ==
  ASSUME NEW c \in Configs, NEW i \in DOMAIN c.RetryBackoffs
  PROVE  /\ QueueName(c, i) \in QueuesOf(c) /\ QueueName(c, i) \in Queues
         /\ DOMAIN Layout(c) = QueuesOf(c)
         /\ Layout(c)[QueueName(c, i)] = Arguments(c, i)
         /\ Arguments(c, i).ttl = TTL(c, i)
         /\ Arguments(c, i).exchange = c.RabbitMQExchange
         /\ Arguments(c, i).routingKey = c.BuildSucceededRoutingKey
         /\ Arguments(c, i) = [ttl |-> TTL(c, i), exchange |-> c.RabbitMQExchange,
                               routingKey |-> c.BuildSucceededRoutingKey]
<1>1. QueueName(c, i) \in QueuesOf(c) /\ QueueName(c, i)[2] = i
  BY DEF QueuesOf, QueueName
<1>2. QueueName(c, i) \in Queues
  BY <1>1 DEF Queues
<1>3. DOMAIN Layout(c) = QueuesOf(c) /\ Layout(c)[QueueName(c, i)] = Arguments(c, i)
  BY <1>1 DEF Layout
<1>4. QED
  BY <1>1, <1>2, <1>3 DEF Arguments, TTL

LEMMA NamesDiffer ==
  ASSUME NEW c, NEW i, NEW k, QueueName(c, i) = QueueName(c, k)
  PROVE  i = k
BY DEF QueueName
-----------------------------------------------------------------------------
(* Steps. *)
LEMMA StepsAre ==
  /\ DOMAIN SetUp = 1 .. 15
  /\ Range(SetUp) = {"client", "dial", "channel", "exchange", "queue", "bind", "dlq",
                     "retry", "qos", "publisher", "exchanges", "confirm",
                     "ledger", "ping", "consume"}
<1>1. DOMAIN SetUp = 1 .. 15
  BY DEF SetUp
<1>2. Range(SetUp) = {SetUp[i] : i \in 1 .. 15}
  BY <1>1 DEF Range
<1>3. 1 .. 15 = {1, 2, 3, 4, 5, 6, 7, 8, 9, 10, 11, 12, 13, 14, 15}
  OBVIOUS
<1>4. {SetUp[i] : i \in 1 .. 15} =
        {SetUp[1], SetUp[2], SetUp[3], SetUp[4], SetUp[5], SetUp[6], SetUp[7], SetUp[8],
         SetUp[9], SetUp[10], SetUp[11], SetUp[12], SetUp[13], SetUp[14], SetUp[15]}
  BY <1>3
<1>5. QED
  BY <1>2, <1>4, <1>1 DEF SetUp

LEMMA StepsFollow ==
  ASSUME NEW n \in 1 .. 14, NEW step, step = SetUp[n]
  PROVE  Following(step) = SetUp[n + 1]
<1>1. \A i \in 1 .. 15 : SetUp[i] = SetUp[n] => i = n
  BY DEF SetUp
<1>2. (CHOOSE i \in DOMAIN SetUp : SetUp[i] = step) = n
  BY <1>1, StepsAre
<1>3. 1 + n = n + 1
  OBVIOUS
<1>4. Following(step) = SetUp[1 + (CHOOSE i \in DOMAIN SetUp : SetUp[i] = step)]
  BY DEF Following
<1>5. QED
  BY <1>2, <1>3, <1>4

LEMMA Route ==
  /\ Following("client") = "dial" /\ Following("dial") = "channel"
  /\ Following("channel") = "exchange" /\ Following("exchange") = "queue"
  /\ Following("queue") = "bind" /\ Following("bind") = "dlq"
  /\ Following("dlq") = "retry" /\ Following("retry") = "qos"
  /\ Following("qos") = "publisher" /\ Following("publisher") = "exchanges"
  /\ Following("exchanges") = "confirm" /\ Following("confirm") = "ledger"
  /\ Following("ledger") = "ping" /\ Following("ping") = "consume"
<1> DEFINE F(n) == Following(SetUp[n]) = SetUp[n + 1]
<1>1. /\ F(1) /\ F(2) /\ F(3) /\ F(4) /\ F(5) /\ F(6) /\ F(7)
      /\ F(8) /\ F(9) /\ F(10) /\ F(11) /\ F(12) /\ F(13) /\ F(14)
  BY StepsFollow
<1>2. QED
  BY <1>1 DEF SetUp

Early == {"client", "dial", "channel", "exchange", "queue", "bind", "dlq"}
Late == {"qos", "publisher", "exchanges", "confirm", "ledger", "ping", "consume", "serving"}

(* What a process holds when it makes a step. *)
HeldAt(step) ==
    CASE step \in {"client", "dial", "down", "failed", "refused"} -> {}
      [] step = "channel" -> {"conn"}
      [] step \in {"exchange", "queue", "bind", "dlq", "retry", "qos", "publisher"} ->
             {"conn", "ch"}
      [] step \in {"exchanges", "confirm", "ledger"} -> {"conn", "ch", "pub"}
      [] OTHER -> Resources

LEMMA PassRoutes ==
  ASSUME NEW step \in Range(SetUp) \ {"retry", "consume"}
  PROVE  /\ HeldAt(step) \union Opens(step) = HeldAt(Following(step))
         /\ step \in Early => Following(step) \in Early \union {"retry"}
         /\ step \notin Early => step \in Late /\ Following(step) \in Late
         /\ Following(step) \in Range(SetUp)
<1>1. step \in {"client", "dial", "channel", "exchange", "queue", "bind", "dlq",
                "qos", "publisher", "exchanges", "confirm", "ledger", "ping"}
  BY StepsAre
<1>2. QED
  BY <1>1, StepsAre, Route DEF HeldAt, Opens, Resources, Early, Late

LEMMA FailureCloses ==
  ASSUME NEW step \in Range(SetUp) \ {"consume"}
  PROVE  HeldAt(step) \ Closes(step) = {}
<1>1. step \in {"client", "dial", "channel", "exchange", "queue", "bind", "dlq", "retry",
                "qos", "publisher", "exchanges", "confirm", "ledger", "ping"}
  BY StepsAre
<1>2. QED
  BY <1>1 DEF HeldAt, Closes, Resources
-----------------------------------------------------------------------------
(* The retry queues. *)
AsScheduled(p, i) ==
    queues[QueueName(cfg[p], i)] = Arguments(cfg[p], i) /\ TTL(cfg[p], i) >= 0
Declared(p) ==
    /\ pc[p] \in Early => declared[p] = 0
    /\ pc[p] = "retry" =>
          \A i \in DOMAIN cfg[p].RetryBackoffs : i <= declared[p] => AsScheduled(p, i)
    /\ pc[p] \in Late => \A i \in DOMAIN cfg[p].RetryBackoffs : AsScheduled(p, i)
Remembered ==
    \A q \in Queues :
        queues[q] # None => \E l \in layouts : q \in DOMAIN l /\ l[q] = queues[q]
HeldRight == \A p \in Processes : pc[p] # "closing" => held[p] = HeldAt(pc[p])
Inv ==
    /\ TypeOK
    /\ HeldRight
    /\ \A p \in Processes : Declared(p)
    /\ Remembered /\ RefusedMeansChanged
-----------------------------------------------------------------------------
(* Frames. *)
Pcs == {"down", "serving", "failed", "refused", "closing"} \union Range(SetUp)
Changed(p) ==
    \/ \E i \in DOMAIN cfg[p].RetryBackoffs : Arguments(cfg[p], i).ttl < 0
    \/ \E l \in layouts :
          \E q \in DOMAIN l \intersect QueuesOf(cfg[p]) : l[q] # Layout(cfg[p])[q]

LEMMA Indices ==
  ASSUME StartupAssumption
  PROVE  QueueIndices \subseteq Nat \ {0}
<1>1. SUFFICES ASSUME NEW c \in Configs, NEW i \in DOMAIN c.RetryBackoffs
               PROVE  i \in Nat \ {0}
  BY DEF QueueIndices
<1>2. c.RetryBackoffs \in Seq(Nat)
  BY SchedulesTyped
<1>3. QED
  BY <1>2

(* What a process that does nothing has declared stays declared. *)
LEMMA DeclaredStays ==
  ASSUME StartupAssumption, UnitsAssumption, Inv, NEW q \in Processes,
         UNCHANGED <<pc[q], cfg[q], declared[q]>>,
         \A k \in Queues : queues[k] # None => queues'[k] = queues[k]
  PROVE  Declared(q)'
<1>1. Declared(q) /\ cfg[q] \in Configs
  BY DEF Inv, TypeOK
<1>2. ASSUME NEW i \in DOMAIN cfg[q].RetryBackoffs, AsScheduled(q, i)
      PROVE  AsScheduled(q, i)'
  <2>1. QueueName(cfg[q], i) \in Queues
    BY <1>1, ArgumentsTyped
  <2>2. Arguments(cfg[q], i) # None
    BY <1>1 DEF StartupAssumption
  <2>3. queues'[QueueName(cfg[q], i)] = queues[QueueName(cfg[q], i)]
    BY <1>2, <2>1, <2>2 DEF AsScheduled
  <2>4. QED
    BY <1>2, <2>3 DEF AsScheduled
<1>3. QED
  BY <1>1, <1>2 DEF Declared

LEMMA StepKeeps ==
  ASSUME StartupAssumption, UnitsAssumption, Inv, NEW p \in Processes,
         TypeOK', Remembered', Declared(p)',
         \A q \in Processes \ {p} : UNCHANGED <<pc[q], cfg[q], declared[q], held[q]>>,
         \A k \in Queues : queues[k] # None => queues'[k] = queues[k],
         layouts \subseteq layouts',
         pc'[p] # "closing" => held'[p] = HeldAt(pc'[p]),
         pc'[p] = "refused" => Changed(p)'
  PROVE  Inv'
<1>1. HeldRight'
  BY DEF Inv, HeldRight
<1>2. \A q \in Processes : Declared(q)'
  BY DeclaredStays
<1>3. \A q \in Processes \ {p} : pc[q] = "refused" => Changed(q)
  BY DEF Inv, RefusedMeansChanged, Changed
<1>4. \A q \in Processes \ {p} : Changed(q) => Changed(q)'
  BY DEF Changed
<1>5. \A q \in Processes : (pc[q] = "refused" => Changed(q))'
  BY <1>3, <1>4
<1>6. RefusedMeansChanged'
  BY <1>5 DEF RefusedMeansChanged, Changed
<1>7. QED
  BY <1>1, <1>2, <1>6 DEF Inv

(* Steps that leave the broker and the configurations alone. *)
LEMMA QuietStep ==
  ASSUME StartupAssumption, UnitsAssumption, Inv, NEW p \in Processes, NEW step \in Pcs,
         Goto(p, step), UNCHANGED <<queues, cfg, declared, layouts>>,
         held' \in [Processes -> SUBSET Resources],
         \A q \in Processes \ {p} : held'[q] = held[q],
         step # "closing" => held'[p] = HeldAt(step),
         step = "refused" => Changed(p),
         step \in Early => declared[p] = 0,
         step = "retry" => declared[p] = 0,
         step \in Late => \A i \in DOMAIN cfg[p].RetryBackoffs : AsScheduled(p, i)
  PROVE  Inv'
<1>1. pc \in [Processes -> Pcs] /\ cfg[p] \in Configs
  BY DEF Inv, TypeOK, Pcs
<1>2. /\ pc' \in [Processes -> Pcs] /\ pc'[p] = step
      /\ \A q \in Processes \ {p} : pc'[q] = pc[q]
  BY <1>1 DEF Goto
<1>3. TypeOK'
  BY <1>2 DEF Inv, TypeOK, Pcs
<1>4. Remembered'
  BY DEF Inv, Remembered
<1>5. step = "retry" => \A i \in DOMAIN cfg[p].RetryBackoffs : ~ (i <= declared[p])
  <2>1. \A i \in DOMAIN cfg[p].RetryBackoffs : i \in Nat \ {0}
    BY <1>1, DelaysTyped, Indices
  <2>2. QED
    BY <2>1
<1>6. Declared(p)'
  BY <1>2, <1>5 DEF Declared, AsScheduled
<1>7. pc'[p] = "refused" => Changed(p)'
  BY <1>2 DEF Changed
<1>8. QED
  BY <1>2, <1>3, <1>4, <1>6, <1>7, StepKeeps
-----------------------------------------------------------------------------
(* The steps of a process. *)
LEMMA PassKeeps ==
  ASSUME StartupAssumption, UnitsAssumption, Inv, NEW p \in Processes, Pass(p)
  PROVE  Inv'
<1> DEFINE step == Following(pc[p])
<1>1. /\ pc[p] \in Range(SetUp) \ {"retry", "consume"} /\ Goto(p, step)
      /\ held' = [held EXCEPT ![p] = @ \union Opens(pc[p])]
      /\ UNCHANGED <<queues, cfg, declared, layouts>>
  BY DEF Pass
<1>2. /\ HeldAt(pc[p]) \union Opens(pc[p]) = HeldAt(step)
      /\ pc[p] \in Early => step \in Early \union {"retry"}
      /\ pc[p] \notin Early => pc[p] \in Late /\ step \in Late
      /\ step \in Range(SetUp)
  BY <1>1, PassRoutes
<1> HIDE DEF step
<1>3. held[p] = HeldAt(pc[p]) /\ Declared(p) /\ held \in [Processes -> SUBSET Resources]
  BY <1>1, StepsAre DEF Inv, HeldRight, TypeOK
<1>4. Opens(pc[p]) \subseteq Resources
  BY DEF Opens, Resources
<1>5. /\ held' \in [Processes -> SUBSET Resources] /\ held'[p] = HeldAt(step)
      /\ \A q \in Processes \ {p} : held'[q] = held[q]
  BY <1>1, <1>2, <1>3, <1>4
<1>6. step \in Pcs /\ step # "refused"
  BY <1>2, StepsAre DEF Pcs
<1>7. /\ step \in Early => declared[p] = 0
      /\ step = "retry" => declared[p] = 0
      /\ step \in Late => \A i \in DOMAIN cfg[p].RetryBackoffs : AsScheduled(p, i)
  BY <1>2, <1>3 DEF Declared, Early, Late
<1>8. QED
  BY <1>1, <1>5, <1>6, <1>7, QuietStep

LEMMA RetryQueuesDeclaredKeeps ==
  ASSUME StartupAssumption, UnitsAssumption, Inv, NEW p \in Processes,
         RetryQueuesDeclared(p)
  PROVE  Inv'
<1>1. /\ pc[p] = "retry" /\ declared[p] + 1 \notin 1 .. Len(cfg[p].RetryBackoffs)
      /\ Goto(p, "qos") /\ UNCHANGED <<queues, cfg, declared, held, layouts>>
  BY Route DEF RetryQueuesDeclared, ToDeclare
<1>2. /\ Declared(p) /\ cfg[p] \in Configs /\ declared[p] \in {0} \union QueueIndices
      /\ held[p] = HeldAt("retry") /\ held \in [Processes -> SUBSET Resources]
  BY <1>1 DEF Inv, TypeOK, HeldRight
<1>3. declared[p] \in Nat /\ Len(cfg[p].RetryBackoffs) \in Nat
  BY <1>2, Indices, SchedulesTyped
<1>4. \A i \in DOMAIN cfg[p].RetryBackoffs : i \in 1 .. Len(cfg[p].RetryBackoffs)
  BY <1>2, DelaysTyped
<1>5. \A i \in DOMAIN cfg[p].RetryBackoffs : i <= declared[p]
  BY <1>1, <1>3, <1>4
<1>6. \A i \in DOMAIN cfg[p].RetryBackoffs : AsScheduled(p, i)
  BY <1>1, <1>2, <1>5 DEF Declared
<1>7. "qos" \in Pcs /\ "qos" \notin Early
  BY StepsAre DEF Pcs, Early
<1>8. HeldAt("retry") = HeldAt("qos")
  BY DEF HeldAt
<1>9. QED
  BY <1>1, <1>2, <1>6, <1>7, <1>8, QuietStep

LEMMA FailureKeeps ==
  ASSUME StartupAssumption, UnitsAssumption, Inv, NEW p \in Processes,
         Refused(p) \/ Fails(p)
  PROVE  Inv'
<1>1. pc[p] \in Range(SetUp) \ {"consume"}
  BY StepsAre DEF Refused, Fails
<1>2. /\ held' = [held EXCEPT ![p] = @ \ Closes(pc[p])]
      /\ UNCHANGED <<queues, cfg, declared, layouts>>
  BY DEF Refused, Fails
<1>3. held[p] = HeldAt(pc[p]) /\ held \in [Processes -> SUBSET Resources]
  BY <1>1, StepsAre DEF Inv, HeldRight, TypeOK
<1>4. /\ held' \in [Processes -> SUBSET Resources] /\ held'[p] = {}
      /\ \A q \in Processes \ {p} : held'[q] = held[q]
  BY <1>1, <1>2, <1>3, FailureCloses
<1>5. HeldAt("failed") = {} /\ HeldAt("refused") = {}
  BY DEF HeldAt
<1>6. {"failed", "refused"} \subseteq Pcs \ (Early \union Late \union {"retry", "closing"})
  BY DEF Pcs, Early, Late
<1>7. CASE Fails(p)
  <2>1. Goto(p, "failed")
    BY <1>7 DEF Fails
  <2>2. QED
    BY <1>2, <1>4, <1>5, <1>6, <2>1, QuietStep
<1>8. CASE Refused(p)
  <2> DEFINE i == declared[p] + 1
           q == QueueName(cfg[p], i)
  <2>1. /\ i \in 1 .. Len(cfg[p].RetryBackoffs) /\ Goto(p, "refused")
        /\ ~ (/\ Arguments(cfg[p], i).ttl >= 0
              /\ queues[q] \in {None, Arguments(cfg[p], i)})
    BY <1>8 DEF Refused, ToDeclare, Accepts, QueueOf
  <2> HIDE DEF i
  <2>2. cfg[p] \in Configs /\ Remembered
    BY DEF Inv, TypeOK
  <2>3. i \in DOMAIN cfg[p].RetryBackoffs
    BY <2>1, <2>2, SchedulesTyped
  <2>4. /\ q \in QueuesOf(cfg[p]) /\ q \in Queues
        /\ Layout(cfg[p])[q] = Arguments(cfg[p], i)
        /\ Arguments(cfg[p], i).ttl \in Int
    BY <2>2, <2>3, DelaysTyped, ArgumentsTyped
  <2> HIDE DEF q
  <2>5. CASE Arguments(cfg[p], i).ttl >= 0
    <3>1. queues[q] # None /\ queues[q] # Arguments(cfg[p], i)
      BY <2>1, <2>5
    <3>2. PICK l \in layouts : q \in DOMAIN l /\ l[q] = queues[q]
      BY <2>2, <2>4, <3>1 DEF Remembered
    <3>3. Changed(p)
      BY <2>4, <3>1, <3>2 DEF Changed
    <3>4. QED
      BY <1>2, <1>4, <1>5, <1>6, <2>1, <3>3, QuietStep
  <2>6. CASE ~ (Arguments(cfg[p], i).ttl >= 0)
    <3>1. Changed(p)
      BY <2>3, <2>4, <2>6 DEF Changed
    <3>2. QED
      BY <1>2, <1>4, <1>5, <1>6, <2>1, <3>1, QuietStep
  <2>7. QED
    BY <2>5, <2>6
<1>9. QED
  BY <1>7, <1>8

LEMMA RunKeeps ==
  ASSUME StartupAssumption, UnitsAssumption, Inv, NEW p \in Processes,
         Consume(p) \/ Stop(p) \/ Close(p) \/ Exit(p)
  PROVE  Inv'
<1>1. /\ held \in [Processes -> SUBSET Resources] /\ Declared(p)
      /\ pc[p] # "closing" => held[p] = HeldAt(pc[p])
      /\ UNCHANGED <<queues, cfg, declared, layouts>>
  BY DEF Inv, TypeOK, HeldRight, Consume, Stop, Close, Exit
<1>2. {"serving", "closing", "down"} \subseteq Pcs \ (Early \union {"retry", "refused"})
  BY DEF Pcs, Early
<1>3. {"closing", "down"} \intersect Late = {} /\ "consume" \in Late
  BY DEF Late
<1>4. CASE Consume(p)
  <2>1. pc[p] = "consume" /\ Goto(p, "serving") /\ held' = held
    BY <1>4 DEF Consume
  <2>2. HeldAt("serving") = HeldAt("consume")
    BY DEF HeldAt
  <2>3. \A i \in DOMAIN cfg[p].RetryBackoffs : AsScheduled(p, i)
    BY <1>1, <1>3, <2>1 DEF Declared
  <2>4. QED
    BY <1>1, <1>2, <2>1, <2>2, <2>3, QuietStep
<1>5. CASE Stop(p)
  <2>1. Goto(p, "closing") /\ held' = held
    BY <1>5 DEF Stop
  <2>2. QED
    BY <1>1, <1>2, <1>3, <2>1, QuietStep
<1>6. CASE Close(p)
  <2>1. pc[p] = "closing" /\ pc' = pc
    BY <1>6 DEF Close
  <2>2. Goto(p, "closing")
    BY <2>1 DEF Goto, Inv, TypeOK
  <2>3. PICK i \in DOMAIN CloseOrder : held' = [held EXCEPT ![p] = @ \ {CloseOrder[i]}]
    BY <1>6 DEF Close
  <2>4. /\ held' \in [Processes -> SUBSET Resources]
        /\ \A q \in Processes \ {p} : held'[q] = held[q]
    BY <1>1, <2>3
  <2>5. QED
    BY <1>1, <1>2, <1>3, <2>2, <2>4, QuietStep
<1>7. CASE Exit(p)
  <2>1. Goto(p, "down") /\ held' = [held EXCEPT ![p] = {}]
    BY <1>7 DEF Exit
  <2>2. /\ held' \in [Processes -> SUBSET Resources] /\ held'[p] = {}
        /\ \A q \in Processes \ {p} : held'[q] = held[q]
    BY <1>1, <2>1
  <2>3. HeldAt("down") = {}
    BY DEF HeldAt
  <2>4. QED
    BY <1>1, <1>2, <1>3, <2>1, <2>2, <2>3, QuietStep
<1>8. QED
  BY <1>4, <1>5, <1>6, <1>7

LEMMA LaunchKeeps ==
  ASSUME StartupAssumption, UnitsAssumption, Inv, NEW p \in Processes, Launch(p)
  PROVE  Inv'
<1>1. PICK c \in Configs : cfg' = [cfg EXCEPT ![p] = c]
  BY DEF Launch
<1>2. /\ pc[p] = "down" /\ pc' = [pc EXCEPT ![p] = "client"]
      /\ declared' = [declared EXCEPT ![p] = 0]
      /\ UNCHANGED <<queues, held, layouts>>
  BY DEF Launch, Goto
<1>3. "client" \in Pcs /\ pc \in [Processes -> Pcs]
  BY StepsAre DEF Inv, TypeOK, Pcs
<1>4. pc' \in [Processes -> Pcs] /\ pc'[p] = "client"
  BY <1>2, <1>3
<1>5. TypeOK'
  BY <1>1, <1>2, <1>4 DEF Inv, TypeOK, Pcs
<1>6. /\ \A q \in Processes \ {p} : UNCHANGED <<pc[q], cfg[q], declared[q], held[q]>>
      /\ declared'[p] = 0
  BY <1>1, <1>2 DEF Inv, TypeOK
<1>7. held'[p] = HeldAt("client")
  <2>1. held[p] = HeldAt("down")
    BY <1>2 DEF Inv, HeldRight
  <2>2. QED
    BY <1>2, <2>1 DEF HeldAt
<1>8. Declared(p)'
  BY <1>4, <1>6 DEF Declared, Early, Late
<1>9. Remembered'
  BY <1>2 DEF Inv, Remembered
<1>10. QED
  BY <1>2, <1>4, <1>5, <1>6, <1>7, <1>8, <1>9, StepKeeps

LEMMA DeclareKeeps ==
  ASSUME StartupAssumption, UnitsAssumption, Inv, NEW p \in Processes,
         DeclareRetryQueue(p)
  PROVE  Inv'
<1> DEFINE c == cfg[p]
           i == declared[p] + 1
           q == QueueName(c, i)
           args == Arguments(c, i)
<1>1. /\ pc[p] = "retry" /\ i \in 1 .. Len(c.RetryBackoffs)
      /\ args.ttl >= 0 /\ queues[q] \in {None, args}
      /\ queues' = [queues EXCEPT ![q] = args]
      /\ declared' = [declared EXCEPT ![p] = i]
      /\ layouts' = layouts \union {Layout(c)}
      /\ UNCHANGED <<pc, cfg, held>>
  BY DEF DeclareRetryQueue, ToDeclare, Accepts, QueueOf
<1>2. /\ c \in Configs /\ Declared(p) /\ Remembered
      /\ declared[p] \in {0} \union QueueIndices
  BY DEF Inv, TypeOK
<1>3. i \in DOMAIN c.RetryBackoffs
  BY <1>1, <1>2, SchedulesTyped
<1>4. i \in QueueIndices /\ TTL(c, i) \in Int /\ TTL(c, i) <= MaxInt32
  BY <1>2, <1>3, DelaysTyped
<1>5. /\ q \in Queues /\ q \in DOMAIN Layout(c) /\ Layout(c)[q] = args
      /\ args.ttl = TTL(c, i)
      /\ args = [ttl |-> TTL(c, i), exchange |-> c.RabbitMQExchange,
                 routingKey |-> c.BuildSucceededRoutingKey]
  BY <1>2, <1>3, ArgumentsTyped
<1>6. declared[p] \in Nat
  BY <1>2, Indices
<1>7. i = declared[p] + 1
  OBVIOUS
<1>8. c = cfg[p] /\ q = QueueName(c, i) /\ args = Arguments(c, i)
  OBVIOUS
<1> HIDE DEF c, i, q, args
<1>9. TTL(c, i) \in 0 .. MaxInt32
  BY <1>1, <1>4, <1>5 DEF UnitsAssumption, MaxInt32
<1>10. TypeOK'
  <2>1. args \in [ttl : 0 .. MaxInt32,
                  exchange : {d.RabbitMQExchange : d \in Configs},
                  routingKey : {d.BuildSucceededRoutingKey : d \in Configs}]
    BY <1>2, <1>5, <1>9
  <2>2. Layout(c) \in {Layout(d) : d \in Configs}
    BY <1>2
  <2>3. QED
    BY <1>1, <1>2, <1>4, <2>1, <2>2 DEF Inv, TypeOK
<1>11. /\ queues'[q] = args /\ declared'[p] = i
       /\ \A k \in Queues : queues[k] # None => queues'[k] = queues[k]
       /\ \A k \in Queues \ {q} : queues'[k] = queues[k]
  BY <1>1, <1>4, <1>5 DEF Inv, TypeOK
<1>12. Remembered'
  BY <1>1, <1>2, <1>5, <1>11 DEF Remembered
<1>13. ASSUME NEW k \in DOMAIN c.RetryBackoffs, k <= i
       PROVE  queues'[QueueName(c, k)] = Arguments(c, k) /\ TTL(c, k) >= 0
  <2>1. QueueName(c, k) \in Queues /\ TTL(c, k) \in Int /\ k \in Nat
    BY <1>2, DelaysTyped, Indices, ArgumentsTyped
  <2>2. CASE k = i
    BY <1>1, <1>5, <1>8, <1>11, <2>2
  <2>3. CASE k # i
    <3>1. k <= declared[p]
      BY <1>6, <1>7, <1>13, <2>1, <2>3
    <3>2. AsScheduled(p, k)
      BY <1>1, <1>2, <1>8, <3>1 DEF Declared
    <3>3. QueueName(c, k) # q
      BY <1>8, <2>3, NamesDiffer
    <3>4. QED
      BY <1>8, <1>11, <2>1, <3>2, <3>3 DEF AsScheduled
  <2>4. QED
    BY <2>2, <2>3
<1>14. Declared(p)'
  <2>1. cfg'[p] = c /\ pc'[p] = "retry"
    BY <1>1, <1>8
  <2>2. \A k \in DOMAIN c.RetryBackoffs : k <= i => AsScheduled(p, k)'
    BY <1>13, <2>1 DEF AsScheduled
  <2>3. QED
    BY <1>11, <2>1, <2>2 DEF Declared, Early, Late
<1>15. \A r \in Processes \ {p} : UNCHANGED <<pc[r], cfg[r], declared[r], held[r]>>
  BY <1>1 DEF Inv, TypeOK
<1>16. pc'[p] = "retry" /\ held'[p] = HeldAt("retry")
  BY <1>1 DEF Inv, HeldRight
<1>17. QED
  BY <1>1, <1>10, <1>11, <1>12, <1>14, <1>15, <1>16, StepKeeps

(* The operator deletes only what nobody relies on. *)
LEMMA DeleteKeeps ==
  ASSUME StartupAssumption, UnitsAssumption, Inv, NEW q \in Queues, DeleteQueue(q)
  PROVE  Inv'
<1>1. /\ \A p \in Processes : pc[p] = "down"
      /\ queues' = [queues EXCEPT ![q] = None]
      /\ UNCHANGED <<pc, cfg, declared, held, layouts>>
  BY DEF DeleteQueue
<1>2. TypeOK'
  BY <1>1 DEF Inv, TypeOK
<1>3. HeldRight' /\ RefusedMeansChanged'
  BY <1>1 DEF Inv, HeldRight, RefusedMeansChanged
<1>4. \A p \in Processes : Declared(p)'
  BY <1>1 DEF Declared, Early, Late
<1>5. \A k \in Queues : queues'[k] # None => queues'[k] = queues[k]
  BY <1>1 DEF Inv, TypeOK
<1>6. Remembered'
  BY <1>1, <1>5 DEF Inv, Remembered
<1>7. QED
  BY <1>2, <1>3, <1>4, <1>6 DEF Inv
-----------------------------------------------------------------------------
LEMMA InitHolds ==
  ASSUME StartupAssumption, Init
  PROVE  Inv
<1>1. (CHOOSE c \in Configs : TRUE) \in Configs
  BY DEF StartupAssumption, Configs
<1>2. TypeOK
  BY <1>1 DEF Init, TypeOK
<1>3. HeldRight /\ Remembered /\ RefusedMeansChanged
  BY DEF Init, HeldRight, HeldAt, Remembered, RefusedMeansChanged
<1>4. \A p \in Processes : Declared(p)
  BY DEF Init, Declared, Early, Late
<1>5. QED
  BY <1>2, <1>3, <1>4 DEF Inv

LEMMA InvHolds == Spec => []Inv
<1>1. Init => Inv
  BY StartupAssumption, InitHolds
<1>2. Inv /\ [Next]_vars => Inv'
  <2>1. SUFFICES ASSUME Inv, [Next]_vars PROVE Inv'
    OBVIOUS
  <2>2. CASE \E p \in Processes : Launch(p)
    BY <2>1, <2>2, StartupAssumption, UnitsAssumption, LaunchKeeps
  <2>3. CASE \E p \in Processes : Pass(p)
    BY <2>1, <2>3, StartupAssumption, UnitsAssumption, PassKeeps
  <2>4. CASE \E p \in Processes : DeclareRetryQueue(p)
    BY <2>1, <2>4, StartupAssumption, UnitsAssumption, DeclareKeeps
  <2>5. CASE \E p \in Processes : RetryQueuesDeclared(p)
    BY <2>1, <2>5, StartupAssumption, UnitsAssumption, RetryQueuesDeclaredKeeps
  <2>6. CASE \E p \in Processes : Refused(p) \/ Fails(p)
    BY <2>1, <2>6, StartupAssumption, UnitsAssumption, FailureKeeps
  <2>7. CASE \E p \in Processes : Consume(p) \/ Stop(p) \/ Close(p) \/ Exit(p)
    BY <2>1, <2>7, StartupAssumption, UnitsAssumption, RunKeeps
  <2>8. CASE \E q \in Queues : DeleteQueue(q)
    BY <2>1, <2>8, StartupAssumption, UnitsAssumption, DeleteKeeps
  <2>9. CASE UNCHANGED vars
    BY <2>1, <2>9 DEF vars, Inv, TypeOK, HeldRight, Declared, AsScheduled, Remembered,
                      RefusedMeansChanged
  <2>10. QED
    BY <2>1, <2>2, <2>3, <2>4, <2>5, <2>6, <2>7, <2>8, <2>9 DEF Next
<1>3. QED
  BY <1>1, <1>2, PTL DEF Spec

(* Every variable of the start has its type: no retry queue ever has a     *)
(* time to live that is negative or beyond int32.                          *)
THEOREM StartupTyped == Spec => []TypeOK
<1>1. Inv => TypeOK
  BY DEF Inv
<1>2. QED
  BY <1>1, InvHolds, PTL

(* Whichever step of the start fails, nothing stays open.                  *)
THEOREM FailedStartsClose == Spec => []NothingLeftOpen
<1>1. Inv => NothingLeftOpen
  BY DEF Inv, HeldRight, HeldAt, NothingLeftOpen, Up
<1>2. QED
  BY <1>1, InvHolds, PTL

(* A process that consumes finds its own retry queues at the broker: they  *)
(* delay as its schedule says and return retries to where it listens.      *)
THEOREM ConsumersFindTheirQueues == Spec => []TopologyIsConfigured
<1>1. Inv => TopologyIsConfigured
  <2>1. SUFFICES ASSUME Inv, NEW p \in Processes, pc[p] \in Up,
                        NEW i \in DOMAIN cfg[p].RetryBackoffs
                 PROVE  LET queue == queues[QueueName(cfg[p], i)]
                            delay == cfg[p].RetryBackoffs[i] \div Millisecond
                        IN  /\ queue # None
                            /\ queue.ttl = delay \/ delay > MaxInt32
                            /\ queue.exchange = cfg[p].RabbitMQExchange
                            /\ queue.routingKey = cfg[p].BuildSucceededRoutingKey
    BY DEF TopologyIsConfigured
  <2>2. cfg[p] \in Configs /\ AsScheduled(p, i)
    BY <2>1 DEF Inv, TypeOK, Declared, Up, Late
  <2>3. \/ TTL(cfg[p], i) = cfg[p].RetryBackoffs[i] \div Millisecond
        \/ cfg[p].RetryBackoffs[i] \div Millisecond > MaxInt32
    BY <2>2, StartupAssumption, UnitsAssumption, DelaysTyped
  <2>4. /\ Arguments(cfg[p], i) # None
        /\ Arguments(cfg[p], i).ttl = TTL(cfg[p], i)
        /\ Arguments(cfg[p], i).exchange = cfg[p].RabbitMQExchange
        /\ Arguments(cfg[p], i).routingKey = cfg[p].BuildSucceededRoutingKey
    BY <2>2, StartupAssumption, ArgumentsTyped DEF StartupAssumption
  <2>5. QED
    BY <2>2, <2>3, <2>4 DEF AsScheduled
<1>2. QED
  BY <1>1, InvHolds, PTL

(* The broker refuses nobody whose settings, as far as they are arguments  *)
(* of its retry queues, are those of whoever declared these before.        *)
THEOREM OnlyChangesAreRefused == Spec => []RefusedMeansChanged
<1>1. Inv => RefusedMeansChanged
  BY DEF Inv
<1>2. QED
  BY <1>1, InvHolds, PTL
==============================================================================

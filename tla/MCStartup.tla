------------------------------ MODULE MCStartup ------------------------------
(* Startup in environments where the retry schedule, the names of the      *)
(* retry queues, the exchange or the routing key change, a delay is cut,   *)
(* or something is missing; and, in behaviours of their own, the functions *)
(* the processes compute, one input each: texts and builds, with labels of *)
(* six characters and prefixes of two and three; settings at the limits of *)
(* an int32 of -16 .. 15; and what is told about two builds with three     *)
(* attempts each.                                                          *)
EXTENDS Startup, Inputs, TLC

CONSTANTS p1, p2

MCProject == <<"p">>
MCService == <<"s">>
MCApp == <<"a", "p">>
MCPrefix == <<"x", "-", "p">>

MCTexts == BoundedSeq({"a", "A", "-", " ", "_"}, 5)
             \union BoundedSeq({"a", "b", "-"}, 8)

Slugs == BoundedSeq({"a", "-"}, 3) \union {<<"b">>, <<"a", "b">>, <<" ", "A">>,
            <<"a", "a", "a", "a">>}
MCEvents ==
    [ProjectID : {<<"b">>}, ServiceID : {<<"a">>},
     ProjectSlug : Slugs, ServiceSlug : Slugs]
MCPrefixes == {MCPrefix, <<"A">>}

Env(attempts, replicas, port, timeout, lease, backoffs) ==
    [prefix |-> <<" ">>, attempts |-> attempts, replicas |-> replicas, port |-> port,
     timeout |-> timeout, lease |-> lease, backoffs |-> backoffs,
     exchange |-> <<" ">>, routingKey |-> <<>>, retryPrefix |-> <<>>,
     inCluster |-> TRUE, kubeconfig |-> <<>>, home |-> FALSE,
     databaseURL |-> <<"a">>]

Numbers == {<<>>} \union {<<n>> : n \in {-1, 0, 1, 2, 15, 16, 31, 32, 33}}
Times == {<<>>} \union {<<n>> : n \in {-1, 0, 1, 15, 40, 100}}
Backoffs == Times \ {<<-1>>, <<15>>, <<100>>}
Schedules ==
    {<<>>} \union {<<s>> : s \in Backoffs}
           \union {<<s, t>> : s, t \in Backoffs}

MCSettings ==
    {Env(n, n, n, <<>>, <<>>, <<>>) : n \in Numbers}
      \union {Env(<<>>, <<>>, <<>>, s, t, <<>>) : s, t \in Times}
      \union {Env(<<>>, <<>>, <<>>, <<>>, <<>>, b) : b \in Schedules}

Scheduled(b) == Env(<<>>, <<>>, <<>>, <<>>, <<>>, b)
Plain == Scheduled(<<>>)
MCEnvs ==
    {Plain,
     [Scheduled(<<<<10>>, <<20>>>>) EXCEPT !.databaseURL = <<" ">>],
     Scheduled(<<<<10>>, <<30>>, <<1>>>>),
     Scheduled(<<<<40>>, <<70>>>>),
     [Plain EXCEPT !.exchange = <<"a">>],
     [Scheduled(<<<<1>>>>) EXCEPT !.retryPrefix = <<"a">>, !.routingKey = <<"a">>],
     [Plain EXCEPT !.inCluster = FALSE, !.home = TRUE],
     [Plain EXCEPT !.inCluster = FALSE]}

MCSymmetry == Permutations({p1, p2})

MCInit == Init /\ Given

MCNext ==
    \/ \E p \in Processes :
          \/ Launch(p) /\ input = Nothing /\ UNCHANGED input
          \/ Pass(p) /\ UNCHANGED input
          \/ DeclareRetryQueue(p) /\ UNCHANGED input
          \/ RetryQueuesDeclared(p) /\ UNCHANGED input
          \/ Refused(p) /\ UNCHANGED input
          \/ Fails(p) /\ UNCHANGED input
          \/ Consume(p) /\ UNCHANGED input
          \/ Stop(p) /\ UNCHANGED input
          \/ Close(p) /\ UNCHANGED input
          \/ Exit(p) /\ UNCHANGED input
    \/ \E q \in Queues : DeleteQueue(q) /\ UNCHANGED input
    \/ input # Nothing /\ UNCHANGED <<vars, input>>

MCSpec == MCInit /\ [][MCNext]_<<vars, input>>
=============================================================================

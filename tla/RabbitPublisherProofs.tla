------------------------ MODULE RabbitPublisherProofs ------------------------
(***************************************************************************)
(* What publish may conclude from one look into the channel of returned    *)
(* messages, for any number of messages and any capacity of the channel.   *)
(* The argument follows each message from the broker over the connection   *)
(* into the channel or the set of confirmations.                           *)
(***************************************************************************)
EXTENDS RabbitPublisher, SequenceTheorems, TLAPS

(* The shapes of the sequences after each step. *)
LEMMA TailShape ==
  ASSUME NEW S, NEW s \in Seq(S), s # <<>>
  PROVE  /\ Head(s) = s[1] /\ Head(s) \in S /\ Tail(s) \in Seq(S)
         /\ Len(s) \in Nat \ {0} /\ Len(Tail(s)) = Len(s) - 1
         /\ \A i \in 1 .. Len(Tail(s)) : Tail(s)[i] = s[i + 1]
<1>1. Len(s) \in Nat \ {0}
  BY EmptySeq
<1>2. Head(s) \in S /\ Tail(s) \in Seq(S) /\ Len(Tail(s)) = Len(s) - 1
  BY HeadTailProperties
<1>3. Head(s) = s[1]
  OBVIOUS
<1>4. \A i \in 1 .. Len(Tail(s)) : Tail(s)[i] = s[i + 1]
  BY <1>1, <1>2
<1>5. QED
  BY <1>1, <1>2, <1>3, <1>4

LEMMA AppendShape ==
  ASSUME NEW S, NEW s \in Seq(S), NEW e \in S
  PROVE  /\ Append(s, e) \in Seq(S) /\ Len(s) \in Nat
         /\ Len(Append(s, e)) = Len(s) + 1
         /\ \A i \in 1 .. Len(s) : Append(s, e)[i] = s[i]
         /\ Append(s, e)[Len(s) + 1] = e
  BY AppendProperties, LenProperties

LEMMA AnswerShape ==
  ASSUME TypeOK, BrokerAnswers
  PROVE  /\ atBroker # <<>> /\ Head(atBroker) \in Messages
         /\ \E confirm \in {"ack", "nack"} :
              LET n == Head(atBroker)
                  once == Append(inbound, <<"return", n>>)
              IN  inbound' = IF n \in mandatory \intersect unroutable
                             THEN Append(once, <<confirm, n>>)
                             ELSE Append(inbound, <<confirm, n>>)
<1> DEFINE n == Head(atBroker)
<1>1. atBroker # <<>> /\ n \in Messages
  BY TailShape DEF BrokerAnswers, TypeOK
<1>2. PICK confirm \in {"ack", "nack"} :
         inbound' = inbound \o Append(IF n \in mandatory \intersect unroutable
                                      THEN << <<"return", n>> >> ELSE <<>>,
                                      <<confirm, n>>)
  BY DEF BrokerAnswers
<1> DEFINE r == <<"return", n>>
           c == <<confirm, n>>
<1>3. r \in Frames /\ c \in Frames /\ inbound \in Seq(Frames)
  BY <1>1 DEF Frames, TypeOK
<1>4. inbound \o <<c>> = Append(inbound, c) /\ Append(<<>>, c) = <<c>>
  BY <1>3, AppendIsConcat
<1>5. inbound \o Append(<<r>>, c) = Append(Append(inbound, r), c)
  <2>1. <<r>> \in Seq(Frames) /\ <<c>> \in Seq(Frames)
        /\ Append(inbound, r) \in Seq(Frames)
    BY <1>3
  <2>2. Append(<<r>>, c) = <<r>> \o <<c>>
    BY <1>3, <2>1, AppendIsConcat
  <2>3. inbound \o (<<r>> \o <<c>>) = (inbound \o <<r>>) \o <<c>>
    BY <1>3, <2>1, ConcatAssociative
  <2>4. inbound \o <<r>> = Append(inbound, r)
    BY <1>3, AppendIsConcat
  <2>5. Append(inbound, r) \o <<c>> = Append(Append(inbound, r), c)
    BY <1>3, <2>1, AppendIsConcat
  <2>6. QED
    BY <2>2, <2>3, <2>4, <2>5
<1>6. QED
  BY <1>1, <1>2, <1>4, <1>5
-----------------------------------------------------------------------------
LEMMA TypeInit ==
  ASSUME PublisherAssumption, Init
  PROVE  TypeOK
<1>1. /\ atBroker \in Seq(Messages) /\ inbound \in Seq(Frames)
      /\ returns \in Seq(Messages) /\ Len(returns) = 0
  BY EmptySeq DEF Init
<1>2. \A n \in Messages : n > 0
  BY DEF Messages
<1>3. QED
  BY <1>1, <1>2 DEF PublisherAssumption, Init, TypeOK, Outcomes, Messages

LEMMA FinishTyped ==
  ASSUME PublisherAssumption, TypeOK, current # 0,
         NEW result \in Outcomes \ {"none"}, Finish(result),
         returns' \in Seq(Messages), Len(returns') <= Capacity
  PROVE  TypeOK'
<1>1. outcome' = [outcome EXCEPT ![current] = result] /\ current' = 0
      /\ UNCHANGED <<sent, mandatory, unroutable, atBroker, inbound, acked, nacked>>
  BY DEF Finish, brokerVars
<1>2. sent \in Nat /\ current \in Messages
  BY DEF PublisherAssumption, TypeOK, Messages
<1>3. \A n \in Messages : outcome'[n] = IF n = current THEN result ELSE outcome[n]
  BY <1>1 DEF TypeOK
<1>4. outcome' \in [Messages -> Outcomes]
  BY <1>1, <1>2 DEF TypeOK
<1>5. \A n \in Messages : outcome'[n] = "none" <=> n > sent' \/ n = current'
  BY <1>1, <1>2, <1>3 DEF TypeOK, Messages
<1>6. QED
  BY <1>1, <1>2, <1>4, <1>5 DEF TypeOK

(* The three ways publish ends. *)
LEMMA EndsOfPublish ==
  ASSUME WaitConfirmed \/ WaitExpired, TypeOK
  PROVE  /\ current # 0
         /\ \/ /\ current \in acked /\ current \in mandatory /\ returns # <<>>
               /\ Finish("unroutable") /\ returns' = Tail(returns)
            \/ /\ current \in acked /\ (current \notin mandatory \/ returns = <<>>)
               /\ Finish("ok") /\ returns' = returns
            \/ (Finish("nacked") \/ Finish("timeout")) /\ returns' = returns
<1>1. 0 \notin acked /\ 0 \notin nacked
  BY DEF TypeOK, Messages
<1>2. QED
  BY <1>1 DEF WaitConfirmed, WaitExpired, Confirmed, CheckReturns

LEMMA TypeStep ==
  ASSUME PublisherAssumption, TypeOK, [Next]_vars
  PROVE  TypeOK'
<1>1. ASSUME NEW m \in BOOLEAN, NEW r \in BOOLEAN, Publish(m, r)
      PROVE  TypeOK'
  <2>1. sent \in Nat /\ MaxPublishes \in Nat /\ sent' = sent + 1 /\ sent' \in Messages
        /\ sent' \in 0 .. MaxPublishes /\ current' = sent' /\ current = 0
    BY <1>1 DEF Publish, PublisherAssumption, TypeOK, Messages
  <2>2. mandatory' \subseteq Messages /\ unroutable' \subseteq Messages
        /\ atBroker' \in Seq(Messages)
    BY <1>1, <2>1, AppendProperties DEF Publish, TypeOK
  <2>3. \A n \in Messages : outcome'[n] = "none" <=> n > sent' \/ n = current'
    BY <1>1, <2>1 DEF Publish, TypeOK, Messages
  <2>4. QED
    BY <1>1, <2>1, <2>2, <2>3 DEF Publish, TypeOK
<1>2. CASE BrokerAnswers
  <2>1. atBroker' \in Seq(Messages)
    BY <1>2, TailShape DEF BrokerAnswers, TypeOK
  <2>2. inbound' \in Seq(Frames)
    <3> DEFINE n == Head(atBroker)
               once == Append(inbound, <<"return", n>>)
    <3>1. n \in Messages
          /\ \E confirm \in {"ack", "nack"} :
                inbound' = IF n \in mandatory \intersect unroutable
                           THEN Append(once, <<confirm, n>>)
                           ELSE Append(inbound, <<confirm, n>>)
      BY <1>2, AnswerShape
    <3>2. once \in Seq(Frames) /\ inbound \in Seq(Frames)
      BY <3>1, AppendProperties DEF TypeOK, Frames
    <3>3. \A confirm \in {"ack", "nack"} : <<confirm, n>> \in Frames
      BY <3>1 DEF Frames
    <3>4. PICK confirm \in {"ack", "nack"} :
             inbound' = IF n \in mandatory \intersect unroutable
                        THEN Append(once, <<confirm, n>>)
                        ELSE Append(inbound, <<confirm, n>>)
      BY <3>1
    <3>5. <<confirm, n>> \in Frames
      BY <3>3
    <3>6. Append(once, <<confirm, n>>) \in Seq(Frames)
      BY <3>2, <3>5, AppendProperties
    <3>7. Append(inbound, <<confirm, n>>) \in Seq(Frames)
      BY <3>2, <3>5, AppendProperties
    <3> HIDE DEF n, once
    <3>8. QED
      BY <3>4, <3>6, <3>7
  <2>3. QED
    BY <1>2, <2>1, <2>2 DEF BrokerAnswers, TypeOK
<1>3. CASE Read
  <2>1. Head(inbound) \in Frames /\ inbound' \in Seq(Frames)
    BY <1>3, TailShape DEF Read, TypeOK
  <2>2. Head(inbound)[2] \in Messages
    BY <2>1 DEF Frames
  <2>3. /\ returns' \in Seq(Messages) /\ Len(returns') <= Capacity
        /\ acked' \subseteq Messages /\ nacked' \subseteq Messages
    <3>1. returns \in Seq(Messages) /\ Len(returns) \in Nat /\ Capacity \in Nat
      BY LenProperties DEF TypeOK, PublisherAssumption
    <3>2. /\ Append(returns, Head(inbound)[2]) \in Seq(Messages)
          /\ Len(Append(returns, Head(inbound)[2])) = Len(returns) + 1
      BY <2>2, <3>1, AppendProperties
    <3>3. /\ acked' = acked \/ acked' = acked \union {Head(inbound)[2]}
          /\ nacked' = nacked \/ nacked' = nacked \union {Head(inbound)[2]}
          /\ \/ returns' = returns
             \/ Len(returns) < Capacity /\ returns' = Append(returns, Head(inbound)[2])
      BY <1>3 DEF Read
    <3>4. acked' \subseteq Messages /\ nacked' \subseteq Messages
      BY <2>2, <3>3 DEF TypeOK
    <3>5. Len(returns) <= Capacity
      BY DEF TypeOK
    <3>6. QED
      BY <3>1, <3>2, <3>3, <3>4, <3>5
  <2>4. QED
    BY <1>3, <2>1, <2>3 DEF Read, brokerVars, TypeOK
<1>4. CASE WaitConfirmed \/ WaitExpired
  <2>1. /\ returns' \in Seq(Messages) /\ Len(returns') <= Capacity
        /\ current # 0 /\ \E result \in Outcomes \ {"none"} : Finish(result)
    <3>1. /\ current # 0 /\ \E result \in Outcomes \ {"none"} : Finish(result)
          /\ returns' = returns \/ (returns # <<>> /\ returns' = Tail(returns))
      BY <1>4, EndsOfPublish DEF Outcomes
    <3>2. returns \in Seq(Messages) /\ Len(returns) \in Nat /\ Capacity \in Nat
          /\ Len(returns) <= Capacity
      BY LenProperties DEF TypeOK, PublisherAssumption
    <3>3. returns # <<>> => Tail(returns) \in Seq(Messages)
                            /\ Len(Tail(returns)) = Len(returns) - 1
      BY <3>2, TailShape
    <3>4. QED
      BY <3>1, <3>2, <3>3
  <2>2. QED
    BY <2>1, FinishTyped
<1>5. CASE UNCHANGED vars
  BY <1>5 DEF vars, brokerVars, TypeOK
<1>6. QED
  BY <1>1, <1>2, <1>3, <1>4, <1>5 DEF Next, Rest

(* Every variable keeps its type, the channel never holds more than it     *)
(* can, and publish has returned for every message but the current one.    *)
THEOREM PublisherTyped ==
  ASSUME PublisherAssumption
  PROVE  Spec => []TypeOK
<1>1. Init => TypeOK
  BY TypeInit
<1>2. TypeOK /\ [Next]_vars => TypeOK'
  BY TypeStep
<1>3. QED
  BY <1>1, <1>2, PTL DEF Spec
-----------------------------------------------------------------------------
Has(s, e) == \E i \in 1 .. Len(s) : s[i] = e
Distinct(s) == \A i, j \in 1 .. Len(s) : s[i] = s[j] => i = j

(* Of each message at most a return and, after it, one confirmation. *)
Confirms == {"ack", "nack"}
InOrder(s) ==
    \A i, j \in 1 .. Len(s) :
        s[i][2] = s[j][2] =>
            \/ i = j
            \/ i < j /\ s[i][1] = "return" /\ s[j][1] \in Confirms
            \/ j < i /\ s[j][1] = "return" /\ s[i][1] \in Confirms

(* The journey of message n: at the broker, its frames on their way to the *)
(* reader, its return in the channel, its confirmation resolved.           *)
Waiting(n) == Has(atBroker, n)
OnTheWay(kind, n) == Has(inbound, <<kind, n>>)
InChannel(n) == Has(returns, n)
Resolved(n) == n \in acked \union nacked

(* No message is anywhere before it was sent. *)
Known ==
    \A n \in Messages :
        \/ n \in mandatory \/ n \in unroutable \/ Waiting(n) \/ Resolved(n)
        \/ InChannel(n) \/ \E kind \in {"return", "ack", "nack"} : OnTheWay(kind, n)
        => n <= sent

(* Every message is answered once. *)
Once == Distinct(atBroker) /\ Distinct(returns) /\ InOrder(inbound)

(* A message is at one place at a time, its return ahead of its            *)
(* confirmation.                                                           *)
Apart ==
    \A n \in Messages :
        /\ Waiting(n) =>
              /\ ~Resolved(n) /\ ~InChannel(n)
              /\ \A kind \in {"return", "ack", "nack"} : ~OnTheWay(kind, n)
        /\ OnTheWay("return", n) => ~Resolved(n) /\ ~InChannel(n)
        /\ \A kind \in Confirms : OnTheWay(kind, n) => ~Resolved(n)

OnlyReturned ==
    \A n \in Messages :
        InChannel(n) \/ OnTheWay("return", n) => n \in Returned

(* The return of n is still to come, or still in the channel. *)
Pending(n) == n \in Returned /\ (Waiting(n) \/ OnTheWay("return", n) \/ InChannel(n))

(* While publish waits for a returned message, nobody takes its return;    *)
(* and only a wait that was given up leaves a return behind.               *)
Arrives == current \in Returned => Pending(current)
WaitLost == \E m \in Returned : m # current /\ outcome[m] \in {"timeout", "nacked"}
NothingLeft == WaitLost \/ \A m \in Messages : Pending(m) => m = current

Places == Known /\ Once /\ Apart /\ OnlyReturned
Journey == current \in {0, sent} /\ Places /\ Arrives /\ NothingLeft
PublisherInvariant == Journey /\ OkIsRouted /\ BlameNeedsLostWait

LEMMA TailHas ==
  ASSUME NEW S, NEW s \in Seq(S), s # <<>>, Distinct(s)
  PROVE  /\ \A e : Has(Tail(s), e) <=> Has(s, e) /\ e # Head(s)
         /\ Has(s, Head(s)) /\ Distinct(Tail(s))
<1>1. /\ Head(s) = s[1] /\ Len(s) \in Nat \ {0} /\ Len(Tail(s)) = Len(s) - 1
      /\ \A i \in 1 .. Len(Tail(s)) : Tail(s)[i] = s[i + 1]
  BY TailShape
<1>2. ASSUME NEW e, Has(Tail(s), e) PROVE Has(s, e) /\ e # Head(s)
  <2>1. PICK i \in 1 .. Len(Tail(s)) : Tail(s)[i] = e
    BY <1>2 DEF Has
  <2>2. i + 1 \in 1 .. Len(s) /\ s[i + 1] = e /\ 1 \in 1 .. Len(s) /\ i + 1 # 1
    BY <1>1, <2>1
  <2>3. QED
    BY <1>1, <2>2 DEF Has, Distinct
<1>3. ASSUME NEW e, Has(s, e), e # Head(s) PROVE Has(Tail(s), e)
  <2>1. PICK i \in 1 .. Len(s) : s[i] = e
    BY <1>3 DEF Has
  <2>2. i # 1
    BY <1>1, <1>3, <2>1
  <2>3. i - 1 \in 1 .. Len(Tail(s)) /\ Tail(s)[i - 1] = s[(i - 1) + 1]
    BY <1>1, <2>2
  <2>4. (i - 1) + 1 = i
    BY <1>1, <2>1
  <2>5. QED
    BY <2>1, <2>3, <2>4 DEF Has
<1>4. Has(s, Head(s))
  BY <1>1 DEF Has
<1>5. Distinct(Tail(s))
  BY <1>1 DEF Distinct
<1>6. QED
  BY <1>2, <1>3, <1>4, <1>5

LEMMA AppendHas ==
  ASSUME NEW S, NEW s \in Seq(S), NEW x \in S
  PROVE  \A e : Has(Append(s, x), e) <=> Has(s, e) \/ e = x
<1>1. /\ Len(s) \in Nat /\ Len(Append(s, x)) = Len(s) + 1
      /\ \A i \in 1 .. Len(s) : Append(s, x)[i] = s[i]
      /\ Append(s, x)[Len(s) + 1] = x
  BY AppendShape
<1>2. ASSUME NEW e, Has(Append(s, x), e) PROVE Has(s, e) \/ e = x
  <2>1. PICK i \in 1 .. Len(Append(s, x)) : Append(s, x)[i] = e
    BY <1>2 DEF Has
  <2>2. CASE i = Len(s) + 1
    BY <1>1, <2>1, <2>2
  <2>3. CASE i \in 1 .. Len(s)
    BY <1>1, <2>1, <2>3 DEF Has
  <2>4. QED
    BY <1>1, <2>1, <2>2, <2>3
<1>3. ASSUME NEW e, Has(s, e) PROVE Has(Append(s, x), e)
  <2>1. PICK i \in 1 .. Len(s) : s[i] = e
    BY <1>3 DEF Has
  <2>2. i \in 1 .. Len(Append(s, x)) /\ Append(s, x)[i] = e
    BY <1>1, <2>1
  <2>3. QED
    BY <2>2 DEF Has
<1>4. Len(s) + 1 \in 1 .. Len(Append(s, x))
  BY <1>1
<1>5. Has(Append(s, x), x)
  BY <1>1, <1>4 DEF Has
<1>6. QED
  BY <1>2, <1>3, <1>5

LEMMA AppendDistinct ==
  ASSUME NEW S, NEW s \in Seq(S), NEW x \in S, Distinct(s), ~Has(s, x)
  PROVE  Distinct(Append(s, x))
<1>1. /\ Len(s) \in Nat /\ Len(Append(s, x)) = Len(s) + 1
      /\ \A i \in 1 .. Len(s) : Append(s, x)[i] = s[i]
      /\ Append(s, x)[Len(s) + 1] = x
  BY AppendShape
<1>2. SUFFICES ASSUME NEW i \in 1 .. Len(s) + 1, NEW j \in 1 .. Len(s) + 1,
                      Append(s, x)[i] = Append(s, x)[j]
               PROVE  i = j
  BY <1>1 DEF Distinct
<1>3. (i \in 1 .. Len(s) \/ i = Len(s) + 1) /\ (j \in 1 .. Len(s) \/ j = Len(s) + 1)
  BY <1>1
<1>4. QED
  BY <1>1, <1>2, <1>3 DEF Distinct, Has

LEMMA InOrderDistinct ==
  ASSUME NEW s \in Seq(Frames), InOrder(s)
  PROVE  Distinct(s)
  BY DEF InOrder, Distinct, Confirms

LEMMA TailInOrder ==
  ASSUME NEW s \in Seq(Frames), s # <<>>, InOrder(s)
  PROVE  InOrder(Tail(s))
<1>1. /\ Len(s) \in Nat \ {0} /\ Len(Tail(s)) = Len(s) - 1
      /\ \A i \in 1 .. Len(Tail(s)) : Tail(s)[i] = s[i + 1]
  BY TailShape
<1>2. \A i \in 1 .. Len(Tail(s)) : i + 1 \in 1 .. Len(s)
  BY <1>1
<1>3. QED
  BY <1>1, <1>2 DEF InOrder

LEMMA AppendInOrder ==
  ASSUME NEW s \in Seq(Frames), NEW f \in Frames, InOrder(s),
         \A i \in 1 .. Len(s) : s[i][2] = f[2] => s[i][1] = "return" /\ f[1] \in Confirms
  PROVE  InOrder(Append(s, f))
<1>1. /\ Len(s) \in Nat /\ Len(Append(s, f)) = Len(s) + 1
      /\ \A i \in 1 .. Len(s) : Append(s, f)[i] = s[i]
      /\ Append(s, f)[Len(s) + 1] = f
  BY AppendShape
<1>2. SUFFICES ASSUME NEW i \in 1 .. Len(s) + 1, NEW j \in 1 .. Len(s) + 1,
                      Append(s, f)[i][2] = Append(s, f)[j][2]
               PROVE  \/ i = j
                      \/ /\ i < j /\ Append(s, f)[i][1] = "return"
                         /\ Append(s, f)[j][1] \in Confirms
                      \/ /\ j < i /\ Append(s, f)[j][1] = "return"
                         /\ Append(s, f)[i][1] \in Confirms
  BY <1>1 DEF InOrder
<1>3. CASE i \in 1 .. Len(s) /\ j \in 1 .. Len(s)
  BY <1>1, <1>2, <1>3 DEF InOrder
<1>4. CASE i \in 1 .. Len(s) /\ j = Len(s) + 1
  BY <1>1, <1>2, <1>4
<1>5. CASE i = Len(s) + 1 /\ j \in 1 .. Len(s)
  BY <1>1, <1>2, <1>5
<1>6. QED
  BY <1>1, <1>3, <1>4, <1>5
-----------------------------------------------------------------------------
(* What each step does to the places of the messages. *)

LEMMA FrameIsNamed ==
  ASSUME TypeOK, NEW i \in 1 .. Len(inbound)
  PROVE  /\ inbound[i][2] \in Messages /\ inbound[i][1] \in {"return", "ack", "nack"}
         /\ OnTheWay(inbound[i][1], inbound[i][2])
<1>1. inbound[i] \in Frames
  BY ElementOfSeq DEF TypeOK
<1>2. inbound[i] = <<inbound[i][1], inbound[i][2]>>
  BY <1>1 DEF Frames
<1>3. QED
  BY <1>1, <1>2 DEF Frames, OnTheWay, Has

LEMMA PublishPlaces ==
  ASSUME PublisherAssumption, TypeOK, Known,
         NEW m \in BOOLEAN, NEW r \in BOOLEAN, Publish(m, r)
  PROVE  /\ sent' = sent + 1 /\ sent' \in Messages /\ current = 0 /\ current' = sent'
         /\ mandatory \subseteq mandatory' /\ mandatory' \subseteq mandatory \union {sent'}
         /\ unroutable \subseteq unroutable'
         /\ unroutable' \subseteq unroutable \union {sent'}
         /\ \A n : Waiting(n)' <=> Waiting(n) \/ n = sent'
         /\ UNCHANGED <<inbound, returns, acked, nacked, outcome>>
         /\ \A n \in Messages : n <= sent => n # sent' /\ n <= sent'
         /\ ~(sent' <= sent)
<1>1. sent \in Nat /\ MaxPublishes \in Nat /\ sent' = sent + 1 /\ sent' \in Messages
  BY DEF Publish, PublisherAssumption, TypeOK, Messages
<1>2. atBroker \in Seq(Messages) /\ atBroker' = Append(atBroker, sent')
  BY DEF Publish, TypeOK
<1>3. \A n : Waiting(n)' <=> Waiting(n) \/ n = sent'
  BY <1>1, <1>2, AppendHas DEF Waiting
<1>4. \A n \in Messages : n <= sent => n # sent' /\ n <= sent'
  BY <1>1 DEF Messages
<1>5. ~(sent' <= sent)
  BY <1>1
<1>6. QED
  BY <1>1, <1>3, <1>4, <1>5 DEF Publish

LEMMA AnswerPlaces ==
  ASSUME PublisherAssumption, TypeOK, Once, Apart, BrokerAnswers
  PROVE  \E h \in Messages, c \in Confirms :
           /\ Waiting(h)
           /\ \A n : Waiting(n)' <=> Waiting(n) /\ n # h
           /\ \A kind, n : OnTheWay(kind, n)' <=>
                 \/ OnTheWay(kind, n)
                 \/ n = h /\ kind = c
                 \/ n = h /\ kind = "return" /\ h \in Returned
           /\ Once'
           /\ UNCHANGED <<sent, mandatory, unroutable, returns, acked, nacked,
                          current, outcome>>
<1> DEFINE h == Head(atBroker)
           r == <<"return", h>>
           once == Append(inbound, r)
<1>1. /\ atBroker # <<>> /\ h \in Messages
      /\ \E confirm \in {"ack", "nack"} :
            inbound' = IF h \in mandatory \intersect unroutable
                       THEN Append(once, <<confirm, h>>)
                       ELSE Append(inbound, <<confirm, h>>)
  BY AnswerShape
<1>2. PICK c \in Confirms :
            inbound' = IF h \in mandatory \intersect unroutable
                       THEN Append(once, <<c, h>>)
                       ELSE Append(inbound, <<c, h>>)
  BY <1>1 DEF Confirms
<1>3. /\ atBroker \in Seq(Messages) /\ inbound \in Seq(Frames)
      /\ r \in Frames /\ <<c, h>> \in Frames
  BY <1>1 DEF TypeOK, Frames, Confirms
<1>4. atBroker' = Tail(atBroker)
      /\ UNCHANGED <<sent, mandatory, unroutable, returns, acked, nacked,
                     current, outcome>>
  BY DEF BrokerAnswers
<1>5. /\ Waiting(h) /\ (\A n : Waiting(n)' <=> Waiting(n) /\ n # h)
      /\ Distinct(atBroker')
  BY <1>1, <1>3, <1>4, TailHas DEF Waiting, Once
<1>6. once \in Seq(Frames)
  BY <1>3, AppendProperties
<1>7. \A e : Has(once, e) <=> Has(inbound, e) \/ e = r
  BY <1>3, AppendHas
<1>8. \A e : Has(Append(once, <<c, h>>), e) <=> Has(once, e) \/ e = <<c, h>>
  <2> HIDE DEF once, h
  <2>1. QED
    BY <1>3, <1>6, AppendHas
<1>9. \A e : Has(Append(inbound, <<c, h>>), e) <=> Has(inbound, e) \/ e = <<c, h>>
  BY <1>3, AppendHas
<1>10. \A i \in 1 .. Len(inbound) : inbound[i][2] # h
  BY <1>1, <1>5, FrameIsNamed DEF Apart
<1>11. InOrder(once)
  BY <1>3, <1>10, AppendInOrder DEF Once
<1>12. InOrder(Append(inbound, <<c, h>>))
  BY <1>3, <1>10, AppendInOrder DEF Once
<1>13. InOrder(Append(once, <<c, h>>))
  <2>1. /\ Len(inbound) \in Nat /\ Len(once) = Len(inbound) + 1
        /\ \A i \in 1 .. Len(inbound) : once[i] = inbound[i]
        /\ once[Len(inbound) + 1] = r
    BY <1>3, AppendShape
  <2>2. \A i \in 1 .. Len(once) : once[i][2] = h => once[i][1] = "return"
    BY <2>1, <1>10
  <2>3. QED
    BY <1>3, <1>6, <1>11, <2>2, AppendInOrder
<1> HIDE DEF h, r, once
<1>14. InOrder(inbound')
  BY <1>2, <1>12, <1>13
<1>15. \A e : Has(inbound', e) <=>
            \/ Has(inbound, e) \/ e = <<c, h>>
            \/ e = r /\ h \in Returned
  BY <1>2, <1>7, <1>8, <1>9 DEF Returned
<1>16. \A kind, n : OnTheWay(kind, n)' <=>
                 \/ OnTheWay(kind, n)
                 \/ n = h /\ kind = c
                 \/ n = h /\ kind = "return" /\ h \in Returned
  BY <1>15 DEF OnTheWay, r
<1>17. Once'
  BY <1>4, <1>5, <1>14 DEF Once
<1>18. QED
  BY <1>1, <1>4, <1>5, <1>16, <1>17

LEMMA ReadPlaces ==
  ASSUME PublisherAssumption, TypeOK, Once, Apart, Read
  PROVE  \E k \in {"return", "ack", "nack"}, h \in Messages :
           /\ OnTheWay(k, h)
           /\ \A kind, n : OnTheWay(kind, n)' <=>
                 OnTheWay(kind, n) /\ ~ (kind = k /\ n = h)
           /\ k = "return" => \A kind \in Confirms : ~ Resolved(h)
           /\ \A kind \in Confirms : k = kind => ~ OnTheWay("return", h)
           /\ \A n : InChannel(n)' <=> InChannel(n) \/ (k = "return" /\ n = h)
           /\ \A n : Resolved(n)' <=> Resolved(n) \/ (k \in Confirms /\ n = h)
           /\ acked \subseteq acked'
           /\ Once'
           /\ UNCHANGED <<sent, mandatory, unroutable, atBroker, current, outcome>>
<1> DEFINE f == Head(inbound)
           k == f[1]
           h == f[2]
<1>1. /\ inbound # <<>> /\ inbound \in Seq(Frames) /\ inbound' = Tail(inbound)
      /\ returns \in Seq(Messages)
  BY DEF Read, TypeOK
<1>2. /\ f = inbound[1] /\ f \in Frames /\ Len(inbound) \in Nat \ {0}
  BY <1>1, TailShape
<1>3. k \in {"return", "ack", "nack"} /\ h \in Messages /\ f = <<k, h>>
  BY <1>2 DEF Frames
<1>4. Distinct(inbound) /\ InOrder(inbound)
  BY <1>1, InOrderDistinct DEF Once
<1>5. /\ OnTheWay(k, h)
      /\ \A kind, n : OnTheWay(kind, n)' <=> OnTheWay(kind, n) /\ <<kind, n>> # f
  BY <1>1, <1>3, <1>4, TailHas DEF OnTheWay
<1>6. InOrder(inbound')
  BY <1>1, <1>4, TailInOrder
<1>7. /\ UNCHANGED <<sent, mandatory, unroutable, atBroker, current, outcome>>
      /\ \/ k = "return" /\ returns' = Append(returns, h) /\ UNCHANGED <<acked, nacked>>
         \/ k = "ack" /\ acked' = acked \union {h} /\ UNCHANGED <<returns, nacked>>
         \/ k = "nack" /\ nacked' = nacked \union {h} /\ UNCHANGED <<returns, acked>>
  BY DEF Read, brokerVars
<1>8. \A kind \in Confirms : k = kind => ~ OnTheWay("return", h)
  <2>1. SUFFICES ASSUME k \in Confirms, OnTheWay("return", h) PROVE FALSE
    OBVIOUS
  <2>2. PICK i \in 1 .. Len(inbound) : inbound[i] = <<"return", h>>
    BY <2>1 DEF OnTheWay, Has
  <2>3. 1 \in 1 .. Len(inbound) /\ inbound[1][2] = h /\ inbound[1][1] = k
    BY <1>2
  <2>4. inbound[i][2] = h /\ inbound[i][1] = "return"
    BY <2>2
  <2>5. i = 1 \/ i > 1
    BY <1>2, <2>2
  <2>6. QED
    BY <1>4, <2>1, <2>3, <2>4, <2>5 DEF InOrder, Confirms
<1> HIDE DEF f, k, h
<1>9. \A n : Has(Append(returns, h), n) <=> Has(returns, n) \/ n = h
  BY <1>1, <1>3, AppendHas
<1>10. \A n : InChannel(n)' <=> InChannel(n) \/ (k = "return" /\ n = h)
  BY <1>7, <1>9 DEF InChannel
<1>11. \A n : Resolved(n)' <=> Resolved(n) \/ (k \in Confirms /\ n = h)
  BY <1>7 DEF Resolved, Confirms
<1>12. k = "return" => ~ Resolved(h) /\ ~ InChannel(h)
  BY <1>3, <1>5 DEF Apart
<1>13. Distinct(returns')
  BY <1>1, <1>3, <1>7, <1>12, AppendDistinct DEF Once, InChannel
<1>14. Once'
  BY <1>6, <1>7, <1>13 DEF Once
<1>15. \A kind, n : OnTheWay(kind, n)' <=>
                 OnTheWay(kind, n) /\ ~ (kind = k /\ n = h)
  BY <1>3, <1>5
<1>16. acked \subseteq acked'
  BY <1>7
<1>17. QED
  BY <1>3, <1>5, <1>7, <1>8, <1>10, <1>11, <1>12, <1>14, <1>15, <1>16

LEMMA OneConfirmation ==
  ASSUME TypeOK, Once, NEW h,
         NEW k \in Confirms, NEW kind \in Confirms, OnTheWay(k, h), OnTheWay(kind, h)
  PROVE  kind = k
<1>1. PICK i \in 1 .. Len(inbound) : inbound[i] = <<k, h>>
  BY DEF OnTheWay, Has
<1>2. PICK j \in 1 .. Len(inbound) : inbound[j] = <<kind, h>>
  BY DEF OnTheWay, Has
<1>3. i = j
  BY <1>1, <1>2 DEF Once, InOrder, Confirms
<1>4. QED
  BY <1>1, <1>2, <1>3
-----------------------------------------------------------------------------
(* The steps that do not end a publish keep what the others rely on.       *)

LEMMA PlacesPublish ==
  ASSUME PublisherAssumption, TypeOK, PublisherInvariant,
         NEW m \in BOOLEAN, NEW r \in BOOLEAN, Publish(m, r)
  PROVE  PublisherInvariant'
<1>1. /\ sent' = sent + 1 /\ sent' \in Messages /\ current = 0 /\ current' = sent'
      /\ mandatory \subseteq mandatory' /\ mandatory' \subseteq mandatory \union {sent'}
      /\ unroutable \subseteq unroutable'
      /\ unroutable' \subseteq unroutable \union {sent'}
      /\ \A n : Waiting(n)' <=> Waiting(n) \/ n = sent'
      /\ UNCHANGED <<inbound, returns, acked, nacked, outcome>>
      /\ \A n \in Messages : n <= sent => n # sent' /\ n <= sent'
      /\ ~(sent' <= sent)
  BY PublishPlaces DEF PublisherInvariant, Journey, Places
<1>2. \A n : /\ (InChannel(n)' <=> InChannel(n)) /\ (Resolved(n)' <=> Resolved(n))
             /\ \A kind : OnTheWay(kind, n)' <=> OnTheWay(kind, n)
  BY <1>1 DEF InChannel, Resolved, OnTheWay
<1>3. \A n \in Messages : n <= sent => (n \in Returned' <=> n \in Returned)
  BY <1>1 DEF Returned
<1>4. /\ ~Waiting(sent') /\ ~Resolved(sent') /\ ~InChannel(sent')
      /\ \A kind \in {"return", "ack", "nack"} : ~OnTheWay(kind, sent')
      /\ sent' \notin mandatory /\ sent' \notin unroutable
  BY <1>1 DEF PublisherInvariant, Journey, Places, Known
<1>5. Known'
  <2>1. ASSUME NEW n \in Messages,
               \/ n \in mandatory' \/ n \in unroutable' \/ Waiting(n)' \/ Resolved(n)'
               \/ InChannel(n)' \/ \E kind \in {"return", "ack", "nack"} : OnTheWay(kind, n)'
        PROVE  n <= sent'
    <3>1. CASE n = sent'
      BY <1>1, <3>1 DEF Messages
    <3>2. CASE n # sent'
      <4>1. n <= sent
        <5>1. (n \in mandatory' => n \in mandatory) /\ (n \in unroutable' => n \in unroutable)
              /\ (Waiting(n)' => Waiting(n))
          BY <1>1, <3>2
        <5>2. \/ n \in mandatory \/ n \in unroutable \/ Waiting(n) \/ Resolved(n)
              \/ InChannel(n) \/ \E kind \in {"return", "ack", "nack"} : OnTheWay(kind, n)
          BY <1>2, <2>1, <5>1
        <5>3. QED
          BY <5>2 DEF PublisherInvariant, Journey, Places, Known
      <4>2. QED
        BY <1>1, <4>1
    <3>3. QED
      BY <3>1, <3>2
  <2>2. QED
    BY <2>1 DEF Known
<1>6. Once'
  <2>1. atBroker \in Seq(Messages) /\ atBroker' = Append(atBroker, sent')
    BY DEF TypeOK, Publish
  <2>2. Distinct(atBroker')
    BY <1>1, <1>4, <2>1, AppendDistinct
    DEF PublisherInvariant, Journey, Places, Once, Waiting
  <2>3. QED
    BY <1>1, <2>2 DEF PublisherInvariant, Journey, Places, Once
<1>7. Apart'
  <2>1. SUFFICES ASSUME NEW n \in Messages
                 PROVE  /\ Waiting(n)' =>
                             /\ ~Resolved(n)' /\ ~InChannel(n)'
                             /\ \A kind \in {"return", "ack", "nack"} : ~OnTheWay(kind, n)'
                        /\ OnTheWay("return", n)' => ~Resolved(n)' /\ ~InChannel(n)'
                        /\ \A kind \in Confirms : OnTheWay(kind, n)' => ~Resolved(n)'
    BY DEF Apart
  <2>2. CASE n = sent'
    BY <1>1, <1>2, <1>4, <2>2 DEF Confirms
  <2>3. CASE n # sent'
    <3>1. Waiting(n)' <=> Waiting(n)
      BY <1>1, <2>3
    <3>2. QED
      BY <1>2, <3>1 DEF PublisherInvariant, Journey, Places, Apart
  <2>4. QED
    BY <2>2, <2>3
<1>8. OnlyReturned'
  BY <1>1, <1>2 DEF PublisherInvariant, Journey, Places, OnlyReturned, Returned
<1>9. Arrives'
  BY <1>1 DEF Arrives, Pending
<1>10. NothingLeft'
  <2>1. CASE WaitLost
    <3>1. PICK n \in Returned : n # current /\ outcome[n] \in {"timeout", "nacked"}
      BY <2>1 DEF WaitLost
    <3>2. n \in Messages /\ n <= sent
      BY <3>1 DEF PublisherInvariant, Journey, Places, Known, Returned, TypeOK
    <3>3. n \in Returned' /\ n # current' /\ outcome'[n] \in {"timeout", "nacked"}
      BY <1>1, <1>3, <3>1, <3>2
    <3>4. QED
      BY <3>3 DEF NothingLeft, WaitLost
  <2>2. CASE \A n \in Messages : Pending(n) => n = current
    <3>1. SUFFICES ASSUME NEW n \in Messages, Pending(n)', n # current' PROVE FALSE
      BY DEF NothingLeft
    <3>2. Waiting(n) \/ OnTheWay("return", n) \/ InChannel(n)
      BY <1>1, <1>2, <3>1 DEF Pending
    <3>3. n \in Returned
      BY <1>1, <3>1 DEF Pending, Returned
    <3>4. n = 0
      BY <1>1, <2>2, <3>2, <3>3 DEF Pending
    <3>5. QED
      BY <3>4 DEF Messages
  <2>3. QED
    BY <2>1, <2>2 DEF PublisherInvariant, Journey, NothingLeft
<1>11. outcome[sent'] = "none"
  BY <1>1 DEF TypeOK, Messages
<1>12. OkIsRouted'
  BY <1>1, <1>11 DEF PublisherInvariant, OkIsRouted
<1>13. BlameNeedsLostWait'
  <2>1. SUFFICES ASSUME NEW n \in Messages, outcome[n] = "unroutable", n \notin unroutable'
                 PROVE  \E k \in Returned' : k < n /\ outcome[k] \in {"timeout", "nacked"}
    BY <1>1 DEF BlameNeedsLostWait
  <2>2. PICK k \in Returned : k < n /\ outcome[k] \in {"timeout", "nacked"}
    BY <1>1, <2>1 DEF PublisherInvariant, BlameNeedsLostWait
  <2>3. k \in Returned'
    BY <1>1, <2>2 DEF Returned
  <2>4. QED
    BY <2>2, <2>3
<1>14. QED
  BY <1>1, <1>5, <1>6, <1>7, <1>8, <1>9, <1>10, <1>12, <1>13
  DEF PublisherInvariant, Journey, Places

LEMMA PlacesAnswer ==
  ASSUME PublisherAssumption, TypeOK, PublisherInvariant, BrokerAnswers
  PROVE  PublisherInvariant'
<1>1. PICK h \in Messages, c \in Confirms :
           /\ Waiting(h)
           /\ \A n : Waiting(n)' <=> Waiting(n) /\ n # h
           /\ \A kind, n : OnTheWay(kind, n)' <=>
                 \/ OnTheWay(kind, n)
                 \/ n = h /\ kind = c
                 \/ n = h /\ kind = "return" /\ h \in Returned
           /\ Once'
           /\ UNCHANGED <<sent, mandatory, unroutable, returns, acked, nacked,
                          current, outcome>>
  BY AnswerPlaces DEF PublisherInvariant, Journey, Places
<1>2. /\ \A n : (InChannel(n)' <=> InChannel(n)) /\ (Resolved(n)' <=> Resolved(n))
      /\ Returned' = Returned
  BY <1>1 DEF InChannel, Resolved, Returned
<1>3. /\ h <= sent /\ ~Resolved(h) /\ ~InChannel(h)
      /\ \A kind \in {"return", "ack", "nack"} : ~OnTheWay(kind, h)
  BY <1>1 DEF PublisherInvariant, Journey, Places, Known, Apart
<1>4. Known'
  BY <1>1, <1>2, <1>3 DEF PublisherInvariant, Journey, Places, Known
<1>5. Apart'
  BY <1>1, <1>2, <1>3 DEF PublisherInvariant, Journey, Places, Apart, Confirms
<1>6. OnlyReturned'
  BY <1>1, <1>2, <1>3
  DEF PublisherInvariant, Journey, Places, OnlyReturned, Confirms
<1>7. \A n : Pending(n)' <=> Pending(n)
  BY <1>1, <1>2 DEF Pending, Confirms
<1>8. Arrives' /\ NothingLeft'
  BY <1>1, <1>2, <1>7
  DEF PublisherInvariant, Journey, Arrives, NothingLeft, WaitLost
<1>9. OkIsRouted' /\ BlameNeedsLostWait'
  BY <1>1, <1>2 DEF PublisherInvariant, OkIsRouted, BlameNeedsLostWait
<1>10. QED
  BY <1>1, <1>4, <1>5, <1>6, <1>8, <1>9 DEF PublisherInvariant, Journey, Places

LEMMA PlacesRead ==
  ASSUME PublisherAssumption, TypeOK, PublisherInvariant, Read
  PROVE  PublisherInvariant'
<1>1. PICK k \in {"return", "ack", "nack"}, h \in Messages :
           /\ OnTheWay(k, h)
           /\ \A kind, n : OnTheWay(kind, n)' <=>
                 OnTheWay(kind, n) /\ ~ (kind = k /\ n = h)
           /\ k = "return" => \A kind \in Confirms : ~ Resolved(h)
           /\ \A kind \in Confirms : k = kind => ~ OnTheWay("return", h)
           /\ \A n : InChannel(n)' <=> InChannel(n) \/ (k = "return" /\ n = h)
           /\ \A n : Resolved(n)' <=> Resolved(n) \/ (k \in Confirms /\ n = h)
           /\ acked \subseteq acked'
           /\ Once'
           /\ UNCHANGED <<sent, mandatory, unroutable, atBroker, current, outcome>>
  BY ReadPlaces DEF PublisherInvariant, Journey, Places
<1>2. (\A n : Waiting(n)' <=> Waiting(n)) /\ Returned' = Returned
  BY <1>1 DEF Waiting, Returned
<1>3. /\ h <= sent /\ ~Resolved(h) /\ ~Waiting(h)
      /\ k = "return" => ~InChannel(h) /\ h \in Returned
  BY <1>1
  DEF PublisherInvariant, Journey, Places, Known, Apart, OnlyReturned, Confirms
<1>4. Known'
  BY <1>1, <1>2, <1>3 DEF PublisherInvariant, Journey, Places, Known
<1>5. Apart'
  <2>1. SUFFICES ASSUME NEW n \in Messages
                 PROVE  /\ Waiting(n)' =>
                             /\ ~Resolved(n)' /\ ~InChannel(n)'
                             /\ \A kind \in {"return", "ack", "nack"} : ~OnTheWay(kind, n)'
                        /\ OnTheWay("return", n)' => ~Resolved(n)' /\ ~InChannel(n)'
                        /\ \A kind \in Confirms : OnTheWay(kind, n)' => ~Resolved(n)'
    BY DEF Apart
  <2>2. CASE n # h
    BY <1>1, <1>2, <2>2 DEF PublisherInvariant, Journey, Places, Apart
  <2>3. CASE n = h /\ k = "return"
    BY <1>1, <1>2, <1>3, <2>3 DEF Confirms
  <2>4. CASE n = h /\ k \in Confirms
    <3>1. \A kind \in Confirms : kind # k => ~OnTheWay(kind, h)
      BY <1>1, <2>4, OneConfirmation DEF PublisherInvariant, Journey, Places
    <3>2. QED
      BY <1>1, <1>2, <1>3, <2>4, <3>1 DEF Confirms
  <2>5. QED
    BY <1>1, <2>2, <2>3, <2>4 DEF Confirms
<1>6. OnlyReturned'
  BY <1>1, <1>2, <1>3 DEF PublisherInvariant, Journey, Places, OnlyReturned
<1>7. \A n : Pending(n)' <=> Pending(n)
  BY <1>1, <1>2, <1>3 DEF Pending, Confirms
<1>8. Arrives' /\ NothingLeft'
  BY <1>1, <1>2, <1>7
  DEF PublisherInvariant, Journey, Arrives, NothingLeft, WaitLost
<1>9. OkIsRouted' /\ BlameNeedsLostWait'
  BY <1>1, <1>2 DEF PublisherInvariant, OkIsRouted, BlameNeedsLostWait
<1>10. QED
  BY <1>1, <1>4, <1>5, <1>6, <1>8, <1>9 DEF PublisherInvariant, Journey, Places
-----------------------------------------------------------------------------
(* The end of a publish: the current message's return, if there is one, is *)
(* in the channel when its confirmation is there; the first one in the     *)
(* channel is another's only after a wait was lost.                        *)
LEMMA PlacesEnd ==
  ASSUME PublisherAssumption, TypeOK, PublisherInvariant, WaitConfirmed \/ WaitExpired
  PROVE  PublisherInvariant'
<1>1. /\ current # 0
      /\ \/ /\ current \in acked /\ current \in mandatory /\ returns # <<>>
            /\ Finish("unroutable") /\ returns' = Tail(returns)
         \/ /\ current \in acked /\ (current \notin mandatory \/ returns = <<>>)
            /\ Finish("ok") /\ returns' = returns
         \/ (Finish("nacked") \/ Finish("timeout")) /\ returns' = returns
  BY EndsOfPublish
<1>2. PICK result \in {"ok", "unroutable", "nacked", "timeout"} : Finish(result)
  BY <1>1
<1>3. /\ outcome' = [outcome EXCEPT ![current] = result] /\ current' = 0
      /\ UNCHANGED <<sent, mandatory, unroutable, atBroker, inbound, acked, nacked>>
  BY <1>2 DEF Finish, brokerVars
<1>4. /\ current = sent /\ current \in Messages /\ sent \in Nat
      /\ \A n \in Messages : n <= sent /\ n # current => n < current
  BY <1>1 DEF PublisherInvariant, Journey, PublisherAssumption, TypeOK, Messages
<1>5. \A n \in Messages : outcome'[n] = IF n = current THEN result ELSE outcome[n]
  BY <1>3 DEF TypeOK
<1>6. /\ \A n : (Waiting(n)' <=> Waiting(n)) /\ (Resolved(n)' <=> Resolved(n))
      /\ \A n, kind : OnTheWay(kind, n)' <=> OnTheWay(kind, n)
      /\ Returned' = Returned
  BY <1>3 DEF Waiting, Resolved, OnTheWay, Returned
<1>7. returns \in Seq(Messages) /\ Distinct(returns)
  BY DEF TypeOK, PublisherInvariant, Journey, Places, Once
<1>8. /\ \A n : InChannel(n)' => InChannel(n)
      /\ Distinct(returns')
      /\ returns' = Tail(returns) /\ returns # <<>> =>
            InChannel(Head(returns))
            /\ \A n : InChannel(n)' <=> InChannel(n) /\ n # Head(returns)
  BY <1>1, <1>7, TailHas DEF InChannel
<1>9. Known' /\ OnlyReturned' /\ Apart' /\ Once'
  <2>1. Known' /\ OnlyReturned'
    BY <1>3, <1>6, <1>8 DEF PublisherInvariant, Journey, Places, Known, OnlyReturned
  <2>2. Apart'
    BY <1>6, <1>8 DEF PublisherInvariant, Journey, Places, Apart
  <2>3. Once'
    BY <1>3, <1>8 DEF PublisherInvariant, Journey, Places, Once
  <2>4. QED
    BY <2>1, <2>2, <2>3
<1>10. current \in acked /\ current \in Returned => InChannel(current)
  BY <1>4 DEF PublisherInvariant, Journey, Places, Arrives, Pending, Apart, Resolved
<1>11. result = "ok" => current \notin Returned
  <2>1. result = "ok" => current \in acked /\ (current \notin mandatory \/ returns = <<>>)
    <3>1. outcome'[current] = result
      BY <1>4, <1>5
    <3>2. Finish("unroutable") => outcome'[current] = "unroutable"
      BY <1>4 DEF Finish, TypeOK
    <3>3. Finish("nacked") => outcome'[current] = "nacked"
      BY <1>4 DEF Finish, TypeOK
    <3>4. Finish("timeout") => outcome'[current] = "timeout"
      BY <1>4 DEF Finish, TypeOK
    <3>5. QED
      BY <1>1, <3>1, <3>2, <3>3, <3>4
  <2>2. returns = <<>> => ~InChannel(current)
    BY DEF InChannel, Has
  <2>3. QED
    BY <1>10, <2>1, <2>2 DEF Returned
<1>12. result = "unroutable" => /\ current \in acked /\ returns # <<>>
                                /\ returns' = Tail(returns)
  <2>1. outcome'[current] = result
    BY <1>4, <1>5
  <2>2. Finish("ok") => outcome'[current] = "ok"
    BY <1>4 DEF Finish, TypeOK
  <2>3. Finish("nacked") => outcome'[current] = "nacked"
    BY <1>4 DEF Finish, TypeOK
  <2>4. Finish("timeout") => outcome'[current] = "timeout"
    BY <1>4 DEF Finish, TypeOK
  <2>5. QED
    BY <1>1, <2>1, <2>2, <2>3, <2>4
<1>13. NothingLeft'
  <2>1. CASE WaitLost
    <3>1. PICK n \in Returned : n # current /\ outcome[n] \in {"timeout", "nacked"}
      BY <2>1 DEF WaitLost
    <3>2. n \in Messages /\ n # 0
      BY <3>1 DEF Returned, TypeOK, Messages
    <3>3. QED
      BY <1>3, <1>5, <1>6, <3>1, <3>2 DEF NothingLeft, WaitLost
  <2>2. CASE ~WaitLost /\ result \in {"timeout", "nacked"} /\ current \in Returned
    BY <1>1, <1>3, <1>4, <1>5, <1>6, <2>2 DEF NothingLeft, WaitLost
  <2>3. CASE ~WaitLost /\ ~(result \in {"timeout", "nacked"} /\ current \in Returned)
    <3>1. \A n \in Messages : Pending(n) => n = current
      BY <2>3 DEF PublisherInvariant, Journey, NothingLeft
    <3>2. \A n \in Messages : Pending(n)' => Pending(n)
      BY <1>6, <1>8 DEF Pending
    <3>3. ASSUME NEW n \in Messages, n = current PROVE ~Pending(n)'
      <4>1. CASE n \notin Returned
        BY <1>6, <4>1 DEF Pending
      <4>2. CASE n \in Returned
        <5>1. result = "unroutable"
          BY <1>11, <2>3, <3>3, <4>2
        <5>2. n \in acked /\ InChannel(Head(returns))
              /\ (InChannel(n)' <=> InChannel(n) /\ n # Head(returns))
          BY <1>8, <1>12, <3>3, <5>1
        <5>3. Head(returns) \in Messages
          BY <1>7, <1>12, <5>1, TailShape
        <5>4. Head(returns) = n
          BY <3>1, <3>3, <5>2, <5>3
          DEF Pending, PublisherInvariant, Journey, Places, OnlyReturned
        <5>5. ~Waiting(n) /\ ~OnTheWay("return", n)
          BY <5>2 DEF PublisherInvariant, Journey, Places, Apart, Resolved
        <5>6. QED
          BY <1>6, <5>2, <5>4, <5>5 DEF Pending
      <4>3. QED
        BY <4>1, <4>2
    <3>4. QED
      BY <3>1, <3>2, <3>3 DEF NothingLeft
  <2>4. QED
    BY <2>1, <2>2, <2>3
<1>14. OkIsRouted'
  <2>1. SUFFICES ASSUME NEW n \in mandatory, outcome'[n] = "ok" PROVE n \notin unroutable
    BY <1>3 DEF OkIsRouted
  <2>2. n \in Messages
    BY DEF TypeOK
  <2>3. CASE n = current
    BY <1>5, <1>11, <2>1, <2>2, <2>3 DEF Returned
  <2>4. CASE n # current
    BY <1>5, <2>1, <2>2, <2>4 DEF PublisherInvariant, OkIsRouted
  <2>5. QED
    BY <2>3, <2>4
<1>15. BlameNeedsLostWait'
  <2>1. SUFFICES ASSUME NEW n \in Messages, outcome'[n] = "unroutable", n \notin unroutable
                 PROVE  \E m \in Returned : m < n /\ outcome'[m] \in {"timeout", "nacked"}
    BY <1>3, <1>6 DEF BlameNeedsLostWait
  <2>2. \A m \in Returned : m \in Messages /\ m <= sent
    BY DEF Returned, TypeOK, PublisherInvariant, Journey, Places, Known
  <2>3. outcome[current] = "none"
    BY <1>4 DEF TypeOK
  <2>4. CASE n = current
    <3>1. result = "unroutable"
      BY <1>5, <2>1, <2>4
    <3>2. InChannel(Head(returns)) /\ Head(returns) \in Messages
      BY <1>7, <1>8, <1>12, <3>1, TailShape
    <3>3. Pending(Head(returns)) /\ Head(returns) # current
      BY <2>1, <2>4, <3>2
      DEF Pending, Returned, PublisherInvariant, Journey, Places, OnlyReturned
    <3>4. WaitLost
      BY <3>2, <3>3 DEF PublisherInvariant, Journey, NothingLeft
    <3>5. PICK m \in Returned : m # current /\ outcome[m] \in {"timeout", "nacked"}
      BY <3>4 DEF WaitLost
    <3>6. m < n /\ outcome'[m] \in {"timeout", "nacked"}
      BY <1>4, <1>5, <2>2, <2>4, <3>5
    <3>7. QED
      BY <3>6
  <2>5. CASE n # current
    <3>1. outcome[n] = "unroutable"
      BY <1>5, <2>1, <2>5
    <3>2. PICK m \in Returned : m < n /\ outcome[m] \in {"timeout", "nacked"}
      BY <2>1, <3>1 DEF PublisherInvariant, BlameNeedsLostWait
    <3>3. outcome'[m] \in {"timeout", "nacked"}
      BY <1>5, <2>2, <2>3, <3>2
    <3>4. QED
      BY <3>2, <3>3
  <2>6. QED
    BY <2>4, <2>5
<1>16. Arrives'
  BY <1>3 DEF Arrives, Returned, TypeOK, Messages
<1>17. QED
  BY <1>3, <1>9, <1>13, <1>14, <1>15, <1>16 DEF PublisherInvariant, Journey, Places
-----------------------------------------------------------------------------
LEMMA PublisherStep ==
  ASSUME PublisherAssumption, TypeOK, PublisherInvariant, [Next]_vars
  PROVE  PublisherInvariant'
<1>1. CASE UNCHANGED vars
  BY <1>1 DEF vars, brokerVars, PublisherInvariant, Journey, Places, Known, Once, Apart,
              OnlyReturned, Arrives, NothingLeft, WaitLost, Pending, Waiting, OnTheWay,
              InChannel, Resolved, Returned, OkIsRouted, BlameNeedsLostWait
<1>2. QED
  BY <1>1, PlacesPublish, PlacesAnswer, PlacesRead, PlacesEnd DEF Next, Rest

LEMMA PublisherInit ==
  ASSUME PublisherAssumption, Init
  PROVE  PublisherInvariant
<1>1. \A e : ~Has(<<>>, e)
  BY DEF Has
<1>2. Distinct(<<>>) /\ InOrder(<<>>)
  BY DEF Distinct, InOrder
<1>3. \A n : /\ ~Waiting(n) /\ ~InChannel(n) /\ ~Resolved(n)
             /\ \A kind : ~OnTheWay(kind, n)
  BY <1>1 DEF Init, Waiting, InChannel, Resolved, OnTheWay
<1>4. Places
  BY <1>2, <1>3 DEF Init, Places, Known, Once, Apart, OnlyReturned
<1>5. Arrives /\ NothingLeft
  BY <1>3 DEF Init, Arrives, NothingLeft, Pending, Returned
<1>6. OkIsRouted /\ BlameNeedsLostWait
  BY DEF Init, OkIsRouted, BlameNeedsLostWait
<1>7. QED
  BY <1>4, <1>5, <1>6 DEF Init, PublisherInvariant, Journey

(* Of a full channel and a return in front of it at least one belongs to   *)
(* a message nobody waits for.                                             *)
LEMMA StuckTells ==
  ASSUME PublisherAssumption, TypeOK, PublisherInvariant
  PROVE  StuckNeedsLostWait
<1>1. SUFFICES ASSUME Stuck
               PROVE  \E m \in Returned : outcome[m] \in {"timeout", "nacked"}
  BY DEF StuckNeedsLostWait
<1>2. /\ inbound # <<>> /\ inbound \in Seq(Frames) /\ Head(inbound)[1] = "return"
      /\ returns \in Seq(Messages) /\ Len(returns) = Capacity
      /\ Capacity \in Nat \ {0}
  BY <1>1 DEF Stuck, TypeOK, PublisherAssumption
<1>3. Len(inbound) \in Nat \ {0} /\ Head(inbound) = inbound[1]
  BY <1>2, TailShape
<1>4. 1 \in 1 .. Len(inbound) /\ 1 \in 1 .. Len(returns)
  BY <1>2, <1>3
<1> DEFINE first == inbound[1][2]
           kept == returns[1]
<1>5. first \in Messages /\ OnTheWay("return", first)
  BY <1>2, <1>3, <1>4, FrameIsNamed
<1>6. kept \in Messages /\ InChannel(kept)
  BY <1>2, <1>4, ElementOfSeq DEF InChannel, Has
<1> HIDE DEF first, kept
<1>7. first # kept
  BY <1>5, <1>6 DEF PublisherInvariant, Journey, Places, Apart
<1>8. Pending(first) /\ Pending(kept)
  BY <1>5, <1>6 DEF PublisherInvariant, Journey, Places, OnlyReturned, Pending
<1>9. WaitLost
  BY <1>5, <1>6, <1>7, <1>8 DEF PublisherInvariant, Journey, NothingLeft
<1>10. QED
  BY <1>9 DEF WaitLost

LEMMA PublisherInvariantHolds ==
  ASSUME PublisherAssumption
  PROVE  Spec => [](TypeOK /\ PublisherInvariant)
<1>1. Init => TypeOK /\ PublisherInvariant
  BY TypeInit, PublisherInit
<1>2. TypeOK /\ PublisherInvariant /\ [Next]_vars => (TypeOK /\ PublisherInvariant)'
  BY TypeStep, PublisherStep
<1>3. QED
  BY <1>1, <1>2, PTL DEF Spec

(* A progress event that publish reports as published has reached a queue, *)
(* for any number of messages and however late the reader is.              *)
THEOREM PublishedIsRouted ==
  ASSUME PublisherAssumption
  PROVE  Spec => []OkIsRouted
<1>1. TypeOK /\ PublisherInvariant => OkIsRouted
  BY DEF PublisherInvariant
<1>2. QED
  BY <1>1, PublisherInvariantHolds, PTL

(* An event is blamed for the return of another only if the wait for an    *)
(* earlier returned event was given up.                                    *)
THEOREM BlameIsEarned ==
  ASSUME PublisherAssumption
  PROVE  Spec => []BlameNeedsLostWait
<1>1. TypeOK /\ PublisherInvariant => BlameNeedsLostWait
  BY DEF PublisherInvariant
<1>2. QED
  BY <1>1, PublisherInvariantHolds, PTL

(* The reader of the connection is blocked by a full channel only if such  *)
(* a wait was given up, whatever the capacity of the channel.              *)
THEOREM ReaderBlocksOnlyThen ==
  ASSUME PublisherAssumption
  PROVE  Spec => []StuckNeedsLostWait
<1>1. TypeOK /\ PublisherInvariant => StuckNeedsLostWait
  BY StuckTells
<1>2. QED
  BY <1>1, PublisherInvariantHolds, PTL
=============================================================================

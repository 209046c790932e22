--------------------------- MODULE RabbitPublisher ---------------------------
(***************************************************************************)
(* rabbit_publisher.go: one publish at a time (the mutex), each followed   *)
(* by a wait for its confirmation and, for a mandatory message, by one     *)
(* look into the channel of returned messages.                             *)
(*                                                                         *)
(* The client library and the broker are external.  The library has one    *)
(* reader per connection: it resolves confirmations and hands a returned   *)
(* message to the channel NotifyReturn was given, and while that channel   *)
(* is full it reads nothing else.  The broker sends the return of a        *)
(* message before its confirmation.                                        *)
(*                                                                         *)
(* Messages are numbered in the order of their publishing.                 *)
(***************************************************************************)
EXTENDS Naturals, Sequences

CONSTANTS
    MaxPublishes,   \* bound on the messages published
    Capacity        \* of the channel of returned messages

ASSUME PublisherAssumption == MaxPublishes \in Nat /\ Capacity \in Nat \ {0}

VARIABLES
    sent,        \* messages published so far
    mandatory,   \* those published with the mandatory flag
    unroutable,  \* those the broker finds no queue for
    atBroker,    \* those the broker has still to answer
    inbound,     \* frames on their way to the reader
    returns,     \* the channel of returned messages
    acked, nacked,   \* resolved confirmations
    current,     \* the message publish waits for, 0 without one
    outcome      \* outcome[n]: what publish returned for message n

brokerVars == <<unroutable, atBroker>>
vars == <<sent, mandatory, brokerVars, inbound, returns, acked, nacked, current, outcome>>

Messages == 1 .. MaxPublishes
Frames == {"return", "ack", "nack"} \X Messages
Outcomes == {"none", "ok", "nacked", "unroutable", "timeout"}

(* Every variable has its type, the channel holds no more than it can, and *)
(* publish has returned for every message but the current one.             *)
TypeOK ==
    /\ sent \in 0 .. MaxPublishes
    /\ mandatory \subseteq Messages /\ unroutable \subseteq Messages
    /\ atBroker \in Seq(Messages) /\ inbound \in Seq(Frames)
    /\ returns \in Seq(Messages) /\ Len(returns) <= Capacity
    /\ acked \subseteq Messages /\ nacked \subseteq Messages
    /\ current \in 0 .. sent
    /\ outcome \in [Messages -> Outcomes]
    /\ \A n \in Messages : outcome[n] = "none" <=> n > sent \/ n = current

Init ==
    /\ sent = 0 /\ mandatory = {} /\ unroutable = {}
    /\ atBroker = <<>> /\ inbound = <<>> /\ returns = <<>>
    /\ acked = {} /\ nacked = {}
    /\ current = 0
    /\ outcome = [n \in Messages |-> "none"]
-----------------------------------------------------------------------------
(* The message leaves under the mutex; the context does not stop it.       *)
(* Mutant: without the mutex.                                              *)
Publish_Unlocked(isMandatory, isRoutable) ==
    /\ sent < MaxPublishes
    /\ sent' = sent + 1
    /\ current' = sent'
    /\ mandatory' = IF isMandatory THEN mandatory \union {sent'} ELSE mandatory
    /\ unroutable' = IF isRoutable THEN unroutable ELSE unroutable \union {sent'}
    /\ atBroker' = Append(atBroker, sent')
    /\ UNCHANGED <<inbound, returns, acked, nacked, outcome>>
Publish(isMandatory, isRoutable) ==
    /\ current = 0 /\ sent < MaxPublishes
    /\ sent' = sent + 1
    /\ current' = sent'
    /\ mandatory' = IF isMandatory THEN mandatory \union {sent'} ELSE mandatory
    /\ unroutable' = IF isRoutable THEN unroutable ELSE unroutable \union {sent'}
    /\ atBroker' = Append(atBroker, sent')
    /\ UNCHANGED <<inbound, returns, acked, nacked, outcome>>

BrokerAnswers ==
    /\ atBroker # <<>>
    /\ LET n == Head(atBroker)
           returned == IF n \in mandatory \intersect unroutable
                       THEN << <<"return", n>> >> ELSE <<>>
       IN  \E confirm \in {"ack", "nack"} :
              inbound' = inbound \o Append(returned, <<confirm, n>>)
    /\ atBroker' = Tail(atBroker)
    /\ UNCHANGED <<sent, mandatory, unroutable, returns, acked, nacked, current, outcome>>

(* The reader takes the next frame; a return needs room in the channel. *)
Read ==
    /\ inbound # <<>>
    /\ LET kind == Head(inbound)[1]
           n == Head(inbound)[2]
       IN  \/ /\ kind = "return" /\ Len(returns) < Capacity
              /\ returns' = Append(returns, n)
              /\ UNCHANGED <<acked, nacked>>
           \/ /\ kind = "ack" /\ acked' = acked \union {n}
              /\ UNCHANGED <<returns, nacked>>
           \/ /\ kind = "nack" /\ nacked' = nacked \union {n}
              /\ UNCHANGED <<returns, acked>>
    /\ inbound' = Tail(inbound)
    /\ UNCHANGED <<sent, mandatory, brokerVars, current, outcome>>

Finish(result) ==
    /\ outcome' = [outcome EXCEPT ![current] = result]
    /\ current' = 0
    /\ UNCHANGED <<sent, mandatory, brokerVars, inbound, acked, nacked>>

(* Whatever message is in the channel is taken for the one just published. *)
(* Mutant: it is looked at and left there.                                 *)
CheckReturns_LeavesReturn ==
    IF current \in mandatory /\ returns # <<>>
    THEN Finish("unroutable") /\ UNCHANGED returns
    ELSE Finish("ok") /\ UNCHANGED returns
CheckReturns ==
    IF current \in mandatory /\ returns # <<>>
    THEN Finish("unroutable") /\ returns' = Tail(returns)
    ELSE Finish("ok") /\ UNCHANGED returns

(* Mutant: a message that has left counts as confirmed. *)
Confirmed_BeforeAnswer == current # 0
Confirmed == current \in acked

WaitConfirmed ==
    \/ Confirmed /\ CheckReturns
    \/ current \in nacked /\ Finish("nacked") /\ UNCHANGED returns

(* The context of the call ends first. *)
WaitExpired == current # 0 /\ Finish("timeout") /\ UNCHANGED returns

(* All is published and answered, or the reader is stuck: nothing moves. *)
Rest ==
    /\ sent = MaxPublishes /\ current = 0
    /\ UNCHANGED vars

Next ==
    \/ \E isMandatory, isRoutable \in BOOLEAN : Publish(isMandatory, isRoutable)
    \/ BrokerAnswers \/ Read
    \/ WaitConfirmed \/ WaitExpired
    \/ Rest

Spec == Init /\ [][Next]_vars
-----------------------------------------------------------------------------
(* Properties.                                                             *)

Returned == mandatory \intersect unroutable

(* A progress event that is reported as published has reached a queue: a   *)
(* return is never missed, however late the reader comes to it.            *)
OkIsRouted == \A n \in mandatory : outcome[n] = "ok" => n \notin unroutable

(* The failure of one event is blamed on another only if the wait for an   *)
(* earlier, really returned one had ended without its confirmation.        *)
BlameNeedsLostWait ==
    \A n \in Messages :
        outcome[n] = "unroutable" /\ n \notin unroutable =>
            \E m \in Returned : m < n /\ outcome[m] \in {"timeout", "nacked"}

(* The reader gets stuck, and with it every channel of the connection,     *)
(* only after the wait for a returned event has been given up; a publisher *)
(* whose contexts are long enough never blocks it.                         *)
Stuck == inbound # <<>> /\ Head(inbound)[1] = "return" /\ Len(returns) = Capacity
StuckNeedsLostWait ==
    Stuck => \E m \in Returned : outcome[m] \in {"timeout", "nacked"}
=============================================================================

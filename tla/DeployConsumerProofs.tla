------------------------ MODULE DeployConsumerProofs ------------------------
EXTENDS DeployConsumer, TLAPS

ActivePcs == Pcs \ {"idle"}

(* The moves of a worker that keep its delivery. *)
Moves(w) ==
    /\ \E p \in ActivePcs : pc' = [pc EXCEPT ![w] = p]
    /\ \E f \in {"handle", "retry"} : phase' = [phase EXCEPT ![w] = f]
    /\ UNCHANGED <<msg, link>>

LEMMA DeliveryType ==
  ASSUME ConstantsAssumption, TypeOK, NEW w \in Workers, pc[w] # "idle"
  PROVE  /\ msg[w] \in Broker!Copies
         /\ Dep(w) \in Deployments
         /\ msg[w][2] \in Nat
         /\ msg[w][2] < MaxAttempts
<1>1. msg[w] \in Broker!Copies
  BY DEF TypeOK, WorkerTypeOK
<1>2. QED
  BY <1>1 DEF Broker!Copies, Broker!Attempts, Dep, ConstantsAssumption

LEMMA GotoMoves ==
  ASSUME TypeOK, NEW w \in Workers, NEW p \in ActivePcs, Goto(w, p)
  PROVE  Moves(w) /\ UNCHANGED disp
<1>1. phase' = [phase EXCEPT ![w] = phase[w]] /\ phase[w] \in {"handle", "retry"}
  BY DEF Goto, TypeOK, WorkerTypeOK
<1>2. QED
  BY <1>1 DEF Goto, Moves

LEMMA GiveUpMoves ==
  ASSUME TypeOK, NEW w \in Workers, GiveUp(w)
  PROVE  Moves(w) /\ UNCHANGED disp
<1>1. CASE phase[w] = "handle"
  <2>1. RetryEntry(w, TRUE) \in ActivePcs
    BY DEF RetryEntry, ActivePcs, Pcs, FailPcs, RetryPcs
  <2>2. QED
    BY <1>1, <2>1 DEF GiveUp, ScheduleRetry, Moves
<1>2. CASE phase[w] # "handle"
  <2>1. "nackRequeue" \in ActivePcs
    BY DEF ActivePcs, Pcs, SettlePcs
  <2>2. QED
    BY <1>2, <2>1, GotoMoves DEF GiveUp
<1>3. QED
  BY <1>1, <1>2

LEMMA MovesType ==
  ASSUME TypeOK, NEW w \in Workers, pc[w] # "idle", Moves(w), UNCHANGED disp
  PROVE  WorkerTypeOK'
  BY DEF TypeOK, WorkerTypeOK, Moves, ActivePcs

LEMMA TellType ==
  ASSUME TypeOK, NEW d \in Deployments, NEW k \in EventKinds, Tell(d, k)
  PROVE  (events \in [Deployments -> SUBSET EventKinds])'
  BY DEF TypeOK, Tell

LEMMA SpentType ==
  ASSUME TypeOK, NoFault \/ \E f \in FaultKinds : Strike(f)
  PROVE  spent' \in Nat
  BY DEF TypeOK, NoFault, Strike

LEMMA AnnounceType ==
  ASSUME ConstantsAssumption, TypeOK, NEW w \in Workers, pc[w] # "idle",
         NEW k \in EventKinds, NEW p \in ActivePcs, Announce(w, k, p)
  PROVE  TypeOK'
<1>1. (events \in [Deployments -> SUBSET EventKinds])'
  <2>1. Tell(Dep(w), k) \/ UNCHANGED events
    BY DEF Announce
  <2>2. QED
    BY <2>1, DeliveryType, TellType DEF TypeOK
<1>2. WorkerTypeOK'
  BY GotoMoves, GiveUpMoves, MovesType DEF Announce
<1>3. spent' \in Nat
  BY SpentType DEF Announce, Confirmed, Unconfirmed, Unsent, FaultKinds
<1>4. Broker!BrokerTypeOK' /\ Ledger!LedgerTypeOK'
  BY DEF Announce, TypeOK, brokerVars, ledgerVars, Broker!BrokerTypeOK,
     Ledger!LedgerTypeOK
<1>5. QED
  BY <1>1, <1>2, <1>3, <1>4 DEF TypeOK

LEMMA LedgerType ==
  ASSUME Ledger!LedgerTypeOK, NEW d \in Deployments,
         \/ Ledger!Claim(d) \/ Ledger!Renew(d) \/ Ledger!Complete(d)
         \/ Ledger!Fail(d) \/ Ledger!Release(d) \/ Ledger!Expire(d)
         \/ UNCHANGED ledgerVars
  PROVE  Ledger!LedgerTypeOK'
  BY DEF Ledger!LedgerTypeOK, Ledger!StageStates, Ledger!Claim, Ledger!Renew,
     Ledger!Complete, Ledger!Fail, Ledger!Release, Ledger!Write, Ledger!Expire,
     ledgerVars

LEMMA PersistType ==
  ASSUME ConstantsAssumption, TypeOK, NEW w \in Workers, pc[w] # "idle",
         NEW p \in ActivePcs,
         \/ Persist(w, Ledger!Complete(Dep(w)), p)
         \/ Persist(w, Ledger!Fail(Dep(w)), p)
         \/ Persist(w, Ledger!Release(Dep(w)), p)
  PROVE  TypeOK'
<1>1. Ledger!LedgerTypeOK'
  BY DeliveryType, LedgerType DEF Persist, TypeOK
<1>2. WorkerTypeOK'
  BY GotoMoves, GiveUpMoves, MovesType DEF Persist
<1>3. spent' \in Nat
  BY SpentType DEF Persist, FaultKinds
<1>4. Broker!BrokerTypeOK' /\ UNCHANGED events
  BY DEF Persist, TypeOK, brokerVars, Broker!BrokerTypeOK
<1>5. QED
  BY <1>1, <1>2, <1>3, <1>4 DEF TypeOK

(* A bag of messages stays one when a copy is added or a copy it has is    *)
(* taken away.                                                             *)
LEMMA BagType ==
  ASSUME NEW b \in [Broker!Copies -> Nat], NEW m \in Broker!Copies
  PROVE  /\ [b EXCEPT ![m] = @ + 1] \in [Broker!Copies -> Nat]
         /\ b[m] > 0 => [b EXCEPT ![m] = @ - 1] \in [Broker!Copies -> Nat]
  OBVIOUS

LEMMA FinishType ==
  ASSUME TypeOK, NEW w \in Workers,
         pc' = [pc EXCEPT ![w] = "idle"],
         msg' = [msg EXCEPT ![w] = NoCopy],
         disp' = [disp EXCEPT ![w] = "none"],
         phase' = [phase EXCEPT ![w] = "handle"],
         NEW l \in Links, link' = [link EXCEPT ![w] = l]
  PROVE  WorkerTypeOK'
  BY DEF TypeOK, WorkerTypeOK, Pcs, Dispositions

LEMMA HandleMessageType ==
  ASSUME ConstantsAssumption, TypeOK, NEW w \in Workers, HandleMessage(w)
  PROVE  TypeOK'
<1> USE DEF ActivePcs, Pcs, WorkPcs, FailPcs, StoredPcs, RetryPcs, SettlePcs, EventKinds
<1>1. CASE Receive(w)
  <2>1. PICK m \in Broker!Copies :
           /\ Broker!Take(m)
           /\ msg' = [msg EXCEPT ![w] = m]
           /\ pc' = [pc EXCEPT ![w] = IF m[1] \in Malformed
                                      THEN "deadLetter" ELSE "claim"]
    BY <1>1 DEF Receive
  <2>2. m # NoCopy
    BY DEF ConstantsAssumption, Broker!Copies, Broker!Attempts
  <2>3. WorkerTypeOK'
    BY <1>1, <2>1, <2>2 DEF Receive, TypeOK, WorkerTypeOK
  <2>4. ready' \in [Broker!Copies -> Nat]
    BY <2>1, BagType DEF Broker!Take, TypeOK, Broker!BrokerTypeOK
  <2>5. QED
    BY <1>1, <2>3, <2>4 DEF Receive, TypeOK, Broker!BrokerTypeOK,
       Ledger!LedgerTypeOK, ledgerVars
<1>2. CASE Claim(w)
  <2>1. Ledger!LedgerTypeOK'
    BY <1>2, DeliveryType, LedgerType DEF Claim, ClaimAnswered, TypeOK
  <2>2. WorkerTypeOK'
    <3>1. CASE GiveUp(w)
      BY <1>2, <3>1, GiveUpMoves, MovesType DEF Claim
    <3>2. CASE ClaimAnswered(w)
      <4>1. Ledger!Disposition(Dep(w)) \in Dispositions
        BY DEF Ledger!Disposition, Dispositions
      <4>2. RetryEntry(w, FALSE) \in ActivePcs
        BY DEF RetryEntry
      <4>3. QED
        BY <1>2, <3>2, <4>1, <4>2 DEF Claim, ClaimAnswered, TypeOK, WorkerTypeOK
    <3>3. QED
      BY <1>2, <3>1, <3>2 DEF Claim
  <2>3. spent' \in Nat
    BY <1>2, SpentType DEF Claim, ClaimAnswered, FaultKinds
  <2>4. QED
    BY <1>2, <2>1, <2>2, <2>3 DEF Claim, TypeOK, brokerVars, Broker!BrokerTypeOK
<1>3. CASE \/ AnnounceStarted(w) \/ AnnounceDeployed(w) \/ AnnouncePending(w)
           \/ AnnounceSucceeded(w) \/ AnnounceRunning(w)
           \/ AnnounceDeployFailed(w) \/ AnnounceFailed(w)
           \/ ReplayService(w) \/ ReplayProgress(w)
  BY <1>3, AnnounceType DEF AnnounceStarted, AnnounceDeployed, AnnouncePending,
     AnnounceSucceeded, AnnounceRunning, AnnounceDeployFailed, AnnounceFailed,
     ReplayService, ReplayProgress, StoredServiceEvent, StoredProgressEvent
<1>4. CASE Deploy(w) \/ WaitForRollout(w) \/ LateCheck(w)
  <2>1. WorkerTypeOK'
    BY <1>4, GotoMoves, GiveUpMoves, MovesType
       DEF Deploy, WaitForRollout, LateCheck, PublishRolloutSuccess
  <2>2. UNCHANGED <<brokerVars, ledgerVars, events, spent>>
    BY <1>4 DEF Deploy, WaitForRollout, LateCheck
  <2>3. QED
    BY <2>1, <2>2 DEF TypeOK, brokerVars, ledgerVars, Broker!BrokerTypeOK,
       Ledger!LedgerTypeOK
<1>5. CASE CompleteStage(w) \/ FailStage(w)
  BY <1>5, PersistType DEF CompleteStage, FailStage
<1>6. QED
  BY <1>1, <1>2, <1>3, <1>4, <1>5 DEF HandleMessage

LEMMA DelayType ==
  ASSUME Broker!BrokerTypeOK, NEW m, Broker!Delay(m)
  PROVE  retry' \in [Broker!Copies -> Nat]
<1> DEFINE more == [retry EXCEPT ![m] = @ + 1]
<1>1. more \in [Broker!Copies -> Nat]
  <2>1. CASE m \in Broker!Copies
    BY <2>1, BagType DEF Broker!BrokerTypeOK
  <2>2. CASE m \notin Broker!Copies
    BY <2>2 DEF Broker!BrokerTypeOK
  <2>3. QED
    BY <2>1, <2>2
<1>2. QED
  BY <1>1 DEF Broker!BrokerTypeOK, Broker!Delay

LEMMA SettleDeliveryType ==
  ASSUME ConstantsAssumption, TypeOK, NEW w \in Workers, SettleDelivery(w)
  PROVE  TypeOK'
<1> USE DEF ActivePcs, Pcs, WorkPcs, FailPcs, StoredPcs, RetryPcs, SettlePcs, EventKinds
<1>1. CASE EmitRetrying(w)
  BY <1>1, AnnounceType DEF EmitRetrying
<1>2. CASE PublishRetry(w)
  <2>1. retry' \in [Broker!Copies -> Nat]
    BY <1>2, DelayType DEF PublishRetry, TypeOK, Broker!BrokerTypeOK
  <2>2. WorkerTypeOK'
    BY <1>2, GotoMoves, MovesType DEF PublishRetry
  <2>3. spent' \in Nat
    BY <1>2, SpentType DEF PublishRetry, Confirmed, Unconfirmed, Unsent, FaultKinds
  <2>4. QED
    BY <1>2, <2>1, <2>2, <2>3 DEF PublishRetry, TypeOK, ledgerVars,
       Broker!BrokerTypeOK, Ledger!LedgerTypeOK
<1>3. CASE ReleaseClaim(w)
  BY <1>3, PersistType DEF ReleaseClaim
<1>4. CASE CopyToDLQ(w)
  <2>1. dlq' \subseteq Deployments
    BY <1>4, DeliveryType DEF CopyToDLQ, TypeOK, Broker!BrokerTypeOK, Broker!DeadLetter
  <2>2. WorkerTypeOK'
    BY <1>4, GotoMoves, MovesType DEF CopyToDLQ
  <2>3. spent' \in Nat
    BY <1>4, SpentType DEF CopyToDLQ, Confirmed, Unconfirmed, Unsent, FaultKinds
  <2>4. QED
    BY <1>4, <2>1, <2>2, <2>3 DEF CopyToDLQ, TypeOK, ledgerVars,
       Broker!BrokerTypeOK, Ledger!LedgerTypeOK
<1>5. CASE Discard(w) \/ NackRequeue(w)
  <2>1. (IF CanSettle(w) THEN link[w] ELSE "up") \in Links
    BY DEF TypeOK, WorkerTypeOK, Links
  <2>2. WorkerTypeOK'
    BY <1>5, <2>1, FinishType DEF Discard, NackRequeue, Finish
  <2>3. ready' \in [Broker!Copies -> Nat]
    BY <1>5, DeliveryType, BagType DEF Discard, NackRequeue, TypeOK,
       Broker!BrokerTypeOK, Broker!Return, brokerVars
  <2>4. UNCHANGED <<retry, dlq, ledgerVars, events, spent>>
    BY <1>5 DEF Discard, NackRequeue, brokerVars
  <2>5. QED
    BY <2>2, <2>3, <2>4 DEF TypeOK, ledgerVars, Broker!BrokerTypeOK,
       Ledger!LedgerTypeOK
<1>6. QED
  BY <1>1, <1>2, <1>3, <1>4, <1>5 DEF SettleDelivery

LEMMA RequeuedType ==
  ASSUME ConstantsAssumption, TypeOK, NEW w \in Workers, pc[w] # "idle", Requeued(w)
  PROVE  ready' \in [Broker!Copies -> Nat]
  BY DeliveryType, BagType DEF Requeued, TypeOK, Broker!BrokerTypeOK, Broker!Return

LEMMA FaultType ==
  ASSUME ConstantsAssumption, TypeOK, Fault
  PROVE  TypeOK'
<1> USE DEF brokerVars, ledgerVars, workerVars, Broker!BrokerTypeOK
<1>1. spent' \in Nat
  BY SpentType DEF Fault, Republish, LeaseMissed, Crash, LoseConsumerChannel,
     LosePublisherChannel, LoseConnection, FaultKinds
<1>2. ASSUME NEW d \in Deployments, Republish(d) PROVE TypeOK'
  <2>1. <<d, 0>> \in Broker!Copies
    BY DEF ConstantsAssumption, Broker!Copies, Broker!Attempts
  <2>2. ready' \in [Broker!Copies -> Nat]
    BY <1>2, <2>1, BagType DEF Republish, Broker!Return, TypeOK
  <2>3. QED
    BY <1>1, <1>2, <2>2 DEF Republish, TypeOK, WorkerTypeOK, Ledger!LedgerTypeOK
<1>3. ASSUME NEW d \in Deployments, LeaseMissed(d) PROVE TypeOK'
  <2>1. Ledger!LedgerTypeOK'
    BY <1>3, LedgerType DEF LeaseMissed, TypeOK
  <2>2. QED
    BY <1>1, <1>3, <2>1 DEF LeaseMissed, TypeOK, WorkerTypeOK
<1>4. ASSUME NEW w \in Workers, Crash(w) PROVE TypeOK'
  <2>1. WorkerTypeOK'
    BY <1>4, FinishType DEF Crash, Links
  <2>2. QED
    BY <1>1, <1>4, <2>1, RequeuedType DEF Crash, TypeOK, Ledger!LedgerTypeOK
<1>5. ASSUME NEW w \in Workers,
             LoseConsumerChannel(w) \/ LosePublisherChannel(w) \/ LoseConnection(w)
      PROVE  TypeOK'
  <2>1. WorkerTypeOK'
    BY <1>5 DEF LoseConsumerChannel, LosePublisherChannel, LoseConnection,
       TypeOK, WorkerTypeOK, Links
  <2>2. ready' \in [Broker!Copies -> Nat]
    BY <1>5, RequeuedType DEF LoseConsumerChannel, LosePublisherChannel,
       LoseConnection, TypeOK
  <2>3. UNCHANGED <<retry, dlq, ledgerVars, events>>
    BY <1>5 DEF LoseConsumerChannel, LosePublisherChannel, LoseConnection
  <2>4. QED
    BY <1>1, <2>1, <2>2, <2>3 DEF TypeOK, Ledger!LedgerTypeOK
<1>6. QED
  BY <1>2, <1>3, <1>4, <1>5 DEF Fault

LEMMA TypeStep ==
  ASSUME ConstantsAssumption, TypeOK, [Next]_vars
  PROVE  TypeOK'
<1> USE DEF brokerVars, ledgerVars, workerVars, Broker!BrokerTypeOK
<1>1. ASSUME NEW w \in Workers, Renew(w) PROVE TypeOK'
  <2>1. pc[w] # "idle"
    BY <1>1 DEF Renew, WorkPcs, FailPcs
  <2>2. Ledger!LedgerTypeOK'
    BY <1>1, <2>1, DeliveryType, LedgerType DEF Renew, TypeOK
  <2>3. QED
    BY <1>1, <2>2 DEF Renew, TypeOK, WorkerTypeOK
<1>2. ASSUME NEW d \in Deployments, LeaseRunsOut(d) PROVE TypeOK'
  <2>1. Ledger!LedgerTypeOK'
    BY <1>2, LedgerType DEF LeaseRunsOut, TypeOK
  <2>2. QED
    BY <1>2, <2>1 DEF LeaseRunsOut, TypeOK, WorkerTypeOK
<1>3. ASSUME NEW m \in Broker!Copies, RetryExpires(m) PROVE TypeOK'
  <2>1. retry' \in [Broker!Copies -> Nat] /\ ready' \in [Broker!Copies -> Nat]
    BY <1>3, BagType DEF RetryExpires, Broker!Expire, Broker!Return, TypeOK
  <2>2. QED
    BY <1>3, <2>1 DEF RetryExpires, Broker!Expire, TypeOK, WorkerTypeOK,
       Ledger!LedgerTypeOK
<1>4. CASE UNCHANGED vars
  BY <1>4 DEF vars, TypeOK, WorkerTypeOK, Ledger!LedgerTypeOK
<1>5. QED
  BY <1>1, <1>2, <1>3, <1>4, HandleMessageType, SettleDeliveryType, FaultType
     DEF Next, Work, Quiet

LEMMA InitType == ASSUME ConstantsAssumption, Init PROVE TypeOK
<1>1. Broker!BrokerTypeOK
  BY DEF Init, Broker!BrokerInit, Broker!BrokerTypeOK
<1>2. Ledger!LedgerTypeOK
  BY DEF Init, Ledger!LedgerInit, Ledger!LedgerTypeOK, Ledger!StageStates
<1>3. WorkerTypeOK
  BY DEF Init, WorkerTypeOK, Pcs, Dispositions, Links
<1>4. QED
  BY <1>1, <1>2, <1>3 DEF Init, TypeOK

(* Type correctness, whatever faults strike and however often. *)
THEOREM TypeCorrect == ASSUME ConstantsAssumption PROVE Spec => []TypeOK
<1>1. Init => TypeOK
  BY InitType
<1>2. TypeOK /\ [Next]_vars => TypeOK'
  BY TypeStep
<1>3. QED
  BY <1>1, <1>2, PTL DEF Spec

-----------------------------------------------------------------------------
(* ControlAt is an invariant: the calls of a worker follow one another as  *)
(* consumer.go orders them, also after failed calls.                       *)

Control == \A w \in Workers : ControlAt(w)

LEMMA ControlFrame ==
  ASSUME NEW v, ControlAt(v),
         pc'[v] = pc[v], msg'[v] = msg[v], disp'[v] = disp[v],
         phase'[v] = phase[v], link'[v] = link[v]
  PROVE  ControlAt(v)'
  BY DEF ControlAt, CanSettle, Attempt, Counted, Dep

(* When one worker moves, only its own conditions are in question. *)
LEMMA ControlOfMover ==
  ASSUME TypeOK, Control, NEW w \in Workers, Moves(w), UNCHANGED disp,
         ControlAt(w)'
  PROVE  Control'
<1>1. ASSUME NEW v \in Workers, v # w PROVE ControlAt(v)'
  BY <1>1, ControlFrame DEF Control, Moves, TypeOK, WorkerTypeOK
<1>2. QED
  BY <1>1 DEF Control

LEMMA GotoControl ==
  ASSUME TypeOK, Control, NEW w \in Workers, NEW p \in ActivePcs, Goto(w, p),
         p \in WorkPcs \union {"started"} => phase[w] = "handle" /\ disp[w] = "Acquired",
         p \in StoredPcs => phase[w] = "handle" /\ disp[w] \in {"Completed", "Failed"},
         p \in RetryPcs \union {"nackRequeue"} => phase[w] = "retry",
         p \in {"retrying", "requeue"} => Attempt(w, Counted(w)) < MaxAttempts,
         p = "deadLetter" => phase[w] = "retry",
         p = "nackDrop" => Dep(w) \in Malformed,
         p # "claim"
  PROVE  Control'
<1>1. ControlAt(w)'
  BY DEF Goto, Control, ControlAt, TypeOK, WorkerTypeOK, CanSettle, Attempt,
     Counted, Dep, ActivePcs
<1>2. QED
  BY <1>1, GotoMoves, ControlOfMover

LEMMA GiveUpControl ==
  ASSUME ConstantsAssumption, TypeOK, Control, NEW w \in Workers, pc[w] # "idle",
         GiveUp(w)
  PROVE  Control'
<1>1. ControlAt(w)'
  <2>1. CASE phase[w] = "handle"
    <3>1. disp[w] # "Busy" /\ disp'[w] = disp[w] /\ msg'[w] = msg[w]
      BY <2>1 DEF GiveUp, ScheduleRetry, Control, ControlAt
    <3>2. pc'[w] = RetryEntry(w, TRUE) /\ phase'[w] = "retry"
      BY <2>1 DEF GiveUp, ScheduleRetry, TypeOK, WorkerTypeOK
    <3>3. pc'[w] = "retrying" => Attempt(w, Counted(w))' < MaxAttempts
      BY <3>1, <3>2, DeliveryType DEF RetryEntry, Attempt, Counted
    <3>4. pc'[w] \in {"fail", "retrying"}
      BY <3>2 DEF RetryEntry
    <3>5. QED
      BY <3>1, <3>2, <3>3, <3>4
         DEF ControlAt, WorkPcs, StoredPcs, RetryPcs
  <2>2. CASE phase[w] # "handle"
    <3>1. phase'[w] = phase[w] /\ phase[w] = "retry" /\ pc'[w] = "nackRequeue"
      BY <2>2 DEF GiveUp, Goto, TypeOK, WorkerTypeOK
    <3>2. QED
      BY <3>1 DEF ControlAt, WorkPcs, StoredPcs, RetryPcs
  <2>3. QED
    BY <2>1, <2>2
<1>2. QED
  BY <1>1, GiveUpMoves, ControlOfMover

LEMMA HandleMessageControl ==
  ASSUME ConstantsAssumption, TypeOK, Control, NEW w \in Workers, HandleMessage(w)
  PROVE  Control'
<1> USE DEF ActivePcs, Pcs, WorkPcs, FailPcs, StoredPcs, RetryPcs, SettlePcs
<1>1. CASE Receive(w)
  <2>1. PICK m \in Broker!Copies :
           /\ msg' = [msg EXCEPT ![w] = m]
           /\ pc' = [pc EXCEPT ![w] = IF m[1] \in Malformed
                                      THEN "deadLetter" ELSE "claim"]
    BY <1>1 DEF Receive
  <2>2. UNCHANGED <<disp, phase, link>> /\ phase[w] = "handle" /\ disp[w] = "none"
    BY <1>1 DEF Receive, Control, ControlAt
  <2>3. ControlAt(w)'
    BY <2>1, <2>2 DEF ControlAt, Dep, TypeOK, WorkerTypeOK
  <2>4. ASSUME NEW v \in Workers, v # w PROVE ControlAt(v)'
    BY <2>1, <2>2, <2>4, ControlFrame DEF Control, TypeOK, WorkerTypeOK
  <2>5. QED
    BY <2>3, <2>4 DEF Control
<1>2. CASE Claim(w)
  <2>1. CASE GiveUp(w)
    BY <1>2, <2>1, GiveUpControl DEF Claim
  <2>2. CASE ClaimAnswered(w)
    <3> DEFINE answer == Ledger!Disposition(Dep(w))
    <3>1. answer \in {"Acquired", "Busy", "Completed", "Failed"}
      BY DEF Ledger!Disposition
    <3>2. /\ disp' = [disp EXCEPT ![w] = answer]
          /\ pc' = [pc EXCEPT ![w] =
                       CASE answer = "Acquired" -> "started"
                         [] answer = "Busy" -> RetryEntry(w, FALSE)
                         [] OTHER -> "storedService"]
          /\ phase' = [phase EXCEPT ![w] = IF answer = "Busy" THEN "retry" ELSE @]
          /\ UNCHANGED <<msg, link>>
      BY <2>2 DEF ClaimAnswered
    <3>3. phase[w] = "handle" /\ pc[w] = "claim"
      BY <1>2 DEF Claim, Control, ControlAt
    <3>4. RetryEntry(w, FALSE) = "requeue" /\ Attempt(w, FALSE) < MaxAttempts
      BY <3>3, DeliveryType DEF RetryEntry, Attempt, ConstantsAssumption
    <3>5. ControlAt(w)'
      BY <3>1, <3>2, <3>3, <3>4
         DEF ControlAt, TypeOK, WorkerTypeOK, Counted, Attempt, Dispositions
    <3>6. ASSUME NEW v \in Workers, v # w PROVE ControlAt(v)'
      BY <3>2, <3>6, ControlFrame DEF Control, TypeOK, WorkerTypeOK
    <3>7. QED
      BY <3>5, <3>6 DEF Control
  <2>3. QED
    BY <1>2, <2>1, <2>2 DEF Claim
<1>3. CASE GiveUp(w) /\ pc[w] # "idle"
  BY <1>3, GiveUpControl
<1>4. CASE \E p \in ActivePcs \ ({"claim"} \union RetryPcs \union {"nackRequeue", "nackDrop"}) :
           /\ Goto(w, p)
           /\ p \in WorkPcs \union {"started"} => pc[w] \in WorkPcs \union {"started"}
           /\ p \in StoredPcs => pc[w] \in StoredPcs
           /\ p = "deadLetter" => phase[w] = "retry"
  BY <1>4, GotoControl DEF Control, ControlAt
<1>5. CASE \/ AnnounceStarted(w) \/ AnnounceDeployed(w) \/ AnnouncePending(w)
           \/ AnnounceSucceeded(w) \/ AnnounceRunning(w)
           \/ AnnounceDeployFailed(w)
           \/ ReplayService(w) \/ ReplayProgress(w)
  BY <1>3, <1>4, <1>5 DEF AnnounceStarted, AnnounceDeployed, AnnouncePending,
     AnnounceSucceeded, AnnounceRunning, AnnounceDeployFailed,
     ReplayService, ReplayProgress, Announce
<1>6. CASE AnnounceFailed(w)
  BY <1>3, <1>4, <1>6 DEF AnnounceFailed, Announce, TypeOK, WorkerTypeOK
<1>7. CASE Deploy(w) \/ WaitForRollout(w) \/ LateCheck(w)
  BY <1>3, <1>4, <1>7 DEF Deploy, WaitForRollout, LateCheck, PublishRolloutSuccess
<1>8. CASE CompleteStage(w) \/ FailStage(w)
  BY <1>3, <1>4, <1>8 DEF CompleteStage, FailStage, Persist
<1>9. QED
  BY <1>1, <1>2, <1>5, <1>6, <1>7, <1>8 DEF HandleMessage

LEMMA FinishControl ==
  ASSUME TypeOK, Control, NEW w \in Workers,
         pc' = [pc EXCEPT ![w] = "idle"],
         msg' = [msg EXCEPT ![w] = NoCopy],
         disp' = [disp EXCEPT ![w] = "none"],
         phase' = [phase EXCEPT ![w] = "handle"],
         NEW l \in {"up", "nopub"}, link' = [link EXCEPT ![w] = l]
  PROVE  Control'
<1>1. ControlAt(w)'
  BY DEF ControlAt, TypeOK, WorkerTypeOK, CanSettle, WorkPcs, StoredPcs, RetryPcs
<1>2. ASSUME NEW v \in Workers, v # w PROVE ControlAt(v)'
  BY <1>2, ControlFrame DEF Control, TypeOK, WorkerTypeOK
<1>3. QED
  BY <1>1, <1>2 DEF Control

LEMMA SettleDeliveryControl ==
  ASSUME ConstantsAssumption, TypeOK, Control, NEW w \in Workers, SettleDelivery(w)
  PROVE  Control'
<1> USE DEF ActivePcs, Pcs, WorkPcs, FailPcs, StoredPcs, RetryPcs, SettlePcs
<1>1. CASE EmitRetrying(w)
  <2>1. CASE GiveUp(w)
    BY <1>1, <2>1, GiveUpControl DEF EmitRetrying
  <2>2. CASE Goto(w, "requeue")
    BY <1>1, <2>2, GotoControl DEF EmitRetrying, Control, ControlAt
  <2>3. QED
    BY <1>1, <2>1, <2>2 DEF EmitRetrying, Announce
<1>2. CASE PublishRetry(w)
  <2>1. PICK p \in {"release", "ack", "nackRequeue"} : Goto(w, p)
    BY <1>2 DEF PublishRetry
  <2>2. QED
    BY <1>2, <2>1, GotoControl DEF PublishRetry, Control, ControlAt
<1>3. CASE ReleaseClaim(w)
  <2>1. CASE GiveUp(w)
    BY <1>3, <2>1, GiveUpControl DEF ReleaseClaim
  <2>2. CASE Goto(w, "ack")
    BY <2>2, GotoControl
  <2>3. QED
    BY <1>3, <2>1, <2>2 DEF ReleaseClaim, Persist
<1>4. CASE CopyToDLQ(w)
  <2>1. PICK p \in {"ack", "nackDrop", "nackRequeue"} :
           /\ Goto(w, p)
           /\ p = "nackDrop" => phase[w] = "handle"
           /\ p = "nackRequeue" => phase[w] = "retry"
    BY <1>4 DEF CopyToDLQ, TypeOK, WorkerTypeOK
  <2>2. QED
    BY <1>4, <2>1, GotoControl DEF CopyToDLQ, Control, ControlAt
<1>5. CASE Discard(w) \/ NackRequeue(w)
  <2>1. (IF CanSettle(w) THEN link[w] ELSE "up") \in {"up", "nopub"}
    BY DEF CanSettle
  <2>2. QED
    BY <1>5, <2>1, FinishControl DEF Discard, NackRequeue, Finish
<1>6. QED
  BY <1>1, <1>2, <1>3, <1>4, <1>5 DEF SettleDelivery

LEMMA ControlStep ==
  ASSUME ConstantsAssumption, TypeOK, Control, [Next]_vars
  PROVE  Control'
<1>1. CASE UNCHANGED workerVars
  BY <1>1, ControlFrame DEF workerVars, Control
<1>2. ASSUME NEW w \in Workers, Crash(w) PROVE Control'
  BY <1>2, FinishControl DEF Crash
<1>3. ASSUME NEW w \in Workers,
             LoseConsumerChannel(w) \/ LosePublisherChannel(w) \/ LoseConnection(w)
      PROVE  Control'
  <2>1. PICK l \in {"noack", "nopub", "down"} :
           /\ link' = [link EXCEPT ![w] = l]
           /\ l # "nopub" => pc[w] # "idle"
    BY <1>3 DEF LoseConsumerChannel, LosePublisherChannel, LoseConnection,
       Control, ControlAt, CanSettle, CanPublish
  <2>2. UNCHANGED <<pc, msg, disp, phase>>
    BY <1>3 DEF LoseConsumerChannel, LosePublisherChannel, LoseConnection
  <2>3. ASSUME NEW v \in Workers PROVE ControlAt(v)'
    BY <2>1, <2>2 DEF Control, ControlAt, TypeOK, WorkerTypeOK, CanSettle,
       Attempt, Counted, Dep
  <2>4. QED
    BY <2>3 DEF Control
<1>4. QED
  BY <1>1, <1>2, <1>3, HandleMessageControl, SettleDeliveryControl
     DEF Next, Work, Fault, Renew, LeaseRunsOut, RetryExpires, Republish,
         LeaseMissed, Quiet, vars

-----------------------------------------------------------------------------
(* The order of the events.                                                *)

Told == \A w \in Workers : pc[w] # "idle" => ToldAt(w)
CompletedDeployed ==
    \A d \in Deployments : stage[d] = "COMPLETED" => "deployed" \in events[d]
History == Told /\ CompletedDeployed /\ EventOrder /\ DeadLetterAnnounced

(* Events are never taken back. *)
Grows == \A d \in Deployments : events[d] \subseteq events'[d]

LEMMA TellGrows ==
  ASSUME TypeOK, NEW d \in Deployments, NEW k, Tell(d, k)
  PROVE  Grows /\ events'[d] = events[d] \union {k}
  BY DEF Tell, TypeOK, Grows

LEMMA ToldFrame ==
  ASSUME ConstantsAssumption, TypeOK, Told, NEW v \in Workers, Grows,
         pc'[v] = pc[v], msg'[v] = msg[v], disp'[v] = disp[v], phase'[v] = phase[v]
  PROVE  pc'[v] # "idle" => ToldAt(v)'
<1>1. SUFFICES ASSUME pc[v] # "idle" PROVE ToldAt(v)'
  OBVIOUS
<1>2. Dep(v) \in Deployments /\ Dep(v)' = Dep(v)
  BY <1>1, DeliveryType DEF Dep
<1>3. QED
  BY <1>1, <1>2 DEF Told, ToldAt, Grows

LEMMA ToldOfMover ==
  ASSUME ConstantsAssumption, TypeOK, Told, Grows, NEW w \in Workers, Moves(w),
         UNCHANGED disp, ToldAt(w)'
  PROVE  Told'
<1>1. ASSUME NEW v \in Workers, v # w, pc'[v] # "idle" PROVE ToldAt(v)'
  BY <1>1, ToldFrame DEF Moves, TypeOK, WorkerTypeOK
<1>2. QED
  BY <1>1 DEF Told

LEMMA GiveUpTold ==
  ASSUME ConstantsAssumption, TypeOK, Told, Grows, NEW w \in Workers,
         pc[w] # "idle", GiveUp(w)
  PROVE  Told'
<1>1. Dep(w) \in Deployments /\ Dep(w)' = Dep(w) /\ disp'[w] = disp[w]
  BY DeliveryType, GiveUpMoves DEF Moves, Dep
<1>2. pc'[w] \in {"fail", "retrying", "nackRequeue"}
  BY DEF GiveUp, ScheduleRetry, Goto, RetryEntry, TypeOK, WorkerTypeOK
<1>3. ToldBefore(pc'[w], disp[w], phase'[w]) \subseteq ToldBefore(pc[w], disp[w], phase[w])
  BY <1>2 DEF ToldBefore, WorkPcs
<1>4. ToldAt(w)'
  BY <1>1, <1>3 DEF ToldAt, Told, Grows
<1>5. QED
  BY <1>4, GiveUpMoves, ToldOfMover

LEMMA GotoTold ==
  ASSUME ConstantsAssumption, TypeOK, Told, Grows, NEW w \in Workers,
         pc[w] # "idle", NEW p \in ActivePcs, Goto(w, p),
         ToldBefore(p, disp[w], phase[w]) \subseteq events'[Dep(w)]
  PROVE  Told'
<1>1. Dep(w)' = Dep(w) /\ disp'[w] = disp[w] /\ phase'[w] = phase[w] /\ pc'[w] = p
  BY DEF Goto, Dep, TypeOK, WorkerTypeOK
<1>2. ToldAt(w)'
  BY <1>1 DEF ToldAt
<1>3. QED
  BY <1>2, GotoMoves, ToldOfMover

(* An event may be published when the one that precedes it is out. *)
LEMMA TellKeepsOrder ==
  ASSUME TypeOK, EventOrder, NEW d \in Deployments, NEW k \in EventKinds,
         Tell(d, k), Precedes(k) \subseteq events[d]
  PROVE  EventOrder'
<1>1. ASSUME NEW e \in Deployments, NEW j \in events'[e]
      PROVE  Precedes(j) \subseteq events'[e]
  <2>1. CASE e = d
    <3>1. events'[e] = events[e] \union {k}
      BY <2>1, TellGrows
    <3>2. QED
      BY <2>1, <3>1 DEF EventOrder
  <2>2. CASE e # d
    BY <1>1, <2>2 DEF EventOrder, Tell, TypeOK
  <2>3. QED
    BY <2>1, <2>2
<1>2. QED
  BY <1>1 DEF EventOrder

LEMMA GrowsKeeps ==
  ASSUME TypeOK, Grows, CompletedDeployed, DeadLetterAnnounced,
         UNCHANGED <<stage, dlq>>
  PROVE  CompletedDeployed' /\ DeadLetterAnnounced'
  BY DEF Grows, CompletedDeployed, DeadLetterAnnounced, Failed, TypeOK,
     Broker!BrokerTypeOK

LEMMA AnnounceHistory ==
  ASSUME ConstantsAssumption, TypeOK, History, NEW w \in Workers, pc[w] # "idle",
         NEW k \in EventKinds, NEW p \in ActivePcs, Announce(w, k, p),
         Precedes(k) \subseteq events[Dep(w)],
         ToldBefore(p, disp[w], phase[w]) \subseteq events[Dep(w)] \union {k}
  PROVE  History'
<1>1. Dep(w) \in Deployments
  BY DeliveryType
<1>2. Grows /\ EventOrder'
  <2>1. CASE Tell(Dep(w), k)
    BY <1>1, <2>1, TellGrows, TellKeepsOrder DEF History
  <2>2. CASE UNCHANGED events
    BY <2>2 DEF Grows, History, EventOrder
  <2>3. QED
    BY <2>1, <2>2 DEF Announce
<1>3. Told'
  <2>1. CASE GiveUp(w)
    BY <1>2, <2>1, GiveUpTold DEF History
  <2>2. CASE Tell(Dep(w), k) /\ Goto(w, p)
    BY <1>1, <1>2, <2>2, TellGrows, GotoTold DEF History
  <2>3. QED
    BY <2>1, <2>2 DEF Announce
<1>4. UNCHANGED <<stage, dlq>>
  BY DEF Announce, brokerVars, ledgerVars
<1>5. QED
  BY <1>2, <1>3, <1>4, GrowsKeeps DEF History

(* A move that publishes nothing and leaves ledger and queues alone. *)
LEMMA QuietMoveHistory ==
  ASSUME ConstantsAssumption, TypeOK, History, NEW w \in Workers, pc[w] # "idle",
         UNCHANGED <<events, stage, dlq>>,
         \/ GiveUp(w)
         \/ \E p \in ActivePcs :
               /\ Goto(w, p)
               /\ ToldBefore(p, disp[w], phase[w]) \subseteq events[Dep(w)]
  PROVE  History'
<1>1. Grows
  BY DEF Grows
<1>2. Told'
  BY <1>1, GiveUpTold, GotoTold DEF History
<1>3. EventOrder'
  BY DEF History, EventOrder
<1>4. QED
  BY <1>1, <1>2, <1>3, GrowsKeeps DEF History

LEMMA PersistHistory ==
  ASSUME ConstantsAssumption, TypeOK, History, NEW w \in Workers, pc[w] # "idle",
         NEW p \in ActivePcs,
         ToldBefore(p, disp[w], phase[w]) \subseteq events[Dep(w)],
         \/ Persist(w, Ledger!Complete(Dep(w)), p) /\ "deployed" \in events[Dep(w)]
         \/ Persist(w, Ledger!Fail(Dep(w)), p)
         \/ Persist(w, Ledger!Release(Dep(w)), p)
  PROVE  History'
<1>1. UNCHANGED <<events, dlq>> /\ Grows
  BY DEF Persist, brokerVars, Grows
<1>2. Told'
  BY <1>1, GiveUpTold, GotoTold DEF History, Persist
<1>3. CompletedDeployed'
  BY <1>1, DeliveryType DEF Persist, History, CompletedDeployed, TypeOK,
     Ledger!LedgerTypeOK, ledgerVars, Ledger!Complete, Ledger!Fail,
     Ledger!Release, Ledger!Write
<1>4. EventOrder' /\ DeadLetterAnnounced'
  BY <1>1 DEF History, EventOrder, DeadLetterAnnounced, Failed
<1>5. QED
  BY <1>2, <1>3, <1>4 DEF History

LEMMA HandleMessageHistory ==
  ASSUME ConstantsAssumption, TypeOK, Control, History, NEW w \in Workers,
         HandleMessage(w)
  PROVE  History'
<1> USE DEF ActivePcs, Pcs, WorkPcs, FailPcs, StoredPcs, RetryPcs, SettlePcs
<1>1. CASE Receive(w)
  <2>1. /\ UNCHANGED <<events, stage, dlq, disp, phase>>
        /\ phase[w] = "handle" /\ disp[w] = "none"
        /\ \E p \in {"claim", "deadLetter"} : pc' = [pc EXCEPT ![w] = p]
        /\ \E m \in Broker!Copies : msg' = [msg EXCEPT ![w] = m]
    BY <1>1 DEF Receive, ledgerVars, Control, ControlAt
  <2>2. ToldAt(w)'
    BY <2>1 DEF ToldAt, ToldBefore, TypeOK, WorkerTypeOK
  <2>3. Grows
    BY <2>1 DEF Grows
  <2>4. ASSUME NEW v \in Workers, v # w, pc'[v] # "idle" PROVE ToldAt(v)'
    BY <2>1, <2>3, <2>4, ToldFrame DEF History, TypeOK, WorkerTypeOK
  <2>5. Told' /\ EventOrder'
    BY <2>1, <2>2, <2>4 DEF Told, History, EventOrder
  <2>6. QED
    BY <2>1, <2>3, <2>5, GrowsKeeps DEF History
<1>2. CASE Claim(w)
  <2>1. UNCHANGED <<events, dlq>> /\ Grows
    BY <1>2 DEF Claim, brokerVars, Grows
  <2>2. Dep(w) \in Deployments
    BY <1>2, DeliveryType DEF Claim
  <2>3. CompletedDeployed'
    BY <1>2, <2>1, <2>2 DEF Claim, ClaimAnswered, Ledger!Claim, History,
       CompletedDeployed, TypeOK, Ledger!LedgerTypeOK, ledgerVars
  <2>4. EventOrder' /\ DeadLetterAnnounced'
    BY <2>1 DEF History, EventOrder, DeadLetterAnnounced, Failed
  <2>5. Told'
    <3>1. CASE GiveUp(w)
      BY <1>2, <2>1, <3>1, GiveUpTold DEF Claim, History
    <3>2. CASE ClaimAnswered(w)
      <4> DEFINE answer == Ledger!Disposition(Dep(w))
      <4>1. /\ disp' = [disp EXCEPT ![w] = answer]
            /\ pc' = [pc EXCEPT ![w] =
                         CASE answer = "Acquired" -> "started"
                           [] answer = "Busy" -> RetryEntry(w, FALSE)
                           [] OTHER -> "storedService"]
            /\ phase' = [phase EXCEPT ![w] = IF answer = "Busy" THEN "retry" ELSE @]
            /\ UNCHANGED <<msg, link>>
        BY <3>2 DEF ClaimAnswered
      <4>2. pc'[w] \in {"started", "fail", "retrying", "requeue", "storedService"}
        BY <4>1 DEF RetryEntry, TypeOK, WorkerTypeOK
      <4>3. disp'[w] = answer /\ Dep(w)' = Dep(w)
        BY <4>1 DEF TypeOK, WorkerTypeOK, Dep
      <4>4. answer = "Completed" => stage[Dep(w)] = "COMPLETED"
        BY DEF Ledger!Disposition
      <4>5. ToldBefore(pc'[w], disp'[w], phase'[w]) \subseteq
              IF answer = "Completed" THEN {"deployed"} ELSE {}
        BY <4>2, <4>3 DEF ToldBefore
      <4>6. ToldAt(w)'
        BY <2>1, <2>2, <4>3, <4>4, <4>5 DEF ToldAt, History, CompletedDeployed
      <4>7. ASSUME NEW v \in Workers, v # w, pc'[v] # "idle" PROVE ToldAt(v)'
        BY <2>1, <4>1, <4>7, ToldFrame DEF History, TypeOK, WorkerTypeOK
      <4>8. QED
        BY <4>6, <4>7 DEF Told
    <3>3. QED
      BY <1>2, <3>1, <3>2 DEF Claim
  <2>6. QED
    BY <2>3, <2>4, <2>5 DEF History
<1>3. CASE \/ AnnounceStarted(w) \/ AnnounceDeployed(w) \/ AnnouncePending(w)
           \/ AnnounceSucceeded(w) \/ AnnounceRunning(w)
           \/ AnnounceDeployFailed(w) \/ AnnounceFailed(w)
           \/ ReplayService(w) \/ ReplayProgress(w)
  <2>1. pc[w] # "idle" /\ ToldAt(w) /\ ControlAt(w)
    BY <1>3 DEF AnnounceStarted, AnnounceDeployed, AnnouncePending,
       AnnounceSucceeded, AnnounceRunning, AnnounceDeployFailed, AnnounceFailed,
       ReplayService, ReplayProgress, History, Told, Control
  <2>2. PICK k \in EventKinds, p \in ActivePcs :
           /\ Announce(w, k, p)
           /\ Precedes(k) \subseteq ToldBefore(pc[w], disp[w], phase[w])
           /\ ToldBefore(p, disp[w], phase[w])
                \subseteq ToldBefore(pc[w], disp[w], phase[w]) \union {k}
    BY <1>3, <2>1 DEF AnnounceStarted, AnnounceDeployed, AnnouncePending,
       AnnounceSucceeded, AnnounceRunning, AnnounceDeployFailed, AnnounceFailed,
       ReplayService, ReplayProgress, StoredServiceEvent, StoredProgressEvent,
       EventKinds, Precedes, ToldBefore, ControlAt
  <2>3. QED
    BY <2>1, <2>2, AnnounceHistory DEF ToldAt
<1>4. CASE Deploy(w) \/ WaitForRollout(w) \/ LateCheck(w)
  <2>1. pc[w] # "idle" /\ ToldAt(w) /\ UNCHANGED <<events, stage, dlq>>
    BY <1>4 DEF Deploy, WaitForRollout, LateCheck, History, Told,
       brokerVars, ledgerVars
  <2>2. \/ GiveUp(w)
        \/ \E p \in ActivePcs :
              /\ Goto(w, p)
              /\ ToldBefore(p, disp[w], phase[w])
                   \subseteq ToldBefore(pc[w], disp[w], phase[w])
    BY <1>4 DEF Deploy, WaitForRollout, LateCheck, PublishRolloutSuccess, ToldBefore
  <2>3. QED
    BY <2>1, <2>2, QuietMoveHistory DEF ToldAt
<1>5. CASE CompleteStage(w) \/ FailStage(w)
  <2>1. pc[w] # "idle" /\ ToldAt(w)
    BY <1>5 DEF CompleteStage, FailStage, History, Told
  <2>2. pc[w] = "complete" => "deployed" \in events[Dep(w)]
    BY <2>1 DEF ToldAt, ToldBefore, EventKinds
  <2>3. \A p \in {"succeeded", "deployFailed"} :
           pc[w] \in {"complete", "fail"} /\ (p = "succeeded" => pc[w] = "complete")
           => ToldBefore(p, disp[w], phase[w])
                \subseteq ToldBefore(pc[w], disp[w], phase[w])
    BY DEF ToldBefore
  <2>4. QED
    BY <1>5, <2>1, <2>2, <2>3, PersistHistory DEF CompleteStage, FailStage, ToldAt
<1>6. QED
  BY <1>1, <1>2, <1>3, <1>4, <1>5 DEF HandleMessage

LEMMA FinishHistory ==
  ASSUME ConstantsAssumption, TypeOK, History, NEW w \in Workers,
         UNCHANGED <<events, stage, dlq>>,
         pc' = [pc EXCEPT ![w] = "idle"],
         msg' = [msg EXCEPT ![w] = NoCopy],
         disp' = [disp EXCEPT ![w] = "none"],
         phase' = [phase EXCEPT ![w] = "handle"]
  PROVE  History'
<1>1. Grows
  BY DEF Grows
<1>2. ASSUME NEW v \in Workers, pc'[v] # "idle" PROVE ToldAt(v)'
  BY <1>1, <1>2, ToldFrame DEF History, TypeOK, WorkerTypeOK
<1>3. Told' /\ EventOrder'
  BY <1>2 DEF Told, History, EventOrder
<1>4. QED
  BY <1>1, <1>3, GrowsKeeps DEF History

LEMMA SettleDeliveryHistory ==
  ASSUME ConstantsAssumption, TypeOK, Control, History, NEW w \in Workers,
         SettleDelivery(w)
  PROVE  History'
<1> USE DEF ActivePcs, Pcs, WorkPcs, FailPcs, StoredPcs, RetryPcs, SettlePcs
<1>1. CASE EmitRetrying(w)
  <2>1. Precedes("retrying") = {} /\ ToldBefore("requeue", disp[w], phase[w])
          \subseteq ToldBefore(pc[w], disp[w], phase[w])
    BY DEF Precedes, ToldBefore
  <2>2. ToldAt(w)
    BY <1>1 DEF EmitRetrying, History, Told
  <2>3. QED
    BY <1>1, <2>1, <2>2, AnnounceHistory DEF EmitRetrying, EventKinds, ToldAt
<1>2. CASE PublishRetry(w)
  <2>1. UNCHANGED <<events, stage, dlq>> /\ pc[w] # "idle" /\ ToldAt(w)
    BY <1>2 DEF PublishRetry, ledgerVars, History, Told
  <2>2. PICK p \in {"release", "ack", "nackRequeue"} : Goto(w, p)
    BY <1>2 DEF PublishRetry
  <2>3. ToldBefore(p, disp[w], phase[w]) \subseteq ToldBefore(pc[w], disp[w], phase[w])
    BY DEF ToldBefore
  <2>4. QED
    BY <2>1, <2>2, <2>3, QuietMoveHistory DEF ToldAt
<1>3. CASE ReleaseClaim(w)
  <2>1. pc[w] # "idle" /\ ToldAt(w)
    BY <1>3 DEF ReleaseClaim, History, Told
  <2>2. ToldBefore("ack", disp[w], phase[w]) \subseteq ToldBefore(pc[w], disp[w], phase[w])
    BY DEF ToldBefore
  <2>3. QED
    BY <1>3, <2>1, <2>2, PersistHistory DEF ReleaseClaim, ToldAt
<1>4. CASE CopyToDLQ(w)
  <2>1. /\ pc[w] = "deadLetter" /\ ToldAt(w) /\ ControlAt(w)
        /\ UNCHANGED <<events, stage>> /\ dlq' \in {dlq, dlq \union {Dep(w)}}
    BY <1>4 DEF CopyToDLQ, Broker!DeadLetter, ledgerVars, History, Told, Control
  <2>2. Dep(w) \in Malformed \/ Failed(Dep(w))
    BY <2>1 DEF ControlAt, ToldAt, ToldBefore, Failed, EventKinds, TypeOK, WorkerTypeOK
  <2>3. DeadLetterAnnounced'
    BY <2>1, <2>2 DEF History, DeadLetterAnnounced, Failed
  <2>4. PICK p \in {"ack", "nackDrop", "nackRequeue"} : Goto(w, p)
    BY <1>4 DEF CopyToDLQ
  <2>5. ToldBefore(p, disp[w], phase[w]) \subseteq ToldBefore(pc[w], disp[w], phase[w])
    BY DEF ToldBefore
  <2>6. Grows /\ EventOrder' /\ CompletedDeployed'
    BY <2>1 DEF Grows, History, EventOrder, CompletedDeployed
  <2>7. Told'
    BY <2>1, <2>4, <2>5, <2>6, GotoTold DEF History, ToldAt
  <2>8. QED
    BY <2>3, <2>6, <2>7 DEF History
<1>5. CASE Discard(w) \/ NackRequeue(w)
  BY <1>5, FinishHistory DEF Discard, NackRequeue, Finish, brokerVars, ledgerVars
<1>6. QED
  BY <1>1, <1>2, <1>3, <1>4, <1>5 DEF SettleDelivery

LEMMA HistoryStep ==
  ASSUME ConstantsAssumption, TypeOK, Control, History, [Next]_vars
  PROVE  History'
<1>1. CASE UNCHANGED <<pc, msg, disp, phase, events, stage, dlq>>
  <2>1. Grows
    BY <1>1 DEF Grows
  <2>2. Told' /\ EventOrder'
    BY <1>1, <2>1, ToldFrame DEF History, Told, EventOrder
  <2>3. QED
    BY <1>1, <2>1, <2>2, GrowsKeeps DEF History
<1>2. ASSUME NEW w \in Workers, Crash(w) PROVE History'
  BY <1>2, FinishHistory DEF Crash, ledgerVars
<1>3. QED
  BY <1>1, <1>2, HandleMessageHistory, SettleDeliveryHistory
     DEF Next, Work, Fault, Renew, Ledger!Renew, LeaseRunsOut, Ledger!Expire,
         RetryExpires, Broker!Expire, Republish, LeaseMissed, LoseConsumerChannel,
         LosePublisherChannel, LoseConnection, Quiet, vars, brokerVars,
         ledgerVars, workerVars

LEMMA InitHistory == ASSUME ConstantsAssumption, Init PROVE Control /\ History
<1>1. Control
  BY DEF Init, Control, ControlAt, CanSettle, WorkPcs, StoredPcs, RetryPcs
<1>2. Told /\ CompletedDeployed
  BY DEF Init, Told, CompletedDeployed, Ledger!LedgerInit
<1>3. EventOrder /\ DeadLetterAnnounced
  BY DEF Init, EventOrder, DeadLetterAnnounced, Broker!BrokerInit
<1>4. QED
  BY <1>1, <1>2, <1>3 DEF History

LEMMA ControlAndHistory ==
  ASSUME ConstantsAssumption PROVE Spec => [](TypeOK /\ Control /\ History)
<1>1. Init => TypeOK /\ Control /\ History
  BY InitType, InitHistory
<1>2. TypeOK /\ Control /\ History /\ [Next]_vars => (TypeOK /\ Control /\ History)'
  BY TypeStep, ControlStep, HistoryStep
<1>3. QED
  BY <1>1, <1>2, PTL DEF Spec

(* The events of a deployment come out in the order their consumers rely   *)
(* on, for any number of processes, retries and faults.                    *)
THEOREM EventsInOrder == ASSUME ConstantsAssumption PROVE Spec => []EventOrder
<1>1. TypeOK /\ Control /\ History => EventOrder
  BY DEF History
<1>2. QED
  BY <1>1, ControlAndHistory, PTL

(* A build reaches the dead-letter queue only after both failure events.   *)
THEOREM DeadLettersAnnounced ==
  ASSUME ConstantsAssumption PROVE Spec => []DeadLetterAnnounced
<1>1. TypeOK /\ Control /\ History => DeadLetterAnnounced
  BY DEF History
<1>2. QED
  BY <1>1, ControlAndHistory, PTL

-----------------------------------------------------------------------------
(* No build is forgotten.  Covered is NeverForgotten for one deployment.   *)

Covered(d) ==
    Settled(d) \/ Parked(d) \/ Queued(d) \/ \E w \in Workers : Carries(w, d)

(* Copies only come. *)
QueuesGrow == \A d \in Deployments : Queued(d) => Queued(d)'

LEMMA ReturnQueues ==
  ASSUME TypeOK, NEW m \in Broker!Copies, Broker!Return(m), UNCHANGED retry
  PROVE  Queued(m[1])' /\ QueuesGrow
<1>1. ready' = [ready EXCEPT ![m] = @ + 1] /\ ready \in [Broker!Copies -> Nat]
  BY DEF Broker!Return, TypeOK, Broker!BrokerTypeOK
<1>2. ready'[m] > 0
  BY <1>1
<1>3. Queued(m[1])'
  BY <1>2 DEF Queued, Broker!Copies, Broker!Attempts
<1>4. ASSUME NEW n \in Broker!Copies, ready[n] > 0 PROVE ready'[n] > 0
  BY <1>1, <1>4
<1>5. ASSUME NEW d \in Deployments, Queued(d) PROVE Queued(d)'
  <2>1. PICK n \in Broker!Copies : n[1] = d /\ (ready[n] > 0 \/ retry[n] > 0)
    BY <1>5 DEF Queued
  <2>2. ready'[n] > 0 \/ retry'[n] > 0
    BY <1>4, <2>1
  <2>3. QED
    BY <2>1, <2>2 DEF Queued, Broker!Copies, Broker!Attempts
<1>6. QED
  BY <1>3, <1>5 DEF QueuesGrow

(* The retry queue scheduleRetry chooses is always a declared one.         *)
LEMMA RetryQueueDeclared ==
  ASSUME ConstantsAssumption, NEW a \in Nat
  PROVE  Broker!RetryQueue(a) \in Broker!DeclaredRetryQueues
  BY DEF ConstantsAssumption, Broker!RetryQueue, Broker!DeclaredRetryQueues

LEMMA DelayQueues ==
  ASSUME ConstantsAssumption, TypeOK, NEW m \in Broker!Copies, Broker!Delay(m),
         UNCHANGED ready
  PROVE  Queued(m[1])' /\ QueuesGrow
<1>1. retry' = [retry EXCEPT ![m] = @ + 1]
  <2>1. m[2] \in Nat
    BY DEF Broker!Copies, Broker!Attempts, ConstantsAssumption
  <2>2. QED
    BY <2>1, RetryQueueDeclared DEF Broker!Delay
<1>2. retry'[m] > 0 /\ \A n \in Broker!Copies : retry[n] > 0 => retry'[n] > 0
  BY <1>1 DEF TypeOK, Broker!BrokerTypeOK
<1>3. QED
  BY <1>2 DEF QueuesGrow, Queued, Broker!Copies, Broker!Attempts

(* Only the worker that moves can give a build away. *)
LEMMA CoverFrame ==
  ASSUME ConstantsAssumption, TypeOK, NeverForgotten, Grows, QueuesGrow,
         NEW w \in Workers,
         \A v \in Workers \ {w} :
            pc'[v] = pc[v] /\ msg'[v] = msg[v] /\ link'[v] = link[v],
         \A d \in WellFormed : Carries(w, d) => Covered(d)'
  PROVE  NeverForgotten'
<1>1. ASSUME NEW d \in WellFormed PROVE Covered(d)'
  <2>1. d \in Deployments /\ Covered(d)
    BY DEF WellFormed, NeverForgotten, Covered
  <2>2. CASE Settled(d) \/ Parked(d)
    BY <2>1, <2>2 DEF Grows, Covered, Settled, Succeeded, Failed, Parked
  <2>3. CASE Queued(d)
    BY <2>1, <2>3 DEF QueuesGrow, Covered
  <2>4. CASE \E v \in Workers : Carries(v, d)
    <3>1. PICK v \in Workers : Carries(v, d)
      BY <2>4
    <3>2. CASE v = w
      BY <3>1, <3>2
    <3>3. CASE v # w
      <4>1. Carries(v, d)'
        BY <3>1, <3>3 DEF Carries, Processing, CanSettle, Dep
      <4>2. QED
        BY <4>1 DEF Covered
    <3>4. QED
      BY <3>2, <3>3
  <2>5. QED
    BY <2>1, <2>2, <2>3, <2>4 DEF Covered
<1>2. QED
  BY <1>1 DEF NeverForgotten, Covered, WellFormed

(* A worker keeps the build it carries until a call gives it away. *)
HoldingPcs == ActivePcs \ {"release", "ack", "nackDrop"}

LEMMA HoldingCovers ==
  ASSUME TypeOK, NEW w \in Workers, NEW d, Carries(w, d),
         Moves(w), pc'[w] \in HoldingPcs
  PROVE  Covered(d)'
<1>1. Carries(w, d)'
  BY DEF Carries, Processing, CanSettle, Dep, Moves, HoldingPcs, ActivePcs
<1>2. QED
  BY <1>1 DEF Covered

LEMMA GiveUpHolds ==
  ASSUME TypeOK, NEW w \in Workers, GiveUp(w)
  PROVE  Moves(w) /\ pc'[w] \in HoldingPcs
<1>1. pc'[w] \in {"fail", "retrying", "nackRequeue"}
  BY DEF GiveUp, ScheduleRetry, Goto, RetryEntry, TypeOK, WorkerTypeOK
<1>2. QED
  BY <1>1, GiveUpMoves DEF HoldingPcs, ActivePcs, Pcs, FailPcs, RetryPcs, SettlePcs

LEMMA GotoHolds ==
  ASSUME TypeOK, NEW w \in Workers, NEW p \in HoldingPcs, Goto(w, p)
  PROVE  Moves(w) /\ pc'[w] \in HoldingPcs
<1>1. p \in ActivePcs /\ pc'[w] = p
  BY DEF HoldingPcs, Goto, TypeOK, WorkerTypeOK
<1>2. QED
  BY <1>1, GotoMoves

(* A worker that moves and leaves the queues alone keeps NeverForgotten,   *)
(* unless it gives its build away before that is settled or parked.        *)
LEMMA MoveCovers ==
  ASSUME ConstantsAssumption, TypeOK, NeverForgotten, Grows,
         UNCHANGED <<ready, retry>>,
         NEW w \in Workers, Moves(w),
         \/ pc'[w] \in HoldingPcs
         \/ \A d \in WellFormed : Carries(w, d) => Settled(d)' \/ Parked(d)'
  PROVE  NeverForgotten'
<1>1. QueuesGrow
  BY DEF QueuesGrow, Queued, Broker!Copies, Broker!Attempts
<1>2. \A v \in Workers \ {w} :
         pc'[v] = pc[v] /\ msg'[v] = msg[v] /\ link'[v] = link[v]
  BY DEF Moves, TypeOK, WorkerTypeOK
<1>3. ASSUME NEW d \in WellFormed, Carries(w, d) PROVE Covered(d)'
  <2>1. CASE pc'[w] \in HoldingPcs
    BY <1>3, <2>1, HoldingCovers
  <2>2. CASE Settled(d)' \/ Parked(d)'
    BY <2>2 DEF Covered
  <2>3. QED
    BY <1>3, <2>1, <2>2
<1>4. QED
  BY <1>1, <1>2, <1>3, CoverFrame

LEMMA AnnounceCovers ==
  ASSUME ConstantsAssumption, TypeOK, NeverForgotten, NEW w \in Workers,
         pc[w] # "idle", NEW k \in EventKinds, NEW p \in ActivePcs,
         Announce(w, k, p),
         \/ p \in HoldingPcs
         \/ k = "pending"
         \/ k = "running" /\ "succeeded" \in events[Dep(w)]
         \/ k = "orchFailed" /\ "deployFailed" \in events[Dep(w)]
  PROVE  NeverForgotten'
<1>1. Dep(w) \in Deployments /\ UNCHANGED <<ready, retry>>
  BY DeliveryType DEF Announce, brokerVars
<1>2. Grows
  BY <1>1, TellGrows DEF Announce, Grows
<1>3. CASE GiveUp(w)
  BY <1>1, <1>2, <1>3, GiveUpHolds, MoveCovers
<1>4. CASE Tell(Dep(w), k) /\ Goto(w, p)
  <2>1. CASE p \in HoldingPcs
    BY <1>1, <1>2, <1>4, <2>1, GotoHolds, MoveCovers
  <2>2. CASE p \notin HoldingPcs
    <3>1. events'[Dep(w)] = events[Dep(w)] \union {k}
      BY <1>1, <1>4 DEF Tell, TypeOK
    <3>2. ASSUME NEW d \in WellFormed, Carries(w, d)
          PROVE  Settled(d)' \/ Parked(d)'
      <4>1. d = Dep(w)
        BY <3>2 DEF Carries, Processing
      <4>2. events'[d] = events[d] \union {k}
        BY <3>1, <4>1
      <4>3. QED
        BY <2>2, <4>1, <4>2 DEF Settled, Succeeded, Failed, Parked
    <3>3. Moves(w)
      BY <1>4, GotoMoves
    <3>4. QED
      BY <1>1, <1>2, <3>2, <3>3, MoveCovers
  <2>3. QED
    BY <2>1, <2>2
<1>5. QED
  BY <1>3, <1>4 DEF Announce

LEMMA HandleMessageCovers ==
  ASSUME ConstantsAssumption, TypeOK, Control, History, NeverForgotten,
         NEW w \in Workers, HandleMessage(w)
  PROVE  NeverForgotten'
<1> USE DEF HoldingPcs, ActivePcs, Pcs, WorkPcs, FailPcs, StoredPcs, RetryPcs,
        SettlePcs, EventKinds
<1>1. CASE Receive(w)
  <2>1. PICK m \in Broker!Copies :
           /\ ready' = [ready EXCEPT ![m] = @ - 1]
           /\ msg' = [msg EXCEPT ![w] = m]
           /\ pc' = [pc EXCEPT ![w] = IF m[1] \in Malformed
                                      THEN "deadLetter" ELSE "claim"]
    BY <1>1 DEF Receive, Broker!Take
  <2>2. UNCHANGED <<retry, events, link>> /\ CanSettle(w) /\ pc[w] = "idle"
    BY <1>1 DEF Receive, Control, ControlAt
  <2>3. msg'[w] = m /\ pc'[w] \in {"deadLetter", "claim"}
    BY <2>1 DEF TypeOK, WorkerTypeOK
  <2>4. ASSUME NEW d \in WellFormed PROVE Covered(d)'
    <3>1. CASE m[1] = d
      <4>1. Carries(w, d)'
        BY <2>2, <2>3, <3>1 DEF Carries, Processing, Dep, CanSettle
      <4>2. QED
        BY <4>1 DEF Covered
    <3>2. CASE m[1] # d
      <4>1. Queued(d) => Queued(d)'
        BY <2>1, <2>2, <3>2 DEF Queued, TypeOK, Broker!BrokerTypeOK,
           Broker!Copies, Broker!Attempts
      <4>2. \A v \in Workers : Carries(v, d) => Carries(v, d)'
        BY <2>1, <2>2 DEF Carries, Processing, CanSettle, Dep, TypeOK, WorkerTypeOK
      <4>3. Settled(d)' = Settled(d) /\ Parked(d)' = Parked(d)
        BY <2>2 DEF Settled, Succeeded, Failed, Parked
      <4>4. Covered(d)
        BY DEF NeverForgotten, Covered
      <4>5. QED
        BY <4>1, <4>2, <4>3, <4>4 DEF Covered
    <3>3. QED
      BY <3>1, <3>2
  <2>5. QED
    BY <2>4 DEF NeverForgotten, Covered, WellFormed
<1>2. CASE Claim(w)
  <2>1. UNCHANGED <<ready, retry, events>>
    BY <1>2 DEF Claim, brokerVars
  <2>2. pc'[w] \in HoldingPcs /\ msg' = msg /\ link' = link
        /\ \A v \in Workers \ {w} : pc'[v] = pc[v]
    <3>1. CASE GiveUp(w)
      BY <3>1, GiveUpHolds DEF Moves, TypeOK, WorkerTypeOK
    <3>2. CASE ClaimAnswered(w)
      <4>1. \E p \in {"started", "fail", "retrying", "requeue", "storedService"} :
               pc' = [pc EXCEPT ![w] = p]
        BY <3>2 DEF ClaimAnswered, RetryEntry
      <4>2. QED
        BY <3>2, <4>1 DEF ClaimAnswered, TypeOK, WorkerTypeOK
    <3>3. QED
      BY <1>2, <3>1, <3>2 DEF Claim
  <2>3. \A d \in WellFormed : Carries(w, d) => Covered(d)'
    BY <2>2 DEF Carries, Processing, CanSettle, Dep, Covered
  <2>4. Grows /\ QueuesGrow
    BY <2>1 DEF Grows, QueuesGrow, Queued, Broker!Copies, Broker!Attempts
  <2>5. QED
    BY <2>2, <2>3, <2>4, CoverFrame
<1>3. CASE \/ AnnounceStarted(w) \/ AnnounceDeployed(w) \/ AnnouncePending(w)
           \/ AnnounceSucceeded(w) \/ AnnounceRunning(w)
           \/ AnnounceDeployFailed(w) \/ AnnounceFailed(w)
           \/ ReplayService(w) \/ ReplayProgress(w)
  <2>1. ToldAt(w) /\ ControlAt(w) /\ pc[w] # "idle"
    BY <1>3 DEF AnnounceStarted, AnnounceDeployed, AnnouncePending,
       AnnounceSucceeded, AnnounceRunning, AnnounceDeployFailed, AnnounceFailed,
       ReplayService, ReplayProgress, History, Told, Control
  <2>2. /\ pc[w] = "running" => "succeeded" \in events[Dep(w)]
        /\ pc[w] = "orchFailed" => "deployFailed" \in events[Dep(w)]
        /\ pc[w] = "storedProgress" => StoredServiceEvent(w) \in events[Dep(w)]
    BY <2>1 DEF ToldAt, ToldBefore, StoredServiceEvent, ControlAt
  <2>3. QED
    BY <1>3, <2>1, <2>2, AnnounceCovers DEF AnnounceStarted, AnnounceDeployed,
       AnnouncePending, AnnounceSucceeded, AnnounceRunning, AnnounceDeployFailed,
       AnnounceFailed, ReplayService, ReplayProgress, StoredServiceEvent,
       StoredProgressEvent
<1>4. CASE Deploy(w) \/ WaitForRollout(w) \/ LateCheck(w) \/ CompleteStage(w) \/ FailStage(w)
  <2>1. UNCHANGED <<ready, retry, events>>
    BY <1>4 DEF Deploy, WaitForRollout, LateCheck, CompleteStage, FailStage,
       Persist, brokerVars
  <2>2. GiveUp(w) \/ \E p \in HoldingPcs : Goto(w, p)
    BY <1>4 DEF Deploy, WaitForRollout, LateCheck, PublishRolloutSuccess,
       CompleteStage, FailStage, Persist
  <2>3. Moves(w) /\ pc'[w] \in HoldingPcs
    BY <2>2, GiveUpHolds, GotoHolds
  <2>4. Grows
    BY <2>1 DEF Grows
  <2>5. QED
    BY <2>1, <2>3, <2>4, MoveCovers
<1>5. QED
  BY <1>1, <1>2, <1>3, <1>4 DEF HandleMessage

LEMMA SettleDeliveryCovers ==
  ASSUME ConstantsAssumption, TypeOK, Control, History, NeverForgotten,
         NEW w \in Workers, SettleDelivery(w)
  PROVE  NeverForgotten'
<1> USE DEF HoldingPcs, ActivePcs, Pcs, WorkPcs, FailPcs, StoredPcs, RetryPcs,
        SettlePcs
<1>1. CASE EmitRetrying(w)
  BY <1>1, AnnounceCovers DEF EmitRetrying, EventKinds
<1>2. CASE PublishRetry(w)
  <2>1. RetryCopy(w) \in Broker!Copies /\ RetryCopy(w)[1] = Dep(w)
    <3>1. pc[w] = "requeue" /\ ControlAt(w)
      BY <1>2 DEF PublishRetry, Control
    <3>2. Attempt(w, Counted(w)) \in Nat /\ Attempt(w, Counted(w)) < MaxAttempts
      BY <3>1, DeliveryType DEF ControlAt, Attempt
    <3>3. Dep(w) \in Deployments
      BY <3>1, DeliveryType
    <3>4. QED
      BY <3>2, <3>3 DEF RetryCopy, Broker!Copies, Broker!Attempts, ConstantsAssumption
  <2>2. UNCHANGED <<ready, events>>
    BY <1>2 DEF PublishRetry
  <2>3. Grows
    BY <2>2 DEF Grows
  <2>4. CASE Broker!Delay(RetryCopy(w))
    <3>0. PICK m \in Broker!Copies : m = RetryCopy(w) /\ m[1] = Dep(w)
      BY <2>1
    <3>1. Queued(m[1])' /\ QueuesGrow
      BY <2>2, <2>4, <3>0, DelayQueues
    <3>2. \A v \in Workers \ {w} :
             pc'[v] = pc[v] /\ msg'[v] = msg[v] /\ link'[v] = link[v]
      BY <1>2 DEF PublishRetry, Goto, TypeOK, WorkerTypeOK
    <3>3. ASSUME NEW d \in WellFormed, Carries(w, d) PROVE Covered(d)'
      <4>1. d = m[1]
        BY <3>0, <3>3 DEF Carries, Processing
      <4>2. QED
        BY <3>1, <4>1 DEF Covered
    <3>4. QED
      BY <2>3, <3>1, <3>2, <3>3, CoverFrame
  <2>5. CASE UNCHANGED retry /\ Goto(w, "nackRequeue")
    BY <2>2, <2>3, <2>5, GotoHolds, MoveCovers
  <2>6. QED
    BY <1>2, <2>4, <2>5 DEF PublishRetry
<1>3. CASE ReleaseClaim(w)
  <2>1. UNCHANGED <<ready, retry, events>> /\ pc[w] = "release"
    BY <1>3 DEF ReleaseClaim, Persist, brokerVars
  <2>2. Moves(w)
    BY <1>3, GiveUpMoves, GotoMoves DEF ReleaseClaim, Persist
  <2>3. \A d \in WellFormed : ~Carries(w, d)
    BY <2>1 DEF Carries
  <2>4. Grows
    BY <2>1 DEF Grows
  <2>5. QED
    BY <2>1, <2>2, <2>3, <2>4, MoveCovers
<1>4. CASE CopyToDLQ(w)
  <2>1. UNCHANGED <<ready, retry, events>> /\ pc[w] = "deadLetter"
        /\ ToldAt(w) /\ ControlAt(w)
    BY <1>4 DEF CopyToDLQ, History, Told, Control
  <2>2. Moves(w)
    BY <1>4, GotoMoves DEF CopyToDLQ
  <2>3. Dep(w) \in Malformed \/ Failed(Dep(w))
    BY <2>1 DEF ControlAt, ToldAt, ToldBefore, Failed, EventKinds, TypeOK, WorkerTypeOK
  <2>4. ASSUME NEW d \in WellFormed, Carries(w, d) PROVE Settled(d)'
    BY <2>1, <2>3, <2>4 DEF Carries, Processing, WellFormed, Settled, Succeeded, Failed
  <2>5. Grows
    BY <2>1 DEF Grows
  <2>6. QED
    BY <2>1, <2>2, <2>4, <2>5, MoveCovers
<1>5. CASE Discard(w) \/ NackRequeue(w)
  <2>1. /\ pc[w] \in {"ack", "nackDrop", "nackRequeue"}
        /\ UNCHANGED <<retry, events>>
        /\ pc' = [pc EXCEPT ![w] = "idle"]
        /\ msg' = [msg EXCEPT ![w] = NoCopy]
        /\ link' = [link EXCEPT ![w] = IF CanSettle(w) THEN @ ELSE "up"]
    BY <1>5 DEF Discard, NackRequeue, Finish, brokerVars
  <2>2. Grows /\ \A v \in Workers \ {w} :
             pc'[v] = pc[v] /\ msg'[v] = msg[v] /\ link'[v] = link[v]
    BY <2>1 DEF Grows, TypeOK, WorkerTypeOK
  <2>3. CASE Broker!Return(msg[w])
    <3>1. PICK m \in Broker!Copies : m = msg[w]
      BY <2>1, DeliveryType
    <3>2. Queued(m[1])' /\ QueuesGrow
      BY <2>1, <2>3, <3>1, ReturnQueues
    <3>3. ASSUME NEW d \in WellFormed, Carries(w, d) PROVE Covered(d)'
      <4>1. d = m[1]
        BY <3>1, <3>3 DEF Carries, Processing, Dep
      <4>2. QED
        BY <3>2, <4>1 DEF Covered
    <3>4. QED
      BY <2>2, <3>2, <3>3, CoverFrame
  <2>4. CASE UNCHANGED ready /\ (Discard(w) \/ ~CanSettle(w))
    <3>1. \A d \in WellFormed : ~Carries(w, d)
      BY <2>4 DEF Carries, Discard
    <3>2. QueuesGrow
      BY <2>1, <2>4 DEF QueuesGrow, Queued, Broker!Copies, Broker!Attempts
    <3>3. QED
      BY <2>2, <3>1, <3>2, CoverFrame
  <2>5. QED
    BY <1>5, <2>3, <2>4 DEF Discard, NackRequeue, brokerVars
<1>6. QED
  BY <1>1, <1>2, <1>3, <1>4, <1>5 DEF SettleDelivery

(* A worker that goes away leaves its delivery to the broker.              *)
LEMMA RequeuedCovers ==
  ASSUME ConstantsAssumption, TypeOK, NeverForgotten, UNCHANGED <<retry, events>>,
         NEW w \in Workers, pc[w] # "idle", Requeued(w),
         \A v \in Workers \ {w} :
            pc'[v] = pc[v] /\ msg'[v] = msg[v] /\ link'[v] = link[v]
  PROVE  NeverForgotten'
<1>1. Grows
  BY DEF Grows
<1>2. CASE CanSettle(w)
  <2>1. PICK m \in Broker!Copies : m = msg[w]
    BY DeliveryType
  <2>2. Queued(m[1])' /\ QueuesGrow
    BY <1>2, <2>1, ReturnQueues DEF Requeued
  <2>3. ASSUME NEW d \in WellFormed, Carries(w, d) PROVE Covered(d)'
    <3>1. d = m[1]
      BY <2>1, <2>3 DEF Carries, Processing, Dep
    <3>2. QED
      BY <2>2, <3>1 DEF Covered
  <2>4. QED
    BY <1>1, <2>2, <2>3, CoverFrame
<1>3. CASE ~CanSettle(w)
  <2>1. \A d \in WellFormed : ~Carries(w, d)
    BY <1>3 DEF Carries
  <2>2. QueuesGrow
    BY <1>3 DEF Requeued, QueuesGrow, Queued, Broker!Copies, Broker!Attempts
  <2>3. QED
    BY <1>1, <2>1, <2>2, CoverFrame
<1>4. QED
  BY <1>2, <1>3

(* A step that moves no worker keeps NeverForgotten if no queue loses a    *)
(* deployment.                                                             *)
LEMMA QueueStepCovers ==
  ASSUME ConstantsAssumption, TypeOK, NeverForgotten, QueuesGrow,
         UNCHANGED <<events, workerVars>>
  PROVE  NeverForgotten'
<1>1. ASSUME NEW d \in WellFormed PROVE Covered(d)'
  <2>1. Covered(d) /\ d \in Deployments
    BY DEF NeverForgotten, Covered, WellFormed
  <2>2. \A v \in Workers : Carries(v, d) => Carries(v, d)'
    BY DEF workerVars, Carries, Processing, CanSettle, Dep
  <2>3. QED
    BY <2>1, <2>2 DEF Covered, QueuesGrow, Settled, Succeeded, Failed, Parked
<1>2. QED
  BY <1>1 DEF NeverForgotten, Covered, WellFormed


LEMMA FaultCovers ==
  ASSUME ConstantsAssumption, TypeOK, NeverForgotten, Fault
  PROVE  NeverForgotten'
<1>1. ASSUME NEW d \in Deployments, Republish(d) PROVE NeverForgotten'
  <2>0. <<d, 0>> \in Broker!Copies
    BY DEF Broker!Copies, Broker!Attempts, ConstantsAssumption
  <2>1. PICK m \in Broker!Copies : m = <<d, 0>>
    BY <2>0
  <2>2. QueuesGrow
    BY <1>1, <2>1, ReturnQueues DEF Republish
  <2>3. QED
    BY <1>1, <2>2, QueueStepCovers DEF Republish
<1>2. ASSUME NEW d \in Deployments, LeaseMissed(d) PROVE NeverForgotten'
  <2>1. UNCHANGED <<ready, retry>>
    BY <1>2 DEF LeaseMissed, brokerVars
  <2>2. QueuesGrow
    BY <2>1 DEF QueuesGrow, Queued, Broker!Copies, Broker!Attempts
  <2>3. QED
    BY <1>2, <2>2, QueueStepCovers DEF LeaseMissed
<1>3. ASSUME NEW w \in Workers,
             Crash(w) \/ LoseConsumerChannel(w) \/ LoseConnection(w)
      PROVE  NeverForgotten'
  <2>1. pc[w] # "idle" /\ Requeued(w) /\ UNCHANGED <<retry, events>>
    BY <1>3 DEF Crash, LoseConsumerChannel, LoseConnection
  <2>2. \A v \in Workers \ {w} :
            pc'[v] = pc[v] /\ msg'[v] = msg[v] /\ link'[v] = link[v]
    BY <1>3 DEF Crash, LoseConsumerChannel, LoseConnection, TypeOK, WorkerTypeOK
  <2>3. QED
    BY <2>1, <2>2, RequeuedCovers
<1>4. ASSUME NEW w \in Workers, LosePublisherChannel(w) PROVE NeverForgotten'
  <2>1. UNCHANGED <<ready, retry, events, pc, msg>> /\ link'[w] = IF link[w] = "up" THEN "nopub" ELSE "down"
    BY <1>4 DEF LosePublisherChannel, brokerVars, TypeOK, WorkerTypeOK
  <2>2. CanSettle(w) => CanSettle(w)'
    BY <1>4, <2>1 DEF LosePublisherChannel, CanSettle, CanPublish
  <2>3. Grows /\ QueuesGrow
    BY <2>1 DEF Grows, QueuesGrow, Queued, Broker!Copies, Broker!Attempts
  <2>4. \A v \in Workers \ {w} :
            pc'[v] = pc[v] /\ msg'[v] = msg[v] /\ link'[v] = link[v]
    BY <1>4 DEF LosePublisherChannel, TypeOK, WorkerTypeOK
  <2>5. \A d \in WellFormed : Carries(w, d) => Covered(d)'
    BY <2>1, <2>2 DEF Carries, Processing, Dep, Covered
  <2>6. QED
    BY <2>3, <2>4, <2>5, CoverFrame
<1>5. QED
  BY <1>1, <1>2, <1>3, <1>4 DEF Fault

LEMMA CoverStep ==
  ASSUME ConstantsAssumption, TypeOK, Control, History, NeverForgotten, [Next]_vars
  PROVE  NeverForgotten'
<1>1. ASSUME UNCHANGED <<ready, retry, events, workerVars>> PROVE NeverForgotten'
  <2>1. QueuesGrow
    BY <1>1 DEF QueuesGrow, Queued, Broker!Copies, Broker!Attempts
  <2>2. QED
    BY <1>1, <2>1, QueueStepCovers
<1>2. ASSUME NEW m \in Broker!Copies, RetryExpires(m) PROVE NeverForgotten'
  <2>1. /\ ready' = [ready EXCEPT ![m] = @ + 1]
        /\ retry' = [retry EXCEPT ![m] = @ - 1]
        /\ ready \in [Broker!Copies -> Nat] /\ retry \in [Broker!Copies -> Nat]
    BY <1>2 DEF RetryExpires, Broker!Expire, Broker!Return, TypeOK, Broker!BrokerTypeOK
  <2>2. ASSUME NEW d \in Deployments, Queued(d) PROVE Queued(d)'
    <3>1. PICK n \in Broker!Copies : n[1] = d /\ (ready[n] > 0 \/ retry[n] > 0)
      BY <2>2 DEF Queued
    <3>2. ready'[n] > 0 \/ retry'[n] > 0
      BY <2>1, <3>1
    <3>3. QED
      BY <3>1, <3>2 DEF Queued, Broker!Copies, Broker!Attempts
  <2>3. QED
    BY <1>2, <2>2, QueueStepCovers DEF QueuesGrow, RetryExpires
<1>3. QED
  BY <1>1, <1>2, HandleMessageCovers, SettleDeliveryCovers, FaultCovers
     DEF Next, Work, Renew, LeaseRunsOut, Quiet, vars, brokerVars

(* Whatever strikes, a build request that has not been settled or parked   *)
(* is still in a queue or in the hands of a worker that will pass it on.   *)
THEOREM NothingForgotten == ASSUME ConstantsAssumption PROVE Spec => []NeverForgotten
<1>1. ConstantsAssumption /\ Init => NeverForgotten
  <2>1. ASSUME Init, NEW d \in WellFormed PROVE Queued(d)
    <3>1. <<d, 0>> \in Broker!Copies
      BY DEF Broker!Copies, Broker!Attempts, ConstantsAssumption, WellFormed
    <3>2. ready[<<d, 0>>] > 0
      BY <2>1, <3>1 DEF Init, Broker!BrokerInit
    <3>3. QED
      BY <3>1, <3>2 DEF Queued
  <2>2. QED
    BY <2>1 DEF NeverForgotten
<1>2. ConstantsAssumption /\ TypeOK /\ Control /\ History /\ NeverForgotten /\ [Next]_vars
        => NeverForgotten'
  BY CoverStep
<1>3. QED
  BY <1>1, <1>2, ControlAndHistory, PTL DEF Spec
=============================================================================

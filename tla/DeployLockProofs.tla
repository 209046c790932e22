-------------------------- MODULE DeployLockProofs --------------------------
(***************************************************************************)
(* What the ledger's lease guarantees.  While calls succeed (CallsSucceed) *)
(* events say what the row says, and the processes implement               *)
(* DeliveryPromise and LeaseLock: the inductive invariant is Locked.       *)
(* While only links fail (LinksMayFail) there is one driver per            *)
(* deployment, and what is over stays over: the inductive invariant is     *)
(* Guarded.  Both rest on the control facts of DeployConsumerProofs.       *)
(***************************************************************************)
EXTENDS DeployConsumerProofs

(* No worker but w moves. *)
Still(w) ==
    \A v \in Workers \ {w} :
        /\ pc'[v] = pc[v] /\ msg'[v] = msg[v] /\ disp'[v] = disp[v]
        /\ phase'[v] = phase[v] /\ link'[v] = link[v]

(* The step of TerminalSticky. *)
Sticky ==
    \A d \in Deployments :
        stage[d] \in Ledger!TerminalStates => stage'[d] = stage[d]

(* v relies on what the row of its deployment says. *)
Concerned(v) == AtWork(v) \/ disp[v] \in {"Completed", "Failed"}

LEMMA NoSuchFault ==
  ASSUME CallsSucceed
  PROVE  \A f \in {"pub", "db", "stall", "nopub", "link"} : ~Strike(f)
  BY DEF CallsSucceed, Strike

LEMMA AnnounceMade ==
  ASSUME CallsSucceed, NEW w \in Workers, LockAt(w), NEW k, NEW p, Announce(w, k, p)
  PROVE  Tell(Dep(w), k) /\ Goto(w, p) /\ UNCHANGED <<stage, leased>>
  BY NoSuchFault DEF Announce, Unconfirmed, Unsent, LockAt, ledgerVars

LEMMA PersistMade ==
  ASSUME CallsSucceed, NEW w \in Workers, NEW ACTION stmt, NEW p, Persist(w, stmt, p)
  PROVE  stmt /\ Goto(w, p) /\ UNCHANGED events
  BY NoSuchFault DEF Persist

LEMMA GotoStill ==
  ASSUME TypeOK, NEW w \in Workers, NEW p, Goto(w, p)
  PROVE  /\ Still(w) /\ pc'[w] = p
         /\ UNCHANGED <<msg, disp, phase, link>>
  BY DEF Goto, Still, TypeOK, WorkerTypeOK

(* The others keep their part of the invariant if the rows they rely on    *)
(* stay, or only have their lease renewed.                                 *)
LEMMA OthersLocked ==
  ASSUME TypeOK, NEW w, Still(w),
         \A v \in Workers : LockAt(v),
         \A v \in Workers \ {w} : Concerned(v) =>
            /\ stage'[Dep(v)] = stage[Dep(v)]
            /\ Dep(v) \in leased => Dep(v) \in leased'
  PROVE  \A v \in Workers \ {w} : LockAt(v)'
<1>1. ASSUME NEW v \in Workers \ {w} PROVE LockAt(v)'
  <2>1. /\ LockAt(v) /\ msg'[v] = msg[v] /\ pc'[v] = pc[v]
        /\ disp'[v] = disp[v] /\ link'[v] = link[v]
        /\ Concerned(v) => /\ stage'[msg[v][1]] = stage[msg[v][1]]
                           /\ msg[v][1] \in leased => msg[v][1] \in leased'
    BY DEF Still, Dep
  <2>2. CASE Concerned(v)
    BY <2>1, <2>2 DEF LockAt, Held, AtWork, CanPublish, Dep
  <2>3. CASE ~Concerned(v)
    BY <2>1, <2>3 DEF LockAt, Concerned, AtWork, CanPublish
  <2>4. QED
    BY <2>2, <2>3
<1>2. QED
  BY <1>1

LEMMA NoNewDriver ==
  ASSUME OneDriver, NEW w, Still(w),
         \A d \in Deployments : w \in Workers /\ Driving(w, d)' => Driving(w, d)
  PROVE  OneDriver'
<1>1. \A v \in Workers, d \in Deployments : Driving(v, d)' => Driving(v, d)
  BY DEF Still, Driving, Processing, AtWork, Dep
<1>2. QED
  BY <1>1 DEF OneDriver

LEMMA TellTruth ==
  ASSUME TypeOK, Truthful, UNCHANGED stage, NEW d \in Deployments, NEW k, Tell(d, k),
         k = "succeeded" => stage[d] = "COMPLETED",
         k = "deployFailed" => stage[d] = "FAILED"
  PROVE  Truthful'
  BY DEF TypeOK, Tell, Truthful

(* A step of w that leaves the ledger alone. *)
LEMMA LedgerUntouched ==
  ASSUME TypeOK, Locked, NEW w \in Workers, Still(w), UNCHANGED <<stage, leased>>,
         \A d \in Deployments : Driving(w, d)' => Driving(w, d),
         LockAt(w)', Truthful'
  PROVE  Locked' /\ Sticky
<1>1. \A v \in Workers \ {w} : LockAt(v)'
  BY OthersLocked DEF Locked
<1>2. OneDriver'
  BY NoNewDriver DEF Locked
<1>3. QED
  BY <1>1, <1>2 DEF Locked, Sticky

(* What the row says at call p of a driver. *)
Row(p) == CASE p \in {"succeeded", "running"} -> "COMPLETED"
            [] p \in {"deployFailed", "orchFailed", "deadLetter"} -> "FAILED"
            [] OTHER -> "IN_PROGRESS"

(* w goes on to a call that expects the same row, or ends its delivery. *)
LEMMA GotoLocked ==
  ASSUME TypeOK, Locked, NEW w \in Workers, pc[w] # "idle", NEW p, Goto(w, p),
         UNCHANGED <<stage, leased>>, Truthful',
         \/ p \in SettlePcs
         \/ AtWork(w) /\ Row(p) = Row(pc[w])
         \/ p = "storedProgress" /\ disp[w] \in {"Completed", "Failed"}
  PROVE  Locked' /\ Sticky
<1>1. Still(w) /\ pc'[w] = p /\ UNCHANGED <<msg, disp, phase, link>>
  BY GotoStill
<1>2. LockAt(w)
  BY DEF Locked
<1>3. LockAt(w)'
  <2>1. CASE p \in SettlePcs
    BY <1>1, <1>2, <2>1 DEF LockAt, AtWork, Dep, CanPublish
  <2>2. CASE AtWork(w) /\ Row(p) = Row(pc[w])
    <3>1. disp'[w] = "Acquired" /\ Held(w)
      BY <1>1, <1>2, <2>2 DEF LockAt, AtWork
    <3>2. Held(w)'
      BY <1>1, <2>2, <3>1 DEF Held, Row, Dep
    <3>3. QED
      BY <1>1, <1>2, <3>1, <3>2 DEF LockAt, CanPublish
  <2>3. CASE p = "storedProgress" /\ disp[w] \in {"Completed", "Failed"}
    BY <1>1, <1>2, <2>3 DEF LockAt, AtWork, Dep, CanPublish, StoredPcs
  <2>4. QED
    BY <2>1, <2>2, <2>3
<1>4. ASSUME NEW d \in Deployments, Driving(w, d)' PROVE Driving(w, d)
  BY <1>1, <1>4 DEF Driving, Processing, AtWork, Dep, SettlePcs
<1>5. QED
  BY <1>1, <1>3, <1>4, LedgerUntouched

(* The driver writes the row: nobody else relies on it.                    *)
LEMMA WriteLocked ==
  ASSUME ConstantsAssumption, TypeOK, Control, Locked,
         NEW w \in Workers, pc[w] # "idle",
         AtWork(w), Row(pc[w]) = "IN_PROGRESS", UNCHANGED events,
         NEW s, NEW p, Ledger!Write(Dep(w), s), Goto(w, p),
         \/ s = "COMPLETED" /\ p = "succeeded"
         \/ s = "FAILED" /\ p = "deployFailed"
         \/ s = "IN_PROGRESS" /\ p = "ack"
  PROVE  Locked' /\ Sticky
<1>1. Still(w) /\ pc'[w] = p /\ UNCHANGED <<msg, disp, phase, link>>
  BY GotoStill
<1>2. Dep(w) \in Deployments /\ LockAt(w) /\ stage[Dep(w)] = "IN_PROGRESS"
  BY DeliveryType DEF Locked, LockAt, Held, Row
<1>3. /\ stage' = [stage EXCEPT ![Dep(w)] = s]
      /\ stage \in [Deployments -> Ledger!StageStates]
      /\ leased' = leased \ {Dep(w)}
  BY <1>2 DEF Ledger!Write, TypeOK, Ledger!LedgerTypeOK
<1>4. ASSUME NEW v \in Workers \ {w}, Concerned(v)
      PROVE  Dep(v) # Dep(w) /\ Dep(v) \in Deployments
  <2>1. pc[v] # "idle" /\ LockAt(v)
    BY <1>4 DEF Locked, Concerned, AtWork, Control, ControlAt
  <2>2. CASE AtWork(v)
    <3>1. Dep(v) = Dep(w) => Driving(v, Dep(w)) /\ Driving(w, Dep(w))
      BY <2>1, <2>2 DEF Driving, Processing
    <3>2. Dep(v) # Dep(w)
      BY <1>2, <1>4, <3>1 DEF Locked, OneDriver
    <3>3. QED
      BY <2>1, <3>2, DeliveryType
  <2>3. CASE disp[v] \in {"Completed", "Failed"}
    <3>1. Dep(v) # Dep(w)
      BY <1>2, <2>1, <2>3 DEF LockAt
    <3>2. QED
      BY <2>1, <3>1, DeliveryType
  <2>4. QED
    BY <1>4, <2>2, <2>3 DEF Concerned
<1>5. \A v \in Workers \ {w} : LockAt(v)'
  BY <1>1, <1>3, <1>4, OthersLocked DEF Locked
<1>6. LockAt(w)'
  BY <1>1, <1>2, <1>3 DEF LockAt, AtWork, Held, Dep, CanPublish, SettlePcs
<1>7. OneDriver'
  BY <1>1, NoNewDriver DEF Locked, Driving, Processing, AtWork, Dep, SettlePcs
<1>8. Truthful'
  BY <1>2, <1>3 DEF Locked, Truthful
<1>9. Sticky
  BY <1>2, <1>3 DEF Sticky, Ledger!TerminalStates
<1>10. QED
  BY <1>5, <1>6, <1>7, <1>8, <1>9 DEF Locked

LEMMA AnnounceLocked ==
  ASSUME ConstantsAssumption, CallsSucceed, TypeOK, Locked, NEW w \in Workers,
         pc[w] # "idle", NEW k, NEW p, Announce(w, k, p),
         k = "succeeded" => stage[Dep(w)] = "COMPLETED",
         k = "deployFailed" => stage[Dep(w)] = "FAILED",
         \/ p \in SettlePcs
         \/ AtWork(w) /\ Row(p) = Row(pc[w])
         \/ p = "storedProgress" /\ disp[w] \in {"Completed", "Failed"}
  PROVE  Locked' /\ Sticky
<1>1. Tell(Dep(w), k) /\ Goto(w, p) /\ UNCHANGED <<stage, leased>>
  BY AnnounceMade DEF Locked
<1>2. Truthful'
  BY <1>1, TellTruth, DeliveryType DEF Locked
<1>3. QED
  BY <1>1, <1>2, GotoLocked

(* A retriable answer of the cluster: the driver gives the attempt up.     *)
LEMMA GiveUpLocked ==
  ASSUME ConstantsAssumption, TypeOK, Locked, NEW w \in Workers, pc[w] # "idle",
         AtWork(w), phase[w] = "handle", Row(pc[w]) = "IN_PROGRESS",
         GiveUp(w), UNCHANGED <<stage, leased, events>>
  PROVE  Locked' /\ Sticky
<1>1. PICK p \in {"fail", "retrying"} : pc' = [pc EXCEPT ![w] = p]
  BY DEF GiveUp, ScheduleRetry, RetryEntry
<1>2. /\ Still(w) /\ pc'[w] = p /\ UNCHANGED <<msg, disp, link>>
  BY <1>1 DEF GiveUp, ScheduleRetry, Still, TypeOK, WorkerTypeOK
<1>3. LockAt(w) /\ stage[Dep(w)] = "IN_PROGRESS" /\ Dep(w) \in leased
  BY DEF Locked, LockAt, Held, Row
<1>4. LockAt(w)'
  BY <1>2, <1>3 DEF LockAt, AtWork, Held, Dep, CanPublish
<1>5. Truthful'
  BY DEF Locked, Truthful
<1>6. \A d \in Deployments : Driving(w, d)' => Driving(w, d)
  BY <1>2 DEF Driving, Processing, AtWork, Dep
<1>7. QED
  BY <1>2, <1>4, <1>5, <1>6, LedgerUntouched

LEMMA ClaimLocked ==
  ASSUME ConstantsAssumption, CallsSucceed, TypeOK, Control, Locked,
         NEW w \in Workers, Claim(w)
  PROVE  Locked' /\ Sticky
<1>1. /\ pc[w] = "claim" /\ ClaimAnswered(w) /\ UNCHANGED events
      /\ disp[w] = "none" /\ LockAt(w)
  BY NoSuchFault DEF Claim, Control, ControlAt, Locked
<1>2. Dep(w) \in Deployments /\ msg[w][2] \in Nat /\ msg[w][2] < MaxAttempts
  BY <1>1, DeliveryType
<1> DEFINE answer == Ledger!Disposition(Dep(w))
<1>3. /\ disp' = [disp EXCEPT ![w] = answer]
      /\ pc' = [pc EXCEPT ![w] =
                   CASE answer = "Acquired" -> "started"
                     [] answer = "Busy" -> RetryEntry(w, FALSE)
                     [] OTHER -> "storedService"]
      /\ UNCHANGED <<msg, link>>
      /\ \A v \in Workers \ {w} : phase'[v] = phase[v]
  BY <1>1 DEF ClaimAnswered, TypeOK, WorkerTypeOK
<1>4. /\ Still(w) /\ disp'[w] = answer
      /\ pc'[w] = CASE answer = "Acquired" -> "started"
                    [] answer = "Busy" -> RetryEntry(w, FALSE)
                    [] OTHER -> "storedService"
  <2> HIDE DEF answer
  <2>1. QED
    BY <1>3 DEF Still, TypeOK, WorkerTypeOK
<1>5. stage \in [Deployments -> Ledger!StageStates] /\ leased \subseteq Deployments
  BY DEF TypeOK, Ledger!LedgerTypeOK
<1>6. CASE answer = "Acquired"
  <2>1. /\ stage' = [stage EXCEPT ![Dep(w)] = "IN_PROGRESS"]
        /\ leased' = leased \union {Dep(w)}
        /\ stage[Dep(w)] \notin {"COMPLETED", "FAILED"}
        /\ ~ (stage[Dep(w)] = "IN_PROGRESS" /\ Dep(w) \in leased)
    BY <1>1, <1>6 DEF ClaimAnswered, Ledger!Claim, Ledger!Disposition
  <2>2. pc'[w] = "started" /\ disp'[w] = "Acquired"
    BY <1>4, <1>6
  <2>3. ASSUME NEW v \in Workers \ {w}, Concerned(v)
        PROVE  Dep(v) # Dep(w) /\ Dep(v) \in Deployments
    <3>1. pc[v] # "idle" /\ LockAt(v)
      BY <2>3 DEF Locked, LockAt, Concerned, AtWork, Control, ControlAt
    <3>2. Dep(v) # Dep(w)
      BY <2>1, <2>3, <3>1 DEF Concerned, LockAt, Held
    <3>3. QED
      BY <3>1, <3>2, DeliveryType
  <2>4. \A v \in Workers \ {w} : LockAt(v)'
    BY <1>4, <1>5, <2>1, <2>3, OthersLocked DEF Locked
  <2>5. LockAt(w)'
    <3>1. stage'[Dep(w)] = "IN_PROGRESS" /\ Dep(w) \in leased' /\ Dep(w)' = Dep(w)
      BY <1>2, <1>3, <1>5, <2>1 DEF Dep
    <3>2. Held(w)'
      BY <2>2, <3>1 DEF Held
    <3>3. QED
      BY <1>1, <1>3, <2>2, <3>2 DEF LockAt, CanPublish
  <2>6. OneDriver'
    <3>1. ASSUME NEW v \in Workers \ {w}, NEW d \in Deployments, Driving(v, d)'
          PROVE  Driving(v, d) /\ d # Dep(w)
      <4>1. Driving(v, d)
        BY <1>4, <3>1 DEF Still, Driving, Processing, AtWork, Dep
      <4>2. QED
        BY <2>3, <4>1 DEF Driving, Processing, Concerned
    <3>2. \A d \in Deployments : Driving(w, d)' => d = Dep(w)
      BY <1>3 DEF Driving, Processing, Dep
    <3>3. QED
      BY <3>1, <3>2 DEF OneDriver, Locked
  <2>7. Truthful'
    BY <1>1, <1>5, <2>1 DEF Locked, Truthful
  <2>8. Sticky
    BY <1>5, <2>1 DEF Sticky, Ledger!TerminalStates
  <2>9. QED
    BY <2>4, <2>5, <2>6, <2>7, <2>8 DEF Locked
<1>7. CASE answer # "Acquired"
  <2>1. UNCHANGED <<stage, leased>>
    BY <1>1, <1>7 DEF ClaimAnswered, Ledger!Claim
  <2>2. /\ answer \in {"Busy", "Completed", "Failed"}
        /\ answer = "Completed" => stage[Dep(w)] = "COMPLETED"
        /\ answer = "Failed" => stage[Dep(w)] = "FAILED"
    BY <1>7 DEF Ledger!Disposition
  <2> HIDE DEF answer
  <2>3. pc'[w] = IF answer = "Busy" THEN "requeue" ELSE "storedService"
    BY <1>2, <1>4, <1>7, <2>2 DEF RetryEntry, Attempt
  <2>4. LockAt(w)'
    BY <1>1, <1>3, <1>4, <2>1, <2>2, <2>3 DEF LockAt, AtWork, CanPublish, Dep, StoredPcs
  <2>5. Truthful'
    BY <1>1, <2>1 DEF Locked, Truthful
  <2>6. \A d \in Deployments : Driving(w, d)' => Driving(w, d)
    BY <1>4, <2>2 DEF Driving, AtWork
  <2>7. QED
    BY <1>4, <2>1, <2>4, <2>5, <2>6, LedgerUntouched
<1>8. QED
  BY <1>6, <1>7


LEMMA HandleMessageLocked ==
  ASSUME ConstantsAssumption, CallsSucceed, TypeOK, Control, Locked,
         NEW w \in Workers, HandleMessage(w)
  PROVE  Locked' /\ Sticky
<1> USE DEF WorkPcs, StoredPcs, FailPcs, RetryPcs, SettlePcs
<1>0. ControlAt(w) /\ LockAt(w) /\ disp[w] \in Dispositions
  BY DEF Control, Locked, TypeOK, WorkerTypeOK
<1>1. CASE Receive(w)
  <2>1. /\ Still(w) /\ pc'[w] \in {"deadLetter", "claim"}
        /\ UNCHANGED <<stage, leased, events, disp, link>>
    BY <1>1 DEF Receive, Still, TypeOK, WorkerTypeOK, ledgerVars
  <2>2. disp[w] = "none"
    BY <1>0, <1>1 DEF Receive, ControlAt
  <2>3. LockAt(w)'
    BY <1>0, <2>1, <2>2 DEF LockAt, AtWork, CanPublish
  <2>4. Truthful'
    BY <2>1 DEF Locked, Truthful
  <2>5. \A d \in Deployments : Driving(w, d)' => Driving(w, d)
    BY <2>1, <2>2 DEF Driving, AtWork
  <2>6. QED
    BY <2>1, <2>3, <2>4, <2>5, LedgerUntouched
<1>2. CASE Claim(w)
  BY <1>2, ClaimLocked
<1>3. CASE \/ AnnounceStarted(w) \/ AnnounceDeployed(w) \/ AnnouncePending(w)
           \/ AnnounceSucceeded(w) \/ AnnounceRunning(w)
  <2>1. AtWork(w) /\ Held(w)
    BY <1>0, <1>3 DEF AnnounceStarted, AnnounceDeployed, AnnouncePending,
       AnnounceSucceeded, AnnounceRunning, ControlAt, LockAt, AtWork
  <2>2. pc[w] = "succeeded" => stage[Dep(w)] = "COMPLETED"
    BY <2>1 DEF Held
  <2>3. QED
    BY <1>3, <2>1, <2>2, AnnounceLocked DEF AnnounceStarted, AnnounceDeployed,
       AnnouncePending, AnnounceSucceeded, AnnounceRunning, Row
<1>4. CASE AnnounceDeployFailed(w) \/ AnnounceFailed(w)
  <2>1. AtWork(w) /\ Held(w)
    BY <1>0, <1>4 DEF AnnounceDeployFailed, AnnounceFailed, LockAt, AtWork, Dispositions
  <2>2. stage[Dep(w)] = "FAILED"
    BY <1>4, <2>1 DEF Held, AnnounceDeployFailed, AnnounceFailed
  <2>3. QED
    BY <1>4, <2>1, <2>2, AnnounceLocked DEF AnnounceDeployFailed, AnnounceFailed, Row
<1>5. CASE ReplayService(w) \/ ReplayProgress(w)
  <2>1. disp[w] \in {"Completed", "Failed"} /\ pc[w] # "idle"
    BY <1>0, <1>5 DEF ReplayService, ReplayProgress, ControlAt
  <2>2. disp[w] = "Completed" => stage[Dep(w)] = "COMPLETED"
    BY <1>0 DEF LockAt
  <2>3. disp[w] = "Failed" => stage[Dep(w)] = "FAILED"
    BY <1>0 DEF LockAt
  <2>4. QED
    BY <1>5, <2>1, <2>2, <2>3, AnnounceLocked DEF ReplayService, ReplayProgress,
       StoredServiceEvent, StoredProgressEvent
<1>6. CASE Deploy(w) \/ WaitForRollout(w) \/ LateCheck(w)
  <2>1. /\ AtWork(w) /\ pc[w] \in {"deploy", "rollout", "late"} /\ phase[w] = "handle"
        /\ UNCHANGED <<stage, leased, events>>
    BY <1>0, <1>6 DEF Deploy, WaitForRollout, LateCheck, ControlAt, AtWork, ledgerVars
  <2>2. Truthful'
    BY <2>1 DEF Locked, Truthful
  <2>3. \/ GiveUp(w)
        \/ \E p \in {"deployed", "fail", "complete", "late", "pending"} : Goto(w, p)
    BY <1>6 DEF Deploy, WaitForRollout, LateCheck, PublishRolloutSuccess
  <2>4. CASE GiveUp(w)
    BY <2>1, <2>4, GiveUpLocked DEF Row
  <2>5. ASSUME NEW p \in {"deployed", "fail", "complete", "late", "pending"}, Goto(w, p)
        PROVE  Locked' /\ Sticky
    BY <2>1, <2>2, <2>5, GotoLocked DEF Row
  <2>6. QED
    BY <2>3, <2>4, <2>5
<1>7. CASE CompleteStage(w)
  <2>1. /\ pc[w] = "complete" /\ UNCHANGED events
        /\ Ledger!Write(Dep(w), "COMPLETED") /\ Goto(w, "succeeded")
    BY <1>7, NoSuchFault DEF CompleteStage, Persist, Ledger!Complete
  <2>2. AtWork(w)
    BY <1>0, <2>1 DEF ControlAt, AtWork
  <2>3. QED
    BY <2>1, <2>2, WriteLocked DEF Row
<1>8. CASE FailStage(w)
  <2>1. /\ pc[w] = "fail" /\ UNCHANGED events
        /\ Ledger!Write(Dep(w), "FAILED") /\ Goto(w, "deployFailed")
    BY <1>8, NoSuchFault DEF FailStage, Persist, Ledger!Fail
  <2>2. AtWork(w)
    BY <1>0, <2>1 DEF LockAt, AtWork, Dispositions
  <2>3. QED
    BY <2>1, <2>2, WriteLocked DEF Row
<1>9. QED
  BY <1>1, <1>2, <1>3, <1>4, <1>5, <1>6, <1>7, <1>8 DEF HandleMessage

(* A worker without a granted claim steps: nobody relies on it.            *)
LEMMA IdleLocked ==
  ASSUME TypeOK, Locked, NEW w \in Workers, Still(w),
         UNCHANGED <<stage, leased, events>>, pc'[w] = "idle", disp'[w] = "none",
         CanPublish(w)'
  PROVE  Locked' /\ Sticky
<1>1. LockAt(w)'
  BY DEF LockAt, AtWork
<1>2. Truthful'
  BY DEF Locked, Truthful
<1>3. \A d \in Deployments : ~Driving(w, d)'
  BY DEF Driving, AtWork
<1>4. QED
  BY <1>1, <1>2, <1>3, LedgerUntouched

LEMMA SettleDeliveryLocked ==
  ASSUME ConstantsAssumption, CallsSucceed, TypeOK, Control, Locked,
         NEW w \in Workers, SettleDelivery(w)
  PROVE  Locked' /\ Sticky
<1> USE DEF SettlePcs, RetryPcs, StoredPcs
<1>0. LockAt(w) /\ disp[w] \in Dispositions
  BY DEF Locked, TypeOK, WorkerTypeOK
<1>1. CASE EmitRetrying(w)
  <2>1. AtWork(w)
    BY <1>0, <1>1 DEF EmitRetrying, LockAt, AtWork, Dispositions
  <2>2. QED
    BY <1>1, <2>1, AnnounceLocked DEF EmitRetrying, Row
<1>2. CASE PublishRetry(w)
  <2>1. /\ pc[w] = "requeue" /\ UNCHANGED <<stage, leased, events>>
        /\ Goto(w, IF Counted(w) THEN "release" ELSE "ack")
    BY <1>0, <1>2, NoSuchFault DEF PublishRetry, Unconfirmed, Unsent, LockAt, ledgerVars
  <2>2. Truthful'
    BY <2>1 DEF Locked, Truthful
  <2>3. CASE Counted(w)
    <3>1. AtWork(w)
      BY <1>0, <2>1, <2>3 DEF LockAt, AtWork, Dispositions, Counted
    <3>2. Goto(w, "release")
      BY <2>1, <2>3
    <3>3. QED
      BY <2>1, <2>2, <3>1, <3>2, GotoLocked DEF Row
  <2>4. CASE ~Counted(w)
    <3>1. Goto(w, "ack")
      BY <2>1, <2>4
    <3>2. QED
      BY <2>1, <2>2, <3>1, GotoLocked
  <2>5. QED
    BY <2>3, <2>4
<1>3. CASE ReleaseClaim(w)
  <2>1. /\ pc[w] = "release" /\ UNCHANGED events
        /\ Ledger!Write(Dep(w), "IN_PROGRESS") /\ Goto(w, "ack")
    BY <1>3, NoSuchFault DEF ReleaseClaim, Persist, Ledger!Release
  <2>2. AtWork(w)
    BY <1>0, <2>1 DEF LockAt, AtWork, Dispositions
  <2>3. QED
    BY <2>1, <2>2, WriteLocked DEF Row
<1>4. CASE CopyToDLQ(w)
  <2>1. /\ pc[w] = "deadLetter" /\ UNCHANGED <<stage, leased, events>>
        /\ Goto(w, "ack")
    BY <1>0, <1>4, NoSuchFault DEF CopyToDLQ, Unconfirmed, Unsent, LockAt, ledgerVars
  <2>2. Truthful'
    BY <2>1 DEF Locked, Truthful
  <2>3. QED
    BY <2>1, <2>2, GotoLocked
<1>5. CASE Discard(w) \/ NackRequeue(w)
  <2>1. Finish(w) /\ UNCHANGED <<stage, leased, events>>
    BY <1>5 DEF Discard, NackRequeue, ledgerVars
  <2>2. Still(w) /\ pc'[w] = "idle" /\ disp'[w] = "none" /\ link'[w] \in {link[w], "up"}
    BY <2>1 DEF Finish, Still, TypeOK, WorkerTypeOK
  <2>3. CanPublish(w)'
    BY <1>0, <2>2 DEF LockAt, CanPublish
  <2>4. QED
    BY <2>1, <2>2, <2>3, IdleLocked
<1>6. QED
  BY <1>1, <1>2, <1>3, <1>4, <1>5 DEF SettleDelivery

LEMMA FaultLocked ==
  ASSUME ConstantsAssumption, CallsSucceed, TypeOK, Control, Locked, Fault
  PROVE  Locked' /\ Sticky
<1>1. ASSUME NEW d \in Deployments, Republish(d) PROVE Locked' /\ Sticky
  <2>1. UNCHANGED <<stage, leased, events, pc, msg, disp, link>>
    BY <1>1 DEF Republish, ledgerVars, workerVars
  <2>2. QED
    BY <2>1 DEF Locked, OneDriver, Driving, Processing, AtWork, Truthful, LockAt,
       Held, Dep, CanPublish, Sticky
<1>2. ASSUME NEW w \in Workers, Crash(w) PROVE Locked' /\ Sticky
  <2>1. Still(w) /\ pc'[w] = "idle" /\ disp'[w] = "none" /\ link'[w] = "up"
        /\ UNCHANGED <<stage, leased, events>>
    BY <1>2 DEF Crash, Still, TypeOK, WorkerTypeOK, ledgerVars
  <2>2. QED
    BY <2>1, IdleLocked DEF CanPublish
<1>3. ASSUME NEW w \in Workers, LoseConsumerChannel(w) PROVE Locked' /\ Sticky
  <2>1. /\ Still(w) /\ UNCHANGED <<stage, leased, events, pc, msg, disp, phase>>
        /\ link'[w] = IF link[w] = "up" THEN "noack" ELSE "down"
        /\ CanSettle(w)
    BY <1>3 DEF LoseConsumerChannel, Still, TypeOK, WorkerTypeOK, ledgerVars
  <2>2. LockAt(w) /\ link'[w] = "noack"
    BY <2>1 DEF Locked, LockAt, CanPublish, CanSettle
  <2>3. LockAt(w)'
    BY <2>1, <2>2 DEF LockAt, AtWork, Held, Dep, CanPublish
  <2>4. Truthful'
    BY <2>1 DEF Locked, Truthful
  <2>5. \A d \in Deployments : Driving(w, d)' => Driving(w, d)
    BY <2>1 DEF Driving, Processing, AtWork, Dep
  <2>6. QED
    BY <2>1, <2>3, <2>4, <2>5, LedgerUntouched
<1>4. QED
  BY <1>1, <1>2, <1>3, NoSuchFault DEF Fault, LeaseMissed, LosePublisherChannel,
     LoseConnection

(* A step that moves no worker and writes no row.                          *)
LEMMA LeaseStepLocked ==
  ASSUME TypeOK, Locked, UNCHANGED <<stage, events, workerVars>>,
         \A w \in Workers : AtWork(w) /\ Dep(w) \in leased => Dep(w) \in leased'
  PROVE  Locked' /\ Sticky
<1>1. \A w \in Workers : LockAt(w)'
  BY DEF Locked, LockAt, Held, AtWork, Dep, CanPublish, workerVars
<1>2. OneDriver' /\ Truthful'
  BY DEF Locked, OneDriver, Truthful, Driving, Processing, AtWork, Dep, workerVars
<1>3. QED
  BY <1>1, <1>2 DEF Locked, Sticky

LEMMA LockStep ==
  ASSUME ConstantsAssumption, CallsSucceed, TypeOK, Control, Locked, [Next]_vars
  PROVE  Locked' /\ Sticky
<1>1. ASSUME UNCHANGED <<stage, leased, events, workerVars>> PROVE Locked' /\ Sticky
  BY <1>1, LeaseStepLocked
<1>2. ASSUME NEW w \in Workers, Renew(w) PROVE Locked' /\ Sticky
  BY <1>2, LeaseStepLocked DEF Renew, Ledger!Renew
<1>3. ASSUME NEW d \in Deployments, LeaseRunsOut(d) PROVE Locked' /\ Sticky
  BY <1>3, LeaseStepLocked DEF LeaseRunsOut, Ledger!Expire
<1>4. QED
  BY <1>1, <1>2, <1>3, HandleMessageLocked, SettleDeliveryLocked, FaultLocked
     DEF Next, Work, RetryExpires, Quiet, vars, ledgerVars

LEMMA LockInvariant ==
  ASSUME ConstantsAssumption, CallsSucceed
  PROVE  Spec => [](TypeOK /\ Control /\ Locked)
<1>1. Init => Locked
  BY DEF Init, Locked, OneDriver, Truthful, LockAt, Driving, Processing, AtWork,
     CanPublish, SettlePcs
<1>2. TypeOK /\ Control /\ Locked /\ [Next]_vars => Locked'
  BY LockStep
<1>3. QED
  BY <1>1, <1>2, ControlAndHistory, PTL DEF Spec

(* While calls succeed, what was announced is what the row says.           *)
THEOREM EventsAreTrue ==
  ASSUME ConstantsAssumption, CallsSucceed PROVE Spec => []Truthful
<1>1. Locked => Truthful
  BY DEF Locked
<1>2. QED
  BY <1>1, LockInvariant, PTL

(* While calls succeed, nobody hears of both a success and a failure.      *)
THEOREM OutcomesAgree ==
  ASSUME ConstantsAssumption, CallsSucceed PROVE Spec => []OneOutcome
<1>1. Locked => OneOutcome
  BY DEF Locked, Truthful, OneOutcome
<1>2. QED
  BY <1>1, LockInvariant, PTL

(* While calls succeed, no step changes the row of a finished deployment.  *)
THEOREM FinishedStays ==
  ASSUME ConstantsAssumption, CallsSucceed PROVE Spec => TerminalSticky
<1>1. TypeOK /\ Control /\ Locked /\ [Next]_vars
        => [\A d \in Deployments :
              stage[d] \in Ledger!TerminalStates => stage'[d] = stage[d]]_vars
  BY LockStep DEF Sticky
<1>2. QED
  BY <1>1, LockInvariant, PTL DEF Spec, TerminalSticky
-----------------------------------------------------------------------------
(* DeployConsumer implements DeliveryPromise while calls succeed: every    *)
(* step is one announcement or one decision of the abstract specification, *)
(* or it changes neither what was told nor the outcome.  Control and       *)
(* History say what has been told by a given call, Locked what the row     *)
(* says.                                                                   *)
PromiseStep == [Promise!Next]_<<events, Outcome>>

LEMMA OutcomeFollowsStage ==
  ASSUME UNCHANGED stage
  PROVE  UNCHANGED Outcome
  BY DEF Outcome

LEMMA Unheard ==
  ASSUME UNCHANGED <<events, stage>>
  PROVE  PromiseStep
  BY OutcomeFollowsStage DEF PromiseStep

(* An event that fits the row and comes in its turn. *)
LEMMA Heard ==
  ASSUME NEW d \in Deployments, NEW k \in EventKinds, Tell(d, k), UNCHANGED stage,
         Outcome[d] = Promise!SpeaksOf(k), Promise!Before(k) \subseteq events[d]
  PROVE  PromiseStep
<1>1. Promise!Announce(d, k)
  BY OutcomeFollowsStage DEF Tell, Promise!Announce
<1>2. k \in Promise!Kinds
  BY DEF EventKinds, Promise!Kinds
<1>3. QED
  BY <1>1, <1>2 DEF PromiseStep, Promise!Next

(* The write that ends a stage decides the outcome. *)
LEMMA Decided ==
  ASSUME TypeOK, NEW d \in Deployments, stage[d] = "IN_PROGRESS", UNCHANGED events,
         \/ Ledger!Write(d, "COMPLETED") /\ "deployed" \in events[d]
         \/ Ledger!Write(d, "FAILED")
  PROVE  PromiseStep
<1>1. PICK s \in {"COMPLETED", "FAILED"} :
        /\ stage' = [stage EXCEPT ![d] = s]
        /\ s = "COMPLETED" => "deployed" \in events[d]
  BY DEF Ledger!Write
<1>2. stage \in [Deployments -> Ledger!StageStates]
  BY DEF TypeOK, Ledger!LedgerTypeOK
<1>3. Outcome[d] = "open"
  BY DEF Outcome
<1>4. Outcome' = [Outcome EXCEPT ![d] = IF s = "COMPLETED" THEN "succeeded" ELSE "failed"]
  BY <1>1, <1>2 DEF Outcome
<1>5. Promise!Succeed(d) \/ Promise!Fail(d)
  BY <1>1, <1>3, <1>4 DEF Promise!Succeed, Promise!Fail
<1>6. QED
  BY <1>5 DEF PromiseStep, Promise!Next

(* A write that leaves an open deployment open. *)
LEMMA StillOpen ==
  ASSUME TypeOK, NEW d \in Deployments, UNCHANGED events,
         \/ stage[d] = "IN_PROGRESS" /\ Ledger!Write(d, "IN_PROGRESS")
         \/ Ledger!Claim(d)
  PROVE  PromiseStep
<1>1. \/ UNCHANGED stage
      \/ /\ stage' = [stage EXCEPT ![d] = "IN_PROGRESS"]
         /\ stage[d] \notin {"COMPLETED", "FAILED"}
  BY DEF Ledger!Write, Ledger!Claim, Ledger!Disposition
<1>2. stage \in [Deployments -> Ledger!StageStates]
  BY DEF TypeOK, Ledger!LedgerTypeOK
<1>3. UNCHANGED Outcome
  BY <1>1, <1>2 DEF Outcome
<1>4. QED
  BY <1>3 DEF PromiseStep

(* The announcements of a worker, given that they fit. *)
LEMMA AnnounceHeard ==
  ASSUME ConstantsAssumption, CallsSucceed, TypeOK, Locked, NEW w \in Workers,
         pc[w] # "idle", NEW k \in EventKinds, NEW p, Announce(w, k, p),
         Outcome[Dep(w)] = Promise!SpeaksOf(k),
         Promise!Before(k) \subseteq events[Dep(w)]
  PROVE  PromiseStep
<1>1. Tell(Dep(w), k) /\ UNCHANGED stage
  BY AnnounceMade DEF Locked
<1>2. Dep(w) \in Deployments
  BY DeliveryType
<1>3. QED
  BY <1>1, <1>2, Heard

LEMMA HandleMessageHeard ==
  ASSUME ConstantsAssumption, CallsSucceed, TypeOK, Control, History, Locked,
         NEW w \in Workers, HandleMessage(w)
  PROVE  PromiseStep
<1> USE DEF WorkPcs, StoredPcs, FailPcs, EventKinds
<1>0. ControlAt(w) /\ LockAt(w) /\ disp[w] \in Dispositions
  BY DEF Control, Locked, TypeOK, WorkerTypeOK
<1>1. CASE Receive(w)
  BY <1>1, Unheard DEF Receive, ledgerVars
<1>2. SUFFICES ASSUME ~Receive(w) PROVE PromiseStep
  BY <1>1
<1>3. pc[w] # "idle"
  BY <1>2 DEF HandleMessage, Claim, AnnounceStarted, Deploy, AnnounceDeployed,
     WaitForRollout, LateCheck, AnnouncePending, CompleteStage, AnnounceSucceeded,
     AnnounceRunning, FailStage, AnnounceDeployFailed, AnnounceFailed,
     ReplayService, ReplayProgress
<1>4. /\ Dep(w) \in Deployments
      /\ ToldBefore(pc[w], disp[w], phase[w]) \subseteq events[Dep(w)]
  BY <1>3, DeliveryType DEF History, Told, ToldAt
<1>5. "deployed" \in events[Dep(w)] => "started" \in events[Dep(w)]
  BY <1>4 DEF History, EventOrder, Precedes
<1>6. CASE Claim(w)
  <2>1. Ledger!Claim(Dep(w)) /\ UNCHANGED events
    BY <1>6, NoSuchFault DEF Claim, ClaimAnswered
  <2>2. QED
    BY <1>4, <2>1, StillOpen
<1>7. CASE AnnounceStarted(w) \/ AnnounceDeployed(w) \/ AnnouncePending(w)
  <2>1. Outcome[Dep(w)] = "open"
    BY <1>0, <1>4, <1>7 DEF AnnounceStarted, AnnounceDeployed, AnnouncePending,
       ControlAt, LockAt, AtWork, Held, Outcome, SettlePcs
  <2>2. ASSUME AnnounceStarted(w) PROVE PromiseStep
    BY <1>3, <2>1, <2>2, AnnounceHeard DEF AnnounceStarted, Promise!SpeaksOf, Promise!Before
  <2>3. ASSUME AnnounceDeployed(w) PROVE PromiseStep
    <3>1. "started" \in events[Dep(w)]
      BY <1>4, <2>3 DEF AnnounceDeployed, ToldBefore
    <3>2. QED
      BY <1>3, <2>1, <2>3, <3>1, AnnounceHeard DEF AnnounceDeployed,
         Promise!SpeaksOf, Promise!Before
  <2>4. ASSUME AnnouncePending(w) PROVE PromiseStep
    <3>1. "deployed" \in events[Dep(w)]
      BY <1>4, <2>4 DEF AnnouncePending, ToldBefore
    <3>2. QED
      BY <1>3, <1>5, <2>1, <2>4, <3>1, AnnounceHeard DEF AnnouncePending,
         Promise!SpeaksOf, Promise!Before
  <2>5. QED
    BY <1>7, <2>2, <2>3, <2>4
<1>8. CASE \/ AnnounceSucceeded(w) \/ AnnounceRunning(w)
           \/ disp[w] = "Completed" /\ (ReplayService(w) \/ ReplayProgress(w))
  <2>1. stage[Dep(w)] = "COMPLETED" /\ Outcome[Dep(w)] = "succeeded"
    BY <1>0, <1>4, <1>8 DEF AnnounceSucceeded, AnnounceRunning, ControlAt, LockAt,
       AtWork, Held, Outcome, SettlePcs
  <2>2. {"started", "deployed"} \subseteq events[Dep(w)]
    BY <1>4, <1>5, <2>1 DEF History, CompletedDeployed
  <2>3. ASSUME \/ Announce(w, "succeeded", "running")
               \/ Announce(w, "succeeded", "storedProgress")
        PROVE  PromiseStep
    BY <1>3, <2>1, <2>2, <2>3, AnnounceHeard DEF Promise!SpeaksOf, Promise!Before
  <2>4. ASSUME Announce(w, "running", "ack"),
               pc[w] = "running" \/ (pc[w] = "storedProgress" /\ disp[w] = "Completed")
        PROVE  PromiseStep
    <3>1. "succeeded" \in events[Dep(w)]
      BY <1>4, <2>4 DEF ToldBefore
    <3>2. QED
      BY <1>3, <2>1, <2>2, <2>4, <3>1, AnnounceHeard DEF Promise!SpeaksOf, Promise!Before
  <2>5. CASE disp[w] = "Completed" /\ (ReplayService(w) \/ ReplayProgress(w))
    <3>1. StoredServiceEvent(w) = "succeeded" /\ StoredProgressEvent(w) = "running"
      BY <2>5 DEF StoredServiceEvent, StoredProgressEvent
    <3>2. QED
      BY <2>3, <2>4, <2>5, <3>1 DEF ReplayService, ReplayProgress
  <2>6. CASE AnnounceSucceeded(w)
    BY <2>3, <2>6 DEF AnnounceSucceeded
  <2>7. CASE AnnounceRunning(w)
    BY <2>4, <2>7 DEF AnnounceRunning
  <2>8. QED
    BY <1>8, <2>5, <2>6, <2>7
<1>9. CASE \/ AnnounceDeployFailed(w) \/ AnnounceFailed(w)
           \/ disp[w] = "Failed" /\ (ReplayService(w) \/ ReplayProgress(w))
  <2>1. Outcome[Dep(w)] = "failed"
    BY <1>0, <1>4, <1>9 DEF AnnounceDeployFailed, AnnounceFailed, LockAt, AtWork,
       Held, Dispositions, Outcome, SettlePcs
  <2>2. ASSUME \/ Announce(w, "deployFailed", "orchFailed")
               \/ Announce(w, "deployFailed", "storedProgress")
        PROVE  PromiseStep
    BY <1>3, <2>1, <2>2, AnnounceHeard DEF Promise!SpeaksOf, Promise!Before
  <2>3. ASSUME \/ Announce(w, "orchFailed", "ack")
               \/ Announce(w, "orchFailed", "deadLetter"),
               pc[w] = "orchFailed" \/ (pc[w] = "storedProgress" /\ disp[w] = "Failed")
        PROVE  PromiseStep
    <3>1. "deployFailed" \in events[Dep(w)]
      BY <1>4, <2>3 DEF ToldBefore
    <3>2. QED
      BY <1>3, <2>1, <2>3, <3>1, AnnounceHeard DEF Promise!SpeaksOf, Promise!Before
  <2>4. CASE disp[w] = "Failed" /\ (ReplayService(w) \/ ReplayProgress(w))
    <3>1. StoredServiceEvent(w) = "deployFailed" /\ StoredProgressEvent(w) = "orchFailed"
      BY <2>4 DEF StoredServiceEvent, StoredProgressEvent
    <3>2. QED
      BY <2>2, <2>3, <2>4, <3>1 DEF ReplayService, ReplayProgress
  <2>5. CASE AnnounceDeployFailed(w)
    BY <2>2, <2>5 DEF AnnounceDeployFailed
  <2>6. CASE AnnounceFailed(w)
    <3>1. Announce(w, "orchFailed", "ack") \/ Announce(w, "orchFailed", "deadLetter")
      BY <2>6 DEF AnnounceFailed
    <3>2. QED
      BY <2>3, <2>6, <3>1 DEF AnnounceFailed
  <2>7. QED
    BY <1>9, <2>4, <2>5, <2>6
<1>10. CASE Deploy(w) \/ WaitForRollout(w) \/ LateCheck(w)
  BY <1>10, Unheard DEF Deploy, WaitForRollout, LateCheck, ledgerVars
<1>11. CASE CompleteStage(w) \/ FailStage(w)
  <2>1. UNCHANGED events /\ stage[Dep(w)] = "IN_PROGRESS"
    BY <1>0, <1>11, NoSuchFault DEF CompleteStage, FailStage, Persist, ControlAt,
       LockAt, AtWork, Held, Dispositions, SettlePcs
  <2>2. CompleteStage(w) => "deployed" \in events[Dep(w)]
    BY <1>4 DEF CompleteStage, ToldBefore
  <2>3. QED
    BY <1>4, <1>11, <2>1, <2>2, NoSuchFault, Decided DEF CompleteStage, FailStage,
       Persist, Ledger!Complete, Ledger!Fail
<1>12. disp[w] \in {"Completed", "Failed"} \/ ~(ReplayService(w) \/ ReplayProgress(w))
  BY <1>0 DEF ReplayService, ReplayProgress, ControlAt
<1>13. QED
  BY <1>2, <1>6, <1>7, <1>8, <1>9, <1>10, <1>11, <1>12 DEF HandleMessage

LEMMA SettleDeliveryHeard ==
  ASSUME ConstantsAssumption, CallsSucceed, TypeOK, Control, History, Locked,
         NEW w \in Workers, SettleDelivery(w)
  PROVE  PromiseStep
<1>0. LockAt(w) /\ disp[w] \in Dispositions
  BY DEF Locked, TypeOK, WorkerTypeOK
<1>1. CASE EmitRetrying(w)
  <2>1. Dep(w) \in Deployments /\ pc[w] = "retrying"
    BY <1>1, DeliveryType DEF EmitRetrying
  <2>2. Outcome[Dep(w)] = "open"
    BY <1>0, <2>1 DEF LockAt, AtWork, Held, Outcome, Dispositions, SettlePcs, StoredPcs
  <2>3. QED
    BY <1>1, <2>1, <2>2, AnnounceHeard DEF EmitRetrying, EventKinds,
       Promise!SpeaksOf, Promise!Before
<1>2. CASE ReleaseClaim(w)
  <2>1. /\ pc[w] = "release" /\ UNCHANGED events
        /\ Ledger!Write(Dep(w), "IN_PROGRESS")
    BY <1>2, NoSuchFault DEF ReleaseClaim, Persist, Ledger!Release
  <2>2. stage[Dep(w)] = "IN_PROGRESS"
    BY <1>0, <2>1 DEF LockAt, AtWork, Held, Dispositions, SettlePcs, StoredPcs
  <2>3. QED
    BY <2>1, <2>2, DeliveryType, StillOpen
<1>3. CASE PublishRetry(w) \/ CopyToDLQ(w) \/ Discard(w) \/ NackRequeue(w)
  BY <1>3, Unheard DEF PublishRetry, CopyToDLQ, Discard, NackRequeue, ledgerVars
<1>4. QED
  BY <1>1, <1>2, <1>3 DEF SettleDelivery

LEMMA StepHeard ==
  ASSUME ConstantsAssumption, CallsSucceed, TypeOK, Control, History, Locked,
         [Next]_vars
  PROVE  PromiseStep
<1>1. ASSUME UNCHANGED <<events, stage>> PROVE PromiseStep
  BY <1>1, Unheard
<1>2. CASE \E w \in Workers : Work(w)
  BY <1>2, HandleMessageHeard, SettleDeliveryHeard DEF Work
<1>3. CASE ~ \E w \in Workers : Work(w)
  <2>1. UNCHANGED <<events, stage>>
    BY <1>3 DEF Next, Renew, Ledger!Renew, LeaseRunsOut, Ledger!Expire, RetryExpires,
       Fault, Republish, LeaseMissed, Crash, LoseConsumerChannel,
       LosePublisherChannel, LoseConnection, Quiet, vars, ledgerVars
  <2>2. QED
    BY <1>1, <2>1
<1>4. QED
  BY <1>2, <1>3

(* While calls succeed, any number of processes that crash, lose their     *)
(* consumer channels and get messages more than once implement the         *)
(* abstract promise: consumer.go and ledger.go refine DeliveryPromise.     *)
THEOREM ConsumerKeepsPromise ==
  ASSUME ConstantsAssumption, CallsSucceed PROVE Spec => PromiseKept
<1>1. Init => Promise!Init
  BY DEF Init, Promise!Init, Ledger!LedgerInit, Outcome
<1>2. TypeOK /\ Control /\ History /\ Locked /\ [Next]_vars
        => [Promise!Next]_(Promise!promiseVars)
  BY StepHeard DEF PromiseStep, Promise!promiseVars
<1>3. QED
  BY <1>1, <1>2, ControlAndHistory, LockInvariant, PTL
     DEF Spec, PromiseKept, Promise!Spec

-----------------------------------------------------------------------------
(* DeployConsumer implements LeaseLock while calls succeed.  A worker that *)
(* neither writes a row nor is granted a claim can only stop driving       *)
(* (Quits); the others do not move.                                        *)
LockUse == [Lock!Next]_<<stage, leased, Drives>>

Quits(w) ==
    /\ Still(w)
    /\ AtWork(w)' => AtWork(w) /\ Dep(w)' = Dep(w)

LEMMA DrivesMoves ==
  ASSUME TypeOK, NEW w \in Workers, Still(w)
  PROVE  /\ AtWork(w)' => Drives' = [Drives EXCEPT ![w] = {Dep(w)'}]
         /\ ~AtWork(w)' => Drives' = [Drives EXCEPT ![w] = {}]
<1>1. \A v \in Workers \ {w} : (AtWork(v)' <=> AtWork(v)) /\ Dep(v)' = Dep(v)
  BY DEF Still, AtWork, Dep
<1>2. \A v \in Workers \ {w} : Drives'[v] = Drives[v]
  BY <1>1 DEF Drives
<1>3. Drives'[w] = IF AtWork(w)' THEN {Dep(w)'} ELSE {}
  BY DEF Drives
<1>4. QED
  BY <1>2, <1>3 DEF Drives

LEMMA QuitsUse ==
  ASSUME TypeOK, NEW w \in Workers, Quits(w), UNCHANGED <<stage, leased>>
  PROVE  LockUse
<1>1. CASE AtWork(w)' \/ ~AtWork(w)
  <2>1. Drives' = Drives
    BY <1>1, DrivesMoves DEF Quits, Drives
  <2>2. QED
    BY <2>1 DEF LockUse
<1>2. CASE AtWork(w) /\ ~AtWork(w)'
  <2>1. Drives[w] = {Dep(w)} /\ Drives' = [Drives EXCEPT ![w] = @ \ {Dep(w)}]
    BY <1>2, DrivesMoves DEF Quits, Drives
  <2>2. Lock!Leave(w, Dep(w))
    BY <2>1 DEF Lock!Leave, Lock!Gone
  <2>3. QED
    BY <2>1, <2>2 DEF LockUse, Lock!Next
<1>3. QED
  BY <1>1, <1>2

(* A step to call p, by a worker not done with its delivery if it drives. *)
LEMMA GotoQuits ==
  ASSUME TypeOK, NEW w \in Workers, NEW p, Goto(w, p), pc[w] \notin SettlePcs
  PROVE  Quits(w)
<1>1. Still(w) /\ UNCHANGED <<msg, disp>>
  BY GotoStill
<1>2. QED
  BY <1>1 DEF Quits, AtWork, Dep

LEMMA GiveUpQuits ==
  ASSUME TypeOK, NEW w \in Workers, GiveUp(w), pc[w] \notin SettlePcs
  PROVE  Quits(w)
<1>1. CASE phase[w] = "handle"
  BY <1>1 DEF GiveUp, ScheduleRetry, TypeOK, WorkerTypeOK, Quits, Still, AtWork, Dep
<1>2. CASE phase[w] # "handle"
  BY <1>2, GotoQuits DEF GiveUp
<1>3. QED
  BY <1>1, <1>2

LEMMA AnnounceUse ==
  ASSUME CallsSucceed, TypeOK, Locked, NEW w \in Workers, NEW k, NEW p,
         Announce(w, k, p), pc[w] \notin SettlePcs
  PROVE  LockUse
<1>1. Goto(w, p) /\ UNCHANGED <<stage, leased>>
  BY AnnounceMade DEF Locked
<1>2. QED
  BY <1>1, GotoQuits, QuitsUse

(* Complete, Fail and Release are called by whoever drives. *)
LEMMA WriteUse ==
  ASSUME TypeOK, NEW w \in Workers, pc[w] # "idle", AtWork(w), NEW p, Goto(w, p),
         \/ Ledger!Complete(Dep(w)) \/ Ledger!Fail(Dep(w))
         \/ Ledger!Release(Dep(w)) /\ p \in SettlePcs
  PROVE  LockUse
<1>1. /\ Still(w) /\ Dep(w)' = Dep(w)
      /\ AtWork(w)' <=> p \notin SettlePcs
  BY GotoStill DEF AtWork, Dep
<1>2. Dep(w) \in Drives[w] /\ Drives[w] = {Dep(w)}
  BY DEF Drives
<1>3. CASE p \in SettlePcs
  <2>1. Lock!Gone(w, Dep(w))
    BY <1>1, <1>2, <1>3, DrivesMoves DEF Lock!Gone
  <2>2. Lock!End(w, Dep(w)) \/ Lock!Release(w, Dep(w))
    BY <2>1 DEF Lock!End, Lock!Release, Lock!Ledger!Complete, Lock!Ledger!Fail,
       Lock!Ledger!Release, Lock!Ledger!Write, Ledger!Complete, Ledger!Fail,
       Ledger!Release, Ledger!Write
  <2>3. QED
    BY <1>2, <2>2 DEF LockUse, Lock!Next
<1>4. CASE p \notin SettlePcs
  <2>1. Drives' = Drives
    BY <1>1, <1>4, DrivesMoves DEF Drives
  <2>2. Lock!End(w, Dep(w))
    BY <1>4, <2>1 DEF Lock!End, Lock!Ledger!Complete, Lock!Ledger!Fail,
       Lock!Ledger!Write, Ledger!Complete, Ledger!Fail, Ledger!Write
  <2>3. QED
    BY <1>2, <2>2 DEF LockUse, Lock!Next
<1>5. QED
  BY <1>3, <1>4

LEMMA ClaimUse ==
  ASSUME ConstantsAssumption, CallsSucceed, TypeOK, Control, NEW w \in Workers, Claim(w)
  PROVE  LockUse
<1>1. pc[w] = "claim" /\ disp[w] = "none" /\ ClaimAnswered(w)
  BY NoSuchFault DEF Claim, Control, ControlAt
<1>2. /\ Still(w) /\ Dep(w)' = Dep(w)
      /\ disp'[w] = Ledger!Disposition(Dep(w)) /\ Ledger!Claim(Dep(w))
  BY <1>1 DEF ClaimAnswered, TypeOK, WorkerTypeOK, Still, Dep
<1>3. Dep(w) \in Deployments
  BY <1>1, DeliveryType
<1>4. CASE Ledger!Disposition(Dep(w)) = "Acquired"
  <2>1. pc'[w] = "started"
    BY <1>1, <1>4 DEF ClaimAnswered, TypeOK, WorkerTypeOK
  <2>2. AtWork(w)' /\ Drives[w] = {}
    BY <1>1, <1>2, <1>4, <2>1 DEF AtWork, SettlePcs, Drives
  <2>3. Drives' = [Drives EXCEPT ![w] = @ \union {Dep(w)}]
    BY <1>2, <2>2, DrivesMoves
  <2>4. Lock!Claim(w, Dep(w))
    BY <1>2, <1>4, <2>2, <2>3 DEF Lock!Claim, Lock!Ledger!Claim,
       Lock!Ledger!Disposition, Ledger!Claim, Ledger!Disposition
  <2>5. QED
    BY <1>3, <2>4 DEF LockUse, Lock!Next
<1>5. CASE Ledger!Disposition(Dep(w)) # "Acquired"
  <2>1. UNCHANGED <<stage, leased>> /\ Quits(w)
    BY <1>2, <1>5 DEF Ledger!Claim, Quits, AtWork
  <2>2. QED
    BY <2>1, QuitsUse
<1>6. QED
  BY <1>4, <1>5

LEMMA HandleMessageUse ==
  ASSUME ConstantsAssumption, CallsSucceed, TypeOK, Control, Locked,
         NEW w \in Workers, HandleMessage(w)
  PROVE  LockUse
<1>0. ControlAt(w) /\ LockAt(w) /\ disp[w] \in Dispositions
  BY DEF Control, Locked, TypeOK, WorkerTypeOK
<1>1. CASE Receive(w)
  <2>1. disp[w] = "none" /\ Quits(w) /\ UNCHANGED <<stage, leased>>
    BY <1>0, <1>1 DEF Receive, ControlAt, Quits, Still, AtWork, TypeOK,
       WorkerTypeOK, ledgerVars
  <2>2. QED
    BY <2>1, QuitsUse
<1>2. CASE Claim(w)
  BY <1>2, ClaimUse
<1>3. CASE \/ AnnounceStarted(w) \/ AnnounceDeployed(w) \/ AnnouncePending(w)
           \/ AnnounceSucceeded(w) \/ AnnounceRunning(w) \/ AnnounceDeployFailed(w)
           \/ AnnounceFailed(w) \/ ReplayService(w) \/ ReplayProgress(w)
  BY <1>3, AnnounceUse DEF AnnounceStarted, AnnounceDeployed, AnnouncePending,
     AnnounceSucceeded, AnnounceRunning, AnnounceDeployFailed, AnnounceFailed,
     ReplayService, ReplayProgress, SettlePcs
<1>4. CASE Deploy(w) \/ WaitForRollout(w) \/ LateCheck(w)
  <2>1. UNCHANGED <<stage, leased>> /\ pc[w] \notin SettlePcs
    BY <1>4 DEF Deploy, WaitForRollout, LateCheck, ledgerVars, SettlePcs
  <2>2. GiveUp(w) \/ \E p \in Pcs : Goto(w, p)
    BY <1>4 DEF Deploy, WaitForRollout, LateCheck, PublishRolloutSuccess, Pcs,
       WorkPcs, FailPcs
  <2>3. QED
    BY <2>1, <2>2, GiveUpQuits, GotoQuits, QuitsUse
<1>5. CASE CompleteStage(w) \/ FailStage(w)
  <2>1. pc[w] \in {"complete", "fail"} /\ AtWork(w)
    BY <1>0, <1>5 DEF CompleteStage, FailStage, ControlAt, LockAt, AtWork,
       Dispositions, SettlePcs, WorkPcs, StoredPcs
  <2>2. \/ Ledger!Complete(Dep(w)) /\ Goto(w, "succeeded")
        \/ Ledger!Fail(Dep(w)) /\ Goto(w, "deployFailed")
    BY <1>5, NoSuchFault DEF CompleteStage, FailStage, Persist
  <2>3. QED
    BY <2>1, <2>2, WriteUse
<1>6. QED
  BY <1>1, <1>2, <1>3, <1>4, <1>5 DEF HandleMessage

LEMMA SettleDeliveryUse ==
  ASSUME ConstantsAssumption, CallsSucceed, TypeOK, Control, Locked,
         NEW w \in Workers, SettleDelivery(w)
  PROVE  LockUse
<1>0. LockAt(w) /\ disp[w] \in Dispositions
  BY DEF Locked, TypeOK, WorkerTypeOK
<1>1. CASE EmitRetrying(w)
  BY <1>1, AnnounceUse DEF EmitRetrying, SettlePcs
<1>2. CASE PublishRetry(w) \/ CopyToDLQ(w)
  <2>1. UNCHANGED <<stage, leased>> /\ pc[w] \notin SettlePcs
    BY <1>2 DEF PublishRetry, CopyToDLQ, ledgerVars, SettlePcs
  <2>2. \E p \in SettlePcs \union {"release"} : Goto(w, p)
    BY <1>2 DEF PublishRetry, CopyToDLQ, SettlePcs
  <2>3. QED
    BY <2>1, <2>2, GotoQuits, QuitsUse
<1>3. CASE ReleaseClaim(w)
  <2>1. pc[w] = "release" /\ Ledger!Release(Dep(w)) /\ Goto(w, "ack")
    BY <1>3, NoSuchFault DEF ReleaseClaim, Persist
  <2>2. AtWork(w)
    BY <1>0, <2>1 DEF LockAt, AtWork, Dispositions, SettlePcs, StoredPcs
  <2>3. QED
    BY <2>1, <2>2, WriteUse DEF SettlePcs
<1>4. CASE Discard(w) \/ NackRequeue(w)
  <2>1. UNCHANGED <<stage, leased>> /\ Finish(w)
    BY <1>4 DEF Discard, NackRequeue, ledgerVars
  <2>2. Quits(w)
    BY <2>1 DEF Finish, Quits, Still, AtWork, TypeOK, WorkerTypeOK
  <2>3. QED
    BY <2>1, <2>2, QuitsUse
<1>5. QED
  BY <1>1, <1>2, <1>3, <1>4 DEF SettleDelivery

(* A step of no worker's call leaves Drives alone, unless a process dies. *)
LEMMA FaultUse ==
  ASSUME CallsSucceed, TypeOK, Fault
  PROVE  LockUse
<1>1. UNCHANGED <<stage, leased>>
  BY NoSuchFault DEF Fault, Republish, LeaseMissed, Crash, LoseConsumerChannel,
     LosePublisherChannel, LoseConnection, ledgerVars
<1>2. CASE \E w \in Workers : Crash(w)
  <2>1. PICK w \in Workers : Crash(w)
    BY <1>2
  <2>2. Quits(w)
    BY <2>1 DEF Crash, Quits, Still, AtWork, TypeOK, WorkerTypeOK
  <2>3. QED
    BY <1>1, <2>2, QuitsUse
<1>3. CASE ~ \E w \in Workers : Crash(w)
  <2>1. UNCHANGED <<pc, msg, disp>>
    BY <1>3, NoSuchFault DEF Fault, Republish, LeaseMissed, LoseConsumerChannel,
       LosePublisherChannel, LoseConnection, workerVars
  <2>2. Drives' = Drives
    BY <2>1 DEF Drives, AtWork, Dep
  <2>3. QED
    BY <1>1, <2>2 DEF LockUse
<1>4. QED
  BY <1>2, <1>3

LEMMA LeaseUse ==
  ASSUME ConstantsAssumption, TypeOK, UNCHANGED workerVars,
         \/ \E w \in Workers : Renew(w)
         \/ \E d \in Deployments : LeaseRunsOut(d)
  PROVE  LockUse
<1>1. Drives' = Drives
  BY DEF Drives, AtWork, Dep, workerVars
<1>2. ASSUME NEW w \in Workers, Renew(w) PROVE LockUse
  <2>1. Dep(w) \in Deployments
    BY <1>2, DeliveryType DEF Renew, WorkPcs, FailPcs
  <2>2. Lock!Renew(Dep(w))
    BY <1>1, <1>2 DEF Renew, Lock!Renew, Lock!Ledger!Renew, Ledger!Renew
  <2>3. QED
    BY <2>1, <2>2 DEF LockUse, Lock!Next
<1>3. ASSUME NEW d \in Deployments, LeaseRunsOut(d) PROVE LockUse
  <2>1. Lock!RunOut(d)
    BY <1>1, <1>3 DEF LeaseRunsOut, Drives, Lock!RunOut, Lock!Ledger!Expire,
       Ledger!Expire
  <2>2. QED
    BY <2>1 DEF LockUse, Lock!Next
<1>4. QED
  BY <1>2, <1>3

LEMMA StepUse ==
  ASSUME ConstantsAssumption, CallsSucceed, TypeOK, Control, Locked, [Next]_vars
  PROVE  LockUse
<1>1. CASE UNCHANGED <<stage, leased, workerVars>>
  BY <1>1 DEF LockUse, Drives, AtWork, Dep, workerVars
<1>2. ASSUME NEW w \in Workers, Renew(w) PROVE LockUse
  BY <1>2, LeaseUse DEF Renew
<1>3. ASSUME NEW d \in Deployments, LeaseRunsOut(d) PROVE LockUse
  BY <1>3, LeaseUse DEF LeaseRunsOut
<1>4. QED
  BY <1>1, <1>2, <1>3, HandleMessageUse, SettleDeliveryUse, FaultUse
     DEF Next, Work, RetryExpires, Quiet, vars, ledgerVars

(* While calls succeed the processes keep to the abstract lease, the one   *)
(* that LeaseClock shows the clocks to keep: who ends or releases a stage  *)
(* is the one that drives it.                                              *)
THEOREM ConsumersHonourLock ==
  ASSUME ConstantsAssumption, CallsSucceed PROVE Spec => LockHonoured
<1>1. Init => Lock!Init
  BY DEF Init, Lock!Init, Lock!Ledger!LedgerInit, Ledger!LedgerInit, Drives, AtWork
<1>2. TypeOK /\ Control /\ Locked /\ [Next]_vars => [Lock!Next]_(Lock!lockVars)
  BY StepUse DEF LockUse, Lock!lockVars
<1>3. QED
  BY <1>1, <1>2, LockInvariant, PTL DEF Spec, LockHonoured, Lock!Spec

-----------------------------------------------------------------------------
(* The lease is a lock also while channels and connections close under the *)
(* workers (LinksMayFail).  A worker that cannot publish leaves the path   *)
(* Locked follows; what is left of it is Guarded.                          *)

(* The step of NeverReopened. *)
Lasting == \A d \in Deployments : Over(d) => stage'[d] \in Ledger!TerminalStates

LEMMA NoCallLost ==
  ASSUME LinksMayFail
  PROVE  \A f \in {"pub", "db", "stall"} : ~Strike(f)
  BY DEF LinksMayFail, Strike

(* The others keep their part if what they drive stays leased and what is  *)
(* over stays over.                                                        *)
LEMMA OthersGuarded ==
  ASSUME NEW w, Still(w),
         \A v \in Workers : GuardAt(v),
         \A v \in Workers \ {w} : Concerned(v) =>
            /\ Over(Dep(v)) => stage'[Dep(v)] \in Ledger!TerminalStates
            /\ AtWork(v) /\ Leased(Dep(v)) =>
                   stage'[Dep(v)] = "IN_PROGRESS" /\ Dep(v) \in leased'
  PROVE  \A v \in Workers \ {w} : GuardAt(v)'
<1>1. ASSUME NEW v \in Workers \ {w} PROVE GuardAt(v)'
  <2>1. /\ GuardAt(v) /\ msg'[v] = msg[v] /\ pc'[v] = pc[v]
        /\ disp'[v] = disp[v] /\ link'[v] = link[v]
    BY DEF Still
  <2>2. Concerned(v) => /\ stage[msg[v][1]] \in Ledger!TerminalStates =>
                              stage'[msg[v][1]] \in Ledger!TerminalStates
                        /\ AtWork(v) /\ Leased(msg[v][1]) =>
                              stage'[msg[v][1]] = "IN_PROGRESS" /\ msg[v][1] \in leased'
    BY DEF Dep, Over
  <2>3. QED
    BY <2>1, <2>2 DEF GuardAt, Concerned, AtWork, CanPublish, Dep, Over, Leased
<1>2. QED
  BY <1>1

(* A step of w that leaves the ledger alone. *)
LEMMA RowsUntouched ==
  ASSUME Guarded, NEW w \in Workers, Still(w), UNCHANGED <<stage, leased>>,
         \A d \in Deployments : Driving(w, d)' => Driving(w, d),
         GuardAt(w)'
  PROVE  Guarded' /\ Lasting
<1>1. \A v \in Workers \ {w} : GuardAt(v)'
  BY OthersGuarded DEF Guarded, Over, Leased
<1>2. OneDriver'
  BY NoNewDriver DEF Guarded
<1>3. QED
  BY <1>1, <1>2 DEF Guarded, Lasting, Over

(* w goes on to call p, or ends its delivery. *)
LEMMA GotoGuarded ==
  ASSUME TypeOK, Guarded, NEW w \in Workers, pc[w] # "idle", NEW p, Goto(w, p),
         UNCHANGED <<stage, leased>>,
         \/ p \in SettlePcs
         \/ AtWork(w) /\ Leased(Dep(w))
         \/ AtWork(w) /\ Over(Dep(w)) /\ p \in OverPcs
         \/ p = "storedProgress" /\ disp[w] \in {"Completed", "Failed"}
  PROVE  Guarded' /\ Lasting
<1>1. Still(w) /\ pc'[w] = p /\ UNCHANGED <<msg, disp, phase, link>>
  BY GotoStill
<1>2. GuardAt(w)
  BY DEF Guarded
<1>3. GuardAt(w)'
  <2>1. CASE p \in SettlePcs
    BY <1>1, <1>2, <2>1 DEF GuardAt, AtWork, Dep, CanPublish, Over, SettlePcs
  <2>2. CASE AtWork(w) /\ (Leased(Dep(w)) \/ (Over(Dep(w)) /\ p \in OverPcs))
    BY <1>1, <1>2, <2>2 DEF GuardAt, AtWork, Dep, CanPublish, Over, Leased
  <2>3. CASE p = "storedProgress" /\ disp[w] \in {"Completed", "Failed"}
    BY <1>1, <1>2, <2>3 DEF GuardAt, AtWork, Dep, CanPublish, Over, StoredPcs
  <2>4. QED
    BY <2>1, <2>2, <2>3
<1>4. \A d \in Deployments : Driving(w, d)' => Driving(w, d)
  <2>1. AtWork(w)' => AtWork(w)
    BY <1>1 DEF AtWork, GuardAt, SettlePcs, StoredPcs, OverPcs
  <2>2. QED
    BY <1>1, <2>1 DEF Driving, Processing, Dep
<1>5. QED
  BY <1>1, <1>3, <1>4, RowsUntouched

(* w gives the attempt up: it drives a deployment that is not over, or it  *)
(* cannot publish, or it was in scheduleRetry already.                     *)
LEMMA GiveUpGuarded ==
  ASSUME TypeOK, Guarded, NEW w \in Workers, pc[w] # "idle", GiveUp(w),
         UNCHANGED <<stage, leased>>,
         \/ phase[w] # "handle"
         \/ AtWork(w) /\ Leased(Dep(w))
         \/ (AtWork(w) \/ disp[w] \in {"Completed", "Failed"}) /\ ~CanPublish(w)
  PROVE  Guarded' /\ Lasting
<1>1. CASE phase[w] # "handle"
  <2>1. Goto(w, "nackRequeue")
    BY <1>1 DEF GiveUp
  <2>2. QED
    BY <2>1, GotoGuarded DEF SettlePcs
<1>2. CASE phase[w] = "handle"
  <2>1. PICK p \in {"fail", "retrying"} : pc' = [pc EXCEPT ![w] = p]
    BY <1>2 DEF GiveUp, ScheduleRetry, RetryEntry
  <2>2. /\ Still(w) /\ pc'[w] = p /\ UNCHANGED <<msg, disp, link>>
    BY <1>2, <2>1 DEF GiveUp, ScheduleRetry, Still, TypeOK, WorkerTypeOK
  <2>3. GuardAt(w)
    BY DEF Guarded
  <2>4. GuardAt(w)'
    BY <1>2, <2>2, <2>3 DEF GuardAt, AtWork, CanPublish, Dep, Over, Leased
  <2>5. \A d \in Deployments : Driving(w, d)' => Driving(w, d)
    <3>1. AtWork(w)' => AtWork(w)
      BY <1>2, <2>2 DEF AtWork
    <3>2. QED
      BY <2>2, <3>1 DEF Driving, Processing, Dep
  <2>6. QED
    BY <2>2, <2>4, <2>5, RowsUntouched
<1>3. QED
  BY <1>1, <1>2

(* An event: published, or w cannot publish and gives up. *)
LEMMA AnnounceGuarded ==
  ASSUME LinksMayFail, TypeOK, Guarded, NEW w \in Workers, pc[w] # "idle",
         NEW k, NEW p, Announce(w, k, p),
         AtWork(w) \/ disp[w] \in {"Completed", "Failed"},
         CanPublish(w) =>
            \/ p \in SettlePcs
            \/ AtWork(w) /\ Leased(Dep(w))
            \/ AtWork(w) /\ Over(Dep(w)) /\ p \in OverPcs
            \/ p = "storedProgress" /\ disp[w] \in {"Completed", "Failed"}
  PROVE  Guarded' /\ Lasting
<1>1. /\ UNCHANGED <<stage, leased>>
      /\ \/ CanPublish(w) /\ Goto(w, p)
         \/ ~CanPublish(w) /\ GiveUp(w)
  BY NoCallLost DEF Announce, Confirmed, Unconfirmed, Unsent, ledgerVars
<1>2. CASE CanPublish(w) /\ Goto(w, p)
  BY <1>1, <1>2, GotoGuarded
<1>3. CASE ~CanPublish(w) /\ GiveUp(w)
  BY <1>1, <1>3, GiveUpGuarded
<1>4. QED
  BY <1>1, <1>2, <1>3

(* w ends its stage, or releases its lease: nobody else relies on the row, *)
(* or it was over and stays over.                                          *)
LEMMA WriteGuarded ==
  ASSUME ConstantsAssumption, TypeOK, Control, Guarded,
         NEW w \in Workers, pc[w] # "idle",
         NEW s, NEW p, Ledger!Write(Dep(w), s), Goto(w, p),
         \/ AtWork(w) /\ Leased(Dep(w)) /\ s = "COMPLETED" /\ p = "succeeded"
         \/ AtWork(w) /\ Leased(Dep(w)) /\ s = "FAILED" /\ p = "deployFailed"
         \/ AtWork(w) /\ Leased(Dep(w)) /\ s = "IN_PROGRESS" /\ p = "ack"
         \/ /\ AtWork(w) \/ disp[w] \in {"Completed", "Failed"}
            /\ Over(Dep(w)) /\ ~CanPublish(w)
            /\ s = "FAILED" /\ p = "deployFailed"
  PROVE  Guarded' /\ Lasting
<1>1. Still(w) /\ pc'[w] = p /\ UNCHANGED <<msg, disp, phase, link>>
  BY GotoStill
<1>2. /\ Dep(w) \in Deployments /\ GuardAt(w)
      /\ Leased(Dep(w)) => ~Over(Dep(w))
  BY DeliveryType DEF Guarded, Leased, Over, Ledger!TerminalStates
<1>3. /\ stage' = [stage EXCEPT ![Dep(w)] = s]
      /\ stage \in [Deployments -> Ledger!StageStates]
      /\ leased' = leased \ {Dep(w)}
  BY <1>2 DEF Ledger!Write, TypeOK, Ledger!LedgerTypeOK, Leased, Over, Ledger!TerminalStates
<1>4. ASSUME NEW v \in Workers \ {w}, Concerned(v)
      PROVE  /\ Dep(v) \in Deployments
             /\ Dep(v) # Dep(w) \/ (Over(Dep(w)) /\ s = "FAILED")
  <2>1. pc[v] # "idle" /\ GuardAt(v)
    BY <1>4 DEF Guarded, Concerned, AtWork, Control, ControlAt
  <2>2. CASE Over(Dep(w))
    BY <1>2, <2>1, <2>2, DeliveryType
  <2>3. CASE ~Over(Dep(w))
    <3>1. AtWork(w)
      BY <2>3
    <3>2. CASE AtWork(v)
      <4>1. Dep(v) = Dep(w) => Driving(v, Dep(w)) /\ Driving(w, Dep(w))
        BY <2>1, <3>1, <3>2 DEF Driving, Processing
      <4>2. Dep(v) # Dep(w)
        BY <1>2, <1>4, <4>1 DEF Guarded, OneDriver
      <4>3. QED
        BY <2>1, <4>2, DeliveryType
    <3>3. CASE disp[v] \in {"Completed", "Failed"}
      BY <2>1, <2>3, <3>3, DeliveryType DEF GuardAt
    <3>4. QED
      BY <1>4, <3>2, <3>3 DEF Concerned
  <2>4. QED
    BY <2>2, <2>3
<1>5. \A v \in Workers \ {w} : GuardAt(v)'
  <2>1. ASSUME NEW v \in Workers \ {w}, Concerned(v)
        PROVE  /\ Over(Dep(v)) => stage'[Dep(v)] \in Ledger!TerminalStates
               /\ AtWork(v) /\ Leased(Dep(v)) =>
                      stage'[Dep(v)] = "IN_PROGRESS" /\ Dep(v) \in leased'
    <3>1. CASE Dep(v) # Dep(w)
      BY <1>3, <1>4, <2>1, <3>1 DEF Over, Leased
    <3>2. CASE Dep(v) = Dep(w)
      BY <1>2, <1>3, <1>4, <2>1, <3>2 DEF Over, Leased, Ledger!TerminalStates
    <3>3. QED
      BY <3>1, <3>2
  <2>2. QED
    BY <1>1, <2>1, OthersGuarded DEF Guarded
<1>6. GuardAt(w)'
  <2>1. stage'[Dep(w)] = s /\ Dep(w)' = Dep(w) /\ (CanPublish(w)' <=> CanPublish(w))
    BY <1>1, <1>2, <1>3 DEF Dep, CanPublish
  <2>2. CASE p = "ack"
    BY <1>1, <1>2, <2>1, <2>2 DEF GuardAt, AtWork, SettlePcs, Over
  <2>3. CASE p \in {"succeeded", "deployFailed"} /\ s \in {"COMPLETED", "FAILED"}
    <3>1. Over(Dep(w))'
      BY <2>1, <2>3 DEF Over, Ledger!TerminalStates
    <3>2. CASE AtWork(w)
      BY <1>1, <2>3, <3>1, <3>2 DEF GuardAt, AtWork, OverPcs
    <3>3. CASE disp[w] \in {"Completed", "Failed"} /\ ~CanPublish(w)
      BY <1>1, <2>1, <2>3, <3>1, <3>3 DEF GuardAt, AtWork
    <3>4. QED
      BY <3>2, <3>3
  <2>4. QED
    BY <2>2, <2>3
<1>7. OneDriver'
  <2>1. AtWork(w)' => AtWork(w)
    BY <1>1, <1>2 DEF AtWork, GuardAt, SettlePcs
  <2>2. \A d \in Deployments : Driving(w, d)' => Driving(w, d)
    BY <1>1, <2>1 DEF Driving, Processing, Dep
  <2>3. QED
    BY <1>1, <2>2, NoNewDriver DEF Guarded
<1>8. Lasting
  BY <1>2, <1>3 DEF Lasting, Over, Ledger!TerminalStates
<1>9. QED
  BY <1>5, <1>6, <1>7, <1>8 DEF Guarded

LEMMA ClaimGuarded ==
  ASSUME ConstantsAssumption, LinksMayFail, TypeOK, Control, Guarded,
         NEW w \in Workers, Claim(w)
  PROVE  Guarded' /\ Lasting
<1>1. pc[w] = "claim" /\ ClaimAnswered(w) /\ disp[w] = "none" /\ GuardAt(w)
  BY NoCallLost DEF Claim, Control, ControlAt, Guarded
<1>2. Dep(w) \in Deployments /\ msg[w][2] \in Nat /\ msg[w][2] < MaxAttempts
  BY <1>1, DeliveryType
<1> DEFINE answer == Ledger!Disposition(Dep(w))
<1>3. /\ disp' = [disp EXCEPT ![w] = answer]
      /\ pc' = [pc EXCEPT ![w] =
                   CASE answer = "Acquired" -> "started"
                     [] answer = "Busy" -> RetryEntry(w, FALSE)
                     [] OTHER -> "storedService"]
      /\ UNCHANGED <<msg, link>>
      /\ \A v \in Workers \ {w} : phase'[v] = phase[v]
  BY <1>1 DEF ClaimAnswered, TypeOK, WorkerTypeOK
<1>4. /\ Still(w) /\ disp'[w] = answer
      /\ pc'[w] = CASE answer = "Acquired" -> "started"
                    [] answer = "Busy" -> RetryEntry(w, FALSE)
                    [] OTHER -> "storedService"
  <2> HIDE DEF answer
  <2>1. QED
    BY <1>3 DEF Still, TypeOK, WorkerTypeOK
<1>5. stage \in [Deployments -> Ledger!StageStates] /\ leased \subseteq Deployments
  BY DEF TypeOK, Ledger!LedgerTypeOK
<1>6. CASE answer = "Acquired"
  <2>1. /\ stage' = [stage EXCEPT ![Dep(w)] = "IN_PROGRESS"]
        /\ leased' = leased \union {Dep(w)}
        /\ ~Over(Dep(w)) /\ ~Leased(Dep(w))
    BY <1>1, <1>6 DEF ClaimAnswered, Ledger!Claim, Ledger!Disposition, Over, Leased,
       Ledger!TerminalStates
  <2>2. pc'[w] = "started" /\ disp'[w] = "Acquired"
    BY <1>4, <1>6
  <2>3. ASSUME NEW v \in Workers \ {w}, Concerned(v)
        PROVE  Dep(v) # Dep(w) /\ Dep(v) \in Deployments
    <3>1. pc[v] # "idle" /\ GuardAt(v)
      BY <2>3 DEF Guarded, Concerned, AtWork, Control, ControlAt
    <3>2. Dep(v) # Dep(w)
      BY <2>1, <2>3, <3>1 DEF Concerned, GuardAt
    <3>3. QED
      BY <3>1, <3>2, DeliveryType
  <2>4. \A v \in Workers \ {w} : GuardAt(v)'
    <3>1. ASSUME NEW v \in Workers \ {w}, Concerned(v)
          PROVE  /\ Over(Dep(v)) => stage'[Dep(v)] \in Ledger!TerminalStates
                 /\ AtWork(v) /\ Leased(Dep(v)) =>
                        stage'[Dep(v)] = "IN_PROGRESS" /\ Dep(v) \in leased'
      BY <1>5, <2>1, <2>3, <3>1 DEF Over, Leased
    <3>2. QED
      BY <1>4, <3>1, OthersGuarded DEF Guarded
  <2>5. GuardAt(w)'
    <3>1. stage'[Dep(w)] = "IN_PROGRESS" /\ Dep(w) \in leased' /\ Dep(w)' = Dep(w)
      BY <1>2, <1>3, <1>5, <2>1 DEF Dep
    <3>2. QED
      BY <2>2, <3>1 DEF GuardAt, Leased
  <2>6. OneDriver'
    <3>1. ASSUME NEW v \in Workers \ {w}, NEW d \in Deployments, Driving(v, d)'
          PROVE  Driving(v, d) /\ d # Dep(w)
      <4>1. Driving(v, d)
        BY <1>4, <3>1 DEF Still, Driving, Processing, AtWork, Dep
      <4>2. QED
        BY <2>3, <4>1 DEF Driving, Processing, Concerned
    <3>2. \A d \in Deployments : Driving(w, d)' => d = Dep(w)
      BY <1>3 DEF Driving, Processing, Dep
    <3>3. QED
      BY <3>1, <3>2 DEF OneDriver, Guarded
  <2>7. Lasting
    BY <1>5, <2>1 DEF Lasting, Over
  <2>8. QED
    BY <2>4, <2>5, <2>6, <2>7 DEF Guarded
<1>7. CASE answer # "Acquired"
  <2>1. UNCHANGED <<stage, leased>>
    BY <1>1, <1>7 DEF ClaimAnswered, Ledger!Claim
  <2>2. /\ answer \in {"Busy", "Completed", "Failed"}
        /\ answer \in {"Completed", "Failed"} => Over(Dep(w))
    BY <1>7 DEF Ledger!Disposition, Over, Ledger!TerminalStates
  <2> HIDE DEF answer
  <2>3. pc'[w] = IF answer = "Busy" THEN "requeue" ELSE "storedService"
    BY <1>2, <1>4, <1>7, <2>2 DEF RetryEntry, Attempt
  <2>4. GuardAt(w)'
    <3>1. /\ disp'[w] = answer /\ Over(Dep(w))' = Over(Dep(w))
          /\ pc'[w] = IF answer = "Busy" THEN "requeue" ELSE "storedService"
      BY <1>3, <1>4, <2>1, <2>3 DEF Dep, Over
    <3>2. CASE answer = "Busy"
      BY <3>1, <3>2 DEF GuardAt, AtWork
    <3>3. CASE answer \in {"Completed", "Failed"}
      BY <2>2, <3>1, <3>3 DEF GuardAt, AtWork, StoredPcs
    <3>4. QED
      BY <2>2, <3>2, <3>3
  <2>5. \A d \in Deployments : Driving(w, d)' => Driving(w, d)
    BY <1>4, <2>2 DEF Driving, AtWork
  <2>6. QED
    BY <1>4, <2>1, <2>4, <2>5, RowsUntouched
<1>8. QED
  BY <1>6, <1>7

LEMMA HandleMessageGuarded ==
  ASSUME ConstantsAssumption, LinksMayFail, TypeOK, Control, Guarded,
         NEW w \in Workers, HandleMessage(w)
  PROVE  Guarded' /\ Lasting
<1> USE DEF WorkPcs, StoredPcs, FailPcs, RetryPcs, SettlePcs
<1>0. ControlAt(w) /\ GuardAt(w) /\ disp[w] \in Dispositions
  BY DEF Control, Guarded, TypeOK, WorkerTypeOK
<1>1. CASE Receive(w)
  <2>1. /\ Still(w) /\ pc'[w] \in {"deadLetter", "claim"}
        /\ UNCHANGED <<stage, leased, disp, link>>
    BY <1>1 DEF Receive, Still, TypeOK, WorkerTypeOK, ledgerVars
  <2>2. disp[w] = "none"
    BY <1>0, <1>1 DEF Receive, ControlAt
  <2>3. GuardAt(w)'
    BY <1>0, <2>1, <2>2 DEF GuardAt, AtWork
  <2>4. \A d \in Deployments : Driving(w, d)' => Driving(w, d)
    BY <2>1, <2>2 DEF Driving, AtWork
  <2>5. QED
    BY <2>1, <2>3, <2>4, RowsUntouched
<1>2. CASE Claim(w)
  BY <1>2, ClaimGuarded
<1>3. CASE AnnounceStarted(w) \/ AnnounceDeployed(w) \/ AnnouncePending(w)
  <2>1. AtWork(w) /\ Leased(Dep(w))
    BY <1>0, <1>3 DEF AnnounceStarted, AnnounceDeployed, AnnouncePending,
       ControlAt, GuardAt, AtWork, OverPcs
  <2>2. QED
    BY <1>3, <2>1, AnnounceGuarded DEF AnnounceStarted, AnnounceDeployed, AnnouncePending
<1>4. CASE AnnounceSucceeded(w) \/ AnnounceRunning(w)
  <2>1. AtWork(w) /\ (Leased(Dep(w)) \/ Over(Dep(w)))
    BY <1>0, <1>4 DEF AnnounceSucceeded, AnnounceRunning, ControlAt, GuardAt, AtWork
  <2>2. QED
    BY <1>4, <2>1, AnnounceGuarded DEF AnnounceSucceeded, AnnounceRunning, OverPcs
<1>5. CASE AnnounceDeployFailed(w) \/ AnnounceFailed(w)
  <2>1. /\ AtWork(w) \/ (disp[w] \in {"Completed", "Failed"} /\ ~CanPublish(w))
        /\ AtWork(w) => Leased(Dep(w)) \/ Over(Dep(w))
    BY <1>0, <1>5 DEF AnnounceDeployFailed, AnnounceFailed, GuardAt, AtWork, Dispositions
  <2>2. QED
    BY <1>5, <2>1, AnnounceGuarded DEF AnnounceDeployFailed, AnnounceFailed, OverPcs
<1>6. CASE ReplayService(w) \/ ReplayProgress(w)
  <2>1. disp[w] \in {"Completed", "Failed"} /\ pc[w] # "idle"
    BY <1>0, <1>6 DEF ReplayService, ReplayProgress, ControlAt
  <2>2. QED
    BY <1>6, <2>1, AnnounceGuarded DEF ReplayService, ReplayProgress
<1>7. CASE Deploy(w) \/ WaitForRollout(w) \/ LateCheck(w)
  <2>1. /\ AtWork(w) /\ Leased(Dep(w)) /\ pc[w] # "idle"
        /\ UNCHANGED <<stage, leased>>
    BY <1>0, <1>7 DEF Deploy, WaitForRollout, LateCheck, ControlAt, GuardAt, AtWork,
       OverPcs, ledgerVars
  <2>2. GiveUp(w) \/ \E p : Goto(w, p)
    BY <1>7 DEF Deploy, WaitForRollout, LateCheck, PublishRolloutSuccess
  <2>3. QED
    BY <2>1, <2>2, GiveUpGuarded, GotoGuarded
<1>8. CASE CompleteStage(w)
  <2>1. /\ pc[w] = "complete"
        /\ Ledger!Write(Dep(w), "COMPLETED") /\ Goto(w, "succeeded")
    BY <1>8, NoCallLost DEF CompleteStage, Persist, Ledger!Complete
  <2>2. AtWork(w) /\ Leased(Dep(w))
    BY <1>0, <2>1 DEF ControlAt, GuardAt, AtWork, OverPcs
  <2>3. QED
    BY <2>1, <2>2, WriteGuarded
<1>9. CASE FailStage(w)
  <2>1. /\ pc[w] = "fail"
        /\ Ledger!Write(Dep(w), "FAILED") /\ Goto(w, "deployFailed")
    BY <1>9, NoCallLost DEF FailStage, Persist, Ledger!Fail
  <2>2. \/ AtWork(w) /\ Leased(Dep(w))
        \/ (AtWork(w) \/ disp[w] \in {"Completed", "Failed"}) /\ Over(Dep(w)) /\ ~CanPublish(w)
    BY <1>0, <2>1 DEF GuardAt, AtWork, Dispositions, OverPcs
  <2>3. QED
    BY <2>1, <2>2, WriteGuarded
<1>10. QED
  BY <1>1, <1>2, <1>3, <1>4, <1>5, <1>6, <1>7, <1>8, <1>9 DEF HandleMessage

(* The delivery of w is over: nobody relies on it. *)
LEMMA IdleGuarded ==
  ASSUME Guarded, NEW w \in Workers, Still(w), UNCHANGED <<stage, leased>>,
         pc'[w] = "idle", disp'[w] = "none"
  PROVE  Guarded' /\ Lasting
<1>1. GuardAt(w)'
  BY DEF GuardAt, AtWork
<1>2. \A d \in Deployments : ~Driving(w, d)'
  BY DEF Driving, AtWork
<1>3. QED
  BY <1>1, <1>2, RowsUntouched

LEMMA SettleDeliveryGuarded ==
  ASSUME ConstantsAssumption, LinksMayFail, TypeOK, Control, Guarded,
         NEW w \in Workers, SettleDelivery(w)
  PROVE  Guarded' /\ Lasting
<1> USE DEF WorkPcs, SettlePcs, RetryPcs, StoredPcs
<1>0. ControlAt(w) /\ GuardAt(w) /\ disp[w] \in Dispositions
  BY DEF Control, Guarded, TypeOK, WorkerTypeOK
<1>1. CASE EmitRetrying(w)
  <2>1. /\ AtWork(w) \/ disp[w] \in {"Completed", "Failed"}
        /\ CanPublish(w) => AtWork(w) /\ Leased(Dep(w))
    BY <1>0, <1>1 DEF EmitRetrying, GuardAt, AtWork, Dispositions, OverPcs
  <2>2. QED
    BY <1>1, <2>1, AnnounceGuarded DEF EmitRetrying
<1>2. CASE PublishRetry(w)
  <2>1. /\ pc[w] = "requeue" /\ UNCHANGED <<stage, leased>>
        /\ \/ CanPublish(w) /\ Goto(w, IF Counted(w) THEN "release" ELSE "ack")
           \/ Goto(w, "nackRequeue")
    BY <1>2, NoCallLost DEF PublishRetry, Confirmed, ledgerVars
  <2>2. CASE Goto(w, "nackRequeue")
    BY <2>1, <2>2, GotoGuarded
  <2>3. CASE Counted(w) /\ CanPublish(w) /\ Goto(w, IF Counted(w) THEN "release" ELSE "ack")
    <3>1. AtWork(w) /\ Leased(Dep(w))
      BY <1>0, <2>1, <2>3 DEF GuardAt, AtWork, Dispositions, Counted, OverPcs
    <3>2. QED
      BY <2>1, <2>3, <3>1, GotoGuarded
  <2>4. CASE ~Counted(w) /\ Goto(w, IF Counted(w) THEN "release" ELSE "ack")
    <3>1. Goto(w, "ack")
      BY <2>4
    <3>2. QED
      BY <2>1, <3>1, GotoGuarded
  <2>5. QED
    BY <2>1, <2>2, <2>3, <2>4
<1>3. CASE ReleaseClaim(w)
  <2>1. /\ pc[w] = "release"
        /\ Ledger!Write(Dep(w), "IN_PROGRESS") /\ Goto(w, "ack")
    BY <1>3, NoCallLost DEF ReleaseClaim, Persist, Ledger!Release
  <2>2. AtWork(w) /\ Leased(Dep(w))
    BY <1>0, <2>1 DEF GuardAt, AtWork, Dispositions, OverPcs
  <2>3. QED
    BY <2>1, <2>2, WriteGuarded
<1>4. CASE CopyToDLQ(w)
  <2>1. /\ pc[w] = "deadLetter" /\ UNCHANGED <<stage, leased>>
        /\ \E p \in SettlePcs : Goto(w, p)
    BY <1>4 DEF CopyToDLQ, ledgerVars
  <2>2. QED
    BY <2>1, GotoGuarded
<1>5. CASE Discard(w) \/ NackRequeue(w)
  <2>1. Finish(w) /\ UNCHANGED <<stage, leased>>
    BY <1>5 DEF Discard, NackRequeue, ledgerVars
  <2>2. Still(w) /\ pc'[w] = "idle" /\ disp'[w] = "none"
    BY <2>1 DEF Finish, Still, TypeOK, WorkerTypeOK
  <2>3. QED
    BY <2>1, <2>2, IdleGuarded
<1>6. QED
  BY <1>1, <1>2, <1>3, <1>4, <1>5 DEF SettleDelivery

(* A channel or the connection of w closes. *)
LEMMA LinkGuarded ==
  ASSUME TypeOK, Guarded, NEW w \in Workers, UNCHANGED <<stage, leased, pc, msg, disp, phase>>,
         NEW l \in {"noack", "nopub", "down"}, link' = [link EXCEPT ![w] = l],
         l = "noack" => link[w] = "up"
  PROVE  Guarded' /\ Lasting
<1>1. Still(w) /\ link'[w] = l
  BY DEF Still, TypeOK, WorkerTypeOK
<1>2. GuardAt(w) /\ (CanPublish(w)' => CanPublish(w))
  BY <1>1 DEF Guarded, CanPublish
<1>3. GuardAt(w)'
  BY <1>2 DEF GuardAt, AtWork, Dep, Over, Leased
<1>4. \A d \in Deployments : Driving(w, d)' => Driving(w, d)
  BY DEF Driving, Processing, AtWork, Dep
<1>5. QED
  BY <1>1, <1>3, <1>4, RowsUntouched

(* A step that moves no worker and writes no row. *)
LEMMA LeaseStepGuarded ==
  ASSUME TypeOK, Guarded, UNCHANGED <<stage, workerVars>>,
         \A w \in Workers : AtWork(w) /\ Dep(w) \in leased => Dep(w) \in leased'
  PROVE  Guarded' /\ Lasting
<1>1. \A w \in Workers : GuardAt(w)'
  BY DEF Guarded, GuardAt, Over, Leased, AtWork, Dep, CanPublish, workerVars
<1>2. OneDriver'
  BY DEF Guarded, OneDriver, Driving, Processing, AtWork, Dep, workerVars
<1>3. QED
  BY <1>1, <1>2 DEF Guarded, Lasting, Over

LEMMA FaultGuarded ==
  ASSUME ConstantsAssumption, LinksMayFail, TypeOK, Guarded, Fault
  PROVE  Guarded' /\ Lasting
<1>1. ASSUME NEW d \in Deployments, Republish(d) PROVE Guarded' /\ Lasting
  BY <1>1, LeaseStepGuarded DEF Republish, ledgerVars
<1>2. ASSUME NEW w \in Workers, Crash(w) PROVE Guarded' /\ Lasting
  <2>1. Still(w) /\ pc'[w] = "idle" /\ disp'[w] = "none" /\ UNCHANGED <<stage, leased>>
    BY <1>2 DEF Crash, Still, TypeOK, WorkerTypeOK, ledgerVars
  <2>2. QED
    BY <2>1, IdleGuarded
<1>3. ASSUME NEW w \in Workers, LoseConsumerChannel(w) PROVE Guarded' /\ Lasting
  <2>1. /\ UNCHANGED <<stage, leased, pc, msg, disp, phase>>
        /\ link' = [link EXCEPT ![w] = IF link[w] = "up" THEN "noack" ELSE "down"]
    BY <1>3 DEF LoseConsumerChannel, ledgerVars
  <2>2. QED
    BY <2>1, LinkGuarded
<1>4. ASSUME NEW w \in Workers, LosePublisherChannel(w) PROVE Guarded' /\ Lasting
  <2>1. /\ UNCHANGED <<stage, leased, pc, msg, disp, phase>>
        /\ link' = [link EXCEPT ![w] = IF link[w] = "up" THEN "nopub" ELSE "down"]
    BY <1>4 DEF LosePublisherChannel, ledgerVars
  <2>2. QED
    BY <2>1, LinkGuarded
<1>5. ASSUME NEW w \in Workers, LoseConnection(w) PROVE Guarded' /\ Lasting
  <2>1. /\ UNCHANGED <<stage, leased, pc, msg, disp, phase>>
        /\ link' = [link EXCEPT ![w] = "down"]
    BY <1>5 DEF LoseConnection, ledgerVars
  <2>2. QED
    BY <2>1, LinkGuarded
<1>6. QED
  BY <1>1, <1>2, <1>3, <1>4, <1>5, NoCallLost DEF Fault, LeaseMissed

LEMMA GuardStep ==
  ASSUME ConstantsAssumption, LinksMayFail, TypeOK, Control, Guarded, [Next]_vars
  PROVE  Guarded' /\ Lasting
<1>1. ASSUME UNCHANGED <<stage, leased, workerVars>> PROVE Guarded' /\ Lasting
  BY <1>1, LeaseStepGuarded
<1>2. ASSUME NEW w \in Workers, Renew(w) PROVE Guarded' /\ Lasting
  BY <1>2, LeaseStepGuarded DEF Renew, Ledger!Renew
<1>3. ASSUME NEW d \in Deployments, LeaseRunsOut(d) PROVE Guarded' /\ Lasting
  BY <1>3, LeaseStepGuarded DEF LeaseRunsOut, Ledger!Expire
<1>4. QED
  BY <1>1, <1>2, <1>3, HandleMessageGuarded, SettleDeliveryGuarded, FaultGuarded
     DEF Next, Work, RetryExpires, Quiet, vars, ledgerVars

LEMMA GuardInvariant ==
  ASSUME ConstantsAssumption, LinksMayFail
  PROVE  Spec => [](TypeOK /\ Control /\ Guarded)
<1>1. Init => Guarded
  BY DEF Init, Guarded, OneDriver, GuardAt, Driving, Processing, AtWork, SettlePcs
<1>2. TypeOK /\ Control /\ Guarded /\ [Next]_vars => Guarded'
  BY GuardStep
<1>3. QED
  BY <1>1, <1>2, ControlAndHistory, PTL DEF Spec

(* The lease is a lock: one worker at a time drives a deployment, for any  *)
(* number of processes, crashes and redeliveries, also while channels and  *)
(* connections close: a worker that cannot publish cannot release.         *)
THEOREM LeaseIsALock ==
  ASSUME ConstantsAssumption, LinksMayFail PROVE Spec => []OneDriver
<1>1. Guarded => OneDriver
  BY DEF Guarded
<1>2. QED
  BY <1>1, GuardInvariant, PTL

(* Nor is a finished deployment ever opened again, to be driven a second   *)
(* time, although its row may turn from COMPLETED to FAILED.               *)
THEOREM FinishedNeverReopens ==
  ASSUME ConstantsAssumption, LinksMayFail PROVE Spec => NeverReopened
<1>1. TypeOK /\ Control /\ Guarded /\ [Next]_vars
        => [\A d \in Deployments : Over(d) => Over(d)']_vars
  BY GuardStep DEF Lasting, Over
<1>2. QED
  BY <1>1, GuardInvariant, PTL DEF Spec, NeverReopened
=============================================================================

---------------------------- MODULE RolloutProofs ----------------------------
(***************************************************************************)
(* A success is a rollout: for any number of builds and replicas, and      *)
(* however many updates by however many workers.  The status that is       *)
(* polled is as old as it likes; what makes it safe is the generation in   *)
(* it.                                                                     *)
(***************************************************************************)
EXTENDS Rollout, FiniteSetTheorems, TLAPS

(* A set of slots fits into the room for pods. *)
LEMMA SlotCounts ==
  ASSUME RolloutAssumption, NEW S \in SUBSET Slots
  PROVE  IsFiniteSet(S) /\ Cardinality(S) \in Counts
<1>1. IsFiniteSet(Slots) /\ Cardinality(Slots) = Replicas + 1 /\ Replicas \in Nat
  BY DEF RolloutAssumption
<1>2. IsFiniteSet(S) /\ Cardinality(S) <= Cardinality(Slots)
  BY <1>1, FS_Subset
<1>3. Cardinality(S) \in Nat
  BY <1>2, FS_CardinalityType
<1>4. QED
  BY <1>1, <1>2, <1>3 DEF Counts

LEMMA PodSets ==
  ASSUME TypeOK
  PROVE  /\ Running \subseteq Slots /\ Updated \subseteq Running
         /\ up \subseteq Running
  BY DEF TypeOK, Running, Updated, Images

(* Three counts of Replicas leave no pod that is old or not ready. *)
LEMMA CountsTell ==
  ASSUME RolloutAssumption, TypeOK,
         Cardinality(Updated) = Replicas, Cardinality(Running) = Replicas,
         Cardinality(up) = Replicas
  PROVE  RolledOut
<1>1. IsFiniteSet(Running)
  BY PodSets, SlotCounts
<1>2. Updated = Running
  BY <1>1, PodSets, FS_Subset
<1>3. up = Running
  BY <1>1, PodSets, FS_Subset
<1>4. QED
  BY <1>2, <1>3 DEF RolledOut

LEMMA UpdateTypes ==
  ASSUME RolloutAssumption, TypeOK, NEW b \in Builds, UpdateDeployment(b)
  PROVE  /\ image' \in Images /\ generation' \in Generations
         /\ generation <= generation' /\ generation' \in Nat
  BY DEF RolloutAssumption, TypeOK, UpdateDeployment, Images, Generations

LEMMA ActTypes ==
  ASSUME TypeOK, NEW answer \in {"failed", "ready", "timeout", "retriable", "fatal"},
         Act(answer)
  PROVE  TypeOK'
<1>1. UNCHANGED <<image, generation, pod, up, status, rolledOut, stuck, mine>>
  BY DEF Act, AfterWait, AfterCheck, End, clusterVars
<1>2. /\ pc' \in {"idle", "wait", "check", "publish"}
      /\ expired' \in BOOLEAN /\ foundReady' \in BOOLEAN
      /\ verdict' \in Verdicts /\ (verdict' # "none" => pc' = "idle")
  BY DEF TypeOK, Act, AfterWait, AfterCheck, End, Verdicts
<1>3. QED
  BY <1>1, <1>2 DEF TypeOK, Images

LEMMA AnswerKinds ==
  /\ Answers \subseteq {"failed", "ready", "timeout", "retriable", "fatal"}
  /\ GetErrors \subseteq {"failed", "ready", "timeout", "retriable", "fatal"}
  BY DEF Answers, GetErrors

LEMMA TypeStep ==
  ASSUME RolloutAssumption, TypeOK, [Next]_vars
  PROVE  TypeOK'
<1> USE DEF Verdicts
<1>1. ASSUME NEW s \in Slots, StartPod(s) PROVE TypeOK'
  <2>1. pod' \in [Slots -> Images] /\ up' = up
        /\ \A t \in up : pod'[t] # NoBuild
    BY <1>1 DEF StartPod, TypeOK
  <2>2. QED
    BY <1>1, <2>1 DEF StartPod, TypeOK, workerVars
<1>2. ASSUME NEW s \in Slots, PodReady(s) PROVE TypeOK'
  BY <1>2 DEF PodReady, TypeOK, workerVars
<1>3. ASSUME NEW s \in Slots, PodUnready(s) PROVE TypeOK'
  BY <1>3 DEF PodUnready, TypeOK, workerVars
<1>4. ASSUME NEW s \in Slots, StopPod(s) PROVE TypeOK'
  <2>1. pod' \in [Slots -> Images] /\ up' \subseteq {t \in Slots : pod'[t] # NoBuild}
    BY <1>4 DEF StopPod, TypeOK, Images
  <2>2. QED
    BY <1>4, <2>1 DEF StopPod, TypeOK, workerVars
<1>5. CASE Report
  <2>1. /\ Cardinality(Updated) \in Counts /\ Cardinality(Running) \in Counts
        /\ Cardinality(up) \in Counts
    BY PodSets, SlotCounts
  <2>2. status' \in Reports /\ stuck' \in Generations /\ rolledOut' \in Generations
    BY <1>5, <2>1 DEF Report, TypeOK, Reports
  <2>3. QED
    BY <1>5, <2>2 DEF Report, TypeOK, workerVars
<1>6. CASE Deploy
  <2>1. image' \in Images /\ generation' \in Generations
    BY <1>6, UpdateTypes DEF Deploy
  <2>2. UNCHANGED <<pod, up, status, rolledOut, stuck>>
    BY <1>6 DEF Deploy, UpdateDeployment
  <2>3. QED
    BY <1>6, <2>1, <2>2 DEF Deploy, TypeOK
<1>7. CASE Overwrite
  <2>1. image' \in Images /\ generation' \in Generations
    BY <1>7, UpdateTypes DEF Overwrite
  <2>2. UNCHANGED <<pod, up, status, rolledOut, stuck>>
    BY <1>7 DEF Overwrite, UpdateDeployment
  <2>3. QED
    BY <1>7, <2>1, <2>2 DEF Overwrite, TypeOK, workerVars
<1>8. CASE Poll \/ GetFails
  BY <1>8, ActTypes, AnswerKinds DEF Poll, GetFails
<1>9. CASE PublishRolloutSuccess
  BY <1>9 DEF PublishRolloutSuccess, End, clusterVars, TypeOK
<1>10. CASE DeadlinePasses
  BY <1>10 DEF DeadlinePasses, clusterVars, TypeOK
<1>11. CASE UNCHANGED vars
  BY <1>11 DEF vars, clusterVars, workerVars, TypeOK
<1>12. QED
  BY <1>1, <1>2, <1>3, <1>4, <1>5, <1>6, <1>7, <1>8, <1>9, <1>10, <1>11
  DEF Next, Cluster, Worker

LEMMA TypeInit ==
  ASSUME RolloutAssumption, Init
  PROVE  TypeOK
<1>1. 0 \in Generations /\ 0 \in Counts
  BY DEF RolloutAssumption, Generations, Counts
<1>2. status \in Reports
  BY <1>1 DEF Init, Reports
<1>3. QED
  BY <1>1, <1>2 DEF Init, TypeOK, Images, Verdicts

(* Every variable keeps its type, there is never a verdict during a wait,   *)
(* and the numbers the controller reports are ones a Deployment can have.  *)
THEOREM RolloutTyped ==
  ASSUME RolloutAssumption
  PROVE  Spec => []TypeOK
<1>1. Init => TypeOK
  BY TypeInit
<1>2. TypeOK /\ [Next]_vars => TypeOK'
  BY TypeStep
<1>3. QED
  BY <1>1, <1>2, PTL DEF Spec
-----------------------------------------------------------------------------
(* Three counts of Replicas in a status tell of a rollout of the           *)
(* generation it observed; nothing is ahead of the newest generation; and  *)
(* a worker that goes on with a live context to publish its success has    *)
(* seen a rollout.                                                         *)
StatusTells ==
    /\ status.updated = Replicas
    /\ status.replicas = Replicas
    /\ status.available = Replicas
    => rolledOut >= status.observed
Ordered == mine <= generation /\ rolledOut <= generation
Witnessed == pc = "publish" /\ ~expired => rolledOut >= mine
RolloutInvariant == StatusTells /\ Ordered /\ Witnessed /\ SuccessIsRolledOut

LEMMA NaturalNumbers ==
  ASSUME RolloutAssumption, TypeOK
  PROVE  /\ generation \in Nat /\ rolledOut \in Nat /\ mine \in Nat
         /\ status.observed \in Nat /\ Replicas \in Nat \ {0}
  BY DEF RolloutAssumption, TypeOK, Generations, Reports

LEMMA RolloutStep ==
  ASSUME RolloutAssumption, TypeOK, RolloutInvariant, [Next]_vars
  PROVE  RolloutInvariant'
<1> USE DEF RolloutInvariant
<1>1. CASE UNCHANGED <<generation, status, rolledOut, workerVars>>
  BY <1>1 DEF StatusTells, Ordered, Witnessed, SuccessIsRolledOut, workerVars
<1>2. CASE Report
  <2>1. /\ generation' = generation /\ mine' = mine /\ pc' = pc
        /\ expired' = expired /\ verdict' = verdict
    BY <1>2 DEF Report, workerVars
  <2>2. rolledOut <= rolledOut' /\ rolledOut' <= generation /\ rolledOut' \in Nat
    BY <1>2, NaturalNumbers DEF Report, Ordered
  <2>3. StatusTells'
    <3>1. /\ status'.observed = generation
          /\ status'.updated = Cardinality(Updated)
          /\ status'.replicas = Cardinality(Running)
          /\ status'.available = Cardinality(up)
      BY <1>2 DEF Report
    <3>2. RolledOut => rolledOut' = generation
      BY <1>2 DEF Report
    <3>3. QED
      BY <3>1, <3>2, CountsTell, NaturalNumbers DEF StatusTells
  <2>4. Ordered' /\ Witnessed' /\ SuccessIsRolledOut'
    BY <2>1, <2>2, NaturalNumbers DEF Ordered, Witnessed, SuccessIsRolledOut
  <2>5. QED
    BY <2>3, <2>4
<1>3. CASE Deploy
  <2>1. generation <= generation' /\ generation' \in Nat
    BY <1>3, UpdateTypes DEF Deploy
  <2>2. status' = status /\ rolledOut' = rolledOut
    BY <1>3 DEF Deploy, UpdateDeployment
  <2>3. mine' = generation' /\ pc' = "wait" /\ verdict' = "none"
    BY <1>3 DEF Deploy
  <2>4. QED
    BY <2>1, <2>2, <2>3, NaturalNumbers
    DEF StatusTells, Ordered, Witnessed, SuccessIsRolledOut
<1>4. CASE Overwrite
  <2>1. generation <= generation' /\ generation' \in Nat
    BY <1>4, UpdateTypes DEF Overwrite
  <2>2. status' = status /\ rolledOut' = rolledOut
    BY <1>4 DEF Overwrite, UpdateDeployment
  <2>3. UNCHANGED workerVars
    BY <1>4 DEF Overwrite
  <2>4. QED
    BY <2>1, <2>2, <2>3, NaturalNumbers
    DEF StatusTells, Ordered, Witnessed, SuccessIsRolledOut, workerVars
<1>5. ASSUME NEW answer \in Answers \union GetErrors, Act(answer)
      PROVE  RolloutInvariant'
  <2>1. UNCHANGED <<image, generation, pod, up, status, rolledOut, stuck, mine>>
    BY <1>5 DEF Act, AfterWait, AfterCheck, End, clusterVars
  <2>2. answer = "ready" => rolledOut >= mine
    <3>1. SUFFICES ASSUME answer = "ready" PROVE rolledOut >= mine
      OBVIOUS
    <3>2. deploymentRolloutComplete
      BY <1>5, <3>1 DEF Answers, GetErrors
    <3>3. rolledOut >= status.observed /\ generation <= status.observed
      BY <3>2 DEF deploymentRolloutComplete, StatusTells
    <3>4. QED
      BY <3>3, NaturalNumbers DEF Ordered
  <2>3. verdict' # "success"
    BY <1>5 DEF Act, AfterWait, AfterCheck, End, TypeOK
  <2>4. pc' = "publish" /\ ~expired' => answer = "ready"
    BY <1>5 DEF Act, AfterWait, AfterCheck, End
  <2>5. QED
    BY <2>1, <2>2, <2>3, <2>4
    DEF StatusTells, Ordered, Witnessed, SuccessIsRolledOut
<1>6. CASE PublishRolloutSuccess
  <2>1. UNCHANGED <<generation, status, rolledOut, mine>> /\ pc' = "idle"
    BY <1>6 DEF PublishRolloutSuccess, End, clusterVars
  <2>2. verdict' = "success" => rolledOut >= mine
    BY <1>6 DEF PublishRolloutSuccess, End, Witnessed
  <2>3. QED
    BY <2>1, <2>2 DEF StatusTells, Ordered, Witnessed, SuccessIsRolledOut
<1>7. CASE DeadlinePasses
  BY <1>7 DEF DeadlinePasses, clusterVars, StatusTells, Ordered, Witnessed,
              SuccessIsRolledOut
<1>8. (\E s \in Slots : StartPod(s) \/ PodReady(s) \/ PodUnready(s) \/ StopPod(s))
         => UNCHANGED <<generation, status, rolledOut, workerVars>>
  BY DEF StartPod, PodReady, PodUnready, StopPod
<1>9. UNCHANGED vars => UNCHANGED <<generation, status, rolledOut, workerVars>>
  BY DEF vars, clusterVars
<1>10. QED
  BY <1>1, <1>2, <1>3, <1>4, <1>5, <1>6, <1>7, <1>8, <1>9
  DEF Next, Cluster, Worker, Poll, GetFails

LEMMA RolloutInit ==
  ASSUME RolloutAssumption, Init
  PROVE  RolloutInvariant
  BY DEF RolloutAssumption, Init, RolloutInvariant, StatusTells, Ordered, Witnessed,
         SuccessIsRolledOut

(* A build is announced as running only if what its Deploy left behind, or *)
(* what another worker has put in its place, was rolled out completely,    *)
(* for any number of replicas and updates and however stale the status.    *)
THEOREM SuccessMeansRolledOut ==
  ASSUME RolloutAssumption
  PROVE  Spec => []SuccessIsRolledOut
<1>1. Init => TypeOK /\ RolloutInvariant
  BY TypeInit, RolloutInit
<1>2. TypeOK /\ RolloutInvariant /\ [Next]_vars => (TypeOK /\ RolloutInvariant)'
  BY TypeStep, RolloutStep
<1>3. RolloutInvariant => SuccessIsRolledOut
  BY DEF RolloutInvariant
<1>4. QED
  BY <1>1, <1>2, <1>3, PTL DEF Spec
=============================================================================

--------------------------- MODULE ReconcilerProofs ---------------------------
(***************************************************************************)
(* What Deploys can and cannot do to each other, for any number of builds, *)
(* slugs, services, rounds of RetryOnConflict and failing calls.  Every    *)
(* call of a Deploy is first reduced to its effect: where its build goes,  *)
(* and what happens to the objects; the properties are then proved from    *)
(* the effects.                                                            *)
(***************************************************************************)
EXTENDS Reconciler, TLAPS

Results == {"none", "ok", "retriable", "fatal"}

(* Where a build is after its call. *)
Moved(b) ==
    /\ at' \in [Builds -> Places] /\ call' \in [Builds -> Calls]
    /\ outcome' \in [Builds -> Results]
    /\ undisturbed' = undisturbed
    /\ \A c \in Builds \ {b} :
          at'[c] = at[c] /\ call'[c] = call[c] /\ outcome'[c] = outcome[c]
WentTo(b, next) ==
    Moved(b) /\ at'[b] = at[b] /\ call'[b] = next /\ outcome'[b] = outcome[b]
Failed(b) ==
    /\ Moved(b) /\ at'[b] = at[b]
    /\ call'[b] = "idle" /\ outcome'[b] \in {"retriable", "fatal"}
Following(place) ==
    CASE place = "namespace" -> "secret"
      [] place = "secret" -> "deployment"
      [] place = "deployment" -> "service"
      [] OTHER -> "ingress"
Advanced(b) ==
    /\ Moved(b) /\ at'[b] = Following(at[b])
    /\ at[b] # "ingress" => call'[b] = "get" /\ outcome'[b] = outcome[b]
    /\ at[b] = "ingress" => call'[b] = "idle" /\ outcome'[b] = "ok"

(* What is needed of the rest, and of where calls are made. *)
MinorTyped ==
    /\ fresh \subseteq Builds /\ versioned \subseteq Builds
    /\ tries \in [Builds -> 0 .. (MaxTries - 1)]
    /\ faults \in 0 .. MaxFaults
Placed(b) ==
    /\ call[b] \in {"latest", "update"} => at[b] # "namespace"
    /\ call[b] \in {"delete", "await"} => at[b] = "deployment"
Kept ==
    /\ \A s \in Slugs : holder[<<"deployment", s>>] # Nobody => s \in existed
    /\ \A b \in Builds : Placed(b) /\ (Active(b) => outcome[b] = "none")
Inv == TypeOK /\ Kept

LEMMA StepMoves ==
  ASSUME TypeOK, NEW b \in Builds, NEW place \in Places, NEW next \in Calls,
         Step(b, place, next)
  PROVE  /\ Moved(b) /\ at'[b] = place /\ call'[b] = next
         /\ outcome'[b] = outcome[b]
  BY DEF TypeOK, Step, Moved, Results

LEMMA GotoMoves ==
  ASSUME TypeOK, NEW b \in Builds, NEW next \in Calls, Goto(b, next)
  PROVE  WentTo(b, next)
<1>1. at[b] \in Places
  BY DEF TypeOK
<1>2. QED
  BY <1>1, StepMoves DEF Goto, WentTo

LEMMA AnswerMoves ==
  ASSUME TypeOK, NEW b \in Builds, NEW result \in Results, Answer(b, result)
  PROVE  /\ Moved(b) /\ at'[b] = at[b] /\ call'[b] = "idle" /\ outcome'[b] = result
<1>1. "idle" \in Calls
  BY DEF Calls
<1>2. QED
  BY <1>1 DEF TypeOK, Answer, Moved, Results

LEMMA FailureMoves ==
  ASSUME TypeOK, NEW b \in Builds, Fails(b) \/ Answer(b, "retriable")
  PROVE  Failed(b)
<1>1. "fatal" \in Results /\ "retriable" \in Results
  BY DEF Results
<1>2. QED
  BY <1>1, AnswerMoves DEF Fails, Failed

LEMMA AdvanceMoves ==
  ASSUME TypeOK, NEW b \in Builds, Advance(b)
  PROVE  Advanced(b)
<1>1. at[b] \in Places /\ "get" \in Calls /\ "ok" \in Results
  BY DEF TypeOK, Calls, Results
<1>2. {"secret", "deployment", "service", "ingress"} \subseteq Places
  BY DEF Places, Kinds
<1>3. CASE at[b] = "namespace"
  BY <1>1, <1>2, <1>3, StepMoves DEF Advance, Advanced, Following
<1>4. CASE at[b] = "secret"
  BY <1>1, <1>2, <1>4, StepMoves DEF Advance, Advanced, Following
<1>5. CASE at[b] = "deployment"
  BY <1>1, <1>2, <1>5, StepMoves DEF Advance, Advanced, Following
<1>6. CASE at[b] = "service"
  BY <1>1, <1>2, <1>6, StepMoves DEF Advance, Advanced, Following
<1>7. CASE at[b] = "ingress"
  BY <1>1, <1>7, AnswerMoves DEF Advance, Advanced, Following
<1>8. QED
  BY <1>1, <1>3, <1>4, <1>5, <1>6, <1>7 DEF Places, Kinds

LEMMA NotDoneMoves ==
  ASSUME ReconcilerAssumption, TypeOK, NEW b \in Builds, NotDone(b)
  PROVE  Failed(b) /\ faults' \in 0 .. MaxFaults
<1>1. Failed(b)
  BY FailureMoves DEF NotDone, Unanswered
<1>2. faults' \in 0 .. MaxFaults
  BY DEF ReconcilerAssumption, TypeOK, NotDone, Unanswered, Fault
<1>3. QED
  BY <1>1, <1>2

LEMMA UnansweredMoves ==
  ASSUME ReconcilerAssumption, TypeOK, NEW b \in Builds, Unanswered(b)
  PROVE  Failed(b) /\ faults' \in 0 .. MaxFaults
  BY NotDoneMoves DEF NotDone
-----------------------------------------------------------------------------
(* The effects of the calls. *)
Looks(b) ==
    /\ UNCHANGED serverVars
    /\ \/ at[b] = "namespace" /\ namespace = "ours" /\ Advanced(b)
       \/ at[b] = "namespace" /\ (WentTo(b, "create") \/ WentTo(b, "recheck"))
       \/ at[b] # "namespace" /\ ~Exists(b) /\ WentTo(b, "create")
       \/ at[b] # "namespace" /\ (WentTo(b, "latest") \/ WentTo(b, "update"))
       \/ at[b] = "deployment" /\ Exists(b) /\ ~SameSelector(b) /\ WentTo(b, "delete")
       \/ Failed(b)
MakesNamespace(b) ==
    /\ at[b] = "namespace" /\ namespace = "absent" /\ namespace' = "ours"
    /\ UNCHANGED <<holder, deleting, existed, misled>>
    /\ Advanced(b) \/ Failed(b)
Writes(b) ==
    /\ at[b] # "namespace" /\ (~Exists(b) \/ SameSelector(b))
    /\ Write(b)
    /\ Advanced(b) \/ Failed(b)
Deletes(b) ==
    /\ call[b] = "delete" /\ at[b] = "deployment"
    /\ deleting' = IF Exists(b) THEN deleting \union {Slug[b]} ELSE deleting
    /\ misled' = IF Exists(b) /\ SameSelector(b) THEN misled \union {Slug[b]} ELSE misled
    /\ UNCHANGED <<namespace, holder, existed>>
    /\ WentTo(b, "await") \/ Failed(b)
Effect(b) ==
    /\ MinorTyped'
    /\ Looks(b) \/ MakesNamespace(b) \/ Writes(b) \/ Deletes(b)

LEMMA CallNames ==
  {"idle", "get", "recheck", "latest", "update", "create", "delete", "await"} \subseteq Calls
  BY DEF Calls

LEMMA Selectors ==
  ASSUME NEW b, ~SameSelector(b)
  PROVE  at[b] = "deployment"
  BY DEF SameSelector

LEMMA MinorOf ==
  ASSUME TypeOK
  PROVE  MinorTyped
  BY DEF TypeOK, MinorTyped

LEMMA EffectOfNamespaceCalls ==
  ASSUME ReconcilerAssumption, Inv, NEW b \in Builds,
         GetNamespace(b) \/ CreateNamespace(b)
  PROVE  Effect(b)
<1>1. MinorTyped /\ TypeOK
  BY MinorOf DEF Inv
<1>2. CASE GetNamespace(b)
  <2>1. UNCHANGED serverVars /\ UNCHANGED <<fresh, versioned, tries>>
    BY <1>2 DEF GetNamespace, ReadOnly
  <2>2. CASE NotDone(b)
    BY <1>1, <2>1, <2>2, NotDoneMoves DEF Effect, Looks, MinorTyped
  <2>3. CASE namespace = "ours" /\ Advance(b) /\ UNCHANGED faults
    BY <1>1, <1>2, <2>1, <2>3, AdvanceMoves DEF Effect, Looks, MinorTyped, GetNamespace
  <2>4. CASE Fails(b) /\ UNCHANGED faults
    BY <1>1, <2>1, <2>4, FailureMoves DEF Effect, Looks, MinorTyped
  <2>5. CASE Goto(b, "create") /\ UNCHANGED faults
    BY <1>1, <1>2, <2>1, <2>5, GotoMoves, CallNames
    DEF Effect, Looks, MinorTyped, GetNamespace
  <2>6. QED
    BY <1>2, <2>2, <2>3, <2>4, <2>5 DEF GetNamespace, Answered
<1>3. CASE CreateNamespace(b)
  <2>1. at[b] = "namespace" /\ UNCHANGED <<holder, deleting, existed, misled, fresh,
                                           versioned, tries>>
    BY <1>3 DEF CreateNamespace
  <2>2. \/ namespace' = namespace
        \/ namespace = "absent" /\ namespace' = "ours"
    BY <1>3 DEF CreateNamespace
  <2>3. CASE NotDone(b)
    BY <1>1, <2>1, <2>2, <2>3, NotDoneMoves
    DEF Effect, Looks, MakesNamespace, MinorTyped, serverVars
  <2>4. CASE namespace = "absent" /\ namespace' = "ours" /\ Advance(b) /\ UNCHANGED faults
    BY <1>1, <2>1, <2>4, AdvanceMoves DEF Effect, MakesNamespace, MinorTyped
  <2>5. CASE /\ namespace # "absent" /\ namespace' = namespace
             /\ Goto(b, "recheck") /\ UNCHANGED faults
    BY <1>1, <2>1, <2>5, GotoMoves, CallNames DEF Effect, Looks, MinorTyped, serverVars
  <2>6. QED
    BY <1>3, <2>3, <2>4, <2>5 DEF CreateNamespace, Answered, NotDone
<1>4. QED
  BY <1>2, <1>3

LEMMA EffectOfReads ==
  ASSUME ReconcilerAssumption, Inv, NEW b \in Builds,
         Get(b) \/ GetLatest(b) \/ Await(b) \/ ContextEnds(b)
  PROVE  Effect(b)
<1>1. MinorTyped /\ TypeOK /\ Placed(b)
  BY MinorOf DEF Inv, Kept
<1>2. CASE Get(b)
  <2>1. /\ at[b] # "namespace" /\ UNCHANGED serverVars /\ UNCHANGED <<fresh, versioned>>
        /\ tries' = [tries EXCEPT ![b] = 0]
    BY <1>2 DEF Get
  <2>2. tries' \in [Builds -> 0 .. (MaxTries - 1)]
    BY <1>1, <2>1 DEF MinorTyped, ReconcilerAssumption
  <2>3. CASE NotDone(b)
    BY <1>1, <2>1, <2>2, <2>3, NotDoneMoves DEF Effect, Looks, MinorTyped
  <2>4. CASE ~Exists(b) /\ Goto(b, "create") /\ UNCHANGED faults
    BY <1>1, <2>1, <2>2, <2>4, GotoMoves, CallNames DEF Effect, Looks, MinorTyped
  <2>5. CASE Goto(b, "latest") /\ UNCHANGED faults
    BY <1>1, <2>1, <2>2, <2>5, GotoMoves, CallNames DEF Effect, Looks, MinorTyped
  <2>6. CASE Exists(b) /\ ~SameSelector(b) /\ Goto(b, "delete") /\ UNCHANGED faults
    BY <1>1, <2>1, <2>2, <2>6, GotoMoves, CallNames, Selectors
    DEF Effect, Looks, MinorTyped
  <2>7. QED
    BY <1>2, <2>3, <2>4, <2>5, <2>6 DEF Get, Answered
<1>3. CASE GetLatest(b)
  <2>1. /\ UNCHANGED serverVars /\ UNCHANGED tries /\ call[b] = "latest"
        /\ fresh' \subseteq Builds /\ versioned' \subseteq Builds
    BY <1>1, <1>3 DEF GetLatest, MinorTyped
  <2>2. CASE NotDone(b)
    BY <1>1, <2>1, <2>2, NotDoneMoves DEF Effect, Looks, MinorTyped
  <2>3. CASE Goto(b, "update") /\ UNCHANGED faults
    BY <1>1, <2>1, <2>3, GotoMoves, CallNames DEF Effect, Looks, MinorTyped, Placed
  <2>4. CASE Fails(b) /\ UNCHANGED faults
    BY <1>1, <2>1, <2>4, FailureMoves DEF Effect, Looks, MinorTyped
  <2>5. QED
    BY <1>3, <2>2, <2>3, <2>4 DEF GetLatest, Answered
<1>4. CASE Await(b)
  <2>1. UNCHANGED serverVars /\ UNCHANGED <<fresh, versioned, tries>> /\ call[b] = "await"
    BY <1>4 DEF Await, ReadOnly
  <2>2. CASE NotDone(b)
    BY <1>1, <2>1, <2>2, NotDoneMoves DEF Effect, Looks, MinorTyped
  <2>3. CASE ~Exists(b) /\ Goto(b, "create") /\ UNCHANGED faults
    BY <1>1, <2>1, <2>3, GotoMoves, CallNames DEF Effect, Looks, MinorTyped, Placed
  <2>4. QED
    BY <1>4, <2>2, <2>3 DEF Await, Answered
<1>5. CASE ContextEnds(b)
  BY <1>1, <1>5, FailureMoves DEF ContextEnds, ReadOnly, Answered, Effect, Looks, MinorTyped
<1>6. QED
  BY <1>2, <1>3, <1>4, <1>5

LEMMA EffectOfWrites ==
  ASSUME ReconcilerAssumption, Inv, NEW b \in Builds,
         Update(b) \/ Create(b) \/ Delete(b)
  PROVE  Effect(b)
<1>1. MinorTyped /\ TypeOK /\ Placed(b)
  BY MinorOf DEF Inv, Kept
<1>2. CASE Update(b)
  <2>1. call[b] = "update" /\ at[b] # "namespace" /\ UNCHANGED versioned
    BY <1>1, <1>2 DEF Update, Placed
  <2>2. CASE Conflict(b)
    <3>1. UNCHANGED <<serverVars, fresh, faults>>
      BY <2>2 DEF Conflict
    <3>2. CASE Goto(b, "latest") /\ tries[b] + 1 < MaxTries
               /\ tries' = [tries EXCEPT ![b] = @ + 1]
      <4>1. tries[b] + 1 \in 0 .. (MaxTries - 1)
        BY <1>1, <3>2 DEF MinorTyped, ReconcilerAssumption
      <4>2. tries' \in [Builds -> 0 .. (MaxTries - 1)]
        BY <1>1, <3>2, <4>1 DEF MinorTyped
      <4>3. QED
        BY <1>1, <2>1, <3>1, <3>2, <4>2, GotoMoves, CallNames
        DEF Effect, Looks, MinorTyped
    <3>3. CASE Fails(b) /\ UNCHANGED tries
      BY <1>1, <2>1, <3>1, <3>3, FailureMoves DEF Effect, Looks, MinorTyped
    <3>4. QED
      BY <2>2, <3>2, <3>3 DEF Conflict
  <2>3. CASE Fails(b) /\ UNCHANGED faults /\ UNCHANGED <<serverVars, fresh, tries>>
    BY <1>1, <2>1, <2>3, FailureMoves DEF Effect, Looks, MinorTyped
  <2>4. CASE /\ Exists(b) /\ ~SameSelector(b) /\ Goto(b, "delete") /\ UNCHANGED faults
             /\ UNCHANGED <<serverVars, fresh, tries>>
    BY <1>1, <2>1, <2>4, GotoMoves, CallNames, Selectors DEF Effect, Looks, MinorTyped
  <2>5. CASE /\ Exists(b) /\ SameSelector(b) /\ Write(b) /\ UNCHANGED tries
             /\ (Advance(b) /\ UNCHANGED faults) \/ Unanswered(b)
    <3>1. fresh' \subseteq Builds
      BY <1>1, <2>5 DEF Write, Outdates, MinorTyped
    <3>2. (Advanced(b) \/ Failed(b)) /\ faults' \in 0 .. MaxFaults
      BY <1>1, <2>5, AdvanceMoves, UnansweredMoves DEF MinorTyped
    <3>3. QED
      BY <1>1, <2>1, <2>5, <3>1, <3>2 DEF Effect, Writes, MinorTyped
  <2>6. CASE NotDone(b) /\ UNCHANGED <<serverVars, fresh, tries>>
    BY <1>1, <2>1, <2>6, NotDoneMoves DEF Effect, Looks, MinorTyped
  <2>7. QED
    BY <1>2, <2>2, <2>3, <2>4, <2>5, <2>6 DEF Update, Answered
<1>3. CASE Create(b)
  <2>1. at[b] # "namespace" /\ UNCHANGED <<versioned, tries>>
    BY <1>3 DEF Create
  <2>2. CASE /\ (Fails(b) /\ UNCHANGED faults) \/ NotDone(b)
             /\ UNCHANGED <<serverVars, fresh>>
    BY <1>1, <2>1, <2>2, FailureMoves, NotDoneMoves DEF Effect, Looks, MinorTyped
  <2>3. CASE /\ ~Exists(b) /\ Write(b)
             /\ (Advance(b) /\ UNCHANGED faults) \/ Unanswered(b)
    <3>1. fresh' \subseteq Builds
      BY <1>1, <2>3 DEF Write, Outdates, MinorTyped
    <3>2. (Advanced(b) \/ Failed(b)) /\ faults' \in 0 .. MaxFaults
      BY <1>1, <2>3, AdvanceMoves, UnansweredMoves DEF MinorTyped
    <3>3. QED
      BY <1>1, <2>1, <2>3, <3>1, <3>2 DEF Effect, Writes, MinorTyped
  <2>4. QED
    BY <1>3, <2>2, <2>3 DEF Create, Answered, Rejected
<1>4. CASE Delete(b)
  <2>1. /\ call[b] = "delete" /\ at[b] = "deployment"
        /\ UNCHANGED <<namespace, holder, existed, versioned, tries>>
    BY <1>1, <1>4 DEF Delete, Placed
  <2>2. CASE NotDone(b) /\ UNCHANGED <<deleting, misled, fresh>>
    BY <1>1, <2>1, <2>2, NotDoneMoves DEF Effect, Looks, MinorTyped, serverVars
  <2>3. CASE /\ deleting' = IF Exists(b) THEN deleting \union {Slug[b]} ELSE deleting
             /\ misled' = IF Exists(b) /\ SameSelector(b)
                          THEN misled \union {Slug[b]} ELSE misled
             /\ Outdates(b, Object(b))
             /\ (Goto(b, "await") /\ UNCHANGED faults) \/ Unanswered(b)
    <3>1. fresh' \subseteq Builds
      BY <1>1, <2>3 DEF Outdates, MinorTyped
    <3>2. (WentTo(b, "await") \/ Failed(b)) /\ faults' \in 0 .. MaxFaults
      BY <1>1, <2>3, GotoMoves, UnansweredMoves, CallNames DEF MinorTyped
    <3>3. QED
      BY <1>1, <2>1, <2>3, <3>1, <3>2 DEF Effect, Deletes, MinorTyped
  <2>4. QED
    BY <1>4, <2>2, <2>3 DEF Delete, Answered
<1>5. QED
  BY <1>2, <1>3, <1>4

LEMMA EffectOfDeploy ==
  ASSUME ReconcilerAssumption, Inv, NEW b \in Builds, Deploy(b)
  PROVE  Effect(b)
  BY EffectOfNamespaceCalls, EffectOfReads, EffectOfWrites DEF Deploy

LEMMA DeployIsActive ==
  ASSUME NEW b \in Builds, Deploy(b)
  PROVE  Active(b)
  BY DEF Deploy, Active, GetNamespace, CreateNamespace, Get, GetLatest, Update, Create,
         Delete, Await, ContextEnds
-----------------------------------------------------------------------------
(* The state has its type, objects that exist have existed, and calls are  *)
(* made where they belong.                                                 *)
Movement == <<at, call, outcome>>
MovementTyped ==
    /\ at \in [Builds -> Places] /\ call \in [Builds -> Calls]
    /\ outcome \in [Builds -> Results]
Sound(b) == Placed(b) /\ (Active(b) => outcome[b] = "none")

(* However a call ends, its build is where the next call belongs. *)
LEMMA MovesAreSound ==
  ASSUME Inv, NEW b \in Builds, Active(b), Effect(b)
  PROVE  Moved(b) /\ \A c \in Builds : Sound(c)'
<1>1. /\ outcome[b] = "none" /\ at[b] \in Places
      /\ \A c \in Builds : Placed(c) /\ (Active(c) => outcome[c] = "none")
  BY DEF Inv, Kept, TypeOK
<1>2. CASE Failed(b)
  BY <1>1, <1>2 DEF Failed, Moved, Sound, Placed, Active
<1>3. CASE Advanced(b)
  BY <1>1, <1>3 DEF Advanced, Moved, Sound, Placed, Active
<1>4. CASE WentTo(b, "create") \/ WentTo(b, "recheck")
  BY <1>1, <1>4 DEF WentTo, Moved, Sound, Placed, Active
<1>5. CASE at[b] # "namespace" /\ (WentTo(b, "latest") \/ WentTo(b, "update"))
  BY <1>1, <1>5 DEF WentTo, Moved, Sound, Placed, Active
<1>6. CASE at[b] = "deployment" /\ (WentTo(b, "delete") \/ WentTo(b, "await"))
  BY <1>1, <1>6 DEF WentTo, Moved, Sound, Placed, Active
<1>7. QED
  BY <1>2, <1>3, <1>4, <1>5, <1>6 DEF Effect, Looks, MakesNamespace, Writes, Deletes

LEMMA ObjectsOf ==
  ASSUME ReconcilerAssumption, TypeOK, NEW b \in Builds, at[b] # "namespace"
  PROVE  /\ Object(b) \in Objects
         /\ at[b] = "secret" => \A kind \in Kinds, s \in Slugs : Object(b) # <<kind, s>>
         /\ at[b] # "secret" => at[b] \in Kinds /\ Object(b) = <<at[b], Slug[b]>>
<1>1. at[b] \in Places /\ Slug[b] \in Slugs
  BY DEF TypeOK, ReconcilerAssumption
<1>2. CASE at[b] = "secret"
  BY <1>2 DEF Object, Objects, Secret, Kinds
<1>3. CASE at[b] # "secret"
  BY <1>1, <1>3 DEF Object, Objects, Places
<1>4. QED
  BY <1>2, <1>3

(* What a write leaves of the Deployments, and of everything else. *)
LEMMA WriteLeaves ==
  ASSUME ReconcilerAssumption, TypeOK, NEW b \in Builds, at[b] # "namespace", Write(b)
  PROVE  /\ holder' \in [Objects -> Builds \union {Nobody}]
         /\ holder'[Object(b)] = b
         /\ \A o \in Objects : o # Object(b) => holder'[o] = holder[o]
         /\ \A o \in Objects : holder[o] # Nobody => holder'[o] # Nobody
         /\ UNCHANGED <<namespace, deleting, misled>>
<1>1. Object(b) \in Objects
  BY ObjectsOf
<1>2. b # Nobody
  BY DEF ReconcilerAssumption
<1>3. QED
  BY <1>1, <1>2 DEF Write, TypeOK

LEMMA Deployments ==
  \A s \in Slugs : <<"deployment", s>> \in Objects
  BY DEF Objects, Kinds

LEMMA DeployKeepsTypes ==
  ASSUME ReconcilerAssumption, Inv, NEW b \in Builds, Active(b), Effect(b)
  PROVE  Inv'
<1>1. Moved(b) /\ (\A c \in Builds : Sound(c)') /\ MinorTyped'
  BY MovesAreSound DEF Effect
<1>2. TypeOK /\ Kept /\ Slug[b] \in Slugs
  BY DEF Inv, ReconcilerAssumption
<1>3. SUFFICES
        /\ namespace' \in {"absent", "ours", "foreign"}
        /\ holder' \in [Objects -> Builds \union {Nobody}]
        /\ deleting' \subseteq {s \in Slugs : holder'[<<"deployment", s>>] # Nobody}
        /\ existed' \subseteq Slugs /\ misled' \subseteq existed'
        /\ \A s \in Slugs : holder'[<<"deployment", s>>] # Nobody => s \in existed'
  <2>1. undisturbed' \subseteq Builds
    BY <1>1, <1>2 DEF Moved, TypeOK
  <2>2. MovementTyped'
    BY <1>1 DEF Moved, MovementTyped
  <2>3. QED
    BY <1>1, <1>3, <2>1, <2>2 DEF Inv, TypeOK, Kept, MovementTyped, MinorTyped, Sound, Results
<1>4. CASE Looks(b)
  BY <1>2, <1>4 DEF Looks, serverVars, TypeOK, Kept
<1>5. CASE MakesNamespace(b)
  BY <1>2, <1>5 DEF MakesNamespace, TypeOK, Kept
<1>6. CASE Writes(b)
  <2>1. Write(b) /\ at[b] # "namespace"
    BY <1>6 DEF Writes
  <2>2. /\ holder' \in [Objects -> Builds \union {Nobody}]
        /\ \A o \in Objects : o # Object(b) => holder'[o] = holder[o]
        /\ \A o \in Objects : holder[o] # Nobody => holder'[o] # Nobody
        /\ UNCHANGED <<namespace, deleting, misled>>
    BY <1>2, <2>1, WriteLeaves
  <2>3. existed' = IF at[b] = "deployment" THEN existed \union {Slug[b]} ELSE existed
    BY <2>1 DEF Write
  <2>4. ASSUME NEW s \in Slugs, holder'[<<"deployment", s>>] # Nobody
        PROVE  s \in existed'
    <3>1. CASE Object(b) = <<"deployment", s>>
      <4>1. at[b] # "secret"
        BY <1>2, <2>1, <3>1, ObjectsOf DEF Kinds
      <4>2. at[b] = "deployment" /\ Slug[b] = s
        BY <1>2, <2>1, <3>1, <4>1, ObjectsOf
      <4>3. QED
        BY <2>3, <4>2
    <3>2. CASE Object(b) # <<"deployment", s>>
      BY <1>2, <2>2, <2>3, <2>4, <3>2, Deployments DEF Kept
    <3>3. QED
      BY <3>1, <3>2
  <2>5. deleting' \subseteq {s \in Slugs : holder'[<<"deployment", s>>] # Nobody}
    BY <1>2, <2>2, Deployments DEF TypeOK
  <2>6. QED
    BY <1>2, <2>2, <2>3, <2>4, <2>5 DEF TypeOK
<1>7. CASE Deletes(b)
  <2>1. /\ at[b] = "deployment" /\ UNCHANGED <<namespace, holder, existed>>
        /\ deleting' = IF Exists(b) THEN deleting \union {Slug[b]} ELSE deleting
        /\ misled' = IF Exists(b) /\ SameSelector(b) THEN misled \union {Slug[b]} ELSE misled
    BY <1>7 DEF Deletes
  <2>2. Exists(b) => holder[<<"deployment", Slug[b]>>] # Nobody /\ Slug[b] \in existed
    BY <1>2, <2>1 DEF Exists, Object, Kept
  <2>3. QED
    BY <1>2, <2>1, <2>2 DEF TypeOK, Kept
<1>8. QED
  BY <1>4, <1>5, <1>6, <1>7 DEF Effect

LEMMA StartKeepsTypes ==
  ASSUME ReconcilerAssumption, Inv, NEW b \in Builds, Start(b)
  PROVE  Inv'
<1>1. "namespace" \in Places /\ "get" \in Calls /\ 0 \in 0 .. (MaxTries - 1)
  BY DEF Places, Calls, ReconcilerAssumption
<1>2. /\ at' \in [Builds -> Places] /\ call' \in [Builds -> Calls]
      /\ outcome' \in [Builds -> Results] /\ tries' \in [Builds -> 0 .. (MaxTries - 1)]
  BY <1>1 DEF Inv, TypeOK, Start, Results
<1>3. /\ fresh' \subseteq Builds /\ versioned' \subseteq Builds
      /\ undisturbed' \subseteq Builds
  BY DEF Inv, TypeOK, Start
<1>4. \A c \in Builds : Sound(c)'
  BY DEF Inv, Kept, TypeOK, Start, Sound, Placed, Active
<1>5. UNCHANGED <<namespace, holder, deleting, existed, misled, faults>>
  BY DEF Start, serverVars
<1>6. QED
  BY <1>2, <1>3, <1>4, <1>5 DEF Inv, TypeOK, Kept, Sound, Results

LEMMA ServerKeepsTypes ==
  ASSUME ReconcilerAssumption, Inv,
         (\E s \in Slugs : Gone(s) \/ StatusWritten(s)) \/ ForeignNamespace
  PROVE  Inv'
<1>1. TypeOK /\ Kept
  BY DEF Inv
<1>2. ASSUME NEW s \in Slugs, Gone(s)
      PROVE  Inv'
  <2>1. \A t \in Slugs : /\ <<"deployment", t>> \in Objects
                         /\ t # s => <<"deployment", t>> # <<"deployment", s>>
    BY Deployments
  <2>2. \A t \in Slugs : holder'[<<"deployment", t>>] =
                           IF t = s THEN Nobody ELSE holder[<<"deployment", t>>]
    BY <1>1, <1>2, <2>1 DEF Gone, TypeOK
  <2>3. holder' \in [Objects -> Builds \union {Nobody}]
    BY <1>1, <1>2 DEF Gone, TypeOK
  <2>4. /\ deleting' = deleting \ {s} /\ fresh' \subseteq Builds
        /\ UNCHANGED <<namespace, existed, misled, at, call, versioned, tries, outcome,
                       undisturbed, faults>>
    BY <1>1, <1>2 DEF Gone, TypeOK
  <2>5. \A c \in Builds : Sound(c)'
    BY <1>1, <2>4 DEF Kept, Sound, Placed, Active
  <2>6. TypeOK'
    BY <1>1, <2>2, <2>3, <2>4 DEF TypeOK
  <2>7. QED
    BY <1>1, <2>2, <2>4, <2>5, <2>6 DEF Inv, Kept, Sound
<1>3. ASSUME NEW s \in Slugs, StatusWritten(s)
      PROVE  Inv'
  <2>1. fresh' \subseteq Builds
    BY <1>1, <1>3 DEF StatusWritten, TypeOK
  <2>2. QED
    BY <1>1, <1>3, <2>1 DEF StatusWritten, serverVars, Inv, TypeOK, Kept, Placed, Active
<1>4. CASE ForeignNamespace
  BY <1>1, <1>4 DEF ForeignNamespace, deployVars, Inv, TypeOK, Kept, Placed, Active
<1>5. QED
  BY <1>2, <1>3, <1>4

LEMMA StutterKeepsTypes ==
  ASSUME Inv, UNCHANGED vars
  PROVE  Inv'
  BY DEF vars, serverVars, deployVars, Inv, TypeOK, Kept, Placed, Active

LEMMA InitTyped ==
  ASSUME ReconcilerAssumption, Init
  PROVE  Inv
<1>1. "namespace" \in Places /\ "idle" \in Calls /\ 0 \in 0 .. (MaxTries - 1)
      /\ 0 \in 0 .. MaxFaults
  BY DEF Places, Calls, ReconcilerAssumption
<1>2. TypeOK
  BY <1>1 DEF Init, TypeOK
<1>3. Kept
  BY Deployments DEF Init, Kept, Placed, Active
<1>4. QED
  BY <1>2, <1>3 DEF Inv

LEMMA InvHolds == Spec => []Inv
<1>1. Init => Inv
  BY ReconcilerAssumption, InitTyped
<1>2. Inv /\ [Next]_vars => Inv'
  <2>1. SUFFICES ASSUME Inv, [Next]_vars PROVE Inv'
    OBVIOUS
  <2>2. ASSUME NEW b \in Builds, Deploy(b) PROVE Inv'
    BY <2>1, <2>2, ReconcilerAssumption, EffectOfDeploy, DeployIsActive, DeployKeepsTypes
  <2>3. ASSUME NEW b \in Builds, Start(b) PROVE Inv'
    BY <2>1, <2>3, ReconcilerAssumption, StartKeepsTypes
  <2>4. CASE (\E s \in Slugs : Gone(s) \/ StatusWritten(s)) \/ ForeignNamespace
    BY <2>1, <2>4, ReconcilerAssumption, ServerKeepsTypes
  <2>5. CASE Rest \/ UNCHANGED vars
    BY <2>1, <2>5, StutterKeepsTypes DEF Rest
  <2>6. QED
    BY <2>1, <2>2, <2>3, <2>4, <2>5 DEF Next
<1>3. QED
  BY <1>1, <1>2, PTL DEF Spec

(* Every variable of the reconciler's model has its type, and only a       *)
(* Deployment that exists is being deleted.                                *)
THEOREM ReconcilerTyped == Spec => []TypeOK
<1>1. Inv => TypeOK
  BY DEF Inv
<1>2. QED
  BY <1>1, InvHolds, PTL
-----------------------------------------------------------------------------
(* Before the namespace is ours no Deploy is past it, and nothing has been *)
(* written.                                                                *)
Foreign ==
    namespace # "ours" =>
        /\ \A b \in Builds : at[b] = "namespace"
        /\ \A o \in Objects : holder[o] = Nobody

LEMMA DeployKeepsForeign ==
  ASSUME Inv, Foreign, NEW b \in Builds, Effect(b)
  PROVE  Foreign'
<1>1. CASE Looks(b)
  <2>1. namespace' = namespace /\ holder' = holder
    BY <1>1 DEF Looks, serverVars
  <2>2. CASE namespace # "ours"
    <3>1. at[b] = "namespace"
      BY <2>2 DEF Foreign
    <3>2. Moved(b) /\ at'[b] = "namespace"
      BY <1>1, <2>2, <3>1 DEF Looks, WentTo, Failed
    <3>3. \A c \in Builds : at'[c] = "namespace"
      BY <2>2, <3>2 DEF Moved, Foreign
    <3>4. QED
      BY <2>1, <2>2, <3>3 DEF Foreign
  <2>3. QED
    BY <2>1, <2>2 DEF Foreign
<1>2. CASE MakesNamespace(b)
  BY <1>2 DEF MakesNamespace, Foreign
<1>3. CASE Writes(b) \/ Deletes(b)
  <2>1. namespace = "ours" /\ namespace' = namespace
    BY <1>3 DEF Writes, Write, Deletes, Foreign
  <2>2. QED
    BY <2>1 DEF Foreign
<1>4. QED
  BY <1>1, <1>2, <1>3 DEF Effect

LEMMA OthersKeepForeign ==
  ASSUME Inv, Foreign,
         \/ \E b \in Builds : Start(b)
         \/ \E s \in Slugs : Gone(s) \/ StatusWritten(s)
         \/ ForeignNamespace \/ UNCHANGED vars
  PROVE  Foreign'
<1>1. ASSUME NEW b \in Builds, Start(b)
      PROVE  Foreign'
  BY <1>1 DEF Start, serverVars, Inv, TypeOK, Foreign
<1>2. ASSUME NEW s \in Slugs, Gone(s) \/ StatusWritten(s)
      PROVE  Foreign'
  BY <1>2 DEF Gone, StatusWritten, serverVars, Inv, TypeOK, Foreign
<1>3. CASE ForeignNamespace \/ UNCHANGED vars
  BY <1>3 DEF ForeignNamespace, vars, serverVars, deployVars, Foreign
<1>4. QED
  BY <1>1, <1>2, <1>3
-----------------------------------------------------------------------------
(* What a build nobody has interfered with can rely on.                    *)
Dep(s) == <<"deployment", s>>
Asked(b) ==
    /\ \A c \in Neighbours(b) : ~Active(c)
    /\ Slug[b] \in deleting => Service[holder[Dep(Slug[b])]] # Service[b]
    /\ call[b] = "delete" /\ holder[Dep(Slug[b])] # Nobody =>
          Service[holder[Dep(Slug[b])]] # Service[b]
    /\ at[b] \in {"service", "ingress"} =>
          holder[Dep(Slug[b])] = b /\ Slug[b] \notin deleting
    /\ at[b] = "ingress" => holder[<<"service", Slug[b]>>] = b
    /\ outcome[b] = "ok" => at[b] = "ingress" /\ holder[<<"ingress", Slug[b]>>] = b
AllAsked == \A b \in undisturbed : Asked(b)

(* A step that leaves a build and the objects of its slug alone, and wakes *)
(* no neighbour.                                                           *)
LEMMA AskedStays ==
  ASSUME NEW b \in Builds, Asked(b),
         \A c \in Neighbours(b) : ~Active(c)',
         UNCHANGED <<at[b], call[b], outcome[b]>>,
         \A kind \in Kinds : holder'[<<kind, Slug[b]>>] = holder[<<kind, Slug[b]>>],
         Slug[b] \in deleting' => Slug[b] \in deleting
  PROVE  Asked(b)'
<1>1. {"deployment", "service", "ingress"} \subseteq Kinds
  BY DEF Kinds
<1>2. QED
  BY <1>1 DEF Asked, Dep, Neighbours

(* A Deploy of another slug, or of no slug at all. *)
LEMMA OtherSlug ==
  ASSUME ReconcilerAssumption, Inv, NEW b \in Builds, NEW c \in Builds,
         Active(c), Effect(c), Slug[c] # Slug[b]
  PROVE  /\ \A kind \in Kinds : holder'[<<kind, Slug[b]>>] = holder[<<kind, Slug[b]>>]
         /\ Slug[b] \in deleting' => Slug[b] \in deleting
<1>1. TypeOK /\ Slug[b] \in Slugs
  BY DEF Inv, ReconcilerAssumption
<1>2. CASE Looks(c) \/ MakesNamespace(c) \/ Deletes(c)
  BY <1>2 DEF Looks, MakesNamespace, Deletes, serverVars
<1>3. CASE Writes(c)
  <2>1. at[c] # "namespace" /\ Write(c)
    BY <1>3 DEF Writes
  <2>2. deleting' = deleting /\ \A o \in Objects : o # Object(c) => holder'[o] = holder[o]
    BY <1>1, <2>1, WriteLeaves
  <2>3. \A kind \in Kinds : <<kind, Slug[b]>> \in Objects /\ <<kind, Slug[b]>> # Object(c)
    BY <1>1, <2>1, ObjectsOf DEF Objects
  <2>4. QED
    BY <2>2, <2>3
<1>4. QED
  BY <1>2, <1>3 DEF Effect

(* The Deploy itself. *)
LEMMA OwnDeploy ==
  ASSUME ReconcilerAssumption, Inv, NEW b \in Builds, Asked(b), Active(b), Effect(b)
  PROVE  Asked(b)'
<1>1. /\ TypeOK /\ Slug[b] \in Slugs /\ at[b] \in Places /\ Moved(b)
      /\ outcome[b] = "none" /\ b # Nobody
  BY MovesAreSound DEF Inv, Kept, TypeOK, ReconcilerAssumption
<1>2. \A c \in Neighbours(b) : ~Active(c)'
  BY <1>1 DEF Asked, Neighbours, Moved, Active
<1>3. CASE Looks(b)
  <2>1. UNCHANGED <<holder, deleting>>
    BY <1>3 DEF Looks, serverVars
  <2>2. CASE at[b] = "namespace" /\ Advanced(b)
    BY <1>1, <1>2, <2>1, <2>2 DEF Asked, Advanced, Following, Neighbours
  <2>3. CASE \/ WentTo(b, "create") \/ WentTo(b, "recheck") \/ WentTo(b, "latest")
             \/ WentTo(b, "update") \/ Failed(b)
    BY <1>1, <1>2, <2>1, <2>3 DEF Asked, WentTo, Failed, Neighbours
  <2>4. CASE at[b] = "deployment" /\ ~SameSelector(b) /\ WentTo(b, "delete")
    <3>1. Service[holder[Dep(Slug[b])]] # Service[b]
      BY <2>4 DEF SameSelector, Object, Dep
    <3>2. QED
      BY <1>1, <1>2, <2>1, <2>4, <3>1 DEF Asked, WentTo, Neighbours
  <2>5. QED
    BY <1>3, <2>2, <2>3, <2>4 DEF Looks
<1>4. CASE MakesNamespace(b)
  BY <1>1, <1>2, <1>4 DEF MakesNamespace, Advanced, Failed, Following, Asked, Neighbours
<1>5. CASE Writes(b)
  <2>1. at[b] # "namespace" /\ Write(b) /\ (~Exists(b) \/ SameSelector(b))
    BY <1>5 DEF Writes
  <2>2. /\ holder'[Object(b)] = b /\ UNCHANGED deleting
        /\ \A o \in Objects : o # Object(b) => holder'[o] = holder[o]
    BY <1>1, <2>1, WriteLeaves
  <2>3. \A kind \in Kinds : <<kind, Slug[b]>> \in Objects
    BY <1>1 DEF Objects
  <2>4. {"deployment", "service", "ingress"} \subseteq Kinds
    BY DEF Kinds
  <2>5. call'[b] # "delete"
    BY <1>5 DEF Writes, Advanced, Failed
  <2>6. CASE at[b] = "secret"
    <3>1. \A kind \in Kinds : holder'[<<kind, Slug[b]>>] = holder[<<kind, Slug[b]>>]
      BY <1>1, <2>1, <2>2, <2>3, <2>6, ObjectsOf
    <3>2. at'[b] \in {"secret", "deployment"} /\ outcome'[b] # "ok"
      BY <1>1, <1>5, <2>6 DEF Writes, Advanced, Failed, Following
    <3>3. QED
      BY <1>2, <2>2, <2>4, <2>5, <3>1, <3>2 DEF Asked, Dep, Neighbours
  <2>7. CASE at[b] = "deployment"
    <3>1. Object(b) = Dep(Slug[b])
      BY <2>7 DEF Object, Dep
    <3>2. Slug[b] \notin deleting
      BY <1>1, <2>1, <2>7, <3>1 DEF Asked, TypeOK, Exists, SameSelector, Dep
    <3>3. holder'[Dep(Slug[b])] = b
      BY <2>2, <3>1
    <3>4. at'[b] \in {"deployment", "service"} /\ outcome'[b] # "ok"
      BY <1>1, <1>5, <2>7 DEF Writes, Advanced, Failed, Following
    <3>5. QED
      BY <1>2, <2>2, <2>5, <3>2, <3>3, <3>4 DEF Asked, Neighbours
  <2>8. CASE at[b] = "service"
    <3>1. Object(b) = <<"service", Slug[b]>> /\ Object(b) # Dep(Slug[b])
      BY <2>8 DEF Object, Dep
    <3>2. holder[Dep(Slug[b])] = b /\ Slug[b] \notin deleting
      BY <2>8 DEF Asked
    <3>3. holder'[Dep(Slug[b])] = b /\ holder'[<<"service", Slug[b]>>] = b
      BY <1>1, <2>2, <3>1, <3>2, Deployments DEF Dep
    <3>4. at'[b] \in {"service", "ingress"} /\ outcome'[b] # "ok"
      BY <1>1, <1>5, <2>8 DEF Writes, Advanced, Failed, Following
    <3>5. QED
      BY <1>2, <2>2, <2>5, <3>2, <3>3, <3>4 DEF Asked, Neighbours
  <2>9. CASE at[b] = "ingress"
    <3>1. /\ Object(b) = <<"ingress", Slug[b]>> /\ Object(b) # Dep(Slug[b])
          /\ Object(b) # <<"service", Slug[b]>>
      BY <2>9 DEF Object, Dep
    <3>2. /\ holder[Dep(Slug[b])] = b /\ Slug[b] \notin deleting
          /\ holder[<<"service", Slug[b]>>] = b
      BY <2>9 DEF Asked
    <3>3. /\ holder'[Dep(Slug[b])] = b /\ holder'[<<"service", Slug[b]>>] = b
          /\ holder'[<<"ingress", Slug[b]>>] = b
      BY <1>1, <2>2, <2>3, <2>4, <3>1, <3>2, Deployments DEF Dep
    <3>4. at'[b] = "ingress"
      BY <1>1, <1>5, <2>9 DEF Writes, Advanced, Failed, Following
    <3>5. QED
      BY <1>2, <2>2, <2>5, <3>2, <3>3, <3>4 DEF Asked, Neighbours
  <2>10. QED
    BY <1>1, <2>1, <2>6, <2>7, <2>8, <2>9 DEF Places, Kinds
<1>6. CASE Deletes(b)
  <2>1. /\ call[b] = "delete" /\ at[b] = "deployment" /\ holder' = holder
        /\ deleting' = IF Exists(b) THEN deleting \union {Slug[b]} ELSE deleting
        /\ at'[b] = "deployment" /\ call'[b] # "delete" /\ outcome'[b] # "ok"
    BY <1>1, <1>6 DEF Deletes, WentTo, Failed
  <2>2. Exists(b) => Service[holder[Dep(Slug[b])]] # Service[b]
    BY <2>1 DEF Asked, Exists, Object, Dep
  <2>3. QED
    BY <1>2, <2>1, <2>2 DEF Asked, Neighbours
<1>7. QED
  BY <1>3, <1>4, <1>5, <1>6 DEF Effect

LEMMA DeployKeepsAsked ==
  ASSUME ReconcilerAssumption, Inv, AllAsked, NEW c \in Builds, Active(c), Effect(c)
  PROVE  AllAsked'
<1>1. Moved(c)
  BY MovesAreSound
<1>2. SUFFICES ASSUME NEW b \in undisturbed, Asked(b) PROVE Asked(b)'
  BY <1>1 DEF Moved, AllAsked
<1>3. b \in Builds
  BY DEF Inv, TypeOK
<1>4. CASE b = c
  BY <1>2, <1>4, OwnDeploy
<1>5. CASE b # c
  <2>1. Slug[c] # Slug[b]
    BY <1>2, <1>5 DEF Asked, Neighbours
  <2>2. UNCHANGED <<at[b], call[b], outcome[b]>>
    BY <1>1, <1>3, <1>5 DEF Moved
  <2>3. \A n \in Neighbours(b) : ~Active(n)'
    BY <1>1, <1>2, <2>1 DEF Asked, Neighbours, Moved, Active
  <2>4. QED
    BY <1>2, <1>3, <2>1, <2>2, <2>3, OtherSlug, AskedStays
<1>6. QED
  BY <1>4, <1>5

LEMMA StartKeepsAsked ==
  ASSUME ReconcilerAssumption, Inv, AllAsked, NEW c \in Builds, Start(c)
  PROVE  AllAsked'
<1>1. UNCHANGED <<holder, deleting>>
  BY DEF Start, serverVars
<1>2. /\ at'[c] = "namespace" /\ call'[c] = "get" /\ outcome'[c] = "none"
      /\ \A b \in Builds \ {c} : UNCHANGED <<at[b], call[b], outcome[b]>>
  BY DEF Start, Inv, TypeOK
<1>3. undisturbed' = (undisturbed \ Neighbours(c)) \union
         (IF Slug[c] \in deleting \/ \E n \in Neighbours(c) : Active(n) THEN {} ELSE {c})
  BY DEF Start
<1>4. SUFFICES ASSUME NEW b \in undisturbed' PROVE Asked(b)'
  BY DEF AllAsked
<1>5. CASE b = c /\ Slug[c] \notin deleting /\ \A n \in Neighbours(c) : ~Active(n)
  BY <1>1, <1>2, <1>5 DEF Asked, Neighbours, Active
<1>6. CASE b # c \/ Slug[c] \in deleting \/ \E n \in Neighbours(c) : Active(n)
  <2>1. b \in undisturbed /\ b \in Builds /\ Asked(b) /\ b \notin Neighbours(c)
    BY <1>3, <1>4, <1>6 DEF Inv, TypeOK, AllAsked
  <2>2. CASE b = c
    BY <1>1, <1>2, <2>1, <2>2 DEF Asked, Neighbours, Active
  <2>3. CASE b # c
    <3>1. c \notin Neighbours(b)
      BY <2>1, <2>3 DEF Neighbours
    <3>2. \A n \in Neighbours(b) : ~Active(n)'
      BY <1>2, <2>1, <3>1 DEF Asked, Neighbours, Active
    <3>3. QED
      BY <1>1, <1>2, <2>1, <2>3, <3>2, AskedStays
  <2>4. QED
    BY <2>2, <2>3
<1>7. QED
  BY <1>5, <1>6

LEMMA OthersKeepAsked ==
  ASSUME ReconcilerAssumption, Inv, AllAsked,
         \/ \E s \in Slugs : Gone(s) \/ StatusWritten(s)
         \/ ForeignNamespace \/ UNCHANGED vars
  PROVE  AllAsked'
<1>1. ASSUME NEW s \in Slugs, Gone(s)
      PROVE  AllAsked'
  <2>1. UNCHANGED <<at, call, outcome, undisturbed>>
    BY <1>1 DEF Gone
  <2>2. SUFFICES ASSUME NEW b \in undisturbed, Asked(b) PROVE Asked(b)'
    BY <2>1 DEF AllAsked
  <2>3. b \in Builds /\ Slug[b] \in Slugs
    BY DEF Inv, TypeOK, ReconcilerAssumption
  <2>4. deleting' = deleting \ {s} /\ holder' = [holder EXCEPT ![Dep(s)] = Nobody]
    BY <1>1 DEF Gone, Dep
  <2>5. \A o \in Objects : o # Dep(s) => holder'[o] = holder[o]
    BY <2>4 DEF Inv, TypeOK
  <2>6. holder'[Dep(s)] = Nobody
    BY <2>4, Deployments DEF Inv, TypeOK, Dep
  <2>7. \A kind \in Kinds : <<kind, Slug[b]>> \in Objects
    BY <2>3 DEF Objects
  <2>8. CASE Slug[b] # s
    <3>1. \A kind \in Kinds : <<kind, Slug[b]>> # Dep(s)
      BY <2>8 DEF Dep
    <3>2. \A n \in Neighbours(b) : ~Active(n)'
      BY <2>1, <2>2 DEF Asked, Active
    <3>3. QED
      BY <2>1, <2>2, <2>3, <2>4, <2>5, <2>7, <3>1, <3>2, AskedStays
  <2>9. CASE Slug[b] = s
    <3>1. s \in deleting
      BY <1>1 DEF Gone
    <3>2. at[b] \notin {"service", "ingress"} /\ outcome[b] # "ok"
      BY <2>2, <2>9, <3>1 DEF Asked
    <3>3. QED
      BY <2>1, <2>2, <2>4, <2>6, <2>9, <3>2 DEF Asked, Neighbours, Active
  <2>10. QED
    BY <2>8, <2>9
<1>2. CASE (\E s \in Slugs : StatusWritten(s)) \/ ForeignNamespace \/ UNCHANGED vars
  <2>1. UNCHANGED <<at, call, outcome, undisturbed, holder, deleting>>
    BY <1>2 DEF StatusWritten, ForeignNamespace, vars, serverVars, deployVars
  <2>2. QED
    BY <2>1 DEF AllAsked, Asked, Neighbours, Active
<1>3. QED
  BY <1>1, <1>2
-----------------------------------------------------------------------------
(* Who has to answer for a Deployment that is going or gone.               *)
Responsible(b) ==
    \/ Active(b) /\ at[b] \in {"namespace", "secret", "deployment"}
    \/ outcome[b] \in {"retriable", "fatal"}
Going ==
    \A s \in deleting \ misled :
        \E b \in Builds :
            Slug[b] = s /\ Service[b] # Service[holder[Dep(s)]] /\ Responsible(b)
Missing ==
    \A s \in existed \ misled :
        holder[Dep(s)] = Nobody => \E b \in Builds : Slug[b] = s /\ Responsible(b)

(* A build stays responsible until it has written the Deployment. *)
LEMMA ResponsibleStays ==
  ASSUME ReconcilerAssumption, Inv, NEW b \in Builds, Active(b), Effect(b),
         NEW r \in Builds, Responsible(r)
  PROVE  Responsible(r)' \/ (r = b /\ at[b] = "deployment" /\ Writes(b))
<1>1. Moved(b) /\ outcome[b] = "none" /\ at[b] \in Places
  BY MovesAreSound DEF Inv, Kept, TypeOK
<1>2. CASE r # b
  BY <1>1, <1>2 DEF Moved, Responsible, Active
<1>3. CASE r = b
  <2>1. at[b] \in {"namespace", "secret", "deployment"}
    BY <1>1, <1>3 DEF Responsible
  <2>2. CASE \/ WentTo(b, "create") \/ WentTo(b, "recheck") \/ WentTo(b, "latest")
             \/ WentTo(b, "update") \/ WentTo(b, "delete") \/ WentTo(b, "await")
    BY <1>3, <2>1, <2>2 DEF WentTo, Responsible, Active
  <2>3. CASE Failed(b)
    BY <1>3, <2>3 DEF Failed, Responsible
  <2>4. CASE Advanced(b) /\ at[b] \in {"namespace", "secret"}
    BY <1>3, <2>4 DEF Advanced, Following, Responsible, Active
  <2>5. CASE Advanced(b) /\ at[b] = "deployment"
    BY <1>3, <2>5 DEF Effect, Looks, MakesNamespace, Writes, Deletes, WentTo, Failed,
                      Advanced
  <2>6. QED
    BY <2>1, <2>2, <2>3, <2>4, <2>5 DEF Effect, Looks, MakesNamespace, Writes, Deletes
<1>4. QED
  BY <1>2, <1>3

(* A write replaces a Deployment by one of the same service. *)
LEMMA WriteOfDeployment ==
  ASSUME ReconcilerAssumption, Inv, NEW b \in Builds, Writes(b), NEW s \in Slugs
  PROVE  \/ holder'[Dep(s)] = holder[Dep(s)]
         \/ /\ at[b] = "deployment" /\ Slug[b] = s /\ holder'[Dep(s)] = b
            /\ holder[Dep(s)] = Nobody \/ Service[b] = Service[holder[Dep(s)]]
<1>1. TypeOK /\ at[b] # "namespace" /\ Write(b) /\ (~Exists(b) \/ SameSelector(b))
  BY DEF Inv, Writes
<1>2. /\ holder'[Object(b)] = b
      /\ \A o \in Objects : o # Object(b) => holder'[o] = holder[o]
  BY <1>1, WriteLeaves
<1>3. CASE Object(b) # Dep(s)
  BY <1>2, <1>3, Deployments DEF Dep
<1>4. CASE Object(b) = Dep(s)
  <2>1. at[b] # "secret"
    BY <1>1, <1>4, ObjectsOf DEF Dep, Kinds
  <2>2. at[b] = "deployment" /\ Slug[b] = s
    BY <1>1, <1>4, <2>1, ObjectsOf DEF Dep
  <2>3. QED
    BY <1>1, <1>2, <1>4, <2>2 DEF Exists, SameSelector
<1>5. QED
  BY <1>3, <1>4

LEMMA DeployKeepsGoing ==
  ASSUME ReconcilerAssumption, Inv, Going, NEW b \in Builds, Active(b), Effect(b)
  PROVE  Going'
<1>1. SUFFICES ASSUME NEW s \in deleting', s \notin misled'
               PROVE  \E r \in Builds : /\ Slug[r] = s /\ Responsible(r)'
                                        /\ Service[r] # Service[holder'[Dep(s)]]
  BY DEF Going
<1>2. TypeOK
  BY DEF Inv
<1>3. CASE Looks(b) \/ MakesNamespace(b)
  <2>1. UNCHANGED <<holder, deleting, misled>>
    BY <1>3 DEF Looks, MakesNamespace, serverVars
  <2>2. PICK r \in Builds :
          Slug[r] = s /\ Service[r] # Service[holder[Dep(s)]] /\ Responsible(r)
    BY <1>1, <2>1 DEF Going
  <2>3. holder[Dep(s)] # Nobody
    BY <1>1, <1>2, <2>1 DEF TypeOK, Dep
  <2>4. ~(r = b /\ at[b] = "deployment" /\ Writes(b))
    BY <2>2, <2>3 DEF Writes, Exists, SameSelector, Object, Dep
  <2>5. Responsible(r)'
    BY <2>2, <2>4, ResponsibleStays
  <2>6. QED
    BY <2>1, <2>2, <2>5
<1>4. CASE Writes(b)
  <2>1. UNCHANGED <<deleting, misled>>
    BY <1>4 DEF Writes, Write
  <2>2. PICK r \in Builds :
          Slug[r] = s /\ Service[r] # Service[holder[Dep(s)]] /\ Responsible(r)
    BY <1>1, <2>1 DEF Going
  <2>3. s \in Slugs /\ holder[Dep(s)] # Nobody
    BY <1>1, <1>2, <2>1 DEF TypeOK, Dep
  <2>4. Service[holder'[Dep(s)]] = Service[holder[Dep(s)]]
    BY <1>4, <2>3, WriteOfDeployment
  <2>5. ~(r = b /\ at[b] = "deployment")
    BY <1>4, <2>2, <2>3 DEF Writes, Exists, SameSelector, Object, Dep
  <2>6. Responsible(r)'
    BY <2>2, <2>5, ResponsibleStays
  <2>7. QED
    BY <2>2, <2>4, <2>6
<1>5. CASE Deletes(b)
  <2>1. /\ at[b] = "deployment" /\ holder' = holder /\ (WentTo(b, "await") \/ Failed(b))
        /\ deleting' = IF Exists(b) THEN deleting \union {Slug[b]} ELSE deleting
        /\ misled' = IF Exists(b) /\ SameSelector(b) THEN misled \union {Slug[b]} ELSE misled
    BY <1>5 DEF Deletes
  <2>2. CASE s \in deleting /\ s \notin misled
    <3>1. PICK r \in Builds :
            Slug[r] = s /\ Service[r] # Service[holder[Dep(s)]] /\ Responsible(r)
      BY <2>2 DEF Going
    <3>2. Responsible(r)' \/ r = b
      BY <3>1, ResponsibleStays
    <3>3. Responsible(b)'
      BY <2>1 DEF WentTo, Failed, Responsible, Active
    <3>4. QED
      BY <2>1, <3>1, <3>2, <3>3
  <2>3. CASE ~(s \in deleting /\ s \notin misled)
    <3>1. s = Slug[b] /\ ~SameSelector(b)
      BY <1>1, <2>1, <2>3
    <3>2. Service[b] # Service[holder[Dep(s)]]
      BY <2>1, <3>1 DEF SameSelector, Object, Dep
    <3>3. Responsible(b)'
      BY <2>1 DEF WentTo, Failed, Responsible, Active
    <3>4. QED
      BY <2>1, <3>1, <3>2, <3>3
  <2>4. QED
    BY <2>2, <2>3
<1>6. QED
  BY <1>3, <1>4, <1>5 DEF Effect

LEMMA DeployKeepsMissing ==
  ASSUME ReconcilerAssumption, Inv, Missing, NEW b \in Builds, Active(b), Effect(b)
  PROVE  Missing'
<1>1. SUFFICES ASSUME NEW s \in existed', s \notin misled', holder'[Dep(s)] = Nobody
               PROVE  \E r \in Builds : Slug[r] = s /\ Responsible(r)'
  BY DEF Missing
<1>2. TypeOK /\ Slug[b] \in Slugs /\ b # Nobody
  BY DEF Inv, ReconcilerAssumption
<1>3. s \in existed /\ s \notin misled /\ holder[Dep(s)] = Nobody
      /\ ~(Writes(b) /\ at[b] = "deployment" /\ Slug[b] = s)
  <2>1. CASE Looks(b) \/ MakesNamespace(b) \/ Deletes(b)
    <3>1. UNCHANGED <<holder, existed>> /\ misled \subseteq misled'
      BY <2>1 DEF Looks, MakesNamespace, Deletes, serverVars
    <3>2. ASSUME Writes(b), at[b] = "deployment", Slug[b] = s PROVE FALSE
      <4>1. Object(b) = Dep(s)
        BY <3>2 DEF Object, Dep
      <4>2. Write(b) /\ at[b] # "namespace"
        BY <3>2 DEF Writes
      <4>3. holder'[Dep(s)] = b
        BY <1>2, <4>1, <4>2, WriteLeaves
      <4>4. QED
        BY <1>1, <1>2, <4>3
    <3>3. QED
      BY <1>1, <3>1, <3>2
  <2>2. CASE Writes(b)
    <3>1. Write(b) /\ at[b] # "namespace"
      BY <2>2 DEF Writes
    <3>2. /\ holder'[Object(b)] = b /\ misled' = misled
          /\ \A o \in Objects : holder[o] # Nobody => holder'[o] # Nobody
      BY <1>2, <3>1, WriteLeaves
    <3>3. existed' = IF at[b] = "deployment" THEN existed \union {Slug[b]} ELSE existed
      BY <3>1 DEF Write
    <3>4. at[b] = "deployment" => Slug[b] # s
      BY <1>1, <1>2, <3>2 DEF Object, Dep
    <3>5. s \in existed
      BY <1>1, <3>3, <3>4
    <3>6. s \in Slugs
      BY <1>2, <3>5 DEF TypeOK
    <3>7. holder[Dep(s)] = Nobody
      BY <1>1, <3>2, <3>6, Deployments DEF Dep
    <3>8. QED
      BY <1>1, <3>2, <3>4, <3>5, <3>7
  <2>3. QED
    BY <2>1, <2>2 DEF Effect
<1>4. PICK r \in Builds : Slug[r] = s /\ Responsible(r)
  BY <1>3 DEF Missing
<1>5. Responsible(r)'
  BY <1>3, <1>4, ResponsibleStays
<1>6. QED
  BY <1>4, <1>5

LEMMA StartKeepsResponsible ==
  ASSUME Inv, NEW b \in Builds, Start(b), NEW r \in Builds, Responsible(r)
  PROVE  Responsible(r)'
  BY DEF Inv, TypeOK, Start, Responsible, Active

LEMMA OthersKeepGoingAndMissing ==
  ASSUME ReconcilerAssumption, Inv, Going, Missing,
         \/ \E b \in Builds : Start(b)
         \/ \E s \in Slugs : Gone(s) \/ StatusWritten(s)
         \/ ForeignNamespace \/ UNCHANGED vars
  PROVE  Going' /\ Missing'
<1>1. TypeOK
  BY DEF Inv
<1>2. ASSUME NEW b \in Builds, Start(b)
      PROVE  Going' /\ Missing'
  <2>1. UNCHANGED <<holder, deleting, existed, misled>>
    BY <1>2 DEF Start, serverVars
  <2>2. \A r \in Builds : Responsible(r) => Responsible(r)'
    BY <1>2, StartKeepsResponsible
  <2>3. QED
    BY <2>1, <2>2 DEF Going, Missing
<1>3. ASSUME NEW s \in Slugs, Gone(s)
      PROVE  Going' /\ Missing'
  <2>1. /\ UNCHANGED <<at, call, outcome, existed, misled>>
        /\ deleting' = deleting \ {s} /\ s \in deleting
        /\ holder' = [holder EXCEPT ![Dep(s)] = Nobody]
    BY <1>3 DEF Gone, Dep
  <2>2. \A t \in Slugs : t # s => holder'[Dep(t)] = holder[Dep(t)]
    BY <1>1, <2>1, Deployments DEF TypeOK, Dep
  <2>3. \A r \in Builds : Responsible(r) => Responsible(r)'
    BY <2>1 DEF Responsible, Active
  <2>4. \A t \in deleting' : t \in deleting /\ t \in Slugs /\ t # s
    BY <1>1, <2>1 DEF TypeOK
  <2>5. Going'
    BY <2>1, <2>2, <2>3, <2>4 DEF Going
  <2>6. ASSUME NEW t \in existed', t \notin misled', holder'[Dep(t)] = Nobody
        PROVE  \E r \in Builds : Slug[r] = t /\ Responsible(r)'
    <3>1. t \in Slugs /\ t \in existed /\ t \notin misled
      BY <1>1, <2>1, <2>6 DEF TypeOK
    <3>2. CASE t = s
      BY <2>1, <2>3, <3>1, <3>2 DEF Going
    <3>3. CASE t # s
      BY <2>2, <2>3, <2>6, <3>1, <3>3 DEF Missing
    <3>4. QED
      BY <3>2, <3>3
  <2>7. QED
    BY <2>5, <2>6 DEF Missing
<1>4. CASE (\E s \in Slugs : StatusWritten(s)) \/ ForeignNamespace \/ UNCHANGED vars
  <2>1. UNCHANGED <<at, call, outcome, holder, deleting, existed, misled>>
    BY <1>4 DEF StatusWritten, ForeignNamespace, vars, serverVars, deployVars
  <2>2. QED
    BY <2>1 DEF Going, Missing, Responsible, Active
<1>5. QED
  BY <1>2, <1>3, <1>4
-----------------------------------------------------------------------------
(* All of it, in every state. *)
ReconcilerInvariant == Foreign /\ AllAsked /\ Going /\ Missing

LEMMA ReconcilerInvariantHolds == Spec => []ReconcilerInvariant
<1>1. Init => ReconcilerInvariant
  BY DEF Init, ReconcilerInvariant, Foreign, AllAsked, Going, Missing
<1>2. Inv /\ ReconcilerInvariant /\ [Next]_vars => ReconcilerInvariant'
  <2>1. SUFFICES ASSUME Inv, ReconcilerInvariant, [Next]_vars
                 PROVE  ReconcilerInvariant'
    OBVIOUS
  <2>2. ASSUME NEW b \in Builds, Deploy(b) PROVE ReconcilerInvariant'
    <3>1. Active(b) /\ Effect(b)
      BY <2>1, <2>2, ReconcilerAssumption, EffectOfDeploy, DeployIsActive
    <3>2. QED
      BY <2>1, <3>1, ReconcilerAssumption, DeployKeepsForeign, DeployKeepsAsked,
         DeployKeepsGoing, DeployKeepsMissing
      DEF ReconcilerInvariant
  <2>3. ASSUME NEW b \in Builds, Start(b) PROVE ReconcilerInvariant'
    BY <2>1, <2>3, ReconcilerAssumption, OthersKeepForeign, StartKeepsAsked,
       OthersKeepGoingAndMissing
    DEF ReconcilerInvariant
  <2>4. CASE \/ \E s \in Slugs : Gone(s) \/ StatusWritten(s)
             \/ ForeignNamespace \/ UNCHANGED vars
    BY <2>1, <2>4, ReconcilerAssumption, OthersKeepForeign, OthersKeepAsked,
       OthersKeepGoingAndMissing
    DEF ReconcilerInvariant
  <2>5. QED
    BY <2>1, <2>2, <2>3, <2>4 DEF Next, Rest
<1>3. QED
  BY <1>1, <1>2, InvHolds, PTL DEF Spec

(* Whatever the builds do, and whoever is faster at creating the project's *)
(* namespace: nothing is written into one that belongs to somebody else.   *)
THEOREM NothingInForeignNamespace == Spec => []ForeignUntouched
<1>1. ReconcilerInvariant => ForeignUntouched
  BY DEF ReconcilerInvariant, Foreign, ForeignUntouched
<1>2. QED
  BY <1>1, ReconcilerInvariantHolds, PTL

(* A Deploy that answered without error, and that no other build of its    *)
(* service ran into, has left the objects it was asked for.                *)
THEOREM DeployDoesAsAsked == Spec => []DeployedAsAsked
<1>1. ReconcilerInvariant => DeployedAsAsked
  <2>1. SUFFICES ASSUME ReconcilerInvariant, NEW b \in undisturbed, outcome[b] = "ok"
                 PROVE  /\ \A kind \in Kinds : holder[<<kind, Slug[b]>>] = b
                        /\ Slug[b] \notin deleting
    BY DEF DeployedAsAsked
  <2>2. Asked(b) /\ at[b] = "ingress"
    BY <2>1 DEF ReconcilerInvariant, AllAsked, Asked
  <2>3. QED
    BY <2>1, <2>2 DEF Asked, Dep, Kinds
<1>2. QED
  BY <1>1, ReconcilerInvariantHolds, PTL

(* A Deployment that is gone without having been replaced in between is    *)
(* about to be brought back, or its Deploy has reported the failure.       *)
THEOREM NoDeploymentForgotten == Spec => []DownIsKnown
<1>1. ReconcilerInvariant => DownIsKnown
  BY DEF ReconcilerInvariant, Missing, DownIsKnown, Responsible, Dep
<1>2. QED
  BY <1>1, ReconcilerInvariantHolds, PTL
=============================================================================

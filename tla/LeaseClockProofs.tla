-------------------------- MODULE LeaseClockProofs --------------------------
(***************************************************************************)
(* The lease excludes: for any number of workers, any lease and any skew   *)
(* and delays that ClockAssumption allows.  LeaseInvariant is inductive.   *)
(* Each step is treated by the part of the invariant it can disturb: the   *)
(* cover of the worker that moves, and the cover of the others, who only   *)
(* see the row and the time change.  From the same invariant: LeaseClock   *)
(* implements LeaseLock, the lease without clocks.                         *)
(***************************************************************************)
EXTENDS LeaseClock, TLAPS

LEMMA ConstantTypes ==
  ASSUME ClockAssumption
  PROVE  /\ Period \in Nat /\ Lease \in Nat /\ Skew \in Nat
         /\ Delay \in Nat /\ Grace \in Nat
         /\ 2 * Period + 2 * Grace + 2 * Delay + Skew < Lease
  BY DEF ClockAssumption, Period

(* While a lease covers its worker, no clock has reached its end. *)
LEMMA CoveredBeyondClocks ==
  ASSUME ClockAssumption, TypeOK, NEW w \in Workers, Active(w), Covered(w),
         state = "IN_PROGRESS"
  PROVE  expires > now + Skew
<1>1. due[w] \in Nat /\ now \in Nat /\ expires \in Nat /\ missed[w] \in BOOLEAN
      /\ pc[w] \in ActivePcs
  BY DEF TypeOK, Active
<1>2. expires >= LastWrite(w) - Delay + Lease /\ now <= Deadline(w)
  BY DEF Covered
<1>3. LastWrite(w) >= now - 2 * Period - 2 * Grace - Delay
  BY <1>1, <1>2, ConstantTypes DEF LastWrite, Deadline, Unrenewed, ActivePcs
<1>4. LastWrite(w) \in Int
  BY <1>1, ConstantTypes DEF LastWrite, Unrenewed, ActivePcs
<1>5. QED
  BY <1>1, <1>2, <1>3, <1>4, ConstantTypes

(* A lease written now covers every worker, wherever it stands. *)
LEMMA WrittenNowCovers ==
  ASSUME ClockAssumption, TypeOK, NEW w \in Workers, Active(w), Covered(w),
         NEW read \in Readings
  PROVE  read + Lease \in Nat /\ read + Lease >= LastWrite(w) - Delay + Lease
<1>1. due[w] \in Nat /\ now \in Nat /\ now >= Delay /\ missed[w] \in BOOLEAN
      /\ pc[w] \in ActivePcs
  BY DEF TypeOK, Active
<1>2. read \in Int /\ read >= now - Delay /\ now - Delay >= 0
  BY <1>1, ConstantTypes DEF Readings
<1>3. due[w] <= now + Allowance(w)
  BY DEF Covered
<1>4. LastWrite(w) <= now /\ LastWrite(w) \in Int
  BY <1>1, <1>3, ConstantTypes DEF LastWrite, Allowance, Unrenewed, ActivePcs
<1>5. QED
  BY <1>1, <1>2, <1>4, ConstantTypes

(* A worker that does not move keeps its cover if the row stays, or is     *)
(* renewed, and no time passes.                                            *)
LEMMA CoverStays ==
  ASSUME TypeOK, NEW w \in Workers, Covered(w),
         now' = now, state' = state, expires' = expires,
         pc'[w] = pc[w], due'[w] = due[w], missed'[w] = missed[w]
  PROVE  Covered(w)'
  BY DEF Covered, Deadline, Allowance, LastWrite, Unrenewed

LEMMA CoverRenewed ==
  ASSUME ClockAssumption, TypeOK, NEW w \in Workers, Active(w), Covered(w),
         now' = now, RenewRow,
         pc'[w] = pc[w], due'[w] = due[w], missed'[w] = missed[w]
  PROVE  Covered(w)'
<1>1. PICK read \in Readings :
        expires' = IF state = "IN_PROGRESS" THEN read + Lease ELSE expires
  BY DEF RenewRow
<1>2. state' = state
  BY DEF RenewRow
<1>3. LastWrite(w)' = LastWrite(w) /\ Deadline(w)' = Deadline(w)
      /\ Allowance(w)' = Allowance(w)
  BY DEF LastWrite, Unrenewed, Deadline, Allowance
<1>4. read + Lease >= LastWrite(w) - Delay + Lease
  BY <1>1, WrittenNowCovers
<1>5. QED
  BY <1>1, <1>2, <1>3, <1>4 DEF Covered

LEMMA RenewRowType ==
  ASSUME ClockAssumption, TypeOK, RenewRow
  PROVE  expires' \in Nat /\ state' = state
  BY ConstantTypes DEF TypeOK, RenewRow, Readings

(* When w is the only one at work, the invariant is about w alone. *)
LEMMA OnlyMover ==
  ASSUME LeaseInvariant, NEW w \in Workers,
         \A v \in Workers \ {w} : ~Active(v), TypeOK',
         \A v \in Workers \ {w} : pc'[v] = pc[v],
         Active(w)' => Covered(w)'
  PROVE  LeaseInvariant'
  BY DEF LeaseInvariant, Exclusive, Active

LEMMA ClaimStep ==
  ASSUME ClockAssumption, LeaseInvariant, NEW w \in Workers, Claim(w)
  PROVE  LeaseInvariant'
<1>1. PICK read \in Readings :
        /\ state = "ABSENT" \/ (state = "IN_PROGRESS" /\ ~ (expires > read))
        /\ expires' = read + Lease
  BY DEF Claim
<1>2. /\ now \in Nat /\ now >= Delay /\ expires \in Nat
      /\ read \in Int /\ read >= now - Delay /\ read <= now + Skew
  BY <1>1, ConstantTypes DEF LeaseInvariant, TypeOK, Readings
<1>3. ASSUME NEW v \in Workers, Active(v) PROVE FALSE
  <2>1. Covered(v) /\ TypeOK
    BY <1>3 DEF LeaseInvariant
  <2>2. state = "IN_PROGRESS" /\ ~ (expires > read)
    BY <1>1, <2>1 DEF Covered
  <2>3. expires > now + Skew
    BY <1>3, <2>1, <2>2, CoveredBeyondClocks
  <2>4. QED
    BY <1>2, <2>2, <2>3, ConstantTypes
<1>4. /\ pc'[w] = "starting" /\ due'[w] = now + Grace /\ now' = now
      /\ state' = "IN_PROGRESS"
      /\ \A v \in Workers \ {w} : pc'[v] = pc[v]
  BY DEF Claim, LeaseInvariant, TypeOK
<1>5. TypeOK'
  BY <1>1, <1>2, ConstantTypes DEF Claim, LeaseInvariant, TypeOK, ActivePcs
<1>6. Covered(w)'
  BY <1>1, <1>2, <1>4, ConstantTypes DEF Covered, Deadline, Allowance, LastWrite
<1>7. QED
  BY <1>3, <1>4, <1>5, <1>6, OnlyMover

(* Every other step of a worker is one of a worker that is active. *)
LEMMA ActiveAlone ==
  ASSUME LeaseInvariant, NEW w \in Workers, Active(w)
  PROVE  /\ TypeOK /\ Covered(w)
         /\ \A v \in Workers \ {w} : ~Active(v)
         /\ due[w] \in Nat /\ now \in Nat /\ expires \in Nat
         /\ missed[w] \in BOOLEAN /\ pc[w] \in ActivePcs
  BY DEF LeaseInvariant, Exclusive, TypeOK, Active

LEMMA TickStep ==
  ASSUME ClockAssumption, LeaseInvariant, Tick
  PROVE  LeaseInvariant'
<1>1. TypeOK'
  BY ConstantTypes DEF Tick, LeaseInvariant, TypeOK, rowVars
<1>2. ASSUME NEW w \in Workers, Active(w)' PROVE Covered(w)'
  <2>1. /\ Active(w) /\ pc[w] # "idle" /\ now' = now + 1 /\ now < Deadline(w)
        /\ UNCHANGED <<state, expires, pc, due, missed>>
    BY <1>2 DEF Tick, Active, rowVars
  <2>2. /\ Covered(w) /\ now \in Nat /\ due[w] \in Nat /\ Deadline(w) \in Nat
        /\ Allowance(w) \in Nat
    BY <2>1, ActiveAlone, ConstantTypes DEF Deadline, Allowance
  <2>3. /\ Deadline(w)' = Deadline(w) /\ Allowance(w)' = Allowance(w)
        /\ LastWrite(w)' = LastWrite(w)
    BY <2>1 DEF Deadline, Allowance, LastWrite, Unrenewed
  <2>4. now' <= Deadline(w)' /\ due'[w] <= now' + Allowance(w)'
    BY <2>1, <2>2, <2>3 DEF Covered
  <2>5. QED
    BY <2>1, <2>2, <2>3, <2>4 DEF Covered
<1>3. Exclusive'
  BY DEF Tick, LeaseInvariant, Exclusive, Active
<1>4. QED
  BY <1>1, <1>2, <1>3 DEF LeaseInvariant

(* The steps of the renewal goroutine and of the worker around it. *)
LEMMA RenewalStep ==
  ASSUME ClockAssumption, LeaseInvariant, NEW w \in Workers,
         StartLeaseRenewal(w) \/ Renew(w) \/ RenewFails(w)
  PROVE  LeaseInvariant'
<1>1. Active(w)
  BY DEF StartLeaseRenewal, Renew, RenewFails, Active
<1>2. /\ TypeOK /\ Covered(w) /\ \A v \in Workers \ {w} : ~Active(v)
      /\ due[w] \in Nat /\ now \in Nat /\ expires \in Nat /\ missed[w] \in BOOLEAN
  BY <1>1, ActiveAlone
<1>3. TypeOK' /\ \A v \in Workers \ {w} : pc'[v] = pc[v]
  <2>1. expires' \in Nat /\ state' = state
    BY <1>2, RenewRowType DEF StartLeaseRenewal, Renew, RenewFails, rowVars
  <2>2. due' \in [Workers -> Nat]
    BY <1>2, ConstantTypes DEF StartLeaseRenewal, Renew, RenewFails, TypeOK
  <2>3. /\ now' = now /\ ghost' = ghost
        /\ missed' \in [Workers -> BOOLEAN]
        /\ pc' \in [Workers -> {"idle"} \union ActivePcs]
        /\ \A v \in Workers \ {w} : pc'[v] = pc[v]
    BY <1>2 DEF StartLeaseRenewal, Renew, RenewFails, TypeOK, ActivePcs
  <2>4. QED
    BY <1>2, <2>1, <2>2, <2>3 DEF TypeOK
<1>4. CASE StartLeaseRenewal(w)
  <2>1. /\ pc[w] = "starting" /\ pc'[w] = "driving" /\ due'[w] = now + Period
        /\ missed'[w] = FALSE /\ UNCHANGED <<now, state, expires>>
    BY <1>2, <1>4 DEF StartLeaseRenewal, TypeOK, rowVars
  <2>2. /\ now <= due[w] /\ state = "IN_PROGRESS"
        /\ expires >= due[w] - Grace - Delay + Lease
    BY <1>2, <2>1 DEF Covered, Deadline, LastWrite
  <2>3. Covered(w)'
    BY <1>2, <2>1, <2>2, ConstantTypes DEF Covered, Deadline, Allowance, LastWrite,
       Unrenewed
  <2>4. QED
    BY <1>2, <1>3, <2>3, OnlyMover
<1>5. CASE Renew(w)
  <2>1. /\ pc[w] = "driving" /\ pc'[w] = "driving" /\ due'[w] = due[w] + Period
        /\ now >= due[w] /\ missed'[w] = FALSE /\ now' = now /\ RenewRow
    BY <1>2, <1>5 DEF Renew, TypeOK
  <2>2. PICK read \in Readings :
          expires' = IF state = "IN_PROGRESS" THEN read + Lease ELSE expires
    BY <2>1 DEF RenewRow
  <2>3. read \in Int /\ read >= now - Delay
    BY <1>2, ConstantTypes DEF Readings
  <2>4. /\ state' = state /\ now <= due[w] + Delay
        /\ state = "IN_PROGRESS" \/ state = "DONE"
    BY <1>2, <2>1 DEF Covered, Deadline, RenewRow
  <2>5. Deadline(w)' = due[w] + Period + Delay /\ Allowance(w)' = Period
    BY <2>1 DEF Deadline, Allowance
  <2>6. LastWrite(w)' = due[w] - Grace
    BY <1>2, <2>1, ConstantTypes DEF LastWrite, Unrenewed
  <2>7. state = "IN_PROGRESS" => expires' >= LastWrite(w)' - Delay + Lease
    BY <1>2, <2>1, <2>2, <2>3, <2>6, ConstantTypes
  <2>8. Covered(w)'
    BY <1>2, <2>1, <2>4, <2>5, <2>7, ConstantTypes DEF Covered
  <2>9. QED
    BY <1>2, <1>3, <2>8, OnlyMover
<1>6. CASE RenewFails(w)
  <2>1. /\ pc[w] = "driving" /\ pc'[w] = "driving" /\ due'[w] = due[w] + Period
        /\ now >= due[w] /\ missed[w] = FALSE /\ missed'[w] = TRUE
        /\ UNCHANGED <<now, state, expires>>
    BY <1>2, <1>6 DEF RenewFails, TypeOK, rowVars
  <2>2. LastWrite(w)' = LastWrite(w)
    BY <1>2, <2>1, ConstantTypes DEF LastWrite, Unrenewed
  <2>3. Covered(w)'
    BY <1>2, <2>1, <2>2, ConstantTypes DEF Covered, Deadline, Allowance
  <2>4. QED
    BY <1>2, <1>3, <2>3, OnlyMover
<1>7. QED
  BY <1>4, <1>5, <1>6

LEMMA BackToIdleStep ==
  ASSUME ClockAssumption, LeaseInvariant, NEW w \in Workers, Active(w),
         BackToIdle(w), now' = now,
         state' \in {"ABSENT", "IN_PROGRESS", "DONE"}, expires' \in Nat,
         ghost' \in [Workers -> Nat]
  PROVE  LeaseInvariant'
<1>1. TypeOK' /\ pc'[w] = "idle" /\ \A v \in Workers \ {w} : pc'[v] = pc[v]
  BY DEF BackToIdle, LeaseInvariant, TypeOK
<1>2. ~Active(w)'
  BY <1>1 DEF Active
<1>3. QED
  BY <1>1, <1>2, ActiveAlone, OnlyMover

LEMMA WorkStep ==
  ASSUME ClockAssumption, LeaseInvariant, NEW w \in Workers,
         EndStage(w) \/ Finish(w) \/ Leave(w) \/ Settle(w) \/ Abandon(w)
  PROVE  LeaseInvariant'
<1>1. Active(w)
  BY DEF EndStage, Finish, Leave, Settle, Abandon, Active
<1>2. /\ TypeOK /\ Covered(w) /\ \A v \in Workers \ {w} : ~Active(v)
      /\ due[w] \in Nat /\ now \in Nat /\ expires \in Nat /\ missed[w] \in BOOLEAN
      /\ pc[w] \in ActivePcs
  BY <1>1, ActiveAlone
<1>3. StopLeaseRenewal(w) => ghost' \in [Workers -> Nat]
  BY <1>2, ConstantTypes DEF StopLeaseRenewal, TypeOK
<1>4. CASE Finish(w) \/ Abandon(w)
  BY <1>1, <1>2, <1>3, <1>4, BackToIdleStep DEF Finish, Abandon, rowVars, TypeOK
<1>5. CASE Settle(w)
  BY <1>1, <1>2, <1>5, BackToIdleStep DEF Settle, Null, TypeOK
<1>6. CASE EndStage(w)
  <2>1. TypeOK' /\ \A v \in Workers \ {w} : pc'[v] = pc[v]
    BY <1>2, <1>6 DEF EndStage, TypeOK, Null
  <2>2. Covered(w)'
    BY <1>2, <1>6 DEF EndStage, Covered, Deadline, Allowance
  <2>3. QED
    BY <1>2, <2>1, <2>2, OnlyMover
<1>7. CASE Leave(w)
  <2>1. /\ pc'[w] = "leaving" /\ due'[w] = now + Grace
        /\ UNCHANGED <<now, state, expires>>
        /\ pc[w] \in {"starting", "driving"}
    BY <1>2, <1>7 DEF Leave, TypeOK, rowVars
  <2>2. TypeOK' /\ \A v \in Workers \ {w} : pc'[v] = pc[v]
    BY <1>2, <1>3, <1>7, ConstantTypes DEF Leave, TypeOK, ActivePcs, rowVars
  <2>3. state = "IN_PROGRESS" => LastWrite(w) >= LastWrite(w)'
    BY <1>2, <2>1, ConstantTypes DEF Covered, Deadline, LastWrite, Unrenewed
  <2>4. LastWrite(w) \in Int /\ LastWrite(w)' \in Int
    BY <1>2, <2>1, ConstantTypes DEF LastWrite, Unrenewed
  <2>5. state = "IN_PROGRESS" => expires' >= LastWrite(w)' - Delay + Lease
    BY <1>2, <2>1, <2>3, <2>4, ConstantTypes DEF Covered
  <2>6. Covered(w)'
    BY <1>2, <2>1, <2>5, ConstantTypes DEF Covered, Deadline, Allowance
  <2>7. QED
    BY <1>2, <2>2, <2>6, OnlyMover
<1>8. QED
  BY <1>4, <1>5, <1>6, <1>7

(* A renewal that lands after its time renews the lease of whoever holds it. *)
LEMMA LateRenewalStep ==
  ASSUME ClockAssumption, LeaseInvariant, NEW w \in Workers, LateRenewal(w)
  PROVE  LeaseInvariant'
<1>1. /\ RenewRow /\ UNCHANGED <<now, pc, due, missed>>
      /\ ghost' = [ghost EXCEPT ![w] = 0]
  BY DEF LateRenewal
<1>2. TypeOK /\ TypeOK'
  BY <1>1, RenewRowType DEF LeaseInvariant, TypeOK
<1>3. ASSUME NEW v \in Workers, Active(v)' PROVE Covered(v)'
  <2>1. Active(v) /\ Covered(v)
    BY <1>1, <1>3 DEF LeaseInvariant, Active
  <2>2. QED
    BY <1>1, <1>2, <2>1, CoverRenewed
<1>4. Exclusive'
  BY <1>1 DEF LeaseInvariant, Exclusive, Active
<1>5. QED
  BY <1>2, <1>3, <1>4 DEF LeaseInvariant

LEMMA LeaseStep ==
  ASSUME ClockAssumption, LeaseInvariant, [Next]_vars
  PROVE  LeaseInvariant'
<1>1. CASE UNCHANGED vars
  <2>1. TypeOK' /\ Exclusive'
    BY <1>1 DEF vars, rowVars, LeaseInvariant, TypeOK, Exclusive, Active
  <2>2. ASSUME NEW w \in Workers, Active(w)' PROVE Covered(w)'
    BY <1>1, <2>2, CoverStays DEF vars, rowVars, LeaseInvariant, Active
  <2>3. QED
    BY <2>1, <2>2 DEF LeaseInvariant
<1>2. QED
  BY <1>1, TickStep, ClaimStep, RenewalStep, WorkStep, LateRenewalStep DEF Next

LEMMA InitLease == ASSUME ClockAssumption, Init PROVE LeaseInvariant
  BY ConstantTypes DEF Init, LeaseInvariant, TypeOK, Exclusive, Active, Null

LEMMA LeaseInductive ==
  ASSUME ClockAssumption PROVE Spec => []LeaseInvariant
<1>1. QED
  BY InitLease, LeaseStep, PTL DEF Spec

(* The invariant itself, which run lease checks too. *)
THEOREM LeaseCovers ==
  ASSUME ClockAssumption PROVE Spec => []LeaseInvariant
  BY LeaseInductive

(* The lease excludes, for every lease longer than two of its periods, two *)
(* graces, two delays and the skew of the clocks.                          *)
THEOREM LeaseExcludes ==
  ASSUME ClockAssumption PROVE Spec => []Exclusive
<1>1. LeaseInvariant => Exclusive
  BY DEF LeaseInvariant
<1>2. QED
  BY <1>1, LeaseInductive, PTL

LEMMA ReadingsAhead ==
  ASSUME ClockAssumption, TypeOK, NEW read \in Readings
  PROVE  read \in Int /\ read <= now + Skew
<1>1. now \in Nat /\ Skew \in Nat /\ Delay \in Nat
  BY ConstantTypes DEF TypeOK
<1>2. now - Delay \in Int /\ now + Skew \in Int
  BY <1>1
<1>3. QED
  BY <1>2 DEF Readings

LEMMA LaterStill ==
  ASSUME NEW a \in Nat, NEW b \in Nat, a <= b, NEW d \in Nat, Lease \in Nat,
         NEW r \in Int, r <= a + d
  PROVE  r + Lease <= b + d + Lease
  OBVIOUS

LEMMA WrittenNowEnds ==
  ASSUME ClockAssumption, TypeOK, now' \in Nat, now <= now',
         NEW read \in Readings, expires' = read + Lease
  PROVE  WaitIsBounded'
<1>1. now \in Nat /\ Skew \in Nat /\ Lease \in Nat
  BY ConstantTypes DEF TypeOK
<1>2. read \in Int /\ read <= now + Skew
  BY ReadingsAhead
<1>3. read + Lease <= now' + Skew + Lease
  BY <1>1, <1>2, LaterStill
<1>4. QED
  BY <1>3 DEF WaitIsBounded

LEMMA WaitStep ==
  ASSUME ClockAssumption, LeaseInvariant, WaitIsBounded, [Next]_vars
  PROVE  WaitIsBounded'
<1>1. now \in Nat /\ expires \in Nat
  BY DEF LeaseInvariant, TypeOK
<1>2. now' \in Nat /\ now <= now'
  <2>1. now' = now \/ now' = now + 1
    BY DEF Next, vars, Tick, Claim, StartLeaseRenewal, Renew, RenewFails,
       EndStage, Finish, Leave, Settle, Abandon, LateRenewal
  <2>2. QED
    BY <1>1, <2>1
<1>3. ASSUME expires' \in {expires, Null} PROVE WaitIsBounded'
  <2>1. expires <= now + Skew + Lease /\ Skew \in Nat /\ Lease \in Nat
    BY ConstantTypes DEF WaitIsBounded
  <2>2. expires' = expires \/ expires' = 0
    BY <1>3 DEF Null
  <2>3. expires' <= now' + Skew + Lease
    BY <1>1, <1>2, <2>1, <2>2
  <2>4. QED
    BY <2>3 DEF WaitIsBounded
<1>5. CASE RenewRow
  <2>1. PICK read \in Readings :
          expires' = IF state = "IN_PROGRESS" THEN read + Lease ELSE expires
    BY <1>5 DEF RenewRow
  <2>2. QED
    BY <1>2, <1>3, <2>1, WrittenNowEnds DEF LeaseInvariant
<1>6. CASE \E w \in Workers : Claim(w)
  BY <1>2, <1>6, WrittenNowEnds DEF Claim, LeaseInvariant
<1>7. CASE ~RenewRow /\ ~ \E w \in Workers : Claim(w)
  <2>1. expires' \in {expires, Null}
    BY <1>7 DEF Next, vars, rowVars, Tick, StartLeaseRenewal, Renew,
       RenewFails, EndStage, Finish, Leave, Settle, Abandon, LateRenewal
  <2>2. QED
    BY <1>3, <2>1
<1>8. QED
  BY <1>5, <1>6, <1>7

(* Nobody waits for a dead worker longer than one lease and the skew.      *)
THEOREM WaitBounded ==
  ASSUME ClockAssumption PROVE Spec => []WaitIsBounded
<1>1. Init => WaitIsBounded
  BY ConstantTypes DEF Init, WaitIsBounded, Null
<1>2. QED
  BY <1>1, WaitStep, LeaseInductive, PTL DEF Spec

-----------------------------------------------------------------------------
(* LeaseClock implements LeaseLock.  A step of the row maps to the         *)
(* statement it stands for; the clock maps to RunOut, and only when nobody *)
(* is at work, which is what LeaseInvariant is for.                        *)

LEMMA LeaseLeftStep ==
  ASSUME NoLeaseLeft, [Next]_vars
  PROVE  NoLeaseLeft'
<1>1. RenewRow => NoLeaseLeft'
  BY DEF RenewRow, NoLeaseLeft
<1>2. CASE UNCHANGED rowVars
  BY <1>2 DEF rowVars, NoLeaseLeft
<1>3. CASE ~RenewRow /\ ~UNCHANGED rowVars
  <2>1. state' = "IN_PROGRESS" \/ expires' = Null
    BY <1>3 DEF Next, vars, rowVars, Tick, Claim, StartLeaseRenewal, Renew,
       RenewFails, EndStage, Finish, Leave, Settle, Abandon, LateRenewal
  <2>2. QED
    BY <2>1 DEF NoLeaseLeft, Null
<1>4. QED
  BY <1>1, <1>2, <1>3

LEMMA NoLeaseLeftAlways == Spec => []NoLeaseLeft
<1>1. Init => NoLeaseLeft
  BY DEF Init, NoLeaseLeft
<1>2. QED
  BY <1>1, LeaseLeftStep, PTL DEF Spec

(* Who is at work on a stage in progress has a lease on every clock. *)
WorkIsLeased ==
    \A w \in Workers : Active(w) /\ state = "IN_PROGRESS" => expires > now + Skew

LEMMA WorkIsLeasedAlways == ASSUME ClockAssumption PROVE Spec => []WorkIsLeased
<1>1. LeaseInvariant => WorkIsLeased
  BY CoveredBeyondClocks DEF LeaseInvariant, WorkIsLeased
<1>2. QED
  BY <1>1, LeaseInductive, PTL

(* A lease written now is one on every clock. *)
LEMMA WrittenNowHolds ==
  ASSUME ClockAssumption, TypeOK, now' = now, NEW read \in Readings,
         expires' = read + Lease
  PROVE  Leased' = {Row}
<1>1. now \in Nat /\ now >= Delay /\ read \in Int /\ read >= now - Delay
  BY ConstantTypes DEF TypeOK, Readings
<1>2. expires' > now' + Skew
  BY <1>1, ConstantTypes
<1>3. QED
  BY <1>2 DEF Leased

LEMMA NoTimeLeft ==
  ASSUME NEW n \in Nat, NEW s \in Nat PROVE ~ (0 > n + s)
  OBVIOUS

LEMMA EndedHolds ==
  ASSUME ClockAssumption, now' \in Nat, expires' = 0
  PROVE  Leased' = {}
<1>1. Skew \in Nat
  BY ConstantTypes
<1>2. ~ (expires' > now' + Skew)
  BY <1>1, NoTimeLeft
<1>3. QED
  BY <1>2 DEF Leased

LEMMA RowStays ==
  ASSUME UNCHANGED <<now, state, expires>>
  PROVE  Stage' = Stage /\ Leased' = Leased
  BY DEF Stage, Leased

(* What the steps of one worker do to Drives. *)
LEMMA StillDrives ==
  ASSUME NEW w \in Workers, pc[w] # "idle", pc'[w] # "idle",
         \A v \in Workers \ {w} : pc'[v] = pc[v]
  PROVE  Drives' = Drives
  BY DEF Drives, Active

LEMMA Leaves ==
  ASSUME TypeOK, NEW w \in Workers, BackToIdle(w)
  PROVE  Lock!Gone(w, Row)
<1>1. pc'[w] = "idle" /\ \A v \in Workers \ {w} : pc'[v] = pc[v]
  BY DEF BackToIdle, TypeOK
<1>2. QED
  BY <1>1 DEF Drives, Active, Lock!Gone

LEMMA ClaimLocks ==
  ASSUME ClockAssumption, LeaseInvariant, NoLeaseLeft, NEW w \in Workers, Claim(w)
  PROVE  Lock!Claim(w, Row)
<1>1. PICK read \in Readings :
        /\ state = "ABSENT" \/ (state = "IN_PROGRESS" /\ ~ (expires > read))
        /\ expires' = read + Lease
  BY DEF Claim
<1>2. TypeOK /\ now \in Nat /\ expires \in Nat /\ now' = now
      /\ state' = "IN_PROGRESS" /\ pc[w] = "idle" /\ pc' = [pc EXCEPT ![w] = "starting"]
  BY DEF Claim, LeaseInvariant, TypeOK
<1>3. read \in Int /\ read <= now + Skew
  BY <1>2, ReadingsAhead
<1>4. Leased = {}
  BY <1>1, <1>2, <1>3, ConstantTypes DEF Leased, NoLeaseLeft, Null
<1>5. Leased' = {Row}
  BY <1>1, <1>2, WrittenNowHolds
<1>6. Stage[Row] \in {"ABSENT", "IN_PROGRESS"} /\ Stage' = [Stage EXCEPT ![Row] = "IN_PROGRESS"]
  BY <1>1, <1>2 DEF Stage
<1>7. Lock!Ledger!Disposition(Row) = "Acquired"
  BY <1>4, <1>6 DEF Lock!Ledger!Disposition
<1>8. Lock!Ledger!Claim(Row)
  BY <1>4, <1>5, <1>6, <1>7 DEF Lock!Ledger!Claim
<1>9. Row \notin Drives[w] /\ Drives' = [Drives EXCEPT ![w] = @ \union {Row}]
  BY <1>2 DEF Drives, Active, TypeOK
<1>10. QED
  BY <1>7, <1>8, <1>9 DEF Lock!Claim

LEMMA RenewLocks ==
  ASSUME ClockAssumption, TypeOK, now' = now, pc' = pc, RenewRow
  PROVE  Lock!Renew(Row)
<1>1. PICK read \in Readings :
        expires' = IF state = "IN_PROGRESS" THEN read + Lease ELSE expires
  BY DEF RenewRow
<1>2. Stage' = Stage /\ Drives' = Drives
  BY DEF RenewRow, Stage, Drives, Active
<1>3. CASE state = "IN_PROGRESS"
  <2>1. Leased' = {Row} /\ Stage[Row] = "IN_PROGRESS"
    BY <1>1, <1>3, WrittenNowHolds DEF Stage
  <2>2. Leased' = Leased \union {Row}
    BY <2>1 DEF Leased
  <2>3. QED
    BY <1>2, <2>1, <2>2 DEF Lock!Renew, Lock!Ledger!Renew
<1>4. CASE state # "IN_PROGRESS"
  <2>1. Leased' = Leased /\ Stage[Row] # "IN_PROGRESS"
    BY <1>1, <1>4 DEF Leased, Stage
  <2>2. QED
    BY <1>2, <2>1 DEF Lock!Renew, Lock!Ledger!Renew
<1>5. QED
  BY <1>3, <1>4

(* Who ends or releases the stage finds a row, so its UPDATE writes one. *)
LEMMA RowWritten ==
  ASSUME state # "ABSENT", state' \in {"IN_PROGRESS", "DONE"}, Leased' = {}
  PROVE  /\ state' = "DONE" => Lock!Ledger!Complete(Row)
         /\ state' = "IN_PROGRESS" => Lock!Ledger!Release(Row)
<1>1. Leased' = Leased \ {Row}
  BY DEF Leased
<1>2. Stage[Row] # "ABSENT"
  BY DEF Stage
<1>3. /\ state' = "DONE" => Stage' = [Stage EXCEPT ![Row] = "COMPLETED"]
      /\ state' = "IN_PROGRESS" => Stage' = [Stage EXCEPT ![Row] = "IN_PROGRESS"]
  BY DEF Stage
<1>4. QED
  BY <1>1, <1>2, <1>3
     DEF Lock!Ledger!Complete, Lock!Ledger!Release, Lock!Ledger!Write

LEMMA WorkLocks ==
  ASSUME ClockAssumption, LeaseInvariant, NEW w \in Workers,
         EndStage(w) \/ Finish(w) \/ Leave(w) \/ Settle(w) \/ Abandon(w)
         \/ StartLeaseRenewal(w) \/ RenewFails(w)
  PROVE  [Lock!Next]_(Lock!lockVars)
<1>1. Active(w) /\ Row \in Drives[w]
  BY DEF EndStage, Finish, Leave, Settle, Abandon, StartLeaseRenewal, RenewFails,
     Active, Drives
<1>2. TypeOK /\ Covered(w) /\ now \in Nat /\ state # "ABSENT"
  BY <1>1, ActiveAlone DEF Covered
<1>3. CASE EndStage(w)
  <2>1. Leased' = {}
    BY <1>2, <1>3, EndedHolds DEF EndStage, Null
  <2>2. Lock!Ledger!Complete(Row) /\ Drives' = Drives
    BY <1>2, <1>3, <2>1, RowWritten DEF EndStage, Drives, Active
  <2>3. Lock!End(w, Row)
    BY <2>2 DEF Lock!End
  <2>4. QED
    BY <1>1, <2>3 DEF Lock!Next
<1>4. CASE Settle(w)
  <2>1. Leased' = {}
    BY <1>2, <1>4, EndedHolds DEF Settle, Null
  <2>2. Lock!Gone(w, Row)
    BY <1>2, <1>4, Leaves DEF Settle
  <2>3. Lock!Ledger!Complete(Row) \/ Lock!Ledger!Release(Row)
    BY <1>2, <1>4, <2>1, RowWritten DEF Settle
  <2>4. Lock!End(w, Row) \/ Lock!Release(w, Row)
    BY <2>2, <2>3 DEF Lock!End, Lock!Release
  <2>5. QED
    BY <1>1, <2>4 DEF Lock!Next
<1>5. CASE Finish(w) \/ Abandon(w)
  <2>1. Lock!Gone(w, Row) /\ UNCHANGED <<now, state, expires>>
    BY <1>2, <1>5, Leaves DEF Finish, Abandon, rowVars
  <2>2. Lock!Leave(w, Row)
    BY <2>1, RowStays DEF Lock!Leave
  <2>3. QED
    BY <1>1, <2>2 DEF Lock!Next
<1>6. CASE Leave(w) \/ StartLeaseRenewal(w) \/ RenewFails(w)
  <2>1. pc[w] # "idle" /\ pc'[w] # "idle" /\ \A v \in Workers \ {w} : pc'[v] = pc[v]
    BY <1>2, <1>6 DEF Leave, StartLeaseRenewal, RenewFails, TypeOK
  <2>2. UNCHANGED <<now, state, expires>>
    BY <1>6 DEF Leave, StartLeaseRenewal, RenewFails, rowVars
  <2>3. Drives' = Drives /\ Stage' = Stage /\ Leased' = Leased
    BY <2>1, <2>2, RowStays, StillDrives
  <2>4. QED
    BY <2>3 DEF Lock!lockVars
<1>7. QED
  BY <1>3, <1>4, <1>5, <1>6

(* Time passes over the end of a lease only when nobody is at work. *)
LEMMA TickLocks ==
  ASSUME ClockAssumption, LeaseInvariant, WorkIsLeased', NoLeaseLeft, Tick
  PROVE  [Lock!Next]_(Lock!lockVars)
<1>1. /\ now' = now + 1 /\ now \in Nat /\ now' \in Nat /\ expires \in Nat
      /\ UNCHANGED <<state, expires, pc>>
  BY DEF Tick, rowVars, LeaseInvariant, TypeOK
<1>2. Stage' = Stage /\ Drives' = Drives
  BY <1>1 DEF Stage, Drives, Active
<1>3. CASE Leased' = Leased
  BY <1>2, <1>3 DEF Lock!lockVars
<1>4. CASE Leased' # Leased
  <2>1. expires > now + Skew /\ ~ (expires > now' + Skew)
    BY <1>1, <1>4, ConstantTypes DEF Leased
  <2>2. state = "IN_PROGRESS"
    BY <1>1, <2>1, ConstantTypes DEF NoLeaseLeft, Null
  <2>3. Leased = {Row} /\ Leased' = {}
    BY <1>1, <2>1 DEF Leased
  <2>4. ASSUME NEW w \in Workers, Row \in Drives[w] PROVE FALSE
    <3>1. Active(w)' /\ state' = "IN_PROGRESS"
      BY <1>1, <2>2, <2>4 DEF Drives, Active
    <3>2. expires' > now' + Skew
      BY <3>1 DEF WorkIsLeased
    <3>3. QED
      BY <1>1, <2>1, <3>2
  <2>5. Lock!RunOut(Row)
    BY <1>2, <2>3, <2>4 DEF Lock!RunOut, Lock!Ledger!Expire
  <2>6. QED
    BY <2>5 DEF Lock!Next
<1>5. QED
  BY <1>3, <1>4

LEMMA LockStep ==
  ASSUME ClockAssumption, LeaseInvariant, WorkIsLeased', NoLeaseLeft, [Next]_vars
  PROVE  [Lock!Next]_(Lock!lockVars)
<1>1. CASE UNCHANGED vars
  <2>1. UNCHANGED <<now, state, expires, pc>>
    BY <1>1 DEF vars, rowVars
  <2>2. Drives' = Drives
    BY <2>1 DEF Drives, Active
  <2>3. QED
    BY <2>1, <2>2, RowStays DEF Lock!lockVars
<1>2. ASSUME NEW w \in Workers, Claim(w) PROVE Lock!Next
  BY <1>2, ClaimLocks DEF Lock!Next
<1>3. ASSUME NEW w \in Workers, Renew(w) \/ LateRenewal(w) PROVE Lock!Next
  BY <1>3, RenewLocks DEF Lock!Next, Renew, LateRenewal, LeaseInvariant
<1>4. QED
  BY <1>1, <1>2, <1>3, TickLocks, WorkLocks DEF Next

LEMMA InitLock == ASSUME ClockAssumption, Init PROVE Lock!Init
<1>1. Stage = [row \in {Row} |-> "ABSENT"] /\ Drives = [w \in Workers |-> {}]
  BY DEF Init, Stage, Drives, Active
<1>2. Leased = {}
  BY ConstantTypes DEF Init, Leased, Null
<1>3. QED
  BY <1>1, <1>2 DEF Lock!Init, Lock!Ledger!LedgerInit

(* The clocks keep the lock that DeployConsumer relies on: LeaseClock      *)
(* implements LeaseLock, for any workers, lease, skew and delays that      *)
(* ClockAssumption allows.                                                 *)
THEOREM ClocksKeepLock ==
  ASSUME ClockAssumption PROVE Spec => LockKept
<1>1. QED
  BY InitLock, LockStep, LeaseInductive, WorkIsLeasedAlways, NoLeaseLeftAlways, PTL
     DEF Spec, LockKept, Lock!Spec
=============================================================================

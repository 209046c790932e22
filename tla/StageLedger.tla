---------------------------- MODULE StageLedger ----------------------------
(***************************************************************************)
(* The orchestration row of one deployment in orchestration_service.       *)
(* stage_ledger, and the five statements ledger.go runs on it.  Every      *)
(* operator is one SQL statement (or the one transaction of Claim), so it  *)
(* is atomic; whether its caller learns the result is the caller's part.   *)
(*                                                                         *)
(* None of the UPDATEs looks at who holds the lease, and only Renew looks  *)
(* at the state of the row: the model keeps both omissions.                *)
(***************************************************************************)
CONSTANT Deployments

VARIABLES
    stage,   \* stage[d]: the "state" column, or "ABSENT" while there is no row
    leased   \* the deployments whose lease_expires_at is still in the future

StageStates == {"ABSENT", "IN_PROGRESS", "COMPLETED", "FAILED"}
TerminalStates == {"COMPLETED", "FAILED"}

LedgerTypeOK ==
    /\ stage \in [Deployments -> StageStates]
    /\ leased \subseteq Deployments

LedgerInit ==
    /\ stage = [d \in Deployments |-> "ABSENT"]
    /\ leased = {}
-----------------------------------------------------------------------------
(* What Claim answers, from the row it inserted or locked.  Two mutants:   *)
(* one does not look at the lease, one takes a failed stage up again.      *)
Disposition_IgnoresLease(d) ==
    CASE stage[d] = "COMPLETED" -> "Completed"
      [] stage[d] = "FAILED" -> "Failed"
      [] OTHER -> "Acquired"
Disposition_RetriesFailed(d) ==
    CASE stage[d] = "COMPLETED" -> "Completed"
      [] stage[d] = "IN_PROGRESS" /\ d \in leased -> "Busy"
      [] OTHER -> "Acquired"
Disposition(d) ==
    CASE stage[d] = "COMPLETED" -> "Completed"
      [] stage[d] = "FAILED" -> "Failed"
      [] stage[d] = "IN_PROGRESS" /\ d \in leased -> "Busy"
      [] OTHER -> "Acquired"

(* The write of Claim: only an acquired claim changes the row. *)
Claim(d) ==
    IF Disposition(d) = "Acquired"
    THEN /\ stage' = [stage EXCEPT ![d] = "IN_PROGRESS"]
         /\ leased' = leased \union {d}
    ELSE UNCHANGED <<stage, leased>>

(* UPDATE ... WHERE state = IN_PROGRESS: the only guarded statement. *)
Renew(d) ==
    /\ leased' = IF stage[d] = "IN_PROGRESS" THEN leased \union {d} ELSE leased
    /\ UNCHANGED stage

(* An UPDATE of a row that does not exist succeeds and changes nothing. *)
Write(d, s) ==
    /\ stage' = IF stage[d] = "ABSENT" THEN stage ELSE [stage EXCEPT ![d] = s]
    /\ leased' = leased \ {d}

Complete(d) == Write(d, "COMPLETED")
Fail(d) == Write(d, "FAILED")
Release(d) == Write(d, "IN_PROGRESS")

(* The clock passes lease_expires_at. *)
Expire(d) ==
    /\ d \in leased
    /\ leased' = leased \ {d}
    /\ UNCHANGED stage
=============================================================================

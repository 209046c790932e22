----------------------------- MODULE LeaseClock -----------------------------
(***************************************************************************)
(* The lease of one deployment in real time: Claim, Renew, Complete, Fail  *)
(* and Release of ledger.go, which compare and write lease_expires_at with *)
(* the clock of the process that calls them, and the renewal goroutine of  *)
(* startLeaseRenewal (consumer.go).  DeployConsumer lets the lease of a    *)
(* worker at work run out only as a fault; this module says how far clocks *)
(* may differ and calls may be delayed for that to be right.               *)
(*                                                                         *)
(* now is true time, in whatever unit.  A process that reads its clock     *)
(* gets a time up to Skew ahead of it, and the statement that uses the     *)
(* reading takes effect up to Delay later: Claim reads the clock before it *)
(* waits for the row.  The renewal goroutine lives from before Deploy to   *)
(* the end of handleMessage.  Before it and after it, for at most Grace    *)
(* each, a worker drives the deployment with nobody renewing: it publishes *)
(* the started event before, and the retrying event, the retry copy and    *)
(* the release after.                                                      *)
(***************************************************************************)
EXTENDS Integers

CONSTANTS
    Workers,
    Lease,     \* cfg.LeaseDuration
    Skew,      \* how far two clocks may differ
    Delay,     \* how late a reading is used, and how late a tick is served
    Grace,     \* time spent without the renewal goroutine, before or after it
    MaxTime    \* bound on the true time

(* startLeaseRenewal's ticker. *)
Period == Lease \div 3

(* The lease outlasts one renewal that fails in between two that succeed,  *)
(* but no more: two periods are two thirds of it.                          *)
ASSUME ClockAssumption ==
    /\ Lease \in Nat /\ Skew \in Nat /\ Delay \in Nat /\ Grace \in Nat
    /\ MaxTime \in Nat
    /\ 2 * Period + 2 * Grace + 2 * Delay + Skew < Lease

VARIABLES
    now,       \* true time
    state,     \* the row's state: "ABSENT", "IN_PROGRESS" or "DONE"
    expires,   \* the row's lease_expires_at, 0 for NULL
    pc,        \* pc[w]: where w stands
    due,       \* due[w]: the next tick, or the end of a grace
    missed,    \* missed[w]: the last renewal failed
    ghost      \* ghost[w]: until when a renewal of a stopped goroutine may land

rowVars == <<state, expires>>
vars == <<now, rowVars, pc, due, missed, ghost>>

Null == 0
ActivePcs == {"starting", "driving", "leaving"}

(* Every variable has its type, and time begins late enough for a reading  *)
(* never to be negative: Null is before every reading.                     *)
TypeOK ==
    /\ now \in Nat /\ now >= Delay
    /\ state \in {"ABSENT", "IN_PROGRESS", "DONE"}
    /\ expires \in Nat
    /\ pc \in [Workers -> {"idle"} \union ActivePcs]
    /\ due \in [Workers -> Nat]
    /\ missed \in [Workers -> BOOLEAN]
    /\ ghost \in [Workers -> Nat]

Init ==
    /\ now = Delay
    /\ state = "ABSENT" /\ expires = Null
    /\ pc = [w \in Workers |-> "idle"]
    /\ due = [w \in Workers |-> 0]
    /\ missed = [w \in Workers |-> FALSE]
    /\ ghost = [w \in Workers |-> 0]
-----------------------------------------------------------------------------
(* What time.Now() may have been for a statement that takes effect now. *)
Readings == (now - Delay) .. (now + Skew)

(* The latest moment w can put off its next call to. *)
Deadline(w) == IF pc[w] = "driving" THEN due[w] + Delay ELSE due[w]

Tick ==
    /\ now < MaxTime
    /\ \A w \in Workers : pc[w] # "idle" => now < Deadline(w)
    /\ now' = now + 1
    /\ ghost' = [w \in Workers |-> IF ghost[w] > now THEN ghost[w] ELSE 0]
    /\ UNCHANGED <<rowVars, pc, due, missed>>

(* Claim gives the deployment to w: there is no row yet, or nobody has a   *)
(* lease on it at the time w read.  All other answers change nothing.      *)
Claim(w) ==
    /\ pc[w] = "idle"
    /\ \E read \in Readings :
          /\ \/ state = "ABSENT"
             \/ state = "IN_PROGRESS" /\ ~ (expires > read)
          /\ expires' = read + Lease
    /\ state' = "IN_PROGRESS"
    /\ pc' = [pc EXCEPT ![w] = "starting"]
    /\ due' = [due EXCEPT ![w] = now + Grace]
    /\ UNCHANGED <<now, missed, ghost>>

StartLeaseRenewal(w) ==
    /\ pc[w] = "starting"
    /\ pc' = [pc EXCEPT ![w] = "driving"]
    /\ due' = [due EXCEPT ![w] = now + Period]
    /\ missed' = [missed EXCEPT ![w] = FALSE]
    /\ UNCHANGED <<now, rowVars, ghost>>

(* The UPDATE of Renew, guarded by the state of the row only.  Mutants: it *)
(* touches updated_at and forgets the lease; it adds to the lease what     *)
(* should be added to the time; it forgets AND state = $4.                 *)
RenewRow_Touch == UNCHANGED rowVars
RenewRow_Adds ==
    /\ expires' = IF state = "IN_PROGRESS" THEN expires + Lease ELSE expires
    /\ UNCHANGED state
RenewRow_AnyState ==
    /\ \E read \in Readings : expires' = read + Lease
    /\ UNCHANGED state
RenewRow ==
    /\ \E read \in Readings :
          expires' = IF state = "IN_PROGRESS" THEN read + Lease ELSE expires
    /\ UNCHANGED state

(* A tick of the renewal goroutine. *)
Renew(w) ==
    /\ pc[w] = "driving" /\ now >= due[w]
    /\ RenewRow
    /\ due' = [due EXCEPT ![w] = @ + Period]
    /\ missed' = [missed EXCEPT ![w] = FALSE]
    /\ UNCHANGED <<now, pc, ghost>>

(* The goroutine ignores the error of a renewal and waits for the next     *)
(* tick; here it does not happen twice in a row.  Mutant: it may.          *)
RenewFails_Again(w) ==
    /\ pc[w] = "driving" /\ now >= due[w]
    /\ due' = [due EXCEPT ![w] = @ + Period]
    /\ missed' = [missed EXCEPT ![w] = TRUE]
    /\ UNCHANGED <<now, rowVars, pc, ghost>>
RenewFails(w) ==
    /\ pc[w] = "driving" /\ now >= due[w]
    /\ ~missed[w]
    /\ due' = [due EXCEPT ![w] = @ + Period]
    /\ missed' = [missed EXCEPT ![w] = TRUE]
    /\ UNCHANGED <<now, rowVars, pc, ghost>>

(* Complete or Fail inside handleMessage. *)
EndStage(w) ==
    /\ pc[w] = "driving"
    /\ state' = "DONE" /\ expires' = Null
    /\ UNCHANGED <<now, pc, due, missed, ghost>>

(* The goroutine ends.  A renewal it has already sent may still land. *)
StopLeaseRenewal(w) ==
    ghost' = [ghost EXCEPT ![w] = IF pc[w] = "driving" THEN now + Delay ELSE @]

BackToIdle(w) ==
    /\ pc' = [pc EXCEPT ![w] = "idle"]
    /\ due' = [due EXCEPT ![w] = 0]
    /\ missed' = [missed EXCEPT ![w] = FALSE]

(* handleMessage is over with a finished stage, or asks for a retry, which *)
(* is scheduled without a renewal goroutine.                               *)
Finish(w) ==
    /\ pc[w] = "driving" /\ state = "DONE"
    /\ BackToIdle(w)
    /\ StopLeaseRenewal(w)
    /\ UNCHANGED <<now, rowVars>>

Leave(w) ==
    /\ pc[w] \in {"starting", "driving"}
    /\ pc' = [pc EXCEPT ![w] = "leaving"]
    /\ due' = [due EXCEPT ![w] = now + Grace]
    /\ missed' = [missed EXCEPT ![w] = FALSE]
    /\ StopLeaseRenewal(w)
    /\ UNCHANGED <<now, rowVars>>

(* releaseClaim, or the completeFailure of a delivery without attempts. *)
Settle(w) ==
    /\ pc[w] = "leaving"
    /\ state' \in {"IN_PROGRESS", "DONE"} /\ expires' = Null
    /\ BackToIdle(w)
    /\ UNCHANGED <<now, ghost>>

(* The process dies, or its retry fails and the delivery is requeued: the  *)
(* lease is left to run out.                                               *)
Abandon(w) ==
    /\ pc[w] # "idle"
    /\ BackToIdle(w)
    /\ StopLeaseRenewal(w)
    /\ UNCHANGED <<now, rowVars>>

LateRenewal(w) ==
    /\ now <= ghost[w]
    /\ RenewRow
    /\ ghost' = [ghost EXCEPT ![w] = 0]
    /\ UNCHANGED <<now, pc, due, missed>>

Next ==
    \/ Tick
    \/ \E w \in Workers :
          \/ Claim(w) \/ StartLeaseRenewal(w) \/ Renew(w) \/ RenewFails(w)
          \/ EndStage(w) \/ Finish(w) \/ Leave(w) \/ Settle(w)
          \/ Abandon(w) \/ LateRenewal(w)

Spec == Init /\ [][Next]_vars
-----------------------------------------------------------------------------
(* Properties.                                                             *)

Active(w) == pc[w] # "idle"

(* Two processes never drive the deployment at the same time, whatever     *)
(* their clocks show, however late their statements take effect and        *)
(* although a renewal fails now and then, a process goes on without its    *)
(* renewal goroutine for a while, and a renewal lands after its time.      *)
Exclusive == \A v, w \in Workers : Active(v) /\ Active(w) => v = w

(* A worker that is gone, and even a renewal that lands after its worker   *)
(* has released the lease, keeps the others away for one lease at most.    *)
WaitIsBounded == expires <= now + Skew + Lease

(* The latest write of the lease that due, the next tick or the end of a   *)
(* grace, gives evidence of.                                               *)
Unrenewed(w) == IF missed[w] THEN 2 * Period ELSE Period
LastWrite(w) ==
    CASE pc[w] = "starting" -> due[w] - Grace
      [] pc[w] = "driving" -> due[w] - Unrenewed(w) - Grace
      [] OTHER -> due[w] - 2 * Period - 2 * Grace - Delay
Allowance(w) == IF pc[w] = "driving" THEN Period ELSE Grace

(* Why Exclusive holds: time stops at w's deadline, and the lease written  *)
(* at LastWrite with a reading at most Delay old is not over by then.      *)
Covered(w) ==
    /\ now <= Deadline(w)
    /\ due[w] <= now + Allowance(w)
    /\ \/ state = "IN_PROGRESS" /\ expires >= LastWrite(w) - Delay + Lease
       \/ state = "DONE" /\ pc[w] # "starting"
LeaseInvariant ==
    TypeOK /\ Exclusive /\ \A w \in Workers : Active(w) => Covered(w)

(* What the clocks leave of the lease: one that some clock may show as     *)
(* over is none; DONE stands for COMPLETED.                                *)
Row == "row"
Stage == [row \in {Row} |-> IF state = "DONE" THEN "COMPLETED" ELSE state]
Leased == IF expires > now + Skew THEN {Row} ELSE {}
Drives == [w \in Workers |-> IF Active(w) THEN {Row} ELSE {}]

Lock == INSTANCE LeaseLock WITH
            Deployments <- {Row},
            stage <- Stage, leased <- Leased, drives <- Drives

(* The row behaves as DeployConsumer takes it: its lease runs out only     *)
(* when nobody is at work on the deployment, it is claimed only after      *)
(* that, and a renewal that lands late gives a lease to no finished stage. *)
LockKept == Lock!Spec

(* A stage that is absent or over has no lease, whatever is under way. *)
NoLeaseLeft == state # "IN_PROGRESS" => expires = Null
=============================================================================

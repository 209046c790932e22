------------------------------ MODULE LeaseLock ------------------------------
(***************************************************************************)
(* The abstract lease: what the rows of the ledger and the workers that    *)
(* drive their deployments make of each other, without clocks, messages or *)
(* calls that take time.  A row is claimed when nobody has a lease on it,  *)
(* it is written by who drives, and its lease runs out when nobody does.   *)
(*                                                                         *)
(* ledger.go enforces the first of the three only: its UPDATEs ask for no  *)
(* holder, and the lease ends when the clock says so.  DeployConsumer      *)
(* shows that the workers keep to the second, LeaseClock that their        *)
(* renewals give the third.                                                *)
(***************************************************************************)
CONSTANTS Workers, Deployments

VARIABLES
    stage, leased,   \* the ledger, see StageLedger
    drives           \* drives[w]: what w's claim was granted of and w goes on with

lockVars == <<stage, leased, drives>>

Ledger == INSTANCE StageLedger

Init ==
    /\ Ledger!LedgerInit
    /\ drives = [w \in Workers |-> {}]

(* A claim that is granted; the other answers change nothing. *)
Claim(w, d) ==
    /\ d \notin drives[w] /\ Ledger!Disposition(d) = "Acquired"
    /\ Ledger!Claim(d)
    /\ drives' = [drives EXCEPT ![w] = @ \union {d}]

(* Whoever sent the renewal, and whenever it lands. *)
Renew(d) == Ledger!Renew(d) /\ UNCHANGED drives

Gone(w, d) == drives' = [drives EXCEPT ![w] = @ \ {d}]

(* Who has ended a stage may still have to tell it. *)
End(w, d) ==
    /\ Ledger!Complete(d) \/ Ledger!Fail(d)
    /\ UNCHANGED drives \/ Gone(w, d)

Release(w, d) == Ledger!Release(d) /\ Gone(w, d)

Leave(w, d) == UNCHANGED <<stage, leased>> /\ Gone(w, d)

RunOut(d) ==
    /\ \A w \in Workers : d \notin drives[w]
    /\ Ledger!Expire(d)
    /\ UNCHANGED drives

Next ==
    \/ \E d \in Deployments : Renew(d) \/ RunOut(d)
    \/ \E w \in Workers, d \in Deployments : Claim(w, d)
    \/ \E w \in Workers : \E d \in drives[w] :
          End(w, d) \/ Release(w, d) \/ Leave(w, d)

Spec == Init /\ [][Next]_lockVars
=============================================================================

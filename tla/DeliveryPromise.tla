--------------------------- MODULE DeliveryPromise ---------------------------
(***************************************************************************)
(* What the service promises whoever sends a build.succeeded and listens   *)
(* to the events about it, whichever process publishes them and however    *)
(* often the message is delivered: a build has at most one outcome, and it *)
(* is decided before it is announced; what is announced fits the outcome   *)
(* as it stands at that moment; and the events about a build come in their *)
(* order.  DeployConsumer shows when the processes keep this promise.      *)
(***************************************************************************)
CONSTANT Deployments

VARIABLES
    told,      \* told[d]: the kinds of event published about d
    outcome    \* outcome[d]: "open" until the deployment is decided

promiseVars == <<told, outcome>>

Init ==
    /\ told = [d \in Deployments |-> {}]
    /\ outcome = [d \in Deployments |-> "open"]

(* The outcome an event speaks of: progress is of an open deployment. *)
SpeaksOf(kind) ==
    CASE kind \in {"succeeded", "running"} -> "succeeded"
      [] kind \in {"deployFailed", "orchFailed"} -> "failed"
      [] OTHER -> "open"

(* What must have been told before an event of this kind. *)
Before(kind) ==
    CASE kind = "deployed" -> {"started"}
      [] kind \in {"succeeded", "pending"} -> {"started", "deployed"}
      [] kind = "running" -> {"started", "deployed", "succeeded"}
      [] kind = "orchFailed" -> {"deployFailed"}
      [] OTHER -> {}

Kinds == {"started", "deployed", "succeeded", "running", "deployFailed",
          "orchFailed", "retrying", "pending"}

Announce(d, kind) ==
    /\ outcome[d] = SpeaksOf(kind)
    /\ Before(kind) \subseteq told[d]
    /\ told' = [told EXCEPT ![d] = @ \union {kind}]
    /\ UNCHANGED outcome

(* A deployment succeeds only after it was announced as deployed. *)
Succeed(d) ==
    /\ outcome[d] = "open" /\ "deployed" \in told[d]
    /\ outcome' = [outcome EXCEPT ![d] = "succeeded"]
    /\ UNCHANGED told

Fail(d) ==
    /\ outcome[d] = "open"
    /\ outcome' = [outcome EXCEPT ![d] = "failed"]
    /\ UNCHANGED told

Next ==
    \E d \in Deployments :
        \/ \E kind \in Kinds : Announce(d, kind)
        \/ Succeed(d)
        \/ Fail(d)

Spec == Init /\ [][Next]_promiseVars
=============================================================================

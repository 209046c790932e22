------------------------------ MODULE Reconciler ------------------------------
(***************************************************************************)
(* reconciler.go: Deploy brings the namespace, the pull secret, the        *)
(* Deployment, the Service and the Ingress of a build to the cluster, one  *)
(* after the other.  Builds of one project share the namespace and the     *)
(* secret, builds of one service slug share all five objects, and nothing  *)
(* but the resource versions of the API server keeps their Deploys apart.  *)
(*                                                                         *)
(* One action is one call of the API server, which is external: it rejects *)
(* a create of an object that exists or that carries a resource version,   *)
(* an update that was not computed from the newest version, and an update  *)
(* of a Deployment's selector; a deleted Deployment stays until its pods   *)
(* are gone.  In place of version numbers the model keeps whether what a   *)
(* Deploy read is still what the server has.  The pull secret is one for   *)
(* which credentials are configured.                                       *)
(***************************************************************************)
EXTENDS Naturals, FiniteSets

CONSTANTS
    Builds,       \* deployments, each driven by one worker at a time
    Slugs,        \* names of the Deployments, Services and Ingresses
    Services,     \* service ids, the selector of pods
    Slug,         \* Slug[b]: the name build b deploys to
    Service,      \* Service[b]: its service id
    MaxTries,     \* the steps of retry.DefaultRetry
    MaxFaults,    \* bound on the calls that fail or whose answer is lost
    Nobody        \* holder of an object that does not exist

ASSUME ReconcilerAssumption ==
    /\ Slug \in [Builds -> Slugs] /\ Service \in [Builds -> Services]
    /\ MaxTries \in Nat \ {0} /\ MaxFaults \in Nat
    /\ Nobody \notin Builds

VARIABLES
    namespace,   \* "absent", "ours", or "foreign" by its ownership labels
    holder,      \* holder[o]: the build whose desired state object o has
    deleting,    \* slugs whose Deployment waits for its pods to go away
    existed,     \* history: slugs that have had a Deployment
    misled,      \* history: slugs whose Deployment was deleted by a Deploy it suited
    at,          \* at[b]: the object Deploy of b is about
    call,        \* call[b]: its next call about it
    fresh,       \* the builds whose last read is still what the server has
    versioned,   \* the builds whose desired Deployment carries a version
    tries,       \* tries[b]: rounds of RetryOnConflict so far
    outcome,     \* outcome[b]: what Deploy answered
    undisturbed, \* history: the builds nobody interfered with
    faults       \* failed calls so far

serverVars == <<namespace, holder, deleting, existed, misled>>
deployVars == <<at, call, fresh, versioned, tries, outcome, undisturbed>>
vars == <<serverVars, deployVars, faults>>

Kinds == {"deployment", "service", "ingress"}
Secret == <<"secret", "project">>
Objects == {Secret} \union (Kinds \X Slugs)
Places == {"namespace", "secret"} \union Kinds
Calls == {"idle", "get", "recheck", "latest", "update", "create", "delete", "await"}

(* Every variable has its type, and only a Deployment that exists is being *)
(* deleted.                                                                *)
TypeOK ==
    /\ namespace \in {"absent", "ours", "foreign"}
    /\ holder \in [Objects -> Builds \union {Nobody}]
    /\ deleting \subseteq {s \in Slugs : holder[<<"deployment", s>>] # Nobody}
    /\ existed \subseteq Slugs /\ misled \subseteq existed
    /\ at \in [Builds -> Places] /\ call \in [Builds -> Calls]
    /\ fresh \subseteq Builds /\ versioned \subseteq Builds
    /\ tries \in [Builds -> 0 .. (MaxTries - 1)]
    /\ outcome \in [Builds -> {"none", "ok", "retriable", "fatal"}]
    /\ undisturbed \subseteq Builds
    /\ faults \in 0 .. MaxFaults

Init ==
    /\ namespace = "absent"
    /\ holder = [o \in Objects |-> Nobody]
    /\ deleting = {} /\ existed = {} /\ misled = {}
    /\ at = [b \in Builds |-> "namespace"] /\ call = [b \in Builds |-> "idle"]
    /\ fresh = {} /\ versioned = {}
    /\ tries = [b \in Builds |-> 0]
    /\ outcome = [b \in Builds |-> "none"]
    /\ undisturbed = {}
    /\ faults = 0
-----------------------------------------------------------------------------
Object(b) == IF at[b] = "secret" THEN Secret ELSE <<at[b], Slug[b]>>
Exists(b) == holder[Object(b)] # Nobody
Active(b) == call[b] # "idle"
Neighbours(b) == {c \in Builds \ {b} : Slug[c] = Slug[b]}

SameSelector(b) ==
    at[b] = "deployment" => Service[holder[Object(b)]] = Service[b]

(* Where a Deploy goes on; nothing else about it changes. *)
Step(b, place, next) ==
    /\ at' = [at EXCEPT ![b] = place]
    /\ call' = [call EXCEPT ![b] = next]
    /\ UNCHANGED <<outcome, undisturbed>>
Goto(b, next) == Step(b, at[b], next)

Answer(b, result) ==
    /\ outcome' = [outcome EXCEPT ![b] = result]
    /\ call' = [call EXCEPT ![b] = "idle"]
    /\ UNCHANGED <<at, undisturbed>>

(* Deploy goes on to the next object, or is done. *)
Advance(b) ==
    CASE at[b] = "namespace" -> Step(b, "secret", "get")
      [] at[b] = "secret" -> Step(b, "deployment", "get")
      [] at[b] = "deployment" -> Step(b, "service", "get")
      [] at[b] = "service" -> Step(b, "ingress", "get")
      [] at[b] = "ingress" -> Answer(b, "ok")

(* isRetriableDeployError: not found, already exists, conflict, invalid,    *)
(* forbidden and ownership are final; what an overloaded or unreachable     *)
(* server answers is not.                                                   *)
Fails(b) == Answer(b, "fatal")

(* The call of b is answered as the state of the cluster has it; or its     *)
(* answer never arrives; or it is refused for a reason of its own, and has  *)
(* no effect.                                                               *)
Fault == faults < MaxFaults /\ faults' = faults + 1
Answered(next) == next /\ UNCHANGED faults
Unanswered(b) == Fault /\ Answer(b, "retriable")
NotDone(b) == Unanswered(b) \/ (Fault /\ Fails(b))

(* After a write of object o what others have read of it is out of date. *)
Outdates(b, o) == fresh' = {c \in fresh \ {b} : Object(c) # o}
ReadOnly == UNCHANGED <<serverVars, versioned, tries>>
-----------------------------------------------------------------------------
(* A new attempt at b: the first, or after a retriable answer.             *)
Start(b) ==
    /\ ~Active(b) /\ outcome[b] \in {"none", "retriable"}
    /\ at' = [at EXCEPT ![b] = "namespace"]
    /\ call' = [call EXCEPT ![b] = "get"]
    /\ outcome' = [outcome EXCEPT ![b] = "none"]
    /\ fresh' = fresh \ {b} /\ versioned' = versioned \ {b}
    /\ tries' = [tries EXCEPT ![b] = 0]
    /\ undisturbed' =
         (undisturbed \ Neighbours(b)) \union
         (IF Slug[b] \in deleting \/ \E c \in Neighbours(b) : Active(c)
          THEN {} ELSE {b})
    /\ UNCHANGED <<serverVars, faults>>

(* ensureNamespace: Get, and again after a lost race for Create. *)
GetNamespace(b) ==
    /\ at[b] = "namespace" /\ call[b] \in {"get", "recheck"}
    /\ \/ Answered(CASE namespace = "ours" -> Advance(b)
                     [] namespace = "foreign" -> Fails(b)
                     [] OTHER -> IF call[b] = "get" THEN Goto(b, "create") ELSE Fails(b))
       \/ NotDone(b)
    /\ ReadOnly /\ UNCHANGED fresh

(* Mutant: whoever wins the race for Create is taken to be of the project. *)
CreateNamespace_TrustsRace(b) ==
    /\ at[b] = "namespace" /\ call[b] = "create"
    /\ \/ /\ namespace' = IF namespace = "absent" THEN "ours" ELSE namespace
          /\ (Answered(Advance(b)) \/ Unanswered(b))
       \/ NotDone(b) /\ UNCHANGED namespace
    /\ UNCHANGED <<holder, deleting, existed, misled, fresh, versioned, tries>>
CreateNamespace(b) ==
    /\ at[b] = "namespace" /\ call[b] = "create"
    /\ \/ /\ namespace' = IF namespace = "absent" THEN "ours" ELSE namespace
          /\ \/ Answered(IF namespace = "absent" THEN Advance(b)
                         ELSE Goto(b, "recheck"))
             \/ Unanswered(b)
       \/ NotDone(b) /\ UNCHANGED namespace
    /\ UNCHANGED <<holder, deleting, existed, misled, fresh, versioned, tries>>

(* Mutant: an object that exists is taken to be as desired. *)
Get_LeavesExisting(b) ==
    /\ at[b] # "namespace" /\ call[b] = "get"
    /\ \/ Answered(CASE ~Exists(b) -> Goto(b, "create")
                     [] Exists(b) /\ SameSelector(b) -> Advance(b)
                     [] OTHER -> Goto(b, "delete"))
       \/ NotDone(b)
    /\ tries' = [tries EXCEPT ![b] = 0]
    /\ UNCHANGED <<serverVars, fresh, versioned>>

(* The first Get of a secret, Deployment, Service or Ingress. *)
Get(b) ==
    /\ at[b] # "namespace" /\ call[b] = "get"
    /\ \/ Answered(CASE ~Exists(b) -> Goto(b, "create")
                     [] Exists(b) /\ SameSelector(b) -> Goto(b, "latest")
                     [] OTHER -> Goto(b, "delete"))
       \/ NotDone(b)
    /\ tries' = [tries EXCEPT ![b] = 0]
    /\ UNCHANGED <<serverVars, fresh, versioned>>

(* One round of RetryOnConflict: Get the newest version ... *)
GetLatest(b) ==
    /\ call[b] = "latest"
    /\ \/ /\ Answered(IF Exists(b) THEN Goto(b, "update") ELSE Fails(b))
          /\ fresh' = IF Exists(b) THEN fresh \union {b} ELSE fresh
          /\ versioned' = IF Exists(b) /\ at[b] = "deployment"
                          THEN versioned \union {b} ELSE versioned
       \/ NotDone(b) /\ UNCHANGED <<fresh, versioned>>
    /\ UNCHANGED <<serverVars, tries>>

(* ... and Update it.  A changed selector leads to recreateDeployment.     *)
(* Mutant OnceMore: one round more than retry.DefaultRetry allows.         *)
Conflict_OnceMore(b) ==
    /\ Exists(b) /\ b \notin fresh
    /\ IF tries[b] + 1 <= MaxTries
       THEN Goto(b, "latest") /\ tries' = [tries EXCEPT ![b] = @ + 1]
       ELSE Fails(b) /\ UNCHANGED tries
    /\ UNCHANGED <<serverVars, fresh, faults>>
Conflict(b) ==
    /\ Exists(b) /\ b \notin fresh
    /\ IF tries[b] + 1 < MaxTries
       THEN Goto(b, "latest") /\ tries' = [tries EXCEPT ![b] = @ + 1]
       ELSE Fails(b) /\ UNCHANGED tries
    /\ UNCHANGED <<serverVars, fresh, faults>>

Write(b) ==
    /\ holder' = [holder EXCEPT ![Object(b)] = b]
    /\ existed' = IF at[b] = "deployment" THEN existed \union {Slug[b]} ELSE existed
    /\ Outdates(b, Object(b))
    /\ UNCHANGED <<namespace, deleting, misled>>

Update(b) ==
    /\ call[b] = "update"
    /\ \/ Conflict(b)
       \/ /\ ~Exists(b)
          /\ Answered(Fails(b))
          /\ UNCHANGED <<serverVars, fresh, tries>>
       \/ /\ b \in fresh /\ Exists(b) /\ ~SameSelector(b)
          /\ Answered(Goto(b, "delete"))
          /\ UNCHANGED <<serverVars, fresh, tries>>
       \/ /\ b \in fresh /\ Exists(b) /\ SameSelector(b)
          /\ Write(b)
          /\ Answered(Advance(b)) \/ Unanswered(b)
          /\ UNCHANGED tries
       \/ NotDone(b) /\ UNCHANGED <<serverVars, fresh, tries>>
    /\ UNCHANGED versioned

(* desired still carries the version an earlier Update gave it. *)
Rejected(b) == Exists(b) \/ (at[b] = "deployment" /\ b \in versioned)

Create(b) ==
    /\ at[b] # "namespace" /\ call[b] = "create"
    /\ \/ Rejected(b) /\ Answered(Fails(b)) /\ UNCHANGED <<serverVars, fresh>>
       \/ ~Rejected(b) /\ Write(b) /\ (Answered(Advance(b)) \/ Unanswered(b))
       \/ NotDone(b) /\ UNCHANGED <<serverVars, fresh>>
    /\ UNCHANGED <<versioned, tries>>

(* recreateDeployment: a Deployment that is gone already is as good.       *)
Delete(b) ==
    /\ call[b] = "delete"
    /\ \/ /\ deleting' = IF Exists(b) THEN deleting \union {Slug[b]} ELSE deleting
          /\ misled' = IF Exists(b) /\ SameSelector(b) THEN misled \union {Slug[b]} ELSE misled
          /\ Outdates(b, Object(b))
          /\ Answered(Goto(b, "await")) \/ Unanswered(b)
       \/ NotDone(b) /\ UNCHANGED <<deleting, misled, fresh>>
    /\ UNCHANGED <<namespace, holder, existed, versioned, tries>>

(* Mutant: the end of the deletion is taken for the end of the matter. *)
Await_ForgetsCreate(b) ==
    /\ call[b] = "await"
    /\ \/ ~Exists(b) /\ Answered(Advance(b))
       \/ NotDone(b)
    /\ ReadOnly /\ UNCHANGED fresh
Await(b) ==
    /\ call[b] = "await"
    /\ \/ ~Exists(b) /\ Answered(Goto(b, "create"))
       \/ NotDone(b)
    /\ ReadOnly /\ UNCHANGED fresh

(* applyCtx ends before the timer of recreateDeployment, which starts later. *)
ContextEnds(b) ==
    /\ call[b] = "await"
    /\ Answered(Answer(b, "retriable"))
    /\ ReadOnly /\ UNCHANGED fresh
-----------------------------------------------------------------------------
(* The pods of a deleted Deployment are gone, and then it is. *)
Gone(s) ==
    /\ s \in deleting
    /\ holder' = [holder EXCEPT ![<<"deployment", s>>] = Nobody]
    /\ deleting' = deleting \ {s}
    /\ fresh' = {c \in fresh : Object(c) # <<"deployment", s>>}
    /\ UNCHANGED <<namespace, existed, misled, at, call, versioned, tries, outcome,
                   undisturbed, faults>>

(* The deployment controller writes the status: a new version as well. *)
StatusWritten(s) ==
    /\ holder[<<"deployment", s>>] # Nobody
    /\ fresh' = {c \in fresh : Object(c) # <<"deployment", s>>}
    /\ UNCHANGED <<serverVars, at, call, versioned, tries, outcome, undisturbed,
                   faults>>

(* Somebody else takes the name of the namespace. *)
ForeignNamespace ==
    /\ namespace = "absent"
    /\ namespace' = "foreign"
    /\ UNCHANGED <<holder, deleting, existed, misled, deployVars, faults>>

Deploy(b) ==
    \/ GetNamespace(b) \/ CreateNamespace(b)
    \/ Get(b) \/ GetLatest(b) \/ Update(b) \/ Create(b)
    \/ Delete(b) \/ Await(b) \/ ContextEnds(b)

(* Every build has been answered for good. *)
Rest ==
    /\ \A b \in Builds : ~Active(b) /\ outcome[b] \in {"ok", "fatal"}
    /\ UNCHANGED vars

Next ==
    \/ \E b \in Builds : Start(b) \/ Deploy(b)
    \/ \E s \in Slugs : Gone(s) \/ StatusWritten(s)
    \/ ForeignNamespace
    \/ Rest

Spec == Init /\ [][Next]_vars
-----------------------------------------------------------------------------
(* Properties.                                                             *)

(* Nothing is ever put into a namespace that belongs to somebody else,     *)
(* also when its owner is faster between Get and Create.                   *)
ForeignUntouched ==
    namespace = "foreign" => \A o \in Objects : holder[o] = Nobody

(* A Deploy that answered without error, and that no other build of its    *)
(* service ran into, has left exactly what it was asked for, and it stays. *)
DeployedAsAsked ==
    \A b \in undisturbed :
        outcome[b] = "ok" =>
            /\ \A kind \in Kinds : holder[<<kind, Slug[b]>>] = b
            /\ Slug[b] \notin deleting

(* A Deployment that has disappeared is somebody's business: a Deploy is   *)
(* about to bring it back, or has answered that it failed.  The exception  *)
(* are the slugs where recreateDeployment, which deletes by name and not   *)
(* by what it read, removed a Deployment that others had already replaced. *)
DownIsKnown ==
    \A s \in existed \ misled :
        holder[<<"deployment", s>>] = Nobody =>
            \E b \in Builds :
                Slug[b] = s /\ (Active(b) \/ outcome[b] \in {"retriable", "fatal"})

(* Without failing calls a build of the project that owns the namespace is *)
(* not refused for good because another build was deployed at the same     *)
(* time: reconciler_test.go line 179 tests it for the namespace.           *)
RacesAreHarmless ==
    faults = 0 /\ namespace = "ours" => \A b \in Builds : outcome[b] # "fatal"
=============================================================================

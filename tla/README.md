# Verification of the orchestration service

The orchestration service takes `build.succeeded` messages from RabbitMQ, brings
each build to a Kubernetes cluster, waits for its rollout and publishes the
outcome. A table in PostgreSQL, the stage ledger, keeps two processes from
driving the same deployment and remembers the outcome. This directory holds TLA+
models of the service, the TLC configurations that check them on small instances,
and TLAPS proofs of all safety properties the passing runs check, for instances of
any size.
Paths of source files are relative to the repository.

## 1. The system

| Component | State | Operations | Hard because |
|---|---|---|---|
| Deploy consumer (`consumer.go`) | the delivery in hand, where the worker stands with it | receive, decode, claim, publish, deploy, wait, complete or fail, replay, retry, dead-letter, ack or nack | every call can fail or be cut off by a crash; the same message can be in several hands |
| Stage ledger (`ledger.go`) | one row per deployment: state, lease, stored outcome | Claim, Renew, Complete, Fail, Release | shared by all processes; only Claim and Renew look at the state of the row, and nothing looks at the holder of the lease |
| Queues (`consumer.go`, RabbitMQ) | deploy queue, retry queues with TTL, dead-letter queue | declare, deliver, settle, delay, dead-letter | redelivery, duplicates, a default exchange that confirms what it drops |
| Publisher (`rabbit_publisher.go`) | a mutex, a channel of returned messages with room for one | Publish, PublishJSON, PublishProgressJSON | the return of a message arrives asynchronously and carries no link to its publish |
| Reconciler (`reconciler.go`) | nothing; the objects are in the cluster | Deploy: ensure namespace, pull secret, Deployment, Service, Ingress; recreateDeployment | concurrent Deploys meet only in the API server's resource versions |
| Rollout watcher (`rollout.go`) | nothing; polls the Deployment | WaitForRollout, classification of errors | the status it reads lags behind the pods and the generation |
| Process and set-up (`main.go`, `k8s_client.go`, the constructors in `consumer.go`, `rabbit_publisher.go`, `ledger.go`) | what the process has open, how many retry queues it has declared | launch, fifteen steps of set-up, consume, stop, close, exit | a dozen error paths that clean up by hand; queues that outlive the process and the settings they were declared with |
| Names (`names.go`) | none | sanitize, truncate and join DNS labels, the target of a build | cut names, names that collide |
| Configuration (`config.go`) | none | numbers, durations, schedules and texts of the environment, defaults | the cut to int32, values that fit none of the others |
| Events (`events.go`) | none | one constructor per event, event ids | repetitions that must be told from news |

Interaction: `Start` hands one delivery at a time (`Qos(1)`) to `processDelivery`,
which calls `handleMessage` and, unless it acknowledges, `scheduleRetry` or
`copyToDLQ`. `handleMessage` calls the ledger, the publisher, the reconciler and
the rollout watcher synchronously; the only other goroutine of a delivery renews
the lease. Processes meet in the ledger row, the queues and the cluster, never in
memory.

What makes the parts correct:

* consumer: no build request is lost, events come in order, an exhausted build is
  announced before it is dead-lettered, a build has one outcome, every build is
  answered, the queues drain;
* ledger: the lease is a lock while its holder lives, a terminal row stays as it is;
* publisher: a progress event reported as published has reached a queue, one event
  is not blamed for another, the reader of the connection is not blocked;
* reconciler: foreign namespaces are left alone, a Deploy leaves what it was asked
  for, a Deployment that has disappeared is noticed;
* rollout: success only for the generation that was deployed or a later one, failure
  only for a generation that failed, every wait ends;
* process: a start that fails leaves nothing open, a process that consumes finds its
  retry queues with its own delays and with the way back to its own deploy queue;
* names, configuration, events: valid labels, no two services in one Deployment
  (where names fit), a default lease that lasts as long as it is relied on, settings the service can work with, one event id per piece of news.

The places where this can go wrong are listed line by line in `PROJECT.json`
under "hazards", each with the properties that watch it.

## 2. The modules

| Module | Models | State and actions |
|---|---|---|
| `StageLedger` | `ledger.go` | `stage` is the state column, `leased` the rows whose lease is in the future. One operator per statement; `Claim` is its whole transaction, which the row lock makes atomic |
| `DeployBroker` | the queues `consumer.go` declares | bags of (deployment, attempt) pairs; `RetryQueue` is the index arithmetic of `scheduleRetry` |
| `DeployConsumer` | `consumer.go`, composing the two | `pc[w]` is the call worker `w` makes next, `msg`, `disp` and `phase` its local variables, `link` its channels, `events` all that was published |
| `MCDeployConsumer` | symmetry for TLC | |
| `DeliveryPromise` | what the service promises about a build, whoever handles it: the abstract specification `DeployConsumer` implements | `told`, the kinds of event published; `outcome`, open until decided |
| `DeployConsumerProofs`, `DeployLockProofs` | theorems about `DeployConsumer` | |
| `LeaseClock`, `MCLeaseClock`, `LeaseClockProofs` | the lease of one row in real time: `Claim`, `Renew`, `Release` of `ledger.go` with `startLeaseRenewal` of `consumer.go` | `now` is true time, `expires` the column, `due[w]` the next tick of the renewal goroutine or the end of a stretch without one, `ghost[w]` until when a renewal already sent may land |
| `LeaseLock` | the abstract lease, which `DeployConsumer` and `LeaseClock` both implement | `drives[w]`: what `w`'s claim was granted of and `w` goes on with; who drives ends or releases a stage, a lease runs out when nobody drives |
| `Rollout`, `MCRollout`, `RolloutProofs` | `rollout.go` and the branch of `handleMessage` on its answer | pods in slots, the reported `status`, the worker's poll, check and verdict |
| `RabbitPublisher`, `MCRabbitPublisher`, `RabbitPublisherProofs` | `rabbit_publisher.go` | messages at the broker, frames on their way to the reader, the channel of returns, the waiting `publish` |
| `Reconciler`, `MCReconciler`, `ReconcilerProofs` | `reconciler.go` | which build's desired state each object holds; for each Deploy the object it is about, its next call and what it has read |
| `Startup`, `StartupProofs` | `main.go`, `k8s_client.go`, `NewDeployConsumer`, `NewRabbitPublisher`, `NewPostgresStageLedger`, `Close`, `declareDeployRetryTopology` | `pc[p]` is the step of process p, `held[p]` what it has open, `queues` the retry queues at the broker with the arguments each was declared with, which outlive processes; `layouts` (history) what processes have begun to declare |
| `Configuration` | `config.go`, `kubeRESTConfig` | operators: the five ways a variable of the environment is read, `loadConfig` |
| `Names` | `names.go` | operators over texts: `sanitizeDNSLabel`, `truncateDNSLabel`, `targetForRequest` |
| `Events` | `events.go` | operators: the constructors of events as exchange, kind and event id |
| `Inputs`, `InputsProofs` | the functions of the three modules above, each applied to one input, with the properties expected of them | `input` is what a function is computed of; it is chosen at the start and stays |
| `MCStartup` | `Startup` and `Inputs` for TLC | |

Grain. In `DeployConsumer` an action is one call that another process, the broker
or the database can observe, with all the code computes until it; a failing call
continues as the code does, through `GiveUp`: out of `handleMessage` into
`scheduleRetry`, out of `scheduleRetry` into a nack with requeue. `Announce` and
`Persist` carry the three outcomes of a call: done, done but reported as failed,
not done. In `Reconciler` an action is one request to the API server. In
`RabbitPublisher` it is one step of the publisher, the broker or the reader. In
`Startup` it is one call of the set-up with its error path.

Abstractions. A message is the pair of its deployment and its attempt header; a
message `handleMessage` rejects is a deployment in `Malformed`; payloads, event
ids, headers with reasons, logging and the contents of Kubernetes objects are left
out. Time is nondeterministic but in `LeaseClock`: a lease runs out when nobody renews
it, or under the fault "stall" although its holder is at work; a context ends at any
moment. `LeaseClock` has the clocks and shows when a lease does not run out under its
holder, which is what `LeaseRunsOut` of `DeployConsumer` takes for granted; that both
speak of the same lease is what `LeaseLock` is for. In `Names`
a text is a sequence over a few characters, and the words the code puts into names
("app", "shiply-prj" and the two fallbacks) are constants, next to the length of a
label, so that the room they take is part of the model. In `Configuration` a number
that does not parse is `<<>>`, an int32 reaches from -Half to Half - 1, and durations
are counted in units of 15 seconds, the time limit of a call. `HandlingTimes` adds up
the limits `handleMessage` works under once it has claimed, along each way it may go,
and `RetryTime` those of the `scheduleRetry` that may follow. A retry queue is named by
prefix and index and carries the three arguments of its declaration: time to live,
dead-letter exchange and dead-letter routing key. Resource versions are replaced by the fact whether what a Deploy read is still what
the server has.

Names with an underscore (`Finish_KeepsDelivery`) are mutants: each is the
definition after it with one plausible mistake. No specification uses them; they
show that the property each is listed with in `PROJECT.json` can fail.

Code outside the repository (RabbitMQ, the AMQP library, the API server, the
deployment controller) is modelled from how the service uses it and marked
external in the map.

## 3. What the runs check

Every bound is a constant of the .cfg.

| Run | Question | Bounds and why they are enough |
|---|---|---|
| `faults` | Is a build lost, an event out of order, a dead-lettered build unannounced, whatever strikes? | two processes, one build and one malformed message, two faults of eight kinds, three attempts, one retry queue. Two faults are a failed call and a second one during its handling, or a duplicate with a crash; attempts outnumber the retry queues, so the last index is reused |
| `calls` | Is the lease a lock that only its holder writes, the outcome unique, and the promise kept, while calls succeed? | two builds, two processes, two of: duplicate, crash, lost consumer channel |
| `live` | Is every build answered, do the queues drain? | two processes, one build, two faults of all eight kinds, no symmetry |
| `lease` | Does a lease outlast the work done under it, and not much more, and so behave as the lease without clocks? | three workers, a lease of 30, renewals every 10, clocks and calls late by up to 2, clocks ahead by 1, stretches of 2 without renewal, 80 units of time: two leases and a half, one for a worker, one for a successor and a ghost of the first in the second. 29 of the 30 are used up in the worst case, so the assumption is nearly tight |
| `verdict` | Does a stale status ever become a success; does a wait ever not end? | two replicas with one surge slot, two updates, by this worker or by another one while this one watches: one generation to be stale about, and one to come from somebody else |
| `returns` | Are returns matched with their publishes? | four messages, a channel of one, as in the code: two given-up returns block the reader, two more messages meet the leftovers |
| `deploys` | What can concurrent Deploys do to each other? | three builds of one slug, two of one service and one of another that took over the slug, two rounds of RetryOnConflict, one failing call |
| `startup` | What do failed starts, restarts and rolling updates leave behind, and what are settings, names and event ids made into? | two processes in eight environments: the default one, three with a schedule of their own (without a database URL, longer, beyond int32), one with another exchange, one with other queue names, routing key and a single back-off, two outside a cluster. In behaviours of their own, with a label of six characters and prefixes of two ("app") and three ("shiply-prj"): every text of up to five characters out of a capital, a letter, dash, space and underscore, and of up to eight out of two letters and a dash, so that cuts hit dashes; every pair of events whose slugs are among 19 (all of up to three characters out of a letter and a dash, and four more with another letter, a capital after a space, and one that fits nowhere), under two configured prefixes; numbers at 0, 1 and around both limits of int32; every pair of events of two builds with three attempts each |

The properties that matter most relate steps of several actors: `SuccessIsRolledOut`,
`NeverForgotten`, `EventOrder`, `OneDriver`, `Truthful`, `DownIsKnown`, `Exclusive`,
`TopologyIsConfigured`. The comment above each property names the behaviour of the
code. Some hold with an exception only, and the exception is part of the property:

* `DownIsKnown` leaves out the slugs in `misled`: without that it fails after a
  deletion that times out, because `recreateDeployment` deletes by name and the
  Deployment of that name may by then be the one another build has recreated.
* `Answered` counts the announcement of a pending rollout as an answer (`Parked`): a
  rollout that fails after the timeout is acknowledged without an outcome, so without
  this disjunct the property fails without any fault.
* `Answered` and `Drains` except `MuteForGood`: a publisher channel that the broker has
  closed is never reopened, and its process requeues the same delivery for ever.
* `TargetsTellApart` is about names that fit into a label behind their prefix
  (`NamespaceFits`, `DeploymentFits`, `HostFits`): with the words of the code a project
  slug of up to 52 characters and a service slug of up to 59. Longer ones are cut, and
  two that differ behind the cut get one namespace or one Deployment. It promises
  different hosts for slugs of one word only, because service and project are joined by
  a dash that both may contain.
* `DefaultLeaseLasts` promises two things of a lease nobody chose, and no more. Without
  any renewal it lasts until `handleMessage` returns, counted from the answer of `Claim`.
  It does not last through the `scheduleRetry` after that: after a late check, at the
  worst of every deadline, the row is released when the lease ends (rollout timeout and
  120 s), and after a pending announcement that failed 15 s later. That takes a renewal;
  as long as no two in a row fail, the lease covers the stretches without renewal
  goroutine, the announcement of the start and the retry. The second promise needs a
  rollout timeout of more than 15 s.
* `SettingsAreUsable` excepts numbers beyond int32 (`Cut`), which the code cuts to
  anything, also to no attempt or no replica; `TopologyIsConfigured` likewise excepts
  delays beyond int32 milliseconds.

Deadlock is checked in all runs but `lease`, where true time is bounded by `MaxTime`
and therefore really stops. `Quiet`, in `RabbitPublisher` and `Reconciler` `Rest`, are
the states in which the modelled part has nothing left to do.

`PromiseKept` says that `DeployConsumer` implements `DeliveryPromise` under a
refinement mapping that takes the published events for what was told and the state
column of the ledger for the outcome: a build has at most one outcome, it is decided
before it is announced, progress is announced of an open build only, and no event
comes ahead of its turn.

`LockHonoured` and `LockKept` say that `DeployConsumer` and `LeaseClock` implement
`LeaseLock`. In the first the rows are the code's and a worker drives from a granted
claim to the settling of its delivery; the property fails as soon as a process that met
a busy lease counts it as an attempt, because it then releases a row it does not hold.
In the second a lease that some clock may show as over is none; the property fails as
soon as `Renew` loses its guard, because a renewal that lands late then gives a lease
to a finished stage. Together they close the gap between the two modules: the lease the
processes rely on is the one the clocks give.

Four runs are expected to fail; each shows a disagreement between the code and what
its documentation or tests say ("findings" in `PROJECT.json` quote the lines):

* `outcome`: one publish that fails after `Complete` leads, through `Release`, to
  a second drive of a completed deployment and to both outcomes;
* `late`: a rollout found ready in the check after the timeout is recorded with a
  cancelled context, and so never as a success;
* `failure`: the failure condition of the previous build fails the next one;
* `race`: two first builds of a project race for the pull secret, and the loser is
  refused for good.

### The lease and the clocks

`ClockAssumption` of `LeaseClock` is what the lease has to exceed: two renewal periods
(a third of the lease each), two graces (the stretches before the renewal goroutine
starts and after it stops, each a few calls with time limits of 15 s), two delays (how
late a statement takes effect after its time was read, waiting for the row lock
included) and the skew between the clocks of two servers. Under it a worker survives
one renewal that fails between two that succeed, but not two in a row: the mutant
`RenewFails_Again` shows that. With the defaults (a rollout timeout of 20 minutes, a
lease of 22) a third of 22 minutes is left for graces, delays and skew; an operator
who sets `STAGE_LEASE_DURATION` to a few seconds gets no such protection, as nothing
in `config.go` compares the two.

### Fairness

`DeployConsumer`: weak fairness of each worker's next step (`Work`), of the end of
a lease nobody renews and of each retry queue's TTL. A worker is a goroutine whose
calls all end: publishes and ledger writes have a context with a timeout or belong
to the faults, `Deploy` and `WaitForRollout` have their own deadlines. `Claim` has no
timeout in the code; that a database answers is assumed here and listed as a
hazard. No fairness is assumed for faults, renewals or duplicates. A retry that is
granted keeps its progress because attempts are counted in the message.

`Rollout`: weak fairness of a poll that is answered, of the publishing that follows, and of the
deadline of the context; none for the cluster, nor for calls that fail.

The other modules state safety only. In `LeaseClock` urgency takes the place of
fairness: time does not pass a worker's deadline, which is the promise of the time
limits in the code.

## 4. What is proved

Every theorem holds for every value of the constants that satisfies the named
assumption of its module; nothing else is assumed.

| Module | Theorems | Assumption |
|---|---|---|
| `DeployConsumerProofs` | `TypeCorrect`, `EventsInOrder`, `DeadLettersAnnounced`, `NothingForgotten`: the invariants of run `faults` | `ConstantsAssumption`: attempts and back-offs above zero; any workers, deployments, faults |
| `DeployLockProofs` | `EventsAreTrue`, `OutcomesAgree`, `FinishedStays`, `ConsumerKeepsPromise` (`DeployConsumer` implements `DeliveryPromise`), `ConsumersHonourLock` (and `LeaseLock`): properties of run `calls` | and `CallsSucceed`: only duplicates, crashes and lost consumer channels strike |
| | `LeaseIsALock` (`OneDriver` of run `calls`), `FinishedNeverReopens` | and `LinksMayFail`: publisher channels and connections may close as well, more than run `calls` lets strike |
| `LeaseClockProofs` | `LeaseCovers`, `LeaseExcludes`, `WaitBounded`, `ClocksKeepLock` (`LeaseClock` implements `LeaseLock`): the properties of run `lease` | `ClockAssumption` |
| `RolloutProofs` | `RolloutTyped`, `SuccessMeansRolledOut` | `RolloutAssumption`: one slot more than replicas |
| `RabbitPublisherProofs` | `PublisherTyped`, `PublishedIsRouted`, `BlameIsEarned`, `ReaderBlocksOnlyThen`: the invariants of run `returns` | `PublisherAssumption`: a channel with room for one at least |
| `ReconcilerProofs` | `ReconcilerTyped`, `NothingInForeignNamespace`, `DeployDoesAsAsked`, `NoDeploymentForgotten`: the invariants of run `deploys` | `ReconcilerAssumption` |
| `StartupProofs` | `StartupTyped`, `FailedStartsClose`, `ConsumersFindTheirQueues`, `OnlyChangesAreRefused`: the invariants of run `startup` about `Startup` | `UnitsAssumption`, `LabelAssumption`, `StartupAssumption`: schedules are sequences of numbers that did or did not parse; the default port is an int32 |
| `InputsProofs` | `EveryTextReadsRight`, `BuildsKeepApart`, `EnvironmentsAreUsable`, `DefaultLeasesLast`, `IdsAreUnique`: the invariants of run `startup` about `Inputs` | `LabelAssumption`: the words the code puts into names are labels, and a label has room for each; `UnitsAssumption`; `InputsAssumption`: slugs and configured prefixes are texts of any length over the alphabet of `Names`, a setting is a number that did or did not parse |

### The arguments

*Consumer.* `EventOrder` and `DeadLetterAnnounced` speak of what was published,
but a worker publishes the second event because of where it stands, so neither is
inductive. `Bookkeeping` adds what each call may rely on: `ControlAt` ties `pc`,
`phase` and `disp` together (inside `scheduleRetry` the attempt is below
`MaxAttempts`, only a rejected message is dropped), `ToldAt` says which events are
out by the time a worker makes its next call, and a completed row has been
announced as deployed. `TypeOK /\ Bookkeeping` with the property is inductive.
`NeverForgotten` is proved from the same invariant: a copy leaves a worker's hands
only after the outcome is out, after a retry copy has been confirmed, or back into
the queue.

*Lock.* `OneDriver` needs `Locked`: a worker whose claim was granted holds a row that is
in progress and leased (`Held`), until its own `Complete` or `Fail` makes the row
terminal; a second claim then finds it busy or terminal. The lease cannot run out
under it, because `LeaseRunsOut` waits until no worker is at work on the
deployment; after the end of a worker's last call nothing reaches the row any more.
`Truthful` is part of the same induction, since `disp` must stay true while a worker
replays a stored outcome. `OutcomesAgree` follows from `Truthful`, `FinishedStays`
from the invariant, one action at a time.

`LeaseIsALock` is proved for more faults than the rest, from an invariant of its own.
When a publisher channel closes, `Locked` no longer holds: a worker that cannot publish
may use up the attempts of a build that is completed, write FAILED over it and tell
nobody. `Guarded` keeps what the lock needs: whoever drives finds the row leased for
itself, or over; whoever replays finds it over; and a lease is released only by a
driver whose retry copy was published, so that a worker without a channel releases
nothing. The same invariant gives `FinishedNeverReopens`. A ledger call that is lost is
beyond it, and beyond the code: a `Claim` that fails is retried, and the retry ends with
the release of a row that another process may be at work on.

*Promise.* Each step of `DeployConsumer` publishes one event, writes one outcome or
does neither. `ToldAt` gives that the event comes in its turn, `Held` and `LockAt`
that the row says what the event says.

*Lease.* `LeaseInvariant` is inductive: `Covered(w)` bounds the time from the last
write of the lease (`LastWrite`, from the next tick and whether one was missed) to the
next deadline of w, and `ClockAssumption` makes the lease longer than that. A second
claim would need a reading beyond the lease of whoever is at work.

*The lease without clocks.* Each statement of `LeaseClock` maps to the one of
`LeaseLock` it stands for. The tick of the clock maps to `RunOut`, and only when nobody
is at work: `WorkIsLeased`, from `LeaseInvariant` after the tick, says that who works on
a stage in progress has a lease on every clock, and `NoLeaseLeft` that no other stage
has one. In `DeployConsumer` a worker that writes no row can only stop driving
(`QuitsUse`), and `LockAt` gives that whoever calls `Complete`, `Fail` or `Release`
drives (`WriteUse`).

*Rollout.* A success is decided on a report that may be old. `StatusTells`: a report
that looks complete was made of a generation that was complete; with the comparison
of generations (`observed` at least the current one) and `Ordered` (the worker's
generation is not beyond the current one) the worker's own, or a later one, was.
`Witnessed` carries this over the publish between poll and verdict.

*Publisher.* A publish that waits for its confirmation and then looks into the channel
of returns is right because the broker sends the return first and the reader delivers
in order. `Journey` follows each message: its id is known (`Known`), it is answered
once (`Once`), is at one place at a time (`Apart`), only unroutable ones are returned
(`OnlyReturned`), and the return of the current one is still ahead of its confirmation
or already in the channel (`Arrives`); nothing of an earlier message is left unless a
wait was given up (`NothingLeft`).

*Reconciler.* Every call is first reduced to its effect (`EffectOfDeploy`): where the
build goes, and that it only looks, makes the namespace, writes an object or deletes
the Deployment. From there `Foreign` (no build is past the namespace before it is
ours), `AllAsked` (what an undisturbed build finds of its slug is what it left, and a
Deployment that is being deleted is not of its service), and for `DownIsKnown` a pair:
`Going`, that each Deployment being deleted has somebody responsible whose service it
does not suit, and who therefore cannot take it for its own and go on; and `Missing`,
which that becomes when the Deployment is gone.

*Start.* What a process holds is a function of the step it makes (`HeldRight`), and
`Closes` takes all of it back at every step. A process past its declarations finds
each queue with its own arguments because nobody overwrites a queue (`Declared`), and
whatever the broker has comes from a layout that a process had begun to declare
(`Remembered`); a name of a queue gives back its prefix and index, so that nothing but
the same queue of another layout can stand in the way.

*Inputs.* The functions of `names.go` are folds over a text, and what they compute is
proved by induction over the characters read, from the theorem of the library that
`<` on the naturals is well-founded (`SetInduction`: a set that holds 0 and with n
holds n + 1 holds every natural number). `CleanLoop`: what the loop of
`sanitizeDNSLabel` has written so far has no dash at its start, none after another, and
only characters of a label. What a text says is its `Shape`, its letters in their order
and the places where a word ends. The letters are counted by `Rank`, and `SameShape`
says that two texts have one shape as soon as a map between their letters keeps order,
letter and adjacency. For each step of the code there is such a map: for lower case and
for trimming a shift (`LowerSays`, `TrimSays`), for the loop the position a letter was
written to (`WrittenSays`), so that a slug, a label and their parts can be compared
(`SlugSays`, `LabelSays`). Two names that are joined by a dash and fit behind their prefix are
taken apart again by `SecondPart` and `BothParts`, which gives `BuildsKeepApart`. The
other three theorems are about single steps: `Int32s` bounds the cut, `LeaseOutlasts`
compares the default lease with every sum of deadlines, `OneRowEach` gives each thing
that can be told its row.

### Only model-checked

Liveness (`Answered`, `Drains`, `WaitEnds`) is out of the prover's reach.

## 5. What is not modelled

* Payloads: what events say beyond their kind and id, timestamps, the cut of failure
  messages, `result_json`.
* The contents of Kubernetes objects, the branches of `ensureRegistryPullSecret` without
  a pull secret (it is skipped) and with incomplete registry credentials (Deploy fails
  there for good), and the labels that carry raw ids; the ingress
  and service names, which are the Deployment's name again.
* Settings that are only passed on: the other names of exchanges, queues and routing
  keys, resources, credentials. All processes are taken to use one broker, and the
  deploy and dead-letter queues to have other names than the retry queues.
* The permissions of the service account. `deploy/rbac.yaml` grants get, create and
  update of Deployments but not delete, so that with it `recreateDeployment` is
  refused for good (Forbidden is not retriable). To the model that is one of the ways a
  call is not done (`NotDone`), which strike up to `MaxFaults` times and not always.
* A request that reaches the API server after the Deploy that sent it has given up.
* A database that does not answer at all: `Claim` has no deadline, and calls of the
  models return.
* The health endpoint, which answers a constant.

## 6. Plan

Written in this order, most important behaviour first: ledger, queues and consumer
with their proofs; rollout; publisher; reconciler; the delivery promise and its
refinement; the lease with its clocks; start, configuration, names and events; the
proofs of rollout, publisher, reconciler and start; the proofs about names, configuration
and events, and of the lock under failing links; the abstract lease and its two
refinements. What is left:

1. Composition of `Reconciler` and `Rollout`: which build's readiness is announced
   when Deploys of one service interleave object by object. `Rollout` has the other
   worker's update as one step (`Overwrite`).
2. `LeaseLock` under failing links: a process that cannot publish may write FAILED
   over COMPLETED, so that it needs another abstract lease.
3. Late requests at the API server, as actions of `Reconciler` that outlive their call.

------------------------------- MODULE Inputs -------------------------------
(***************************************************************************)
(* The functions the processes compute, each applied to one input: those   *)
(* of names.go to a text or to two builds, loadConfig to an environment,   *)
(* and those of events.go to two things that are told.  An input is chosen *)
(* at the start and stays.                                                 *)
(***************************************************************************)
EXTENDS Configuration, Events

CONSTANTS
    Texts,                \* slugs
    Requests,             \* build.succeeded events, by their slugs
    NamespacePrefixes,    \* as they are configured
    Settings              \* environments

Request == [ProjectID : Text, ProjectSlug : Text, ServiceID : Text, ServiceSlug : Text]
Environment(e) ==
    /\ \A n \in {e.attempts, e.replicas, e.port, e.timeout, e.lease} : n \in Seq(Int)
    /\ e.backoffs \in Seq(Seq(Int))

ASSUME InputsAssumption ==
    /\ Texts \subseteq Text
    /\ Requests \subseteq Request /\ NamespacePrefixes \subseteq Text
    /\ \A e \in Settings : Environment(e)

VARIABLE input    \* what a function is computed of, or Nothing

Nothing == [kind |-> "nothing"]
Input(kind, value) == [kind |-> kind, value |-> value]
Asks == {Asked(prefix, r) : prefix \in NamespacePrefixes, r \in Requests}

Given ==
    \/ input = Nothing
    \/ \E text \in Texts : input = Input("text", text)
    \/ \E a, b \in Asks :
          a.prefix = b.prefix /\ input = Input("builds", <<a, b>>)
    \/ \E env \in Settings : input = Input("settings", env)
    \/ \E a, b \in AllTold : input = Input("told", <<a, b>>)

InputsSpec == Given /\ [][UNCHANGED input]_input
-----------------------------------------------------------------------------
(* Properties.                                                             *)

(* Whatever a slug holds and wherever it is cut, it becomes a DNS label    *)
(* that says what the slug says (names.go, sanitizeDNSLabel).              *)
LabelsAreValid == input.kind = "text" => ReadsRight(input.value)

(* Two builds of different projects or services, under one configuration,  *)
(* do not meet in one Deployment unless one of their names had to be cut   *)
(* behind its prefix (names.go, targetForRequest).                         *)
TargetsTellApart ==
    input.kind = "builds" => ToldApart(input.value[1], input.value[2])

(* Every environment, however wrong, gives settings the service can work   *)
(* with (config.go, loadConfig).                                           *)
SettingsAreUsable == input.kind = "settings" => Usable(input.value)

(* What LeaseDuration is by default is enough: for handleMessage even if   *)
(* every renewal fails, and for the retry that may come after it, whose    *)
(* two contexts run without renewal goroutine, unless the last two fail    *)
(* (config.go, loadConfig; consumer.go, handleMessage and scheduleRetry).  *)
DefaultLeaseLasts == input.kind = "settings" => LeaseLasts(input.value)

(* Whatever retries and replays repeat, listeners can tell news from       *)
(* repetitions by the event id (events.go, deploymentEventID).             *)
EventIdsTellApart ==
    input.kind = "told" => IdsDiffer(input.value[1], input.value[2])
=============================================================================

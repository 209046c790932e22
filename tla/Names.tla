-------------------------------- MODULE Names --------------------------------
(***************************************************************************)
(* names.go: the Kubernetes names and the host of a build, made from the   *)
(* slugs in its message.  A text is a sequence of characters of a small    *)
(* alphabet, with "A" for a capital and "_" for a character of no use in a *)
(* name.  MaxLabel is the 63 characters of a DNS label, and the words the  *)
(* code puts into names are as long, next to it, as one cares to choose.   *)
(***************************************************************************)
EXTENDS Integers, Sequences, FiniteSetsExt, SequencesExt

CONSTANTS
    MaxLabel,
    ProjectWord,    \* "project", for a slug without letters and digits
    ServiceWord,    \* "service", likewise
    AppWord,        \* "app", before every service
    PrefixWord      \* "shiply-prj", before every project by default

AlphaNum == {"a", "b", "p", "s", "x"}
Char == AlphaNum \union {"A", "-", " ", ".", "_"}
Text == Seq(Char)

(* The words are labels already: letters, digits and single dashes, which  *)
(* are neither first nor last.                                             *)
IsWord(text) ==
    /\ text \in Text /\ text # <<>>
    /\ \A i \in DOMAIN text : text[i] \in AlphaNum \union {"-"}
    /\ text[1] # "-" /\ text[Len(text)] # "-"
    /\ \A i \in 1 .. Len(text) - 1 : ~ (text[i] = "-" /\ text[i + 1] = "-")

ASSUME LabelAssumption ==
    /\ MaxLabel \in Nat \ {0}
    /\ \A word \in {ProjectWord, ServiceWord, AppWord, PrefixWord} :
          IsWord(word) /\ Len(word) <= MaxLabel

ToLower(text) == [i \in DOMAIN text |-> IF text[i] = "A" THEN "a" ELSE text[i]]

(* strings.Trim: the text from its first to its last character not cut. *)
Trim(text, cut) ==
    LET kept == {i \in DOMAIN text : text[i] \notin cut}
    IN  IF kept = {} THEN <<>> ELSE SubSeq(text, Min(kept), Max(kept))
TrimSpace(text) == Trim(text, {" "})

firstNonEmpty(first, second) ==
    IF TrimSpace(first) # <<>> THEN first
    ELSE IF TrimSpace(second) # <<>> THEN second ELSE <<>>

(* Mutant: it cuts the value and leaves the dash it may end on. *)
truncateDNSLabel_KeepsDash(value) ==
    LET label == Trim(value, {"-"})
    IN  SubSeq(label, 1, Min({Len(label), MaxLabel}))
truncateDNSLabel(value) ==
    LET label == Trim(value, {"-"})
    IN  Trim(SubSeq(label, 1, Min({Len(label), MaxLabel})), {"-"})

(* The loop of sanitizeDNSLabel: a run of other characters becomes one dash. *)
Write(builder, c) ==
    IF c \in AlphaNum THEN Append(builder, c)
    ELSE IF builder = <<>> \/ Last(builder) = "-" THEN builder
    ELSE Append(builder, "-")
Written(text) ==
    LET builder[n \in 0 .. Len(text)] ==
          IF n = 0 THEN <<>> ELSE Write(builder[n - 1], text[n])
    IN  builder[Len(text)]

sanitizeDNSLabel(value, fallback) ==
    LET lower == ToLower(TrimSpace(value))
        label == Trim(Written(IF lower = <<>> THEN fallback ELSE lower), {"-"})
    IN  truncateDNSLabel(IF label = <<>> THEN fallback ELSE label)

Project(slug) == sanitizeDNSLabel(slug, ProjectWord)
Service(slug) == sanitizeDNSLabel(slug, ServiceWord)
Joined(first, second) == truncateDNSLabel(first \o <<"-">> \o second)

buildNamespaceName(prefix, projectSlug) ==
    Joined(sanitizeDNSLabel(prefix, PrefixWord), Project(projectSlug))
buildResourceName(prefix, serviceSlug) ==
    Joined(sanitizeDNSLabel(prefix, AppWord), Service(serviceSlug))

(* <<>> without PLATFORM_BASE_DOMAIN: then the build is dead-lettered. *)
buildIngressHost(serviceSlug, projectSlug, baseDomain) ==
    LET domain == Trim(ToLower(TrimSpace(baseDomain)), {"."})
    IN  IF domain = <<>> THEN <<>>
        ELSE Joined(Service(serviceSlug), Project(projectSlug)) \o <<".">> \o domain

deployRequestFromEvent(event) ==
    [ProjectSlug |-> firstNonEmpty(event.ProjectSlug, event.ProjectID),
     ServiceSlug |-> firstNonEmpty(event.ServiceSlug, event.ServiceID)]

(* Mutant: the namespace is named after the service. *)
targetForRequest_Swapped(prefix, baseDomain, request) ==
    LET project == Project(request.ProjectSlug)
        service == Service(request.ServiceSlug)
    IN  [Namespace |-> buildNamespaceName(prefix, service),
         DeploymentName |-> buildResourceName(AppWord, service),
         IngressHost |-> buildIngressHost(service, project, baseDomain)]
targetForRequest(prefix, baseDomain, request) ==
    LET project == Project(request.ProjectSlug)
        service == Service(request.ServiceSlug)
    IN  [Namespace |-> buildNamespaceName(prefix, project),
         DeploymentName |-> buildResourceName(AppWord, service),
         IngressHost |-> buildIngressHost(service, project, baseDomain)]
-----------------------------------------------------------------------------
(* What is expected of a name.                                             *)

(* What a text says to a reader: its letters and digits, and after which   *)
(* of them a word ends.                                                    *)
Letters(text) == {i \in DOMAIN text : ToLower(text)[i] \in AlphaNum}
Rank(text, i) == Cardinality({j \in Letters(text) : j <= i})
Nth(text, k) == CHOOSE i \in Letters(text) : Rank(text, i) = k
Shape(text) ==
    LET count == Cardinality(Letters(text))
    IN  [letters |-> [k \in 1 .. count |-> ToLower(text)[Nth(text, k)]],
         breaks |-> {k \in 1 .. count - 1 : Nth(text, k) + 1 \notin Letters(text)}]
Meaning(text, fallback) ==
    IF Shape(text).letters = <<>> THEN Shape(fallback) ELSE Shape(text)
Size(shape) == Len(shape.letters) + Cardinality(shape.breaks)

IsLabel(text) ==
    /\ Len(text) \in 1 .. MaxLabel
    /\ \A i \in DOMAIN text : text[i] \in AlphaNum \union {"-"}
    /\ text[1] # "-" /\ Last(text) # "-"

(* What sanitizeDNSLabel makes of a text is a label, says what the text    *)
(* says if that fits into a label, and stays as it is when it is sanitized *)
(* again, which targetForRequest does.                                     *)
ReadsRight(text) ==
    LET label == sanitizeDNSLabel(text, ProjectWord)
        meaning == Meaning(text, ProjectWord)
    IN  /\ IsLabel(label)
        /\ Size(meaning) <= MaxLabel => Shape(label) = meaning
        /\ sanitizeDNSLabel(label, ProjectWord) = label

(* What a build is about, and where targetForRequest brings it. *)
Asked(prefix, event) ==
    LET request == deployRequestFromEvent(event)
    IN  [prefix |-> prefix,
         project |-> Meaning(request.ProjectSlug, ProjectWord),
         service |-> Meaning(request.ServiceSlug, ServiceWord),
         target |-> targetForRequest(prefix, <<"a">>, request)]

(* Its names are not cut: not the namespace behind the configured prefix,  *)
(* the Deployment behind "app", the host behind nothing but a dash.        *)
NamespaceFits(a) ==
    Size(Meaning(a.prefix, PrefixWord)) + 1 + Size(a.project) <= MaxLabel
DeploymentFits(a) == Len(AppWord) + 1 + Size(a.service) <= MaxLabel
HostFits(a) == Size(a.service) + 1 + Size(a.project) <= MaxLabel
OneWord(a) == a.project.breaks = {} /\ a.service.breaks = {}

(* Under one prefix, projects that say different things have different     *)
(* namespaces and services different Deployments, as far as the names      *)
(* built of them fit into a label, prefix included.  Two builds may meet   *)
(* on one ingress host, but only if a slug is of several words or is cut:  *)
(* a-b of c and a of b-c have the same host, in two namespaces.            *)
ToldApart(a, b) ==
    /\ NamespaceFits(a) /\ NamespaceFits(b) /\ a.project # b.project =>
          a.target.Namespace # b.target.Namespace
    /\ DeploymentFits(a) /\ DeploymentFits(b) /\ a.service # b.service =>
          a.target.DeploymentName # b.target.DeploymentName
    /\ HostFits(a) /\ HostFits(b) /\ OneWord(a) /\ OneWord(b)
       /\ <<a.project, a.service>> # <<b.project, b.service>> =>
          a.target.IngressHost # b.target.IngressHost
=============================================================================

----------------------------- MODULE Assessment -----------------------------
(***************************************************************************)
(* The questions of what depends on what in a workspace, and of what is    *)
(* risky in it: the dependency graph that agents ask for and the risks     *)
(* that the command `audit' reports, both made of the service graph.       *)
(***************************************************************************)
EXTENDS Routing, Risks

AssessmentInit == Ask("dependencies", Workspaces) \/ Ask("risks", Workspaces)

GraphDependencies == Answer("dependencies", BuildDependencyGraph(about))
AssessRisks == Answer("risks", AssessArchitecture(about, BuildGraph(about)))

AssessmentNext == GraphDependencies \/ AssessRisks

AssessmentSpec == AssessmentInit /\ [][AssessmentNext]_vars

-----------------------------------------------------------------------------
\* A call leads to the service it names, to a service that is meant or to an
\* external API, or there is a warning, unless another service has a call of
\* the same identity.
IsShown(w, graph, e) ==
  LET Shows(kind, node) == \E x \in graph.edges : /\ x.source = Service(e.service)
                                                  /\ x.kind = kind /\ x.target = node
      Shared == \E x \in Playing(w, "rest", "call") : /\ x.service # e.service
                                                      /\ x.site.id = e.site.id
  IN  /\ e.site.domain # NoName =>
           \/ Shows("http", Service(e.site.domain))
           \/ <<e.service, e.site.domain>> \in graph.warnings
      /\ e.site.domain = NoName /\ e.site.external # NoName =>
           /\ Shows("http", Service(e.site.external))
           /\ Service(e.site.external) \in graph.external
      /\ e.site.domain = NoName /\ e.site.external = NoName =>
           \/ Shows("calls_external", Node("external_api", e.site.topic))
           \/ \E x \in graph.edges : /\ x.source = Service(e.service) /\ x.kind = "http"
                                     /\ Meant(w, "rest", e.service, x.target[3])
           \/ Shared

\* No call disappears from the dependency graph.
EveryCallIsShown ==
  Answered("dependencies") =>
    \A e \in Playing(about, "rest", "call") : IsShown(about, answer, e)

\* A producer, or a consumer, of a service has a peer when another service has
\* the opposite role on the topic, counting for each service what its manifest
\* says if it has one.
HasPeer(w, service, role, topic) ==
  \E a, b \in EffectiveKafka(w) :
     /\ a.site.role = "produce" /\ b.site.role = "consume"
     /\ a.service # b.service /\ a.site.topic = topic /\ b.site.topic = topic
     /\ service = IF role = "produce" THEN a.service ELSE b.service

\* An endpoint of a role is reported exactly when its topic is literal and it
\* has no peer; a report names a place, which the endpoints of one role, topic
\* and line of a file share.
Place(site) == <<site.topic, site.file, site.first>>
AreOrphans(w, risks, id, role) ==
  \A e \in AllEndpoints(w) :
     Risk(id, Place(e.site), {e.service}) \in risks <=>
       /\ \E x \in Playing(w, "kafka", role) :
             x.service = e.service /\ Place(x.site) = Place(e.site) /\ ~x.site.dynamic
       /\ ~HasPeer(w, e.service, role, e.site.topic)

\* The producers and the consumers that are reported as orphans are those.
OrphansHaveNoPeer ==
  Answered("risks") =>
    /\ AreOrphans(about, answer, "orphan-kafka-producer", "produce")
    /\ AreOrphans(about, answer, "orphan-kafka-consumer", "consume")

\* Two services that are reported to call each other have calls that mean so,
\* and two that mean to are reported, unless a call of another service took the
\* identity of theirs.
AreMutual(w, risks, a, b) ==
  LET Reported == Risk("synchronous-rest-cycle", {}, {a, b}) \in risks
      Calls(x, y) == Meant(w, "rest", x, y)
      Taken(x, y) == IdentityTaken(w, x, y, BuildGraph(w))
  IN  /\ Reported => Calls(a, b) /\ Calls(b, a)
      /\ Calls(a, b) /\ Calls(b, a) => Reported \/ Taken(a, b) \/ Taken(b, a)
MutualCallsAreReported ==
  Answered("risks") => \A a, b \in ToSet(about.services) : AreMutual(about, answer, a, b)

\* What the audit and its graph say is what the endpoints mean.
AuditIsMeant == EveryCallIsShown /\ OrphansHaveNoPeer /\ MutualCallsAreReported
=============================================================================

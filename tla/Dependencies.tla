---------------------------- MODULE Dependencies ----------------------------
(***************************************************************************)
(* The dependency graph that agents ask for                                *)
(* (src/src/ccc_radar/dependency_analysis.py), over the service graph.     *)
(* A workspace has one more field, `modules': for each service whose       *)
(* module was discovered, [starts, kind, collections, operations], whether *)
(* it starts an application, its kind, its MongoDB collections and the     *)
(* operations [collection, kind] of its MongoDB calls.                     *)
(***************************************************************************)
EXTENDS Graph

\* A node is <<kind, service, name>>: only a collection belongs to a service.
Node(kind, name) == <<kind, NoName, name>>
Service(s) == Node("microservice", s)

\* What an edge says: the type of a message or the owner of a resource, with
\* the topic or the route; API stands for a service as a whole.
API == [verb |-> "", path |-> <<"API">>]

Dependency(source, target, kind, label, confidence) ==
  [source |-> source, target |-> target, kind |-> kind, label |-> label,
   confidence |-> confidence]

\* edges.setdefault: of the endpoints whose relations differ in their confidence
\* alone, that of the first is kept.
FirstOfEach(endpoints, Of(_)) ==
  LET Key(e) == <<Of(e).source, Of(e).target, Of(e).kind, Of(e).label>>
  IN  {Of(e) : e \in {x \in endpoints : \A y \in endpoints :
                        PlaceBefore(y.place, x.place) => Key(y) # Key(x)}}

Confidence(site) == IF site.dynamic THEN "medium" ELSE "high"

\* The relations that the service graph justifies: its REST edges, except the
\* routes it supposes for configured clients.
HttpRelations(graph) ==
  LET rest == {e \in ToSet(graph) : e.kind = "rest"}
      configured == {e.source.id : e \in {x \in rest : x.source.domain # NoName}}
      Resource(e) == <<e.to, IF e.target = NoEndpoint THEN API ELSE e.target.topic>>
  IN  {Dependency(Service(e.from), Service(e.to), "http", Resource(e), "high") :
         e \in {x \in rest : x.source.id \notin configured}}

\* A producer publishes to the node of its topic, which a consumer reads from.
KafkaRelation(e) ==
  LET topic == Node("topic", e.site.topic)
      label == <<e.site.type, e.site.topic>>
  IN  IF e.site.role = "produce"
      THEN Dependency(Service(e.service), topic, "publishes", label, Confidence(e.site))
      ELSE Dependency(topic, Service(e.service), "consumes", label, Confidence(e.site))
KafkaRelations(w) == FirstOfEach(EffectiveKafka(w), KafkaRelation)

\* What remains of the calls: an external microservice by its name, and an
\* untyped external API when no edge has a call of this identity for source.
OutsideRelation(e) ==
  IF e.site.external # NoName
  THEN Dependency(Service(e.service), Service(e.site.external), "http",
                  <<e.site.external, API>>, "high")
  ELSE Dependency(Service(e.service), Node("external_api", e.site.topic),
                  "calls_external", <<NoName, e.site.topic>>, Confidence(e.site))
OutsideRelations(w, graph) ==
  LET matched == {e.source.id : e \in {x \in ToSet(graph) : x.kind = "rest"}}
      calls == {e \in Playing(w, "rest", "call") : /\ e.site.domain = NoName
                                                   /\ \/ e.site.external # NoName
                                                      \/ e.site.id \notin matched}
  IN  FirstOfEach(calls, OutsideRelation)

\* One relation or one warning for each domain of a configured client.
ConfiguredClients(w) ==
  {<<e.service, e.site.domain>> : e \in {x \in Playing(w, "rest", "call") :
                                            x.site.domain # NoName}}
KnownMicroservices(w) == ToSet(w.services) \cup DOMAIN w.modules
ConfiguredRelations(w) ==
  {Dependency(Service(c[1]), Service(c[2]), "http", <<c[2], API>>, "high") :
     c \in {x \in ConfiguredClients(w) : x[2] \in KnownMicroservices(w)}}
Warnings(w) == {c \in ConfiguredClients(w) : c[2] \notin KnownMicroservices(w)}

CollectionRelations(w) ==
  UNION {LET kinds == [c \in w.modules[s].collections |->
                         {o.kind : o \in {x \in w.modules[s].operations : x.collection = c}}]
         IN  UNION {{Dependency(Service(s), <<"mongodb_collection", s, c>>, k, <<k, API>>, "high") :
                       k \in IF kinds[c] = {} THEN {"uses"} ELSE kinds[c]} :
                    c \in w.modules[s].collections} :
         s \in DOMAIN w.modules \cap ToSet(w.services)}

\* The nodes are those of the services and of the relations.
DependencyGraph(w, edges) ==
  [edges |-> edges,
   nodes |-> {Service(s) : s \in ToSet(w.services)}
               \cup UNION {{r.source, r.target} : r \in edges},
   external |-> {Service(e.site.external) : e \in
                   {x \in Playing(w, "rest", "call") :
                      x.site.domain = NoName /\ x.site.external # NoName}},
   warnings |-> Warnings(w)]

\* Mutant: nothing takes the place of the routes that are skipped.
BuildSkippingGraph(w) ==
  LET graph == BuildGraph(w)
  IN  DependencyGraph(w, HttpRelations(graph) \cup KafkaRelations(w)
                           \cup OutsideRelations(w, graph) \cup CollectionRelations(w))

BuildDependencyGraph(w) ==
  LET graph == BuildGraph(w)
  IN  DependencyGraph(w, HttpRelations(graph) \cup KafkaRelations(w)
                           \cup OutsideRelations(w, graph) \cup ConfiguredRelations(w)
                           \cup CollectionRelations(w))
=============================================================================

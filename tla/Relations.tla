----------------------------- MODULE Relations -----------------------------
(***************************************************************************)
(* The architecture relations that a run of the indexer stores             *)
(* (src/src/ccc_radar/relations.py) and the tracing of one topic or route  *)
(* through every service (src/src/ccc_radar/flow.py).                      *)
(***************************************************************************)
EXTENDS Catalog

\* A relation is identified by the names and kinds of both ends and by where
\* it is evidenced; what is left of it is not part of the identity.
Fact(source, name, relation, target, other, place, confidence) ==
  [id |-> <<<<source, name>>, relation, <<target, other>>, place>>,
   confidence |-> confidence]

Nowhere == <<"", 0>>
ModuleKind(modules, m) ==
  IF m \in DOMAIN modules /\ modules[m].starts THEN "microservice" ELSE "module"

\* The relations of one endpoint; `class' is its qualified name and
\* `properties' the Spring properties that its snippet reads.
EndpointFacts(modules, e) ==
  LET place == <<e.site.file, e.site.first>>
      source == ModuleKind(modules, e.service)
      user == IF e.site.class = NoName THEN <<source, e.service>>
              ELSE <<"class", e.site.class>>
      Of(kind, name, relation, target, other) ==
        Fact(kind, name, relation, target, other, place, Confidence(e.site))
  IN  IF e.service = NoName THEN {}
      ELSE {Of(source, e.service, Verb[e.site.role], KindOf(e.site), e.site.topic)} \cup
           {Of("class", n, "implements", KindOf(e.site), e.site.topic) :
              n \in {e.site.class} \ {NoName}} \cup
           {Of(user[1], user[2], "uses_configuration", "property", p) :
              p \in e.site.properties} \cup
           {Of("topic", e.site.topic,
               IF e.site.role = "produce" THEN "publishes_type" ELSE "consumes_type",
               "dto", t) :
              t \in IF e.site.system = "kafka" THEN {e.site.type} \ {NoName} ELSE {}}

MongoFacts(modules, m) ==
  {Fact(ModuleKind(modules, m), m, o.kind, "collection", o.collection,
        <<"mongo", o.line>>, "high") : o \in modules[m].operations} \cup
  {Fact("method", <<m, o.method>>, o.kind, "collection", o.collection,
        <<"mongo", o.line>>, "high") :
     o \in {x \in modules[m].operations : x.method # NoName}}

\* relations[id] = relation: the last endpoint of an identity wins.
BuildArchitectureRelations(modules, endpoints, dependencies) ==
  LET Depends(d) == Fact(ModuleKind(modules, d[1]), d[1], "depends_on",
                         ModuleKind(modules, d[2]), d[2], Nowhere, "high")
      Keep(facts, more) ==
        {f \in facts : \A g \in more : g.id # f.id} \cup more
  IN  Keep({Depends(d) : d \in dependencies},
           FoldLeft(LAMBDA acc, e : Keep(acc, EndpointFacts(modules, e)), {}, endpoints))
        \cup UNION {MongoFacts(modules, m) : m \in DOMAIN modules}

-----------------------------------------------------------------------------
Overlaps(finding, site) ==
  /\ finding.file = site.file
  /\ finding.first <= site.last /\ finding.last >= site.first

\* The sites of a topic, one for each service and identity, with the findings
\* of the same service on their lines.
TraceFlow(topic, endpoints, findings) ==
  FoldLeft(LAMBDA sites, e :
    IF \/ e.site.topic # topic
       \/ \E s \in sites : s.service = e.service /\ s.site.id = e.site.id
    THEN sites
    ELSE sites \cup {[service |-> e.service, site |-> e.site,
                      findings |-> {f \in findings : /\ f.service = e.service
                                                     /\ Overlaps(f, e.site)}]},
    {}, endpoints)
=============================================================================

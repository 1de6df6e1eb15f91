------------------------------- MODULE Catalog -------------------------------
(***************************************************************************)
(* The catalogue of modules, topics and APIs, what each view tells of it   *)
(* and what is next to what in it (src/src/ccc_radar/architecture.py).  A  *)
(* catalogue is [modules, listed, endpoints, edges]: the modules by name,  *)
(* the endpoints with their modules as [service, site] (NoName without     *)
(* one), in order and as a set, and the service graph.                     *)
(***************************************************************************)
EXTENDS Dependencies

\* group_endpoints_by_module: an endpoint without module has no edge.
GroupByModule(endpoints) ==
  LET owned == SelectSeq(endpoints, LAMBDA e : e.service # NoName)
      names == FoldLeft(LAMBDA acc, e : IF e.service \in ToSet(acc) THEN acc
                                        ELSE Append(acc, e.service), <<>>, owned)
      Sites(m) == SelectSeq(owned, LAMBDA e : e.service = m)
  IN  [services |-> names,
       endpoints |-> [m \in ToSet(names) |->
                        [i \in DOMAIN Sites(m) |-> Sites(m)[i].site]]]

\* Mutant: only the endpoints of the modules that start an application.
BuildRunningCatalog(modules, endpoints) ==
  LET Runs(e) == e.service \in DOMAIN modules /\ modules[e.service].starts
  IN  [modules |-> modules, listed |-> endpoints, endpoints |-> {e \in ToSet(endpoints) : Runs(e)},
       edges |-> BuildGraph(GroupByModule(endpoints))]

BuildCatalog(modules, endpoints) ==
  [modules |-> modules, listed |-> endpoints, endpoints |-> ToSet(endpoints),
   edges |-> BuildGraph(GroupByModule(endpoints))]

\* The modules, or the topics, of the endpoints that play a role.
With(c, system, role) == {e \in c.endpoints : e.site.system = system /\ e.site.role = role}
Owners(endpoints) == {e.service : e \in endpoints} \ {NoName}
Topics(endpoints) == {e.site.topic : e \in endpoints}

ModuleSummary(c, m) ==
  LET Mine(system, role) == {e \in With(c, system, role) : e.service = m}
      matched == {e.source.id : e \in {x \in ToSet(c.edges) : x.kind = "rest" /\ x.from = m}}
  IN  [kind |-> IF c.modules[m].starts THEN "microservice" ELSE "module",
       exposed |-> Topics(Mine("rest", "serve")),
       called |-> Topics(Mine("rest", "call")),
       published |-> Topics(Mine("kafka", "produce")),
       consumed |-> Topics(Mine("kafka", "consume")),
       outgoing |-> {e.to : e \in {x \in ToSet(c.edges) : x.from = m}},
       incoming |-> {e.from : e \in {x \in ToSet(c.edges) : x.to = m}},
       external |-> Topics({e \in Mine("rest", "call") : e.site.id \notin matched})]

TopicSummary(c, t) ==
  [producers |-> Owners({e \in With(c, "kafka", "produce") : e.site.topic = t}),
   consumers |-> Owners({e \in With(c, "kafka", "consume") : e.site.topic = t})]

ApiSummary(c, a) ==
  [providers |-> Owners({e \in With(c, "rest", "serve") : e.site.topic = a}),
   consumers |-> Owners({e \in With(c, "rest", "call") : e.site.topic = a})]

OfSystem(c, system) == {e \in c.endpoints : e.site.system = system}

\* Only the modules that start an application produce or consume a type.
DtoSummary(c, dto) ==
  LET typed == {e \in OfSystem(c, "kafka") : e.site.type = dto}
      running == {m \in DOMAIN c.modules : c.modules[m].starts}
      Of(role) == Owners({e \in typed : e.site.role = role}) \cap running
  IN  [topics |-> Topics(typed), producers |-> Of("produce"), consumers |-> Of("consume")]

\* show_object(...) is not None.
Shown(c, kind, name) ==
  \/ kind = "module" /\ name \in DOMAIN c.modules
  \/ kind = "microservice" /\ name \in DOMAIN c.modules /\ c.modules[name].starts
  \/ kind = "topic" /\ name \in Topics(OfSystem(c, "kafka"))
  \/ kind = "api" /\ name \in Topics(OfSystem(c, "rest"))
  \/ kind = "collection" /\ \E m \in DOMAIN c.modules : name \in c.modules[m].collections
  \/ kind = "dto" /\ \E e \in OfSystem(c, "kafka") : e.site.type = name
  \/ kind = "endpoint" /\ \E e \in c.endpoints : e.site.id = name

Verb == [produce |-> "publishes", consume |-> "consumes", serve |-> "provides", call |-> "calls"]
Noun == [produce |-> "producer", consume |-> "consumer", serve |-> "provider", call |-> "consumer"]
KindOf(site) == IF site.system = "kafka" THEN "topic" ELSE "api"

\* What is next to an object, as <<kind, relation, name>>; nothing for one
\* that the catalogue does not show.
Neighbors(c, kind, name) ==
  LET OfModule(m) ==
        {<<KindOf(e.site), Verb[e.site.role], e.site.topic>> :
           e \in {x \in c.endpoints : x.service = m}} \cup
        {<<"collection", "uses", k>> : k \in c.modules[m].collections} \cup
        {<<"module", "depends_on", e.to>> : e \in {x \in ToSet(c.edges) : x.from = m}} \cup
        {<<"module", "used_by", e.from>> : e \in {x \in ToSet(c.edges) : x.to = m}}
      Owning(endpoints) ==
        {<<"module", Noun[e.site.role], e.service>> :
           e \in {x \in endpoints : x.service # NoName}}
      OfDto(endpoints) ==
        Owning(endpoints) \cup
        {<<"topic", IF e.site.role = "produce" THEN "published_as" ELSE "consumed_as",
           e.site.topic>> : e \in endpoints}
      First(id) == SelectSeq(c.listed, LAMBDA e : e.site.id = id)[1]
  IN  IF ~Shown(c, kind, name) THEN {}
      ELSE CASE kind \in {"module", "microservice"} -> OfModule(name)
             [] kind = "topic" -> Owning({e \in OfSystem(c, "kafka") : e.site.topic = name})
             [] kind = "api" -> Owning({e \in OfSystem(c, "rest") : e.site.topic = name})
             [] kind = "dto" -> OfDto({e \in OfSystem(c, "kafka") : e.site.type = name})
             [] kind = "endpoint" ->
                  {<<KindOf(First(name).site), "implements", First(name).site.topic>>} \cup
                  {<<"module", "belongs_to", m>> : m \in {First(name).service} \ {NoName}}
             [] kind = "collection" ->
                  {<<"module", "uses", m>> : m \in {x \in DOMAIN c.modules :
                                                    name \in c.modules[x].collections}}

\* analyze(..., "orphan-integrations"): topics and APIs without one side.
OrphanIntegrations(c) ==
  {t \in Topics(OfSystem(c, "kafka")) : {} \in {TopicSummary(c, t).producers,
                                                 TopicSummary(c, t).consumers}} \cup
  {a \in Topics(OfSystem(c, "rest")) : {} \in {ApiSummary(c, a).providers,
                                                ApiSummary(c, a).consumers}}

InventoryCoverage(c) ==
  LET matched == {e.source.id : e \in {x \in ToSet(c.edges) : x.kind = "rest"}}
  IN  [dynamic |-> {e \in OfSystem(c, "kafka") : e.site.dynamic},
       untyped |-> {e \in OfSystem(c, "kafka") : e.site.type = NoName},
       unmatched |-> {e \in With(c, "rest", "call") : e.site.id \notin matched}]
=============================================================================

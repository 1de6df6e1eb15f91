-------------------------------- MODULE Views --------------------------------
(***************************************************************************)
(* The question of what is stored and told of an inventory: the relations  *)
(* that a run of the indexer stores, next to the summaries, the neighbours *)
(* and the traces that the command line and the server derive from it.     *)
(***************************************************************************)
EXTENDS Relations, Questions

CONSTANT Inventories   \* the inputs [modules, endpoints, dependencies]

Sides(system) == IF system = "kafka" THEN {"produce", "consume"} ELSE {"serve", "call"}

\* No module is named as the absence of one.  An endpoint plays a role of its
\* system; its identity hashes, among others, its role and its topic; and the
\* name of a route starts with a method, which that of a topic does not.
IsInventory(i) ==
  /\ NoName \notin DOMAIN i.modules
  /\ i.endpoints \in Seq(ToSet(i.endpoints))
  /\ \A x \in ToSet(i.endpoints) : /\ x.site.system \in {"kafka", "rest"}
                                   /\ x.site.role \in Sides(x.site.system)
  /\ \A x, y \in ToSet(i.endpoints) :
       /\ x.site.id = y.site.id => x.site.role = y.site.role /\ x.site.topic = y.site.topic
       /\ x.site.topic = y.site.topic => x.site.system = y.site.system

ASSUME ViewsAssumption == \A i \in Inventories : IsInventory(i)

ViewsInit == Ask("views", Inventories)

CatalogOf(i) == BuildCatalog(i.modules, i.endpoints)
RelateInventory ==
  Answer("views", BuildArchitectureRelations(about.modules, about.endpoints,
                                             about.dependencies))

ViewsNext == RelateInventory

ViewsSpec == ViewsInit /\ [][ViewsNext]_vars

-----------------------------------------------------------------------------
\* Every view of an inventory tells the same of a module and a topic or route:
\* the stored relations, the neighbours of either, the summaries of both and
\* the trace of the topic; what depends on a module is used by it; a topic or
\* route is an orphan exactly when no module is told to be on one of its sides;
\* and the type of a message has the running modules that its neighbours give
\* it, and the topics that the relations do, besides those of the endpoints of
\* no module, of which no relation tells.
ViewsAgree ==
  Answered("views") =>
    LET c == CatalogOf(about)
        Stored(source, relation, target) ==
          \E f \in answer : f.id[1] = source /\ f.id[2] = relation /\ f.id[3] = target
        Told(m, r, s) ==
          Stored(<<ModuleKind(about.modules, m), m>>, Verb[r], <<KindOf(s), s.topic>>)
        Summary(m, r) == CASE r = "produce" -> ModuleSummary(c, m).published
                           [] r = "consume" -> ModuleSummary(c, m).consumed
                           [] r = "serve"   -> ModuleSummary(c, m).exposed
                           [] r = "call"    -> ModuleSummary(c, m).called
        Back(t, r) == CASE r = "produce" -> TopicSummary(c, t).producers
                        [] r = "consume" -> TopicSummary(c, t).consumers
                        [] r = "serve"   -> ApiSummary(c, t).providers
                        [] r = "call"    -> ApiSummary(c, t).consumers
        Traced(m, r, t) == \E s \in TraceFlow(t, about.endpoints, {}) :
                             s.service = m /\ s.site.role = r
        Someone(r, s) == \E m \in Owners(c.endpoints) : Told(m, r, s)
        Typing(t, d) == \E r \in {"publishes_type", "consumes_type"} :
                          Stored(<<"topic", t>>, r, <<"dto", d>>)
        Unowned(d) == {e \in OfSystem(c, "kafka") : e.service = NoName /\ e.site.type = d}
        Running(d, noun) == {m \in DOMAIN about.modules :
                               /\ about.modules[m].starts
                               /\ <<"module", noun, m>> \in Neighbors(c, "dto", d)}
    IN  /\ \A m \in DOMAIN about.modules, e \in c.endpoints :
             LET r == e.site.role
                 t == e.site.topic
             IN  /\ Told(m, r, e.site) <=> t \in Summary(m, r)
                 /\ Told(m, r, e.site) <=> m \in Back(t, r)
                 /\ Told(m, r, e.site) <=> Traced(m, r, t)
                 /\ Told(m, r, e.site) <=>
                      <<KindOf(e.site), Verb[r], t>> \in Neighbors(c, "module", m)
                 /\ Told(m, r, e.site) <=>
                      <<"module", Noun[r], m>> \in Neighbors(c, KindOf(e.site), t)
        /\ \A m, n \in DOMAIN about.modules :
             <<"module", "depends_on", n>> \in Neighbors(c, "module", m) <=>
             <<"module", "used_by", m>> \in Neighbors(c, "module", n)
        /\ \A e \in InventoryCoverage(c).unmatched :
             e.service \in DOMAIN about.modules =>
               e.site.topic \in ModuleSummary(c, e.service).external
        /\ \A e \in c.endpoints :
             e.site.topic \in OrphanIntegrations(c) <=>
               \E r \in Sides(e.site.system) : ~Someone(r, e.site)
        /\ \A d \in {e.site.type : e \in c.endpoints} \ {NoName} :
             LET dto == DtoSummary(c, d)
             IN  /\ dto.topics = {t \in Topics(c.endpoints) : Typing(t, d)} \cup Topics(Unowned(d))
                 /\ dto.producers = Running(d, "producer")
                 /\ dto.consumers = Running(d, "consumer")
=============================================================================

------------------------------ MODULE Analysis ------------------------------
(***************************************************************************)
(* The questions that the command line and the MCP server answer from what *)
(* is indexed, with those of Routing, Assessment, Attribution and Views.   *)
(* A question is asked of one input; answering it runs the algorithm of    *)
(* the code, and each property compares the answer with what the question  *)
(* means, defined without the loops of the code.                           *)
(***************************************************************************)
EXTENDS Views, Audit, Export, Architecture, Assessment, Attribution

CONSTANTS Journeys,     \* those of paths: [inventory, from, to]
          Triggers,     \* those of flows: [inventory, topic]
          Exported      \* those of exports: inventories

Init ==
  \/ RoutingInit \/ AssessmentInit \/ AttributionInit \/ ViewsInit
  \/ Ask("audit", Workspaces)
  \/ Ask("journey", Journeys) \/ Ask("flows", Triggers) \/ Ask("exports", Exported)

AuditServices == Answer("audit", AuditDependencies(about))

FindPaths == Answer("journey", MicroservicePaths(CatalogOf(about.inventory),
                                                 about.from, about.to))
TraceFlows == Answer("flows", TopicFlows(CatalogOf(about.inventory), about.topic))

ExportsOf(w, edges) ==
  [edges |-> edges, nodes |-> DOMAIN PageNodes(w, edges),
   links |-> PageLinks(w, edges), complexity |-> PageComplexity(w, edges),
   issues |-> IndexingIssues(w, edges), model |-> LikeC4Relations(w, edges),
   json |-> GraphEdges(edges), served |-> ServedGraph(about),
   dtos |-> KafkaDtos({e.site.type : e \in ToSet(about.endpoints)} \ {NoName}, about.sources),
   levels |-> ModuleLevels(DOMAIN about.modules, about.dependencies),
   layers |-> HierarchyLevels(DOMAIN about.modules, about.dependencies)]
ExportInventory ==
  /\ asked = "exports" /\ ~answered
  /\ \E w \in {ExportedWorkspace(about)} : \E edges \in {BuildGraph(w)} :
       Answer("exports", ExportsOf(w, edges))

Next == \/ RoutingNext \/ AssessmentNext \/ AttributionNext \/ ViewsNext
        \/ AuditServices \/ FindPaths \/ TraceFlows \/ ExportInventory

Spec == Init /\ [][Next]_vars

-----------------------------------------------------------------------------
\* The event cycles are the classes of nodes that reach each other through
\* relevant relations, with three nodes, two services and a topic at least.
CyclesAreMutual ==
  Answered("audit") =>
    LET nodes == answer.graph.nodes
        Linked == {<<e.source, e.target>> : e \in {x \in answer.graph.edges :
                                                     x.kind \in Relevant}}
        Closure == FoldLeft(LAMBDA acc, n : acc \cup
                     {<<p[1], q[2]>> : p \in {x \in acc : x[2] = n}, q \in {x \in acc : x[1] = n}},
                     Linked, Enumerate(nodes))
        Class(n) == {n} \cup {m \in nodes : {<<n, m>>, <<m, n>>} \subseteq Closure}
    IN  answer.cycles = {c \in {Class(n) : n \in nodes} : CycleOf(c)}

-----------------------------------------------------------------------------
\* The paths between two microservices are the shortest ones, all of them
\* unless the answer says that it is truncated.  Two microservices that are
\* further apart than MaxDepth are answered like two that no path links: no path,
\* and nothing truncated (architecture.py:387).  Nothing is answered about a
\* module that is not a microservice.
PathsAreShortest ==
  Answered("journey") =>
    LET c == CatalogOf(about.inventory)
        hops == ToSet(Hops(c))
        source == <<"microservice", about.from>>
        target == <<"microservice", about.to>>
        nodes == {source} \cup {h.to : h \in hops}
        Within[k \in 0 .. Cardinality(nodes)] ==
          IF k = 0 THEN {source}
          ELSE LET near == Within[k - 1]
               IN  near \cup {h.to : h \in {x \in hops : x.from \in near}}
        distances == {k \in 0 .. Cardinality(nodes) : target \in Within[k]}
        Walks[k \in 0 .. MaxDepth] ==
          IF k = 0 THEN {<<source>>}
          ELSE UNION {{Append(p, h.to) : h \in {x \in hops : x.from = Last(p)}} :
                      p \in Walks[k - 1]}
        shortest == {p \in Walks[Min(distances)] : Last(p) = target}
        found == {p.nodes : p \in ToSet(answer.paths)}
    IN  IF \E m \in {about.from, about.to} : m \notin DOMAIN c.modules \/ ~c.modules[m].starts
        THEN answer = None
        ELSE IF distances \cap (0 .. MaxDepth) = {}
        THEN answer.paths = <<>> /\ ~answer.truncated
        ELSE /\ found \subseteq shortest
             /\ IF answer.truncated THEN Len(answer.paths) = PathLimit ELSE found = shortest

\* The flows of a topic are the maximal chains of consumption and publication
\* up to the depth, each once, and truncated exactly when there are more than
\* the limit; a chain that ends in a topic nobody consumes is not one of them, and
\* one that goes on beyond the depth is given like one that ends there.  Nothing is
\* answered about a topic that no literal endpoint names.
FlowsFollowTheEvents ==
  Answered("flows") =>
    LET c == CatalogOf(about.inventory)
        Depth(x) == Len(x) \div 2
        Looped(x) == Len(x) % 2 = 1 /\ \E i \in 1 .. Len(x) \div 2 : x[2 * i - 1] = Last(x)
        Ended(x) == \/ Looped(x)
                    \/ /\ Len(x) % 2 = 0
                       /\ Depth(x) >= FlowDepth \/ PublishedBy(c, Last(x)) = {}
        After(x) == IF Len(x) % 2 = 1 THEN ConsumersOf(c, Last(x)) ELSE PublishedBy(c, Last(x))
        Chains[k \in 1 .. 2 * FlowDepth] ==
          IF k = 1 THEN {<<about.topic>>}
          ELSE UNION {{Append(x, n) : n \in After(x)} :
                      x \in {y \in Chains[k - 1] : ~Ended(y)}}
        all == {x \in UNION {Chains[k] : k \in 1 .. 2 * FlowDepth} : Ended(x)}
        found == {f.nodes : f \in ToSet(answer.flows)}
        literal == {x \in c.endpoints : x.site.system = "kafka" /\ ~x.site.dynamic}
    IN  IF \A x \in literal : x.site.topic = about.topic => x.service = NoName
        THEN answer = None
        ELSE /\ found \subseteq all
             /\ Cardinality(found) = Len(answer.flows)
             /\ answer.truncated <=> Cardinality(all) > FlowLimit
             /\ answer.truncated \/ found = all
             /\ \A f \in ToSet(answer.flows) : f.cycle <=> Looped(f.nodes)

\* A limit on the number of paths or flows is never reached in silence; what lies
\* beyond the depth is left out in silence, and nothing else is.
TruncationIsTold == PathsAreShortest /\ FlowsFollowTheEvents

-----------------------------------------------------------------------------
\* The page, the LikeC4 model and the JSON graph tell of the same relations
\* between the same nodes; a call that the page reports as unmatched is one
\* that the model shows as external; the server, which draws only the services
\* that have an endpoint (mcp_server.py:237-247), answers with all the relations of
\* the command line but those towards a service without any; a build module is
\* below all that depend on it, unless they depend on each other (in the static
\* export, whatever is below a cycle may share its level); and the types that the
\* page describes are those of the messages and the ones that another described
\* type refers to.
ExportsAgree ==
  Answered("exports") =>
    LET OnPage(kind) == {<<l.source, l.target>> :
                          l \in {x \in ToSet(answer.links) : x.kind = kind}}
        Listed(kinds) == {<<l.source, l.target>> :
                            l \in {x \in ToSet(answer.json) : x.kind \in kinds}}
        Modelled(kinds) == {<<r[2], r[3]>> : r \in {x \in answer.model : x[1] \in kinds}}
        Unmatched == {<<Service(i[2]), Node("external_api", i[3])>> :
                        i \in {x \in answer.issues : x[1] = "unmatched call"}}
        bare == {m \in DOMAIN about.modules :
                   \A k \in DOMAIN about.endpoints : about.endpoints[k].service # m}
        Under[k \in 0 .. Cardinality(DOMAIN about.modules)] ==
          IF k = 0 THEN about.dependencies
          ELSE Under[k - 1] \cup {<<d[1], e[2]>> : d \in Under[k - 1], e \in about.dependencies}
        after == Under[Cardinality(DOMAIN about.modules)]
        reach == {d \in after : d[1] # d[2]}
        Cyclic(m) == \E c \in DOMAIN about.modules :
                        <<c, c>> \in after /\ (c = m \/ <<c, m>> \in after)
    IN  /\ OnPage("rest") = Modelled({"http"}) /\ OnPage("rest") = Listed({"rest"})
        /\ OnPage("kafka") = Modelled({"publishes", "consumes"})
        /\ OnPage("kafka") = Listed({"kafka_produce", "kafka_consume"})
        /\ OnPage("mongodb") = Modelled({"uses", "reads", "writes"})
        /\ \A l \in ToSet(answer.links) : {l.source, l.target} \subseteq answer.nodes
        /\ Unmatched = Modelled({"calls_external"})
        /\ ToSet(answer.served) = {e \in ToSet(answer.edges) : e.to \notin bare}
        /\ \A d \in reach :
             IF <<d[2], d[1]>> \in reach THEN answer.layers[d[1]] = answer.layers[d[2]]
             ELSE /\ answer.layers[d[1]] < answer.layers[d[2]]
                  /\ answer.levels[d[1]] < answer.levels[d[2]] \/ Cyclic(d[1])
        /\ \A t \in {about.endpoints[k].site.type : k \in DOMAIN about.endpoints} :
             t # NoName => t \in DOMAIN answer.dtos
        /\ \A t \in DOMAIN answer.dtos :
             /\ \/ \E u \in DOMAIN answer.dtos \ {t} : t \in answer.dtos[u]
                \/ \E k \in DOMAIN about.endpoints : about.endpoints[k].site.type = t
             /\ answer.dtos[t] \subseteq DOMAIN answer.dtos
             /\ answer.dtos[t] # {} => about.sources[t] = {s \in about.sources[t] :
                                                          answer.dtos[t] \subseteq s}

=============================================================================

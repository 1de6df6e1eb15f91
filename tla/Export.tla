------------------------------- MODULE Export -------------------------------
(***************************************************************************)
(* What the exports show of an inventory: the interactive page, the LikeC4 *)
(* model and the JSON graph (src/src/ccc_radar/render.py), as `cccr export'*)
(* (cli.py) and the graph tool of the server (mcp_server.py) prepare them. *)
(* Layout, colours and wording are left out.                               *)
(***************************************************************************)
EXTENDS Catalog, Cycles

Distinct(seq) == FoldLeft(LAMBDA acc, x : IF x \in ToSet(acc) THEN acc ELSE Append(acc, x),
                          <<>>, seq)

\* _load_microservice_graph without a workspace: the modules that have an
\* endpoint or start an application.
ExportedWorkspace(i) ==
  LET grouped == GroupByModule(i.endpoints)
      owners == ToSet(grouped.services)
      names == owners \cup {m \in DOMAIN i.modules : i.modules[m].starts}
  IN  [services |-> Enumerate(names),
       endpoints |-> [s \in names |-> IF s \in owners THEN grouped.endpoints[s] ELSE <<>>],
       modules |-> Restrict(i.modules, DOMAIN i.modules \cap names)]

\* The graph tool of the server only knows the modules that have an endpoint.
ServedGraph(i) == BuildGraph(GroupByModule(i.endpoints))

ExternalNames(edges) ==
  {e.to : e \in {x \in ToSet(edges) : x.kind = "rest" /\ x.source.external # NoName}}

-----------------------------------------------------------------------------
Stroke(source, target, kind, label) ==
  [source |-> source, target |-> target, kind |-> kind, label |-> label]

\* graph_edge_rest_resource, or the path of a gateway route.
ResourceLabel(e) ==
  CASE e.source.gateway -> <<NoName, [e.source.topic EXCEPT !.verb = "ANY"]>>
    [] ~e.source.gateway /\ e.target = NoEndpoint -> <<e.to, API>>
    [] OTHER -> <<e.to, e.target.topic>>

\* A Kafka edge is drawn as a publication and a consumption.
Unfolded(e, kinds) ==
  LET topic == Node("topic", e.source.topic)
  IN  IF e.kind = "rest"
      THEN <<Stroke(Service(e.from), Service(e.to), kinds[1], ResourceLabel(e))>>
      ELSE <<Stroke(Service(e.from), topic, kinds[2], <<NoName, e.source.topic>>),
             Stroke(topic, Service(e.to), kinds[3], <<NoName, e.source.topic>>)>>

VisualEdges(edges) ==
  Distinct(FlattenSeq([i \in DOMAIN edges |-> Unfolded(edges[i], <<"rest", "kafka", "kafka">>)]))

GraphEdges(edges) ==
  FlattenSeq([i \in DOMAIN edges |->
                Unfolded(edges[i], <<"rest", "kafka_produce", "kafka_consume">>)])

\* One line between two nodes carries the labels of all their relations.
BundledEdges(edges) ==
  LET strokes == VisualEdges(edges)
      Line(s) == <<s.source, s.target, s.kind>>
      lines == Distinct([i \in DOMAIN strokes |-> Line(strokes[i])])
  IN  [i \in DOMAIN lines |->
         Stroke(lines[i][1], lines[i][2], lines[i][3],
                {s.label : s \in {x \in ToSet(strokes) : Line(x) = lines[i]}})]

\* A collection is a node of its own for each service that uses its name.
CollectionNodes(w) ==
  UNION {{<<"collection", s, c>> : c \in w.modules[s].collections} : s \in DOMAIN w.modules}

CollectionEdges(w) ==
  LET nodes == Enumerate(CollectionNodes(w))
  IN  [i \in DOMAIN nodes |-> Stroke(Service(nodes[i][2]), nodes[i], "mongodb", {})]

-----------------------------------------------------------------------------
\* The nodes of the page: what each is, and the text that names it.
PageNodes(w, edges) ==
  LET kafka == {e.source.topic : e \in {x \in ToSet(edges) : x.kind = "kafka"}}
      services == ToSet(w.services) \cup ExternalNames(edges)
      Shape(kind, external, name) == [kind |-> kind, external |-> external, name |-> name]
      Named(n) == CASE n[1] = "microservice" -> Shape(n[1], n[3] \in ExternalNames(edges), n[3])
                    [] n[1] = "topic"        -> Shape(n[1], FALSE, n[3].path[1])
                    [] n[1] = "collection"   -> Shape(n[1], FALSE, n[3])
  IN  [n \in {Service(s) : s \in services} \cup {Node("topic", t) : t \in kafka}
               \cup CollectionNodes(w) |-> Named(n)]

PageLinks(w, edges) == BundledEdges(edges) \o CollectionEdges(w)

\* _complexity_levels: thirds of equal size, by the number of relations.
ComplexityLevels(counts) ==
  LET order == Enumerate(DOMAIN counts)
      Before(a, b) == \/ counts[order[a]] < counts[order[b]]
                      \/ counts[order[a]] = counts[order[b]] /\ a < b
      Rank(k) == Cardinality({j \in DOMAIN order : Before(j, k)})
      size == Len(order)
  IN  [n \in DOMAIN counts |->
         LET rank == Rank(CHOOSE k \in DOMAIN order : order[k] = n)
         IN  CASE rank < (size + 2) \div 3 -> "low"
               [] rank >= (size + 2) \div 3 + (size + 1) \div 3 -> "high"
               [] OTHER -> "medium"]

PageComplexity(w, edges) ==
  LET strokes == VisualEdges(edges) \o CollectionEdges(w)
      Touching(n) == {i \in DOMAIN strokes : n \in {strokes[i].source, strokes[i].target}}
      Count(n) == Cardinality(Touching(n)) +
                  Cardinality({i \in Touching(n) : strokes[i].source = strokes[i].target})
      services == {n \in DOMAIN PageNodes(w, edges) : n[1] = "microservice"}
  IN  ComplexityLevels([n \in services |-> Count(n)])

\* _indexing_issues: [about, service, topic, place].
IndexingIssues(w, edges) ==
  LET matched == {e.source.id : e \in {x \in ToSet(edges) : x.kind = "rest"}}
      Of(s) == ToSet(w.endpoints[s])
      Issue(about, s, e) == <<about, s, e.topic, <<e.file, e.first>>>>
  IN  UNION {{Issue("dynamic topic", s, e) : e \in {x \in Of(s) : x.system = "kafka" /\ x.dynamic}}
             \cup {Issue("unknown type", s, e) : e \in {x \in Of(s) : /\ x.system = "kafka"
                                                                    /\ x.type = NoName}}
             \cup {Issue("unmatched call", s, e) : e \in {x \in Of(s) : /\ x.system = "rest"
                                                                      /\ x.role = "call"
                                                                      /\ x.id \notin matched}} :
             s \in ToSet(w.services)}

\* Mutant: a type that is declared twice has the fields of both.
KafkaDtosMerged(types, sources) ==
  LET Refs(n) == IF n \in DOMAIN sources THEN UNION sources[n] \cap DOMAIN sources ELSE {}
      Reached[k \in 0 .. Cardinality(DOMAIN sources)] ==
        IF k = 0 THEN types ELSE Reached[k - 1] \cup UNION {Refs(n) : n \in Reached[k - 1]}
  IN  [n \in Reached[Cardinality(DOMAIN sources)] |-> Refs(n)]

\* _kafka_dto_views: the types of the messages and the project types that
\* their fields reach, each with the types it refers to; a name that several
\* sources declare is left without fields.  `sources' gives for a name the set
\* of its declarations, each one the set of the types of its fields.
KafkaDtos(types, sources) ==
  LET unique == {n \in DOMAIN sources : Cardinality(sources[n]) = 1}
      Refs(n) == IF n \in unique THEN UNION sources[n] \cap unique ELSE {}
      Reached[k \in 0 .. Cardinality(unique)] ==
        IF k = 0 THEN types ELSE Reached[k - 1] \cup UNION {Refs(n) : n \in Reached[k - 1]}
  IN  [n \in Reached[Cardinality(unique)] |-> Refs(n)]

-----------------------------------------------------------------------------
\* render_graph_likec4: the relations of the model, <<kind, from, to, label>>.
LikeC4Relations(w, edges) ==
  LET matched == {e.source.id : e \in {x \in ToSet(edges) : x.kind = "rest"}}
      Of(e) == IF e.kind = "rest" THEN {<<"http", Service(e.from), Service(e.to), NoName>>}
               ELSE LET topic == Node("topic", e.source.topic)
                    IN  {<<"publishes", Service(e.from), topic, e.source.type>>,
                         <<"consumes", topic, Service(e.to), e.target.type>>}
      outside == {x \in Playing(w, "rest", "call") : x.site.id \notin matched}
      Accesses(n) == {o.kind : o \in {x \in w.modules[n[2]].operations : x.collection = n[3]}}
      Kinds(n) == IF Accesses(n) = {} THEN {"uses"} ELSE Accesses(n)
  IN  UNION {Of(e) : e \in ToSet(edges)}
      \cup {<<"calls_external", Service(x.service), Node("external_api", x.site.topic), NoName>> :
              x \in outside}
      \cup UNION {{<<k, Service(n[2]), n, NoName>> : k \in Kinds(n)} : n \in CollectionNodes(w)}

-----------------------------------------------------------------------------
\* _module_dependency_layout: the level of each module.  A module is placed
\* when all that depend on it are; one that the placed modules reach has a
\* level too, and the rest of the cycles are left to a last level.
ModuleLevels(names, dependencies) ==
  LET Into(n) == {d[1] : d \in {x \in dependencies : x[2] = n /\ x[1] \in names}}
      Placed[k \in 0 .. Cardinality(names)] ==
        IF k = 0 THEN {} ELSE {n \in names : Into(n) \subseteq Placed[k - 1]}
      placed == Placed[Cardinality(names)]
      Level[n \in names] ==
        IF Into(n) \cap placed = {} THEN 0
        ELSE 1 + Max({Level[m] : m \in Into(n) \cap placed})
      leveled == {n \in names : n \in placed \/ Into(n) \cap placed # {}}
      last == IF leveled = {} THEN 0 ELSE 1 + Max({Level[n] : n \in leveled})
  IN  [n \in names |-> IF n \in leveled THEN Level[n] ELSE last]

\* buildHierarchyPositions, in the page: the level of a module once the cycles
\* are condensed, by Kahn's algorithm.
HierarchyLevels(names, dependencies) ==
  LET components == Components(names, {[source |-> d[1], target |-> d[2], kind |-> "http"] :
                                         d \in dependencies})
      Of(n) == CHOOSE c \in components : n \in c
      successors == {p \in {<<Of(d[1]), Of(d[2])>> : d \in dependencies} : p[1] # p[2]}
      Into(c) == {p[1] : p \in {x \in successors : x[2] = c}}
      Release(st, c) ==
        [levels |-> [st.levels EXCEPT ![c] =
                       FoldSet(LAMBDA p, m : IF st.levels[p] >= m THEN st.levels[p] + 1 ELSE m,
                               0, Into(c))],
         queue |-> Append(st.queue, c)]
      Ready(st) == {c \in components \ ToSet(st.queue) : Into(c) \subseteq ToSet(st.queue)}
      Rounds[k \in 0 .. Cardinality(components)] ==
        IF k = 0 THEN [levels |-> [c \in components |-> 0], queue |-> <<>>]
        ELSE LET before == Rounds[k - 1]
             IN  FoldLeft(Release, before, Enumerate(Ready(before)))
      levels == Rounds[Cardinality(components)].levels
  IN  [n \in names |-> levels[Of(n)]]
=============================================================================

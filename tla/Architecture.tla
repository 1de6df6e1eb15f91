---------------------------- MODULE Architecture -----------------------------
(***************************************************************************)
(* The traversals of a catalogue: the paths between two microservices and  *)
(* the flows of a topic (src/src/ccc_radar/architecture.py).               *)
(***************************************************************************)
EXTENDS Catalog

CONSTANTS MaxDepth, PathLimit, FlowDepth, FlowLimit   \* of the two traversals
ASSUME BoundsAssumption ==
  {MaxDepth, PathLimit, FlowDepth, FlowLimit} \subseteq Nat \ {0}

-----------------------------------------------------------------------------
\* The answer to a question about what the catalogue does not know.
None == [is |-> "unknown"]

\* find_microservice_paths: a topic is a node between its producers and its
\* consumers; an edge of the graph through a topic adds both halves anew.
Hops(c) ==
  LET Micro(s) == <<"microservice", s>>
      Hop(from, to, kind, label) == [from |-> from, to |-> to, kind |-> kind, label |-> label]
      Of(e) == IF e.kind = "rest"
               THEN <<Hop(Micro(e.from), Micro(e.to), "http",
                          IF e.target = NoEndpoint THEN API ELSE e.target.topic)>>
               ELSE LET t == <<"topic", e.source.topic>> IN
                    <<Hop(Micro(e.from), t, "publishes", e.source.topic),
                      Hop(t, Micro(e.to), "consumes", e.source.topic)>>
  IN  FlattenSeq([i \in DOMAIN c.edges |-> Of(c.edges[i])])

\* One turn of the loop for each entry [nodes, hops] of the queue; the order
\* of the hops of a node, which the code sorts, is the order of the graph.
RECURSIVE Explore(_, _, _, _)
Explore(queue, target, hops, found) ==
  IF queue = <<>> THEN found
  ELSE
    LET at == Head(queue)
        depth == Len(at.hops)
        Arrived == Last(at.nodes) = target
        kept == IF ~Arrived THEN found
                ELSE IF found.depth \notin {-1, depth} THEN found
                ELSE IF Len(found.paths) >= PathLimit
                THEN [found EXCEPT !.truncated = TRUE]
                ELSE [found EXCEPT !.depth = depth, !.paths = Append(@, at)]
        next == IF \/ Arrived \/ depth >= MaxDepth
                   \/ found.depth # -1 /\ depth >= found.depth
                THEN <<>>
                ELSE SelectSeq(hops, LAMBDA h : /\ h.from = Last(at.nodes)
                                                /\ ~Contains(at.nodes, h.to))
    IN  Explore(Tail(queue) \o [i \in DOMAIN next |->
                  [nodes |-> Append(at.nodes, next[i].to),
                   hops |-> Append(at.hops, next[i])]],
                target, hops, kept)

Paths(c, source, target) ==
  Explore(<<[nodes |-> <<<<"microservice", source>>>>, hops |-> <<>>]>>,
          <<"microservice", target>>, Hops(c),
          [depth |-> -1, paths |-> <<>>, truncated |-> FALSE])

\* Mutant: the limit is reached without a word.
PathsUntold(c, source, target) ==
  IF \A m \in {source, target} : Shown(c, "microservice", m)
  THEN [Paths(c, source, target) EXCEPT !.truncated = FALSE] ELSE None

MicroservicePaths(c, source, target) ==
  IF \A m \in {source, target} : Shown(c, "microservice", m)
  THEN Paths(c, source, target) ELSE None

-----------------------------------------------------------------------------
\* trace_topic_flows: from a topic to its consumers, from each of them to the
\* topics it publishes, and so on.  A flow is [nodes, cycle].
LiteralKafka(c) ==
  {e \in c.endpoints : e.site.system = "kafka" /\ ~e.site.dynamic /\ e.service # NoName}
ConsumersOf(c, t) ==
  Owners({e \in LiteralKafka(c) : e.site.role = "consume" /\ e.site.topic = t})
PublishedBy(c, m) ==
  Topics({e \in LiteralKafka(c) : e.site.role = "produce" /\ e.service = m})

AddFlow(st, nodes, cycle) ==
  IF Len(st.flows) >= FlowLimit THEN [st EXCEPT !.truncated = TRUE]
  ELSE [st EXCEPT !.flows = Append(@, [nodes |-> nodes, cycle |-> cycle])]

RECURSIVE Follow(_, _, _, _, _)
Follow(c, nodes, seen, depth, st0) ==
  LET Consumer(st, m) ==
        LET branch == Append(nodes, m)
            published == PublishedBy(c, m)
            Step(s, t) == IF t \in seen THEN AddFlow(s, Append(branch, t), TRUE)
                          ELSE Follow(c, Append(branch, t), seen \cup {t}, depth + 1, s)
        IN  IF st.truncated THEN st
            ELSE IF depth >= FlowDepth \/ published = {} THEN AddFlow(st, branch, FALSE)
            ELSE FoldLeft(Step, st, Enumerate(published))
  IN  FoldLeft(Consumer, st0, Enumerate(ConsumersOf(c, Last(nodes))))

\* Mutant: the topic of the question is not one that was seen.
FlowsUnseen(c, topic) ==
  IF topic \notin Topics(LiteralKafka(c)) THEN None
  ELSE Follow(c, <<topic>>, {}, 1, [flows |-> <<>>, truncated |-> FALSE])

TopicFlows(c, topic) ==
  IF topic \notin Topics(LiteralKafka(c)) THEN None
  ELSE Follow(c, <<topic>>, {topic}, 1, [flows |-> <<>>, truncated |-> FALSE])
=============================================================================

------------------------------- MODULE Cycles --------------------------------
(***************************************************************************)
(* The cycles of events in the dependency graph: Tarjan's algorithm, as    *)
(* dependency_analysis.py and the page of the export run it.               *)
(***************************************************************************)
EXTENDS Dependencies

\* _event_cycles: Tarjan's algorithm over the relations of these kinds, then
\* the components of at least three nodes, two services and a topic.
Relevant == {"publishes", "consumes", "http"}

Lesser(i, j) == IF i < j THEN i ELSE j

\* Mutant: a node that is not on the stack any more counts as well.
RECURSIVE VisitAny(_, _, _)
VisitAny(v, adjacent, st) ==
  LET entered == [st EXCEPT !.next = @ + 1, !.index = (v :> st.next) @@ @,
                            !.low = (v :> st.next) @@ @, !.stack = <<v>> \o @]
      Target(s, t) ==
        LET after == IF t \in DOMAIN s.index THEN s ELSE VisitAny(t, adjacent, s)
        IN  [after EXCEPT !.low[v] = Lesser(@, after.low[t])]
      left == FoldLeft(Target, entered, Enumerate(adjacent[v]))
      top == CHOOSE i \in DOMAIN left.stack : left.stack[i] = v
  IN  IF left.low[v] # left.index[v] THEN left
      ELSE [left EXCEPT !.components = @ \cup {{left.stack[i] : i \in 1 .. top}},
                        !.stack = SubSeq(@, top + 1, Len(@))]

\* visit(v), with the variables of the enclosing function as a record; the
\* nodes of the stack are those of on_stack.
RECURSIVE Visit(_, _, _)
Visit(v, adjacent, st) ==
  LET entered == [st EXCEPT !.next = @ + 1, !.index = (v :> st.next) @@ @,
                            !.low = (v :> st.next) @@ @, !.stack = <<v>> \o @]
      Target(s, t) ==
        IF t \notin DOMAIN s.index
        THEN LET after == Visit(t, adjacent, s)
             IN  [after EXCEPT !.low[v] = Lesser(@, after.low[t])]
        ELSE IF t \in ToSet(s.stack) THEN [s EXCEPT !.low[v] = Lesser(@, s.index[t])]
        ELSE s
      left == FoldLeft(Target, entered, Enumerate(adjacent[v]))
      top == CHOOSE i \in DOMAIN left.stack : left.stack[i] = v
  IN  IF left.low[v] # left.index[v] THEN left
      ELSE [left EXCEPT !.components = @ \cup {{left.stack[i] : i \in 1 .. top}},
                        !.stack = SubSeq(@, top + 1, Len(@))]

Components(nodes, edges) ==
  LET adjacent == [n \in nodes |-> {e.target : e \in {x \in edges :
                                      x.kind \in Relevant /\ x.source = n}}]
      Root(st, n) == IF n \in DOMAIN st.index THEN st ELSE Visit(n, adjacent, st)
  IN  FoldLeft(Root, [next |-> 0, index |-> <<>>, low |-> <<>>, stack |-> <<>>,
                      components |-> {}], Enumerate(nodes)).components

CycleOf(component) ==
  /\ Cardinality(component) >= 3
  /\ Cardinality({n \in component : n[1] = "microservice"}) >= 2
  /\ \E n \in component : n[1] = "topic"

EventCycles(graph) == {c \in Components(graph.nodes, graph.edges) : CycleOf(c)}
=============================================================================

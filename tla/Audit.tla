------------------------------- MODULE Audit -------------------------------
(***************************************************************************)
(* The audit of agents: the risks of the inventory, with the cycles of the *)
(* dependency graph and the calls made while a message is consumed.        *)
(***************************************************************************)
EXTENDS Risks, Cycles

\* audit_dependency_graph: the risks, the event cycles and the HTTP calls made
\* while a message is consumed.
AuditDependencies(w) ==
  LET graph == BuildDependencyGraph(w)
  IN  [graph |-> graph, cycles |-> EventCycles(graph),
       issues |-> AssessArchitecture(w, BuildGraph(w)) \cup
         {Risk("event-dependency-cycle", c, {n[3] : n \in {x \in c : x[1] = "microservice"}}) :
            c \in EventCycles(graph)} \cup
         UNION {{Risk("synchronous-http-in-kafka-consumer", <<p[2].file, p[2].first>>, {s}) :
                   p \in OutboundCallsInConsumers(w.endpoints[s])} :
                s \in ToSet(w.services)}]
=============================================================================

------------------------------- MODULE Risks -------------------------------
(***************************************************************************)
(* The architecture risks of an inventory (src/src/ccc_radar/audit.py): a  *)
(* risk is <<id, about, services>>; its severity and wording follow from   *)
(* the id.                                                                 *)
(***************************************************************************)
EXTENDS Dependencies

Risk(id, about, services) == <<id, about, services>>

Kafka(sites, role) == {e \in sites : e.system = "kafka" /\ e.role = role}

\* A topic or a route that the code computes cannot be mapped.
DynamicRisks(w) ==
  UNION {LET sites == ToSet(w.endpoints[s]) IN
         {Risk("dynamic-kafka-topic", <<e.file, e.first>>, {s}) :
            e \in {x \in sites : x.system = "kafka" /\ x.dynamic}} \cup
         {Risk("dynamic-http-target", <<e.file, e.first>>, {s}) :
            e \in {x \in sites : /\ x.system = "rest" /\ x.role = "call"
                                 /\ x.topic.path = Dynamic}} :
         s \in ToSet(w.services)}

\* The endpoints of a role with a literal topic that satisfies Alone.
Orphans(w, id, role, Alone(_, _)) ==
  UNION {{Risk(id, <<e.topic, e.file, e.first>>, {s}) :
            e \in {x \in Kafka(ToSet(w.endpoints[s]), role) : ~x.dynamic /\ Alone(s, x.topic)}} :
         s \in ToSet(w.services)}

\* Mutant: an edge of the topic counts, whatever services it joins.
OrphanTopicRisks(w, graph) ==
  LET Unused(s, t) == ~\E e \in ToSet(graph) : e.kind = "kafka" /\ e.source.topic = t
  IN  Orphans(w, "orphan-kafka-producer", "produce", Unused)
        \cup Orphans(w, "orphan-kafka-consumer", "consume", Unused)

\* A literal topic without an edge that leaves, or reaches, its service.
OrphanRisks(w, graph) ==
  LET kafka == {e \in ToSet(graph) : e.kind = "kafka"}
      Unsent(s, t) == ~\E e \in kafka : e.from = s /\ e.source.topic = t
      Unreceived(s, t) == ~\E e \in kafka : e.to = s /\ e.source.topic = t
  IN  Orphans(w, "orphan-kafka-producer", "produce", Unsent)
        \cup Orphans(w, "orphan-kafka-consumer", "consume", Unreceived)

\* The payload types that producers and consumers of a topic are known for.
ContractRisks(w) ==
  LET kafka == {e \in AllEndpoints(w) : e.site.system = "kafka" /\ ~e.site.dynamic}
      Of(t, role) == {e \in kafka : e.site.topic = t /\ e.site.role = role}
      Types(t, role) == {e.site.type : e \in Of(t, role)} \ {NoName}
      Services(t) == {e.service : e \in {x \in kafka : x.site.topic = t}}
      shared == {t \in {e.site.topic : e \in kafka} :
                   Of(t, "produce") # {} /\ Of(t, "consume") # {}}
  IN  {Risk("kafka-message-contract-mismatch", t, Services(t)) :
         t \in {x \in shared : /\ {} \notin {Types(x, "produce"), Types(x, "consume")}
                               /\ Types(x, "produce") # Types(x, "consume")}} \cup
      {Risk("kafka-message-contract-unknown", t, Services(t)) :
         t \in {x \in shared : (Types(x, "produce") = {}) # (Types(x, "consume") = {})}}

CycleRisks(graph) ==
  LET pairs == {<<e.from, e.to>> : e \in {x \in ToSet(graph) : x.kind = "rest"}}
  IN  {Risk("synchronous-rest-cycle", {}, {p[1], p[2]}) :
         p \in {q \in pairs : q[1] # q[2] /\ <<q[2], q[1]>> \in pairs}}

\* A module that starts nothing and still serves, publishes, consumes or stores.
ActivityRisks(w) ==
  LET Sites(m) == IF m \in ToSet(w.services) THEN ToSet(w.endpoints[m]) ELSE {}
      Active(m) == \/ \E e \in Sites(m) : e.system = "kafka" \/ e.role = "serve"
                   \/ w.modules[m].operations # {}
  IN  {Risk("non-runtime-module-activity", {}, {m}) :
         m \in {x \in DOMAIN w.modules : /\ ~w.modules[x].starts
                                         /\ w.modules[x].kind # "aggregator"
                                         /\ Active(x)}}

AssessArchitecture(w, graph) ==
  DynamicRisks(w) \cup OrphanRisks(w, graph) \cup ContractRisks(w)
    \cup CycleRisks(graph) \cup ActivityRisks(w)
=============================================================================

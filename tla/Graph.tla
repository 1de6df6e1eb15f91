------------------------------- MODULE Graph -------------------------------
(***************************************************************************)
(* The service graph that every query derives from the indexed endpoints  *)
(* (src/src/ccc_radar/graph.py); no table of the database holds it.       *)
(*                                                                         *)
(* An endpoint is a record.  Its topic is [verb, path]: the path of a REST *)
(* route is a sequence of segments, a Kafka topic is a path of one name.   *)
(* The evidence that the scanner left in the snippet of a call (the getter *)
(* of a service URL, a host, an lb:// URI, a configured API domain, an     *)
(* external microservice) is a record of names: only what the regular      *)
(* expressions of graph.py extract from the text matters here.             *)
(* A workspace is [services, endpoints]: the services in the order of the  *)
(* dictionary, and the endpoints of each in the order of its database.     *)
(***************************************************************************)
EXTENDS Integers, SequencesExt

CONSTANT HintMatches   \* the pairs <<hint, service>>: the name contains the hint

NoName   == "none"          \* Python's None
Template == "{}"            \* a path parameter: every one matches alike
Deep     == "**"
Dynamic  == <<"<dynamic>">> \* a path that the code computes

\* A set in some order: the code sorts, and no property depends on how.
Enumerate(S) == FoldSet(LAMBDA x, s : Append(s, x), <<>>, S)

-----------------------------------------------------------------------------
SegmentMatches(c, s) == c = s \/ s = Template \/ c = Template

\* Mutant: /** also matches nothing.
CoversItself(pattern, path) ==
  /\ pattern # <<>> /\ Last(pattern) = Deep
  /\ Len(path) >= Len(pattern) - 1
  /\ \A i \in 1 .. Len(pattern) - 1 : SegmentMatches(pattern[i], path[i])

\* The pattern ends in /** and its prefix matches a strictly longer path.
CoversPath(pattern, path) ==
  /\ pattern # <<>> /\ Last(pattern) = Deep
  /\ Len(path) > Len(pattern) - 1
  /\ \A i \in 1 .. Len(pattern) - 1 : SegmentMatches(pattern[i], path[i])

MethodsMatch(call, serve) == call.verb = serve.verb \/ "ANY" \in {call.verb, serve.verb}

PathsMatch(call, serve) ==
  /\ call.path # Dynamic
  /\ MethodsMatch(call, serve)
  /\ call.path # <<>>
  /\ \/ CoversPath(call.path, serve.path)
     \/ CoversPath(serve.path, call.path)
     \/ /\ Len(call.path) = Len(serve.path)
        /\ \A i \in DOMAIN call.path : SegmentMatches(call.path[i], serve.path[i])

\* The service that the call site names; the getter of a URL wins over a
\* literal host, a host over a load-balanced URI, and that over the domain.
TargetHint(call) ==
  LET clues == SelectSeq(<<call.getter, call.host, call.balanced, call.domain>>,
                         LAMBDA n : n # NoName)
  IN  IF clues = <<>> THEN NoName ELSE Head(clues)

MatchesHint(service, hint) == hint = NoName \/ <<hint, service>> \in HintMatches

\* A configured client whose route is not at the call site may call any
\* resource of its host.
ResolvesConfiguredCall(call, serve) ==
  /\ call.dynamic
  /\ call.domain # NoName
  /\ MethodsMatch(call.topic, serve.topic)

-----------------------------------------------------------------------------
\* all_endpoints: service after service, at a place of the loops over them.
AllEndpoints(w) ==
  UNION {LET s == w.services[i]
         IN  {[place |-> <<i, k>>, service |-> s, site |-> w.endpoints[s][k]] :
                k \in DOMAIN w.endpoints[s]} :
         i \in DOMAIN w.services}

Playing(w, system, role) ==
  {e \in AllEndpoints(w) : e.site.system = system /\ e.site.role = role}

\* Mutant: a manifest only adds to what is detected.
ManifestAdds(w) == {e \in AllEndpoints(w) : e.site.system = "kafka"}

\* The Kafka endpoints that count: what a manifest says of a service replaces
\* everything detected in its code.
EffectiveKafka(w) ==
  LET kafka == {e \in AllEndpoints(w) : e.site.system = "kafka"}
      described == {e.service : e \in {x \in kafka : x.site.source = "manifest"}}
  IN  {e \in kafka : e.service \notin described \/ e.site.source = "manifest"}

PlaceBefore(a, b) == a[1] < b[1] \/ (a[1] = b[1] /\ a[2] < b[2])

-----------------------------------------------------------------------------
\* An edge; `via' is what its key in `seen' holds in place of two endpoints.
Edge(kind, from, to, source, target, via) ==
  [kind |-> kind, from |-> from, to |-> to, source |-> source, target |-> target,
   via |-> via]

NoEndpoint == [id |-> ""]
EdgeKey(e) == <<e.kind, e.from, e.to, e.via,
                IF e.via = "resource" THEN <<e.source.id, e.target.id>> ELSE <<>> >>

\* An edge that the loops over one endpoint or two come upon, at their places;
\* the proxy of a gateway only once for each identity of a call and each target.
Offer(from, to, edge, proxy) ==
  [at |-> <<from.place, to.place>>, edge |-> edge,
   once |-> IF proxy THEN {<<edge.source.id, edge.to>>} ELSE {}]

AddOffer(o, acc) ==
  IF o.once \cap acc.proxied # {} THEN acc
  ELSE [edges |-> IF \E e \in ToSet(acc.edges) : EdgeKey(e) = EdgeKey(o.edge) THEN acc.edges
                  ELSE Append(acc.edges, o.edge),
        proxied |-> acc.proxied \cup o.once]

Earlier(o, p) == PlaceBefore(o.at[1], p.at[1]) \/ (o.at[1] = p.at[1] /\ PlaceBefore(o.at[2], p.at[2]))
LastOffer(offers) == CHOOSE o \in offers : \A p \in offers : ~Earlier(o, p)

\* The edges so far, then those that are offered in order, each key once.
AddEdges(edges, offers) ==
  MapThenFoldSet(AddOffer, [edges |-> edges, proxied |-> {}],
                 LAMBDA o : o, LastOffer, offers).edges

\* A call leads to a route of another service; what is kept of a call that is
\* resolved by the configuration of its client is the route.
Reaches(from, to) ==
  /\ from.service # to.service
  /\ MatchesHint(to.service, TargetHint(from.site))
  /\ \/ PathsMatch(from.site.topic, to.site.topic)
     \/ ResolvesConfiguredCall(from.site, to.site)
EffectiveCall(call, serve) ==
  IF PathsMatch(call.topic, serve.topic) THEN call
  ELSE [call EXCEPT !.topic = serve.topic, !.dynamic = FALSE]
Proxy(call) == call.gateway /\ call.topic.verb = "ANY"

\* The REST edges between a call and a route of another service; a gateway
\* keeps one route of each service its catch-all proxy may reach.
ResourceEdges(w) ==
  LET linked == {p \in [from : Playing(w, "rest", "call"), to : Playing(w, "rest", "serve")] :
                   Reaches(p.from, p.to)}
      Resource(p) == Edge("rest", p.from.service, p.to.service,
                          EffectiveCall(p.from.site, p.to.site), p.to.site, "resource")
  IN  AddEdges(<<>>, {Offer(p.from, p.to, Resource(p), Proxy(p.from.site)) : p \in linked})

\* A configured client still depends on its indexed host when no resource of
\* it matches, and a named external microservice is always a target.
ServiceEdges(w, resources) ==
  LET calls == Playing(w, "rest", "call")
      resolved == {<<e.source.id, e.to>> : e \in {x \in ToSet(resources) :
                                                   x.source.domain # NoName}}
      hosted == {c \in calls : /\ c.site.domain \in ToSet(w.services) \ {c.service}
                               /\ <<c.site.id, c.site.domain>> \notin resolved}
      outward == {c \in calls : c.site.external \notin {NoName, c.service}}
      Host(c) == Edge("rest", c.service, c.site.domain, c.site, NoEndpoint, "configured-api")
      Partner(c) == Edge("rest", c.service, c.site.external, c.site, NoEndpoint,
                         "configured-external")
  IN  AddEdges(AddEdges(resources, {Offer(c, c, Host(c), FALSE) : c \in hosted}),
               {Offer(c, c, Partner(c), FALSE) : c \in outward})

TopicEdges(w) ==
  LET kafka == EffectiveKafka(w)
      Part(role) == {e \in kafka : e.site.role = role}
      joined == {p \in [from : Part("produce"), to : Part("consume")] :
                   p.from.service # p.to.service /\ p.from.site.topic = p.to.site.topic}
      Event(p) == Edge("kafka", p.from.service, p.to.service, p.from.site, p.to.site, "resource")
  IN  AddEdges(<<>>, {Offer(p.from, p.to, Event(p), FALSE) : p \in joined})

BuildGraph(w) == ServiceEdges(w, ResourceEdges(w)) \o TopicEdges(w)

\* The REST calls inside the lines of a Kafka handler of the same file.
OutboundCallsInConsumers(endpoints) ==
  LET Of(system, role) == {e \in ToSet(endpoints) : e.system = system /\ e.role = role}
  IN  {p \in Of("kafka", "consume") \X Of("rest", "call") :
         /\ p[2].file = p[1].file
         /\ p[1].first <= p[2].first /\ p[2].first <= p[1].last}

-----------------------------------------------------------------------------
\* What the graph means, without its loops: the reference of GraphIsMeant.
Meant(w, kind, from, to) ==
  LET Sites(s) == ToSet(w.endpoints[s])
      Calls(s) == {e \in Sites(s) : e.system = "rest" /\ e.role = "call"}
      Described(s) == \E e \in Sites(s) : e.system = "kafka" /\ e.source = "manifest"
      Counts(s, role) == {e \in Sites(s) : /\ e.system = "kafka" /\ e.role = role
                                           /\ Described(s) => e.source = "manifest"}
      Known == ToSet(w.services)
  IN  /\ from # to
      /\ \/ /\ kind = "kafka" /\ {from, to} \subseteq Known
            /\ \E p \in Counts(from, "produce"), c \in Counts(to, "consume") :
                 p.topic = c.topic
         \/ /\ kind = "rest" /\ from \in Known
            /\ \E c \in Calls(from) :
                 \/ c.external = to
                 \/ c.domain = to /\ to \in Known
                 \/ /\ to \in Known
                    /\ MatchesHint(to, TargetHint(c))
                    /\ \E s \in Sites(to) : /\ s.system = "rest" /\ s.role = "serve"
                                            /\ \/ PathsMatch(c.topic, s.topic)
                                               \/ ResolvesConfiguredCall(c, s)

\* Another service has a call of the same identity (an id hashes the role, the
\* topic, the path in the repository and the lines, never the service), and it
\* took the one proxy edge of that identity to the target, or it is resolved as
\* the client of the target that both configure.
IdentityTaken(w, from, to, edges) ==
  \E c \in ToSet(w.endpoints[from]), e \in ToSet(edges) :
     /\ e.from # from /\ e.to = to /\ e.source.id = c.id
     /\ \/ Proxy(c) /\ e.source.gateway
        \/ c.domain = to /\ e.source.domain # NoName
=============================================================================

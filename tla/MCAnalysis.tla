----------------------------- MODULE MCAnalysis -----------------------------
(* The inputs of the questions that TLC asks of Analysis, and a page for Page. *)
EXTENDS Exploration

Topic(verb, path) == [verb |-> verb, path |-> path]

MCWords == {"a", "b", Deep}

MCRoutes ==
  {[call |-> Topic(m[1], c), serve |-> Topic(m[2], s)] :
     m \in {<<"GET", "GET">>, <<"ANY", "GET">>, <<"GET", "POST">>},
     c \in Patterns, s \in Patterns}

\* An endpoint without evidence; its identity hashes these four fields.
Site(system, role, topic, file, first) ==
  [id |-> <<role, topic, file, first>>, system |-> system, role |-> role,
   topic |-> topic, file |-> file, first |-> first, last |-> first + 2,
   dynamic |-> FALSE, source |-> "code", gateway |-> FALSE,
   getter |-> NoName, host |-> NoName, balanced |-> NoName, domain |-> NoName,
   external |-> NoName, type |-> NoName, class |-> NoName, properties |-> {}]

Invoice == Topic("GET", <<"invoices", Template>>)
Paid    == Topic("", <<"paid">>)
Refunds == Topic("", <<"refunds">>)
Gateway == [Site("rest", "call", Topic("ANY", <<Deep>>), "application.yml", 1)
              EXCEPT !.gateway = TRUE]
Manifest(s) == [s EXCEPT !.source = "manifest", !.file = "TOPICS.md", !.id[3] = "TOPICS.md"]
Calls(topic, file) == Site("rest", "call", topic, file, 4)
Serves(topic, file) == Site("rest", "serve", topic, file, 4)
Produces(topic, file) == Site("kafka", "produce", topic, file, 8)
Consumes(topic, file) == Site("kafka", "consume", topic, file, 3)

\* What three services may have; the same file holds the same call in two.
OrdersSites ==
  {Gateway, [Calls(Invoice, "Client") EXCEPT !.host = "billing"],
   [Calls(Topic("GET", Dynamic), "Api") EXCEPT !.dynamic = TRUE, !.domain = "billing"],
   Serves(Topic("GET", <<"orders", "1">>), "Web"),
   [Produces(Paid, "Out") EXCEPT !.type = "PaidV1"], Consumes(Refunds, "Client")}
BillingSites ==
  {Serves(Invoice, "Web"), Serves(Topic("POST", <<"invoices">>), "Web2"),
   Manifest(Produces(Refunds, "Out")), Consumes(Paid, "In"),
   Calls(Topic("GET", <<"orders", Deep>>), "Client"),
   [Calls(Topic("GET", Dynamic), "Partner") EXCEPT !.external = "partner"]}
ShipSites ==
  {Gateway, [Calls(Invoice, "Client") EXCEPT !.host = "ship"],
   Serves(Topic("ANY", <<"orders", Template>>), "Web"),
   [Consumes(Paid, "In") EXCEPT !.type = "PaidV2"], Manifest(Consumes(Paid, "In")),
   [Consumes(Refunds, "Dyn") EXCEPT !.dynamic = TRUE],
   [Calls(Topic("GET", Dynamic), "Api") EXCEPT !.dynamic = TRUE, !.domain = "billing",
                                               !.getter = "orders"]}

UpTo2(S) == {{}} \cup {{a, b} : a, b \in S}
UpTo3(S) == {{}} \cup {{a, b, c} : a, b, c \in S}
Few(S) == {Enumerate(T) : T \in UpTo2(S)}

Module(starts, kind) ==
  [starts |-> starts, kind |-> kind, collections |-> {"c", "d"},
   operations |-> {[collection |-> "c", kind |-> "writes", line |-> 5, method |-> "save"]}]
MCModules == [orders |-> Module(TRUE, "service"), billing |-> Module(TRUE, "service"),
              ship |-> Module(FALSE, "library")]

\* Four endpoints in all, two at most in each service.
Inhabited == {x \in Few(OrdersSites) \X Few(BillingSites) \X Few(ShipSites) :
             Len(x[1]) + Len(x[2]) + Len(x[3]) <= 4}
MCWorkspaces ==
  {[services |-> order, modules |-> MCModules,
    endpoints |-> [orders |-> x[1], billing |-> x[2], ship |-> x[3]]] :
     order \in {<<"billing", "orders", "ship">>, <<"ship", "orders">>}, x \in Inhabited}

\* Inventories: events that loop and fork, two routes, a library, a module
\* that was not discovered, and an endpoint of no module.
Shipped == Topic("", <<"shipped">>)
Typed(s) == [s EXCEPT !.type = "Dto", !.class = "Listener", !.properties = {"topic"}]
Pool == {<<"orders", Typed(Produces(Paid, "o/Out"))>>, <<"orders", Consumes(Shipped, "o/In")>>,
         <<"orders", Calls(Invoice, "o/Client")>>, <<"billing", Serves(Invoice, "b/Web")>>,
         <<"billing", Typed(Consumes(Paid, "b/In"))>>, <<"billing", Produces(Shipped, "b/Out")>>,
         <<"billing", Produces(Paid, "b/Out2")>>, <<"billing", Consumes(Shipped, "b/In2")>>,
         <<"orders", Produces(Shipped, "o/Out2")>>, <<"ship", Consumes(Paid, "s/In")>>,
         <<"ship", Consumes(Shipped, "s/In")>>, <<"ship", Produces(Refunds, "s/Out")>>,
         <<"ship", Calls(Invoice, "s/Client")>>, <<"lost", Consumes(Refunds, "l/In")>>,
         <<NoName, Typed(Consumes(Refunds, "In"))>>}

MCInventory(T) ==
  LET listed == Enumerate(T) IN
  [modules |-> MCModules, dependencies |-> {<<"billing", "ship">>},
   endpoints |-> [i \in DOMAIN listed |-> [service |-> listed[i][1], site |-> listed[i][2]]]]
MCInventories == {MCInventory(T) : T \in {x \in SUBSET Pool : Cardinality(x) <= 4}}
Rich == {MCInventory(T) : T \in {x \in SUBSET Pool : Cardinality(x) >= 12}}
\* Chains of events as long as MaxDepth and longer, perhaps with a short cut.
Long == {<<"orders", Produces(Paid, "o/Out")>>, <<"ship", Consumes(Paid, "s/In")>>,
         <<"ship", Produces(Refunds, "s/Out")>>, <<"billing", Consumes(Refunds, "b/In3")>>}
Chained == {MCInventory(Long \cup T) :
              T \in SUBSET {<<"ship", Calls(Invoice, "s/Client")>>,
                            <<"billing", Serves(Invoice, "b/Web")>>}}
MCJourneys == {[inventory |-> i, from |-> "orders", to |-> t] :
                 i \in MCInventories \cup Rich \cup Chained,
                 t \in {"billing", "orders", "ship", "lost"}}
MCTriggers == {[inventory |-> i, topic |-> Paid] : i \in MCInventories \cup Rich}

\* What is exported besides: calls that a host, a domain name or a variable of
\* the build leads to a service with or without endpoints.
Hinted == {<<"orders", [Calls(Invoice, "o/Client2") EXCEPT !.host = "billing"]>>,
           <<"ship", [Calls(Topic("GET", Dynamic), "s/Api") EXCEPT !.dynamic = TRUE,
                                                                   !.domain = "orders"]>>,
           <<"orders", [Calls(Topic("GET", Dynamic), "o/Ext") EXCEPT !.external = "partner"]>>,
           <<"ship", [Consumes(Refunds, "s/Dyn") EXCEPT !.dynamic = TRUE]>>,
           <<"billing", Calls(Topic("GET", <<"nowhere">>), "b/Client")>>}
Needs == {{}, {<<"orders", "billing">>, <<"billing", "orders">>, <<"billing", "ship">>},
          {<<"billing", "ship">>}, {<<"orders", "billing">>, <<"billing", "orders">>},
          {<<"orders", "billing">>, <<"billing", "ship">>, <<"ship", "billing">>},
          {<<"orders", "billing">>, <<"billing", "ship">>, <<"orders", "ship">>}}
\* The declarations of the message types: two that contain each other, one
\* that is declared twice, and one that no message needs.
MCSources == ("Dto" :> {{"Line", "Twice", "String"}}) @@ ("Line" :> {{"Dto"}})
             @@ ("Twice" :> {{"Line"}, {"Dto"}}) @@ ("Alone" :> {{"Dto"}})
MCExported ==
  {[modules |-> i.modules, endpoints |-> i.endpoints, dependencies |-> d, sources |-> MCSources] :
     i \in {MCInventory(T) : T \in UpTo3(Pool \cup Hinted)}, d \in Needs}

MCHintMatches == {<<"billing", "billing">>, <<"ship", "ship">>, <<"orders", "orders">>}

\* Modules one below the other, one of them excluded by its directory and one,
\* perhaps, by its name; the deepest is beyond both depths.
Dirs == {<<>>, <<"a">>, <<"a", "b">>, <<"a", "b", "c">>, <<"a", "test">>}
Artifact(d, mock) == IF d = <<"a">> /\ mock THEN "mocks" ELSE ToString(d)
MCNames == {"a", "b", "c", "test"}
MCTrees ==
  {[maven |-> [d \in poms |-> [artifact |-> Artifact(d, mock), packaging |-> "jar"]],
    gradle |-> [d \in builds |-> [artifact |-> "g" \o ToString(d), build |-> d # <<>> \/ mock]],
    sources |-> Dirs \cup {<<"b">>}, mains |-> mains] :
     poms \in {x \in SUBSET Dirs : Cardinality(x) <= 3},
     builds \in {x \in SUBSET Dirs : Cardinality(x) <= 3},
     mock \in BOOLEAN,
     mains \in {x \in SUBSET {<<"a">>, <<"a", "b">>, <<"a", "b", "c">>} : Cardinality(x) <= 2}}

Ref(n) == [ref |-> TRUE, name |-> n]
Text(n) == [ref |-> FALSE, name |-> n]
\* A chain of n properties, alone or two by two; the last one is a text, is
\* missing, or refers to the first.
MCValues ==
  {[value |-> <<Ref(1), Text(0)>>,
    properties |-> [k \in 1 .. n |->
       IF k = n THEN IF last = 0 THEN <<Text(n)>> ELSE <<Ref(last)>>
       ELSE IF fork /\ k + 1 < n THEN <<Ref(k + 1), Text(k), Ref(k + 2)>> ELSE <<Ref(k + 1)>>]] :
     n \in 1 .. 10, last \in {0, 1, 11}, fork \in BOOLEAN}

-----------------------------------------------------------------------------
\* Property files above a source, a base one and one of a profile beside it,
\* those of a configuration server for two applications, and every way to
\* write a topic; the key "used" is that of a field.
Values_ == {"used" :> "near", AppName :> "orders", ("used" :> "own") @@ (AppName :> "billing")}
PropertyFile(dir, rank) == {[dir |-> dir, rank |-> rank, values |-> v] : v \in Values_}
Server == {[app |-> a, rank |-> r, values |-> "used" :> (a \o ToString(r))] :
             a \in {"orders", "billing"}, r \in 1 .. 2}
Expressions ==
  {[is |-> "text", name |-> "paid", default |-> NoName],
   [is |-> "placeholder", name |-> "used", default |-> NoName],
   [is |-> "placeholder", name |-> "used", default |-> "default"],
   [is |-> "field", name |-> "topic", default |-> NoName],
   [is |-> "field", name |-> "plain", default |-> NoName],
   [is |-> "code", name |-> "compute", default |-> NoName]}
MCConfigurations ==
  {[files |-> files, servers |-> servers, expression |-> e, source |-> source,
    fields |-> [topic |-> "used", plain |-> NoName]] :
     files \in {x \in SUBSET (UNION {PropertyFile(<<>>, 1), PropertyFile(<<"a">>, 1),
                                    PropertyFile(<<"a">>, 2), PropertyFile(<<"b">>, 1)}) :
                  /\ Cardinality(x) <= 3
                  /\ \A f, g \in x : f.dir = g.dir /\ f.rank = g.rank => f = g},
     servers \in SUBSET Server, e \in Expressions, source \in {<<"a">>, <<"a", "c">>}}

MCGatewayRoutes ==
  {[balanced |-> b, paths |-> paths, strip |-> n] :
     b \in BOOLEAN, n \in 0 .. 3, paths \in {{p} : p \in Patterns}
       \cup {{<<"a", Deep>>, <<"b", Template, "a">>}, {<<"a", "b">>, <<"b", "b">>}}}

\* Configured clients: one bean that names two services, another the same.
Bean(name, type, factories) == [name |-> name, type |-> type, factories |-> factories]
Beans == {Bean("billingApi", "BillingApi", {{"billing"}}), Bean("billingApi", "Api", {{"orders"}}),
          Bean("ordersApi", "Api", {{"orders"}, {"orders", "billing"}}),
          Bean("ordersApi", "OrdersApi", {{"orders"}, {"ship"}}), Bean("shipApi", NoName, {{}})}
MCCallers ==
  LET trees == {[builds |-> builds, configs |-> (<<"a">> :> near) @@ (<<"a", "b">> :> nested)
                                         @@ (<<"c">> :> {Bean("billingApi", "Api", {{"c"}})})] :
                  builds \in SUBSET {<<>>, <<"a">>, <<"a", "b">>},
                  near \in UpTo2(Beans), nested \in {{}} \cup {{b} : b \in Beans}}
      calls == [dir : {<<"a">>, <<"a", "b">>, <<"c">>}, receiver : {"billingApi", "ordersApi", "other"},
                type : {NoName, "Api", "BillingApi"}]
  IN  [tree : trees, call : calls]

\* What ccc found, and what it prints of it: the content of the last hit looks
\* like what is printed.
Line == [is |-> "text", path |-> NoPath_]
Hits == {[path |-> "A", content |-> <<Line>>], [path |-> "B", content |-> <<>>],
         [path |-> "A", content |-> <<Line, Header, Line>>],
         [path |-> "B", content |-> <<Header, FileLine("A"), Line>>]}
Finding(path, severity) == [path |-> path, severity |-> severity]
MCQueries ==
  {[installed |-> on[1], refresh |-> on[2], indexed |-> on[3], outcome |-> outcome,
    hits |-> hits, findings |-> findings, findingsIndexed |-> known,
    output |-> before \o FlattenSeq([i \in DOMAIN hits |->
                  <<Header, FileLine(hits[i].path)>> \o hits[i].content])] :
     on \in BOOLEAN \X BOOLEAN \X BOOLEAN, outcome \in {"ended", "failed", "late"},
     hits \in BoundedSeq(Hits, 2), before \in {<<>>, <<Line>>}, known \in BOOLEAN,
     findings \in SUBSET {Finding("A", "INFO"), Finding("A", "ERROR"), Finding("B", "WARNING")}}

\* Boxes anywhere near each other: the first three may be linked.
BoxNames == <<"s1", "s2", "t1", "i1", "i2">>
MCDrawings ==
  {[boxes |-> SubSeq(BoxNames, 1, n), edges |-> edges,
    kind |-> [b \in ToSet(BoxNames) |-> IF b = "t1" THEN "topic" ELSE "microservice"],
    size |-> [b \in ToSet(BoxNames) |-> IF b \in {"s1", "i2"} THEN <<4, 2>> ELSE <<2, 3>>],
    places |-> [b \in ToSet(BoxNames) |-> IF b \in DOMAIN places THEN places[b] ELSE <<0, 0>>]] :
     n \in 3 .. 5, edges \in SUBSET {{"s1", "s2"}, {"s1", "t1"}, {"s2", "t1"}},
     places \in [{"s1", "s2", "t1"} -> {0, 3} \X {0, 1, 9}]}

-----------------------------------------------------------------------------
\* A page: billing serves two routes to orders, so that one link carries both;
\* a collection of orders has the name of a topic.
Ledger == Topic("", <<"ledger">>)
Explored ==
  [services |-> <<"billing", "orders", "ship", "yard">>,
   modules |-> [s \in {"orders"} |-> [Module(TRUE, "service") EXCEPT !.collections = {"ledger"}]],
   endpoints |->
     [billing |-> <<Serves(Invoice, "b/Web"), Serves(Topic("POST", <<"invoices">>), "b/Web2"),
                    Consumes(Paid, "b/In"), Produces(Ledger, "b/Out"),
                    Calls(Topic("GET", <<"parcels">>), "b/Client")>>,
      orders |-> <<Calls(Invoice, "o/Client"), Calls(Topic("POST", <<"invoices">>), "o/Client2"),
                   Produces(Paid, "o/Out"), Serves(Topic("GET", <<"orders">>), "o/Web")>>,
      ship |-> <<Consumes(Ledger, "s/In"), Serves(Topic("GET", <<"parcels">>), "s/Web"),
                 Consumes(Paid, "s/In2"), Calls(Topic("GET", <<"orders">>), "s/Client")>>,
      yard |-> <<>>]]
Alphabet == <<"billing", "ledger", "orders", "paid", "ship", "yard">>
Letter(name) == CHOOSE i \in DOMAIN Alphabet : Alphabet[i] = name

\* What the page draws of a workspace, from what is exported of it.
DrawnOf(w, nodes, links) ==
  LET OfKind(k) == SetToSortSeq({n \in DOMAIN nodes : n[1] = k}, LAMBDA a, b :
                                  Letter(nodes[a].name) < Letter(nodes[b].name)) IN
  [nodes |-> OfKind("microservice") \o OfKind("topic") \o OfKind("collection"),
   kind |-> [n \in DOMAIN nodes |-> nodes[n].kind],
   key |-> [n \in DOMAIN nodes |-> nodes[n].name],
   links |-> [i \in DOMAIN links |->
                [source |-> links[i].source, target |-> links[i].target,
                 kind |-> links[i].kind, resources |-> {x[2] : x \in links[i].label}]],
   resources |-> [n \in DOMAIN nodes |->
                    IF n[1] # "microservice" THEN {}
                    ELSE {e.topic : e \in {x \in ToSet(w.endpoints[n[3]]) :
                                             x.system = "rest" /\ x.role = "serve"}}],
   rank |-> [n \in DOMAIN nodes |-> Letter(nodes[n].name)]]
DrawnWith(w, edges) == DrawnOf(w, PageNodes(w, edges), PageLinks(w, edges))

\* The same, written down: the page refers to it again and again.
At(s) == <<"microservice", NoName, s>>
On(topic) == <<"topic", NoName, topic>>
Stored == <<"collection", "orders", "ledger">>
Bills == {Invoice, Topic("POST", <<"invoices">>)}
Parcels == {Topic("GET", <<"parcels">>)}
Ordered == {Topic("GET", <<"orders">>)}
Link(source, kind, target, resources) ==
  [source |-> source, kind |-> kind, target |-> target, resources |-> resources]

MCDrawnNodes == <<At("billing"), At("orders"), At("ship"), At("yard"), On(Ledger), On(Paid), Stored>>
MCDrawnLinks ==
  <<Link(At("billing"), "rest", At("ship"), Parcels),
    Link(At("orders"), "rest", At("billing"), Bills),
    Link(At("ship"), "rest", At("orders"), Ordered),
    Link(At("billing"), "kafka", On(Ledger), {Ledger}),
    Link(On(Ledger), "kafka", At("ship"), {Ledger}),
    Link(At("orders"), "kafka", On(Paid), {Paid}),
    Link(On(Paid), "kafka", At("billing"), {Paid}),
    Link(On(Paid), "kafka", At("ship"), {Paid}),
    Link(At("orders"), "mongodb", Stored, {})>>
MCDrawnKind ==
  (At("billing") :> "microservice") @@ (At("orders") :> "microservice")
  @@ (At("ship") :> "microservice") @@ (At("yard") :> "microservice") @@ (On(Ledger) :> "topic") @@ (On(Paid) :> "topic")
  @@ (Stored :> "collection")
MCDrawnKey ==
  (At("billing") :> "billing") @@ (At("orders") :> "orders") @@ (At("ship") :> "ship")
  @@ (At("yard") :> "yard") @@ (On(Ledger) :> "ledger") @@ (On(Paid) :> "paid") @@ (Stored :> "ledger")
MCDrawnRank ==
  (At("billing") :> 1) @@ (At("orders") :> 3) @@ (At("ship") :> 5) @@ (At("yard") :> 6)
  @@ (On(Ledger) :> 2) @@ (On(Paid) :> 4) @@ (Stored :> 2)
MCDrawnResources ==
  (At("billing") :> Bills) @@ (At("orders") :> Ordered) @@ (At("ship") :> Parcels)
  @@ (At("yard") :> {}) @@ (On(Ledger) :> {}) @@ (On(Paid) :> {}) @@ (Stored :> {})
ASSUME DrawnIsExported ==
  DrawnWith(Explored, BuildGraph(Explored)) =
    [nodes |-> MCDrawnNodes, links |-> MCDrawnLinks, kind |-> MCDrawnKind, key |-> MCDrawnKey,
     rank |-> MCDrawnRank, resources |-> MCDrawnResources]

MCTexts == {<<"orders", "ship">>, <<"orders", "billing", "ship">>, <<"ship", "paid">>}
MCSearches == {{}, ToSet(MCDrawnNodes), {n \in ToSet(MCDrawnNodes) : n[1] = "topic"}}
MCFragments ==
  {NoFragment, [NoFragment EXCEPT !.stops = <<At("orders"), At("gone"), At("ship")>>],
   [NoFragment EXCEPT !.stops = <<At("orders"), At("ship")>>, !.lock = TRUE],
   [NoFragment EXCEPT !.stops = <<At("orders"), At("yard")>>, !.lock = TRUE],
   [NoFragment EXCEPT !.selected = At("gone")]}
=============================================================================

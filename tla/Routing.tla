------------------------------ MODULE Routing ------------------------------
(***************************************************************************)
(* The questions of which service a request reaches: whether a call fits a *)
(* route, what a route of a gateway leads to, which service a configured   *)
(* client calls, and the graph of all services that is made of these.      *)
(***************************************************************************)
EXTENDS Scan, Questions

CONSTANTS Words,          \* the segments that patterns and requests are made of
          MaxSegments,    \* bound: the segments of a pattern or of a request
          Routes,         \* the inputs [call, serve] of paths_match
          GatewayRoutes,  \* [balanced, paths, strip]
          Callers,        \* [tree, call]
          Workspaces      \* the inputs of the graphs

Patterns == BoundedSeq(Words \cup {Template}, MaxSegments)

SiteFields == {"id", "system", "role", "topic", "dynamic", "source", "gateway",
               "domain", "external"}

\* The endpoints of a service have distinct identities: they are the rows of a
\* table that has the identity as its primary key.
IsWorkspace(w) ==
  /\ w.services \in Seq(ToSet(w.services)) /\ NoName \notin ToSet(w.services)
  /\ \A s \in ToSet(w.services) :
       /\ w.endpoints[s] \in Seq(ToSet(w.endpoints[s]))
       /\ \A e \in ToSet(w.endpoints[s]) : SiteFields \subseteq DOMAIN e
       /\ \A e, f \in ToSet(w.endpoints[s]) : e.id = f.id => e = f

\* A directory is a sequence of names; a configured client is in one.  There
\* are finitely many beans, of a finite text each, and a key in one is a name.
IsCaller(c) ==
  LET dirs == {c.call.dir} \cup c.tree.builds \cup DOMAIN c.tree.configs
      beans == UNION {c.tree.configs[d] : d \in DOMAIN c.tree.configs}
  IN  /\ dirs \subseteq Seq(UNION {ToSet(d) : d \in dirs})
      /\ IsFiniteSet(beans)
      /\ \A b \in beans : /\ IsFiniteSet(b.factories)
                          /\ \A keys \in b.factories : IsFiniteSet(keys) /\ NoName \notin keys

ASSUME RoutingAssumption ==
  /\ MaxSegments \in Nat
  /\ Deep \in Words /\ Template \notin Words /\ Dynamic[1] \notin Words
  /\ \A r \in Routes : {r.call.path, r.serve.path} \subseteq Patterns
  /\ \A g \in GatewayRoutes : g.strip \in Nat /\ g.paths \subseteq Patterns
  /\ \A w \in Workspaces : IsWorkspace(w)
  /\ \A c \in Callers : IsCaller(c)

RoutingInit ==
  \/ Ask("paths", Routes) \/ Ask("gateway", GatewayRoutes)
  \/ Ask("client", Callers) \/ Ask("graph", Workspaces)

MatchPaths == Answer("paths", PathsMatch(about.call, about.serve))
ScanGateway == Answer("gateway", GatewayEndpoints(about))
HintClient == Answer("client", DomainHint(about.tree, about.call))
GraphServices == Answer("graph", BuildGraph(about))

RoutingNext == MatchPaths \/ ScanGateway \/ HintClient \/ GraphServices

RoutingSpec == RoutingInit /\ [][RoutingNext]_vars

-----------------------------------------------------------------------------
\* The concrete paths that a pattern stands for, up to MaxSegments segments: a
\* parameter is any segment, and a final ** is one segment or more.
Language ==
  [p \in Patterns |->
     LET deep == p # <<>> /\ Last(p) = Deep
         fixed == IF deep THEN Len(p) - 1 ELSE Len(p)
     IN  {x \in BoundedSeq(Words, MaxSegments) :
            /\ IF deep THEN Len(x) > fixed ELSE Len(x) = fixed
            /\ \A i \in 1 .. fixed : p[i] \in {Template, x[i]}}]

\* A call and a route match exactly when some concrete request fits both and
\* the methods agree or one of them is ANY (graph.py:203-233), except that a call
\* without any segment matches nothing.  A call with fewer segments than the route
\* matches it only by a final **.
PathsOverlap ==
  Answered("paths") =>
    (answer <=> /\ MethodsMatch(about.call, about.serve)
                /\ about.call.path # <<>>
                /\ Language[about.call.path] \cap Language[about.serve.path] # {})

\* A gateway serves the paths of a balanced route.  When fewer segments are
\* stripped than the path has, each request that fits the path has its tail in a
\* call, and each call stands for tails of such requests only; when all of them
\* are stripped the call is the empty path, which no route answers, although the
\* longer requests that a final ** lets through are forwarded with a tail
\* (scanner.py:1863-1868).
GatewaysForward ==
  Answered("gateway") =>
    LET Played(role) == {e.topic.path : e \in {x \in answer : x.role = role}}
        TailOf(x) == SubSeq(x, about.strip + 1, Len(x))
        Requests(p) == {x \in Language[p] : Len(x) > about.strip}
        Meets(c, r) == PathsMatch([verb |-> "ANY", path |-> c], r.serve)
    IN  /\ Played("serve") = IF about.balanced THEN about.paths ELSE {}
        /\ \A p \in Played("serve") :
             IF Len(p) > about.strip
             THEN \A x \in Requests(p) : \E c \in Played("call") : TailOf(x) \in Language[c]
             ELSE \E c \in Played("call") : Len(c) = 0 /\ \A r \in Routes : ~Meets(c, r)
        /\ \A c \in Played("call") : \A y \in Language[c] :
             IF Len(c) = 0 THEN \E p \in Played("serve") : Len(p) <= about.strip
             ELSE Len(y) + about.strip <= MaxSegments =>
                    \E p \in Played("serve") : \E x \in Requests(p) : TailOf(x) = y

\* The requests of the services and of the gateways reach what they fit.
RequestsAreRouted == PathsOverlap /\ GatewaysForward

-----------------------------------------------------------------------------
\* The service that a configured client calls is known exactly when the beans
\* that fit it, in or below the nearest directory with a build file, agree on
\* one domain; a bean that names several tells nothing.
ClientsAreUnambiguous ==
  Answered("client") =>
    LET tree == about.tree
        Holds(root, dir) == IsPrefix(root, dir)
        project == {d \in tree.builds \cup {<<>>} :
                      /\ Holds(d, about.call.dir)
                      /\ \A x \in tree.builds : Holds(x, about.call.dir) => Holds(x, d)}
        fitting == {b \in UNION {tree.configs[d] : d \in DOMAIN tree.configs} :
                      /\ \E d \in DOMAIN tree.configs, p \in project :
                            b \in tree.configs[d] /\ Holds(p, d)
                      /\ \/ b.name = about.call.receiver
                         \/ b.type = about.call.type /\ b.type # NoName}
        Named(b) == {k \in UNION b.factories : {k} \in b.factories}
        agreed == UNION {Named(b) : b \in {x \in fitting : Cardinality(Named(x)) = 1}}
    IN  IF Cardinality(agreed) = 1 THEN {answer} = agreed ELSE answer = NoName

-----------------------------------------------------------------------------
Kinds == {"rest", "kafka"}

\* Two services are joined by an edge of a kind exactly when an endpoint of
\* each gives a reason to; the only edges that may be missing are those of a
\* gateway or of a configured client whose call has the identity of a call of
\* another service.
GraphIsMeant ==
  Answered("graph") =>
    LET joined == {<<e.kind, e.from, e.to>> : e \in ToSet(answer)}
        targets == ToSet(about.services) \cup {e.to : e \in ToSet(answer)}
                     \cup {e.site.external : e \in AllEndpoints(about)}
        meant == {k \in Kinds \X ToSet(about.services) \X (targets \ {NoName}) :
                    Meant(about, k[1], k[2], k[3])}
    IN  /\ joined \subseteq meant
        /\ \A k \in meant \ joined : k[1] = "rest" /\ IdentityTaken(about, k[2], k[3], answer)
=============================================================================

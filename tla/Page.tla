-------------------------------- MODULE Page --------------------------------
(***************************************************************************)
(* The interactive page of the export: the script that render.py embeds in *)
(* it.  A handler is an operator from the state of the page to the next    *)
(* one, as it runs to its end; a refresh keeps the URL fragment and the    *)
(* local storage and runs the script again.                                *)
(*                                                                         *)
(* The names that are typed and displayed are their normalised keys.  The  *)
(* node filters only hide what is drawn; the type and contract viewers,    *)
(* the legend, the tabs and the camera change nothing else and are left    *)
(* out.  A text that is typed has no effect before it is searched.         *)
(***************************************************************************)
EXTENDS Integers, SequencesExt, FiniteSetsExt, Functions

CONSTANTS
  DrawnNodes,       \* the embedded data: the nodes, in the order of the page,
  DrawnLinks,       \* the links [source, kind, target, resources], and of each node
  DrawnKind,        \* its kind,
  DrawnKey,         \* the normalised key of its name,
  DrawnRank,        \* the place of its name in the alphabet,
  DrawnResources,   \* and the resources that its details offer to focus
  Texts,            \* what is typed in the path field: sequences of keys
  Searches,         \* what is searched: the nodes whose name includes the text
  Fragments,        \* the fragments of the URL when the page is first opened
  Filters,          \* the filters that are changed: relations, or "node"
  ChosenPresets,    \* the presets that are chosen
  Layouts,          \* the layouts that the toolbar offers
  FirstLayout,      \* the one that is applied when the page is loaded
  MaxSimplePathDepth, MaxSimplePaths, MaxExplorations,
  MaxHistory,       \* bound: the paths that the history holds
  MaxRequests       \* bound: the layouts that are asked for

ASSUME PageAssumption ==
  /\ {MaxSimplePathDepth, MaxSimplePaths, MaxExplorations, MaxHistory, MaxRequests} \subseteq Nat
  /\ FirstLayout \in Layouts

VARIABLES page,     \* the exploration of the graph
          layout    \* the computation of the positions
pageVars == <<page, layout>>

GraphNodes == DrawnNodes           \* graphData
GraphLinks == DrawnLinks
NodeKind == DrawnKind
NodeKey == DrawnKey
NodeRank == DrawnRank
Resources == DrawnResources

NoNode == <<"none", "none", "none">>
Ids == ToSet(GraphNodes)
Links == DOMAIN GraphLinks
Relations == {"rest", "kafka", "mongodb"}

NoPath == [nodes |-> <<>>, links |-> <<>>]
Details(shows, path, choices) ==
  [shows |-> shows, path |-> path, choices |-> choices, limited |-> FALSE]
Message(shows) == Details(shows, NoPath, {})
NoFragment == [stops |-> <<>>, lock |-> FALSE, selected |-> NoNode]

Fresh ==
  [filters |-> Relations, preset |-> "all", selected |-> NoNode, related |-> {},
   edges |-> {}, order |-> <<>>, stops |-> <<>>, query |-> <<>>, lock |-> FALSE,
   details |-> Message("empty"), url |-> NoFragment, history |-> <<>>]

Microservice(n) == NodeKind[n] = "microservice"
VisibleLinks(v) == {i \in Links : GraphLinks[i].kind \in v.filters}
EndsOf(links) == {GraphLinks[i].source : i \in links} \cup {GraphLinks[i].target : i \in links}
KeysOf(stops) == [i \in DOMAIN stops |-> NodeKey[stops[i]]]

-----------------------------------------------------------------------------
\* The search of paths over the visible relations.
Steps(v, n) == SelectSeq([i \in Links |-> i],
                         LAMBDA i : i \in VisibleLinks(v) /\ GraphLinks[i].source = n)

\* shortestPath: breadth first, in the order of the links; the chain of the
\* previous steps of a node is the sequence of its links.
ShortestPath(v, source, target) ==
  LET Reach(st, i) ==
        LET end == GraphLinks[i].target
        IN  IF end \in DOMAIN st.chain THEN st
            ELSE [queue |-> Append(st.queue, end),
                  chain |-> st.chain @@ (end :> Append(st.chain[GraphLinks[i].source], i))]
      Cursor[k \in 0 .. Len(GraphNodes)] ==
        IF k = 0 THEN [queue |-> <<source>>, chain |-> source :> <<>>]
        ELSE LET st == Cursor[k - 1]
             IN  IF k > Len(st.queue) \/ target \in ToSet(SubSeq(st.queue, 1, k)) THEN st
                 ELSE FoldLeft(Reach, st, Steps(v, st.queue[k]))
      chain == Cursor[Len(GraphNodes)].chain
  IN  IF target \notin DOMAIN chain THEN NoPath
      ELSE [nodes |-> <<source>> \o [i \in DOMAIN chain[target] |->
                                       GraphLinks[chain[target][i]].target],
            links |-> chain[target]]

ShortestPathThrough(v, stops) ==
  LET segments == [i \in 1 .. Len(stops) - 1 |-> ShortestPath(v, stops[i], stops[i + 1])]
  IN  IF NoPath \in ToSet(segments) THEN NoPath
      ELSE [nodes |-> <<stops[1]>> \o FlattenSeq([i \in DOMAIN segments |-> Tail(segments[i].nodes)]),
            links |-> FlattenSeq([i \in DOMAIN segments |-> segments[i].links])]

\* allSimplePaths: one step to each target, by name, as many paths and
\* explorations as are allowed; the order in which they are shown is left out.
AllSimplePaths(v, source, target) ==
  LET FirstStep(steps, i) ==
        IF \E j \in ToSet(steps) : GraphLinks[j].target = GraphLinks[i].target
        THEN steps ELSE Append(steps, i)
      Sorted(n) == FoldLeft(FirstStep, <<>>,
                            SetToSortSeq(ToSet(Steps(v, n)), LAMBDA i, j :
                              LET Rank(l) == NodeRank[GraphLinks[l].target]
                              IN  Rank(i) < Rank(j) \/ (Rank(i) = Rank(j) /\ i < j)))
      Explore(st, candidate, i) ==
        LET end == GraphLinks[i].target
            next == [nodes |-> Append(candidate.nodes, end), links |-> Append(candidate.links, i)]
        IN  IF st.limited \/ end \in ToSet(candidate.nodes) THEN st
            ELSE IF st.explorations >= MaxExplorations THEN [st EXCEPT !.limited = TRUE]
            ELSE LET counted == [st EXCEPT !.explorations = @ + 1]
                 IN  IF end = target THEN [counted EXCEPT !.paths = @ \cup {next}]
                     ELSE [counted EXCEPT !.queue = Append(@, next)]
      Cursor[k \in 0 .. MaxExplorations + 1] ==
        IF k = 0 THEN [queue |-> <<[nodes |-> <<source>>, links |-> <<>>]>>, paths |-> {},
                       explorations |-> 0, limited |-> FALSE]
        ELSE LET st == Cursor[k - 1]
             IN  IF \/ st.limited \/ k > Len(st.queue) \/ Cardinality(st.paths) >= MaxSimplePaths
                    \/ Len(st.queue[k].links) >= MaxSimplePathDepth
                 THEN st
                 ELSE FoldLeft(LAMBDA s, i : Explore(s, st.queue[k], i), st,
                               Sorted(Last(st.queue[k].nodes)))
      end == Cursor[MaxExplorations + 1]
  IN  [paths |-> end.paths,
       limited |-> end.limited \/ Cardinality(end.paths) >= MaxSimplePaths]

-----------------------------------------------------------------------------
\* parsePathQuery: every name is that of one node, which suits its place.
Candidates(name) == {n \in Ids : NodeKey[n] = name}
StopsFit(stops) ==
  /\ Len(stops) >= 2
  /\ Microservice(stops[1]) /\ Microservice(Last(stops))
  /\ \A i \in 2 .. Len(stops) - 1 : NodeKind[stops[i]] \in {"microservice", "topic"}
  /\ IsInjective(stops)
ParsedStops(v) == [i \in DOMAIN v.query |-> CHOOSE n \in Candidates(v.query[i]) : TRUE]
Parses(v) ==
  /\ Len(v.query) >= 2
  /\ \A i \in DOMAIN v.query : Cardinality(Candidates(v.query[i])) = 1
  /\ StopsFit(ParsedStops(v))

\* isValidPathStops
IsValidPathStops(stops) == ToSet(stops) \subseteq Ids /\ StopsFit(stops)

PersistAll(v) ==     \* a mutant: the selection is kept beside the path
  [v EXCEPT !.url = [stops |-> IF v.selected = NoNode THEN v.stops ELSE <<>>,
                     lock |-> v.lock, selected |-> v.selected]]

\* persistState
Persist(v) ==
  [v EXCEPT !.url = [stops |-> v.stops, lock |-> v.lock,
                     selected |-> IF v.stops = <<>> THEN v.selected ELSE NoNode]]

ClearPathControls(v) == [v EXCEPT !.stops = <<>>, !.query = <<>>]
Unselect(v) == [v EXCEPT !.selected = NoNode, !.related = {}, !.edges = {}, !.order = <<>>]

RememberAnalyzedPath(v) ==
  [v EXCEPT !.history = <<v.stops>> \o SelectSeq(v.history, LAMBDA s : s # v.stops)]

ShowPath(v, path, stops) ==
  Persist(RememberAnalyzedPath(
    [v EXCEPT !.stops = stops, !.query = KeysOf(stops), !.selected = path.nodes[1],
              !.related = ToSet(path.nodes), !.edges = ToSet(path.links),
              !.order = SelectSeq(path.nodes, Microservice),
              !.details = Details("path", path, {})]))

\* What both searches do when the field does not name a path.
RejectQuery(v) ==
  Persist([Unselect(v) EXCEPT !.stops = <<>>, !.details = Message("message")])

\* showShortestPath: without any path the stops stay as they were.
ShowShortestPath(v) ==
  IF ~Parses(v) THEN RejectQuery(v)
  ELSE LET stops == ParsedStops(v)
           path == ShortestPathThrough(v, stops)
       IN  IF path = NoPath THEN Persist([Unselect(v) EXCEPT !.details = Message("message")])
           ELSE ShowPath(v, path, stops)

\* showSimplePaths
ShowSimplePaths(v) ==
  IF ~Parses(v) THEN RejectQuery(v)
  ELSE IF Len(v.query) # 2 THEN [v EXCEPT !.details = Message("message")]
  ELSE LET stops == ParsedStops(v)
           simple == AllSimplePaths(v, stops[1], stops[2])
           shown == IF simple.paths = {} THEN Message("message")
                    ELSE [Details("choices", NoPath, simple.paths) EXCEPT
                            !.limited = simple.limited]
       IN  Persist([Unselect(v) EXCEPT !.stops = <<>>, !.details = shown])

ReplayAnalyzedPath(v, stops) ==
  ShowShortestPath([v EXCEPT !.stops = stops, !.query = KeysOf(stops)])

\* focusNodeRelations and selectNode
FocusNodeRelations(v, n, links) ==
  LET w == IF v.lock THEN v ELSE ClearPathControls(v)
  IN  Persist([w EXCEPT !.order = <<>>, !.selected = n, !.related = {n} \cup EndsOf(links),
                        !.edges = links, !.details = Message("node")])
Touching(links, n) == {i \in links : n \in EndsOf({i})}
SelectNode(v, n) == FocusNodeRelations(v, n, Touching(VisibleLinks(v), n))

\* focusPublishedRestResource: the label of a link that carries several
\* resources is none of them.
Carriers(n, r) == {i \in Links : /\ GraphLinks[i].kind = "rest" /\ GraphLinks[i].target = n
                                 /\ r \in GraphLinks[i].resources}
FocusPublishedRestResource(v, n, r) ==
  FocusNodeRelations(v, n, {i \in Carriers(n, r) \cap VisibleLinks(v) :
                              GraphLinks[i].resources = {r}})

Reset(v) ==
  Persist(ClearPathControls(
    [Unselect(v) EXCEPT !.preset = IF @ = "selection" THEN "all" ELSE @,
                        !.details = Message("empty")]))

\* applyRelationPreset: the selection is isolated again, whatever was shown;
\* without one, ChoosePreset also asks for it in the line of status.
Presets == [all |-> Relations, http |-> {"rest"}, kafka |-> {"kafka"}, mongodb |-> {"mongodb"}]
ApplyRelationPreset(v, preset) ==
  IF preset # "selection"
  THEN Reset([v EXCEPT !.filters = Presets[preset], !.preset = preset])
  ELSE LET w == [v EXCEPT !.filters = Relations, !.preset = preset]
           links == Touching(Links, v.selected)
       IN  IF v.selected = NoNode THEN Reset([w EXCEPT !.preset = "all"])
           ELSE [w EXCEPT !.related = {v.selected} \cup EndsOf(links), !.edges = links]

\* The script from the start: loadAnalyzedPaths, then restoreState.
Load(fragment, stored) ==
  LET v == [Fresh EXCEPT !.lock = fragment.lock, !.url = fragment,
                         !.history = SelectSeq(stored, IsValidPathStops)]
      stops == fragment.stops
  IN  IF /\ Len(stops) >= 2 /\ ToSet(stops) \subseteq Ids
         /\ Microservice(stops[1]) /\ Microservice(Last(stops))
      THEN ShowShortestPath([v EXCEPT !.stops = stops, !.query = KeysOf(stops)])
      ELSE IF fragment.selected \in Ids THEN SelectNode(v, fragment.selected)
      ELSE v

-----------------------------------------------------------------------------
\* The layouts.  An asynchronous handler waits for the two libraries; the
\* requests that wait are resumed in order, before any other event.
Announce(says, name) == [says |-> says, name |-> name]
LayoutLoaded ==
  [request |-> 1, waiting |-> <<<<1, FirstLayout>>>>, libraries |-> "loading",
   active |-> FirstLayout, positions |-> "initial", status |-> Announce("computing", FirstLayout)]
AskSelection == layout' = [layout EXCEPT !.status = Announce("select", "none")]

Quiet == layout.libraries = "loading" \/ layout.waiting = <<>>

\* applyLayout until its await
ApplyLayout(name) ==
  /\ Quiet
  /\ layout.request < MaxRequests
  /\ layout' = [layout EXCEPT !.request = @ + 1, !.active = name,
                              !.waiting = Append(@, <<layout.request + 1, name>>),
                              !.status = Announce("computing", name)]

ReceiveLibraries ==
  /\ layout.libraries = "loading"
  /\ \E outcome \in {"loaded", "failed"} : layout' = [layout EXCEPT !.libraries = outcome]

ResumeLate ==            \* a mutant: every request that waited computes
  LET asked == Head(layout.waiting)
  IN  /\ ~Quiet
      /\ layout' = [layout EXCEPT !.waiting = Tail(@), !.positions = asked[2],
                                  !.status = Announce("active", asked[2])]

\* applyLayout from its await: only the last request computes anything.
ResumeLayout ==
  LET asked == Head(layout.waiting)
      left == [layout EXCEPT !.waiting = Tail(@)]
  IN  /\ ~Quiet
      /\ \/ /\ asked[1] # layout.request
            /\ layout' = left
         \/ /\ asked[1] = layout.request /\ layout.libraries = "failed"
            /\ layout' = [left EXCEPT !.status = Announce("unavailable", asked[2])]
         \/ /\ asked[1] = layout.request /\ layout.libraries = "loaded"
            /\ \/ layout' = [left EXCEPT !.positions = asked[2],
                                         !.status = Announce("active", asked[2])]
               \/ layout' = [left EXCEPT !.positions = "initial",
                                         !.status = Announce("failed", asked[2])]

-----------------------------------------------------------------------------
\* What the reader of the page does.
Becomes(v) == Quiet /\ Len(v.history) <= MaxHistory /\ page' = v

ClickNode == \E n \in Ids : Becomes(SelectNode(page, n))
FollowRelation ==
  /\ page.details.shows = "node"
  /\ \E n \in EndsOf(Touching(VisibleLinks(page), page.selected)) : Becomes(SelectNode(page, n))
FocusResource ==
  /\ page.details.shows = "node"
  /\ \E r \in Resources[page.selected] :
       Becomes(FocusPublishedRestResource(page, page.selected, r))
ResetView == Becomes(Reset(page))

\* The first node that the text is a part of: of the empty one, the first.
Search ==
  \E found \in Searches :
    Becomes(IF found = {} THEN page
            ELSE SelectNode(page, SelectSeq(GraphNodes, LAMBDA n : n \in found)[1]))

ChangeFilter ==
  \E k \in Filters :
    Becomes(Reset([page EXCEPT !.preset = "none",
                               !.filters = IF k \in @ THEN @ \ {k} ELSE @ \cup ({k} \cap Relations)]))
ChoosePreset ==
  \E p \in ChosenPresets :
    /\ Becomes(ApplyRelationPreset(page, p))
    /\ IF p = "selection" /\ page.selected = NoNode THEN AskSelection ELSE UNCHANGED layout
ToggleLock == Becomes(Persist([page EXCEPT !.lock = ~@]))

FindPath ==
  \E text \in Texts \cup {page.query} : Becomes(ShowShortestPath([page EXCEPT !.query = text]))
FindSimplePaths ==
  \E text \in Texts \cup {page.query} : Becomes(ShowSimplePaths([page EXCEPT !.query = text]))
ChooseSimplePath == \E p \in page.details.choices : Becomes(ShowPath(page, p, p.nodes))

Replay == \E k \in DOMAIN page.history : Becomes(ReplayAnalyzedPath(page, page.history[k]))
ForgetPath == \E k \in DOMAIN page.history : Becomes([page EXCEPT !.history = RemoveAt(@, k)])
SelectDependencyModule == Becomes([page EXCEPT !.details = Message("module")])

\* The script from the start: the positions are computed again.
Refresh == Quiet /\ page' = Load(page.url, page.history) /\ layout' = LayoutLoaded

PageInit ==
  /\ \E f \in Fragments : page = Load(f, <<>>)
  /\ layout = LayoutLoaded

ExploreGraph ==
  /\ \/ ClickNode \/ FollowRelation \/ FocusResource \/ ResetView \/ Search
     \/ ChangeFilter \/ ToggleLock
     \/ FindPath \/ FindSimplePaths \/ ChooseSimplePath
     \/ Replay \/ ForgetPath \/ SelectDependencyModule
  /\ UNCHANGED layout
ExplorePage == ExploreGraph \/ ChoosePreset \/ Refresh
ExploreLayouts ==
  /\ \/ \E name \in Layouts : ApplyLayout(name)
     \/ ReceiveLibraries \/ ResumeLayout
  /\ UNCHANGED page

PageNext == ExplorePage \/ ExploreLayouts

-----------------------------------------------------------------------------
Ambiguous(stops) == \E i \in DOMAIN stops : Cardinality(Candidates(NodeKey[stops[i]])) > 1

\* The number of visible relations between two nodes at the least.
Distance(v, a, b) ==
  LET Within[k \in 0 .. Len(GraphNodes)] ==
        IF k = 0 THEN {a}
        ELSE LET near == Within[k - 1]
             IN  near \cup {GraphLinks[i].target : i \in {l \in VisibleLinks(v) :
                                                            GraphLinks[l].source \in near}}
  IN  CHOOSE k \in 0 .. Len(GraphNodes) + 1 :
        /\ k <= Len(GraphNodes) => b \in Within[k]
        /\ \A j \in 0 .. k - 1 : b \notin Within[j]

Connected(stops) ==
  \A i \in 1 .. Len(stops) - 1 : Distance(Fresh, stops[i], stops[i + 1]) <= Len(GraphNodes)

Follows(path) ==
  /\ Len(path.nodes) = Len(path.links) + 1
  /\ \A i \in DOMAIN path.links : /\ GraphLinks[path.links[i]].source = path.nodes[i]
                                  /\ GraphLinks[path.links[i]].target = path.nodes[i + 1]

\* A path that goes through stops, from each to the next in as few visible
\* relations as there can be.
IsShortestThrough(v, path, stops) ==
  LET Place[i \in 1 .. Len(stops)] ==
        IF i = 1 THEN 1 ELSE Place[i - 1] + Distance(v, stops[i - 1], stops[i])
  IN  /\ Follows(path) /\ ToSet(path.links) \subseteq VisibleLinks(v)
      /\ Len(path.nodes) = Place[Len(stops)]
      /\ \A i \in DOMAIN stops : path.nodes[Place[i]] = stops[i]

\* What a refresh restores (render.py:2708-2723, 3207-3229), in every state of the
\* page.  The lock, always; without a path, the selected node.  Of a path, its
\* stops, its first node and the shortest path between them over the relations of
\* every kind, in whatever the filters hid and whatever else was inspected; but
\* a path two of whose nodes share a name is lost, with nothing in its place,
\* and stops that no relations connect come back alone.  The very path that was
\* told comes back when it was found with no relation hidden.
RefreshRestores ==
  LET stops == page.stops IN
  \A again \in {Load(page.url, page.history)} :
    /\ again.lock = page.lock
    /\ stops = <<>> => again.stops = <<>> /\ again.selected = page.selected
    /\ stops # <<>> =>
         IF Ambiguous(stops)
         THEN again.stops = <<>> /\ again.selected = NoNode /\ again.details = Message("message")
         ELSE /\ again.stops = stops
              /\ IF Connected(stops)
                 THEN /\ again.selected = stops[1] /\ again.details.shows = "path"
                      /\ IsShortestThrough(Fresh, again.details.path, stops)
                 ELSE again.selected = NoNode /\ again.details = Message("message")
    /\ (/\ page.details.shows = "path" /\ ~Ambiguous(stops)
        /\ page.filters = Relations /\ page.preset # "selection") =>
         again.details = page.details

SimpleWalks(v, a, b) ==
  LET Next(w) == {Append(w, GraphLinks[l].target) :
                    l \in {i \in VisibleLinks(v) : GraphLinks[i].source = Last(w)
                                                   /\ GraphLinks[i].target \notin ToSet(w)}}
      Walks[k \in 0 .. MaxSimplePathDepth] ==
        IF k = 0 THEN {<<a>>} ELSE UNION {Next(w) : w \in {x \in Walks[k - 1] : Last(x) # b}}
  IN  {w \in UNION {Walks[k] : k \in 0 .. MaxSimplePathDepth} : Last(w) = b}

\* The path that the details tell, and that the graph isolates, is a shortest
\* one through its stops over the visible relations; the simple paths that are
\* offered are all of them unless the list says that it is limited.
PathsShownAreReal ==
  LET path == page.details.path
      offered == {p.nodes : p \in page.details.choices}
      ends == ParsedStops(page)
  IN  /\ page.details.shows = "path" /\ page.preset # "selection" =>
           /\ IsShortestThrough(page, path, page.stops)
           /\ page.edges = ToSet(path.links) /\ page.related = ToSet(path.nodes)
      /\ page.details.shows = "choices" =>
           /\ \A p \in page.details.choices : Follows(p)
           /\ offered \subseteq SimpleWalks(page, ends[1], ends[2])
           /\ page.details.limited \/ offered = SimpleWalks(page, ends[1], ends[2])

\* The line of status (render.py:2189-2232) tells the layout of the positions and of
\* the active button, or what became of it, unless it asks for a selection: the
\* preset that needs one overwrites whatever the line said, a computation that is
\* announced included (render.py:2322).  Whatever it says, the last request that
\* waits is the one of the active button, and when none waits the positions are
\* those of that button or the initial ones.
LayoutsAreAnnounced ==
  LET says == layout.status.says
  IN  /\ says # "select" => layout.status.name = layout.active
      /\ says = "active" => layout.positions = layout.active
      /\ says \in {"unavailable", "failed"} => layout.positions = "initial"
      /\ says = "computing" => layout.waiting # <<>>
      /\ IF layout.waiting = <<>> THEN layout.positions \in {layout.active, "initial"}
         ELSE /\ Last(layout.waiting) = <<layout.request, layout.active>>
              /\ says \in {"computing", "select"}

PageTellsTheTruth == PathsShownAreReal /\ LayoutsAreAnnounced
=============================================================================

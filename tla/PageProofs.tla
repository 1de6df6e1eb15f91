----------------------------- MODULE PageProofs -----------------------------
(***************************************************************************)
(* The line of status of the interactive page is right about the layout,   *)
(* for any number of layouts, in whatever order they are asked for, whether*)
(* the libraries are loaded before, between or after, or not at all.       *)
(***************************************************************************)
EXTENDS Page, TLAPS

LOCAL INSTANCE SequenceTheorems

PageSpec == PageInit /\ [][PageNext]_pageVars

Requests == [request : Nat, waiting : Seq(Nat \X Layouts),
             libraries : {"loading", "loaded", "failed"},
             active : Layouts, positions : Layouts \cup {"initial"},
             status : [says : {"computing", "active", "failed", "unavailable", "select"},
                       name : Layouts \cup {"none"}]]

\* The requests that wait are in the order they were made, the last of them is
\* the one of the active button, and as long as one waits the status says that it
\* is computed, unless it asks for a selection.
WaitInOrder(l) ==
  /\ \A i, j \in 1 .. Len(l.waiting) : i < j => l.waiting[i][1] < l.waiting[j][1]
  /\ l.waiting # <<>> => l.waiting[Len(l.waiting)] = <<l.request, l.active>>
  /\ l.status.says = "computing" => l.waiting # <<>>
  /\ l.waiting # <<>> => l.status.says \in {"computing", "select"}

\* The status is about the active layout, or asks for a selection; nothing moves
\* without the libraries.
StatusIsHonest(l) ==
  /\ l.status.says # "select" => l.status.name = l.active
  /\ l.status.says = "active" => l.positions = l.active
  /\ l.status.says = "failed" => l.positions = "initial"
  /\ l.status.says = "unavailable" => l.libraries = "failed"
  /\ l.libraries # "loaded" => l.positions = "initial"
  /\ l.waiting = <<>> => l.positions \in {l.active, "initial"}

LayoutInv == layout \in Requests /\ WaitInOrder(layout) /\ StatusIsHonest(layout)

-----------------------------------------------------------------------------
\* When the script starts, the first layout waits.
LEMMA LoadedIsSound ==
  LayoutLoaded \in Requests /\ WaitInOrder(LayoutLoaded) /\ StatusIsHonest(LayoutLoaded)
<1>1. <<<<1, FirstLayout>>>> \in Seq(Nat \X Layouts)
  BY PageAssumption
<1>2. LayoutLoaded \in Requests
  BY <1>1, PageAssumption DEF LayoutLoaded, Announce, Requests
<1> QED BY <1>2 DEF WaitInOrder, StatusIsHonest, LayoutLoaded, Announce

LEMMA InitLayout == PageInit => LayoutInv
BY LoadedIsSound DEF PageInit, LayoutInv

\* applyLayout, until it waits for the libraries, makes itself the last request.
LEMMA ApplyKeepsLayout ==
  ASSUME LayoutInv, NEW name \in Layouts, ApplyLayout(name)
  PROVE  LayoutInv'
<1> DEFINE asked == <<layout.request + 1, name>>
           more == Append(layout.waiting, asked)
<1>1. /\ layout \in Requests /\ layout.request \in Nat /\ layout.waiting \in Seq(Nat \X Layouts)
      /\ asked \in Nat \X Layouts
  BY DEF LayoutInv, Requests
<1>2. /\ more \in Seq(Nat \X Layouts) /\ Len(more) = Len(layout.waiting) + 1
      /\ Len(layout.waiting) \in Nat /\ more[Len(more)] = asked
      /\ \A i \in 1 .. Len(layout.waiting) : more[i] = layout.waiting[i]
  BY <1>1
<1>3. layout' = [layout EXCEPT !.request = @ + 1, !.active = name, !.waiting = more,
                               !.status = Announce("computing", name)]
  BY DEF ApplyLayout
<1>4. layout' \in Requests
  BY <1>1, <1>2, <1>3 DEF Requests, Announce
<1>5. /\ layout'.request = layout.request + 1 /\ layout'.active = name /\ layout'.waiting = more
      /\ layout'.status = Announce("computing", name)
      /\ layout'.libraries = layout.libraries /\ layout'.positions = layout.positions
  BY <1>1, <1>3 DEF Requests
<1>6. \A i \in 1 .. Len(layout.waiting) : layout.waiting[i][1] <= layout.request
  <2> SUFFICES ASSUME NEW i \in 1 .. Len(layout.waiting)
               PROVE  layout.waiting[i][1] <= layout.request
    OBVIOUS
  <2>1. LET n == Len(layout.waiting)
        IN  n \in 1 .. Len(layout.waiting) /\ layout.waiting # <<>> /\ layout.waiting[n][1] = layout.request
    BY <1>1, <1>2 DEF LayoutInv, WaitInOrder
  <2>2. i = Len(layout.waiting) \/ i < Len(layout.waiting)
    BY <1>2
  <2>3. layout.waiting[i] \in Nat \X Layouts
    BY <1>1
  <2> QED BY <1>1, <2>1, <2>2, <2>3 DEF LayoutInv, WaitInOrder
<1>7. \A i, j \in 1 .. Len(more) : i < j => more[i][1] < more[j][1]
  <2> SUFFICES ASSUME NEW i \in 1 .. Len(more), NEW j \in 1 .. Len(more), i < j
               PROVE  more[i][1] < more[j][1]
    OBVIOUS
  <2>1. i \in 1 .. Len(layout.waiting) /\ more[i] = layout.waiting[i]
        /\ layout.waiting[i] \in Nat \X Layouts
    BY <1>1, <1>2
  <2>2. CASE j = Len(more)
    BY <1>1, <1>2, <1>6, <2>1, <2>2
  <2>3. CASE j # Len(more)
    <3>1. j \in 1 .. Len(layout.waiting) /\ more[j] = layout.waiting[j]
      <4> HIDE DEF more, asked
      <4> QED BY <1>2, <2>3
    <3> QED BY <2>1, <3>1 DEF LayoutInv, WaitInOrder
  <2> QED BY <2>2, <2>3
<1>8. WaitInOrder(layout')
  BY <1>2, <1>5, <1>7 DEF WaitInOrder, Announce
<1>9. StatusIsHonest(layout')
  <2>1. more # <<>>
    <3> HIDE DEF more
    <3> QED BY <1>2
  <2> QED BY <1>5, <2>1 DEF LayoutInv, StatusIsHonest, Announce
<1> QED BY <1>4, <1>8, <1>9 DEF LayoutInv

\* The libraries arrive or do not: what is on the screen stays.
LEMMA LibrariesKeepLayout ==
  ASSUME LayoutInv, ReceiveLibraries
  PROVE  LayoutInv'
<1>1. PICK outcome \in {"loaded", "failed"} : layout' = [layout EXCEPT !.libraries = outcome]
  BY DEF ReceiveLibraries
<1>2. layout \in Requests /\ layout' \in Requests
  BY <1>1 DEF LayoutInv, Requests
<1>3. /\ layout'.request = layout.request /\ layout'.active = layout.active
      /\ layout'.waiting = layout.waiting /\ layout'.status = layout.status
      /\ layout'.libraries = outcome /\ layout'.positions = layout.positions
  BY <1>1, <1>2 DEF Requests
<1>4. WaitInOrder(layout')
  BY <1>3 DEF LayoutInv, WaitInOrder
<1>5. StatusIsHonest(layout')
  BY <1>3 DEF LayoutInv, StatusIsHonest, ReceiveLibraries
<1> QED BY <1>2, <1>4, <1>5 DEF LayoutInv

\* A request that was overtaken is dropped before the last; the last one is
\* resumed when it alone is left, and whatever it meets it says so.
LEMMA ResumeKeepsLayout ==
  ASSUME LayoutInv, ResumeLayout
  PROVE  LayoutInv'
<1> DEFINE waiting == layout.waiting
           asked == Head(waiting)
           rest == Tail(waiting)
           left == [layout EXCEPT !.waiting = rest]
<1>1. /\ layout \in Requests /\ layout.request \in Nat /\ waiting \in Seq(Nat \X Layouts)
      /\ waiting # <<>> /\ layout.libraries # "loading"
  BY DEF LayoutInv, Requests, ResumeLayout, Quiet, WaitInOrder
<1>2. /\ asked = waiting[1] /\ asked \in Nat \X Layouts /\ Len(waiting) \in Nat /\ Len(waiting) >= 1
      /\ rest \in Seq(Nat \X Layouts) /\ Len(rest) = Len(waiting) - 1
      /\ \A i \in 1 .. Len(rest) : rest[i] = waiting[i + 1]
  BY <1>1
<1>3. waiting[Len(waiting)] = <<layout.request, layout.active>>
  BY <1>1 DEF LayoutInv, WaitInOrder
<1>4. \A i, j \in 1 .. Len(rest) : i < j => rest[i][1] < rest[j][1]
  <2> SUFFICES ASSUME NEW i \in 1 .. Len(rest), NEW j \in 1 .. Len(rest), i < j
               PROVE  rest[i][1] < rest[j][1]
    OBVIOUS
  <2>1. i + 1 \in 1 .. Len(waiting) /\ j + 1 \in 1 .. Len(waiting) /\ i + 1 < j + 1
    BY <1>2
  <2> QED BY <1>2, <2>1 DEF LayoutInv, WaitInOrder
<1>5. CASE asked[1] # layout.request /\ layout' = left
  <2>1. /\ layout' \in Requests /\ layout'.waiting = rest /\ layout'.request = layout.request
        /\ layout'.active = layout.active /\ layout'.status = layout.status
        /\ layout'.libraries = layout.libraries /\ layout'.positions = layout.positions
    BY <1>1, <1>2, <1>5 DEF Requests
  <2>2. Len(waiting) > 1
    BY <1>2, <1>3, <1>5
  <2>3. rest # <<>> /\ rest[Len(rest)] = <<layout.request, layout.active>>
    <3> HIDE DEF waiting, asked, rest
    <3>1. Len(rest) \in 1 .. Len(rest) /\ Len(rest) + 1 = Len(waiting)
      BY <1>2, <2>2
    <3>2. rest[Len(rest)] = waiting[Len(waiting)]
      BY <1>2, <3>1
    <3> QED BY <1>2, <1>3, <3>1, <3>2
  <2>4. WaitInOrder(layout')
    BY <1>1, <1>4, <2>1, <2>3 DEF LayoutInv, WaitInOrder
  <2>5. StatusIsHonest(layout')
    BY <2>1, <2>3 DEF LayoutInv, StatusIsHonest
  <2> QED BY <2>1, <2>4, <2>5 DEF LayoutInv
<1>6. CASE asked[1] = layout.request
  <2>1. Len(waiting) = 1
    <3> HIDE DEF asked, rest
    <3> SUFFICES ASSUME Len(waiting) # 1 PROVE FALSE
      OBVIOUS
    <3>0. Len(waiting) > 1
      <4> HIDE DEF waiting
      <4> QED BY <1>2
    <3>1. 1 \in 1 .. Len(waiting) /\ Len(waiting) \in 1 .. Len(waiting)
      BY <1>2, <3>0
    <3>2. waiting[1][1] < waiting[Len(waiting)][1]
      BY <3>0, <3>1 DEF LayoutInv, WaitInOrder
    <3> QED BY <1>1, <1>2, <1>3, <1>6, <3>2
  <2>2. rest = <<>> /\ asked[2] = layout.active
    <3> HIDE DEF waiting, asked, rest
    <3>1. rest = <<>>
      BY <1>2, <2>1
    <3> QED BY <1>2, <1>3, <2>1, <3>1
  <2>3. PICK says \in {"unavailable", "active", "failed"}, positions \in Layouts \cup {"initial"} :
          /\ layout' = [left EXCEPT !.positions = positions, !.status = Announce(says, asked[2])]
          /\ says = "unavailable" => layout.libraries = "failed" /\ positions = layout.positions
          /\ says = "active" => positions = asked[2] /\ layout.libraries = "loaded"
          /\ says = "failed" => positions = "initial"
    <3>1. CASE /\ layout.libraries = "failed"
               /\ layout' = [left EXCEPT !.status = Announce("unavailable", asked[2])]
      <4>1. layout' = [left EXCEPT !.positions = layout.positions,
                                   !.status = Announce("unavailable", asked[2])]
        BY <1>1, <3>1 DEF Requests
      <4>2. layout.positions \in Layouts \cup {"initial"}
        BY <1>1 DEF Requests
      <4> QED BY <3>1, <4>1, <4>2
    <3>2. CASE /\ layout.libraries = "loaded"
               /\ layout' = [left EXCEPT !.positions = asked[2],
                                         !.status = Announce("active", asked[2])]
      BY <1>2, <3>2
    <3>3. CASE layout' = [left EXCEPT !.positions = "initial",
                                      !.status = Announce("failed", asked[2])]
      BY <3>3
    <3> QED BY <1>6, <3>1, <3>2, <3>3 DEF ResumeLayout
  <2>4. /\ layout' \in Requests /\ layout'.waiting = rest /\ layout'.request = layout.request
        /\ layout'.active = layout.active /\ layout'.status = Announce(says, asked[2])
        /\ layout'.libraries = layout.libraries /\ layout'.positions = positions
    BY <1>1, <1>2, <2>3 DEF Requests, Announce
  <2>5. WaitInOrder(layout')
    BY <1>4, <2>2, <2>4 DEF WaitInOrder, Announce
  <2>6. StatusIsHonest(layout')
    BY <2>2, <2>3, <2>4 DEF LayoutInv, StatusIsHonest, Announce
  <2> QED BY <2>4, <2>5, <2>6 DEF LayoutInv
<1> QED BY <1>5, <1>6 DEF ResumeLayout

\* The preset that needs a selection asks for one: only the status changes.
LEMMA AskingKeepsLayout ==
  ASSUME LayoutInv, AskSelection
  PROVE  LayoutInv'
<1>1. layout \in Requests /\ layout' = [layout EXCEPT !.status = Announce("select", "none")]
  BY DEF LayoutInv, AskSelection
<1>2. /\ layout' \in Requests
      /\ layout'.request = layout.request /\ layout'.active = layout.active
      /\ layout'.waiting = layout.waiting /\ layout'.libraries = layout.libraries
      /\ layout'.positions = layout.positions /\ layout'.status = Announce("select", "none")
  BY <1>1 DEF Requests, Announce
<1>3. WaitInOrder(layout')
  BY <1>2 DEF LayoutInv, WaitInOrder, Announce
<1>4. StatusIsHonest(layout')
  BY <1>2 DEF LayoutInv, StatusIsHonest, Announce
<1> QED BY <1>2, <1>3, <1>4 DEF LayoutInv

\* What explores the graph touches the layouts in two ways: the script that starts
\* again asks for the first one, and a preset may overwrite the status.
LEMMA ExploringKeepsLayout == LayoutInv /\ ExplorePage => LayoutInv'
<1> SUFFICES ASSUME LayoutInv, ExplorePage PROVE LayoutInv'
  OBVIOUS
<1>1. CASE UNCHANGED layout
  BY <1>1 DEF LayoutInv
<1>2. CASE ExploreGraph
  BY <1>1, <1>2 DEF ExploreGraph
<1>3. CASE ChoosePreset
  BY <1>1, <1>3, AskingKeepsLayout DEF ChoosePreset
<1>4. CASE Refresh
  BY <1>4, LoadedIsSound DEF Refresh, LayoutInv
<1> QED BY <1>2, <1>3, <1>4 DEF ExplorePage

\* Every step of the page keeps the invariant.
LEMMA NextLayout == LayoutInv /\ [PageNext]_pageVars => LayoutInv'
<1> SUFFICES ASSUME LayoutInv, [PageNext]_pageVars PROVE LayoutInv'
  OBVIOUS
<1>1. CASE UNCHANGED layout
  BY <1>1 DEF LayoutInv
<1>2. CASE ExploreLayouts
  BY <1>2, ApplyKeepsLayout, LibrariesKeepLayout, ResumeKeepsLayout DEF ExploreLayouts
<1> QED BY <1>1, <1>2, ExploringKeepsLayout DEF PageNext, pageVars

\* The half of PageTellsTheTruth that is about time: the line of status names
\* the layout that the positions are those of and the button that is active,
\* unless it asks for a selection; a computation that is announced is still to be
\* resumed; and whatever the line says, the positions end as those of the active
\* button or the initial ones, although a second request may overtake the first
\* before its await returns, a preset may overwrite the line meanwhile, and the
\* script may start again.
THEOREM LayoutsAlwaysAnnounced == PageSpec => []LayoutsAreAnnounced
<1>1. LayoutInv => LayoutsAreAnnounced
  <2> SUFFICES ASSUME LayoutInv PROVE LayoutsAreAnnounced
    OBVIOUS
  <2>1. /\ layout \in Requests /\ WaitInOrder(layout) /\ StatusIsHonest(layout)
        /\ layout.waiting \in Seq(Nat \X Layouts)
    BY DEF LayoutInv, Requests
  <2>2. layout.waiting # <<>> => Last(layout.waiting) = <<layout.request, layout.active>>
    BY <2>1 DEF WaitInOrder, Last
  <2>3. layout.status.says = "unavailable" => layout.positions = "initial"
    BY <2>1 DEF StatusIsHonest
  <2> QED BY <2>1, <2>2, <2>3 DEF LayoutsAreAnnounced, StatusIsHonest, WaitInOrder
<1> QED BY <1>1, InitLayout, NextLayout, PTL DEF PageSpec

-----------------------------------------------------------------------------
(* The fragment of the URL. *)

Fields == {"filters", "preset", "selected", "related", "edges", "order", "stops", "query",
           "lock", "details", "url", "history"}

\* What persistState writes of a page; nothing to write is also what a page
\* shows that was opened with a fragment it could not use.
FragmentOf(v) == [stops |-> v.stops, lock |-> v.lock,
                  selected |-> IF v.stops = <<>> THEN v.selected ELSE NoNode]
Persisted(v) ==
  /\ DOMAIN v = Fields
  /\ v.url.lock = v.lock
  /\ v.url = FragmentOf(v) \/ (v.stops = <<>> /\ v.selected = NoNode)

FragmentFollows == Persisted(page)

\* persistState leaves a page that it has written.
LEMMA PersistPersists ==
  ASSUME NEW v, DOMAIN v = Fields
  PROVE  Persisted(Persist(v)) /\ Persist(v).lock = v.lock
BY DEF Persist, Persisted, FragmentOf, Fields

\* A path that is shown is remembered and written.
LEMMA ShowPathPersists ==
  ASSUME NEW v, DOMAIN v = Fields, NEW path, NEW stops
  PROVE  Persisted(ShowPath(v, path, stops)) /\ ShowPath(v, path, stops).lock = v.lock
<1> DEFINE shown == [v EXCEPT !.stops = stops, !.query = KeysOf(stops),
                              !.selected = path.nodes[1],
                              !.related = ToSet(path.nodes), !.edges = ToSet(path.links),
                              !.order = SelectSeq(path.nodes, Microservice),
                              !.details = Details("path", path, {})]
           seen == <<shown.stops>> \o SelectSeq(shown.history, LAMBDA s : s # shown.stops)
<1>1. ShowPath(v, path, stops) = Persist([shown EXCEPT !.history = seen])
  BY DEF ShowPath, RememberAnalyzedPath
<1>2. /\ DOMAIN [shown EXCEPT !.history = seen] = Fields
      /\ [shown EXCEPT !.history = seen].lock = v.lock
  BY DEF Fields
<1> QED BY <1>1, <1>2, PersistPersists

\* The search of a shortest path writes whatever it finds.
LEMMA ShortestPathPersists ==
  ASSUME NEW v, DOMAIN v = Fields
  PROVE  Persisted(ShowShortestPath(v)) /\ ShowShortestPath(v).lock = v.lock
<1> DEFINE stops == ParsedStops(v)
           path == ShortestPathThrough(v, stops)
           unfound == [Unselect(v) EXCEPT !.details = Message("message")]
           rejected == [Unselect(v) EXCEPT !.stops = <<>>, !.details = Message("message")]
<1>1. \/ ShowShortestPath(v) = Persist(rejected)
      \/ ShowShortestPath(v) = Persist(unfound)
      \/ ShowShortestPath(v) = ShowPath(v, path, stops)
  BY DEF ShowShortestPath, RejectQuery
<1>2. /\ DOMAIN rejected = Fields /\ rejected.lock = v.lock
      /\ DOMAIN unfound = Fields /\ unfound.lock = v.lock
  BY DEF Unselect, Fields
<1> HIDE DEF stops, path, rejected, unfound
<1> QED BY <1>1, <1>2, PersistPersists, ShowPathPersists

\* So does the search of simple paths, but for a field that asks for a path
\* through other stops: it only tells so.
LEMMA SimplePathsPersist ==
  ASSUME NEW v, Persisted(v)
  PROVE  Persisted(ShowSimplePaths(v))
<1>1. DOMAIN v = Fields
  BY DEF Persisted
<1>2. CASE ~Parses(v)
  <2>1. DOMAIN [Unselect(v) EXCEPT !.stops = <<>>, !.details = Message("message")] = Fields
    BY <1>1 DEF Unselect
  <2> QED BY <1>2, <2>1, PersistPersists DEF ShowSimplePaths, RejectQuery
<1>3. CASE Parses(v) /\ Len(v.query) # 2
  <2>1. ShowSimplePaths(v) = [v EXCEPT !.details = Message("message")]
    BY <1>3 DEF ShowSimplePaths
  <2> HIDE DEF Message
  <2> QED BY <1>1, <2>1 DEF Persisted, FragmentOf, Fields
<1>4. CASE Parses(v) /\ Len(v.query) = 2
  <2>1. PICK shown : ShowSimplePaths(v) =
                       Persist([Unselect(v) EXCEPT !.stops = <<>>, !.details = shown])
    BY <1>4 DEF ShowSimplePaths
  <2>2. DOMAIN [Unselect(v) EXCEPT !.stops = <<>>, !.details = shown] = Fields
    BY <1>1 DEF Unselect
  <2> QED BY <2>1, <2>2, PersistPersists
<1> QED BY <1>2, <1>3, <1>4

\* A node that is inspected is written, beside a path only if that is locked.
LEMMA FocusPersists ==
  ASSUME NEW v, DOMAIN v = Fields, NEW n, NEW links
  PROVE  Persisted(FocusNodeRelations(v, n, links)) /\ FocusNodeRelations(v, n, links).lock = v.lock
<1> DEFINE w == IF v.lock THEN v ELSE ClearPathControls(v)
           focused == [w EXCEPT !.order = <<>>, !.selected = n, !.related = {n} \cup EndsOf(links),
                                !.edges = links, !.details = Message("node")]
<1>1. DOMAIN w = Fields /\ w.lock = v.lock
  BY DEF ClearPathControls, Fields
<1>2. DOMAIN focused = Fields /\ focused.lock = v.lock
  BY <1>1 DEF Fields
<1>3. FocusNodeRelations(v, n, links) = Persist(focused)
  BY DEF FocusNodeRelations
<1> HIDE DEF w, focused
<1> QED BY <1>2, <1>3, PersistPersists

\* The view that is reset is written.
LEMMA ResetPersists ==
  ASSUME NEW v, DOMAIN v = Fields
  PROVE  Persisted(Reset(v))
<1> DEFINE w == [Unselect(v) EXCEPT !.preset = IF @ = "selection" THEN "all" ELSE @,
                                    !.details = Message("empty")]
<1>1. DOMAIN w = Fields
  BY DEF Unselect
<1>2. DOMAIN ClearPathControls(w) = Fields
  BY <1>1 DEF ClearPathControls
<1> QED BY <1>2, PersistPersists DEF Reset

\* A preset resets the view, or isolates the selection, which stays.
LEMMA PresetPersists ==
  ASSUME NEW v, Persisted(v), NEW preset
  PROVE  Persisted(ApplyRelationPreset(v, preset))
<1>1. DOMAIN v = Fields
  BY DEF Persisted
<1>2. CASE preset # "selection"
  <2>1. DOMAIN [v EXCEPT !.filters = Presets[preset], !.preset = preset] = Fields
    BY <1>1
  <2> QED BY <1>2, <2>1, ResetPersists DEF ApplyRelationPreset
<1> DEFINE w == [v EXCEPT !.filters = Relations, !.preset = preset]
           links == Touching(Links, v.selected)
<1>3. DOMAIN w = Fields /\ w.stops = v.stops /\ w.selected = v.selected /\ w.lock = v.lock
      /\ w.url = v.url
  BY <1>1 DEF Fields
<1>4. CASE preset = "selection" /\ v.selected = NoNode
  <2>1. DOMAIN [w EXCEPT !.preset = "all"] = Fields
    BY <1>3
  <2> QED BY <1>4, <2>1, ResetPersists DEF ApplyRelationPreset
<1>5. CASE preset = "selection" /\ v.selected # NoNode
  <2>1. ApplyRelationPreset(v, preset) =
          [w EXCEPT !.related = {v.selected} \cup EndsOf(links), !.edges = links]
    BY <1>5 DEF ApplyRelationPreset
  <2> HIDE DEF w, links
  <2> QED BY <1>3, <2>1 DEF Persisted, FragmentOf, Fields
<1> QED BY <1>2, <1>4, <1>5

\* The script that starts from any fragment writes what it could use of it.
LEMMA LoadPersists ==
  ASSUME NEW fragment, NEW stored
  PROVE  Persisted(Load(fragment, stored)) /\ Load(fragment, stored).lock = fragment.lock
<1> DEFINE v == [Fresh EXCEPT !.lock = fragment.lock, !.url = fragment,
                              !.history = SelectSeq(stored, IsValidPathStops)]
           w == [v EXCEPT !.stops = fragment.stops, !.query = KeysOf(fragment.stops)]
<1>1. /\ DOMAIN v = Fields /\ v.lock = fragment.lock /\ v.url = fragment
      /\ v.stops = <<>> /\ v.selected = NoNode
  BY DEF Fresh, Fields
<1>2. DOMAIN w = Fields /\ w.lock = fragment.lock
  BY <1>1 DEF Fields
<1>3. \/ Load(fragment, stored) = ShowShortestPath(w)
      \/ Load(fragment, stored) = SelectNode(v, fragment.selected)
      \/ Load(fragment, stored) = v
  BY DEF Load
<1>4. Persisted(v)
  BY <1>1 DEF Persisted
<1> HIDE DEF v, w
<1> QED BY <1>1, <1>2, <1>3, <1>4, ShortestPathPersists, FocusPersists DEF SelectNode

\* The page is opened with what it could use of the fragment.
LEMMA InitFragment == PageInit => FragmentFollows
BY LoadPersists DEF PageInit, FragmentFollows

\* Every handler of the page leaves a fragment that follows it.
LEMMA NextFragment == FragmentFollows /\ [PageNext]_pageVars => FragmentFollows'
<1> SUFFICES ASSUME FragmentFollows, [PageNext]_pageVars PROVE FragmentFollows'
  OBVIOUS
<1> USE DEF Becomes
<1>0. Persisted(page) /\ DOMAIN page = Fields
  BY DEF FragmentFollows, Persisted
<1> SUFFICES Persisted(page')
  BY DEF FragmentFollows, Persisted, FragmentOf
<1>1. CASE UNCHANGED page
  BY <1>0, <1>1
<1>2. CASE ClickNode \/ FollowRelation \/ FocusResource
  <2>1. PICK n, links : page' = FocusNodeRelations(page, n, links)
    BY <1>2
    DEF ClickNode, FollowRelation, FocusResource, SelectNode, FocusPublishedRestResource
  <2> QED BY <1>0, <2>1, FocusPersists
<1>3. CASE Search
  <2>1. PICK found \in Searches :
          Becomes(IF found = {} THEN page
                  ELSE SelectNode(page, SelectSeq(GraphNodes, LAMBDA n : n \in found)[1]))
    BY <1>3 DEF Search
  <2>2. PICK n : page' = page \/ page' = SelectNode(page, n)
    BY <2>1
  <2> QED BY <1>0, <2>2, FocusPersists DEF SelectNode
<1>4. CASE ResetView \/ ChangeFilter
  <2>1. PICK v : page' = Reset(v) /\ DOMAIN v = Fields
    <3>1. CASE ResetView
      BY <1>0, <3>1 DEF ResetView
    <3>2. CASE ChangeFilter
      <4>1. PICK k \in Filters :
              page' = Reset([page EXCEPT !.preset = "none",
                             !.filters = IF k \in @ THEN @ \ {k} ELSE @ \cup ({k} \cap Relations)])
        BY <3>2 DEF ChangeFilter
      <4> DEFINE v == [page EXCEPT !.preset = "none",
                             !.filters = IF k \in @ THEN @ \ {k} ELSE @ \cup ({k} \cap Relations)]
      <4>2. page' = Reset(v) /\ DOMAIN v = Fields
        BY <1>0, <4>1
      <4> HIDE DEF v
      <4> QED BY <4>2
    <3> QED BY <1>4, <3>1, <3>2
  <2> QED BY <2>1, ResetPersists
<1>5. CASE ChoosePreset
  BY <1>0, <1>5, PresetPersists DEF ChoosePreset
<1>6. CASE ToggleLock
  <2>1. page' = Persist([page EXCEPT !.lock = ~@]) /\ DOMAIN [page EXCEPT !.lock = ~@] = Fields
    BY <1>0, <1>6 DEF ToggleLock
  <2> QED BY <2>1, PersistPersists
<1>7. CASE FindPath
  <2>1. PICK text : page' = ShowShortestPath([page EXCEPT !.query = text])
    BY <1>7 DEF FindPath
  <2>2. DOMAIN [page EXCEPT !.query = text] = Fields
    BY <1>0
  <2> QED BY <2>1, <2>2, ShortestPathPersists
<1>8. CASE FindSimplePaths
  <2>1. PICK text : page' = ShowSimplePaths([page EXCEPT !.query = text])
    BY <1>8 DEF FindSimplePaths
  <2>2. Persisted([page EXCEPT !.query = text])
    BY <1>0 DEF Persisted, FragmentOf, Fields
  <2> QED BY <2>1, <2>2, SimplePathsPersist
<1>9. CASE ChooseSimplePath
  BY <1>0, <1>9, ShowPathPersists DEF ChooseSimplePath
<1>10. CASE Replay
  <2>1. PICK stops : page' = ShowShortestPath([page EXCEPT !.stops = stops, !.query = KeysOf(stops)])
    BY <1>10 DEF Replay, ReplayAnalyzedPath
  <2>2. DOMAIN [page EXCEPT !.stops = stops, !.query = KeysOf(stops)] = Fields
    BY <1>0
  <2> QED BY <2>1, <2>2, ShortestPathPersists
<1>11. CASE ForgetPath
  <2>1. PICK paths : page' = [page EXCEPT !.history = paths]
    BY <1>11 DEF ForgetPath
  <2> QED BY <1>0, <2>1 DEF Persisted, FragmentOf, Fields
<1>12. CASE SelectDependencyModule
  <2>1. page' = [page EXCEPT !.details = Message("module")]
    BY <1>12 DEF SelectDependencyModule
  <2> HIDE DEF Message
  <2> QED BY <1>0, <2>1 DEF Persisted, FragmentOf, Fields
<1>13. CASE Refresh
  BY <1>13, LoadPersists DEF Refresh
<1> QED
  BY <1>1, <1>2, <1>3, <1>4, <1>5, <1>6, <1>7, <1>8, <1>9, <1>10, <1>11, <1>12, <1>13
  DEF PageNext, ExplorePage, ExploreGraph, ExploreLayouts, pageVars

\* What RefreshRestores rests on: whatever handler ran last, the fragment of the
\* URL is that of the page, which may only show nothing where it could not use
\* the fragment it was opened with; so a refresh restores the lock.
THEOREM FragmentAlwaysFollows ==
  PageSpec => [](FragmentFollows /\ Load(page.url, page.history).lock = page.lock)
<1>1. FragmentFollows => Load(page.url, page.history).lock = page.lock
  BY LoadPersists DEF FragmentFollows, Persisted
<1> QED BY <1>1, InitFragment, NextFragment, PTL DEF PageSpec
=============================================================================

------------------------------- MODULE Lookup -------------------------------
(***************************************************************************)
(* The questions that the tool answers from files and other programs and   *)
(* not from the index alone: what a property of a build or of Spring is    *)
(* worth, where a code search leads and where a box is drawn.              *)
(***************************************************************************)
EXTENDS Analysis, Search, Drawing

CONSTANTS Values,          \* the inputs [value, properties] of a pom's properties
          Configurations,  \* [files, servers, fields, expression, source]
          Queries,         \* the worlds of a code search, with the hits of ccc
          Drawings

LookupInit ==
  \/ Ask("value", Values) \/ Ask("topic", Configurations)
  \/ Ask("search", Queries) \/ Ask("drawing", Drawings)

ResolveValue == Answer("value", ResolveMavenValue(about.value, about.properties))
ReadTopic == Answer("topic", ResolveTopicExpression(about, about.expression, about.source))
SearchAll == Answer("search", SearchCodeWithFindings(about))
DrawBoxes == asked = "drawing" /\ \E places \in DrawioPositions(about) : Answer("drawing", places)

LookupNext == ResolveValue \/ ReadTopic \/ SearchAll \/ DrawBoxes

-----------------------------------------------------------------------------
\* A property of a pom is resolved exactly when what it refers to is declared,
\* in chains of eight references at most, and then as one by one.
ValuesAreResolved ==
  Answered("value") =>
    LET Refs(v) == {v[i].name : i \in {k \in DOMAIN v : v[k].ref}}
        declared == DOMAIN about.properties
        After[k \in 0 .. 8] == IF k = 0 THEN Refs(about.value)
                               ELSE UNION {Refs(about.properties[n]) : n \in After[k - 1]
                                                                           \cap declared}
        Expand[v \in {about.value} \cup {about.properties[n] : n \in declared}] ==
          FlattenSeq([i \in DOMAIN v |->
            IF v[i].ref THEN Expand[about.properties[v[i].name]] ELSE <<v[i]>>])
    IN  IF After[8] = {} /\ \A k \in 0 .. 7 : After[k] \subseteq declared
        THEN answer = Expand[about.value]
        ELSE Refs(answer) # {}

\* A topic given by a property is the value of the file that is nearest above
\* the source, else of a file that a server holds for an application named
\* above the source, else the default of the placeholder; otherwise it is not
\* known, and only then does the endpoint count as dynamic.
TopicsAreResolved ==
  Answered("topic") =>
    LET e == about.expression
        key == IF e.is = "field" THEN about.fields[e.name] ELSE e.name
        above == {f \in about.files : IsPrefix(f.dir, about.source)}
        Nearer(f, g) == \/ Len(f.dir) > Len(g.dir)
                        \/ Len(f.dir) = Len(g.dir) /\ f.rank < g.rank
        Values_(files) == {f.values[key] : f \in {x \in files : key \in DOMAIN x.values}}
        Nearest == {f \in above : /\ key \in DOMAIN f.values
                                  /\ \A g \in above \ {f} : key \in DOMAIN g.values => Nearer(f, g)}
        named == {f.values[AppName] : f \in {x \in above : AppName \in DOMAIN x.values}}
        remote == Values_({f \in about.servers : f.app \in named})
        Worth == IF Nearest # {} THEN Values_(Nearest)
                 ELSE IF remote # {} THEN remote ELSE {e.default} \ {NoName}
    IN  IF e.is = "text" THEN answer = [topic |-> e.name, dynamic |-> FALSE]
        ELSE IF e.is \in {"placeholder", "field"} /\ key # NoName /\ Worth # {}
        THEN answer.topic \in Worth /\ ~answer.dynamic
        ELSE answer.dynamic

\* What the configuration files say is resolved as their readers resolve it:
\* the properties of a pom, those of Spring and the configured clients.
ConfigurationIsUnderstood == ValuesAreResolved /\ TopicsAreResolved /\ ClientsAreUnambiguous

-----------------------------------------------------------------------------
\* Boxes never overlap in the exported drawing, wherever the simulation left
\* them and whichever swaps were made, and all of them are inside the page.
BoxesAreApart ==
  Answered("drawing") =>
    LET Before(a, b, axis) == answer[a][axis] + about.size[a][axis] <= answer[b][axis]
    IN  \A a \in ToSet(about.boxes) :
          /\ \A axis \in 1 .. 2 : answer[a][axis] >= 24
          /\ \A b \in ToSet(about.boxes) \ {a} :
               \E axis \in 1 .. 2 : Before(a, b, axis) \/ Before(b, a, axis)

\* How the output of a hit is read (ccc_bridge.py:83): its content ends at the first
\* line of it that looks like a header, and every such line that a line naming a
\* file follows begins one more hit, which goes on until the next.
ReadOf(hit) ==
  LET c == hit.content
      Heads == {k \in DOMAIN c : c[k] = Header}
      End(k) == Min({h \in Heads \cup {Len(c) + 1} : h > k}) - 1
      extra == SetToSortSeq({k \in Heads : k < Len(c) /\ c[k + 1].is = "file"}, <)
  IN  <<[path |-> hit.path, content |-> SubSeq(c, 1, End(0))]>>
      \o [i \in DOMAIN extra |-> [path |-> c[extra[i] + 1].path,
                                 content |-> SubSeq(c, extra[i] + 2, End(extra[i]))]]

\* A search shows what ccc found, in its order, each hit as its output is read:
\* whole, unless its content looks like the output of ccc.  Each hit carries all
\* the findings of its file and the worst of their severities; an index that is
\* missing is announced, never taken for one without findings, and an unusable
\* ccc is an error, not an empty answer.
SearchIsHonest ==
  Answered("search") =>
    LET shown == [i \in DOMAIN answer.results |-> answer.results[i].hit]
        Usable == /\ about.installed /\ (about.refresh \/ about.indexed)
                  /\ about.outcome = "ended"
        Known(path) == {f \in about.findings : about.findingsIndexed /\ f.path = path}
        Rank(s) == CHOOSE k \in 1 .. 3 : <<"INFO", "WARNING", "ERROR">>[k] = s
    IN  /\ answer.raised = "" <=> Usable
        /\ ~Usable => answer.results = <<>>
        /\ Usable =>
             /\ answer.warned <=> ~about.findingsIndexed
             /\ shown = FlattenSeq([i \in DOMAIN about.hits |-> ReadOf(about.hits[i])])
             /\ \A i \in DOMAIN shown :
                  /\ answer.results[i].findings = Known(shown[i].path)
                  /\ \A f \in Known(shown[i].path) :
                       Rank(f.severity) <= Rank(answer.results[i].severity)
                  /\ Known(shown[i].path) # {} =>
                       \E f \in Known(shown[i].path) : f.severity = answer.results[i].severity
=============================================================================

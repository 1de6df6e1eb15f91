---------------------------- MODULE Attribution ----------------------------
(***************************************************************************)
(* The question of an indexing run about a build tree: which modules there *)
(* are below the root, and to which of them each indexed file belongs.     *)
(***************************************************************************)
EXTENDS Modules, Questions

CONSTANTS Names,        \* the names of directories
          Trees         \* the build trees of Modules

Directories == Seq(Names)

\* A tree is made of directories, none of which has the name that stands for
\* the absence of one; the depth at which modules are still discovered is the
\* one at which the projects of a container are.
ASSUME AttributionAssumption ==
  /\ Undeclared \notin Names \cup {"root"}
  /\ MaxModuleDepth <= MaxRootDepth
  /\ \A t \in Trees : DOMAIN t.maven \cup DOMAIN t.gradle \cup t.sources \cup t.mains
                        \subseteq Directories

AttributionInit == Ask("modules", Trees)

\* The modules, and the name of the module of each source that is indexed.
Attributed(tree) ==
  [found |-> DiscoverModules(tree),
   names |-> [f \in {x \in tree.sources : IsIndexed(tree, x)} |-> ModuleForPath(tree, f)]]

AttributeFiles == Answer("modules", Attributed(about))

AttributionNext == AttributeFiles

AttributionSpec == AttributionInit /\ [][AttributionNext]_vars

-----------------------------------------------------------------------------
\* An indexed file belongs to one module at most, whose name its findings carry
\* if that is a Maven module and the nearest build file.  Without any pom above
\* they carry the name of the outermost service root of Gradle that is above the
\* file, not that of its nearest build file, and no name when none is above: a
\* file that only shares its first directory with a service is not one of its
\* files (gradle.py:141-147).  And the files of a listed module are all indexed,
\* unless a module around them is excluded.
FilesAreAttributed ==
  Answered("modules") =>
    LET built == DOMAIN about.maven \cup DOMAIN about.gradle
        Around(f) == {d \in built : Below(d, f)}
        Holders(f) == {m \in answer.found : OwnsFile(m, answer.found, f)}
        Nearest(f, m) == \A d \in Around(f) : Below(d, m.path)
        Serves(d) == \E x \in about.mains :
                        /\ Below(d, x)
                        /\ ~\E n \in DOMAIN about.gradle \ {d} : Below(d, n) /\ Below(n, x)
        Services(f) == {d \in Around(f) \cap DOMAIN about.gradle : WithinDepth(d) /\ Serves(d)}
    IN  /\ \A f \in DOMAIN answer.names :
             /\ Cardinality(Holders(f)) <= 1
             /\ \A m \in Holders(f) :
                  Nearest(f, m) /\ m.build = "maven" => answer.names[f] = m.name
             /\ Around(f) \cap DOMAIN about.maven = {} =>
                  IF Services(f) = {} THEN answer.names[f] = Undeclared
                  ELSE \E d \in Services(f) : /\ answer.names[f] = GradleName(about, d)
                                              /\ \A x \in Services(f) : Below(d, x)
        /\ \A m \in answer.found, f \in about.sources :
             Below(m.path, f) /\ f \notin DOMAIN answer.names =>
               \E d \in ExcludedModulePaths(about) : Below(d, f)
=============================================================================

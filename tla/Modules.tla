------------------------------ MODULE Modules ------------------------------
(***************************************************************************)
(* Build modules: what is discovered below a root (modules.py), which      *)
(* files of it are indexed (indexer.py) and the module to which each       *)
(* finding and endpoint is attributed (maven.py, gradle.py, scanner.py).   *)
(*                                                                         *)
(* A directory is the sequence of names from the root.  A tree is [maven,  *)
(* gradle, sources, mains]: for the directory of each pom.xml its          *)
(* [artifact, packaging], an unreadable one declaring nothing; for the     *)
(* directory of each Gradle file [artifact, build], build being false when *)
(* only settings are there; the directories that hold sources, and those   *)
(* with a Spring Boot entry point among them.                              *)
(***************************************************************************)
EXTENDS Integers, SequencesExt

CONSTANTS
  MaxModuleDepth,  \* _MAX_NESTED_MODULE_DEPTH
  MaxRootDepth,    \* the depth of the projects of a container (indexer.py)
  TestNames,       \* the directory names "test" and "tests"
  MockNames,       \* the names that contain "mock"
  ArchetypeNames   \* the names that contain "archteype"
ASSUME DepthAssumption == {MaxModuleDepth, MaxRootDepth} \subseteq Nat

Undeclared == "none"
Below(dir, path) == IsPrefix(dir, path)
DirName(dir) == IF dir = <<>> THEN "root" ELSE Last(dir)
NameOr(declared, dir) == IF declared = Undeclared THEN DirName(dir) ELSE declared

\* A test or mock directory anywhere above, or a mock or archetype name.
IsExcludedModule(name, dir) ==
  \/ \E i \in DOMAIN dir : dir[i] \in TestNames \cup MockNames
  \/ name \in MockNames \cup ArchetypeNames

WithinDepth(dir) == Len(dir) <= MaxModuleDepth

MavenName(tree, dir) == NameOr(tree.maven[dir].artifact, dir)
GradleName(tree, dir) == NameOr(tree.gradle[dir].artifact, dir)

\* discover_gradle_modules: every build file, and settings at the root.
GradleModules(tree) ==
  {d \in DOMAIN tree.gradle : (tree.gradle[d].build /\ WithinDepth(d)) \/ d = <<>>}
MavenModules(tree) == {d \in DOMAIN tree.maven : WithinDepth(d)}

ExcludedModulePaths(tree) ==
  {d \in MavenModules(tree) : IsExcludedModule(MavenName(tree, d), d)} \cup
  {d \in GradleModules(tree) : IsExcludedModule(GradleName(tree, d), d)}

\* An entry point anywhere below the module, in a nested one too.
StartsApplication(tree, dir) == \E m \in tree.mains : Below(dir, m)

\* discover_modules: the Maven modules, then the Gradle ones elsewhere.
DiscoverModules(tree) ==
  LET maven == {d \in MavenModules(tree) : ~IsExcludedModule(MavenName(tree, d), d)}
      gradle == {d \in GradleModules(tree) \ maven :
                   ~IsExcludedModule(GradleName(tree, d), d)}
      Found(name, d, build, kind, starts) ==
        [name |-> name, path |-> d, build |-> build, kind |-> kind, starts |-> starts]
      Pom(d) == tree.maven[d].packaging = "pom"
  IN  {Found(MavenName(tree, d), d, "maven", IF Pom(d) THEN "aggregator" ELSE "library",
             ~Pom(d) /\ StartsApplication(tree, d)) : d \in maven} \cup
      {Found(GradleName(tree, d), d, "gradle",
             IF tree.gradle[d].build THEN "library" ELSE "aggregator",
             StartsApplication(tree, d)) : d \in gradle}

\* _module_files: below the module and below no module nested in it.
OwnsFile(m, modules, file) ==
  /\ Below(m.path, file)
  /\ ~\E n \in modules : n.path # m.path /\ Below(m.path, n.path) /\ Below(n.path, file)

-----------------------------------------------------------------------------
\* _nested_build_roots: the outermost modules of a root without build file.
NestedBuildRoots(tree) ==
  LET built == {d \in DOMAIN tree.maven \cup DOMAIN tree.gradle : Len(d) <= MaxRootDepth}
  IN  IF <<>> \in built THEN {}
      ELSE {d \in built : ~\E x \in built : x # d /\ Below(x, d)}

\* _list_repo_files, for the file of a source directory: neither below an
\* excluded module nor outside the projects of a container.
IsIndexed(tree, file) ==
  /\ ~\E d \in ExcludedModulePaths(tree) : Below(d, file)
  /\ LET roots == NestedBuildRoots(tree) IN roots = {} \/ \E r \in roots : Below(r, file)

-----------------------------------------------------------------------------
Longest(dirs) == CHOOSE d \in dirs : \A x \in dirs : Len(x) <= Len(d)
Shortest(dirs) == CHOOSE d \in dirs : \A x \in dirs : Len(x) >= Len(d)

\* Mutant: the outermost pom.xml.
MavenOutermost(tree, file) ==
  LET above == {d \in DOMAIN tree.maven : Below(d, file)}
  IN  IF above = {} THEN Undeclared ELSE MavenName(tree, Shortest(above))

\* module_name_for_path: the nearest pom.xml, at any depth.
MavenModuleForPath(tree, file) ==
  LET above == {d \in DOMAIN tree.maven : Below(d, file)}
  IN  IF above = {} THEN Undeclared ELSE MavenName(tree, Longest(above))

\* _service_root_artifacts: the nearest Gradle project of each entry point.
GradleServiceRoots(tree) ==
  LET Above(m) == {d \in DOMAIN tree.gradle : Below(d, m)}
  IN  {r \in {Longest(Above(m)) : m \in {x \in tree.mains : Above(x) # {}}} : WithinDepth(r)}

\* gradle_service_for_path: the first root in sorted order, which is the
\* outermost of those above the file.
GradleServiceForPath(tree, file) ==
  LET above == {r \in GradleServiceRoots(tree) : Below(r, file)}
  IN  IF above = {} THEN Undeclared ELSE GradleName(tree, Shortest(above))

ModuleForPath(tree, file) ==
  IF MavenModuleForPath(tree, file) # Undeclared THEN MavenModuleForPath(tree, file)
  ELSE GradleServiceForPath(tree, file)

-----------------------------------------------------------------------------
\* _resolve_maven_value: the references of a value replaced at once by what
\* the properties say, at most eight times.  A value is a sequence of parts,
\* [ref, name]; properties are a partial function from names to values.
ResolveOnce(value, properties) ==
  FlattenSeq([i \in DOMAIN value |->
    IF value[i].ref /\ value[i].name \in DOMAIN properties
    THEN properties[value[i].name] ELSE <<value[i]>>])

ResolveMavenValue(value, properties) ==
  LET Rounds[k \in 0 .. 8] ==
        IF k = 0 THEN value ELSE ResolveOnce(Rounds[k - 1], properties)
  IN  Rounds[8]
=============================================================================

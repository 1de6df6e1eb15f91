-------------------------------- MODULE Scan --------------------------------
(***************************************************************************)
(* What the scanner reads beside the Java sources (scanner.py): the Spring *)
(* properties that a topic or a route refers to, the routes of a gateway,  *)
(* and the clients that a service configures for other services.           *)
(*                                                                         *)
(* A directory is the sequence of names from the root.  A property file is *)
(* [dir, rank, values]: rank is its place among the files of its directory *)
(* (those of src/main/resources first, a base file before one of a         *)
(* profile).  A file of a configuration server is [app, rank, values].     *)
(***************************************************************************)
EXTENDS Graph

AppName == "spring.application.name"
Ranked(files) == SetToSortSeq(files, LAMBDA f, g : f.rank < g.rank)

\* _candidate_spring_roots: from the directory of the source up to the root.
CandidateRoots(source) ==
  [k \in 1 .. Len(source) + 1 |-> SubSeq(source, 1, Len(source) + 1 - k)]

LocalFiles(config, source) ==
  LET roots == CandidateRoots(source)
  IN  FlattenSeq([k \in DOMAIN roots |-> Ranked({f \in config.files : f.dir = roots[k]})])

ServerFilesOfAll(config, local) ==   \* a mutant: whatever the application
  Ranked(config.servers)

\* The files of the configuration servers of the repository that are for an
\* application named in the local files.
ServerFiles(config, local) ==
  LET named == SelectSeq(local, LAMBDA f : AppName \in DOMAIN f.values)
      apps == FoldLeft(LAMBDA acc, f : IF f.values[AppName] \in ToSet(acc) THEN acc
                                       ELSE Append(acc, f.values[AppName]), <<>>, named)
  IN  FlattenSeq([k \in DOMAIN apps |-> Ranked({f \in config.servers : f.app = apps[k]})])

\* resolve_spring_property: the first file that has the key wins.
ResolveSpringProperty(config, key, default, source) ==
  LET local == LocalFiles(config, source)
      having == SelectSeq(local \o ServerFiles(config, local), LAMBDA f : key \in DOMAIN f.values)
  IN  IF having = <<>> THEN default ELSE Head(having).values[key]

\* _resolve_topic_expression: [topic, dynamic] for a text, a placeholder with
\* its default, a field with or without @Value, or anything else.
ResolveTopicExpression(config, expression, source) ==
  LET key == IF expression.is = "field" THEN config.fields[expression.name] ELSE expression.name
      value == ResolveSpringProperty(config, key, expression.default, source)
      Known(topic) == [topic |-> topic, dynamic |-> FALSE]
      Computed(topic) == [topic |-> topic, dynamic |-> TRUE]
  IN  CASE expression.is = "text" -> Known(expression.name)
        [] expression.is = "placeholder" /\ value # NoName -> Known(value)
        [] expression.is = "placeholder" /\ value = NoName -> Computed(expression.name)
        [] expression.is = "field" /\ key # NoName /\ value # NoName -> Known(value)
        [] OTHER -> Computed("<dynamic>")

-----------------------------------------------------------------------------
StripOneMore(path, count) ==         \* a mutant
  SubSeq(path, count + 2, Len(path))

\* _strip_gateway_path
StripGatewayPath(path, count) == SubSeq(path, count + 1, Len(path))

\* The endpoints of a YAML route to a load-balanced service: what the gateway
\* serves, and what it calls; several paths share the other fields.
GatewayEndpoints(route) ==
  IF ~route.balanced THEN {}
  ELSE UNION {{[role |-> "serve", topic |-> [verb |-> "ANY", path |-> p]],
               [role |-> "call", topic |-> [verb |-> "ANY",
                                            path |-> StripGatewayPath(p, route.strip)]]} :
              p \in route.paths}

-----------------------------------------------------------------------------
\* The clients that the Rest*Config* classes of a service declare.  A bean is
\* [name, type, factories]: for each create*ClientApi call, the domain keys in
\* its first argument.  A tree is [builds, configs]: the directories with a
\* build file and, for a directory, the beans of its configuration classes.

OnlyOne(S) == IF Cardinality(S) = 1 THEN CHOOSE x \in S : TRUE ELSE NoName

BeanFirstDomain(bean) ==             \* a mutant: the first domain wins
  LET known == {OnlyOne(keys) : keys \in bean.factories} \ {NoName}
  IN  IF known = {} THEN NoName ELSE CHOOSE d \in known : TRUE

\* _api_domain_argument, then _bean_api_domain: two domains are ambiguous.
BeanApiDomain(bean) == OnlyOne({OnlyOne(keys) : keys \in bean.factories} \ {NoName})

\* _rest_configuration_module_root: the nearest build file, else the root.
ConfigurationRoot(tree, dir) ==
  LET above == {d \in tree.builds : IsPrefix(d, dir)}
  IN  IF above = {} THEN <<>> ELSE CHOOSE d \in above : \A x \in above : Len(x) <= Len(d)

\* _rest_configuration_client_domains_in_module: every source below the root,
\* those of the services nested in it too.
ClientDomains(tree, root) ==
  {<<b.type, b.name, BeanApiDomain(b)>> :
     b \in {x \in UNION {tree.configs[d] : d \in {y \in DOMAIN tree.configs : IsPrefix(root, y)}} :
              BeanApiDomain(x) # NoName}}

\* _rest_configuration_domain_hint: the domain of the client `receiver', whose
\* declared type is NoName when the file does not tell.
DomainHint(tree, call) ==
  OnlyOne({c[3] : c \in {x \in ClientDomains(tree, ConfigurationRoot(tree, call.dir)) :
                           \/ x[2] = call.receiver
                           \/ call.type # NoName /\ x[1] = call.type}})
=============================================================================

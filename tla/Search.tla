------------------------------- MODULE Search -------------------------------
(***************************************************************************)
(* The search of code (code_search.py, ccc_bridge.py): what the external   *)
(* `ccc search' prints, completed by the findings of the files it names.   *)
(*                                                                         *)
(* A line is [is, path]: a header, the line that names the file of a hit,  *)
(* or a text; only the second has a path.  The content of a hit may itself *)
(* hold lines that look like the first two.                                *)
(***************************************************************************)
EXTENDS Integers, SequencesExt, FiniteSetsExt

NoPath_  == "none"
Header   == [is |-> "header", path |-> NoPath_]
FileLine(path) == [is |-> "file", path |-> path]

Severities == <<"INFO", "WARNING", "ERROR">>
Severity(s) == CHOOSE i \in DOMAIN Severities : Severities[i] = s

\* A block starts at each header.
Blocks(lines) ==
  FoldLeft(LAMBDA acc, l : IF l = Header \/ acc = <<>> THEN Append(acc, <<l>>)
                           ELSE [acc EXCEPT ![Len(acc)] = Append(@, l)], <<>>, lines)

ParseHeaders(lines) ==   \* a mutant: a header suffices
  LET hits == SelectSeq(Blocks(lines), LAMBDA b : b[1] = Header)
  IN  [i \in DOMAIN hits |-> [path |-> IF Len(hits[i]) > 1 THEN hits[i][2].path ELSE NoPath_,
                              content |-> SubSeq(hits[i], 3, Len(hits[i]))]]

\* _parse_ccc_search_output: a block is a hit if its second line names a file;
\* what precedes the first header is none.
ParseOutput(lines) ==
  LET hits == SelectSeq(Blocks(lines), LAMBDA b : /\ Len(b) >= 2 /\ b[1] = Header
                                                  /\ b[2].is = "file")
  IN  [i \in DOMAIN hits |-> [path |-> hits[i][2].path, content |-> SubSeq(hits[i], 3, Len(hits[i]))]]

Unavailable(why) == [raised |-> why, results |-> <<>>, warned |-> FALSE]

\* search_code
SearchCode(world) ==
  CASE ~world.installed -> Unavailable("not installed")
    [] world.installed /\ ~world.refresh /\ ~world.indexed -> Unavailable("no index")
    [] world.installed /\ (world.refresh \/ world.indexed) /\ world.outcome = "late" ->
         Unavailable("timeout")
    [] world.installed /\ (world.refresh \/ world.indexed) /\ world.outcome = "failed" ->
         Unavailable("failed")
    [] OTHER -> [raised |-> "", results |-> ParseOutput(world.output), warned |-> FALSE]

\* annotate_with_findings: the findings of the whole file, wherever the hit is.
Annotate(hits, findings) ==
  LET Of(hit) == {f \in findings : f.path = hit.path}
      Worst(S) == IF S = {} THEN NoPath_
                  ELSE Severities[Max({Severity(f.severity) : f \in S})]
  IN  [i \in DOMAIN hits |-> [hit |-> hits[i], findings |-> Of(hits[i]),
                              severity |-> Worst(Of(hits[i]))]]

\* search_code_with_findings: an index that is missing is not one without
\* findings.
SearchCodeWithFindings(world) ==
  LET code == SearchCode(world)
  IN  IF code.raised # "" THEN code
      ELSE [raised |-> "", warned |-> ~world.findingsIndexed,
            results |-> Annotate(code.results,
                                 IF world.findingsIndexed THEN world.findings ELSE {})]
=============================================================================

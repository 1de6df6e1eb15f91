---------------------------- MODULE Exploration ----------------------------
(***************************************************************************)
(* What the users of an index do with it: ask one question (Analysis,     *)
(* Lookup), or explore the page that was exported from it (Page).          *)
(***************************************************************************)
EXTENDS Lookup, Page

CONSTANT MaxExploredRequests   \* bound: the layouts asked for on any page

\* Bound: every handler interleaves with the layouts; a layout beyond the bound is
\* only asked for on a fresh page.
ExplorationBound == page = Fresh \/ layout'.request <= MaxExploredRequests

ExplorationInit ==
  \/ (Init \/ LookupInit) /\ page = Fresh /\ layout = LayoutLoaded
  \/ Ask("page", {{}}) /\ PageInit

ExplorationNext ==
  \/ (Next \/ LookupNext) /\ UNCHANGED pageVars
  \/ asked = "page" /\ PageNext /\ ExplorationBound /\ UNCHANGED vars

Exploration == ExplorationInit /\ [][ExplorationNext]_<<vars, pageVars>>
=============================================================================

------------------------------ MODULE Drawing ------------------------------
(***************************************************************************)
(* The places of the boxes in the Draw.io export (render.py): what is done *)
(* to the positions that the spring simulation leaves behind, which are    *)
(* any.  Lengths are in halves of a pixel, and the half of an overlap is   *)
(* rounded up to one.  A drawing is [boxes, kind, size, edges, places]:    *)
(* the nodes in order, their kinds and sizes in pixels, the pairs that are *)
(* linked and the centers at the end of the simulation.                    *)
(***************************************************************************)
EXTENDS Integers, SequencesExt, FiniteSetsExt, Functions

CONSTANTS Margin,      \* node_margin, in pixels
          MaxPasses,   \* max_passes of the last separations
          MinRefined   \* nodes and edges from which crossings are reduced
ASSUME DrawingAssumption == {Margin, MaxPasses, MinRefined} \subseteq Nat \ {0}

Abs(n) == IF n < 0 THEN -n ELSE n

\* By how much the boxes a and b are too near, along axis 1 or 2: a pixel of
\* their mean size is two units.
Overlap(d, at, a, b, axis) ==
  d.size[a][axis] + d.size[b][axis] + 2 * Margin - Abs(at[b][axis] - at[a][axis])
Overlapping(d, at, a, b) == Overlap(d, at, a, b, 1) > 0 /\ Overlap(d, at, a, b, 2) > 0

PushSideways(d, at, a, b) ==   \* a mutant: the second box is always pushed up
  LET axis == IF Overlap(d, at, a, b, 1) < Overlap(d, at, a, b, 2) THEN 1 ELSE 2
      shift == (Overlap(d, at, a, b, axis) + 1) \div 2
      toward == IF at[b][axis] >= at[a][axis] THEN 1 ELSE -1
  IN  IF ~Overlapping(d, at, a, b) THEN at
      ELSE [at EXCEPT ![a][axis] = @ - toward * shift, ![b][axis] = @ + shift]

\* _separate_overlapping_drawio_nodes: each pair in order, pushed apart along
\* the axis that takes the smaller move, until nothing moves.
Push(d, at, a, b) ==
  LET axis == IF Overlap(d, at, a, b, 1) < Overlap(d, at, a, b, 2) THEN 1 ELSE 2
      shift == (Overlap(d, at, a, b, axis) + 1) \div 2
      toward == IF at[b][axis] >= at[a][axis] THEN 1 ELSE -1
  IN  IF ~Overlapping(d, at, a, b) THEN at
      ELSE [at EXCEPT ![a][axis] = @ - toward * shift, ![b][axis] = @ + toward * shift]

Sweep(d, nodes, at) ==
  LET pairs == FlattenSeq([i \in DOMAIN nodes |-> [j \in 1 .. Len(nodes) - i |->
                                                     <<nodes[i], nodes[i + j]>>]])
  IN  FoldLeft(LAMBDA acc, p : Push(d, acc, p[1], p[2]), at, pairs)

RECURSIVE Separate(_, _, _, _)
Separate(d, nodes, at, passes) ==
  LET moved == Sweep(d, nodes, at)
  IN  IF passes = 0 \/ moved = at THEN at ELSE Separate(d, nodes, moved, passes - 1)

LinksOf(d, n) == {e \in d.edges : n \in e}

\* _drawio_swap_is_clear
Swapped(at, a, b) == [at EXCEPT ![a] = at[b], ![b] = at[a]]
SwapIsClear(d, nodes, at, a, b) ==
  \A m \in {a, b} : \A n \in ToSet(nodes) \ {m} : ~Overlapping(d, Swapped(at, a, b), m, n)

\* _reduce_drawio_edge_crossings: any sequence of swaps of linked nodes of the
\* same kind, since which of them shortens the edges is not computed here.
RECURSIVE Refined(_, _, _, _)
Refined(d, nodes, found, new) ==
  LET Swaps(at) == {Swapped(at, p[1], p[2]) :
                      p \in {q \in ToSet(nodes) \X ToSet(nodes) :
                               /\ q[1] # q[2] /\ d.kind[q[1]] = d.kind[q[2]]
                               /\ SwapIsClear(d, nodes, at, q[1], q[2])}}
      next == UNION {Swaps(at) : at \in new} \ found
  IN  IF \/ Len(nodes) < MinRefined \/ Cardinality(d.edges) < MinRefined
         \/ next = {} THEN found
      ELSE Refined(d, nodes, found \cup next, next)

\* _pack_isolated_drawio_nodes: a grid below everything else.
PackIsolated(d, isolated, linked, at) ==
  LET Largest(axis) == Max({d.size[n][axis] : n \in ToSet(isolated)})
      columns == CHOOSE c \in 1 .. Len(isolated) : /\ c * c >= Len(isolated)
                                                   /\ (c - 1) * (c - 1) < Len(isolated)
      left == IF linked = {} THEN 0 ELSE Min({at[n][1] - d.size[n][1] : n \in linked})
      top == Largest(2) + (IF linked = {} THEN 0
                           ELSE Max({at[n][2] + d.size[n][2] : n \in linked}) + 8 * Margin)
      Place(i) == LET n == isolated[i] IN
        <<left + ((i - 1) % columns) * 2 * (Largest(1) + Margin) + d.size[n][1],
          top + ((i - 1) \div columns) * 2 * (Largest(2) + Margin) + d.size[n][2]>>
      Index(n) == CHOOSE i \in DOMAIN isolated : isolated[i] = n
  IN  [n \in linked \cup ToSet(isolated) |-> IF n \in linked THEN at[n] ELSE Place(Index(n))]

\* _drawio_initial_positions, from the end of the simulation: the corners, in
\* pixels, that each way to reduce the crossings leads to.
DrawioPositions(d) ==
  LET Alone(n) == LinksOf(d, n) = {}
      isolated == SelectSeq(d.boxes, Alone)
      linked == SelectSeq(d.boxes, LAMBDA n : ~Alone(n))
      settled == Separate(d, linked, Restrict(d.places, ToSet(linked)), MaxPasses)
      refined == {Separate(d, linked, at, MaxPasses) : at \in Refined(d, linked, {settled}, {settled})}
      Packed(at) == IF isolated = <<>> THEN at ELSE PackIsolated(d, isolated, ToSet(linked), at)
      Corner(at, n, axis) ==
        at[n][axis] - d.size[n][axis] - Min({at[m][axis] - d.size[m][axis] : m \in ToSet(d.boxes)})
      Pixels(at) == [n \in ToSet(d.boxes) |-> <<(Corner(at, n, 1) + 1) \div 2 + 24,
                                                (Corner(at, n, 2) + 1) \div 2 + 24>>]
  IN  {Pixels(Packed(at)) : at \in refined}
=============================================================================

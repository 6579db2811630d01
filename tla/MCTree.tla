------------------------------- MODULE MCTree -------------------------------
(* Model-checking definitions for Tree.                                     *)
EXTENDS Tree, TLC

CONSTANTS a, b, c, d

group(p) == [parent |-> p, group |-> TRUE]
leaf(p)  == [parent |-> p, group |-> FALSE]

\* A chain of groups, two roots with a leaf under one, a root over a group and a leaf.
Trees ==
  { a :> group(None) @@ b :> group(a) @@ c :> group(b),
    a :> group(None) @@ b :> group(None) @@ c :> leaf(a),
    a :> group(None) @@ b :> group(a) @@ c :> leaf(a) }
=============================================================================

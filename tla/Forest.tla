------------------------------- MODULE Forest -------------------------------
(***************************************************************************)
(* What a tree DocType promises (docs/agent/trees.md:50-67), whoever writes *)
(* and however many at once: the committed rows change by one whole insert, *)
(* move, delete, rename or merge at a time, each legal in the hierarchy it  *)
(* finds.  Tree has the transactions.                                       *)
(***************************************************************************)
EXTENDS Hierarchy

VARIABLE tab  \* the committed rows

Insert(n, row) ==
  n \notin DOMAIN tab /\ checkTree(tab, n, row) /\ tab' = With(tab, n, row)

Save(n, row) ==
  n \in DOMAIN tab /\ checkTree(tab, n, row) /\ tab' = With(tab, n, row)

Delete(n) == n \in DOMAIN tab /\ ~treeHasChildren(tab, n) /\ tab' = Without(tab, n)

Rename(n, m) == n \in DOMAIN tab /\ m \notin DOMAIN tab /\ tab' = moveID(tab, n, m)

Merge(n, m) == mergeChecks(tab, n, m) /\ tab' = Without(repointRefs(tab, n, m), n)

Init == tab \in Tables /\ IsForest(tab)

Next ==
  \E n \in Nodes :
    \/ \E row \in Row : Insert(n, row) \/ Save(n, row)
    \/ Delete(n)
    \/ \E m \in Nodes : Rename(n, m) \/ Merge(n, m)

Spec == Init /\ [][Next]_tab

\* Every reachable hierarchy is a forest of groups (docs/agent/trees.md).
HierarchyHolds == IsForest(tab)
=============================================================================

----------------------------- MODULE Hierarchy -----------------------------
(***************************************************************************)
(* The checks that hold a tree DocType together and what its writes do to   *)
(* its rows (internal/engine/tree.go, merge.go, and moveID in doc.go).      *)
(***************************************************************************)
CONSTANTS
  Nodes,  \* ids a document of the DocType may have
  None    \* no parent

ASSUME NoneAssumption == None \notin Nodes

\* The rows of a table: a function of the ids in use.
Row == [parent: Nodes \cup {None}, group: BOOLEAN]

Tables == UNION {[S -> Row] : S \in SUBSET Nodes}

\* The rows above n, itself first, as UNION in the recursive query finds them:
\* the least set that holds n and the parent of every row it holds.
Closed(t, S) == \A x \in S \cap DOMAIN t : t[x].parent = None \/ t[x].parent \in S

treeAncestorsInclusive(t, n) == {a \in Nodes : \A S \in SUBSET Nodes : n \in S /\ Closed(t, S) => a \in S}

treeHasChildren(t, n) == \E x \in DOMAIN t : t[x].parent = n

Children(t, n) == {x \in DOMAIN t : t[x].parent = n}

\* Mutant: the walk up from the new parent is dropped.
MutcheckTree(t, n, row) ==
  LET moved == row.parent # None /\ (n \in DOMAIN t => t[n].parent # row.parent)
  IN  /\ moved => /\ row.parent # n
                  /\ row.parent \in DOMAIN t
                  /\ t[row.parent].group
      /\ (n \in DOMAIN t /\ t[n].group /\ ~row.group) => ~treeHasChildren(t, n)

\* checkTree: n, a new row or one of t's, may become row.  Links are checked.
checkTree(t, n, row) ==
  LET moved == row.parent # None /\ (n \in DOMAIN t => t[n].parent # row.parent)
  IN  /\ moved => /\ row.parent # n
                  /\ row.parent \in DOMAIN t
                  /\ t[row.parent].group
                  /\ n \in DOMAIN t => n \notin treeAncestorsInclusive(t, row.parent)
      /\ (n \in DOMAIN t /\ t[n].group /\ ~row.group) => ~treeHasChildren(t, n)

\* mergeDocs and mergeChecks: both are there, from is not above into, and into
\* may take from's children.
mergeChecks(t, from, into) ==
  /\ from # into /\ {from, into} \subseteq DOMAIN t
  /\ from \notin treeAncestorsInclusive(t, into)
  /\ treeHasChildren(t, from) => t[into].group

\* The table with n's row written, with n's row gone, and with every child of n
\* handed to m (repointRefs, on the DocType's own parent column).
With(t, n, row) == [x \in DOMAIN t \cup {n} |-> IF x = n THEN row ELSE t[x]]
Without(t, n)   == [x \in DOMAIN t \ {n} |-> t[x]]
repointRefs(t, n, m) ==
  [x \in DOMAIN t |-> IF t[x].parent = n THEN [t[x] EXCEPT !.parent = m] ELSE t[x]]

\* moveID: the row answers to its new id, and its children follow.
moveID(t, n, m) ==
  LET relabelled == IF n \in DOMAIN t THEN With(Without(t, n), m, t[n]) ELSE t
  IN  repointRefs(relabelled, n, m)

\* No row stands under itself: no set of rows is closed under their parents.
Acyclic(t) ==
  \A S \in SUBSET DOMAIN t : S # {} => \E x \in S : t[x].parent \notin S

ParentsAreGroups(t) ==
  \A x \in DOMAIN t : t[x].parent # None => t[x].parent \in DOMAIN t /\ t[t[x].parent].group

IsForest(t) == Acyclic(t) /\ ParentsAreGroups(t)
=============================================================================

------------------------------ MODULE TreeProofs ------------------------------
(***************************************************************************)
(* The transactions of Tree implement the hierarchy of Forest, one legal    *)
(* operation at a time, late merges aside; Forest keeps its hierarchy a     *)
(* forest of groups; only an approval can wait in a circle; and a link that *)
(* leads nowhere has its excuse.                                            *)
(*                                                                         *)
(* First the hierarchy.  The checks of tree.go and merge.go are enough,     *)
(* whatever the ids.  No induction over the tree is needed: a loop would be *)
(* a set of rows closed under their parents, and the rows above the new     *)
(* parent are a closed set without the row that moves.                      *)
(***************************************************************************)
EXTENDS Tree, TLAPS

\* What a write does to the rows, one fact per operator.
LEMMA WithRows ==
  ASSUME NEW t \in Tables, NEW n \in Nodes, NEW row \in Row
  PROVE  /\ With(t, n, row) \in Tables
         /\ DOMAIN With(t, n, row) = DOMAIN t \cup {n}
         /\ With(t, n, row)[n] = row
         /\ \A x \in DOMAIN t : x # n => With(t, n, row)[x] = t[x]
<1>1. PICK D \in SUBSET Nodes : t \in [D -> Row]  BY DEF Tables
<1>2. With(t, n, row) \in [D \cup {n} -> Row]  BY <1>1 DEF With
<1>3. D \cup {n} \in SUBSET Nodes  OBVIOUS
<1> QED  BY <1>1, <1>2, <1>3 DEF With, Tables

LEMMA WithoutRows ==
  ASSUME NEW t \in Tables, NEW n \in Nodes
  PROVE  /\ Without(t, n) \in Tables
         /\ DOMAIN Without(t, n) = DOMAIN t \ {n}
         /\ \A x \in DOMAIN t : x # n => Without(t, n)[x] = t[x]
<1>1. PICK D \in SUBSET Nodes : t \in [D -> Row]  BY DEF Tables
<1>2. Without(t, n) \in [D \ {n} -> Row]  BY <1>1 DEF Without
<1> QED  BY <1>1, <1>2 DEF Without, Tables

LEMMA RepointedRows ==
  ASSUME NEW t \in Tables, NEW n \in Nodes, NEW m \in Nodes
  PROVE  /\ repointRefs(t, n, m) \in Tables
         /\ DOMAIN repointRefs(t, n, m) = DOMAIN t
         /\ \A x \in DOMAIN t :
              /\ repointRefs(t, n, m)[x].group = t[x].group
              /\ repointRefs(t, n, m)[x].parent = IF t[x].parent = n THEN m ELSE t[x].parent
<1>1. PICK D \in SUBSET Nodes : t \in [D -> Row]  BY DEF Tables
<1>2. DOMAIN repointRefs(t, n, m) = D  BY <1>1 DEF repointRefs
<1>3. ASSUME NEW x \in D
      PROVE  /\ repointRefs(t, n, m)[x] \in Row
             /\ repointRefs(t, n, m)[x].group = t[x].group
             /\ repointRefs(t, n, m)[x].parent = IF t[x].parent = n THEN m ELSE t[x].parent
  <2>1. t[x] \in Row  BY <1>1, <1>3
  <2> QED  BY <1>1, <1>3, <2>1 DEF repointRefs, Row
<1>4. repointRefs(t, n, m) \in [D -> Row]
  BY <1>1, <1>3 DEF repointRefs
<1> QED  BY <1>1, <1>2, <1>3, <1>4 DEF Tables

\* A row's parent is an id or nothing.
LEMMA RowParent ==
  ASSUME NEW t \in Tables, NEW x \in DOMAIN t
  PROVE  x \in Nodes /\ t[x] \in Row /\ t[x].parent \in Nodes \cup {None} /\ t[x].group \in BOOLEAN
BY DEF Tables, Row

\* The walk up from p finds p, and stops only at a root or a missing row.
LEMMA AncestorsAreClosed ==
  ASSUME NEW t \in Tables, NEW p \in Nodes
  PROVE  /\ p \in treeAncestorsInclusive(t, p)
         /\ treeAncestorsInclusive(t, p) \subseteq Nodes
         /\ Closed(t, treeAncestorsInclusive(t, p))
<1> DEFINE A == treeAncestorsInclusive(t, p)
<1>1. p \in A /\ A \subseteq Nodes  BY DEF treeAncestorsInclusive
<1>2. SUFFICES ASSUME NEW x \in A \cap DOMAIN t, t[x].parent # None
               PROVE  t[x].parent \in A
  BY <1>1 DEF Closed
<1>3. t[x].parent \in Nodes  BY <1>2, RowParent
<1>4. ASSUME NEW S \in SUBSET Nodes, p \in S, Closed(t, S)  PROVE t[x].parent \in S
  <2>1. x \in S  BY <1>4 DEF treeAncestorsInclusive
  <2> QED  BY <1>2, <1>4, <2>1 DEF Closed
<1> QED  BY <1>3, <1>4 DEF treeAncestorsInclusive

\* A row may be put under any closed set of rows it does not belong to.
LEMMA PutUnderClosed ==
  ASSUME NEW t \in Tables, Acyclic(t), NEW n \in Nodes, NEW row \in Row,
         NEW A \in SUBSET Nodes, Closed(t, A), n \notin A,
         row.parent \in A \cup {None}
  PROVE  Acyclic(With(t, n, row))
<1> DEFINE w == With(t, n, row)
<1>1. SUFFICES ASSUME NEW S \in SUBSET DOMAIN w, S # {}, \A x \in S : w[x].parent \in S
               PROVE  FALSE
  BY DEF Acyclic
<1>2. /\ w \in Tables /\ DOMAIN w = DOMAIN t \cup {n} /\ w[n] = row
      /\ \A x \in DOMAIN t : x # n => w[x] = t[x]
  BY WithRows
<1> HIDE DEF w
<1>3. S \subseteq Nodes  BY <1>1, <1>2, RowParent
<1>4. CASE n \notin S
  <2>1. S \in SUBSET DOMAIN t /\ \A x \in S : t[x].parent \in S  BY <1>1, <1>2, <1>4
  <2> QED  BY <1>1, <2>1 DEF Acyclic
<1>5. CASE n \in S
  <2>1. row.parent \in S \cap A  BY <1>1, <1>2, <1>3, <1>5, NoneAssumption
  <2>2. S \cap A \in SUBSET DOMAIN t  BY <1>2
  <2>3. ASSUME NEW x \in S \cap A  PROVE t[x].parent \in S \cap A
    <3>1. t[x].parent \in S  BY <1>1, <1>2, <2>2
    <3> QED  BY <1>3, <2>2, <3>1, NoneAssumption DEF Closed
  <2> QED  BY <2>1, <2>2, <2>3 DEF Acyclic
<1> QED  BY <1>4, <1>5

\* Insert and Save keep the forest.
LEMMA CheckedWrite ==
  ASSUME NEW t \in Tables, IsForest(t), NEW n \in Nodes, NEW row \in Row, checkTree(t, n, row)
  PROVE  IsForest(With(t, n, row))
<1> DEFINE w == With(t, n, row)
<1>1. Acyclic(t) /\ ParentsAreGroups(t)  BY DEF IsForest
<1>2. /\ w \in Tables /\ DOMAIN w = DOMAIN t \cup {n} /\ w[n] = row
      /\ \A x \in DOMAIN t : x # n => w[x] = t[x]
  BY WithRows, ZenonT(60)
<1>3. row.parent \in Nodes \cup {None} /\ row.group \in BOOLEAN  BY DEF Row
<1>4. Acyclic(w)
  <2>1. CASE row.parent = None
    <3>1. Closed(t, {})  BY DEF Closed
    <3> QED  BY <1>1, <2>1, <3>1, PutUnderClosed
  <2>2. CASE row.parent # None /\ n \in DOMAIN t /\ t[n].parent = row.parent
    <3>1. SUFFICES ASSUME NEW S \in SUBSET DOMAIN w, S # {}, \A x \in S : w[x].parent \in S
                   PROVE  FALSE
      BY DEF Acyclic
    <3>2. S \in SUBSET DOMAIN t  BY <1>2, <2>2
    <3>3. \A x \in S : t[x].parent \in S  BY <1>2, <2>2, <3>1, <3>2
    <3> QED  BY <1>1, <3>1, <3>2, <3>3 DEF Acyclic
  <2>3. CASE row.parent # None /\ n \in DOMAIN t /\ t[n].parent # row.parent
    <3>1. n \notin treeAncestorsInclusive(t, row.parent)  BY <2>3 DEF checkTree
    <3> QED  BY <1>1, <1>3, <2>3, <3>1, AncestorsAreClosed, PutUnderClosed
  <2>4. CASE row.parent # None /\ n \notin DOMAIN t
    <3>1. row.parent \in DOMAIN t  BY <2>4 DEF checkTree
    <3>2. DOMAIN t \in SUBSET Nodes  BY RowParent
    <3>3. Closed(t, DOMAIN t)  BY <1>1 DEF Closed, ParentsAreGroups
    <3> QED  BY <1>1, <2>4, <3>1, <3>2, <3>3, PutUnderClosed
  <2> QED  BY <2>1, <2>2, <2>3, <2>4
<1>5. ParentsAreGroups(w)
  <2>1. SUFFICES ASSUME NEW x \in DOMAIN w, w[x].parent # None
                 PROVE  w[x].parent \in DOMAIN w /\ w[w[x].parent].group
    BY DEF ParentsAreGroups
  <2>2. row.parent # None => row.parent \in DOMAIN t /\ t[row.parent].group
    BY <1>1 DEF checkTree, ParentsAreGroups
  <2>3. w[x].parent \in DOMAIN t /\ t[w[x].parent].group
    BY <1>1, <1>2, <2>1, <2>2 DEF ParentsAreGroups
  <2>4. CASE w[x].parent # n  BY <1>2, <2>3, <2>4
  <2>5. CASE w[x].parent = n
    <3>1. n \in DOMAIN t /\ t[n].group  BY <2>3, <2>5
    <3>2. x # n
      <4>1. row.parent # n
        <5>1. ASSUME row.parent = n  PROVE FALSE
          <6>1. n # None  BY NoneAssumption
          <6>2. t[n].parent = n  BY <3>1, <5>1, <6>1 DEF checkTree
          <6>3. {n} \in SUBSET DOMAIN t  BY <3>1
          <6> QED  BY <1>1, <6>2, <6>3 DEF Acyclic
        <5> QED  BY <5>1
      <4> QED  BY <1>2, <2>5, <4>1
    <3>3. x \in DOMAIN t /\ t[x].parent = n  BY <1>2, <2>1, <2>5, <3>2
    <3>4. treeHasChildren(t, n)  BY <3>3 DEF treeHasChildren
    <3>5. row.group  BY <1>3, <3>1, <3>4 DEF checkTree
    <3> QED  BY <1>2, <2>3, <2>5, <3>5
  <2> QED  BY <2>4, <2>5
<1> QED  BY <1>4, <1>5 DEF IsForest

\* A row without children goes without leaving anything behind.
LEMMA CheckedDelete ==
  ASSUME NEW t \in Tables, IsForest(t), NEW n \in Nodes, ~treeHasChildren(t, n)
  PROVE  IsForest(Without(t, n))
<1> DEFINE w == Without(t, n)
<1>1. Acyclic(t) /\ ParentsAreGroups(t)  BY DEF IsForest
<1>2. w \in Tables /\ DOMAIN w = DOMAIN t \ {n} /\ \A x \in DOMAIN t : x # n => w[x] = t[x]
  BY WithoutRows
<1>3. Acyclic(w)
  <2>1. SUFFICES ASSUME NEW S \in SUBSET DOMAIN w, S # {}, \A x \in S : w[x].parent \in S
                 PROVE  FALSE
    BY DEF Acyclic
  <2>2. S \in SUBSET DOMAIN t /\ \A x \in S : t[x].parent \in S  BY <1>2, <2>1
  <2> QED  BY <1>1, <2>1, <2>2 DEF Acyclic
<1>4. ParentsAreGroups(w)
  BY <1>1, <1>2 DEF ParentsAreGroups, treeHasChildren
<1> QED  BY <1>3, <1>4 DEF IsForest

\* A new id in the place of an old one, in the row and in its children.
LEMMA CheckedRename ==
  ASSUME NEW t \in Tables, IsForest(t), NEW n \in DOMAIN t, NEW m \in Nodes, m \notin DOMAIN t
  PROVE  moveID(t, n, m) \in Tables /\ IsForest(moveID(t, n, m))
<1> DEFINE w == moveID(t, n, m)
           name(x) == IF x = n THEN m ELSE x
<1>1. Acyclic(t) /\ ParentsAreGroups(t)  BY DEF IsForest
<1>2. n \in Nodes /\ t[n] \in Row  BY RowParent
<1>3. PICK u : u = With(Without(t, n), m, t[n])  OBVIOUS
<1>4. /\ u \in Tables /\ DOMAIN u = (DOMAIN t \ {n}) \cup {m} /\ u[m] = t[n]
      /\ \A x \in DOMAIN t : x # n => u[x] = t[x]
  <2>1. PICK v : v = Without(t, n)  OBVIOUS
  <2>2. v \in Tables /\ DOMAIN v = DOMAIN t \ {n} /\ \A x \in DOMAIN t : x # n => v[x] = t[x]
    BY <1>2, <2>1, WithoutRows
  <2>3. PICK r \in Row : r = t[n]  BY <1>2
  <2>4. /\ With(v, m, r) \in Tables /\ DOMAIN With(v, m, r) = DOMAIN v \cup {m}
        /\ With(v, m, r)[m] = r
        /\ \A x \in DOMAIN v : x # m => With(v, m, r)[x] = v[x]
    BY <2>2, WithRows, ZenonT(90)
  <2>5. u = With(v, m, r)  BY <1>3, <2>1, <2>3
  <2> QED  BY <2>2, <2>3, <2>4, <2>5
<1>5. w = repointRefs(u, n, m)  BY <1>3 DEF moveID
<1>6. /\ w \in Tables /\ DOMAIN w = (DOMAIN t \ {n}) \cup {m}
      /\ \A x \in DOMAIN w : w[x].group = u[x].group
                             /\ w[x].parent = IF u[x].parent = n THEN m ELSE u[x].parent
  BY <1>2, <1>4, <1>5, RepointedRows, SMTT(30)
<1> HIDE DEF w
<1>7. \A x \in DOMAIN t : /\ name(x) \in DOMAIN w
                          /\ w[name(x)].group = t[x].group
                          /\ w[name(x)].parent = name(t[x].parent)
  BY <1>4, <1>6
<1>8. \A y \in DOMAIN w : \E x \in DOMAIN t : y = name(x)
  BY <1>6
<1>9. Acyclic(w)
  <2>1. SUFFICES ASSUME NEW S \in SUBSET DOMAIN w, S # {}, \A y \in S : w[y].parent \in S
                 PROVE  FALSE
    BY DEF Acyclic
  <2> DEFINE T == {x \in DOMAIN t : name(x) \in S}
  <2>2. T \in SUBSET DOMAIN t /\ T # {}  BY <1>8, <2>1
  <2>3. ASSUME NEW x \in T  PROVE t[x].parent \in T
    <3>1. name(t[x].parent) \in S  BY <1>7, <2>1
    <3>2. t[x].parent # None
      <4>1. None \notin DOMAIN w  BY <1>6, NoneAssumption, RowParent
      <4>2. None # n  BY <1>2, NoneAssumption
      <4> QED  BY <2>1, <3>1, <4>1, <4>2
    <3>3. t[x].parent \in DOMAIN t  BY <1>1, <3>2 DEF ParentsAreGroups
    <3> QED  BY <3>1, <3>3
  <2> QED  BY <1>1, <2>2, <2>3 DEF Acyclic
<1>10. ParentsAreGroups(w)
  <2>1. SUFFICES ASSUME NEW x \in DOMAIN t, w[name(x)].parent # None
                 PROVE  w[name(x)].parent \in DOMAIN w /\ w[w[name(x)].parent].group
    BY <1>8 DEF ParentsAreGroups
  <2>2. t[x].parent # None
    <3>1. None # n  BY <1>2, NoneAssumption
    <3> QED  BY <1>7, <2>1, <3>1
  <2>3. t[x].parent \in DOMAIN t /\ t[t[x].parent].group  BY <1>1, <2>2 DEF ParentsAreGroups
  <2>4. name(t[x].parent) \in DOMAIN w /\ w[name(t[x].parent)].group  BY <1>7, <2>3
  <2> QED  BY <1>7, <2>4
<1> QED  BY <1>6, <1>9, <1>10 DEF IsForest, w

\* The rows above the surviving node do not include the one that goes, so its
\* children may hang there.
LEMMA CheckedMerge ==
  ASSUME NEW t \in Tables, IsForest(t), NEW n \in Nodes, NEW m \in Nodes, mergeChecks(t, n, m)
  PROVE  /\ Without(repointRefs(t, n, m), n) \in Tables
         /\ IsForest(Without(repointRefs(t, n, m), n))
<1> DEFINE A == treeAncestorsInclusive(t, m)
<1>1. Acyclic(t) /\ ParentsAreGroups(t)  BY DEF IsForest
<1>2. n # m /\ n \in DOMAIN t /\ m \in DOMAIN t /\ n \notin A
      /\ (treeHasChildren(t, n) => t[m].group)
  BY DEF mergeChecks
<1>3. PICK u : u = repointRefs(t, n, m)  OBVIOUS
<1>4. /\ u \in Tables /\ DOMAIN u = DOMAIN t
      /\ \A x \in DOMAIN t : /\ u[x].group = t[x].group
                             /\ u[x].parent = IF t[x].parent = n THEN m ELSE t[x].parent
  BY <1>3, RepointedRows
<1>5. n # None /\ m # None  BY NoneAssumption
<1>6. Acyclic(u)
  <2>1. SUFFICES ASSUME NEW S \in SUBSET DOMAIN u, S # {}, \A x \in S : u[x].parent \in S
                 PROVE  FALSE
    BY DEF Acyclic
  <2>2. m \in A /\ A \subseteq Nodes /\ Closed(t, A)  BY AncestorsAreClosed
  <2> HIDE DEF A
  <2>3. S \in SUBSET DOMAIN t /\ S \subseteq Nodes  BY <1>4, <2>1, RowParent
  <2>4. CASE m \notin S
    <3>1. \A x \in S : t[x].parent \in S  BY <1>4, <2>1, <2>3, <2>4
    <3> QED  BY <1>1, <2>1, <2>3, <3>1 DEF Acyclic
  <2>5. CASE m \in S
    <3>1. S \cap A \in SUBSET DOMAIN t /\ S \cap A # {}  BY <2>2, <2>3, <2>5
    <3>2. ASSUME NEW x \in S \cap A  PROVE t[x].parent \in S \cap A
      <4>1. x \in DOMAIN t /\ u[x].parent \in S  BY <2>1, <3>1
      <4>2. t[x].parent # None
        <5>1. u[x].parent # None  BY <2>3, <4>1, NoneAssumption
        <5> QED  BY <1>4, <1>5, <4>1, <5>1
      <4>3. t[x].parent \in A  BY <2>2, <4>1, <4>2 DEF Closed
      <4>4. u[x].parent = t[x].parent  BY <1>2, <1>4, <4>1, <4>3
      <4> QED  BY <4>1, <4>3, <4>4
    <3> QED  BY <1>1, <3>1, <3>2 DEF Acyclic
  <2> QED  BY <2>4, <2>5
<1>7. ParentsAreGroups(u)
  <2>1. SUFFICES ASSUME NEW x \in DOMAIN t, u[x].parent # None
                 PROVE  u[x].parent \in DOMAIN t /\ u[u[x].parent].group
    BY <1>4 DEF ParentsAreGroups
  <2>2. CASE t[x].parent = n
    <3>1. treeHasChildren(t, n)  BY <2>2 DEF treeHasChildren
    <3> QED  BY <1>2, <1>4, <2>1, <2>2, <3>1
  <2>3. CASE t[x].parent # n
    <3>1. u[x].parent = t[x].parent  BY <1>4, <2>1, <2>3
    <3>2. t[x].parent \in DOMAIN t /\ t[t[x].parent].group
      BY <1>1, <2>1, <3>1 DEF ParentsAreGroups
    <3> QED  BY <1>4, <3>1, <3>2
  <2> QED  BY <2>2, <2>3
<1>8. ~treeHasChildren(u, n)
  BY <1>2, <1>4 DEF treeHasChildren
<1>9. IsForest(u)  BY <1>6, <1>7 DEF IsForest
<1>10. IsForest(Without(u, n))  BY <1>4, <1>8, <1>9, CheckedDelete
<1>11. Without(u, n) \in Tables  BY <1>4, WithoutRows
<1> QED  BY <1>3, <1>10, <1>11


\* A rename renames the row if there is one, and sends its children along.
LEMMA RenamedRows ==
  ASSUME NEW t \in Tables, NEW n \in Nodes, NEW m \in Nodes
  PROVE  /\ moveID(t, n, m) \in Tables
         /\ DOMAIN moveID(t, n, m) = IF n \in DOMAIN t THEN (DOMAIN t \ {n}) \cup {m} ELSE DOMAIN t
<1>1. CASE n \in DOMAIN t
  <2>1. t[n] \in Row  BY <1>1, RowParent
  <2>2. Without(t, n) \in Tables /\ DOMAIN Without(t, n) = DOMAIN t \ {n}  BY WithoutRows
  <2>3. PICK u : u = With(Without(t, n), m, t[n])  OBVIOUS
  <2>4. u \in Tables /\ DOMAIN u = (DOMAIN t \ {n}) \cup {m}  BY <2>1, <2>2, <2>3, WithRows
  <2>5. moveID(t, n, m) = repointRefs(u, n, m)  BY <1>1, <2>3 DEF moveID
  <2> QED  BY <1>1, <2>4, <2>5, RepointedRows
<1>2. CASE n \notin DOMAIN t
  <2>1. moveID(t, n, m) = repointRefs(t, n, m)  BY <1>2 DEF moveID
  <2> QED  BY <1>2, <2>1, RepointedRows
<1> QED  BY <1>1, <1>2

\* Nothing hangs from a row that is not there, so its rename changes nothing.
LEMMA RenameOfNothing ==
  ASSUME NEW t \in Tables, ParentsAreGroups(t), NEW n \in Nodes, n \notin DOMAIN t, NEW m \in Nodes
  PROVE  moveID(t, n, m) = t
<1>1. moveID(t, n, m) = repointRefs(t, n, m)  BY DEF moveID
<1>2. \A x \in DOMAIN t : t[x].parent # n  BY NoneAssumption DEF ParentsAreGroups
<1>3. t = [x \in DOMAIN t |-> t[x]]  BY DEF Tables
<1> QED  BY <1>1, <1>2, <1>3 DEF repointRefs

-----------------------------------------------------------------------------
(* The inductive invariant.                                                *)

Transaction == [pc: PCs, req: Requests \cup {None}, moved: SUBSET Links, late: BOOLEAN]

Types ==
  /\ tab \in Tables /\ draft \in Tables
  /\ DOMAIN link \subseteq Links /\ link \in [DOMAIN link -> Nodes]
  /\ tx \in [Writers -> Transaction]
  /\ treeLock \in Writers \cup {NoOne} /\ rowLock \in [Nodes -> Writers \cup {NoOne}]
  /\ treeLock = NoOne => draft = tab
  /\ begun \in 0..MaxTx /\ late \in BOOLEAN /\ excused \subseteq Links

\* Where each operation can be.
Shape(w) ==
  /\ Pc(w) # "idle" => Req(w) \in Requests
  /\ Pc(w) = "before" => Req(w).op \in {"rename", "merge", "link"}
  /\ Pc(w) = "row" => Req(w).op = "workflow"
  /\ Pc(w) = "lock" => Req(w).op # "link"
  /\ Pc(w) = "write" => Req(w).op \in {"insert", "save", "workflow", "rename", "merge"}
  /\ Pc(w) \in {"delete", "remove"} => Req(w).op \in {"delete", "merge"}
  /\ Pc(w) \in {"before", "row", "lock", "write"} \/ Req(w).op \notin {"rename", "merge"}
       => tx[w].moved = {} /\ ~tx[w].late

\* It is between lockTree and its end.
Holding(w) == Pc(w) \in {"write", "delete", "remove"} \/ (Pc(w) = "commit" /\ Req(w).op # "link")

\* A merge has handed the children on, late unless its checks still held.
Handed(w) == tx[w].late \/ mergeChecks(tab, Doc(w), Req(w).to)

\* What the holder of the tree's lock has in its draft: the committed rows, or
\* those with its own operation done, which its checks allowed on them.
Drafted(w) ==
  LET n == Doc(w)  m == Req(w).to  row == Req(w).row
  IN  /\ Pc(w) = "write" \/ At(w, "delete", {"delete"}) => draft = tab
      /\ At(w, "remove", {"delete"}) => draft = tab /\ n \in DOMAIN tab /\ ~treeHasChildren(tab, n)
      /\ Pc(w) \in {"delete", "remove"} /\ Req(w).op = "merge"
           => draft = repointRefs(tab, n, m) /\ Handed(w)
      /\ At(w, "commit", {"insert"}) => n \notin DOMAIN tab
      /\ At(w, "commit", {"save"}) => n \in DOMAIN tab
      /\ At(w, "commit", {"insert", "save"}) => checkTree(tab, n, row) /\ draft = With(tab, n, row)
      /\ At(w, "commit", {"workflow"}) => draft = tab
      /\ At(w, "commit", {"delete"})
           => n \in DOMAIN tab /\ ~treeHasChildren(tab, n) /\ draft = Without(tab, n)
      /\ At(w, "commit", {"rename"})
           => (n \in DOMAIN tab => m \notin DOMAIN tab) /\ draft = moveID(tab, n, m)
      /\ At(w, "commit", {"merge"})
           => draft = Without(repointRefs(tab, n, m), n) /\ Handed(w)

\* Its row locks are taken under the tree's, except by an approval.
RowsHeld(w) ==
  \A n \in Nodes : rowLock[n] = w => Pc(w) # "idle" /\ (treeLock = w \/ Req(w).op = "workflow")

WriterInv(w) ==
  Shape(w) /\ (Holding(w) <=> treeLock = w) /\ Drafted(w) /\ RowsHeld(w)

IInv == Types /\ \A w \in Writers : WriterInv(w)

-----------------------------------------------------------------------------
(* A writer's step disturbs nobody else: it moves its own transaction, takes *)
(* locks that are free, and writes the rows only as holder of the tree.     *)

Frame(w) ==
  \A v \in Writers \ {w} :
    /\ tx'[v] = tx[v]
    /\ treeLock' = v <=> treeLock = v
    /\ treeLock = v => draft' = draft /\ tab' = tab
    /\ \A n \in Nodes : rowLock'[n] = v => rowLock[n] = v

Keeps(w) == Types' /\ Frame(w) /\ WriterInv(w)'

LEMMA Bystander ==
  ASSUME IInv, NEW w \in Writers, NEW v \in Writers \ {w}, Frame(w)
  PROVE  WriterInv(v)'
<1>1. WriterInv(v)  BY DEF IInv
<1>2. tx'[v] = tx[v] /\ (treeLock' = v <=> treeLock = v)  BY DEF Frame
<1>3. treeLock = v => draft' = draft /\ tab' = tab  BY DEF Frame
<1>4. Shape(v)'  BY <1>1, <1>2 DEF WriterInv, Shape, Pc, Req
<1>5. Holding(v)' <=> Holding(v)  BY <1>2 DEF Holding, Pc, Req
<1>6. Drafted(v)'
  <2>1. CASE Holding(v)
    <3>1. draft' = draft /\ tab' = tab  BY <1>1, <1>3, <2>1 DEF WriterInv
    <3> QED  BY <1>1, <1>2, <3>1
         DEF WriterInv, Drafted, Handed, At, Pc, Req, Doc
  <2>2. CASE ~Holding(v)
    BY <1>5, <2>2 DEF Holding, Drafted, At
  <2> QED  BY <2>1, <2>2
<1>7. RowsHeld(v)'
  BY <1>1, <1>2 DEF WriterInv, RowsHeld, Frame, Pc, Req
<1> QED  BY <1>1, <1>2, <1>4, <1>5, <1>6, <1>7 DEF WriterInv

LEMMA StepKeeps ==
  ASSUME IInv, NEW w \in Writers, Keeps(w)
  PROVE  IInv'
BY Bystander DEF IInv, Keeps

\* COMMIT and ROLLBACK leave an idle writer without locks.
LEMMA Released ==
  ASSUME Types, NEW w \in Writers, Release(w)
  PROVE  /\ treeLock' = IF treeLock = w THEN NoOne ELSE treeLock
         /\ tx' = [tx EXCEPT ![w] = Idle] /\ tx'[w] = Idle
         /\ tx' \in [Writers -> Transaction]
         /\ rowLock' \in [Nodes -> Writers \cup {NoOne}]
         /\ \A n \in Nodes : rowLock'[n] # w
         /\ \A v \in Writers \ {w}, n \in Nodes : rowLock'[n] = v => rowLock[n] = v
<1>1. Idle \in Transaction
  BY DEF Transaction, Idle, PCs
<1>2. w # NoOne  BY WritersAssumption DEF NoOne
<1>3. /\ treeLock' = IF treeLock = w THEN NoOne ELSE treeLock
      /\ tx' = [tx EXCEPT ![w] = Idle]
      /\ rowLock' = [n \in Nodes |-> IF rowLock[n] = w THEN NoOne ELSE rowLock[n]]
  BY DEF Release
<1>4. /\ tx'[w] = Idle
      /\ tx' \in [Writers -> Transaction]
  BY <1>1, <1>3 DEF Types
<1>5. /\ rowLock' \in [Nodes -> Writers \cup {NoOne}]
      /\ \A n \in Nodes : rowLock'[n] # w
      /\ \A v \in Writers \ {w}, n \in Nodes : rowLock'[n] = v => rowLock[n] = v
  BY <1>2, <1>3, WritersAssumption DEF Types, NoOne
<1> QED  BY <1>3, <1>4, <1>5

LEMMA IdleInv ==
  ASSUME NEW w \in Writers, tx'[w] = Idle, treeLock' # w, \A n \in Nodes : rowLock'[n] # w
  PROVE  WriterInv(w)'
BY DEF WriterInv, Shape, Holding, Drafted, RowsHeld, At, Pc, Req, Idle

LEMMA RollbackKeeps ==
  ASSUME IInv, NEW w \in Writers, Rollback(w)
  PROVE  Keeps(w) /\ UNCHANGED <<tab, link, begun, late, excused>>
<1>1. w # NoOne  BY WritersAssumption DEF NoOne
<1>2. Types /\ Release(w)  BY DEF IInv, Rollback
<1>3. /\ draft' = IF treeLock = w THEN tab ELSE draft
      /\ UNCHANGED <<tab, link, begun, late, excused>>
  BY DEF Rollback
<1>4. Types'  BY <1>2, <1>3, Released DEF Types
<1>5. Frame(w)
  <2>1. SUFFICES ASSUME NEW v \in Writers \ {w}
                 PROVE  /\ tx'[v] = tx[v] /\ (treeLock' = v <=> treeLock = v)
                        /\ treeLock = v => draft' = draft /\ tab' = tab
                        /\ \A n \in Nodes : rowLock'[n] = v => rowLock[n] = v
    BY DEF Frame
  <2>2. tx'[v] = tx[v]  BY <1>2, Released DEF Types
  <2>3. treeLock' = v <=> treeLock = v  BY <1>2, Released, WritersAssumption DEF NoOne
  <2> QED  BY <1>2, <1>3, <2>2, <2>3, Released
<1>6. WriterInv(w)'  BY <1>1, <1>2, Released, IdleInv
<1> QED  BY <1>3, <1>4, <1>5, <1>6 DEF Keeps

\* A step that commits nothing.
LEMMA OwnStep ==
  ASSUME IInv, NEW w \in Writers, NEW m \in Transaction, tx' = [tx EXCEPT ![w] = m],
         \/ treeLock' = treeLock /\ (treeLock = w \/ draft' = draft)
         \/ treeLock = NoOne /\ treeLock' = w,
         draft' \in Tables, UNCHANGED <<tab, link, late, excused>>, begun' \in 0..MaxTx,
         NEW rows \in SUBSET Nodes, rowLock' = rowLock \/ Hold(w, rows),
         WriterInv(w)'
  PROVE  Keeps(w)
<1>1. w # NoOne  BY WritersAssumption DEF NoOne
<1>2. Types  BY DEF IInv
<1>3. rowLock' \in [Nodes -> Writers \cup {NoOne}]  BY <1>2 DEF Types, Hold
<1>4. tx' \in [Writers -> Transaction]  BY <1>2 DEF Types
<1>5. Types'  BY <1>1, <1>2, <1>3, <1>4 DEF Types
<1>6. Frame(w)
  <2>1. SUFFICES ASSUME NEW v \in Writers \ {w}
                 PROVE  /\ tx'[v] = tx[v] /\ (treeLock' = v <=> treeLock = v)
                        /\ treeLock = v => draft' = draft /\ tab' = tab
                        /\ \A n \in Nodes : rowLock'[n] = v => rowLock[n] = v
    BY DEF Frame
  <2>2. tx'[v] = tx[v]  BY <1>2 DEF Types
  <2>3. v # NoOne  BY WritersAssumption DEF NoOne
  <2>4. \A n \in Nodes : rowLock'[n] = v => rowLock[n] = v  BY DEF Hold
  <2> QED  BY <2>2, <2>3, <2>4
<1> QED  BY <1>5, <1>6 DEF Keeps

LEMMA BeginKeeps ==
  ASSUME IInv, NEW w \in Writers, NEW q \in Requests, Begin(w, q)
  PROVE  Keeps(w)
<1> DEFINE m == [pc |-> First(q.op), req |-> q, moved |-> {}, late |-> FALSE]
<1>1. Types /\ WriterInv(w)  BY DEF IInv
<1>2. q.op \in {"insert", "save", "workflow", "delete", "rename", "merge", "link"}  BY DEF Requests
<1>3. First(q.op) \in PCs  BY <1>2 DEF First, PCs
<1>4. m \in Transaction  BY <1>3 DEF Transaction
<1>5. tx' = [tx EXCEPT ![w] = m] /\ tx'[w] = m  BY <1>1 DEF Begin, Types
<1> HIDE DEF m
<1>6. WriterInv(w)'
  <2>1. m.pc = First(q.op) /\ m.req = q /\ m.moved = {} /\ ~m.late  BY DEF m
  <2>2. treeLock # w /\ (\A n \in Nodes : rowLock[n] # w)
    BY <1>1 DEF Begin, WriterInv, Holding, RowsHeld
  <2>3. Shape(w)'  BY <1>2, <1>5, <2>1 DEF Shape, First, Pc, Req
  <2>4. ~Holding(w)'  BY <1>2, <1>5, <2>1 DEF Holding, First, Pc, Req
  <2>5. Drafted(w)'  BY <2>4 DEF Drafted, Holding, At
  <2> QED  BY <2>2, <2>3, <2>4, <2>5 DEF WriterInv, RowsHeld, Begin
<1>7. begun' \in 0..MaxTx  BY <1>1, MaxTxAssumption DEF Types, Begin
<1>8. draft' \in Tables  BY <1>1 DEF Types, Begin
<1> QED  BY <1>4, <1>5, <1>6, <1>7, <1>8, OwnStep DEF Begin

LEMMA Goes ==
  ASSUME Types, NEW w \in Writers, NEW pc \in PCs, Goto(w, pc)
  PROVE  /\ [tx[w] EXCEPT !.pc = pc] \in Transaction
         /\ tx' = [tx EXCEPT ![w] = [tx[w] EXCEPT !.pc = pc]]
         /\ Pc(w)' = pc /\ Req(w)' = Req(w)
         /\ tx'[w].moved = tx[w].moved /\ tx'[w].late = tx[w].late
<1>1. tx[w] \in Transaction /\ tx' = [tx EXCEPT ![w].pc = pc]  BY DEF Types, Goto
<1>2. [tx[w] EXCEPT !.pc = pc] \in Transaction  BY <1>1 DEF Transaction
<1>3. tx' = [tx EXCEPT ![w] = [tx[w] EXCEPT !.pc = pc]]  BY <1>1
<1>4. tx'[w] = [tx[w] EXCEPT !.pc = pc]  BY <1>3 DEF Types
<1>5. /\ tx'[w].pc = pc /\ tx'[w].req = tx[w].req
      /\ tx'[w].moved = tx[w].moved /\ tx'[w].late = tx[w].late
  BY <1>1, <1>4 DEF Transaction
<1> QED  BY <1>2, <1>3, <1>5 DEF Pc, Req

\* A step that only goes on, without the lock of the tree or with it.
LEMMA GoesOn ==
  ASSUME IInv, NEW w \in Writers, NEW pc \in PCs, Goto(w, pc),
         treeLock' = treeLock \/ (treeLock = NoOne /\ treeLock' = w),
         draft' = draft \/ (treeLock' = w /\ draft' \in Tables),
         UNCHANGED <<tab, link, begun, late, excused>>,
         NEW rows \in SUBSET Nodes, rowLock' = rowLock \/ Hold(w, rows),
         WriterInv(w)'
  PROVE  Keeps(w)
<1>1. Types  BY DEF IInv
<1>2. begun' \in 0..MaxTx /\ draft' \in Tables  BY <1>1 DEF Types
<1> QED  BY <1>1, <1>2, Goes, OwnStep

LEMMA LockTreeKeeps ==
  ASSUME IInv, NEW w \in Writers, lockTree(w)
  PROVE  Keeps(w)
<1> DEFINE pc == IF Req(w).op = "delete" THEN "delete" ELSE "write"
<1>1. Types /\ WriterInv(w)  BY DEF IInv
<1>2. pc \in PCs /\ Goto(w, pc)  BY DEF lockTree, PCs
<1>3. /\ Pc(w)' = pc /\ Req(w)' = Req(w)
      /\ tx'[w].moved = tx[w].moved /\ tx'[w].late = tx[w].late
  BY <1>1, <1>2, Goes
<1>4. Pc(w) = "lock" /\ Req(w) \in Requests /\ Req(w).op # "link" /\ tx[w].moved = {} /\ ~tx[w].late
  BY <1>1 DEF lockTree, WriterInv, Shape
<1>5. WriterInv(w)'
  <2>1. Req(w).op \in {"insert", "save", "workflow", "delete", "rename", "merge"}
    BY <1>4 DEF Requests
  <2>2. Shape(w)'  BY <1>3, <1>4, <2>1 DEF Shape
  <2>3. Holding(w)' /\ treeLock' = w  BY <1>3 DEF Holding, lockTree
  <2>4. Drafted(w)'  BY <1>3 DEF Drafted, At, lockTree
  <2>5. RowsHeld(w)'  BY <1>3, <2>3 DEF RowsHeld
  <2> QED  BY <2>2, <2>3, <2>4, <2>5 DEF WriterInv
<1> HIDE DEF pc
<1>6. treeLock = NoOne /\ treeLock' = w /\ draft' \in Tables  BY <1>1 DEF Types, lockTree
<1> QED  BY <1>2, <1>5, <1>6, GoesOn DEF lockTree

LEMMA LockRowKeeps ==
  ASSUME IInv, NEW w \in Writers, LockRow(w)
  PROVE  Keeps(w)
<1>1. CASE Doc(w) \notin DOMAIN tab  BY <1>1, RollbackKeeps DEF LockRow
<1>2. CASE Doc(w) \in DOMAIN tab
  <2>1. /\ Pc(w) = "row" /\ Goto(w, "lock") /\ Hold(w, {Doc(w)})
        /\ UNCHANGED <<tab, link, draft, treeLock, begun, late, excused>>
    BY <1>2 DEF LockRow
  <2>2. Types /\ WriterInv(w)  BY DEF IInv
  <2>3. Doc(w) \in Nodes  BY <1>2, <2>2, RowParent DEF Types
  <2>4. "lock" \in PCs  BY DEF PCs
  <2>5. /\ Pc(w)' = "lock" /\ Req(w)' = Req(w)
        /\ tx'[w].moved = tx[w].moved /\ tx'[w].late = tx[w].late
    BY <2>1, <2>2, <2>4, Goes
  <2>6. Req(w).op = "workflow"  BY <2>1, <2>2 DEF WriterInv, Shape
  <2>7. Shape(w)'  BY <2>1, <2>2, <2>5, <2>6 DEF WriterInv, Shape
  <2>8. ~Holding(w)' /\ treeLock' # w  BY <2>1, <2>2, <2>5 DEF WriterInv, Holding
  <2>9. Drafted(w)'  BY <2>5 DEF Drafted, At
  <2>10. RowsHeld(w)'  BY <2>5, <2>6 DEF RowsHeld
  <2>11. WriterInv(w)'  BY <2>7, <2>8, <2>9, <2>10 DEF WriterInv
  <2> QED  BY <2>1, <2>3, <2>4, <2>11, GoesOn
<1> QED  BY <1>1, <1>2

LEMMA BeforeKeeps ==
  ASSUME IInv, NEW w \in Writers, Before(w)
  PROVE  Keeps(w)
<1> DEFINE pc == IF Req(w).op = "link" THEN "commit" ELSE "lock"
<1>1. CASE Rollback(w)  BY <1>1, RollbackKeeps
<1>2. CASE Goto(w, pc) /\ UNCHANGED <<tab, link, draft, treeLock, rowLock, begun, late, excused>>
  <2>1. Types /\ WriterInv(w) /\ Pc(w) = "before"  BY DEF IInv, Before
  <2>2. pc \in PCs  BY DEF PCs
  <2>3. /\ Pc(w)' = pc /\ Req(w)' = Req(w)
        /\ tx'[w].moved = tx[w].moved /\ tx'[w].late = tx[w].late
    BY <1>2, <2>1, <2>2, Goes
  <2>4. Shape(w)'  BY <2>1, <2>3 DEF WriterInv, Shape
  <2>5. ~Holding(w)' /\ treeLock' # w  BY <1>2, <2>1, <2>3 DEF WriterInv, Holding
  <2>6. Drafted(w)'  BY <2>3, <2>5 DEF Drafted, Holding, At
  <2>7. RowsHeld(w)'  BY <1>2, <2>1, <2>3 DEF WriterInv, RowsHeld
  <2>8. WriterInv(w)'  BY <2>4, <2>5, <2>6, <2>7 DEF WriterInv
  <2> HIDE DEF pc
  <2> QED  BY <1>2, <2>2, <2>8, GoesOn
<1> QED  BY <1>1, <1>2 DEF Before

LEMMA RequestTypes ==
  ASSUME NEW q \in Requests
  PROVE  /\ q.op \in {"insert", "save", "workflow", "delete", "rename", "merge", "link"}
         /\ q.doc \in Nodes /\ q.force \in BOOLEAN
         /\ q.op \in {"insert", "save"} => q.row \in Row
         /\ q.op \in {"rename", "merge"} => q.to \in Nodes
         /\ q.op = "link" => q.to \in Links
         /\ q.op # "delete" => ~q.force
BY DEF Requests

\* The holder writes under the lock, and keeps it.
LEMMA HolderKeeps ==
  ASSUME IInv, NEW w \in Writers, Holding(w), NEW pc \in {"remove", "commit"}, Goto(w, pc),
         draft' \in Tables, UNCHANGED <<tab, link, treeLock, begun, late, excused>>,
         NEW rows \in SUBSET Nodes, rowLock' = rowLock \/ Hold(w, rows),
         Shape(w)', Drafted(w)'
  PROVE  Keeps(w)
<1>1. Types /\ WriterInv(w) /\ treeLock = w  BY DEF IInv, WriterInv
<1>2. pc \in PCs  BY DEF PCs
<1>3. Pc(w)' = pc /\ Req(w)' = Req(w)  BY <1>1, <1>2, Goes
<1>4. Req(w).op # "link"  BY <1>1 DEF WriterInv, Shape, Holding
<1>5. Holding(w)' /\ treeLock' = w  BY <1>1, <1>3, <1>4 DEF Holding
<1>6. RowsHeld(w)'  BY <1>3, <1>5 DEF RowsHeld
<1>7. WriterInv(w)'  BY <1>5, <1>6 DEF WriterInv
<1> QED  BY <1>2, <1>5, <1>7, GoesOn

\* The holder about to write has the committed rows before it, and nothing to
\* its name.
LEMMA AtWrite ==
  ASSUME IInv, NEW w \in Writers, Pc(w) = "write"
  PROVE  /\ Types /\ Holding(w) /\ draft = tab /\ Req(w) \in Requests
         /\ Doc(w) \in Nodes /\ tx[w].moved = {} /\ ~tx[w].late
         /\ "commit" \in PCs /\ "delete" \in PCs
BY RequestTypes DEF IInv, WriterInv, Shape, Holding, Drafted, Doc, PCs

LEMMA InsertOrSaveKeeps ==
  ASSUME IInv, NEW w \in Writers, InsertRow(w) \/ SaveRow(w)
  PROVE  Keeps(w)
<1>1. CASE Rollback(w)  BY <1>1, RollbackKeeps
<1>2. CASE /\ Pc(w) = "write" /\ Req(w).op \in {"insert", "save"}
           /\ Req(w).op = "insert" <=> Doc(w) \notin DOMAIN draft
           /\ checkTree(draft, Doc(w), Req(w).row)
           /\ Written(w, With(draft, Doc(w), Req(w).row), "commit") /\ Hold(w, {Doc(w)})
  <2>1. /\ Types /\ Holding(w) /\ draft = tab /\ Req(w) \in Requests
        /\ Doc(w) \in Nodes /\ tx[w].moved = {} /\ ~tx[w].late
    BY <1>2, AtWrite
  <2>2. Req(w).row \in Row  BY <1>2, <2>1, RequestTypes
  <2>3. draft' \in Tables  BY <1>2, <2>1, <2>2, WithRows DEF Types, Written
  <2>4. "commit" \in PCs /\ Goto(w, "commit")  BY <1>2 DEF Written, PCs
  <2>5. /\ Pc(w)' = "commit" /\ Req(w)' = Req(w)
        /\ tx'[w].moved = tx[w].moved /\ tx'[w].late = tx[w].late
    BY <2>1, <2>4, Goes
  <2>6. Shape(w)'  BY <2>1, <2>5 DEF Shape
  <2>7. Drafted(w)'  BY <1>2, <2>1, <2>5 DEF Drafted, At, Written, Doc
  <2> QED  BY <1>2, <2>1, <2>3, <2>4, <2>6, <2>7, HolderKeeps DEF Written
<1> QED  BY <1>1, <1>2 DEF InsertRow, SaveRow, At, Doc

LEMMA TransitionKeeps ==
  ASSUME IInv, NEW w \in Writers, TransitionRow(w)
  PROVE  Keeps(w)
<1>1. /\ Pc(w) = "write" /\ Req(w).op = "workflow" /\ draft' = draft /\ Goto(w, "commit")
      /\ UNCHANGED <<tab, link, treeLock, rowLock, begun, late, excused>>
  BY DEF TransitionRow, At, Written
<1>2. /\ Types /\ Holding(w) /\ draft = tab /\ Req(w) \in Requests
      /\ tx[w].moved = {} /\ ~tx[w].late /\ "commit" \in PCs
  BY <1>1, AtWrite
<1>3. /\ Pc(w)' = "commit" /\ Req(w)' = Req(w)
      /\ tx'[w].moved = tx[w].moved /\ tx'[w].late = tx[w].late
  BY <1>1, <1>2, Goes
<1>4. Shape(w)'  BY <1>2, <1>3 DEF Shape
<1>5. Drafted(w)'  BY <1>1, <1>2, <1>3 DEF Drafted, At
<1>6. draft' \in Tables  BY <1>1, <1>2 DEF Types
<1>7. {} \in SUBSET Nodes  OBVIOUS
<1> QED  BY <1>1, <1>2, <1>4, <1>5, <1>6, <1>7, HolderKeeps

\* The rows a sweep locks are rows of the table.
LEMMA SweepRows ==
  ASSUME IInv, NEW w \in Writers, Pc(w) = "write"
  PROVE  RowsNeeded(w) \in SUBSET Nodes
<1>1. Types /\ Doc(w) \in Nodes  BY AtWrite
<1>2. Children(draft, Doc(w)) \subseteq Nodes  BY <1>1, RowParent DEF Children, Types
<1> QED  BY <1>1, <1>2 DEF RowsNeeded

\* A rename or a merge that has swept the children and the links.
LEMMA SweptTx ==
  ASSUME Types, NEW w \in Writers, NEW pc \in PCs, NEW b \in BOOLEAN,
         tx' = [tx EXCEPT ![w].pc = pc, ![w].moved = Swept(w), ![w].late = b]
  PROVE  /\ [tx[w] EXCEPT !.pc = pc, !.moved = Swept(w), !.late = b] \in Transaction
         /\ tx' = [tx EXCEPT ![w] = [tx[w] EXCEPT !.pc = pc, !.moved = Swept(w), !.late = b]]
         /\ Pc(w)' = pc /\ Req(w)' = Req(w) /\ tx'[w].late = b /\ tx'[w].moved = Swept(w)
<1>1. tx[w] \in Transaction /\ Swept(w) \in SUBSET Links  BY DEF Types, Swept
<1>2. [tx[w] EXCEPT !.pc = pc, !.moved = Swept(w), !.late = b] \in Transaction
  BY <1>1 DEF Transaction
<1>3. tx' = [tx EXCEPT ![w] = [tx[w] EXCEPT !.pc = pc, !.moved = Swept(w), !.late = b]]
  OBVIOUS
<1>4. tx'[w] = [tx[w] EXCEPT !.pc = pc, !.moved = Swept(w), !.late = b]
  BY <1>3 DEF Types
<1>5. tx'[w].pc = pc /\ tx'[w].req = tx[w].req /\ tx'[w].late = b /\ tx'[w].moved = Swept(w)
  BY <1>1, <1>4, ZenonT(60) DEF Transaction
<1> QED  BY <1>2, <1>3, <1>5 DEF Pc, Req

LEMMA RenameKeeps ==
  ASSUME IInv, NEW w \in Writers, RenameRow(w)
  PROVE  Keeps(w)
<1>1. CASE Rollback(w)  BY <1>1, RollbackKeeps
<1>2. CASE /\ Doc(w) \in DOMAIN draft => Req(w).to \notin DOMAIN draft
           /\ draft' = moveID(draft, Doc(w), Req(w).to)
           /\ tx' = [tx EXCEPT ![w].pc = "commit", ![w].moved = Swept(w)]
           /\ Hold(w, RowsNeeded(w))
           /\ UNCHANGED <<tab, link, treeLock, begun, late, excused>>
  <2>1. Pc(w) = "write" /\ Req(w).op = "rename"  BY DEF RenameRow, At
  <2>2. /\ Types /\ Holding(w) /\ draft = tab /\ Req(w) \in Requests
        /\ Doc(w) \in Nodes /\ ~tx[w].late /\ "commit" \in PCs
    BY <2>1, AtWrite
  <2>3. Req(w).to \in Nodes  BY <2>1, <2>2, RequestTypes
  <2>4. draft' \in Tables  BY <1>2, <2>2, <2>3, RenamedRows DEF Types
  <2>5. tx' = [tx EXCEPT ![w].pc = "commit", ![w].moved = Swept(w), ![w].late = FALSE]
    <3>1. tx[w] \in Transaction /\ tx[w].late = FALSE  BY <2>2 DEF Types, Transaction
    <3>2. [tx[w] EXCEPT !.pc = "commit", !.moved = Swept(w)]
            = [tx[w] EXCEPT !.pc = "commit", !.moved = Swept(w), !.late = FALSE]
      BY <3>1 DEF Transaction
    <3> QED  BY <1>2, <3>2
  <2>6. PICK m \in Transaction : tx' = [tx EXCEPT ![w] = m]  BY <2>2, <2>5, SweptTx
  <2>7. Pc(w)' = "commit" /\ Req(w)' = Req(w)  BY <2>2, <2>5, SweptTx
  <2>8. treeLock = w /\ treeLock' = w  BY <1>2, <2>2 DEF IInv, WriterInv
  <2>9. WriterInv(w)'
    <3>1. Shape(w)'  BY <2>1, <2>2, <2>7 DEF Shape
    <3>2. Holding(w)'  BY <2>1, <2>7 DEF Holding
    <3>3. Drafted(w)'  BY <1>2, <2>1, <2>2, <2>7 DEF Drafted, At, Doc
    <3>4. RowsHeld(w)'  BY <2>7, <2>8 DEF RowsHeld
    <3> QED  BY <2>8, <3>1, <3>2, <3>3, <3>4 DEF WriterInv
  <2>10. begun' \in 0..MaxTx /\ RowsNeeded(w) \in SUBSET Nodes
    BY <1>2, <2>1, <2>2, SweepRows DEF Types
  <2> QED  BY <1>2, <2>4, <2>6, <2>8, <2>9, <2>10, OwnStep
<1> QED  BY <1>1, <1>2 DEF RenameRow, Doc

LEMMA MergeKeeps ==
  ASSUME IInv, NEW w \in Writers, MergeRow(w)
  PROVE  Keeps(w)
<1>1. /\ Pc(w) = "write" /\ Req(w).op = "merge" /\ Hold(w, RowsNeeded(w))
      /\ draft' = repointRefs(draft, Doc(w), Req(w).to)
      /\ tx' = [tx EXCEPT ![w].pc = "delete", ![w].moved = Swept(w),
                          ![w].late = ~mergeChecks(draft, Doc(w), Req(w).to)]
      /\ UNCHANGED <<tab, link, treeLock, begun, late, excused>>
  BY DEF MergeRow, At, Doc
<1>2. /\ Types /\ Holding(w) /\ draft = tab /\ Req(w) \in Requests
      /\ Doc(w) \in Nodes /\ "delete" \in PCs
  BY <1>1, AtWrite
<1>3. Req(w).to \in Nodes  BY <1>1, <1>2, RequestTypes
<1>4. draft' \in Tables  BY <1>1, <1>2, <1>3, RepointedRows DEF Types
<1>5. PICK b \in BOOLEAN : b = ~mergeChecks(draft, Doc(w), Req(w).to)  OBVIOUS
<1>6. tx' = [tx EXCEPT ![w].pc = "delete", ![w].moved = Swept(w), ![w].late = b]  BY <1>1, <1>5
<1>7. PICK m \in Transaction : tx' = [tx EXCEPT ![w] = m]  BY <1>2, <1>6, SweptTx
<1>8. Pc(w)' = "delete" /\ Req(w)' = Req(w) /\ tx'[w].late = b  BY <1>2, <1>6, SweptTx
<1>9. treeLock = w /\ treeLock' = w  BY <1>1, <1>2 DEF IInv, WriterInv
<1>10. WriterInv(w)'
  <2>1. Shape(w)'  BY <1>1, <1>2, <1>8 DEF Shape
  <2>2. Holding(w)'  BY <1>8 DEF Holding
  <2>3. Handed(w)'
    <3>1. b \/ mergeChecks(tab, Doc(w), Req(w).to)  BY <1>2, <1>5
    <3>2. tab' = tab /\ Doc(w)' = Doc(w)  BY <1>1, <1>8 DEF Doc
    <3> QED  BY <1>8, <3>1, <3>2 DEF Handed
  <2>4. Drafted(w)'  BY <1>1, <1>2, <1>8, <2>3 DEF Drafted, At, Doc
  <2>5. RowsHeld(w)'  BY <1>8, <1>9 DEF RowsHeld
  <2> QED  BY <1>9, <2>1, <2>2, <2>4, <2>5 DEF WriterInv
<1>11. begun' \in 0..MaxTx /\ RowsNeeded(w) \in SUBSET Nodes
  BY <1>1, <1>2, SweepRows DEF Types
<1> QED  BY <1>1, <1>4, <1>7, <1>9, <1>10, <1>11, OwnStep

LEMMA DeleteChecksKeeps ==
  ASSUME IInv, NEW w \in Writers, DeleteChecks(w)
  PROVE  Keeps(w)
<1>1. CASE Rollback(w)  BY <1>1, RollbackKeeps
<1>2. CASE /\ Doc(w) \in DOMAIN draft /\ ~treeHasChildren(draft, Doc(w)) /\ Goto(w, "remove")
           /\ UNCHANGED <<tab, link, draft, treeLock, rowLock, begun, late, excused>>
  <2>1. Types /\ WriterInv(w) /\ Pc(w) = "delete"  BY DEF IInv, DeleteChecks
  <2>2. /\ Req(w) \in Requests /\ Holding(w) /\ Req(w).op \in {"delete", "merge"}
        /\ "remove" \in PCs
    BY <2>1 DEF WriterInv, Shape, Holding, PCs
  <2>3. /\ Pc(w)' = "remove" /\ Req(w)' = Req(w)
        /\ tx'[w].moved = tx[w].moved /\ tx'[w].late = tx[w].late
    BY <1>2, <2>1, <2>2, Goes
  <2>4. Shape(w)'  BY <2>1, <2>2, <2>3 DEF WriterInv, Shape
  <2>5. Drafted(w)'  BY <1>2, <2>1, <2>2, <2>3 DEF WriterInv, Drafted, Handed, At, Doc
  <2>6. draft' \in Tables /\ {} \in SUBSET Nodes  BY <1>2, <2>1 DEF Types
  <2> QED  BY <1>2, <2>2, <2>4, <2>5, <2>6, HolderKeeps
<1> QED  BY <1>1, <1>2 DEF DeleteChecks

LEMMA DeleteRowKeeps ==
  ASSUME IInv, NEW w \in Writers, DeleteRow(w)
  PROVE  Keeps(w)
<1>1. /\ Pc(w) = "remove" /\ draft' = Without(draft, Doc(w)) /\ Goto(w, "commit") /\ Hold(w, {Doc(w)})
      /\ UNCHANGED <<tab, link, treeLock, begun, late, excused>>
  BY DEF DeleteRow, Written
<1>2. Types /\ WriterInv(w)  BY DEF IInv
<1>3. /\ Req(w) \in Requests /\ Holding(w) /\ Req(w).op \in {"delete", "merge"} /\ "commit" \in PCs
  BY <1>1, <1>2 DEF WriterInv, Shape, Holding, PCs
<1>4. Doc(w) \in Nodes  BY <1>3, RequestTypes DEF Doc
<1>5. /\ Pc(w)' = "commit" /\ Req(w)' = Req(w)
      /\ tx'[w].moved = tx[w].moved /\ tx'[w].late = tx[w].late
  BY <1>1, <1>2, <1>3, Goes
<1>6. Shape(w)'  BY <1>1, <1>2, <1>3, <1>5 DEF WriterInv, Shape
<1>7. Drafted(w)'  BY <1>1, <1>2, <1>3, <1>5 DEF WriterInv, Drafted, Handed, At, Doc
<1>8. draft' \in Tables  BY <1>1, <1>2, <1>4, WithoutRows DEF Types
<1> QED  BY <1>1, <1>3, <1>4, <1>6, <1>7, <1>8, HolderKeeps

LEMMA CommitLinkKeeps ==
  ASSUME IInv, NEW w \in Writers, CommitLink(w)
  PROVE  Keeps(w) /\ UNCHANGED tab
<1>1. /\ Pc(w) = "commit" /\ Req(w).op = "link" /\ Release(w)
      /\ UNCHANGED <<tab, draft, begun, late>>
      /\ link' = [l \in DOMAIN link \cup {Req(w).to} |-> IF l = Req(w).to THEN Doc(w) ELSE link[l]]
      /\ excused' \subseteq excused \cup {Req(w).to}
  BY DEF CommitLink, At, Doc
<1>2. Types /\ WriterInv(w)  BY DEF IInv
<1>3. treeLock # w /\ Req(w).to \in Links /\ Doc(w) \in Nodes
  BY <1>1, <1>2, RequestTypes DEF WriterInv, Holding, Shape, Doc
<1>4. treeLock' = treeLock  BY <1>1, <1>2, <1>3, Released
<1>5. Types'
  <2>1. DOMAIN link' \subseteq Links /\ link' \in [DOMAIN link' -> Nodes]  BY <1>1, <1>2, <1>3 DEF Types
  <2>2. excused' \subseteq Links  BY <1>1, <1>2, <1>3 DEF Types
  <2> QED  BY <1>1, <1>2, <1>4, <2>1, <2>2, Released DEF Types
<1>6. Frame(w)
  <2>1. \A v \in Writers \ {w} : tx'[v] = tx[v]  BY <1>1, <1>2, Released DEF Types
  <2> QED  BY <1>1, <1>2, <1>4, <2>1, Released DEF Frame
<1>7. WriterInv(w)'  BY <1>1, <1>2, <1>3, <1>4, Released, IdleInv
<1> QED  BY <1>1, <1>5, <1>6, <1>7 DEF Keeps

LEMMA CommitKeeps ==
  ASSUME IInv, NEW w \in Writers, Commit(w)
  PROVE  Keeps(w)
<1>1. /\ Pc(w) = "commit" /\ Req(w).op # "link" /\ Release(w)
      /\ tab' = draft /\ UNCHANGED <<draft, begun>>
      /\ link' = [l \in DOMAIN link |-> IF l \in tx[w].moved THEN Req(w).to ELSE link[l]]
      /\ late' = (late \/ tx[w].late)
  BY DEF Commit
<1>2. Types /\ WriterInv(w) /\ treeLock = w /\ Req(w) \in Requests
  BY <1>1 DEF IInv, WriterInv, Holding, Shape
<1>3. w # NoOne /\ treeLock' = NoOne  BY <1>1, <1>2, Released, WritersAssumption DEF NoOne
<1>4. Types'
  <2>1. tx[w].moved # {} => Req(w).to \in Nodes
    BY <1>2, RequestTypes DEF WriterInv, Shape
  <2>2. DOMAIN link' \subseteq Links /\ link' \in [DOMAIN link' -> Nodes]  BY <1>1, <1>2, <2>1 DEF Types
  <2>3. excused' \subseteq Links
    <3>1. {Req(v).to : v \in {u \in Writers \ {w} : At(u, "commit", {"link"}) /\ Doc(u) = Doc(w)}} \subseteq Links
      BY RequestTypes DEF IInv, WriterInv, Shape, At
    <3>2. Swept(w) \subseteq Links /\ tx[w].moved \subseteq Links  BY <1>2 DEF Swept, Types, Transaction
    <3> QED  BY <1>2, <3>1, <3>2 DEF Commit, Types, Doc
  <2>4. late' \in BOOLEAN  BY <1>1, <1>2 DEF Types
  <2> QED  BY <1>1, <1>2, <1>3, <2>2, <2>3, <2>4, Released DEF Types
<1>5. Frame(w)
  <2>1. SUFFICES ASSUME NEW v \in Writers \ {w}
                 PROVE  /\ tx'[v] = tx[v] /\ (treeLock' = v <=> treeLock = v)
                        /\ treeLock = v => draft' = draft /\ tab' = tab
                        /\ \A n \in Nodes : rowLock'[n] = v => rowLock[n] = v
    BY DEF Frame
  <2>2. tx'[v] = tx[v]  BY <1>1, <1>2, Released DEF Types
  <2>3. v # NoOne  BY WritersAssumption DEF NoOne
  <2> QED  BY <1>1, <1>2, <1>3, <2>2, <2>3, Released
<1>6. WriterInv(w)'  BY <1>1, <1>2, <1>3, Released, IdleInv
<1> QED  BY <1>4, <1>5, <1>6 DEF Keeps

LEMMA InitIInv == Init => IInv
<1> SUFFICES ASSUME Init PROVE IInv  OBVIOUS
<1>1. link = [l \in {} |-> None] /\ DOMAIN link = {}  BY DEF Init
<1>2. Idle \in Transaction  BY DEF Idle, Transaction, PCs
<1>3. \A w \in Writers : tx[w] = Idle /\ treeLock # w /\ \A n \in Nodes : rowLock[n] # w
  BY WritersAssumption DEF Init, NoOne
<1>4. Types
  <2>1. link \in [DOMAIN link -> Nodes]  BY <1>1
  <2>2. tab \in Tables /\ draft \in Tables  BY TreesAssumption DEF Init
  <2>3. tx \in [Writers -> Transaction]  BY <1>2 DEF Init
  <2>4. treeLock \in Writers \cup {NoOne} /\ rowLock \in [Nodes -> Writers \cup {NoOne}]  BY DEF Init
  <2>5. begun \in 0..MaxTx  BY MaxTxAssumption DEF Init
  <2>7. late \in BOOLEAN /\ excused \subseteq Links  BY DEF Init
  <2>6. DOMAIN link \subseteq Links /\ draft = tab  BY <1>1 DEF Init
  <2> QED  BY <2>1, <2>2, <2>3, <2>4, <2>5, <2>6, <2>7 DEF Types
<1>5. \A w \in Writers : WriterInv(w)
  BY <1>3 DEF WriterInv, Shape, Holding, Drafted, RowsHeld, At, Pc, Req, Idle
<1> QED  BY <1>4, <1>5 DEF IInv

LEMMA StepIInv ==
  ASSUME IInv, NEW w \in Writers,
         Step(w) \/ GiveUp(w) \/ \E q \in Requests : Begin(w, q)
  PROVE  IInv'
<1>1. Keeps(w)
  BY BeginKeeps, BeforeKeeps, LockTreeKeeps, LockRowKeeps, RollbackKeeps, InsertOrSaveKeeps,
     TransitionKeeps, RenameKeeps, MergeKeeps, DeleteChecksKeeps, DeleteRowKeeps,
     CommitLinkKeeps, CommitKeeps
     DEF Step, GiveUp, DeadlockVictim
<1> QED  BY <1>1, StepKeeps

LEMMA NextIInv == IInv /\ [Next]_vars => IInv'
<1>1. ASSUME IInv, UNCHANGED vars PROVE IInv'
  BY <1>1 DEF vars, IInv, Types, WriterInv, Shape, Holding, Drafted, RowsHeld, Handed, At, Pc, Req, Doc
<1>2. ASSUME IInv, Next PROVE IInv'
  BY <1>2, StepIInv DEF Next
<1> QED  BY <1>1, <1>2

\* Whatever transactions run at once, the state has its shape, the holder of
\* the tree's lock is the one between lockTree and its end, and its draft is
\* the committed table or that table with its own checked operation done.
THEOREM Invariance == Spec => []IInv
BY InitIInv, NextIInv, PTL DEF Spec

\* Type correctness, for any ids, links, writers and starting forests: with
\* who holds the tree's lock, and that nothing is drafted when nobody does.
THEOREM TypeCorrect == Spec => []TypeOK
<1>1. IInv => TypeOK
  <2>1. ASSUME IInv PROVE TypeOK
    <3>1. Types /\ \A w \in Writers : WriterInv(w)  BY <2>1 DEF IInv
    <3>2. \A w \in Writers : /\ tx[w].moved \subseteq Links /\ tx[w].late \in BOOLEAN
                             /\ Pc(w) \in PCs /\ (Pc(w) = "idle" \/ Req(w) \in Requests)
      BY <3>1 DEF Types, WriterInv, Shape, Transaction, Pc
    <3>3. \A w \in Writers : (Pc(w) \in {"write", "delete", "remove"} \/ (Pc(w) = "commit" /\ Req(w).op # "link"))
                                <=> treeLock = w
      BY <3>1 DEF WriterInv, Holding
    <3> QED  BY <3>1, <3>2, <3>3 DEF TypeOK, Types
  <2> QED  BY <2>1
<1> QED  BY <1>1, Invariance, PTL

-----------------------------------------------------------------------------
(* Tree implements Forest.                                                 *)

\* Only a commit changes the committed rows.
LEMMA OnlyCommitWrites ==
  ASSUME IInv, [Next]_vars, tab' # tab
  PROVE  \E w \in Writers : Commit(w)
<1>1. Next  BY DEF vars
<1>2. PICK w \in Writers : Step(w) \/ GiveUp(w) \/ \E q \in Requests : Begin(w, q)  BY <1>1 DEF Next
<1>3. SUFFICES ASSUME ~Commit(w) PROVE tab' = tab
  OBVIOUS
<1>4. Rollback(w) => tab' = tab  BY DEF Rollback
<1>5. CASE \/ Before(w) \/ lockTree(w) \/ LockRow(w) \/ DeadlockVictim(w)
  BY <1>4, <1>5 DEF Before, lockTree, LockRow, DeadlockVictim
<1>6. CASE \/ InsertRow(w) \/ SaveRow(w) \/ TransitionRow(w) \/ RenameRow(w) \/ MergeRow(w)
           \/ DeleteChecks(w) \/ DeleteRow(w) \/ CommitLink(w)
  BY <1>4, <1>6 DEF InsertRow, SaveRow, TransitionRow, RenameRow, MergeRow, DeleteChecks, DeleteRow,
                    CommitLink, Written
<1>7. CASE GiveUp(w) \/ \E q \in Requests : Begin(w, q)
  BY <1>4, <1>7 DEF GiveUp, Begin
<1> QED  BY <1>2, <1>3, <1>5, <1>6, <1>7 DEF Step

\* Forest's operators are those of Hierarchy.
LEMMA SameHierarchy ==
  /\ \A t, n : /\ Abstract!treeHasChildren(t, n) <=> treeHasChildren(t, n)
               /\ Abstract!treeAncestorsInclusive(t, n) = treeAncestorsInclusive(t, n)
               /\ Abstract!Without(t, n) = Without(t, n)
  /\ \A t, n, row : /\ Abstract!checkTree(t, n, row) <=> checkTree(t, n, row)
                    /\ Abstract!With(t, n, row) = With(t, n, row)
  /\ \A t, n, m : /\ Abstract!mergeChecks(t, n, m) <=> mergeChecks(t, n, m)
                  /\ Abstract!repointRefs(t, n, m) = repointRefs(t, n, m)
                  /\ Abstract!moveID(t, n, m) = moveID(t, n, m)
  /\ \A t : Abstract!IsForest(t) <=> IsForest(t)
  /\ Abstract!Row = Row /\ Abstract!Tables = Tables
BY DEF Abstract!treeHasChildren, treeHasChildren, Abstract!treeAncestorsInclusive, treeAncestorsInclusive,
       Abstract!Closed, Closed, Abstract!Without, Without, Abstract!checkTree, checkTree,
       Abstract!With, With, Abstract!mergeChecks, mergeChecks, Abstract!repointRefs, repointRefs,
       Abstract!moveID, moveID, Abstract!IsForest, IsForest, Abstract!Acyclic, Acyclic,
       Abstract!ParentsAreGroups, ParentsAreGroups, Abstract!Row, Row, Abstract!Tables, Tables

\* What is committed is one legal operation of Forest, or nothing, or late.
LEMMA CommitIsLegal ==
  ASSUME IInv, ForestUnlessLate, NEW w \in Writers, Commit(w)
  PROVE  late' \/ Abstract!Next \/ tab' = tab
<1>1. SUFFICES ASSUME ~late' PROVE Abstract!Next \/ tab' = tab
  OBVIOUS
<1>2. /\ Pc(w) = "commit" /\ Req(w).op # "link" /\ tab' = draft
      /\ ~late /\ ~tx[w].late
  BY <1>1 DEF Commit
<1>3. /\ Types /\ Drafted(w) /\ Req(w) \in Requests /\ Doc(w) \in Nodes
  BY <1>2, RequestTypes DEF IInv, WriterInv, Shape, Doc
<1>4. tab \in Tables /\ IsForest(tab)  BY <1>2, <1>3 DEF Types, ForestUnlessLate
<1> DEFINE n == Doc(w)
           m == Req(w).to
<1>5. CASE Req(w).op \in {"insert", "save"}
  <2>1. Req(w).row \in Row  BY <1>3, <1>5, RequestTypes
  <2>2. /\ Req(w).op = "insert" => n \notin DOMAIN tab
        /\ Req(w).op = "save" => n \in DOMAIN tab
        /\ checkTree(tab, n, Req(w).row) /\ tab' = With(tab, n, Req(w).row)
    BY <1>2, <1>3, <1>5 DEF Drafted, At
  <2>3. Abstract!Insert(n, Req(w).row) \/ Abstract!Save(n, Req(w).row)
    BY <1>5, <2>2, SameHierarchy DEF Abstract!Insert, Abstract!Save
  <2> QED  BY <1>3, <2>1, <2>3, SameHierarchy DEF Abstract!Next
<1>6. CASE Req(w).op = "workflow"
  BY <1>2, <1>3, <1>6 DEF Drafted, At
<1>7. CASE Req(w).op = "delete"
  <2>1. Abstract!Delete(n)
    BY <1>2, <1>3, <1>7, SameHierarchy DEF Drafted, At, Abstract!Delete
  <2> QED  BY <1>3, <2>1 DEF Abstract!Next
<1>8. CASE Req(w).op = "rename"
  <2>1. m \in Nodes  BY <1>3, <1>8, RequestTypes
  <2>2. (n \in DOMAIN tab => m \notin DOMAIN tab) /\ tab' = moveID(tab, n, m)
    BY <1>2, <1>3, <1>8 DEF Drafted, At
  <2>3. CASE n \in DOMAIN tab
    <3>1. Abstract!Rename(n, m)  BY <2>2, <2>3, SameHierarchy DEF Abstract!Rename
    <3> QED  BY <1>3, <2>1, <3>1 DEF Abstract!Next
  <2>4. CASE n \notin DOMAIN tab
    BY <1>3, <1>4, <2>1, <2>2, <2>4, RenameOfNothing DEF IsForest
  <2> QED  BY <2>3, <2>4
<1>9. CASE Req(w).op = "merge"
  <2>1. m \in Nodes  BY <1>3, <1>9, RequestTypes
  <2>2. mergeChecks(tab, n, m) /\ tab' = Without(repointRefs(tab, n, m), n)
    BY <1>2, <1>3, <1>9 DEF Drafted, Handed, At
  <2>3. Abstract!Merge(n, m)  BY <2>2, SameHierarchy DEF Abstract!Merge
  <2> QED  BY <1>3, <2>1, <2>3 DEF Abstract!Next
<1> QED  BY <1>2, <1>3, <1>5, <1>6, <1>7, <1>8, <1>9, RequestTypes

LEMMA NextIsLegal ==
  ASSUME IInv, ForestUnlessLate, [Next]_vars
  PROVE  late' \/ Abstract!Next \/ tab' = tab
BY OnlyCommitWrites, CommitIsLegal

\* One legal operation leaves a forest of groups.
LEMMA LegalKeepsForest ==
  ASSUME tab \in Tables, IsForest(tab), Abstract!Next
  PROVE  tab' \in Tables /\ IsForest(tab')
<1>1. PICK n \in Nodes :
        \/ \E row \in Row : Abstract!Insert(n, row) \/ Abstract!Save(n, row)
        \/ Abstract!Delete(n)
        \/ \E m \in Nodes : Abstract!Rename(n, m) \/ Abstract!Merge(n, m)
  BY SameHierarchy DEF Abstract!Next
<1>2. ASSUME NEW row \in Row, Abstract!Insert(n, row) \/ Abstract!Save(n, row)
      PROVE  tab' \in Tables /\ IsForest(tab')
  <2>1. checkTree(tab, n, row) /\ tab' = With(tab, n, row)
    BY <1>2, SameHierarchy DEF Abstract!Insert, Abstract!Save
  <2> QED  BY <2>1, CheckedWrite, WithRows
<1>3. CASE Abstract!Delete(n)
  <2>1. ~treeHasChildren(tab, n) /\ tab' = Without(tab, n)
    BY <1>3, SameHierarchy DEF Abstract!Delete
  <2> QED  BY <2>1, CheckedDelete, WithoutRows
<1>4. ASSUME NEW m \in Nodes, Abstract!Rename(n, m) PROVE tab' \in Tables /\ IsForest(tab')
  <2>1. n \in DOMAIN tab /\ m \notin DOMAIN tab /\ tab' = moveID(tab, n, m)
    BY <1>4, SameHierarchy DEF Abstract!Rename
  <2> QED  BY <2>1, CheckedRename
<1>5. ASSUME NEW m \in Nodes, Abstract!Merge(n, m) PROVE tab' \in Tables /\ IsForest(tab')
  <2>1. mergeChecks(tab, n, m) /\ tab' = Without(repointRefs(tab, n, m), n)
    BY <1>5, SameHierarchy DEF Abstract!Merge
  <2> QED  BY <2>1, CheckedMerge
<1> QED  BY <1>1, <1>2, <1>3, <1>4, <1>5

\* The promise of docs/agent/trees.md:50: from a forest of groups, no sequence
\* of checked writes makes a loop, an orphan or a child of a leaf.
THEOREM ForestHolds == Abstract!Spec => []Abstract!HierarchyHolds
<1> DEFINE I == tab \in Tables /\ IsForest(tab)
<1>1. Abstract!Init => I  BY SameHierarchy DEF Abstract!Init
<1>2. I /\ [Abstract!Next]_tab => I'
  <2>1. ASSUME I, UNCHANGED tab PROVE I'
    BY <2>1 DEF IsForest, Acyclic, ParentsAreGroups
  <2>2. ASSUME I, Abstract!Next PROVE I'
    <3>1. IsForest(tab') <=> IsForest(tab)'  BY DEF IsForest, Acyclic, ParentsAreGroups
    <3> QED  BY <2>2, <3>1, LegalKeepsForest
  <2> QED  BY <2>1, <2>2
<1>3. I => Abstract!HierarchyHolds  BY SameHierarchy DEF Abstract!HierarchyHolds
<1> QED  BY <1>1, <1>2, <1>3, PTL DEF Abstract!Spec

\* Nothing makes a late merge undone.
LEMMA LateStays ==
  ASSUME [Next]_vars, late
  PROVE  late'
<1>1. CASE UNCHANGED vars  BY <1>1 DEF vars
<1>2. ASSUME NEW w \in Writers, Step(w) \/ GiveUp(w) \/ \E q \in Requests : Begin(w, q)
      PROVE  late'
  <2>1. Rollback(w) => late' = late  BY DEF Rollback
  <2>2. CASE GiveUp(w) \/ \E q \in Requests : Begin(w, q)  BY <2>1, <2>2 DEF GiveUp, Begin
  <2>3. CASE Step(w)
    BY <2>1, <2>3
       DEF Step, Before, lockTree, LockRow, DeadlockVictim, InsertRow, SaveRow, TransitionRow, RenameRow,
           MergeRow, DeleteChecks, DeleteRow, CommitLink, Commit, Written
  <2> QED  BY <1>2, <2>2, <2>3
<1> QED  BY <1>1, <1>2 DEF Next

LEMMA ForestStep == IInv /\ ForestUnlessLate /\ [Next]_vars => ForestUnlessLate'
<1> SUFFICES ASSUME IInv, ForestUnlessLate, [Next]_vars, ~late'
             PROVE  IsForest(tab)'
  BY DEF ForestUnlessLate
<1>1. tab \in Tables /\ IsForest(tab)  BY LateStays DEF IInv, Types, ForestUnlessLate
<1>2. IsForest(tab') <=> IsForest(tab)'  BY DEF IsForest, Acyclic, ParentsAreGroups
<1>3. CASE tab' = tab  BY <1>1, <1>2, <1>3
<1>4. CASE Abstract!Next  BY <1>1, <1>2, <1>4, LegalKeepsForest
<1> QED  BY <1>3, <1>4, NextIsLegal

\* Whatever runs at once, the committed hierarchy is a forest of groups; only a
\* merge that wrote after its checks had gone stale can break it.
THEOREM ForestUnlessLateHolds == Spec => []ForestUnlessLate
<1>1. Init => ForestUnlessLate
  BY TreesAssumption DEF Init, ForestUnlessLate
<1> QED  BY <1>1, ForestStep, Invariance, PTL DEF Spec

\* The refinement: the committed rows change by one whole legal operation of
\* Forest at a time, late merges aside.
THEOREM TreeIsSerial == Spec => Serial
<1>1. IInv /\ ForestUnlessLate /\ [Next]_vars => [late' \/ Abstract!Next]_tab
  BY NextIsLegal
<1> QED  BY <1>1, Invariance, ForestUnlessLateHolds, PTL DEF Spec, Serial

\* Two transactions wait for each other only if one of them is an approval,
\* which locks its row before the tree.
THEOREM ApprovalsAlone == Spec => []OnlyApprovalsDeadlock
<1>1. IInv => OnlyApprovalsDeadlock
  <2>1. SUFFICES ASSUME IInv, NEW v \in Writers, NEW w \in Writers, WaitsFor(v, w), WaitsFor(w, v),
                        Req(v).op # "workflow", Req(w).op # "workflow"
                 PROVE  FALSE
    BY DEF OnlyApprovalsDeadlock
  <2>2. RowsNeeded(v) \subseteq Nodes /\ RowsNeeded(w) \subseteq Nodes
    <3>1. ASSUME NEW u \in Writers PROVE RowsNeeded(u) \subseteq Nodes
      <4>1. Types /\ Shape(u)  BY <2>1 DEF IInv, WriterInv
      <4>2. Pc(u) # "idle" => Doc(u) \in Nodes  BY <4>1, RequestTypes DEF Shape, Doc
      <4>3. Children(draft, Doc(u)) \subseteq Nodes  BY <4>1, RowParent DEF Types, Children
      <4> QED  BY <4>2, <4>3 DEF RowsNeeded, At
    <3> QED  BY <3>1
  <2>3. treeLock = w  BY <2>1, <2>2 DEF WaitsFor, IInv, WriterInv, RowsHeld
  <2>4. treeLock = v  BY <2>1, <2>2 DEF WaitsFor, IInv, WriterInv, RowsHeld
  <2> QED  BY <2>1, <2>3, <2>4 DEF WaitsFor
<1> QED  BY <1>1, Invariance, PTL

-----------------------------------------------------------------------------
(* Links.                                                                  *)

\* What a transaction past its look at the links knows of those to its row.
LinksSeen(w) ==
  /\ At(w, "remove", {"delete", "merge"}) \/ At(w, "commit", {"delete", "merge", "rename"})
       => Req(w).force \/ Swept(w) \subseteq tx[w].moved \cup excused
  /\ At(w, "commit", {"rename"}) /\ Doc(w) \notin DOMAIN tab => tx[w].moved \subseteq excused

\* The target of a link about to be committed is there, or its loss is excused.
TargetSeen(w) == At(w, "commit", {"link"}) => Doc(w) \in DOMAIN tab \/ Req(w).to \in excused

LinkInv == LinksHold /\ \A w \in Writers : LinksSeen(w) /\ TargetSeen(w)

\* A step that commits nothing leaves the others what they know.
LEMMA QuietLinks ==
  ASSUME LinkInv, NEW w \in Writers, \A v \in Writers \ {w} : tx'[v] = tx[v],
         UNCHANGED <<tab, link, excused>>, LinksSeen(w)', TargetSeen(w)'
  PROVE  LinkInv'
<1>1. LinksHold'  BY DEF LinkInv, LinksHold
<1>2. \A v \in Writers \ {w} : LinksSeen(v)' /\ TargetSeen(v)'
  BY DEF LinkInv, LinksSeen, TargetSeen, Swept, At, Pc, Req, Doc
<1> QED  BY <1>1, <1>2 DEF LinkInv

\* A step that ends before any link matters, or that writes no link's row.
LEMMA EarlyLinks ==
  ASSUME LinkInv, NEW w \in Writers, \A v \in Writers \ {w} : tx'[v] = tx[v],
         UNCHANGED <<tab, link, excused>>,
         \/ tx'[w].pc \in {"idle", "before", "row", "lock", "write", "delete"}
         \/ tx'[w].pc = "commit" /\ tx'[w].req.op \in {"insert", "save", "workflow"}
  PROVE  LinkInv'
<1>1. LinksSeen(w)' /\ TargetSeen(w)'
  BY DEF LinksSeen, TargetSeen, At, Pc, Req
<1> QED  BY <1>1, QuietLinks

LEMMA RollbackLinks ==
  ASSUME IInv, LinkInv, NEW w \in Writers, Rollback(w)
  PROVE  LinkInv'
<1>1. tx'[w] = Idle /\ \A v \in Writers \ {w} : tx'[v] = tx[v]
  BY Released DEF IInv, Types, Rollback
<1> QED  BY <1>1, EarlyLinks DEF Rollback, Idle

LEMMA GoesAlone ==
  ASSUME IInv, NEW w \in Writers, NEW pc \in PCs, Goto(w, pc)
  PROVE  /\ tx'[w].pc = pc /\ tx'[w].req = tx[w].req /\ tx'[w].moved = tx[w].moved
         /\ \A v \in Writers \ {w} : tx'[v] = tx[v]
<1>1. Types  BY DEF IInv
<1>2. Pc(w)' = pc /\ Req(w)' = Req(w) /\ tx'[w].moved = tx[w].moved  BY <1>1, Goes
<1>3. \A v \in Writers \ {w} : tx'[v] = tx[v]  BY <1>1, Goes DEF Types
<1> QED  BY <1>2, <1>3 DEF Pc, Req

LEMMA QuietStepLinks ==
  ASSUME IInv, LinkInv, NEW w \in Writers,
         \/ GiveUp(w) \/ DeadlockVictim(w) \/ (\E q \in Requests : Begin(w, q))
         \/ Before(w) \/ lockTree(w) \/ LockRow(w) \/ InsertRow(w) \/ SaveRow(w) \/ TransitionRow(w)
         \/ RenameRow(w) \/ MergeRow(w) \/ DeleteChecks(w) \/ DeleteRow(w)
  PROVE  LinkInv'
<1>1. CASE Rollback(w)  BY <1>1, RollbackLinks
<1>2. Types /\ Shape(w) /\ {"lock", "write", "delete", "remove", "commit"} \subseteq PCs
  BY DEF IInv, WriterInv, PCs
<1>3. ASSUME NEW q \in Requests, Begin(w, q) PROVE LinkInv'
  <2>1. tx'[w].pc = First(q.op) /\ \A v \in Writers \ {w} : tx'[v] = tx[v]
    BY <1>2, <1>3 DEF Begin, Types
  <2>2. First(q.op) \in {"before", "row", "lock"}  BY DEF First
  <2> QED  BY <1>3, <2>1, <2>2, EarlyLinks DEF Begin
<1>4. CASE Before(w) /\ ~Rollback(w)
  <2>1. CASE Req(w).op = "link"
    <3>1. /\ Doc(w) \in DOMAIN tab /\ Goto(w, "commit") /\ UNCHANGED <<tab, link, excused>>
      BY <1>4, <2>1 DEF Before, Doc
    <3>2. /\ tx'[w].pc = "commit" /\ tx'[w].req = tx[w].req /\ \A v \in Writers \ {w} : tx'[v] = tx[v]
      BY <1>2, <3>1, GoesAlone
    <3>3. LinksSeen(w)' /\ TargetSeen(w)'
      BY <2>1, <3>1, <3>2 DEF LinksSeen, TargetSeen, At, Pc, Req, Doc
    <3> QED  BY <3>1, <3>2, <3>3, QuietLinks
  <2>2. CASE Req(w).op # "link"
    <3>1. Goto(w, "lock") /\ UNCHANGED <<tab, link, excused>>  BY <1>4, <2>2 DEF Before
    <3> QED  BY <1>2, <3>1, GoesAlone, EarlyLinks
  <2> QED  BY <2>1, <2>2
<1>5. CASE (lockTree(w) \/ LockRow(w)) /\ ~Rollback(w)
  <2>1. \E pc \in {"lock", "write", "delete"} : Goto(w, pc) /\ UNCHANGED <<tab, link, excused>>
    BY <1>5 DEF lockTree, LockRow
  <2> QED  BY <1>2, <2>1, GoesAlone, EarlyLinks
<1>6. CASE (InsertRow(w) \/ SaveRow(w) \/ TransitionRow(w)) /\ ~Rollback(w)
  <2>1. Goto(w, "commit") /\ UNCHANGED <<tab, link, excused>> /\ Req(w).op \in {"insert", "save", "workflow"}
    BY <1>6 DEF InsertRow, SaveRow, TransitionRow, Written, At
  <2> QED  BY <1>2, <2>1, GoesAlone, EarlyLinks DEF Req
<1>7. CASE RenameRow(w) /\ ~Rollback(w)
  <2>1. /\ Pc(w) = "write" /\ Req(w).op = "rename" /\ UNCHANGED <<tab, link, excused>>
        /\ tx' = [tx EXCEPT ![w].pc = "commit", ![w].moved = Swept(w)]
    BY <1>7 DEF RenameRow, At
  <2>2. tx[w] \in Transaction  BY <1>2 DEF Types
  <2>3. /\ tx'[w].pc = "commit" /\ tx'[w].req = tx[w].req /\ tx'[w].moved = Swept(w)
        /\ \A v \in Writers \ {w} : tx'[v] = tx[v]
    BY <1>2, <2>1, <2>2 DEF Types, Transaction
  <2>4. Doc(w)' = Doc(w) /\ Swept(w)' = Swept(w)  BY <2>1, <2>3 DEF Doc, Req, Swept
  <2>5. Doc(w) \notin DOMAIN tab => Swept(w) \subseteq excused  BY DEF LinkInv, LinksHold, Swept
  <2>6. LinksSeen(w)'  BY <2>1, <2>3, <2>4, <2>5 DEF LinksSeen
  <2>7. TargetSeen(w)'  BY <2>1, <2>3 DEF TargetSeen, At, Req
  <2> QED  BY <2>1, <2>3, <2>6, <2>7, QuietLinks
<1>8. CASE MergeRow(w)
  <2>1. /\ UNCHANGED <<tab, link, excused>>
        /\ tx' = [tx EXCEPT ![w].pc = "delete", ![w].moved = Swept(w),
                            ![w].late = ~mergeChecks(draft, Doc(w), Req(w).to)]
    BY <1>8 DEF MergeRow, Doc
  <2>2. tx[w] \in Transaction  BY <1>2 DEF Types
  <2>3. tx'[w].pc = "delete" /\ \A v \in Writers \ {w} : tx'[v] = tx[v]
    BY <1>2, <2>1, <2>2 DEF Types, Transaction
  <2> QED  BY <2>1, <2>3, EarlyLinks
<1>9. CASE (DeleteChecks(w) \/ DeleteRow(w)) /\ ~Rollback(w)
  <2>1. PICK pc \in {"remove", "commit"} : Goto(w, pc) /\ UNCHANGED <<tab, link, excused>>
    BY <1>9 DEF DeleteChecks, DeleteRow, Written
  <2>2. Req(w).op \in {"delete", "merge"}  BY <1>2, <1>9 DEF Shape, DeleteChecks, DeleteRow
  <2>3. /\ tx'[w].pc = pc /\ tx'[w].req = tx[w].req /\ tx'[w].moved = tx[w].moved
        /\ \A v \in Writers \ {w} : tx'[v] = tx[v]
    BY <1>2, <2>1, GoesAlone
  <2>4. Req(w).force \/ Swept(w) \subseteq tx[w].moved \cup excused
    <3>1. CASE DeleteChecks(w)  BY <1>9, <3>1 DEF DeleteChecks
    <3>2. CASE DeleteRow(w)  BY <2>2, <3>2 DEF DeleteRow, LinkInv, LinksSeen, At
    <3> QED  BY <1>9, <3>1, <3>2
  <2>5. Swept(w)' = Swept(w) /\ Doc(w)' = Doc(w)  BY <2>1, <2>3 DEF Swept, Doc, Req
  <2>6. LinksSeen(w)'  BY <2>1, <2>2, <2>3, <2>4, <2>5 DEF LinksSeen, At, Req
  <2>7. TargetSeen(w)'  BY <2>2, <2>3 DEF TargetSeen, At, Req
  <2> QED  BY <2>1, <2>3, <2>6, <2>7, QuietLinks
<1> QED  BY <1>1, <1>3, <1>4, <1>5, <1>6, <1>7, <1>8, <1>9 DEF GiveUp, DeadlockVictim

LEMMA CommitLinkLinks ==
  ASSUME IInv, LinkInv, NEW w \in Writers, CommitLink(w)
  PROVE  LinkInv'
<1> DEFINE l == Req(w).to
<1>1. /\ Pc(w) = "commit" /\ Req(w).op = "link" /\ UNCHANGED tab
      /\ link' = [x \in DOMAIN link \cup {l} |-> IF x = l THEN Doc(w) ELSE link[x]]
      /\ tx'[w] = Idle /\ \A v \in Writers \ {w} : tx'[v] = tx[v]
  BY Released DEF IInv, Types, CommitLink, At, Doc
<1>2. excused \subseteq excused'  BY DEF CommitLink
<1>3. Doc(w) \in DOMAIN tab \/ l \in excused  BY <1>1 DEF LinkInv, TargetSeen, At
<1>4. DOMAIN link' = DOMAIN link \cup {l}
      /\ \A x \in DOMAIN link' : link'[x] = IF x = l THEN Doc(w) ELSE link[x]
  BY <1>1
<1> HIDE DEF l
<1>5. LinksHold'  BY <1>1, <1>2, <1>3, <1>4 DEF LinkInv, LinksHold
<1>6. LinksSeen(w)' /\ TargetSeen(w)'  BY <1>1 DEF LinksSeen, TargetSeen, At, Pc, Idle
<1>7. ASSUME NEW v \in Writers \ {w} PROVE LinksSeen(v)' /\ TargetSeen(v)'
  <2>1. LinksSeen(v) /\ TargetSeen(v) /\ tx'[v] = tx[v]  BY <1>1 DEF LinkInv
  <2>2. Pc(v)' = Pc(v) /\ Req(v)' = Req(v) /\ Doc(v)' = Doc(v)  BY <2>1 DEF Pc, Req, Doc
  <2>3. TargetSeen(v)'  BY <1>1, <1>2, <2>1, <2>2 DEF TargetSeen, At
  <2>4. Pc(v) \in {"remove", "commit"} /\ Req(v).op # "link" /\ Doc(v) = Doc(w) => l \in excused'
    BY DEF CommitLink, Doc, l
  <2>5. ASSUME At(v, "remove", {"delete", "merge"}) \/ At(v, "commit", {"delete", "merge", "rename"}),
               ~Req(v).force
        PROVE  Swept(v)' \subseteq tx[v].moved \cup excused'
    <3>1. Swept(v) \subseteq tx[v].moved \cup excused  BY <2>1, <2>5 DEF LinksSeen
    <3>2. Pc(v) \in {"remove", "commit"} /\ Req(v).op # "link"  BY <2>5 DEF At
    <3>3. ASSUME NEW x \in Swept(v)' PROVE x \in tx[v].moved \cup excused'
      <4>1. x \in DOMAIN link' /\ link'[x] = Doc(v)  BY <2>2, <3>3 DEF Swept
      <4>2. CASE x = l  BY <1>4, <2>4, <3>2, <4>1, <4>2
      <4>3. CASE x # l
        <5>1. x \in Swept(v)  BY <1>4, <4>1, <4>3 DEF Swept
        <5> QED  BY <1>2, <3>1, <5>1
      <4> QED  BY <4>2, <4>3
    <3> QED  BY <3>3
  <2>6. LinksSeen(v)'  BY <1>1, <1>2, <2>1, <2>2, <2>5 DEF LinksSeen, At
  <2> QED  BY <2>3, <2>6
<1> QED  BY <1>5, <1>6, <1>7 DEF LinkInv

\* The rows a commit removes are its own document's.
LEMMA CommittedRows ==
  ASSUME IInv, NEW w \in Writers, Pc(w) = "commit", Req(w).op # "link"
  PROVE  /\ DOMAIN tab \ {Doc(w)} \subseteq DOMAIN draft
         /\ Req(w).op \in {"insert", "save", "workflow"} => DOMAIN tab \subseteq DOMAIN draft
         /\ Req(w).op \in {"delete", "merge"} => Doc(w) \notin DOMAIN draft
         /\ Req(w).op = "merge" /\ ~tx[w].late => Req(w).to \in DOMAIN draft
         /\ Req(w).op = "rename" /\ Doc(w) \in DOMAIN tab
              => Req(w).to \in DOMAIN draft /\ Doc(w) \notin DOMAIN draft
         /\ Req(w).op = "rename" /\ Doc(w) \notin DOMAIN tab => DOMAIN draft = DOMAIN tab
<1>1. /\ Types /\ Drafted(w) /\ Req(w) \in Requests /\ Doc(w) \in Nodes
  BY RequestTypes DEF IInv, WriterInv, Shape, Doc
<1>2. tab \in Tables  BY <1>1 DEF Types
<1>3. CASE Req(w).op \in {"insert", "save"}
  <2>1. draft = With(tab, Doc(w), Req(w).row) /\ Req(w).row \in Row
    BY <1>1, <1>3, RequestTypes DEF Drafted, At
  <2>2. DOMAIN draft = DOMAIN tab \cup {Doc(w)}  BY <1>1, <1>2, <2>1, WithRows
  <2> QED  BY <1>3, <2>2
<1>4. CASE Req(w).op = "workflow"  BY <1>1, <1>4 DEF Drafted, At
<1>5. CASE Req(w).op = "delete"
  <2>1. draft = Without(tab, Doc(w))  BY <1>1, <1>5 DEF Drafted, At
  <2> QED  BY <1>1, <1>2, <1>5, <2>1, WithoutRows
<1>6. CASE Req(w).op = "merge"
  <2>1. Req(w).to \in Nodes  BY <1>1, <1>6, RequestTypes
  <2>2. PICK t : t = repointRefs(tab, Doc(w), Req(w).to)  OBVIOUS
  <2>3. t \in Tables /\ DOMAIN t = DOMAIN tab  BY <1>1, <1>2, <2>1, <2>2, RepointedRows
  <2>4. draft = Without(t, Doc(w)) /\ Handed(w)  BY <1>1, <1>6, <2>2 DEF Drafted, At
  <2>5. DOMAIN draft = DOMAIN tab \ {Doc(w)}  BY <1>1, <2>3, <2>4, WithoutRows
  <2> QED  BY <1>6, <2>4, <2>5 DEF Handed, mergeChecks
<1>7. CASE Req(w).op = "rename"
  <2>1. Req(w).to \in Nodes  BY <1>1, <1>7, RequestTypes
  <2>2. draft = moveID(tab, Doc(w), Req(w).to) /\ (Doc(w) \in DOMAIN tab => Req(w).to \notin DOMAIN tab)
    BY <1>1, <1>7 DEF Drafted, At
  <2>3. DOMAIN draft = IF Doc(w) \in DOMAIN tab THEN (DOMAIN tab \ {Doc(w)}) \cup {Req(w).to} ELSE DOMAIN tab
    BY <1>1, <1>2, <2>1, <2>2, RenamedRows
  <2> QED  BY <1>7, <2>2, <2>3
<1> QED  BY <1>1, <1>3, <1>4, <1>5, <1>6, <1>7, RequestTypes

LEMMA CommitLinks ==
  ASSUME IInv, LinkInv, NEW w \in Writers, Commit(w)
  PROVE  LinkInv'
<1> DEFINE linking == {Req(v).to : v \in {u \in Writers \ {w} : At(u, "commit", {"link"}) /\ Doc(u) = Doc(w)}}
           left == IF Req(w).force THEN Swept(w) ELSE IF tx[w].late THEN tx[w].moved ELSE {}
<1>1. /\ Pc(w) = "commit" /\ Req(w).op # "link" /\ tab' = draft
      /\ link' = [l \in DOMAIN link |-> IF l \in tx[w].moved THEN Req(w).to ELSE link[l]]
      /\ excused' = IF Doc(w) \in DOMAIN draft THEN excused ELSE excused \cup linking \cup left
      /\ tx'[w] = Idle /\ \A v \in Writers \ {w} : tx'[v] = tx[v]
  BY Released DEF IInv, Types, Commit, Doc
<1>2. /\ Types /\ Shape(w) /\ treeLock = w /\ Req(w) \in Requests
  BY <1>1 DEF IInv, WriterInv, Holding, Shape
<1>3. excused \subseteq excused'  BY <1>1
<1>4. LinksHold'
  <2>1. SUFFICES ASSUME NEW l \in DOMAIN link, l \notin excused' PROVE link'[l] \in DOMAIN draft
    BY <1>1 DEF LinksHold
  <2>2. link[l] \in DOMAIN tab  BY <1>3, <2>1 DEF LinkInv, LinksHold
  <2>3. CASE l \in tx[w].moved
    <3>1. link'[l] = Req(w).to /\ Req(w).op \in {"rename", "merge"}  BY <1>1, <1>2, <2>3 DEF Shape
    <3>2. CASE Req(w).op = "merge"
      <4>1. Doc(w) \notin DOMAIN draft  BY <1>1, <3>2, CommittedRows
      <4>2. ~Req(w).force  BY <1>2, <3>2, RequestTypes
      <4>3. ~tx[w].late  BY <1>1, <2>1, <2>3, <4>1, <4>2
      <4> QED  BY <1>1, <3>1, <3>2, <4>3, CommittedRows
    <3>3. CASE Req(w).op = "rename"
      <4>1. Doc(w) \in DOMAIN tab  BY <1>1, <1>3, <2>1, <2>3, <3>3 DEF LinkInv, LinksSeen, At
      <4> QED  BY <1>1, <3>1, <3>3, <4>1, CommittedRows
    <3> QED  BY <3>1, <3>2, <3>3
  <2>4. CASE l \notin tx[w].moved
    <3>1. link'[l] = link[l]  BY <1>1, <2>4
    <3>2. CASE link[l] # Doc(w)  BY <1>1, <2>2, <3>1, <3>2, CommittedRows
    <3>3. CASE link[l] = Doc(w) /\ Req(w).op \in {"insert", "save", "workflow"}
      BY <1>1, <2>2, <3>1, <3>3, CommittedRows
    <3>4. CASE link[l] = Doc(w) /\ Req(w).op \in {"delete", "merge", "rename"}
      <4>1. l \in Swept(w)  BY <3>4 DEF Swept
      <4>2. Doc(w) \notin DOMAIN draft  BY <1>1, <2>2, <3>4, CommittedRows
      <4>3. ~Req(w).force  BY <1>1, <2>1, <4>1, <4>2
      <4> QED  BY <1>1, <1>3, <2>1, <2>4, <3>4, <4>1, <4>3 DEF LinkInv, LinksSeen, At
    <3> QED  BY <1>1, <1>2, <3>2, <3>3, <3>4, RequestTypes
  <2> QED  BY <2>3, <2>4
<1>5. LinksSeen(w)' /\ TargetSeen(w)'  BY <1>1 DEF LinksSeen, TargetSeen, At, Pc, Idle
<1>6. ASSUME NEW v \in Writers \ {w} PROVE LinksSeen(v)' /\ TargetSeen(v)'
  <2>1. Pc(v)' = Pc(v) /\ Req(v)' = Req(v) /\ Doc(v)' = Doc(v)  BY <1>1 DEF Pc, Req, Doc
  <2>2. ~Holding(v)  BY <1>2 DEF IInv, WriterInv
  <2>3. LinksSeen(v)'  BY <2>1, <2>2 DEF LinksSeen, Holding, At
  <2>4. ASSUME At(v, "commit", {"link"}) PROVE Doc(v) \in DOMAIN draft \/ Req(v).to \in excused'
    <3>1. Doc(v) \in DOMAIN tab \/ Req(v).to \in excused  BY <2>4 DEF LinkInv, TargetSeen
    <3>2. CASE Doc(v) = Doc(w) /\ Doc(w) \notin DOMAIN draft  BY <1>1, <2>4, <3>2
    <3>3. CASE Doc(v) # Doc(w)  BY <1>1, <1>3, <3>1, <3>3, CommittedRows
    <3> QED  BY <3>2, <3>3
  <2>5. TargetSeen(v)'  BY <1>1, <2>1, <2>4 DEF TargetSeen, At
  <2> QED  BY <2>3, <2>5
<1> QED  BY <1>4, <1>5, <1>6 DEF LinkInv

LEMMA LinkStep == IInv /\ LinkInv /\ [Next]_vars => LinkInv'
<1>1. ASSUME LinkInv, UNCHANGED vars PROVE LinkInv'
  BY <1>1 DEF vars, LinkInv, LinksHold, LinksSeen, TargetSeen, Swept, At, Pc, Req, Doc
<1>2. ASSUME IInv, LinkInv, Next PROVE LinkInv'
  <2>1. PICK w \in Writers : Step(w) \/ GiveUp(w) \/ \E q \in Requests : Begin(w, q)  BY <1>2 DEF Next
  <2> QED  BY <1>2, <2>1, QuietStepLinks, CommitLinkLinks, CommitLinks DEF Step
<1> QED  BY <1>1, <1>2

\* A document's link leads to a row of the tree, or what broke it is one of the
\* three things the code leaves open: a link written while its target was going
\* away, a forced delete, a late merge.
THEOREM LinksAreExcused == Spec => []LinksHold
<1>1. Init => LinkInv
  <2>1. ASSUME Init PROVE LinkInv
    <3>1. DOMAIN link = {} /\ \A w \in Writers : tx[w] = Idle  BY <2>1 DEF Init
    <3> QED  BY <3>1 DEF LinkInv, LinksHold, LinksSeen, TargetSeen, At, Pc, Idle
  <2> QED  BY <2>1
<1>2. LinkInv => LinksHold  BY DEF LinkInv
<1> QED  BY <1>1, <1>2, LinkStep, Invariance, PTL DEF Spec
=============================================================================

---------------------------- MODULE AccessProofs ----------------------------
(***************************************************************************)
(* Theorems about Access, for any sites, users, roles and rules.             *)
(***************************************************************************)
EXTENDS Access, TLAPS

Ptypes == {"read", "write", "share"}

\* The rights a share lifts are those of the last grant by one who may lift.
LiftedIsGiven ==
  \A u \in People, d \in Docs, ptype \in Ptypes :
    scopeOverridden(u, d, ptype) => ptype \in lifted[u][d]

IInv == TypeOK /\ LiftedIsGiven

-----------------------------------------------------------------------------
(* The trees.                                                              *)

\* A row that checkTree lets under another parent leaves the table a forest.
LEMMA MoveKeepsForest ==
  ASSUME NEW t \in [Nodes -> Row], IsForest(t), NEW n \in Nodes, NEW p \in Nodes \cup {None},
         checkTree(t, n, [t[n] EXCEPT !.parent = p])
  PROVE  /\ With(t, n, [t[n] EXCEPT !.parent = p]) \in [Nodes -> Row]
         /\ IsForest(With(t, n, [t[n] EXCEPT !.parent = p]))
<1> DEFINE row == [t[n] EXCEPT !.parent = p]
           w == With(t, n, row)
<1>1. /\ row \in Row /\ row.parent = p /\ row.group = t[n].group
      /\ DOMAIN t = Nodes
  BY DEF Row
<1>2. w \in [Nodes -> Row] /\ \A x \in Nodes : w[x] = IF x = n THEN row ELSE t[x]
  BY <1>1 DEF With
<1>3. \A x \in Nodes : w[x].group = t[x].group
  BY <1>1, <1>2
<1>4. ParentsAreGroups(w)
  BY <1>1, <1>2, <1>3, ZenonT(60) DEF IsForest, ParentsAreGroups, checkTree
<1>5. ASSUME NEW S \in SUBSET DOMAIN w, S # {}, \A x \in S : w[x].parent \in S
      PROVE  FALSE
  <2>1. S \subseteq Nodes
    BY <1>2
  <2>2. CASE n \notin S \/ p = t[n].parent
    <3>1. \A x \in S : t[x].parent \in S
      BY <1>1, <1>2, <1>5, <2>1, <2>2
    <3> QED
      BY <1>1, <1>5, <2>1, <3>1 DEF IsForest, Acyclic
  <2>3. CASE n \in S /\ p # t[n].parent
    <3>1. p \in S /\ p # None
      BY <1>1, <1>2, <1>5, <2>1, <2>3, NoneAssumption, ZenonT(60)
    <3>2. n \notin treeAncestorsInclusive(t, p)
      BY <1>1, <2>3, <3>1 DEF checkTree
    <3>3. PICK A \in SUBSET Nodes : p \in A /\ Closed(t, A) /\ n \notin A
      BY <3>2 DEF treeAncestorsInclusive
    <3>4. \A x \in S \cap A : t[x].parent \in S \cap A
      BY <1>1, <1>2, <1>5, <2>1, <3>3, NoneAssumption DEF Closed
    <3>5. S \cap A # {} /\ S \cap A \in SUBSET DOMAIN t
      BY <1>1, <2>1, <3>1, <3>3
    <3> QED
      BY <3>4, <3>5 DEF IsForest, Acyclic
  <2> QED
    BY <2>2, <2>3
<1>6. Acyclic(w)
  BY <1>5 DEF Acyclic
<1> QED
  BY <1>2, <1>4, <1>6 DEF IsForest

\* The walk up from v meets a value of A.
Up(t, v, A) ==
  v # None /\ (v \in A \/ \A S \in SUBSET Nodes : v \in S /\ Closed(t, S) => S \cap A # {})

\* v is met on the walk down from the values of A.
Down(t, v, A) ==
  \A S \in SUBSET Nodes :
    A \cap Nodes \subseteq S /\ (\A y \in Nodes : t[y].parent \in S => y \in S) => v \in S

\* The two walks agree: what one may not leave, the other may not enter.
LEMMA UpIsDown ==
  ASSUME NEW t \in [Nodes -> Row], NEW v \in Nodes \cup {None}, NEW A
  PROVE  Up(t, v, A) <=> Down(t, v, A)
<1>1. DOMAIN t = Nodes /\ \A y \in Nodes : t[y].parent \in Nodes \cup {None}
  BY DEF Row
<1>2. ASSUME v = None PROVE ~Down(t, v, A)
  <2>1. Nodes \in SUBSET Nodes /\ v \notin Nodes
    BY <1>2, NoneAssumption
  <2> QED
    BY <2>1 DEF Down
<1>3. ASSUME v \in Nodes, Up(t, v, A),
             NEW S \in SUBSET Nodes, A \cap Nodes \subseteq S,
             \A y \in Nodes : t[y].parent \in S => y \in S, v \notin S
      PROVE  FALSE
  <2>1. Nodes \ S \in SUBSET Nodes /\ v \in Nodes \ S /\ (Nodes \ S) \cap A = {} /\ v \notin A
    BY <1>3
  <2>2. Closed(t, Nodes \ S)
    BY <1>1, <1>3 DEF Closed
  <2> QED
    BY <1>3, <2>1, <2>2 DEF Up
<1>4. ASSUME v \in Nodes, Down(t, v, A),
             NEW S \in SUBSET Nodes, v \in S, Closed(t, S), S \cap A = {}
      PROVE  FALSE
  <2>1. Nodes \ S \in SUBSET Nodes /\ A \cap Nodes \subseteq Nodes \ S /\ v \notin Nodes \ S
    BY <1>4
  <2>2. \A y \in Nodes : t[y].parent \in Nodes \ S => y \in Nodes \ S
    BY <1>1, <1>4, NoneAssumption DEF Closed
  <2> QED
    BY <1>4, <2>1, <2>2 DEF Down
<1> QED
  BY <1>2, <1>3, <1>4, NoneAssumption DEF Up, Down

\* A walk up that meets A from a row's parent meets it from the row.
LEMMA UpFromParent ==
  ASSUME NEW t \in [Nodes -> Row], NEW n \in Nodes, NEW A, Up(t, t[n].parent, A)
  PROVE  Up(t, n, A)
<1>1. n # None /\ DOMAIN t = Nodes
  BY NoneAssumption
<1>2. ASSUME NEW S \in SUBSET Nodes, n \in S, Closed(t, S)
      PROVE  S \cap A # {}
  <2>1. t[n].parent \in S
    BY <1>1, <1>2 DEF Closed, Up
  <2> QED
    BY <1>2, <2>1 DEF Up
<1> QED
  BY <1>1, <1>2 DEF Up

\* A row under A that is hung elsewhere draws no walk into A.
LEMMA MoveDrawsNothing ==
  ASSUME NEW t \in [Nodes -> Row], NEW n \in Nodes, NEW row, NEW A, Up(t, n, A),
         NEW v, Up(With(t, n, row), v, A)
  PROVE  Up(t, v, A)
<1>1. \A x \in DOMAIN With(t, n, row) : x # n => With(t, n, row)[x] = t[x]
  BY DEF With
<1>2. DOMAIN t = Nodes /\ DOMAIN With(t, n, row) = Nodes
  BY DEF With
<1>3. ASSUME NEW S \in SUBSET Nodes, v \in S, Closed(t, S)
      PROVE  S \cap A # {}
  <2>1. CASE n \in S
    BY <1>3, <2>1 DEF Up
  <2>2. CASE n \notin S
    <3>1. Closed(With(t, n, row), S)
      BY <1>1, <1>2, <1>3, <2>2 DEF Closed
    <3> QED
      BY <1>3, <3>1 DEF Up
  <2> QED
    BY <2>1, <2>2
<1> QED
  BY <1>3 DEF Up

-----------------------------------------------------------------------------
(* The sites.                                                              *)

LEMMA DocsFacts ==
  ASSUME NEW d \in Docs
  PROVE  \/ d[1] = "Territory" /\ d[2] \in Nodes /\ d = <<"Territory", d[2]>>
         \/ d[1] = "Order" /\ d[2] \in DOMAIN order /\ d = <<"Order", d[2]>>
BY DEF Docs

LEMMA InitInv == Init => IInv
<1> SUFFICES ASSUME Init PROVE IInv
  OBVIOUS
<1>1. PICK c \in Cases :
        /\ tab = c.tab /\ order = c.order /\ rules = c.rules
        /\ shares = [u \in c.users |-> [d \in Docs |-> NoShare]]
        /\ lifted = [u \in c.users |-> [d \in Docs |-> {}]]
        /\ changes = c.changes
  BY DEF Init
<1>2. /\ c.tab \in [Nodes -> Row] /\ IsForest(c.tab)
      /\ c.order \in UNION {[S -> Forms] : S \in SUBSET Orders}
      /\ c.rules \subseteq Rules /\ c.users \subseteq Users /\ c.changes \in 0..MaxChanges
  BY AccessAssumption
<1>3. DOMAIN order \subseteq Orders /\ order \in [DOMAIN order -> Forms]
  BY <1>1, <1>2
<1>4. People = c.users
  BY <1>1 DEF People
<1>5. /\ shares \in [People -> [Docs -> [write: BOOLEAN, share: BOOLEAN, override: BOOLEAN, on: BOOLEAN]]]
      /\ lifted \in [People -> [Docs -> SUBSET {"read", "write", "share"}]]
  BY <1>1, <1>4 DEF NoShare
<1>6. TypeOK
  BY <1>1, <1>2, <1>3, <1>4, <1>5 DEF TypeOK
<1>7. \A u \in People, d \in Docs : ~shares[u][d].override
  BY <1>1, <1>4 DEF NoShare
<1>8. LiftedIsGiven
  BY <1>7 DEF LiftedIsGiven, scopeOverridden
<1> QED
  BY <1>6, <1>8 DEF IInv

\* A step that leaves rules and shares alone and the tables in their types
\* keeps the invariant.
LEMMA TablesStep ==
  ASSUME IInv, UNCHANGED <<rules, shares, lifted>>, changes' \in 0..MaxChanges,
         tab' \in [Nodes -> Row], IsForest(tab'),
         DOMAIN order' = DOMAIN order, order' \in [DOMAIN order -> Forms]
  PROVE  IInv'
<1>1. Docs' = Docs /\ People' = People
  BY DEF Docs, People
<1>2. TypeOK'
  BY <1>1 DEF IInv, TypeOK
<1>3. LiftedIsGiven'
  BY <1>1 DEF IInv, LiftedIsGiven, scopeOverridden, grants
<1> QED
  BY <1>2, <1>3 DEF IInv

\* A step that writes one user's share of one document, with what it lifts.
LEMMA SharesStep ==
  ASSUME IInv, UNCHANGED <<tab, order, rules>>, changes' \in 0..MaxChanges,
         NEW user \in People, NEW d \in Docs,
         NEW row \in [write: BOOLEAN, share: BOOLEAN, override: BOOLEAN, on: BOOLEAN],
         NEW given \in SUBSET {"read", "write", "share"},
         shares' = [shares EXCEPT ![user][d] = row],
         lifted' = [lifted EXCEPT ![user][d] = given],
         \A ptype \in Ptypes : row.override /\ grants(row, ptype) => ptype \in given
  PROVE  IInv'
<1>1. Docs' = Docs /\ People' = People
  BY DEF Docs, People, IInv, TypeOK
<1>2. /\ shares' \in [People -> [Docs -> [write: BOOLEAN, share: BOOLEAN, override: BOOLEAN, on: BOOLEAN]]]
      /\ lifted' \in [People -> [Docs -> SUBSET {"read", "write", "share"}]]
  BY DEF IInv, TypeOK
<1>3. TypeOK'
  BY <1>1, <1>2 DEF IInv, TypeOK
<1>4. \A x \in People, y \in Docs : /\ shares'[x][y] = IF x = user /\ y = d THEN row ELSE shares[x][y]
                                    /\ lifted'[x][y] = IF x = user /\ y = d THEN given ELSE lifted[x][y]
  BY DEF IInv, TypeOK
<1>5. ASSUME NEW x \in People, NEW y \in Docs, NEW ptype \in Ptypes,
             shares'[x][y].override, grants(shares'[x][y], ptype)
      PROVE  ptype \in lifted'[x][y]
  <2>1. CASE x = user /\ y = d
    BY <1>4, <1>5, <2>1
  <2>2. CASE ~(x = user /\ y = d)
    <3>1. shares'[x][y] = shares[x][y] /\ lifted'[x][y] = lifted[x][y]
      BY <1>4, <2>2
    <3> QED
      BY <1>5, <3>1 DEF IInv, LiftedIsGiven, scopeOverridden
  <2> QED
    BY <2>1, <2>2
<1>6. LiftedIsGiven'
  BY <1>1, <1>5 DEF LiftedIsGiven, scopeOverridden, grants
<1> QED
  BY <1>3, <1>6 DEF IInv

LEMMA ChangeType == ASSUME IInv, Change PROVE changes' \in 0..MaxChanges
BY AccessAssumption DEF IInv, TypeOK, Change

LEMMA SaveTerritoryInv ==
  ASSUME IInv, NEW u, NEW n \in Nodes, NEW p \in Nodes \cup {None},
         SaveTerritory(u, n, p) \/ DBSetParent(u, n, p)
  PROVE  IInv'
<1> DEFINE row == [tab[n] EXCEPT !.parent = p]
<1>1. /\ Change /\ checkTree(tab, n, row) /\ tab' = With(tab, n, row)
      /\ UNCHANGED <<order, rules, shares, lifted>>
  BY DEF SaveTerritory, DBSetParent
<1>2. tab \in [Nodes -> Row] /\ IsForest(tab)
  BY DEF IInv, TypeOK
<1>3. tab' \in [Nodes -> Row] /\ IsForest(tab')
  BY <1>1, <1>2, MoveKeepsForest
<1>4. DOMAIN order' = DOMAIN order /\ order' \in [DOMAIN order -> Forms]
  BY <1>1 DEF IInv, TypeOK
<1> QED
  BY <1>1, <1>3, <1>4, ChangeType, TablesStep

LEMMA WriteOrderInv ==
  ASSUME IInv, NEW u, NEW o \in DOMAIN order, NEW r \in Forms, Change,
         order' = [order EXCEPT ![o] = r], UNCHANGED <<tab, rules, shares, lifted>>
  PROVE  IInv'
<1>1. DOMAIN order' = DOMAIN order /\ order' \in [DOMAIN order -> Forms]
  BY DEF IInv, TypeOK
<1>2. tab' \in [Nodes -> Row] /\ IsForest(tab')
  BY DEF IInv, TypeOK
<1> QED
  BY <1>1, <1>2, ChangeType, TablesStep

LEMMA ShareDocInv ==
  ASSUME IInv, NEW u, NEW d \in Docs, NEW user \in People, NEW r \in Rights, ShareDoc(u, d, user, r)
  PROVE  IInv'
<1> DEFINE row == Granted(r, shares[user][d])
           given == IF r.override THEN {p \in {"read", "write", "share"} : grants(row, p)} ELSE {}
<1>1. /\ Change /\ UNCHANGED <<tab, order, rules>>
      /\ shares' = [shares EXCEPT ![user][d] = row]
      /\ lifted' = [lifted EXCEPT ![user][d] = given]
  BY DEF ShareDoc
<1>2. r \in [write: BOOLEAN, share: BOOLEAN, override: BOOLEAN]
  BY AccessAssumption
<1>3. row \in [write: BOOLEAN, share: BOOLEAN, override: BOOLEAN, on: BOOLEAN] /\ row.override = r.override
  BY <1>2 DEF Granted
<1>4. given \in SUBSET {"read", "write", "share"}
  OBVIOUS
<1>5. \A ptype \in Ptypes : row.override /\ grants(row, ptype) => ptype \in given
  BY <1>3 DEF Ptypes
<1>6. changes' \in 0..MaxChanges
  BY <1>1, ChangeType
<1> HIDE DEF row, given
<1> QED
  BY <1>1, <1>3, <1>4, <1>5, <1>6, SharesStep

LEMMA UnshareDocInv ==
  ASSUME IInv, NEW u, NEW d \in Docs, NEW user \in People, UnshareDoc(u, d, user)
  PROVE  IInv'
<1>1. /\ Change /\ UNCHANGED <<tab, order, rules>>
      /\ shares' = [shares EXCEPT ![user][d] = NoShare]
      /\ lifted' = [lifted EXCEPT ![user][d] = {}]
  BY DEF UnshareDoc
<1>2. NoShare \in [write: BOOLEAN, share: BOOLEAN, override: BOOLEAN, on: BOOLEAN] /\ ~NoShare.override
  BY DEF NoShare
<1>3. changes' \in 0..MaxChanges
  BY <1>1, ChangeType
<1>4. \A ptype \in Ptypes : NoShare.override /\ grants(NoShare, ptype) => ptype \in {}
  BY <1>2
<1>5. {} \in SUBSET {"read", "write", "share"}
  OBVIOUS
<1> QED
  BY <1>1, <1>2, <1>3, <1>4, <1>5, SharesStep

LEMMA WriteRuleInv ==
  ASSUME IInv, NEW u, NEW r \in Rules, WriteRule(u, r)
  PROVE  IInv'
<1>1. rules' \subseteq Rules /\ UNCHANGED <<tab, order, shares, lifted>> /\ changes' \in 0..MaxChanges
  BY ChangeType DEF WriteRule, IInv, TypeOK
<1>2. Docs' = Docs /\ People' = People
  BY <1>1 DEF Docs, People
<1>3. TypeOK'
  BY <1>1, <1>2 DEF IInv, TypeOK
<1>4. LiftedIsGiven'
  BY <1>1, <1>2 DEF IInv, LiftedIsGiven, scopeOverridden, grants
<1> QED
  BY <1>3, <1>4 DEF IInv

LEMMA NextInv == IInv /\ [Next]_vars => IInv'
<1> SUFFICES ASSUME IInv, [Next]_vars PROVE IInv'
  OBVIOUS
<1>1. CASE UNCHANGED vars
  BY <1>1, TablesStep DEF vars, IInv, TypeOK
<1>2. ASSUME NEW u \in People, NEW n \in Nodes, NEW p \in Nodes \cup {None},
             SaveTerritory(u, n, p) \/ DBSetParent(u, n, p)
      PROVE  IInv'
  BY <1>2, SaveTerritoryInv
<1>3. ASSUME NEW u \in People, NEW o \in DOMAIN order, NEW r \in Forms, SaveOrder(u, o, r)
      PROVE  IInv'
  BY <1>3, WriteOrderInv DEF SaveOrder
<1>4. ASSUME NEW u \in People, NEW o \in DOMAIN order, NEW t \in Nodes \cup {None}, DBSetOrder(u, o, t)
      PROVE  IInv'
  <2>1. [order[o] EXCEPT !.territory = t] \in Forms
    BY DEF IInv, TypeOK, Forms
  <2> QED
    BY <1>4, <2>1, WriteOrderInv DEF DBSetOrder
<1>8. ASSUME NEW u \in People, NEW o \in DOMAIN order, NEW l \in Target, DBSetLine(u, o, l)
      PROVE  IInv'
  <2>1. [order[o] EXCEPT !.line = l] \in Forms
    BY DEF IInv, TypeOK, Forms
  <2> QED
    BY <1>8, <2>1, WriteOrderInv DEF DBSetLine
<1>5. ASSUME NEW u \in People, NEW d \in Docs, NEW user \in People, NEW r \in Rights, ShareDoc(u, d, user, r)
      PROVE  IInv'
  BY <1>5, ShareDocInv
<1>6. ASSUME NEW u \in People, NEW d \in Docs, NEW user \in People, UnshareDoc(u, d, user)
      PROVE  IInv'
  BY <1>6, UnshareDocInv
<1>7. ASSUME NEW u \in People, NEW r \in Rules, WriteRule(u, r)
      PROVE  IInv'
  BY <1>7, WriteRuleInv
<1> QED
  BY <1>1, <1>2, <1>3, <1>4, <1>5, <1>6, <1>7, <1>8 DEF Next

\* The inductive invariant, whoever writes, shares and rescopes: what a share
\* lifts is what the last override of it was given for.
THEOREM Invariance == Spec => []IInv
BY InitInv, NextInv, PTL DEF Spec

\* Type correctness, the forest of the Territories included: no write of a
\* parent that checkTree lets through breaks the tree.
THEOREM TypeCorrect == Spec => []TypeOK
<1>1. IInv => TypeOK
  BY DEF IInv
<1> QED
  BY <1>1, Invariance, PTL

\* Outside his scopes nobody does more than an unscoped System Manager let a
\* share lift (share.go, scopeOverridden).
THEOREM OutsideIsGivenHolds == Spec => []OutsideIsGiven
<1>1. IInv => OutsideIsGiven
  BY DEF IInv, OutsideIsGiven, LiftedIsGiven, Ptypes, HasPermission, scopeAllows, Stored, Docs, Territory, Order
<1> QED
  BY <1>1, Invariance, PTL

-----------------------------------------------------------------------------
(* What the rules ask, of each kind of document.                           *)

\* A Territory, an Order and a Line are in u's scope.
TerritoryIn(t, allowed, n) == allowed # {} => Up(t, n, allowed)
OrderIn(t, territories, orders, o, r) ==
  (territories # {} => Up(t, r.territory, territories)) /\ (orders # {} => o \in orders)
LineIn(t, allowed, l) ==
  allowed # {} => IF l.of = "Territory" THEN Up(t, l.to, allowed) ELSE l.to \in allowed

LEMMA BoundTerritory ==
  ASSUME NEW n, NEW p, NEW allow \in Doctypes
  PROVE  Bound(Territory(n, p), allow) = IF allow = "Territory" THEN {n} ELSE {}
BY DEF Bound, Territory, Doctypes

LEMMA BoundOrder ==
  ASSUME NEW o, NEW r, NEW allow \in Doctypes
  PROVE  Bound(Order(o, r), allow) = IF allow = "Territory" THEN {r.territory} ELSE {o}
BY DEF Bound, Order, Doctypes

LEMMA BoundLine ==
  ASSUME NEW l, NEW allow \in Doctypes
  PROVE  Bound(Line(l), allow) = IF l.of = allow THEN {l.to} ELSE {}
BY DEF Bound, Line, Doctypes

LEMMA FormFacts ==
  ASSUME NEW r \in Forms
  PROVE  /\ r.territory \in Nodes \cup {None}
         /\ r.line \in Target
BY DEF Forms

LEMMA TargetFacts ==
  ASSUME NEW l \in Target
  PROVE  \/ l.of = "Territory" /\ l.to \in Nodes /\ l.to # None
         \/ l.of = "Order" /\ l.to \in Orders /\ l.to # None
BY NoneAssumption, AccessAssumption DEF Target

\* The check of a Territory as it is stored.
LEMMA TerritoryWithin ==
  TypeOK => \A u, within : \A n \in Nodes :
    FieldsWithin(u, Stored(<<"Territory", n>>), within) <=> TerritoryIn(tab, Allowed(u, "Territory", within), n)
<1> SUFFICES ASSUME TypeOK, NEW u, NEW within, NEW n \in Nodes
             PROVE  FieldsWithin(u, Stored(<<"Territory", n>>), within)
                      <=> TerritoryIn(tab, Allowed(u, "Territory", within), n)
  OBVIOUS
<1> DEFINE doc == Territory(n, tab[n].parent)
           A == Allowed(u, "Territory", within)
<1>1. Stored(<<"Territory", n>>) = doc /\ doc.doctype = "Territory" /\ doc.parent = tab[n].parent
  BY DEF Stored, Territory
<1>2. tab \in [Nodes -> Row]
  BY DEF TypeOK
<1>3. \A v : withinScope("Territory", v, A) <=> Up(tab, v, A)
  BY DEF withinScope, Up
<1>4. Up(tab, tab[n].parent, A) => Up(tab, n, A)
  BY <1>2, UpFromParent
<1>5. /\ Bound(doc, "Territory") = {n}
      /\ Bound(doc, "Order") = {}
  BY BoundTerritory DEF Doctypes
<1> HIDE DEF doc
<1>6. FieldsWithin(u, doc, within)
        <=> (A # {} => withinScope("Territory", n, A) \/ withinScope("Territory", doc.parent, A))
  BY <1>1, <1>5 DEF FieldsWithin, Doctypes
<1> QED
  BY <1>1, <1>3, <1>4, <1>6 DEF TerritoryIn

\* The check of an Order's own fields.
LEMMA OrderWithin ==
  TypeOK => \A u, within : \A o \in Orders, r \in Forms :
    FieldsWithin(u, Order(o, r), within)
      <=> OrderIn(tab, Allowed(u, "Territory", within), Allowed(u, "Order", within), o, r)
<1> SUFFICES ASSUME NEW u, NEW within, NEW o \in Orders, NEW r \in Forms
             PROVE  FieldsWithin(u, Order(o, r), within)
                      <=> OrderIn(tab, Allowed(u, "Territory", within), Allowed(u, "Order", within), o, r)
  OBVIOUS
<1> DEFINE A == Allowed(u, "Territory", within)
           B == Allowed(u, "Order", within)
           doc == Order(o, r)
<1>1. /\ Bound(doc, "Territory") = {r.territory}
      /\ Bound(doc, "Order") = {o}
      /\ doc.doctype = "Order"
  BY BoundOrder DEF Doctypes, Order
<1>2. withinScope("Territory", r.territory, A) <=> Up(tab, r.territory, A)
  BY DEF withinScope, Up
<1>3. withinScope("Order", o, B) <=> o \in B
  BY AccessAssumption DEF withinScope
<1> HIDE DEF doc
<1>4. FieldsWithin(u, doc, within)
        <=> /\ A # {} => withinScope("Territory", r.territory, A)
            /\ B # {} => withinScope("Order", o, B)
  BY <1>1 DEF FieldsWithin, Doctypes
<1> QED
  BY <1>2, <1>3, <1>4 DEF OrderIn, doc

\* The check of a Line.
LEMMA LineWithin ==
  TypeOK => \A u, within : \A l \in Target :
    FieldsWithin(u, Line(l), within) <=> LineIn(tab, Allowed(u, l.of, within), l)
<1> SUFFICES ASSUME NEW u, NEW within, NEW l \in Target
             PROVE  FieldsWithin(u, Line(l), within) <=> LineIn(tab, Allowed(u, l.of, within), l)
  OBVIOUS
<1> DEFINE A == Allowed(u, l.of, within)
           doc == Line(l)
<1>1. l.of \in Doctypes /\ l.to # None
  BY TargetFacts DEF Doctypes
<1>2. doc.doctype = "Line" /\ \A allow \in Doctypes : Bound(doc, allow) = IF l.of = allow THEN {l.to} ELSE {}
  BY BoundLine DEF Line
<1> HIDE DEF doc
<1>3. FieldsWithin(u, doc, within) <=> (A # {} => withinScope(l.of, l.to, A))
  BY <1>1, <1>2 DEF FieldsWithin, Doctypes
<1>4. withinScope(l.of, l.to, A) <=> IF l.of = "Territory" THEN Up(tab, l.to, A) ELSE l.to \in A
  BY <1>1 DEF withinScope, Up
<1> QED
  BY <1>3, <1>4 DEF LineIn, doc

-----------------------------------------------------------------------------
(* Lists and reads.                                                        *)

\* The filter of a value is its check.
LEMMA FilteredIsWithin ==
  ASSUME TypeOK, NEW v \in Nodes \cup {None}, NEW A
  PROVE  Filtered("Territory", v, A) <=> Up(tab, v, A)
<1>1. Below(v, A) <=> Down(tab, v, A)
  BY DEF Below, Down
<1>2. Up(tab, v, A) <=> Down(tab, v, A)
  BY UpIsDown DEF TypeOK
<1> QED
  BY <1>1, <1>2 DEF Filtered

LEMMA TerritoryFiltered ==
  ASSUME TypeOK, NEW u, NEW within, NEW n \in Nodes
  PROVE  bindingFilters(u, Stored(<<"Territory", n>>), within)
           <=> FieldsWithin(u, Stored(<<"Territory", n>>), within)
<1> DEFINE A == Allowed(u, "Territory", within)
           doc == Territory(n, tab[n].parent)
<1>1. /\ Bound(doc, "Territory") = {n}
      /\ Bound(doc, "Order") = {}
      /\ Stored(<<"Territory", n>>) = doc
  BY BoundTerritory DEF Doctypes, Stored
<1> HIDE DEF doc
<1>2. bindingFilters(u, doc, within) <=> (A # {} => Filtered("Territory", n, A))
  BY <1>1 DEF bindingFilters, Doctypes
<1>3. Filtered("Territory", n, A) <=> Up(tab, n, A)
  BY FilteredIsWithin
<1> QED
  BY <1>1, <1>2, <1>3, TerritoryWithin DEF TerritoryIn

LEMMA OrderFiltered ==
  ASSUME TypeOK, NEW u, NEW within, NEW o \in Orders, NEW r \in Forms
  PROVE  bindingFilters(u, Order(o, r), within) <=> FieldsWithin(u, Order(o, r), within)
<1> DEFINE A == Allowed(u, "Territory", within)
           B == Allowed(u, "Order", within)
           doc == Order(o, r)
<1>1. /\ Bound(doc, "Territory") = {r.territory}
      /\ Bound(doc, "Order") = {o}
  BY BoundOrder DEF Doctypes
<1>2. Filtered("Territory", r.territory, A) <=> Up(tab, r.territory, A)
  BY FilteredIsWithin, FormFacts
<1>3. Filtered("Order", o, B) <=> o \in B
  BY DEF Filtered
<1> HIDE DEF doc
<1>4. bindingFilters(u, doc, within)
        <=> /\ A # {} => Filtered("Territory", r.territory, A)
            /\ B # {} => Filtered("Order", o, B)
  BY <1>1 DEF bindingFilters, Doctypes
<1>5. FieldsWithin(u, Order(o, r), within) <=> OrderIn(tab, A, B, o, r)
  BY OrderWithin
<1> QED
  BY <1>2, <1>3, <1>4, <1>5 DEF OrderIn, doc

LEMMA LineFiltered ==
  ASSUME TypeOK, NEW u, NEW within, NEW l \in Target
  PROVE  bindingFilters(u, Line(l), within) <=> FieldsWithin(u, Line(l), within)
<1> DEFINE A == Allowed(u, l.of, within)
           doc == Line(l)
<1>1. l.of \in Doctypes /\ (l.of = "Territory" => l.to \in Nodes)
  BY TargetFacts DEF Doctypes
<1>2. \A allow \in Doctypes : Bound(doc, allow) = IF l.of = allow THEN {l.to} ELSE {}
  BY BoundLine
<1> HIDE DEF doc
<1>3. bindingFilters(u, doc, within) <=> (A # {} => Filtered(l.of, l.to, A))
  BY <1>1, <1>2 DEF bindingFilters, Doctypes
<1>4. Filtered(l.of, l.to, A) <=> IF l.of = "Territory" THEN Up(tab, l.to, A) ELSE l.to \in A
  BY <1>1, FilteredIsWithin DEF Filtered
<1>5. FieldsWithin(u, Line(l), within) <=> LineIn(tab, A, l)
  BY LineWithin
<1> QED
  BY <1>3, <1>4, <1>5 DEF LineIn, doc

\* The filters of a whole document, with its rows, are its check.
LEMMA StrictIsCheck ==
  ASSUME TypeOK, NEW u, NEW d \in Docs
  PROVE  strictScopeFilters(u, Stored(d), d[1]) <=> checkUserPermissions(u, Stored(d), d[1])
<1>1. CASE d[1] = "Territory" /\ d[2] \in Nodes /\ d = <<"Territory", d[2]>>
  <2>1. Stored(d).rows = {}
    BY <1>1 DEF Stored, Territory
  <2> QED
    BY <1>1, <2>1, TerritoryFiltered DEF strictScopeFilters, checkUserPermissions
<1>2. CASE d[1] = "Order" /\ d[2] \in DOMAIN order /\ d = <<"Order", d[2]>>
  <2>1. d[2] \in Orders /\ order[d[2]] \in Forms /\ Stored(d) = Order(d[2], order[d[2]])
    BY <1>2 DEF TypeOK, Stored
  <2>2. order[d[2]].line \in Target /\ Stored(d).rows = {Line(order[d[2]].line)}
    BY <2>1, FormFacts DEF Order
  <2> QED
    BY <2>1, <2>2, OrderFiltered, LineFiltered DEF strictScopeFilters, checkUserPermissions
<1> QED
  BY <1>1, <1>2, DocsFacts

LEMMA DocListed ==
  ASSUME TypeOK, NEW u \in People, NEW d \in Docs
  PROVE  /\ permissionFilters(u, d) <=> HasPermission(u, d, "read")
         /\ Listed(u, d) <=> HasPermission(u, d, "read")
         /\ scopeFilters(u, d) <=> scopeAllows(u, d, Stored(d), "read")
         /\ HasPermission(u, d, "read") => grantedByAny(u, d[1], "read")
<1>1. shares[u][d].override \in BOOLEAN
  BY DEF TypeOK
<1>2. Stored(d).doctype = d[1]
  BY DocsFacts DEF Stored, Territory, Order
<1>3. strictScopeFilters(u, Stored(d), d[1]) <=> checkUserPermissions(u, Stored(d), d[1])
  BY StrictIsCheck
<1>4. grantedBy(u, d, "read") => grantedByAny(u, d[1], "read")
  BY DEF grantedBy, grantedByAny, roleGrant
<1>5. HasPermission(u, d, "read")
        <=> /\ roleGrant(u, d, "read") \/ grants(shares[u][d], "read")
            /\ \/ strictScopeFilters(u, Stored(d), d[1])
               \/ shares[u][d].override /\ grants(shares[u][d], "read")
  BY <1>2, <1>3 DEF HasPermission, grantedBy, scopeAllows, scopeOverridden
<1>6. permissionFilters(u, d)
        <=> \/ roleGrant(u, d, "read") /\ strictScopeFilters(u, Stored(d), d[1])
            \/ /\ grants(shares[u][d], "read") /\ ~shares[u][d].override
               /\ strictScopeFilters(u, Stored(d), d[1])
            \/ grants(shares[u][d], "read") /\ shares[u][d].override
  BY DEF permissionFilters, SharedScoped, SharedOverride
<1>7. permissionFilters(u, d) <=> HasPermission(u, d, "read")
  BY <1>1, <1>5, <1>6
<1>8. scopeFilters(u, d) <=> scopeAllows(u, d, Stored(d), "read")
  BY <1>2, <1>3 DEF scopeFilters, scopeAllows, scopeOverridden, SharedOverride
<1>9. HasPermission(u, d, "read") => grantedBy(u, d, "read")
  BY DEF HasPermission
<1> QED
  BY <1>4, <1>7, <1>8, <1>9 DEF Listed

LEMMA LineListed ==
  ASSUME TypeOK, NEW u \in People, NEW o \in DOMAIN order
  PROVE  /\ childListFilters(u, o) => childPermission(u, o)
         /\ childPermission(u, o) /\ ~OwnerOnly(u, "Order", "read") => childListFilters(u, o)
<1> DEFINE d == <<"Order", o>>
           line == Line(order[o].line)
<1>1. d \in Docs /\ d[1] = "Order"
  BY DEF Docs
<1>2. order[o].line \in Target
  BY FormFacts DEF TypeOK
<1>3. /\ bindingFilters(u, line, "Order") <=> FieldsWithin(u, line, "Order")
      /\ bindingFilters(u, line, "Line") <=> FieldsWithin(u, line, "Line")
  BY <1>2, LineFiltered
<1>4. /\ permissionFilters(u, d) <=> HasPermission(u, d, "read")
      /\ HasPermission(u, d, "read") => grantedByAny(u, "Order", "read")
  BY <1>1, DocListed
<1>5. scopeOverridden(u, d, "read") <=> SharedOverride(u, d)
  BY DEF scopeOverridden, SharedOverride
<1> QED
  BY <1>3, <1>4, <1>5 DEF childListFilters, childPermission, LineParents

\* A list holds what a read opens, of documents and of child rows: the walk up
\* from a value and the walk down from the rules are complements of one another,
\* in any tree (perm.go, strictScopeFilters and checkUserPermissionsFor).
THEOREM ListsAgreeHolds == Spec => []ListsAgree
<1>1. IInv => ListsAgree
  BY DocListed, LineListed DEF IInv, ListsAgree
<1> QED
  BY <1>1, Invariance, PTL

-----------------------------------------------------------------------------
(* Writes.                                                                 *)

\* What a share lifts of the scopes, as a state predicate of the rows alone.
Lifts(s, ptype) == s.override /\ grants(s, ptype)

OrderReach(t, u, o, r) ==
  /\ OrderIn(t, Allowed(u, "Territory", "Order"), Allowed(u, "Order", "Order"), o, r)
  /\ LineIn(t, Allowed(u, r.line.of, "Order"), r.line)

OrderForm ==
  \A u, ptype : \A o \in Orders, r \in Forms :
    scopeAllows(u, <<"Order", o>>, Order(o, r), ptype)
      <=> OrderReach(tab, u, o, r) \/ Lifts(shares[u][<<"Order", o>>], ptype)

LEMMA OrderAllows == TypeOK => OrderForm
<1> SUFFICES ASSUME TypeOK, NEW u, NEW ptype, NEW o \in Orders, NEW r \in Forms
             PROVE  scopeAllows(u, <<"Order", o>>, Order(o, r), ptype)
                      <=> OrderReach(tab, u, o, r) \/ Lifts(shares[u][<<"Order", o>>], ptype)
  BY DEF OrderForm
<1>1. Order(o, r).doctype = "Order" /\ Order(o, r).rows = {Line(r.line)} /\ r.line \in Target
  BY FormFacts DEF Order
<1>2. checkUserPermissions(u, Order(o, r), "Order") <=> OrderReach(tab, u, o, r)
  BY <1>1, OrderWithin, LineWithin DEF checkUserPermissions, OrderReach
<1> QED
  BY <1>1, <1>2 DEF scopeAllows, scopeOverridden, Lifts

TerritoryForm ==
  \A u, ptype : \A n \in Nodes :
    scopeAllows(u, <<"Territory", n>>, Stored(<<"Territory", n>>), ptype)
      <=> \/ TerritoryIn(tab, Allowed(u, "Territory", "Territory"), n)
          \/ Lifts(shares[u][<<"Territory", n>>], ptype)

LEMMA TerritoryAllows == TypeOK => TerritoryForm
<1> SUFFICES ASSUME TypeOK, NEW u, NEW ptype, NEW n \in Nodes
             PROVE  scopeAllows(u, <<"Territory", n>>, Stored(<<"Territory", n>>), ptype)
                      <=> \/ TerritoryIn(tab, Allowed(u, "Territory", "Territory"), n)
                          \/ Lifts(shares[u][<<"Territory", n>>], ptype)
  BY DEF TerritoryForm
<1> DEFINE doc == Stored(<<"Territory", n>>)
<1>1. doc.doctype = "Territory" /\ doc.rows = {}
  BY DEF Stored, Territory
<1> HIDE DEF doc
<1>2. checkUserPermissions(u, doc, "Territory") <=> FieldsWithin(u, doc, "Territory")
  BY <1>1 DEF checkUserPermissions
<1>3. FieldsWithin(u, doc, "Territory") <=> TerritoryIn(tab, Allowed(u, "Territory", "Territory"), n)
  BY TerritoryWithin DEF doc
<1>4. scopeAllows(u, <<"Territory", n>>, doc, ptype)
        <=> checkUserPermissions(u, doc, "Territory") \/ Lifts(shares[u][<<"Territory", n>>], ptype)
  BY <1>1 DEF scopeAllows, scopeOverridden, Lifts
<1> QED
  BY <1>2, <1>3, <1>4 DEF doc

\* An Order written by u was in his scope as it stood, and is as it stands.
LEMMA WrittenOrder ==
  ASSUME IInv, IInv', NEW u \in People, NEW o \in DOMAIN order, WritesOrder(u, o)
  PROVE  /\ \E r \in Forms : order'[o] = r /\ order' = [order EXCEPT ![o] = r]
         /\ UNCHANGED <<tab, rules, shares, lifted>>
         /\ scopeAllows(u, <<"Order", o>>, Order(o, order[o]), "write")
         /\ scopeAllows(u, <<"Order", o>>, Order(o, order'[o]), "write")
<1>1. Stored(<<"Order", o>>) = Order(o, order[o])
  BY DEF Stored
<1>2. PICK r : r = order'[o]
  OBVIOUS
<1>3. order \in [DOMAIN order -> Forms] /\ order' \in [DOMAIN order' -> Forms]
  BY DEF IInv, TypeOK
<1>4. CASE SaveOrder(u, o, order'[o])
  <2>1. SaveOrder(u, o, r)
    BY <1>2, <1>4
  <2>2. order' = [order EXCEPT ![o] = r] /\ UNCHANGED <<tab, rules, shares, lifted>>
    BY <2>1 DEF SaveOrder
  <2>3. r \in Forms
    BY <1>2, <1>3, <2>2
  <2>4. /\ scopeAllows(u, <<"Order", o>>, Order(o, order[o]), "write")
        /\ scopeAllows(u, <<"Order", o>>, Order(o, r), "write")
    BY <1>1, <2>1 DEF SaveOrder, MaySave, HasPermission
  <2> QED
    BY <1>2, <2>2, <2>3, <2>4
<1>5. CASE DBSetOrder(u, o, order'[o].territory)
  <2>1. DBSetOrder(u, o, r.territory)
    BY <1>2, <1>5
  <2>2. /\ order' = [order EXCEPT ![o] = [order[o] EXCEPT !.territory = r.territory]]
        /\ UNCHANGED <<tab, rules, shares, lifted>>
    BY <2>1 DEF DBSetOrder
  <2>3. r = [order[o] EXCEPT !.territory = r.territory]
    BY <1>2, <1>3, <2>2
  <2>4. r \in Forms
    BY <1>2, <1>3, <2>2
  <2>5. /\ scopeAllows(u, <<"Order", o>>, Order(o, order[o]), "write")
        /\ scopeAllows(u, <<"Order", o>>, Order(o, r), "write")
    BY <1>1, <2>1, <2>3 DEF DBSetOrder, MaySet
  <2> QED
    BY <1>2, <2>2, <2>3, <2>4, <2>5
<1> QED
  BY <1>4, <1>5 DEF WritesOrder

\* A Line set by itself is in his scopes as it was and as it is, and it alone
\* changes; or a share of its Order lifts them.
LEMMA WrittenLine ==
  ASSUME IInv, IInv', NEW u \in People, NEW o \in DOMAIN order, WritesLine(u, o)
  PROVE  \E r \in Forms :
           /\ order'[o] = r /\ order' = [order EXCEPT ![o] = r] /\ r.territory = order[o].territory
           /\ UNCHANGED <<tab, rules, shares>>
           /\ \/ Lifts(shares[u][<<"Order", o>>], "write")
              \/ \A l \in {order[o].line, r.line} : LineIn(tab, Allowed(u, l.of, "Order"), l)
<1>1. PICK r : r = order'[o]
  OBVIOUS
<1>2. order \in [DOMAIN order -> Forms] /\ order' \in [DOMAIN order' -> Forms]
  BY DEF IInv, TypeOK
<1>3. DBSetLine(u, o, r.line)
  BY <1>1 DEF WritesLine
<1>4. /\ order' = [order EXCEPT ![o] = [order[o] EXCEPT !.line = r.line]]
      /\ UNCHANGED <<tab, rules, shares>>
  BY <1>3 DEF DBSetLine
<1>5. r = [order[o] EXCEPT !.line = r.line] /\ r \in Forms
  BY <1>1, <1>2, <1>4
<1>6. r.territory = order[o].territory
  BY <1>2, <1>5 DEF Forms
<1>7. order[o].line \in Target /\ r.line \in Target
  BY <1>2, <1>5, FormFacts
<1>8. \A l \in {order[o].line, r.line} :
        FieldsWithin(u, Line(l), "Order") \/ scopeOverridden(u, <<"Order", o>>, "write")
  BY <1>3 DEF DBSetLine, MaySetLine
<1>9. scopeOverridden(u, <<"Order", o>>, "write") => Lifts(shares[u][<<"Order", o>>], "write")
  BY DEF scopeOverridden, Lifts
<1>10. \A l \in {order[o].line, r.line} :
         FieldsWithin(u, Line(l), "Order") => LineIn(tab, Allowed(u, l.of, "Order"), l)
  BY <1>7, LineWithin DEF IInv
<1> QED
  BY <1>1, <1>4, <1>5, <1>6, <1>8, <1>9, <1>10

\* An Order that a step leaves in someone's reach, over the tree and by the
\* rules and shares that stay, is one he may write.
LEMMA LeftInReach ==
  ASSUME IInv, IInv', UNCHANGED <<tab, rules, shares>>, NEW u, NEW o \in DOMAIN order, NEW r \in Forms,
         order'[o] = r, OrderReach(tab, u, o, r) \/ Lifts(shares[u][<<"Order", o>>], "write")
  PROVE  MayWrite(u, <<"Order", o>>)'
<1>1. o \in Orders
  BY DEF IInv, TypeOK
<1>2. TypeOK' => OrderForm'
  BY OrderAllows, PTL
<1>3. OrderReach(tab, u, o, r)' <=> OrderReach(tab, u, o, r)
  BY DEF OrderReach, Allowed
<1>4. scopeAllows(u, <<"Order", o>>, Order(o, r), "write")'
  BY <1>1, <1>2, <1>3 DEF IInv, OrderForm
<1>5. (Stored(<<"Order", o>>) = Order(o, r))'
  BY DEF Stored
<1> QED
  BY <1>4, <1>5 DEF MayWrite

\* One who writes an Order reaches it as he leaves it.
LEMMA OrdersStayStep ==
  ASSUME IInv, IInv', NEW u \in People, NEW o \in DOMAIN order, WritesOrder(u, o)
  PROVE  MayWrite(u, <<"Order", o>>)'
<1>1. PICK r \in Forms : order'[o] = r /\ order' = [order EXCEPT ![o] = r]
  BY WrittenOrder
<1>2. /\ UNCHANGED <<tab, rules, shares>>
      /\ scopeAllows(u, <<"Order", o>>, Order(o, r), "write")
  BY <1>1, WrittenOrder
<1>3. o \in Orders
  BY DEF IInv, TypeOK
<1>4. OrderReach(tab, u, o, r) \/ Lifts(shares[u][<<"Order", o>>], "write")
  BY <1>2, <1>3, OrderAllows DEF IInv, OrderForm
<1> QED
  BY <1>1, <1>2, <1>4, LeftInReach

\* One who sets a Line by itself leaves its Order in his scopes if it was.
LEMMA LinesStayStep ==
  ASSUME IInv, IInv', NEW u \in People, NEW o \in DOMAIN order, WritesLine(u, o),
         MayWrite(u, <<"Order", o>>)
  PROVE  MayWrite(u, <<"Order", o>>)'
<1>1. PICK r \in Forms :
        /\ order'[o] = r /\ r.territory = order[o].territory
        /\ UNCHANGED <<tab, rules, shares>>
        /\ \/ Lifts(shares[u][<<"Order", o>>], "write")
           \/ \A l \in {order[o].line, r.line} : LineIn(tab, Allowed(u, l.of, "Order"), l)
  BY WrittenLine
<1>2. o \in Orders /\ order[o] \in Forms /\ Stored(<<"Order", o>>) = Order(o, order[o])
  BY DEF IInv, TypeOK, Stored
<1>3. OrderReach(tab, u, o, order[o]) \/ Lifts(shares[u][<<"Order", o>>], "write")
  BY <1>2, OrderAllows DEF IInv, OrderForm, MayWrite
<1>4. OrderReach(tab, u, o, r) \/ Lifts(shares[u][<<"Order", o>>], "write")
  BY <1>1, <1>3 DEF OrderReach, OrderIn
<1> QED
  BY <1>1, <1>4, LeftInReach

\* Nobody writes an Order out of his own scopes: Save and setValue ask of the
\* document as it is to be, over the tree as it stays, and a Line set by itself
\* is asked what its Order would be asked of it (doc.go).
THEOREM OrdersStayHolds == Spec => OrdersStay
<1> DEFINE Stays ==
             \A u \in People, o \in DOMAIN order :
               /\ WritesOrder(u, o) => MayWrite(u, <<"Order", o>>)'
               /\ WritesLine(u, o) /\ MayWrite(u, <<"Order", o>>) => MayWrite(u, <<"Order", o>>)'
<1>1. IInv /\ IInv' => Stays
  BY OrdersStayStep, LinesStayStep
<1>2. IInv /\ IInv' => [Stays]_vars
  BY <1>1
<1> HIDE DEF Stays
<1>3. [][Stays]_vars => OrdersStay
  BY PTL DEF OrdersStay, Stays
<1> QED
  BY <1>2, <1>3, Invariance, NextInv, PTL DEF Spec

\* A Territory written by u was in his scope where it hung.
LEMMA WrittenTerritory ==
  ASSUME IInv, NEW u \in People, NEW n \in Nodes, WritesTerritory(u, n)
  PROVE  /\ \E row : tab' = With(tab, n, row)
         /\ UNCHANGED <<order, rules, shares, lifted>>
         /\ scopeAllows(u, <<"Territory", n>>, Stored(<<"Territory", n>>), "write")
<1>1. PICK p : p = tab'[n].parent
  OBVIOUS
<1>2. CASE SaveTerritory(u, n, p)
  BY <1>2 DEF SaveTerritory, MaySave, HasPermission
<1>3. CASE DBSetParent(u, n, p)
  BY <1>3 DEF DBSetParent, MaySet
<1> QED
  BY <1>1, <1>2, <1>3 DEF WritesTerritory

LEMMA RootedLimits ==
  ASSUME NEW u, Rooted(u), NEW within
  PROVE  Allowed(u, "Territory", within) = Allowed(u, "Territory", "Territory")
BY DEF Rooted, Allowed

LEMMA WriteLiftsRead == ASSUME NEW s, Lifts(s, "write") PROVE Lifts(s, "read")
BY DEF Lifts, grants

\* A Territory moved by one it is in scope of brings nothing under his rules.
LEMMA TerritoryDrawsNothing ==
  ASSUME IInv, IInv', NEW u \in People, NEW n \in Nodes, WritesTerritory(u, n),
         Rooted(u), \A m \in Nodes : ~SharedOverride(u, <<"Territory", m>>),
         NEW d \in Docs, InReach(u, d)'
  PROVE  InReach(u, d)
<1> DEFINE A == Allowed(u, "Territory", "Territory")
<1>1. PICK row : tab' = With(tab, n, row)
  BY WrittenTerritory
<1>2. UNCHANGED <<order, rules, shares>>
  BY WrittenTerritory
<1>3. tab \in [Nodes -> Row]
  BY DEF IInv, TypeOK
<1>4. TypeOK' => OrderForm' /\ TerritoryForm'
  BY OrderAllows, TerritoryAllows, PTL
<1>5. TypeOK /\ TypeOK' /\ OrderForm /\ TerritoryForm
  BY OrderAllows, TerritoryAllows DEF IInv
<1>6. TerritoryIn(tab, A, n)
  <2>1. ~Lifts(shares[u][<<"Territory", n>>], "write")
    BY WriteLiftsRead DEF SharedOverride, Lifts
  <2> QED
    BY <1>5, <2>1, WrittenTerritory DEF TerritoryForm
<1>7. ASSUME NEW v, A # {}, Up(tab', v, A) PROVE Up(tab, v, A)
  BY <1>1, <1>3, <1>6, <1>7, MoveDrawsNothing DEF TerritoryIn
<1>8. \A allow, within : Allowed(u, allow, within)' = Allowed(u, allow, within)
  BY <1>2 DEF Allowed
<1>9. \A within : Allowed(u, "Territory", within) = A
  BY RootedLimits
<1> HIDE DEF A
<1>10. CASE d[1] = "Territory" /\ d[2] \in Nodes /\ d = <<"Territory", d[2]>>
  <2>1. PICK m \in Nodes : d = <<"Territory", m>>
    BY <1>10
  <2>2. scopeAllows(u, <<"Territory", m>>, Stored(<<"Territory", m>>), "read")'
    BY <2>1 DEF InReach
  <2>3. TerritoryIn(tab', A, m) \/ Lifts(shares[u][<<"Territory", m>>], "read")
    BY <1>2, <1>4, <1>5, <1>8, <2>2 DEF TerritoryForm, A
  <2>4. TerritoryIn(tab, A, m) \/ Lifts(shares[u][<<"Territory", m>>], "read")
    BY <1>7, <2>3 DEF TerritoryIn
  <2>5. scopeAllows(u, <<"Territory", m>>, Stored(<<"Territory", m>>), "read")
    BY <1>5, <2>4 DEF TerritoryForm, A
  <2> QED
    BY <2>1, <2>5 DEF InReach
<1>11. CASE d[1] = "Order" /\ d[2] \in DOMAIN order /\ d = <<"Order", d[2]>>
  <2>1. PICK o \in DOMAIN order : d = <<"Order", o>>
    BY <1>11
  <2>2. o \in Orders /\ order[o] \in Forms
    BY DEF IInv, TypeOK
  <2>3. PICK r \in Forms : r = order[o]
    BY <2>2
  <2>4. Stored(<<"Order", o>>) = Order(o, r) /\ (Stored(<<"Order", o>>) = Order(o, r))'
    BY <1>2, <2>3 DEF Stored
  <2>5. scopeAllows(u, <<"Order", o>>, Order(o, r), "read")'
    BY <2>1, <2>4 DEF InReach
  <2>6. OrderReach(tab, u, o, r)' \/ Lifts(shares[u][<<"Order", o>>], "read")
    BY <1>2, <1>4, <1>5, <2>2, <2>5 DEF OrderForm
  <2>7. OrderReach(tab, u, o, r)' => OrderReach(tab, u, o, r)
    <3>1. OrderIn(tab', A, Allowed(u, "Order", "Order"), o, r) => OrderIn(tab, A, Allowed(u, "Order", "Order"), o, r)
      BY <1>7 DEF OrderIn
    <3>2. LineIn(tab', Allowed(u, r.line.of, "Order"), r.line) => LineIn(tab, Allowed(u, r.line.of, "Order"), r.line)
      BY <1>7, <1>9 DEF LineIn
    <3>3. OrderReach(tab, u, o, r)' <=> /\ OrderIn(tab', A, Allowed(u, "Order", "Order"), o, r)
                                        /\ LineIn(tab', Allowed(u, r.line.of, "Order"), r.line)
      BY <1>8, <1>9 DEF OrderReach
    <3>4. OrderReach(tab, u, o, r) <=> /\ OrderIn(tab, A, Allowed(u, "Order", "Order"), o, r)
                                       /\ LineIn(tab, Allowed(u, r.line.of, "Order"), r.line)
      BY <1>9 DEF OrderReach
    <3> QED
      BY <3>1, <3>2, <3>3, <3>4
  <2>8. scopeAllows(u, <<"Order", o>>, Order(o, r), "read")
    BY <1>5, <2>2, <2>6, <2>7 DEF OrderForm
  <2> QED
    BY <2>1, <2>4, <2>8 DEF InReach
<1> QED
  BY <1>10, <1>11, DocsFacts

\* A write of one Order leaves what else is in reach as it is.
LEMMA OthersUndrawn ==
  ASSUME IInv, IInv', UNCHANGED <<tab, rules, shares>>, NEW u, NEW o \in DOMAIN order, NEW r \in Forms,
         order' = [order EXCEPT ![o] = r], NEW d \in Docs, d # <<"Order", o>>, InReach(u, d)'
  PROVE  InReach(u, d)
<1>2. UNCHANGED <<tab, rules, shares>>
  OBVIOUS
<1>3. TypeOK' => OrderForm' /\ TerritoryForm'
  BY OrderAllows, TerritoryAllows, PTL
<1>4. TypeOK /\ TypeOK' /\ OrderForm /\ TerritoryForm
  BY OrderAllows, TerritoryAllows DEF IInv
<1>5. \A allow, within : Allowed(u, allow, within)' = Allowed(u, allow, within)
  BY <1>2 DEF Allowed
<1>6. \A y \in DOMAIN order : y \in Orders /\ order[y] \in Forms /\ Stored(<<"Order", y>>) = Order(y, order[y])
  BY DEF IInv, TypeOK, Stored
<1>8. CASE d[1] = "Order" /\ d[2] \in DOMAIN order /\ d = <<"Order", d[2]>> /\ d[2] # o
  <2>1. PICK y \in DOMAIN order : d = <<"Order", y>> /\ y # o
    BY <1>8
  <2>2. PICK s \in Forms : s = order[y]
    BY <1>6
  <2>3. order'[y] = s
    BY <2>1, <2>2
  <2>4. (Stored(<<"Order", y>>) = Order(y, s))'
    BY <2>3 DEF Stored
  <2>5. scopeAllows(u, <<"Order", y>>, Order(y, s), "read")'
    BY <2>1, <2>4 DEF InReach
  <2>6. OrderReach(tab, u, y, s)' \/ Lifts(shares[u][<<"Order", y>>], "read")
    BY <1>2, <1>3, <1>4, <1>6, <2>5 DEF OrderForm
  <2>7. OrderReach(tab, u, y, s)' <=> OrderReach(tab, u, y, s)
    BY <1>2, <1>5 DEF OrderReach
  <2>8. scopeAllows(u, <<"Order", y>>, Order(y, s), "read")
    BY <1>4, <1>6, <2>6, <2>7 DEF OrderForm
  <2> QED
    BY <1>6, <2>1, <2>2, <2>8 DEF InReach
<1>9. CASE d[1] = "Territory" /\ d[2] \in Nodes /\ d = <<"Territory", d[2]>>
  <2>1. PICK m \in Nodes : d = <<"Territory", m>>
    BY <1>9
  <2>2. scopeAllows(u, <<"Territory", m>>, Stored(<<"Territory", m>>), "read")'
    BY <2>1 DEF InReach
  <2>3. \/ TerritoryIn(tab, Allowed(u, "Territory", "Territory"), m)
        \/ Lifts(shares[u][<<"Territory", m>>], "read")
    BY <1>2, <1>3, <1>4, <1>5, <2>2 DEF TerritoryForm
  <2>4. scopeAllows(u, <<"Territory", m>>, Stored(<<"Territory", m>>), "read")
    BY <1>4, <2>3 DEF TerritoryForm
  <2> QED
    BY <2>1, <2>4 DEF InReach
<1> QED
  BY <1>8, <1>9, DocsFacts

\* An Order written by u was already in his reach.
LEMMA OrderDrawsNothing ==
  ASSUME IInv, IInv', NEW u \in People, NEW o \in DOMAIN order, WritesOrder(u, o),
         NEW d \in Docs, InReach(u, d)'
  PROVE  InReach(u, d)
<1>1. PICK r \in Forms : order'[o] = r /\ order' = [order EXCEPT ![o] = r]
  BY WrittenOrder
<1>2. UNCHANGED <<tab, rules, shares>> /\ scopeAllows(u, <<"Order", o>>, Order(o, order[o]), "write")
  BY WrittenOrder
<1>3. OrderForm /\ o \in Orders /\ order[o] \in Forms /\ Stored(<<"Order", o>>) = Order(o, order[o])
  BY OrderAllows DEF IInv, TypeOK, Stored
<1>4. CASE d = <<"Order", o>>
  <2>1. OrderReach(tab, u, o, order[o]) \/ Lifts(shares[u][<<"Order", o>>], "write")
    BY <1>2, <1>3 DEF OrderForm
  <2>2. OrderReach(tab, u, o, order[o]) \/ Lifts(shares[u][<<"Order", o>>], "read")
    BY <2>1, WriteLiftsRead
  <2>3. scopeAllows(u, <<"Order", o>>, Order(o, order[o]), "read")
    BY <1>3, <2>2 DEF OrderForm
  <2> QED
    BY <1>3, <1>4, <2>3 DEF InReach
<1> QED
  BY <1>1, <1>2, <1>4, OthersUndrawn

\* A Line set by itself was within already, so that its Order is drawn in by
\* nothing it says.
LEMMA LineDrawsNothing ==
  ASSUME IInv, IInv', NEW u \in People, NEW o \in DOMAIN order, WritesLine(u, o),
         NEW d \in Docs, InReach(u, d)'
  PROVE  InReach(u, d)
<1>1. PICK r \in Forms :
        /\ order'[o] = r /\ order' = [order EXCEPT ![o] = r] /\ r.territory = order[o].territory
        /\ UNCHANGED <<tab, rules, shares>>
        /\ \/ Lifts(shares[u][<<"Order", o>>], "write")
           \/ \A l \in {order[o].line, r.line} : LineIn(tab, Allowed(u, l.of, "Order"), l)
  BY WrittenLine
<1>2. /\ OrderForm /\ TypeOK'
      /\ o \in Orders /\ order[o] \in Forms /\ Stored(<<"Order", o>>) = Order(o, order[o])
  BY OrderAllows DEF IInv, TypeOK, Stored
<1>3. TypeOK' => OrderForm'
  BY OrderAllows, PTL
<1>4. CASE d = <<"Order", o>>
  <2>1. (Stored(<<"Order", o>>) = Order(o, r))'
    BY <1>1 DEF Stored
  <2>2. scopeAllows(u, <<"Order", o>>, Order(o, r), "read")'
    BY <1>4, <2>1 DEF InReach
  <2>3. OrderReach(tab, u, o, r)' \/ Lifts(shares[u][<<"Order", o>>], "read")
    BY <1>1, <1>2, <1>3, <2>2 DEF OrderForm
  <2>4. OrderReach(tab, u, o, r)' <=> OrderReach(tab, u, o, r)
    BY <1>1 DEF OrderReach, Allowed
  <2>5. OrderReach(tab, u, o, r) /\ ~Lifts(shares[u][<<"Order", o>>], "write")
          => OrderReach(tab, u, o, order[o])
    BY <1>1 DEF OrderReach, OrderIn
  <2>6. OrderReach(tab, u, o, order[o]) \/ Lifts(shares[u][<<"Order", o>>], "read")
    BY <2>3, <2>4, <2>5, WriteLiftsRead
  <2>7. scopeAllows(u, <<"Order", o>>, Order(o, order[o]), "read")
    BY <1>2, <2>6 DEF OrderForm
  <2> QED
    BY <1>2, <1>4, <2>7 DEF InReach
<1> QED
  BY <1>1, <1>4, OthersUndrawn

\* A user limited to Territories wherever they are linked, and who holds none
\* by an override, brings nothing into his own reach by what he writes.
THEOREM NothingDrawnInHolds == Spec => NothingDrawnIn
<1> DEFINE Outside ==
             \A u \in People :
               /\ \/ \E n \in Nodes : WritesTerritory(u, n)
                  \/ \E o \in DOMAIN order : WritesOrder(u, o) \/ WritesLine(u, o)
               /\ Rooted(u) /\ \A n \in Nodes : ~SharedOverride(u, <<"Territory", n>>)
               => \A d \in Docs : InReach(u, d)' => InReach(u, d)
<1>1. IInv /\ IInv' => Outside
  BY TerritoryDrawsNothing, OrderDrawsNothing, LineDrawsNothing
<1>2. IInv /\ IInv' => [Outside]_vars
  BY <1>1
<1> HIDE DEF Outside
<1>3. [][Outside]_vars => NothingDrawnIn
  BY PTL DEF NothingDrawnIn, Outside
<1> QED
  BY <1>2, <1>3, Invariance, NextInv, PTL DEF Spec
===============================================================================

------------------------------- MODULE Access -------------------------------
(***************************************************************************)
(* Who may read and write what: role permissions, access scopes and shares  *)
(* (internal/engine/perm.go, share.go, fieldperm.go), asked of one document *)
(* when it is read or written and turned into the filters of a query when a *)
(* DocType is listed (query.go, internal/db/query.go).                      *)
(*                                                                         *)
(* Three DocTypes: Territory, a tree; Order, with a Link to a Territory;    *)
(* and Line, the child rows of an Order, one in each, with a Dynamic Link.  *)
(* A user is neither Admin nor in a portal; no controller has its say.      *)
(***************************************************************************)
EXTENDS Hierarchy, Naturals, FiniteSets

CONSTANTS
  Orders,       \* ids of Orders; an Order's Line has the Order's id
  Users,
  Roles,        \* the roles of each user
  Permissions,  \* the permission rows of each DocType
  Owner,        \* who made each document
  Level,        \* the permlevel of the Table field each Order's Line is in
  Rules,        \* User Permission rows there may be
  Rights,       \* what a share may give
  Cases,        \* the sites to start from, each with its tree, orders, rules
                \* and users, and the changes not left to it
  MaxChanges    \* bound: writes of any kind

Doctypes == {"Territory", "Order"}
AllDocs == ({"Territory"} \X Nodes) \cup ({"Order"} \X Orders)
Target == [of: {"Territory"}, to: Nodes] \cup [of: {"Order"}, to: Orders]
Forms == [territory: Nodes \cup {None}, line: Target]

ASSUME AccessAssumption ==
  /\ Nodes \cap Orders = {} /\ None \notin Orders
  /\ Roles \in [Users -> SUBSET STRING]
  /\ Owner \in [AllDocs -> Users] /\ Level \in [Orders -> Nat]
  /\ Permissions \in [Doctypes -> SUBSET [role: STRING, ptypes: SUBSET {"read", "write", "share"},
                                          ifOwner: BOOLEAN, permlevel: Nat]]
  /\ Rules \subseteq [user: Users, allow: Doctypes, value: Nodes \cup Orders,
                      within: Doctypes \cup {"Line", "any"}]
  /\ Rights \subseteq [write: BOOLEAN, share: BOOLEAN, override: BOOLEAN]
  /\ MaxChanges \in Nat
  /\ \A c \in Cases :
       /\ c.tab \in [Nodes -> Row] /\ IsForest(c.tab)
       /\ c.order \in UNION {[S -> Forms] : S \in SUBSET Orders}
       /\ c.rules \subseteq Rules /\ c.users \subseteq Users /\ c.changes \in 0..MaxChanges

VARIABLES
  tab,      \* the Territories
  order,    \* the Orders, each with its Line
  rules,    \* tab_user_permission
  shares,   \* tab_document_share, one row for a user and a document
  lifted,   \* history: the rights of each share's last override, by whoever may give one
  changes

vars == <<tab, order, rules, shares, lifted, changes>>

NoShare == [write |-> FALSE, share |-> FALSE, override |-> FALSE, on |-> FALSE]

\* The documents of the site, and its users.
Docs == ({"Territory"} \X Nodes) \cup ({"Order"} \X DOMAIN order)
People == DOMAIN shares

Init ==
  /\ \E c \in Cases :
       /\ tab = c.tab /\ order = c.order /\ rules = c.rules
       /\ shares = [u \in c.users |-> [d \in Docs |-> NoShare]]
       /\ lifted = [u \in c.users |-> [d \in Docs |-> {}]]
       /\ changes = c.changes

-----------------------------------------------------------------------------
(* A document as the checks read it.                                       *)

Territory(n, parent) == [doctype |-> "Territory", id |-> n, parent |-> parent, rows |-> {}]
Line(l) == [doctype |-> "Line", of |-> l.of, to |-> l.to, rows |-> {}]
Order(o, r) == [doctype |-> "Order", id |-> o, territory |-> r.territory, rows |-> {Line(r.line)}]

Stored(d) == IF d[1] = "Territory" THEN Territory(d[2], tab[d[2]].parent) ELSE Order(d[2], order[d[2]])

-----------------------------------------------------------------------------
(* Roles and shares.                                                       *)

RoleRows(u, doctype, ptype) ==
  {p \in Permissions[doctype] : p.permlevel = 0 /\ p.role \in Roles[u] /\ ptype \in p.ptypes}

\* roleGrant's second answer: nothing but rows for what the user owns, or none.
OwnerOnly(u, doctype, ptype) == \A p \in RoleRows(u, doctype, ptype) : p.ifOwner

roleGrant(u, d, ptype) ==
  RoleRows(u, d[1], ptype) # {} /\ (OwnerOnly(u, d[1], ptype) => Owner[d] = u)

grants(s, ptype) ==
  s.on /\ CASE ptype = "read" -> TRUE [] ptype = "write" -> s.write [] ptype = "share" -> s.share

grantedBy(u, d, ptype) == roleGrant(u, d, ptype) \/ grants(shares[u][d], ptype)

\* The same question of a DocType, with no document at hand.
grantedByAny(u, doctype, ptype) ==
  RoleRows(u, doctype, ptype) # {} \/ \E d \in Docs : d[1] = doctype /\ grants(shares[u][d], ptype)

\* FieldAccess: a field of the Order is read, or written, at its level.
CanAccess(u, o, ptypes) ==
  Level[o] = 0 \/ \E p \in Permissions["Order"] :
                    p.permlevel = Level[o] /\ p.role \in Roles[u] /\ p.ptypes \cap ptypes # {}
CanReadLine(u, o) == CanAccess(u, o, {"read", "write"})
CanWriteLine(u, o) == CanAccess(u, o, {"write"})

-----------------------------------------------------------------------------
(* Scopes, of one document.                                                *)

Scoped(u) == \E r \in rules : r.user = u

\* applicableScopes: the values allow is limited to, {} if it is not.
Allowed(u, allow, within) ==
  {r.value : r \in {x \in rules : x.user = u /\ x.allow = allow /\ x.within \in {"any", within}}}

\* scopeBindings: the values of doc that a rule over allow bounds.
Bound(doc, allow) ==
  CASE doc.doctype = allow -> {doc.id}
    [] doc.doctype = "Order" /\ allow = "Territory" -> {doc.territory}
    [] doc.doctype = "Line" /\ doc.of = allow -> {doc.to}
    [] OTHER -> {}

\* Mutant: a rule over a tree covers the parent of the value too, no higher.
MutwithinScope(allow, v, allowed) ==
  v # None /\ (v \in allowed \/ (allow = "Territory" /\ tab[v].parent \in allowed))

\* withinScope: a value is one of those allowed or, in a tree, the walk up from
\* it meets one: every set the walk cannot leave holds one.
withinScope(allow, v, allowed) ==
  /\ v # None
  /\ \/ v \in allowed
     \/ /\ allow = "Territory"
        /\ \A S \in SUBSET Nodes : v \in S /\ Closed(tab, S) => S \cap allowed # {}

FieldsWithin(u, doc, within) ==
  \A allow \in Doctypes :
    LET allowed == Allowed(u, allow, within)
    IN  allowed # {} =>
          \A v \in Bound(doc, allow) :
            \/ withinScope(allow, v, allowed)
            \/ doc.doctype = "Territory" /\ withinScope(allow, doc.parent, allowed)

\* checkUserPermissionsFor: the document and its rows, by the rules for within.
checkUserPermissions(u, doc, within) ==
  FieldsWithin(u, doc, within) /\ \A row \in doc.rows : FieldsWithin(u, row, within)

\* A share lifts the scopes for the rights it gives.
scopeOverridden(u, d, ptype) == shares[u][d].override /\ grants(shares[u][d], ptype)

scopeAllows(u, d, doc, ptype) ==
  checkUserPermissions(u, doc, doc.doctype) \/ scopeOverridden(u, d, ptype)

HasPermission(u, d, ptype) == grantedBy(u, d, ptype) /\ scopeAllows(u, d, Stored(d), ptype)

\* A Line is read as its Order is, if its field and its own values may be.
childPermission(u, o) ==
  LET d == <<"Order", o>>
      line == Line(order[o].line)
  IN  /\ CanReadLine(u, o)
      /\ HasPermission(u, d, "read")
      /\ FieldsWithin(u, line, "Line")
      /\ FieldsWithin(u, line, "Order") \/ scopeOverridden(u, d, "read")

-----------------------------------------------------------------------------
(* Scopes, as the filters of a list.                                       *)

\* "descendants of (inclusive)": the least set that holds the values and every
\* row whose parent it holds.
Below(v, values) ==
  \A S \in SUBSET Nodes :
    values \cap Nodes \subseteq S /\ (\A y \in Nodes : tab[y].parent \in S => y \in S) => v \in S

Filtered(allow, v, allowed) == IF allow = "Territory" THEN Below(v, allowed) ELSE v \in allowed

bindingFilters(u, doc, within) ==
  \A allow \in Doctypes :
    LET allowed == Allowed(u, allow, within)
    IN  allowed # {} => \A v \in Bound(doc, allow) : Filtered(allow, v, allowed)

\* The document's own fields, and each row of its Table fields.
strictScopeFilters(u, doc, within) ==
  bindingFilters(u, doc, within) /\ \A row \in doc.rows : bindingFilters(u, row, within)

\* sharedNames, of one document.
SharedScoped(u, d) == grants(shares[u][d], "read") /\ ~shares[u][d].override
SharedOverride(u, d) == grants(shares[u][d], "read") /\ shares[u][d].override

permissionFilters(u, d) ==
  LET strict == strictScopeFilters(u, Stored(d), d[1])
  IN  \/ roleGrant(u, d, "read") /\ strict
      \/ SharedScoped(u, d) /\ strict
      \/ SharedOverride(u, d)

\* A list with ignorePermissions keeps the scopes.
scopeFilters(u, d) == strictScopeFilters(u, Stored(d), d[1]) \/ SharedOverride(u, d)

\* GetList asks for the DocType first.
Listed(u, d) == grantedByAny(u, d[1], "read") /\ permissionFilters(u, d)

\* parentsAllowing: those who read Orders only as owner, or only by a share,
\* are left out.
LineParents(u) == ~OwnerOnly(u, "Order", "read") /\ grantedByAny(u, "Order", "read")

childListFilters(u, o) ==
  LET d == <<"Order", o>>
      line == Line(order[o].line)
  IN  /\ LineParents(u)
      /\ CanReadLine(u, o)
      /\ permissionFilters(u, d)
      /\ bindingFilters(u, line, "Order") \/ SharedOverride(u, d)
      /\ bindingFilters(u, line, "Line")

-----------------------------------------------------------------------------
(* Writes.                                                                 *)

Change == changes < MaxChanges /\ changes' = changes + 1

\* Mutant: Save asks of the stored document only.
MutMaySave(u, d, doc) == HasPermission(u, d, "write")

\* Save asks of the document as it is stored, and then as it is to be.
MaySave(u, d, doc) == HasPermission(u, d, "write") /\ scopeAllows(u, d, doc, "write")

\* The checks read the tree before the row is written.
SaveTerritory(u, n, parent) ==
  LET d == <<"Territory", n>>
      row == [tab[n] EXCEPT !.parent = parent]
  IN  /\ Change
      /\ MaySave(u, d, Territory(n, parent))
      /\ checkTree(tab, n, row)
      /\ tab' = With(tab, n, row)
      /\ UNCHANGED <<order, rules, shares, lifted>>

SaveOrder(u, o, r) ==
  /\ Change
  /\ r.line = order[o].line \/ r.territory = order[o].territory
  /\ r.line # order[o].line => CanWriteLine(u, o)
  /\ MaySave(u, <<"Order", o>>, Order(o, r))
  /\ order' = [order EXCEPT ![o] = r]
  /\ UNCHANGED <<tab, rules, shares, lifted>>

\* Mutant: setValue asks of the document as it is to be only.
MutMaySet(u, d, doc) == scopeAllows(u, d, doc, "write")

\* setValue asks for no role, but for the scopes, of the document as it is and
\* as it is to be.
MaySet(u, d, doc) == \A x \in {Stored(d), doc} : scopeAllows(u, d, x, "write")

DBSetOrder(u, o, territory) ==
  LET r == [order[o] EXCEPT !.territory = territory]
  IN  /\ Change
      /\ MaySet(u, <<"Order", o>>, Order(o, r))
      /\ order' = [order EXCEPT ![o] = r]
      /\ UNCHANGED <<tab, rules, shares, lifted>>

\* A row set by itself: the rules are those of its Order, and so is the share
\* that lifts them, but the values asked about are the row's own.
MaySetLine(u, o, line) ==
  \A l \in {order[o].line, line} :
    FieldsWithin(u, Line(l), "Order") \/ scopeOverridden(u, <<"Order", o>>, "write")

DBSetLine(u, o, line) ==
  /\ Change
  /\ MaySetLine(u, o, line)
  /\ order' = [order EXCEPT ![o] = [order[o] EXCEPT !.line = line]]
  /\ UNCHANGED <<tab, rules, shares, lifted>>

DBSetParent(u, n, parent) ==
  LET row == [tab[n] EXCEPT !.parent = parent]
  IN  /\ Change
      /\ MaySet(u, <<"Territory", n>>, Territory(n, parent))
      /\ checkTree(tab, n, row)
      /\ tab' = With(tab, n, row)
      /\ UNCHANGED <<order, rules, shares, lifted>>

CanOverrideScope(u) == ~Scoped(u) /\ "System Manager" \in Roles[u]

\* Mutant: a new grant keeps the override of the one it replaces.
MutGranted(r, old) ==
  [write |-> r.write, share |-> r.share, override |-> r.override \/ old.override, on |-> TRUE]

\* The row of a share, in place of the one the user had.
Granted(r, old) == [write |-> r.write, share |-> r.share, override |-> r.override, on |-> TRUE]

\* The sharer reads and may share the document, and gives write only if he has it.
ShareDoc(u, d, user, r) ==
  LET row == Granted(r, shares[user][d])
  IN  /\ Change /\ user # u
      /\ HasPermission(u, d, "read") /\ HasPermission(u, d, "share")
      /\ r.write => HasPermission(u, d, "write")
      /\ r.override => CanOverrideScope(u)
      /\ shares' = [shares EXCEPT ![user][d] = row]
      /\ lifted' = [lifted EXCEPT ![user][d] =
                      IF r.override THEN {p \in {"read", "write", "share"} : grants(row, p)} ELSE {}]
      /\ UNCHANGED <<tab, order, rules>>

UnshareDoc(u, d, user) ==
  /\ Change
  /\ shares[user][d].on
  /\ user # u => HasPermission(u, d, "read") /\ HasPermission(u, d, "share")
  /\ shares' = [shares EXCEPT ![user][d] = NoShare]
  /\ lifted' = [lifted EXCEPT ![user][d] = {}]
  /\ UNCHANGED <<tab, order, rules>>

\* User Permission is closed to a user who has scopes (refusedToScopedUser);
\* its one permission row is System Manager's.
WriteRule(u, r) ==
  /\ Change
  /\ ~Scoped(u) /\ "System Manager" \in Roles[u]
  /\ rules' = IF r \in rules THEN rules \ {r} ELSE rules \cup {r}
  /\ UNCHANGED <<tab, order, shares, lifted>>

Next ==
  \E u \in People :
    \/ \E n \in Nodes, p \in Nodes \cup {None} : SaveTerritory(u, n, p) \/ DBSetParent(u, n, p)
    \/ \E o \in DOMAIN order, r \in Forms : SaveOrder(u, o, r)
    \/ \E o \in DOMAIN order, t \in Nodes \cup {None} : DBSetOrder(u, o, t)
    \/ \E o \in DOMAIN order, l \in Target : DBSetLine(u, o, l)
    \/ \E d \in Docs, user \in People, r \in Rights : ShareDoc(u, d, user, r)
    \/ \E d \in Docs, user \in People : UnshareDoc(u, d, user)
    \/ \E r \in Rules : r.user \in People /\ WriteRule(u, r)

Spec == Init /\ [][Next]_vars

-----------------------------------------------------------------------------
(* Properties.                                                             *)

\* The tables hold what they should, and the Territories stay a forest.
TypeOK ==
  /\ tab \in [Nodes -> Row] /\ IsForest(tab)
  /\ DOMAIN order \subseteq Orders /\ order \in [DOMAIN order -> Forms]
  /\ rules \subseteq Rules
  /\ People \subseteq Users /\ shares \in [People -> [Docs -> [write: BOOLEAN, share: BOOLEAN, override: BOOLEAN, on: BOOLEAN]]]
  /\ lifted \in [People -> [Docs -> SUBSET {"read", "write", "share"}]]
  /\ changes \in 0..MaxChanges

\* A list holds the documents a direct read opens, no more and no less, with
\* and without ignorePermissions, and so it is with the Lines, for those who
\* read Orders by role and not as owners only: the filters walk the tree down
\* from the rules and look at rows in the mass, the check walks up from the
\* document (perm.go, strictScopeFilters, childPermission and childListFilters;
\* docs/agent/scopes.md, Child tables).
ListsAgree ==
  \A u \in People :
    /\ \A d \in Docs : /\ Listed(u, d) <=> HasPermission(u, d, "read")
                       /\ scopeFilters(u, d) <=> scopeAllows(u, d, Stored(d), "read")
    /\ \A o \in DOMAIN order :
         /\ childListFilters(u, o) => childPermission(u, o)
         /\ childPermission(u, o) /\ ~OwnerOnly(u, "Order", "read") => childListFilters(u, o)

\* Outside his scopes a user does no more than an unscoped System Manager gave
\* him, whoever shared the document with him since (share.go, scopeOverridden).
OutsideIsGiven ==
  \A u \in People, d \in Docs, ptype \in {"read", "write", "share"} :
    HasPermission(u, d, ptype) /\ ~checkUserPermissions(u, Stored(d), d[1]) => ptype \in lifted[u][d]

\* The step is a write of o, of its Line alone, or of n, by u.
WritesOrder(u, o) == order' # order /\ (SaveOrder(u, o, order'[o]) \/ DBSetOrder(u, o, order'[o].territory))
WritesLine(u, o) == order' # order /\ DBSetLine(u, o, order'[o].line)
WritesTerritory(u, n) ==
  tab' # tab /\ (SaveTerritory(u, n, tab'[n].parent) \/ DBSetParent(u, n, tab'[n].parent))

MayWrite(u, d) == scopeAllows(u, d, Stored(d), "write")
InReach(u, d) == scopeAllows(u, d, Stored(d), "read")

\* Nobody writes an Order out of his own scopes: one he writes is in them as he
\* leaves it, and a Line he sets by itself, which is not asked about its Order,
\* takes out none that was in (doc.go, Save and DBSet; docs/agent/scopes.md,
\* "a record cannot be moved into another company").
OrdersStay ==
  [][\A u \in People, o \in DOMAIN order :
       /\ WritesOrder(u, o) => MayWrite(u, <<"Order", o>>)'
       /\ WritesLine(u, o) /\ MayWrite(u, <<"Order", o>>) => MayWrite(u, <<"Order", o>>)']_vars

\* What docs/agent/scopes.md:69 says of reading a row, of setting one: it is
\* refused when its Order is out of reach.
LinesFollowTheirOrder ==
  [][\A u \in People, o \in DOMAIN order : WritesLine(u, o) => InReach(u, <<"Order", o>>)]_vars

\* A rule that limits Territories wherever they are linked.
Rooted(u) == \A r \in rules : r.user = u /\ r.allow = "Territory" => r.within = "any"

\* What a user writes brings nothing into his own reach that was outside it,
\* unless a Territory he holds by an override is moved (doc.go, Save).
NothingDrawnIn ==
  [][\A u \in People :
       /\ \/ \E n \in Nodes : WritesTerritory(u, n)
          \/ \E o \in DOMAIN order : WritesOrder(u, o) \/ WritesLine(u, o)
       /\ Rooted(u) /\ \A n \in Nodes : ~SharedOverride(u, <<"Territory", n>>)
       => \A d \in Docs : InReach(u, d)' => InReach(u, d)]_vars

\* A Territory is not moved out of the branch the user is limited to
\* (docs/agent/trees.md, Scopes follow the branch; perm.go, checkUserPermissionsFor).
TerritoriesStay ==
  [][\A u \in People, n \in Nodes : WritesTerritory(u, n) => MayWrite(u, <<"Territory", n>>)']_vars
=============================================================================

------------------------------ MODULE MCAccess ------------------------------
(***************************************************************************)
(* A small site: three Territories, two Orders, and a user of each kind.     *)
(***************************************************************************)
EXTENDS Access, TLC

CONSTANTS north, south, town, o1, o2, manager, clerk, author, friend

MCRoles == [u \in Users |-> CASE u = manager -> {"System Manager"} [] u = clerk -> {"Clerk"}
                              [] u = author -> {"Author"} [] OTHER -> {}]
All == {"read", "write", "share"}
MCPermissions ==
  [doctype \in Doctypes |->
     {[role |-> "System Manager", ptypes |-> All, ifOwner |-> FALSE, permlevel |-> l] : l \in {0, 1}}
     \cup {[role |-> "Clerk", ptypes |-> All, ifOwner |-> FALSE, permlevel |-> 0]}
     \cup IF doctype = "Order"
          THEN {[role |-> "Author", ptypes |-> {"read", "write"}, ifOwner |-> TRUE, permlevel |-> l] : l \in {0, 1}}
          ELSE {}]
MCOwner == [d \in AllDocs |-> IF d[2] = o1 THEN author ELSE manager]
MCLevel == [o \in Orders |-> IF o = o1 THEN 0 ELSE 1]

Rule(u, allow, value, within) == [user |-> u, allow |-> allow, value |-> value, within |-> within]
Branch == Rule(clerk, "Territory", north, "any")
Own == Rule(author, "Territory", north, "Order")
OneOrder == Rule(friend, "Order", o2, "any")
Rows == Rule(clerk, "Territory", south, "Line")
Bound1 == Rule(manager, "Order", o1, "Territory")
MCRules == {Branch, Own, OneOrder, Rows, Bound1}

MCRights == {r \in [write: BOOLEAN, share: BOOLEAN, override: BOOLEAN] : ~(r.write /\ r.share) /\ (r.share => r.override)}

\* The town hangs from the north; o1 is in it, o2 in the south.
Map == [n \in Nodes |-> [parent |-> IF n = town THEN north ELSE None, group |-> TRUE]]
Sale(o, l) == [territory |-> IF o = o1 THEN town ELSE south, line |-> l]
Towards(n) == [of |-> "Territory", to |-> n]
To(o) == [of |-> "Order", to |-> o]
MCCases ==
  {[tab |-> Map, order |-> x[1], rules |-> x[2], users |-> x[3], changes |-> x[4]] :
     x \in {<<[o \in {o1} |-> Sale(o, Towards(town))], {Branch}, {manager, clerk}, 0>>,
            <<[o \in {o2} |-> Sale(o, Towards(south))], {Branch, Rows}, {manager, clerk}, 0>>,
            <<[o \in {o1, o2} |-> Sale(o, To(o2))], {Own}, {clerk, author}, 0>>,
            <<[o \in {o2} |-> Sale(o, To(o2))], {OneOrder, Branch}, {manager, clerk, friend}, 1>>}}
=============================================================================

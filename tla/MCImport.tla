------------------------------ MODULE MCImport ------------------------------
(* Model-checking definitions for Import.                                   *)
EXTENDS Import

CONSTANTS l1, l2, r1, r2

\* The second links to the first; the first to the second; each to the other;
\* the first to the second and to itself.  One line may be bad, one is there.
Files == [links: {{<<2, 1>>}, {<<1, 2>>}, {<<1, 2>>, <<2, 1>>}, {<<1, 1>>, <<1, 2>>}},
          bad: {{}, {<<2, 2>>}}, present: {{<<1, 2>>}}]

By(loaders, runs, files) ==
  {[links |-> f.links, bad |-> f.bad, present |-> f.present, loaders |-> loaders, runs |-> runs] : f \in files}

\* One process and two runs; two processes at the same run,
\* with a bad line and the first linked to the second.
Loads == By({l1}, {r1, r2}, Files) \cup By({l1, l2}, {r1}, {f \in Files : <<1, 2>> \in f.links /\ f.bad # {} /\ <<1, 1>> \notin f.links})
OneLoad == By({l1}, {r1}, Files)
=============================================================================

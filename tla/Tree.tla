-------------------------------- MODULE Tree --------------------------------
(***************************************************************************)
(* The transactions that write one tree DocType (internal/engine/tree.go,   *)
(* doc.go, merge.go, workflow.go) and the documents of another DocType that *)
(* link to it.  READ COMMITTED: a statement reads what was committed before *)
(* it, and its own transaction's writes.                                    *)
(*                                                                         *)
(* Every structural write runs under the tree's advisory lock, so what its  *)
(* holder reads of the tree between taking it and the commit cannot change  *)
(* and a check and the write behind it are one step; what is read before    *)
(* the lock, the row locks and the links (never locked) are steps of their  *)
(* own.                                                                     *)
(***************************************************************************)
EXTENDS Hierarchy, Naturals

CONSTANTS
  Links,         \* documents elsewhere that link to a node
  Writers,       \* concurrent transactions
  InitialTrees,  \* hierarchies to start from
  MaxTx          \* bound: transactions begun

ASSUME TreesAssumption == InitialTrees \subseteq Tables /\ \A t \in InitialTrees : IsForest(t)
ASSUME MaxTxAssumption == MaxTx \in Nat \ {0}
ASSUME WritersAssumption == None \notin Writers

VARIABLES
  tab,       \* the committed rows
  link,      \* the committed links: a function of the linking documents
  tx,        \* the transactions
  draft,     \* the rows as the holder of the tree's lock sees them
  treeLock,  \* who holds the DocType's advisory lock
  rowLock,   \* who holds each row
  begun,     \* how many transactions have begun
  late,      \* history: a merge wrote what its checks would no longer allow
  excused    \* history: links written while their target was going away,
             \* and those a forced delete or a late merge left behind

vars == <<tab, link, tx, draft, treeLock, rowLock, begun, late, excused>>

NoOne == None

\* doc and to are the documents a request names (to: the link, for a "link"),
\* row what it would write, force skips the link check of a delete.
Requests ==
  [op: {"insert", "save"}, doc: Nodes, to: {None}, row: Row, force: {FALSE}]
  \cup [op: {"workflow"}, doc: Nodes, to: {None}, row: {None}, force: {FALSE}]
  \cup [op: {"delete"}, doc: Nodes, to: {None}, row: {None}, force: BOOLEAN]
  \cup [op: {"rename", "merge"}, doc: Nodes, to: Nodes, row: {None}, force: {FALSE}]
  \cup [op: {"link"}, doc: Nodes, to: Links, row: {None}, force: {FALSE}]

\* What an application asks for: it knows the documents there are.
Sensible(q) ==
  /\ q.op = "insert" <=> q.doc \notin DOMAIN tab
  /\ q.op = "save" => tab[q.doc] # q.row
  /\ q.op \in {"rename", "merge"} => q.to # q.doc
  /\ q.op = "link" => q.to \notin DOMAIN link /\ \A v \in Writers : tx[v].pc # "idle" => tx[v].req.to # q.to

\* moved: the committed links its sweep repointed.  late: its checks no longer
\* held when it wrote.
Idle == [pc |-> "idle", req |-> None, moved |-> {}, late |-> FALSE]

PCs == {"idle", "before", "row", "lock", "write", "delete", "remove", "commit"}

Init ==
  /\ tab \in InitialTrees /\ draft = tab
  /\ link = [l \in {} |-> None]
  /\ tx = [w \in Writers |-> Idle]
  /\ treeLock = NoOne /\ rowLock = [n \in Nodes |-> NoOne]
  /\ begun = 0 /\ late = FALSE /\ excused = {}

Pc(w)  == tx[w].pc
Req(w) == tx[w].req
Doc(w) == Req(w).doc
At(w, pc, ops) == Pc(w) = pc /\ Req(w).op \in ops

Goto(w, pc) == tx' = [tx EXCEPT ![w].pc = pc]

\* Mutant: the lock is the session's (pg_advisory_lock), not the transaction's.
MutRelease(w) ==
  /\ treeLock' = treeLock
  /\ rowLock' = [n \in Nodes |-> IF rowLock[n] = w THEN NoOne ELSE rowLock[n]]
  /\ tx' = [tx EXCEPT ![w] = Idle]

\* COMMIT and ROLLBACK release both kinds of lock.
Release(w) ==
  /\ treeLock' = IF treeLock = w THEN NoOne ELSE treeLock
  /\ rowLock' = [n \in Nodes |-> IF rowLock[n] = w THEN NoOne ELSE rowLock[n]]
  /\ tx' = [tx EXCEPT ![w] = Idle]

Rollback(w) ==
  /\ Release(w)
  /\ draft' = IF treeLock = w THEN tab ELSE draft
  /\ UNCHANGED <<tab, link, begun, late, excused>>

\* Mutant: Save locks the row before the tree.
MutFirst(op) ==
  CASE op \in {"rename", "merge", "link"} -> "before"
    [] op \in {"workflow", "save"}        -> "row"
    [] OTHER                              -> "lock"

\* Where each operation starts: a rename, a merge and an ordinary link check
\* before they lock, ApplyWorkflow locks the row, the others lock the tree.
First(op) ==
  CASE op \in {"rename", "merge", "link"} -> "before"
    [] op = "workflow"                    -> "row"
    [] OTHER                              -> "lock"

Begin(w, q) ==
  /\ Pc(w) = "idle" /\ begun < MaxTx /\ Sensible(q)
  /\ begun' = begun + 1
  /\ tx' = [tx EXCEPT ![w] = [pc |-> First(q.op), req |-> q, moved |-> {}, late |-> FALSE]]
  /\ UNCHANGED <<tab, link, draft, treeLock, rowLock, late, excused>>

\* A hook throws, a permission is missing, the connection is lost.
GiveUp(w) == Pc(w) # "idle" /\ Rollback(w)

-----------------------------------------------------------------------------
(* Locks.                                                                  *)

Free(w, rows) == \A n \in rows : rowLock[n] \in {NoOne, w}

Hold(w, rows) == rowLock' = [n \in Nodes |-> IF n \in rows THEN w ELSE rowLock[n]]

\* Mutant: a writer does not queue for the lock.
MutlockTree(w) ==
  /\ Pc(w) = "lock"
  /\ treeLock' = w /\ draft' = tab
  /\ Goto(w, IF Req(w).op = "delete" THEN "delete" ELSE "write")
  /\ UNCHANGED <<tab, link, rowLock, begun, late, excused>>

lockTree(w) ==
  /\ Pc(w) = "lock" /\ treeLock = NoOne
  /\ treeLock' = w /\ draft' = tab
  /\ Goto(w, IF Req(w).op = "delete" THEN "delete" ELSE "write")
  /\ UNCHANGED <<tab, link, rowLock, begun, late, excused>>

\* getDocForUpdate, where it comes first (ApplyWorkflow).
LockRow(w) ==
  /\ Pc(w) = "row" /\ Free(w, {Doc(w)})
  /\ IF Doc(w) \in DOMAIN tab
     THEN /\ Hold(w, {Doc(w)}) /\ Goto(w, "lock")
          /\ UNCHANGED <<tab, link, draft, treeLock, begun, late, excused>>
     ELSE Rollback(w)

\* The rows a statement of w at hand must lock.
RowsNeeded(w) ==
  CASE Pc(w) = "row"                                      -> {Doc(w)}
    [] At(w, "write", {"save", "workflow"})               -> {Doc(w)}
    [] At(w, "write", {"rename"})                         -> {Doc(w)} \cup Children(draft, Doc(w))
    [] At(w, "write", {"merge"})                          -> Children(draft, Doc(w))
    [] Pc(w) = "remove"                                   -> {Doc(w)}
    [] OTHER                                              -> {}

WaitsFor(v, w) ==
  /\ v # w
  /\ \/ Pc(v) = "lock" /\ treeLock = w
     \/ \E n \in RowsNeeded(v) : rowLock[n] = w

\* PostgreSQL ends one of the transactions that wait for each other.
DeadlockVictim(w) == (\E v \in Writers : WaitsFor(v, w) /\ WaitsFor(w, v)) /\ Rollback(w)

-----------------------------------------------------------------------------
(* Statements.                                                             *)

\* Rename looks for both ids, Merge runs mergeDocs and mergeChecks: before the
\* lock, and not again after it.  A linking document runs checkLinks.
Before(w) ==
  /\ Pc(w) = "before"
  /\ LET q == Req(w)
         fine == CASE q.op = "rename" -> q.doc \in DOMAIN tab /\ q.to \notin DOMAIN tab
                   [] q.op = "merge"  -> mergeChecks(tab, q.doc, q.to)
                   [] q.op = "link"   -> q.doc \in DOMAIN tab
     IN  IF fine
         THEN /\ Goto(w, IF q.op = "link" THEN "commit" ELSE "lock")
              /\ UNCHANGED <<tab, link, draft, treeLock, rowLock, begun, late, excused>>
         ELSE Rollback(w)

\* The tree under the lock becomes t, and w goes on.
Written(w, t, pc) ==
  /\ draft' = t /\ Goto(w, pc)
  /\ UNCHANGED <<tab, link, treeLock, begun, late, excused>>

\* Insert from its lock on: checkTree, then the INSERT.
InsertRow(w) ==
  LET q == Req(w)
  IN  /\ At(w, "write", {"insert"})
      /\ IF q.doc \notin DOMAIN draft /\ checkTree(draft, q.doc, q.row)
         THEN Written(w, With(draft, q.doc, q.row), "commit") /\ Hold(w, {q.doc})
         ELSE Rollback(w)

\* Save, and a dbSet of the parent or of is_group: checkTree against the
\* stored row, then the UPDATE.
SaveRow(w) ==
  LET q == Req(w)
  IN  /\ At(w, "write", {"save"}) /\ Free(w, {q.doc})
      /\ IF q.doc \in DOMAIN draft /\ checkTree(draft, q.doc, q.row)
         THEN Written(w, With(draft, q.doc, q.row), "commit") /\ Hold(w, {q.doc})
         ELSE Rollback(w)

\* The Save inside ApplyWorkflow, which leaves the parent and is_group alone.
TransitionRow(w) ==
  At(w, "write", {"workflow"}) /\ Written(w, draft, "commit") /\ UNCHANGED rowLock

\* The links this statement sees at n, and sends on to Req(w).to.
Swept(w) == {l \in DOMAIN link : link[l] = Doc(w)}

\* Rename after its lock: the row's id, its children, the links.  An id that
\* has been taken since is a duplicate key; a row that has gone is no row.
RenameRow(w) ==
  LET q == Req(w)
  IN  /\ At(w, "write", {"rename"}) /\ Free(w, RowsNeeded(w))
      /\ IF q.doc \in DOMAIN draft => q.to \notin DOMAIN draft
         THEN /\ draft' = moveID(draft, q.doc, q.to)
              /\ tx' = [tx EXCEPT ![w].pc = "commit", ![w].moved = Swept(w)]
              /\ Hold(w, RowsNeeded(w))
              /\ UNCHANGED <<tab, link, treeLock, begun, late, excused>>
         ELSE Rollback(w)

\* Merge after its lock: the children and the links of from go to into.
MergeRow(w) ==
  LET q == Req(w)
  IN  /\ At(w, "write", {"merge"}) /\ Free(w, RowsNeeded(w))
      /\ draft' = repointRefs(draft, q.doc, q.to)
      /\ tx' = [tx EXCEPT ![w].pc = "delete", ![w].moved = Swept(w),
                          ![w].late = ~mergeChecks(draft, q.doc, q.to)]
      /\ Hold(w, RowsNeeded(w))
      /\ UNCHANGED <<tab, link, treeLock, begun, late, excused>>

\* Mutant: the link check of a delete is dropped.
MutDeleteChecks(w) ==
  /\ Pc(w) = "delete"
  /\ IF Doc(w) \in DOMAIN draft /\ ~treeHasChildren(draft, Doc(w))
     THEN Goto(w, "remove") /\ UNCHANGED <<tab, link, draft, treeLock, rowLock, begun, late, excused>>
     ELSE Rollback(w)

\* deleteWithFlags up to checkLinksBeforeDelete.  force waives the links, never
\* the children; a merge deletes with both checks on.
DeleteChecks(w) ==
  /\ Pc(w) = "delete"
  /\ IF /\ Doc(w) \in DOMAIN draft
        /\ ~treeHasChildren(draft, Doc(w))
        /\ Req(w).force \/ Swept(w) \subseteq tx[w].moved
     THEN Goto(w, "remove") /\ UNCHANGED <<tab, link, draft, treeLock, rowLock, begun, late, excused>>
     ELSE Rollback(w)

\* The DELETE and what follows it.
DeleteRow(w) ==
  /\ Pc(w) = "remove" /\ Free(w, {Doc(w)})
  /\ Written(w, Without(draft, Doc(w)), "commit") /\ Hold(w, {Doc(w)})

\* A linking document's INSERT and its commit.  It is excused when a
\* transaction that removes its target is already past its look at the links.
CommitLink(w) ==
  LET q == Req(w)
  IN  /\ At(w, "commit", {"link"})
      /\ link' = [l \in DOMAIN link \cup {q.to} |-> IF l = q.to THEN q.doc ELSE link[l]]
      /\ excused' = IF \E v \in Writers : v # w /\ Pc(v) \in {"remove", "commit"}
                                             /\ Req(v).op # "link" /\ Doc(v) = q.doc
                    THEN excused \cup {q.to} ELSE excused
      /\ Release(w)
      /\ UNCHANGED <<tab, draft, begun, late>>

\* A structural transaction commits its rows and the links it moved.
Commit(w) ==
  LET q == Req(w)
      linking == {Req(v).to : v \in {u \in Writers \ {w} : At(u, "commit", {"link"}) /\ Doc(u) = q.doc}}
      left == IF q.force THEN Swept(w) ELSE IF tx[w].late THEN tx[w].moved ELSE {}
  IN  /\ Pc(w) = "commit" /\ q.op # "link"
      /\ tab' = draft
      /\ link' = [l \in DOMAIN link |-> IF l \in tx[w].moved THEN q.to ELSE link[l]]
      /\ excused' = IF q.doc \in DOMAIN draft THEN excused ELSE excused \cup linking \cup left
      /\ late' = (late \/ tx[w].late)
      /\ Release(w)
      /\ UNCHANGED <<draft, begun>>

Step(w) ==
  \/ Before(w) \/ lockTree(w) \/ LockRow(w) \/ DeadlockVictim(w)
  \/ InsertRow(w) \/ SaveRow(w) \/ TransitionRow(w) \/ RenameRow(w) \/ MergeRow(w)
  \/ DeleteChecks(w) \/ DeleteRow(w) \/ CommitLink(w) \/ Commit(w)

Next == \E w \in Writers : Step(w) \/ GiveUp(w) \/ \E q \in Requests : Begin(w, q)

Spec == Init /\ [][Next]_vars

\* A transaction's statements run, and PostgreSQL serves a lock's queue and
\* looks for deadlocks; nothing makes an application ask for anything.
FairSpec == Spec /\ \A w \in Writers : WF_vars(Step(w))

Abstract == INSTANCE Forest

-----------------------------------------------------------------------------
(* Properties.                                                             *)

\* The state has its shape, and the tree's lock and its draft agree: whoever
\* is between lockTree and its end holds the lock, and no one else does.
TypeOK ==
  /\ tab \in Tables /\ draft \in Tables
  /\ DOMAIN link \subseteq Links /\ \A l \in DOMAIN link : link[l] \in Nodes
  /\ \A w \in Writers : /\ Pc(w) \in PCs /\ (Pc(w) = "idle" \/ Req(w) \in Requests)
                        /\ tx[w].moved \subseteq Links /\ tx[w].late \in BOOLEAN
                        /\ (Pc(w) \in {"write", "delete", "remove"} \/ (Pc(w) = "commit" /\ Req(w).op # "link"))
                             <=> treeLock = w
  /\ treeLock \in Writers \cup {NoOne} /\ rowLock \in [Nodes -> Writers \cup {NoOne}]
  /\ treeLock = NoOne => draft = tab
  /\ begun \in 0..MaxTx /\ late \in BOOLEAN /\ excused \subseteq Links

\* The committed hierarchy is a forest of groups, whatever ran at once; the one
\* way to break it is a merge whose checks, made before lockTree, no longer
\* hold when it writes (merge.go:238).
ForestUnlessLate == late \/ IsForest(tab)

\* A document's link leads to a row, unless it was written while that row was
\* being deleted, renamed or merged away, a forced delete left it behind, or a
\* late merge sent it to a row that had gone (checkLinksBeforeDelete and
\* repointRefs against checkLinks, none of which locks).
LinksHold == \A l \in DOMAIN link : link[l] \in DOMAIN tab \/ l \in excused

\* The committed rows change by one whole legal operation at a time: the tree's
\* lock makes the transactions serial (docs/agent/trees.md:63), late merges
\* aside.
Serial == [][late' \/ Abstract!Next]_tab

\* Only an approval can meet another writer in a lock cycle: everyone else
\* takes the tree before any row (tree.go:37), ApplyWorkflow the row first.
OnlyApprovalsDeadlock ==
  \A v, w \in Writers :
    WaitsFor(v, w) /\ WaitsFor(w, v) => "workflow" \in {Req(v).op, Req(w).op}

\* Every transaction ends, its locks given back: no queue is for ever.
EveryTransactionEnds == \A w \in Writers : Pc(w) # "idle" ~> Pc(w) = "idle"

\* What trees.md:50 says of every write, whichever path it comes through.
AlwaysAForest == IsForest(tab)

\* What tree.go:37 says: two transactions cannot deadlock on one tree.
NeverDeadlocks == ~\E v, w \in Writers : WaitsFor(v, w) /\ WaitsFor(w, v)
=============================================================================

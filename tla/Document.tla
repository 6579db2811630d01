------------------------------ MODULE Document ------------------------------
(***************************************************************************)
(* The life of one document (internal/engine/doc.go, workflow.go): saves,   *)
(* submissions and cancellations, workflow transitions, dbSet and deletion, *)
(* each in a transaction, over one row that several transactions want.      *)
(*                                                                         *)
(* A transaction reads committed data.  SELECT ... FOR UPDATE, UPDATE and   *)
(* DELETE wait for the row's lock and then see the row as last committed;   *)
(* a plain SELECT neither waits nor holds.  What the document's columns     *)
(* hold is kept as the set of the writes that are in them, each named by    *)
(* the instant it was made at, so that overwriting a write shows.           *)
(***************************************************************************)
EXTENDS Naturals, Sequences

CONSTANTS
  Tx,         \* transactions
  Governed,   \* TRUE in it: a workflow may govern the DocType; FALSE: none
  State,      \* the workflow's states
  Initial,    \* its initial state
  StatusOf,   \* the docstatus of each state
  Move,       \* its transitions, as <<state, next state>>
  Own,        \* what the app's own code writes of its accord, as
              \* <<docstatus, state>>
  Editable,   \* the states whose allowEdit the deleting user satisfies
  PerMs,      \* instants in a millisecond, the precision of sameTime
  MaxTime     \* bound: instants at which something is written

ASSUME GovernedAssumption == Governed \subseteq BOOLEAN
ASSUME TimeAssumption == PerMs \in Nat \ {0} /\ MaxTime \in Nat

\* What Engine.Load lets through: ValidateTarget.
ASSUME WorkflowAssumption ==
  /\ StatusOf \in [State -> 0..2]
  /\ Initial \in State /\ StatusOf[Initial] = 0
  /\ Move \subseteq State \X State
  /\ \A m \in Move : StatusOf[m[1]] # 2 /\ StatusOf[m[1]] <= StatusOf[m[2]]

ASSUME OwnAssumption == Own \subseteq (0..2) \X State

VARIABLES
  governed,   \* whether a workflow governs the DocType
  doc,        \* the row as committed
  holder,     \* the transaction that holds the row's lock, if any: a set
  tx,         \* the transactions
  now,        \* the last instant at which something was written
  trail,      \* the audit events workflow.transition, in commit order
  overruled   \* history: the app's own code has written docstatus or the
              \* workflow state of the governed document

vars == <<governed, doc, holder, tx, now, trail, overruled>>

Time == 0..MaxTime

Row == [there: BOOLEAN, status: 0..2, state: State, modified: Time, holds: SUBSET Time]

NewDoc == [there |-> TRUE, status |-> 0, state |-> Initial, modified |-> 0, holds |-> {}]

\* "open": a copy was read, and the user or the script works on it;
\* "setting" and "deleting": dbSet and delete before their statement waits;
\* "locked": Save holds the row and runs the hooks before its UPDATE;
\* "written": the row is changed, the lock held, the commit still to come.
\* copy is what was read, and then what is to be written; row is the row as
\* the transaction itself sees it; made are its writes; moved its transition.
\* History: direct, that dbSet or a hook gave it the docstatus or the state;
\* waives, the writes that its save could not tell were made.
Mem == [pc: {"idle", "open", "setting", "deleting", "locked", "written"},
        copy: Row, row: Row, base: Time, made: SUBSET Time, moved: SUBSET Move,
        direct: BOOLEAN, waives: SUBSET Time]

Idle == [pc |-> "idle", copy |-> NewDoc, row |-> NewDoc, base |-> 0, made |-> {},
         moved |-> {}, direct |-> FALSE, waives |-> {}]

Init ==
  /\ governed \in Governed
  /\ doc = NewDoc
  /\ holder = {}
  /\ tx = [t \in Tx |-> Idle]
  /\ now = 0
  /\ trail = <<>>
  /\ overruled = FALSE

\* time.Now(): no two writes are made at one instant.
Stamp == now + 1

\* A row written at an instant.
Written(r) == [r EXCEPT !.modified = Stamp, !.holds = @ \cup {Stamp}]

\* Mutant: that the row is gone is not noticed.
MutFree == holder = {}

\* What a statement that locks the row finds: no other holder, and the row.
Free == holder = {} /\ doc.there

-----------------------------------------------------------------------------
(* Save.                                                                   *)

\* sameTime: timestamps are compared at the precision a JSON copy keeps.
Ms(m) == m \div PerMs

\* Mutant: the comparison against the row is left out.
MutSameTime(m, n) == TRUE

SameTime(m, n) == Ms(m) = Ms(n)

\* The docstatus a save may move to: save, submit, update_after_submit, cancel.
MayBecome(old, new, inTransition) ==
  \/ (old \in {0, 1} /\ new = old)
  \/ (old = 0 /\ new = 1)
  \/ (new = 2 /\ (old = 1 \/ (old = 0 /\ inTransition)))

\* Outside a transition a workflow's state and docstatus are read-only.
Untouched(copy, status) == governed => copy.state = doc.state /\ status = doc.status

\* GET, or a script's getDoc.
Open(t) ==
  /\ tx[t].pc = "idle"
  /\ doc.there
  /\ tx' = [tx EXCEPT ![t] = [Idle EXCEPT !.pc = "open", !.copy = doc]]
  /\ UNCHANGED <<governed, doc, holder, now, trail, overruled>>

\* The writes in the row that a copy does not show and that the comparison of
\* "modified" cannot show either: the copy carries no "modified", or that of
\* another version of the same millisecond.
Waived(copy, dated) ==
  IF dated /\ (copy.modified = doc.modified \/ Ms(copy.modified) # Ms(doc.modified))
    THEN {} ELSE doc.holds \ copy.holds

\* What Save does up to its UPDATE, of a copy that carries "modified" or not,
\* a docstatus and the transition it is part of: the row is locked and read
\* again, the checks pass, and the time is taken.
Locked(t, copy, dated, status, moved) ==
  /\ Free
  /\ MayBecome(doc.status, status, moved # {})
  /\ dated => SameTime(copy.modified, doc.modified)
  /\ now < MaxTime
  /\ tx' = [tx EXCEPT ![t] =
       [pc |-> "locked", copy |-> Written([copy EXCEPT !.status = status]),
        row |-> doc, base |-> doc.modified, made |-> {Stamp}, moved |-> moved,
        direct |-> FALSE, waives |-> Waived(copy, dated)]]
  /\ holder' = {t}
  /\ now' = Stamp
  /\ UNCHANGED <<governed, doc, trail, overruled>>

\* Save, Submit and Cancel: the caller sends the copy it read, with or without
\* its "modified", with a docstatus and, where there is a state field and it
\* tries to, another workflow state.
Save(t, dated, status, state) ==
  /\ tx[t].pc = "open"
  /\ governed \/ state = tx[t].copy.state
  /\ LET copy == [tx[t].copy EXCEPT !.state = state] IN
       /\ Untouched(copy, status)
       /\ Locked(t, copy, dated, status, {})

\* Mutant: the transition is looked up in the state the user saw.
MutApply(t, m) ==
  /\ governed
  /\ tx[t].pc = "open"
  /\ m[1] = tx[t].copy.state
  /\ Locked(t, [doc EXCEPT !.state = m[2]], TRUE, StatusOf[m[2]], {m})

\* ApplyWorkflow: the row is locked first, and the transition is one that
\* leaves the state it is in.
Apply(t, m) ==
  /\ governed
  /\ tx[t].pc \in {"idle", "open"}
  /\ m[1] = doc.state
  /\ Locked(t, [doc EXCEPT !.state = m[2]], TRUE, StatusOf[m[2]], {m})

\* dbSet writes a row's docstatus and state like any other column, except that
\* under a workflow it does so only while a transition is being saved.
DirectWrite(r, status, state, moved) ==
  /\ governed \/ state = r.state
  /\ (governed /\ moved = {}) => status = r.status /\ state = r.state

\* A hook of the save calls dbSet on the document it runs for, before the
\* UPDATE (beforeSave) or after it (onSubmit).
Hook(t, status, state) ==
  /\ tx[t].pc \in {"locked", "written"}
  /\ tx[t].row.there
  /\ DirectWrite(tx[t].row, status, state, tx[t].moved)
  /\ now < MaxTime
  /\ tx' = [tx EXCEPT ![t].row = [Written(@) EXCEPT !.status = status, !.state = state],
                      ![t].made = @ \cup {Stamp},
                      ![t].direct = @ \/ status # tx[t].row.status \/ state # tx[t].row.state]
  /\ now' = Stamp
  /\ UNCHANGED <<governed, doc, holder, trail, overruled>>

\* A hook that runs before the UPDATE changes the docstatus or the state in the
\* document that Save goes on to write: both were checked before the hooks.
Assign(t, status, state) ==
  /\ tx[t].pc = "locked"
  /\ governed \/ state = tx[t].copy.state
  /\ status # tx[t].copy.status \/ state # tx[t].copy.state
  /\ tx' = [tx EXCEPT ![t].copy = [@ EXCEPT !.status = status, !.state = state],
                      ![t].direct = TRUE]
  /\ UNCHANGED <<governed, doc, holder, now, trail, overruled>>

\* The UPDATE, which compares "modified" with what Save read: false after a
\* hook has written the row, and the save fails.
WriteUpdate(t) ==
  /\ tx[t].pc = "locked"
  /\ tx[t].row.modified = tx[t].base
  /\ tx' = [tx EXCEPT ![t].pc = "written", ![t].row = tx[t].copy]
  /\ UNCHANGED <<governed, doc, holder, now, trail, overruled>>

-----------------------------------------------------------------------------
(* dbSet and delete.                                                       *)

\* dbSet up to its UPDATE: the checks, which read without a lock, and the
\* time.  docstatus is among its columns, if at all, where no workflow governs.
DBSet(t, direct, status) ==
  /\ tx[t].pc = "idle"
  /\ direct => ~governed
  /\ now < MaxTime
  /\ tx' = [tx EXCEPT ![t] = [Idle EXCEPT !.pc = "setting", !.copy.status = status,
                                          !.made = {Stamp}, !.direct = direct]]
  /\ now' = Stamp
  /\ UNCHANGED <<governed, doc, holder, trail, overruled>>

\* Its UPDATE ... WHERE id, of the columns it was given, and of "modified"
\* with the time taken before it waited.
SetColumns(t) ==
  /\ tx[t].pc = "setting"
  /\ Free
  /\ \E m \in tx[t].made :
       tx' = [tx EXCEPT ![t].pc = "written",
                        ![t].row = [doc EXCEPT !.modified = m, !.holds = @ \cup {m},
                          !.status = IF tx[t].direct THEN tx[t].copy.status ELSE @]]
  /\ holder' = {t}
  /\ UNCHANGED <<governed, doc, now, trail, overruled>>

\* Delete reads the document without a lock and checks it: not submitted, and
\* a draft under a workflow only where the user may edit it.
Delete(t) ==
  /\ tx[t].pc = "idle"
  /\ doc.there
  /\ (governed /\ doc.status = 0) => doc.state \in Editable \cup {Initial}
  /\ doc.status # 1
  /\ tx' = [tx EXCEPT ![t] = [Idle EXCEPT !.pc = "deleting", !.copy = doc]]
  /\ UNCHANGED <<governed, doc, holder, now, trail, overruled>>

\* The hooks ran; its DELETE ... WHERE id does not ask what became of the row,
\* nor whether it is still there.
DeleteRow(t) ==
  /\ tx[t].pc = "deleting"
  /\ holder = {}
  /\ tx' = [tx EXCEPT ![t].pc = "written", ![t].row = [doc EXCEPT !.there = FALSE]]
  /\ holder' = {t}
  /\ UNCHANGED <<governed, doc, now, trail, overruled>>

-----------------------------------------------------------------------------
(* The end of a transaction.                                               *)

Commit(t) ==
  /\ tx[t].pc = "written"
  /\ doc' = tx[t].row
  /\ overruled' = (overruled \/ (governed /\ tx[t].direct))
  /\ trail' = IF tx[t].moved = {} THEN trail
              ELSE Append(trail, CHOOSE m \in tx[t].moved : TRUE)
  /\ holder' = {}
  /\ tx' = [tx EXCEPT ![t] = Idle]
  /\ UNCHANGED <<governed, now>>

\* A refusal, an error of a hook, a lost client: runOnce rolls back.
Rollback(t) ==
  /\ tx[t].pc # "idle"
  /\ holder' = holder \ {t}
  /\ tx' = [tx EXCEPT ![t] = Idle]
  /\ UNCHANGED <<governed, doc, now, trail, overruled>>

\* Time in which nothing is written.
Pass ==
  /\ now < MaxTime
  /\ now' = now + 1
  /\ UNCHANGED <<governed, doc, holder, tx, trail, overruled>>

Next ==
  \/ Pass
  \/ \E t \in Tx :
       \/ Open(t)
       \/ \E dated \in BOOLEAN, status \in 0..3, state \in State : Save(t, dated, status, state)
       \/ \E m \in Move : Apply(t, m)
       \/ Hook(t, tx[t].row.status, tx[t].row.state)
       \/ \E own \in Own : Hook(t, own[1], own[2]) \/ Assign(t, own[1], own[2])
       \/ WriteUpdate(t)
       \/ DBSet(t, FALSE, 0)
       \/ \E own \in Own : DBSet(t, TRUE, own[1])
       \/ SetColumns(t)
       \/ Delete(t) \/ DeleteRow(t)
       \/ Commit(t) \/ Rollback(t)

Spec == Init /\ [][Next]_vars

-----------------------------------------------------------------------------
(* What holds.                                                             *)

TypeOK ==
  /\ governed \in BOOLEAN
  /\ doc \in Row
  /\ holder \in SUBSET Tx
  /\ tx \in [Tx -> Mem]
  /\ now \in Time
  /\ trail \in Seq(Move)
  /\ overruled \in BOOLEAN

\* No write is lost: a commit keeps every write that is in the document and
\* adds its own, those of its hooks included, except for the writes that its
\* save had no way to notice: its copy carried no "modified", or that of
\* another version of the same millisecond.
NothingLost ==
  [][ \E t \in holder :
        /\ doc.holds \ tx[t].waives \subseteq doc'.holds
        /\ tx[t].made \subseteq doc'.holds ]_doc

\* Under a workflow the audit trail explains the document: its transitions
\* form a path from the initial state to the one the document is in, so no
\* two requests decided the same state twice, and docstatus is that state's,
\* until the app's own code writes one of the two.
TrailExplainsState ==
  governed /\ ~overruled =>
    /\ doc.status = StatusOf[doc.state]
    /\ doc.state = IF trail = <<>> THEN Initial ELSE trail[Len(trail)][2]
    /\ \A i \in 1..Len(trail) :
         trail[i][1] = IF i = 1 THEN Initial ELSE trail[i - 1][2]

\* A commit that leaves docstatus and state to Save and ApplyWorkflow moves
\* docstatus forward only, never from cancelled, and from draft straight to
\* cancelled only by a workflow; under a workflow only a transition moves
\* either.  Whatever the commit, a deleted document stays so.
ForwardOnly ==
  [][ \E t \in holder :
        /\ doc'.there => doc.there
        /\ tx[t].direct \/
             /\ doc.status <= doc'.status
             /\ (doc.status = 0 /\ doc'.status = 2) => governed
             /\ doc.status = 2 => (doc'.status = 2 /\ doc'.state = doc.state)
             /\ (governed /\ tx[t].moved = {}) =>
                  doc'.status = doc.status /\ doc'.state = doc.state ]_doc

\* docs/agent/portal.md:118: a save that sends "modified" is refused if someone
\* saved in between.  Refuted where a millisecond holds two versions.
StaleIsRefused ==
  [][\A t \in Tx, status \in 0..2, state \in State :
       Save(t, TRUE, status, state) => tx[t].copy.modified = doc.modified]_vars

\* docs/agent/workflows.md:105: only a transition moves the state field and
\* docstatus of a governed document.  Refuted where a hook that runs before the
\* UPDATE assigns them.
OnlyTransitionsMove ==
  [][governed => \A t \in holder :
       tx[t].moved = {} /\ doc'.there => doc'.status = doc.status /\ doc'.state = doc.state]_doc

\* A submitted document is cancelled before it is deleted.
SubmittedIsKept == [][(doc.there /\ doc.status = 1) => doc'.there]_doc
=============================================================================

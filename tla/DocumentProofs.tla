--------------------------- MODULE DocumentProofs ---------------------------
(***************************************************************************)
(* That transactions over one document lose no write, decide no workflow    *)
(* state twice and move docstatus forward only, for any number of them.     *)
(*                                                                         *)
(* Only the holder of the row's lock has anything to commit, and the row    *)
(* does not change under it.  So what Save checked against the row it       *)
(* locked still holds at its commit: its version follows the committed one  *)
(* (Follows), and has all of its writes if the timestamps it compared were  *)
(* those of one version (CopiesAreVersions), hooks included (NothingBehind).*)
(***************************************************************************)
EXTENDS Document, TLAPS

Holding(t) == tx[t].pc \in {"locked", "written"}

\* The lock is held by the one transaction that has changed the row, and only
\* a transition's save has a transition to audit.
LockIsHeld ==
  /\ \A t \in Tx : Holding(t) <=> t \in holder
  /\ \A t, u \in holder : t = u
  /\ \A t \in Tx : ~Holding(t) => tx[t].moved = {}

\* A version of the document that may replace the committed one, where the
\* app's own code has (direct) or has not written docstatus or the state.
Follows(r, moved, direct) ==
  /\ r.there => doc.there
  /\ moved # {} => governed
  /\ \A m \in moved : moved = {m} /\ m[1] = doc.state
  /\ direct \/
       /\ doc.status <= r.status
       /\ (doc.status = 0 /\ r.status = 2) => governed
       /\ doc.status = 2 => (r.status = 2 /\ r.state = doc.state)
       /\ (governed /\ moved = {}) => r.state = doc.state /\ r.status = doc.status
       /\ \A m \in moved : r.state = m[2] /\ r.status = StatusOf[m[2]]

PendingFollows ==
  \A t \in Tx :
    /\ tx[t].pc = "locked" => Follows(tx[t].copy, tx[t].moved, tx[t].direct)
    /\ tx[t].pc = "written" => Follows(tx[t].row, tx[t].moved, tx[t].direct)

MoveInv == TypeOK /\ LockIsHeld /\ PendingFollows /\ TrailExplainsState

\* Every write has an instant of its own, which has passed and is neither the
\* document's nor that of a copy somebody has read.
WritesAreNew ==
  /\ doc.modified \in 0..now
  /\ \A t \in Tx : tx[t].made \subseteq (1..now) \ {doc.modified}
  /\ \A t, u \in Tx : t # u => tx[t].made \cap tx[u].made = {}
  /\ \A t \in Tx : tx[t].pc = "open" =>
       /\ tx[t].copy.modified \in 0..now
       /\ \A u \in Tx : tx[t].copy.modified \notin tx[u].made

\* A copy that bears the document's timestamp is the document.
CopiesAreVersions ==
  \A t \in Tx : tx[t].pc = "open" =>
    (tx[t].copy.modified = doc.modified => tx[t].copy.holds = doc.holds)

\* What is about to be committed has every write of the document, those that
\* its save waives excepted, and every one of its own.
NothingBehind ==
  \A t \in Tx :
    /\ tx[t].pc = "locked" =>
         /\ tx[t].base = doc.modified
         /\ tx[t].copy.modified \in tx[t].made
         /\ doc.holds \ tx[t].waives \subseteq tx[t].copy.holds
         /\ tx[t].row.modified = tx[t].base => tx[t].made \subseteq tx[t].copy.holds
         /\ tx[t].row.modified \in tx[t].made \cup {tx[t].base}
    /\ tx[t].pc = "written" =>
         /\ doc.holds \ tx[t].waives \subseteq tx[t].row.holds
         /\ tx[t].made \subseteq tx[t].row.holds
         /\ tx[t].row.modified \in tx[t].made
              \/ /\ tx[t].made = {} /\ ~tx[t].row.there
                 /\ tx[t].row.modified = doc.modified /\ tx[t].row.holds = doc.holds
    /\ tx[t].pc = "setting" => \E m \in Time : tx[t].made = {m}
    /\ tx[t].pc = "deleting" => tx[t].made = {}

LostInv == TypeOK /\ LockIsHeld /\ WritesAreNew /\ CopiesAreVersions /\ NothingBehind

\* dbSet, whatever it writes.
Setting(t) == \E direct \in BOOLEAN, status \in 0..2 : DBSet(t, direct, status)

\* The steps, each with what it is called with in its type.
LEMMA NextCases ==
  ASSUME TypeOK, [Next]_vars
  PROVE  \/ Pass \/ UNCHANGED vars
         \/ \E t \in Tx : \/ Open(t) \/ Setting(t) \/ Delete(t) \/ Rollback(t)
                         \/ WriteUpdate(t) \/ SetColumns(t) \/ DeleteRow(t) \/ Commit(t)
         \/ \E t \in Tx, dated \in BOOLEAN, status \in 0..3, state \in State :
              Save(t, dated, status, state)
         \/ \E t \in Tx, m \in Move : Apply(t, m)
         \/ \E t \in Tx, status \in 0..2, state \in State :
              Hook(t, status, state) \/ Assign(t, status, state)
<1>1. \A own \in Own : own[1] \in 0..2 /\ own[2] \in State
  BY OwnAssumption
<1>2. \A t \in Tx : tx[t].row.status \in 0..2 /\ tx[t].row.state \in State
  BY DEF TypeOK, Mem, Row
<1>0. FALSE \in BOOLEAN /\ TRUE \in BOOLEAN /\ 0 \in 0..2
  OBVIOUS
<1>3. \A t \in Tx : DBSet(t, FALSE, 0) => Setting(t)
  BY <1>0, Zenon DEF Setting
<1>4. \A t \in Tx, own \in Own : DBSet(t, TRUE, own[1]) => Setting(t)
  BY <1>0, <1>1, Zenon DEF Setting
<1>5. \A t \in Tx : Hook(t, tx[t].row.status, tx[t].row.state) =>
        \E status \in 0..2, state \in State : Hook(t, status, state)
  BY <1>2
<1>6. \A t \in Tx, own \in Own : Hook(t, own[1], own[2]) \/ Assign(t, own[1], own[2]) =>
        \E status \in 0..2, state \in State : Hook(t, status, state) \/ Assign(t, status, state)
  BY <1>1
<1> QED
  BY <1>3, <1>4, <1>5, <1>6 DEF Next

-----------------------------------------------------------------------------
(* Types.                                                                  *)

\* Writing a row at the next instant keeps all but its time and contents.
LEMMA WrittenRow ==
  ASSUME NEW r \in Row, now \in Time, now < MaxTime
  PROVE  /\ Stamp \in Time /\ Stamp \notin 0..now
         /\ Written(r) \in Row
         /\ Written(r).there = r.there /\ Written(r).status = r.status
         /\ Written(r).state = r.state /\ Written(r).modified = Stamp
         /\ Written(r).holds = r.holds \cup {Stamp}
<1>1. Stamp \in Time /\ Stamp \notin 0..now
  BY TimeAssumption DEF Time, Stamp
<1> QED
  BY <1>1 DEF Written, Row

\* A row that a hook's dbSet has written.
Owned(r, status, state) == [Written(r) EXCEPT !.status = status, !.state = state]

LEMMA OwnRow ==
  ASSUME NEW r \in Row, NEW status \in 0..2, NEW state \in State, now \in Time, now < MaxTime
  PROVE  /\ Owned(r, status, state) \in Row
         /\ Owned(r, status, state).there = r.there
         /\ Owned(r, status, state).status = status
         /\ Owned(r, status, state).state = state
         /\ Owned(r, status, state).modified = Stamp
         /\ Owned(r, status, state).holds = r.holds \cup {Stamp}
<1>1. PICK v : v = Written(r)
  OBVIOUS
<1>2. v \in Row /\ v.there = r.there /\ v.modified = Stamp /\ v.holds = r.holds \cup {Stamp}
  BY <1>1, WrittenRow
<1>3. Owned(r, status, state) = [v EXCEPT !.status = status, !.state = state]
  BY <1>1 DEF Owned
<1> QED
  BY <1>2, <1>3 DEF Row

LEMMA NewTypes == NewDoc \in Row /\ Idle \in Mem
<1>1. NewDoc \in Row
  BY WorkflowAssumption, TimeAssumption DEF NewDoc, Row, Time
<1> QED
  BY <1>1, TimeAssumption DEF Idle, Mem, Time

LEMMA InitTypes == Init => TypeOK
<1> SUFFICES ASSUME Init PROVE TypeOK
  OBVIOUS
<1>1. trail \in Seq(Move)
  BY DEF Init
<1>2. overruled \in BOOLEAN
  BY DEF Init
<1> QED
  BY <1>1, <1>2, NewTypes, GovernedAssumption, TimeAssumption DEF Init, TypeOK, Time

\* What Save does to a transaction is well typed.
LEMMA LockedTypes ==
  ASSUME TypeOK, NEW t \in Tx, NEW copy \in Row, NEW dated \in BOOLEAN, NEW status \in Nat,
         NEW moved \in SUBSET Move, Locked(t, copy, dated, status, moved)
  PROVE  /\ TypeOK'
         /\ status \in 0..2
         /\ tx'[t].copy.there = copy.there /\ tx'[t].copy.status = status
         /\ tx'[t].copy.state = copy.state /\ tx'[t].copy.modified = Stamp
         /\ tx'[t].copy.holds = copy.holds \cup {Stamp}
         /\ tx'[t].pc = "locked" /\ tx'[t].row = doc /\ tx'[t].base = doc.modified
         /\ tx'[t].made = {Stamp} /\ tx'[t].moved = moved
         /\ ~tx'[t].direct /\ tx'[t].waives = Waived(copy, dated)
         /\ \A u \in Tx \ {t} : tx'[u] = tx[u]
<1> USE DEF Locked
<1>1. status \in 0..2
  BY DEF MayBecome
<1> DEFINE c == [copy EXCEPT !.status = status]
<1>2. c \in Row /\ c.there = copy.there /\ c.status = status /\ c.state = copy.state
        /\ c.holds = copy.holds
  BY <1>1 DEF Row
<1> HIDE DEF c
<1>3. now \in Time /\ now < MaxTime /\ doc \in Row /\ doc.modified \in Time
  BY DEF TypeOK, Row
<1>4. PICK w : w = Written(c)
  OBVIOUS
<1>5. /\ Stamp \in Time /\ w \in Row
      /\ w.there = copy.there /\ w.status = status /\ w.state = copy.state
      /\ w.modified = Stamp /\ w.holds = copy.holds \cup {Stamp}
  BY <1>2, <1>3, <1>4, WrittenRow
<1>6. PICK n : n = [pc |-> "locked", copy |-> w, row |-> doc, base |-> doc.modified,
                    made |-> {Stamp}, moved |-> moved,
                    direct |-> FALSE, waives |-> Waived(copy, dated)]
  OBVIOUS
<1>11. Waived(copy, dated) \in SUBSET Time
  BY <1>3 DEF Waived, Row
<1>7. n \in Mem
  BY <1>3, <1>5, <1>6, <1>11 DEF Mem
<1>8. tx' = [tx EXCEPT ![t] = n] /\ tx \in [Tx -> Mem]
  BY <1>4, <1>6 DEF c, TypeOK
<1>9. tx' \in [Tx -> Mem] /\ tx'[t] = n /\ \A u \in Tx \ {t} : tx'[u] = tx[u]
  BY <1>7, <1>8
<1>10. TypeOK'
  BY <1>5, <1>9 DEF TypeOK
<1> QED
  BY <1>1, <1>5, <1>6, <1>9, <1>10

\* What a transition asks Save to write.
LEMMA MoveTypes ==
  ASSUME TypeOK, NEW m \in Move
  PROVE  /\ m[1] \in State /\ m[2] \in State /\ StatusOf[m[2]] \in 0..2
         /\ StatusOf[m[2]] \in Nat /\ {m} \in SUBSET Move
         /\ [doc EXCEPT !.state = m[2]] \in Row
         /\ [doc EXCEPT !.state = m[2]].there = doc.there
         /\ [doc EXCEPT !.state = m[2]].state = m[2]
         /\ [doc EXCEPT !.state = m[2]].holds = doc.holds
<1>1. m \in State \X State
  BY WorkflowAssumption
<1>2. m[1] \in State /\ m[2] \in State
  BY <1>1
<1>3. StatusOf[m[2]] \in 0..2
  BY <1>2, WorkflowAssumption
<1>4. StatusOf[m[2]] \in Nat /\ {m} \in SUBSET Move
  BY <1>3
<1> QED
  BY <1>2, <1>3, <1>4 DEF TypeOK, Row

\* What a client asks Save to write.
LEMMA SentTypes ==
  ASSUME TypeOK, NEW t \in Tx, NEW state \in State
  PROVE  /\ [tx[t].copy EXCEPT !.state = state] \in Row
         /\ [tx[t].copy EXCEPT !.state = state].state = state
         /\ [tx[t].copy EXCEPT !.state = state].there = tx[t].copy.there
         /\ [tx[t].copy EXCEPT !.state = state].modified = tx[t].copy.modified
         /\ [tx[t].copy EXCEPT !.state = state].holds = tx[t].copy.holds
BY DEF TypeOK, Mem, Row

\* The steps of a transaction that neither hold nor take the lock.
LEMMA OutsideLock ==
  ASSUME TypeOK, NEW t \in Tx, Open(t) \/ Setting(t) \/ Delete(t) \/ Rollback(t)
  PROVE  /\ governed' = governed /\ doc' = doc /\ trail' = trail /\ overruled' = overruled
         /\ tx'[t].pc \in {"idle", "open", "setting", "deleting"} /\ tx'[t].moved = {}
         /\ IF tx'[t].pc = "setting"
              THEN tx'[t].made = {Stamp} /\ now' = Stamp /\ now < MaxTime
              ELSE tx'[t].made = {} /\ now' = now
         /\ tx'[t].pc = "open" => tx'[t].copy = doc
         /\ \A u \in Tx \ {t} : tx'[u] = tx[u]
<1>0. tx \in [Tx -> Mem]
  BY DEF TypeOK
<1>1. ASSUME NEW n, tx' = [tx EXCEPT ![t] = n]
      PROVE  tx'[t] = n /\ \A u \in Tx \ {t} : tx'[u] = tx[u]
  BY <1>0, <1>1
<1>2. CASE Open(t)
  <2>1. PICK n : n = [Idle EXCEPT !.pc = "open", !.copy = doc]
    OBVIOUS
  <2>2. n.pc = "open" /\ n.moved = {} /\ n.made = {} /\ n.copy = doc
    BY <2>1 DEF Idle
  <2> QED
    BY <1>1, <1>2, <2>1, <2>2 DEF Open
<1>3. CASE Setting(t)
  <2>0. PICK direct \in BOOLEAN, status \in 0..2 : DBSet(t, direct, status)
    BY <1>3 DEF Setting
  <2>1. PICK n : n = [Idle EXCEPT !.pc = "setting", !.copy.status = status,
                                  !.made = {Stamp}, !.direct = direct]
    OBVIOUS
  <2>2. n.pc = "setting" /\ n.moved = {} /\ n.made = {Stamp}
    BY <2>1 DEF Idle
  <2> QED
    BY <1>1, <2>0, <2>1, <2>2 DEF DBSet
<1>4. CASE Delete(t)
  <2>1. PICK n : n = [Idle EXCEPT !.pc = "deleting", !.copy = doc]
    OBVIOUS
  <2>2. n.pc = "deleting" /\ n.moved = {} /\ n.made = {}
    BY <2>1 DEF Idle
  <2> QED
    BY <1>1, <1>4, <2>1, <2>2 DEF Delete
<1>5. CASE Rollback(t)
  <2>1. Idle.pc = "idle" /\ Idle.moved = {} /\ Idle.made = {}
    BY DEF Idle
  <2> QED
    BY <1>1, <1>5, <2>1 DEF Rollback
<1> QED
  BY <1>2, <1>3, <1>4, <1>5

\* The statements that take the lock as they change the row.
LEMMA TakesLock ==
  ASSUME TypeOK, NEW t \in Tx, SetColumns(t) \/ DeleteRow(t)
  PROVE  /\ governed' = governed /\ doc' = doc /\ trail' = trail /\ overruled' = overruled
         /\ holder = {} /\ holder' = {t} /\ now' = now
         /\ tx'[t].pc = "written" /\ tx'[t].moved = tx[t].moved /\ tx'[t].made = tx[t].made
         /\ tx'[t].direct = tx[t].direct
         /\ tx'[t].row.there => doc.there
         /\ ~tx[t].direct => tx'[t].row.status = doc.status
         /\ tx'[t].row.state = doc.state
         /\ SetColumns(t) => \E m \in tx[t].made :
              tx'[t].row.modified = m /\ tx'[t].row.holds = doc.holds \cup {m}
         /\ DeleteRow(t) => /\ ~tx'[t].row.there /\ tx'[t].row.modified = doc.modified
                            /\ tx'[t].row.holds = doc.holds
         /\ \A u \in Tx \ {t} : tx'[u] = tx[u]
<1>0. tx \in [Tx -> Mem] /\ doc \in Row
  BY DEF TypeOK
<1>1. ASSUME NEW r, tx' = [tx EXCEPT ![t].pc = "written", ![t].row = r]
      PROVE  /\ tx'[t].pc = "written" /\ tx'[t].moved = tx[t].moved
             /\ tx'[t].made = tx[t].made /\ tx'[t].row = r /\ tx'[t].direct = tx[t].direct
             /\ \A u \in Tx \ {t} : tx'[u] = tx[u]
  BY <1>0, <1>1 DEF Mem
<1>2. ~(SetColumns(t) /\ DeleteRow(t))
  BY DEF SetColumns, DeleteRow
<1>3. CASE SetColumns(t)
  <2>1. PICK m \in tx[t].made :
          tx' = [tx EXCEPT ![t].pc = "written",
                           ![t].row = [doc EXCEPT !.modified = m, !.holds = @ \cup {m},
                             !.status = IF tx[t].direct THEN tx[t].copy.status ELSE @]]
    BY <1>3 DEF SetColumns
  <2>2. PICK r : r = [doc EXCEPT !.modified = m, !.holds = @ \cup {m},
                        !.status = IF tx[t].direct THEN tx[t].copy.status ELSE @]
    OBVIOUS
  <2>3. /\ r.there = doc.there
        /\ ~tx[t].direct => r.status = doc.status
        /\ r.state = doc.state /\ r.modified = m /\ r.holds = doc.holds \cup {m}
    BY <1>0, <2>2 DEF Row
  <2>4. tx' = [tx EXCEPT ![t].pc = "written", ![t].row = r]
    BY <2>1, <2>2
  <2>5. /\ governed' = governed /\ doc' = doc /\ trail' = trail /\ overruled' = overruled
        /\ holder = {} /\ holder' = {t} /\ now' = now
    BY <1>3 DEF SetColumns, Free
  <2>6. /\ tx'[t].pc = "written" /\ tx'[t].moved = tx[t].moved
        /\ tx'[t].made = tx[t].made /\ tx'[t].row = r /\ tx'[t].direct = tx[t].direct
        /\ \A u \in Tx \ {t} : tx'[u] = tx[u]
    BY <1>1, <2>4
  <2>7. \E k \in tx[t].made :
          tx'[t].row.modified = k /\ tx'[t].row.holds = doc.holds \cup {k}
    BY <2>3, <2>6
  <2>8. /\ tx'[t].row.there => doc.there
        /\ ~tx[t].direct => tx'[t].row.status = doc.status
        /\ tx'[t].row.state = doc.state
    BY <2>3, <2>6
  <2> QED
    BY <1>2, <1>3, <2>5, <2>6, <2>7, <2>8
<1>4. CASE DeleteRow(t)
  <2>1. PICK r : r = [doc EXCEPT !.there = FALSE]
    OBVIOUS
  <2>2. /\ ~r.there /\ r.status = doc.status /\ r.state = doc.state
        /\ r.modified = doc.modified /\ r.holds = doc.holds
    BY <1>0, <2>1 DEF Row
  <2>3. tx' = [tx EXCEPT ![t].pc = "written", ![t].row = r]
    BY <1>4, <2>1 DEF DeleteRow
  <2>4. /\ governed' = governed /\ doc' = doc /\ trail' = trail /\ overruled' = overruled
        /\ holder = {} /\ holder' = {t} /\ now' = now
    BY <1>4 DEF DeleteRow
  <2> QED
    BY <1>1, <1>2, <1>4, <2>2, <2>3, <2>4
<1> QED
  BY <1>3, <1>4

LEMMA NextTypes == TypeOK /\ [Next]_vars => TypeOK'
<1> SUFFICES ASSUME TypeOK, [Next]_vars PROVE TypeOK'
  OBVIOUS
<1>0. now \in Time /\ doc \in Row /\ tx \in [Tx -> Mem] /\ doc.modified \in Time
  BY DEF TypeOK, Row
<1>1. CASE Pass
  BY <1>0, <1>1, TimeAssumption DEF Pass, TypeOK, Time
<1>2. ASSUME NEW t \in Tx, Open(t)
      PROVE  TypeOK'
  <2>1. PICK n : n = [Idle EXCEPT !.pc = "open", !.copy = doc]
    OBVIOUS
  <2>2. n \in Mem
    BY <1>0, <2>1, NewTypes DEF Idle, Mem
  <2>3. tx' = [tx EXCEPT ![t] = n]
    BY <1>2, <2>1 DEF Open
  <2> QED
    BY <1>0, <1>2, <2>2, <2>3 DEF Open, TypeOK
<1>3. ASSUME NEW t \in Tx, NEW dated \in BOOLEAN, NEW status \in 0..3, NEW state \in State,
             Save(t, dated, status, state)
      PROVE  TypeOK'
  <2>1. PICK copy \in Row : Locked(t, copy, dated, status, {})
    BY <1>3, SentTypes DEF Save
  <2> QED
    BY <2>1, LockedTypes
<1>4. ASSUME NEW t \in Tx, NEW m \in Move, Apply(t, m)
      PROVE  TypeOK'
  <2>1. PICK copy \in Row : Locked(t, copy, TRUE, StatusOf[m[2]], {m})
    BY <1>4, MoveTypes DEF Apply
  <2>2. StatusOf[m[2]] \in Nat /\ {m} \in SUBSET Move
    BY MoveTypes
  <2> QED
    BY <2>1, <2>2, LockedTypes
<1>5. ASSUME NEW t \in Tx, NEW status \in 0..2, NEW state \in State, Hook(t, status, state)
      PROVE  TypeOK'
  <2>1. PICK w : w = Owned(tx[t].row, status, state)
    OBVIOUS
  <2>2. w \in Row /\ Stamp \in Time
    BY <1>0, <1>5, <2>1, OwnRow, WrittenRow DEF Hook, Mem
  <2>5. tx[t].row \in Row /\ tx[t].made \in SUBSET Time
    BY <1>0 DEF Mem
  <2>3. PICK d \in BOOLEAN :
          tx' = [tx EXCEPT ![t].row = w, ![t].made = @ \cup {Stamp}, ![t].direct = d]
    <3>1. PICK d : d = (tx[t].direct \/ status # tx[t].row.status \/ state # tx[t].row.state)
      OBVIOUS
    <3>2. tx' = [tx EXCEPT ![t].row = w, ![t].made = @ \cup {Stamp}, ![t].direct = d]
      BY <1>5, <2>1, <3>1 DEF Hook, Owned
    <3>3. d \in BOOLEAN
      BY <3>1
    <3> QED
      BY <3>2, <3>3
  <2>6. PICK k : k = tx[t].made \cup {Stamp}
    OBVIOUS
  <2>7. k \in SUBSET Time
    BY <2>2, <2>5, <2>6
  <2>8. PICK n : n = [tx[t] EXCEPT !.row = w, !.made = k, !.direct = d]
    OBVIOUS
  <2>9. n \in Mem
    BY <1>0, <2>2, <2>7, <2>8 DEF Mem
  <2>10. tx' = [tx EXCEPT ![t] = n]
    BY <1>0, <2>3, <2>6, <2>8
  <2>4. tx' \in [Tx -> Mem]
    BY <1>0, <2>9, <2>10
  <2> QED
    BY <1>5, <2>2, <2>4 DEF Hook, TypeOK
<1>14. ASSUME NEW t \in Tx, NEW status \in 0..2, NEW state \in State, Assign(t, status, state)
      PROVE  TypeOK'
  <2>1. PICK c : c = [tx[t].copy EXCEPT !.status = status, !.state = state]
    OBVIOUS
  <2>2. c \in Row
    BY <1>0, <2>1 DEF Mem, Row
  <2>3. tx' = [tx EXCEPT ![t].copy = c, ![t].direct = TRUE]
    BY <1>14, <2>1 DEF Assign
  <2>41. PICK n : n = [tx[t] EXCEPT !.copy = c, !.direct = TRUE]
    OBVIOUS
  <2>42. n \in Mem
    BY <1>0, <2>2, <2>41 DEF Mem
  <2>43. tx' = [tx EXCEPT ![t] = n]
    BY <1>0, <2>3, <2>41
  <2>4. tx' \in [Tx -> Mem]
    BY <1>0, <2>42, <2>43
  <2> QED
    BY <1>14, <2>4 DEF Assign, TypeOK
<1>6. ASSUME NEW t \in Tx, WriteUpdate(t)
      PROVE  TypeOK'
  <2>41. PICK n : n = [tx[t] EXCEPT !.pc = "written", !.row = tx[t].copy]
    OBVIOUS
  <2>42. n \in Mem
    BY <1>0, <2>41 DEF Mem
  <2>43. tx' = [tx EXCEPT ![t] = n]
    BY <1>0, <1>6, <2>41 DEF WriteUpdate
  <2>1. tx' \in [Tx -> Mem]
    BY <1>0, <2>42, <2>43
  <2> QED
    BY <1>6, <2>1 DEF WriteUpdate, TypeOK
<1>7. ASSUME NEW t \in Tx, Setting(t)
      PROVE  TypeOK'
  <2>0. PICK direct \in BOOLEAN, status \in 0..2 : DBSet(t, direct, status)
    BY <1>7 DEF Setting
  <2>1. Stamp \in Time
    BY <1>0, <2>0, WrittenRow DEF DBSet
  <2>2. PICK n : n = [Idle EXCEPT !.pc = "setting", !.copy.status = status,
                                  !.made = {Stamp}, !.direct = direct]
    OBVIOUS
  <2>5. [NewDoc EXCEPT !.status = status] \in Row
    BY NewTypes DEF Row
  <2>6. n = [pc |-> "setting", copy |-> [NewDoc EXCEPT !.status = status], row |-> NewDoc,
             base |-> 0, made |-> {Stamp}, moved |-> {}, direct |-> direct, waives |-> {}]
    BY <2>2 DEF Idle
  <2>7. 0 \in Time
    BY NewTypes DEF Mem, Idle
  <2>3. n \in Mem
    BY <2>1, <2>5, <2>6, <2>7, NewTypes DEF Mem
  <2>4. tx' = [tx EXCEPT ![t] = n]
    BY <2>0, <2>2 DEF DBSet
  <2> QED
    BY <1>0, <2>0, <2>1, <2>3, <2>4 DEF DBSet, TypeOK
<1>8. ASSUME NEW t \in Tx, SetColumns(t)
      PROVE  TypeOK'
  <2>1. PICK m \in tx[t].made :
          tx' = [tx EXCEPT ![t].pc = "written",
                           ![t].row = [doc EXCEPT !.modified = m, !.holds = @ \cup {m},
                             !.status = IF tx[t].direct THEN tx[t].copy.status ELSE @]]
    BY <1>8 DEF SetColumns
  <2>2. m \in Time /\ tx[t].copy.status \in 0..2
    BY <1>0 DEF Mem, Row
  <2>3. PICK r : r = [doc EXCEPT !.modified = m, !.holds = @ \cup {m},
                        !.status = IF tx[t].direct THEN tx[t].copy.status ELSE @]
    OBVIOUS
  <2>4. r \in Row
    BY <1>0, <2>2, <2>3 DEF Row
  <2>5. tx' = [tx EXCEPT ![t].pc = "written", ![t].row = r]
    BY <2>1, <2>3
  <2>61. PICK n : n = [tx[t] EXCEPT !.pc = "written", !.row = r]
    OBVIOUS
  <2>62. n \in Mem
    BY <1>0, <2>4, <2>61 DEF Mem
  <2>63. tx' = [tx EXCEPT ![t] = n]
    BY <1>0, <2>5, <2>61
  <2>6. tx' \in [Tx -> Mem]
    BY <1>0, <2>62, <2>63
  <2> QED
    BY <1>8, <2>6 DEF SetColumns, TypeOK
<1>9. ASSUME NEW t \in Tx, Delete(t)
      PROVE  TypeOK'
  <2>1. PICK n : n = [Idle EXCEPT !.pc = "deleting", !.copy = doc]
    OBVIOUS
  <2>2. n \in Mem
    BY <1>0, <2>1, NewTypes DEF Idle, Mem
  <2>3. tx' = [tx EXCEPT ![t] = n]
    BY <1>9, <2>1 DEF Delete
  <2> QED
    BY <1>0, <1>9, <2>2, <2>3 DEF Delete, TypeOK
<1>10. ASSUME NEW t \in Tx, DeleteRow(t)
       PROVE  TypeOK'
  <2>1. PICK r : r = [doc EXCEPT !.there = FALSE]
    OBVIOUS
  <2>2. r \in Row
    BY <1>0, <2>1 DEF Row
  <2>3. tx' = [tx EXCEPT ![t].pc = "written", ![t].row = r]
    BY <1>10, <2>1 DEF DeleteRow
  <2>41. PICK n : n = [tx[t] EXCEPT !.pc = "written", !.row = r]
    OBVIOUS
  <2>42. n \in Mem
    BY <1>0, <2>2, <2>41 DEF Mem
  <2>43. tx' = [tx EXCEPT ![t] = n]
    BY <1>0, <2>3, <2>41
  <2>4. tx' \in [Tx -> Mem]
    BY <1>0, <2>42, <2>43
  <2> QED
    BY <1>10, <2>4 DEF DeleteRow, TypeOK
<1>11. ASSUME NEW t \in Tx, Commit(t)
       PROVE  TypeOK'
  <2>1. doc' \in Row /\ overruled' \in BOOLEAN
    BY <1>0, <1>11 DEF Commit, Mem, TypeOK
  <2>2. tx' \in [Tx -> Mem]
    BY <1>0, <1>11, NewTypes DEF Commit
  <2>3. trail' \in Seq(Move)
    <3>1. CASE tx[t].moved = {}
      BY <1>11, <3>1 DEF Commit, TypeOK
    <3>2. CASE tx[t].moved # {}
      <4>1. PICK m : m = CHOOSE x \in tx[t].moved : TRUE
        OBVIOUS
      <4>2. m \in Move
        BY <1>0, <3>2, <4>1 DEF Mem
      <4>3. trail' = Append(trail, m)
        BY <1>11, <3>2, <4>1 DEF Commit
      <4> QED
        BY <4>2, <4>3 DEF TypeOK
    <3> QED
      BY <3>1, <3>2
  <2> QED
    BY <1>11, <2>1, <2>2, <2>3 DEF Commit, TypeOK
<1>12. ASSUME NEW t \in Tx, Rollback(t)
       PROVE  TypeOK'
  <2>1. tx' \in [Tx -> Mem]
    BY <1>0, <1>12, NewTypes DEF Rollback
  <2> QED
    BY <1>12, <2>1 DEF Rollback, TypeOK
<1>13. CASE UNCHANGED vars
  BY <1>13 DEF vars, TypeOK
<1> QED
  BY <1>1, <1>2, <1>3, <1>4, <1>5, <1>6, <1>7, <1>8, <1>9, <1>10, <1>11, <1>12, <1>13, <1>14,
     NextCases

\* The types of the row, of the transactions and of their histories.
THEOREM TypeCorrect == Spec => []TypeOK
<1>1. Init => TypeOK
  BY InitTypes
<1>2. TypeOK /\ [Next]_vars => TypeOK'
  BY NextTypes
<1> QED
  BY <1>1, <1>2, PTL DEF Spec

-----------------------------------------------------------------------------
(* The lock.                                                               *)

LEMMA NextLock == TypeOK /\ LockIsHeld /\ [Next]_vars => LockIsHeld'
<1> SUFFICES ASSUME TypeOK, LockIsHeld, [Next]_vars PROVE LockIsHeld'
  OBVIOUS
<1> USE DEF LockIsHeld, Holding
<1>0. tx \in [Tx -> Mem]
  BY DEF TypeOK
<1>1. ASSUME NEW t \in Tx, NEW copy \in Row, NEW dated \in BOOLEAN, NEW status \in Nat, NEW moved \in SUBSET Move,
             Locked(t, copy, dated, status, moved)
      PROVE  LockIsHeld'
  BY <1>0, <1>1, LockedTypes DEF Locked, Free
<1>2. ASSUME NEW t \in Tx, NEW dated \in BOOLEAN, NEW status \in 0..3, NEW state \in State,
             Save(t, dated, status, state)
      PROVE  LockIsHeld'
  <2>1. PICK copy \in Row : Locked(t, copy, dated, status, {})
    BY <1>2, SentTypes DEF Save
  <2> QED
    BY <1>1, <2>1
<1>3. ASSUME NEW t \in Tx, NEW m \in Move, Apply(t, m)
      PROVE  LockIsHeld'
  <2>1. PICK copy \in Row : Locked(t, copy, TRUE, StatusOf[m[2]], {m})
    BY <1>3, MoveTypes DEF Apply
  <2>2. StatusOf[m[2]] \in Nat /\ {m} \in SUBSET Move
    BY MoveTypes
  <2> QED
    BY <1>1, <2>1, <2>2
<1>4. ASSUME NEW t \in Tx, Open(t) \/ Setting(t) \/ Delete(t)
      PROVE  LockIsHeld'
  <2>1. holder' = holder /\ t \notin holder
    BY <1>4 DEF Open, Setting, DBSet, Delete
  <2> QED
    BY <1>4, <2>1, OutsideLock
<1>5. ASSUME NEW t \in Tx, NEW status \in 0..2, NEW state \in State,
             Hook(t, status, state) \/ Assign(t, status, state)
      PROVE  LockIsHeld'
  BY <1>0, <1>5 DEF Hook, Assign, Mem
<1>9. ASSUME NEW t \in Tx, WriteUpdate(t)
      PROVE  LockIsHeld'
  BY <1>0, <1>9 DEF WriteUpdate, Mem
<1>6. ASSUME NEW t \in Tx, SetColumns(t) \/ DeleteRow(t)
      PROVE  LockIsHeld'
  BY <1>6, TakesLock
<1>7. ASSUME NEW t \in Tx, Commit(t) \/ Rollback(t)
      PROVE  LockIsHeld'
  BY <1>0, <1>7 DEF Commit, Rollback, Idle
<1>8. CASE Pass \/ UNCHANGED vars
  BY <1>8 DEF Pass, vars
<1> QED
  BY <1>2, <1>3, <1>4, <1>5, <1>6, <1>7, <1>8, <1>9, NextCases

-----------------------------------------------------------------------------
(* Docstatus, workflow state and audit trail.                              *)

\* A version with the docstatus, the state and the existence of another one
\* follows where that one does.
LEMMA FollowsAlike ==
  ASSUME NEW r, NEW s, NEW moved, NEW direct, Follows(r, moved, direct),
         s.there = r.there, s.status = r.status, s.state = r.state
  PROVE  Follows(s, moved, direct)
BY DEF Follows

\* What Save and ApplyWorkflow have checked of the state and the docstatus.
Asked(copy, status, moved) ==
  /\ moved = {} => (governed => copy.state = doc.state /\ status = doc.status)
  /\ moved # {} => governed
  /\ \A m \in moved : /\ moved = {m} /\ m[1] = doc.state
                      /\ copy.state = m[2] /\ status = StatusOf[m[2]]

\* What Save and ApplyWorkflow are about to write follows what they locked.
LEMMA LockedFollows ==
  ASSUME TypeOK, NEW t \in Tx, NEW copy \in Row, NEW dated \in BOOLEAN, NEW status \in Nat,
         NEW moved \in SUBSET Move, Locked(t, copy, dated, status, moved),
         Asked(copy, status, moved)
  PROVE  Follows(tx'[t].copy, moved, FALSE)
<1>0. status \in 0..2
  BY LockedTypes
<1>1. /\ doc.there /\ doc.status \in 0..2
      /\ MayBecome(doc.status, status, moved # {})
  BY DEF Locked, Free, TypeOK, Row
<1>2. /\ tx'[t].copy.there = copy.there
      /\ tx'[t].copy.status = status /\ tx'[t].copy.state = copy.state
  BY LockedTypes
<1>3. doc.status <= status /\ doc.status # 2 /\ (doc.status = 0 /\ status = 2 => moved # {})
  BY <1>0, <1>1 DEF MayBecome
<1> QED
  BY <1>1, <1>2, <1>3 DEF Follows, Asked

LEMMA NextFollows ==
  TypeOK /\ LockIsHeld /\ PendingFollows /\ [Next]_vars => PendingFollows'
<1> SUFFICES ASSUME TypeOK, LockIsHeld, PendingFollows, [Next]_vars,
                    NEW u \in Tx
             PROVE  /\ tx'[u].pc = "locked" => Follows(tx[u].copy, tx[u].moved, tx[u].direct)'
                    /\ tx'[u].pc = "written" => Follows(tx[u].row, tx[u].moved, tx[u].direct)'
  BY DEF PendingFollows
<1> USE DEF PendingFollows
<1>0. tx \in [Tx -> Mem] /\ doc \in Row
  BY DEF TypeOK
<1>1. ASSUME governed' = governed, doc' = doc, tx'[u] = tx[u]
      PROVE  /\ tx'[u].pc = "locked" => Follows(tx[u].copy, tx[u].moved, tx[u].direct)'
             /\ tx'[u].pc = "written" => Follows(tx[u].row, tx[u].moved, tx[u].direct)'
  BY <1>1 DEF Follows
<1>2. ASSUME NEW t \in Tx, NEW copy \in Row, NEW dated \in BOOLEAN, NEW status \in Nat, NEW moved \in SUBSET Move,
             Locked(t, copy, dated, status, moved),
             Asked(copy, status, moved)
      PROVE  /\ tx'[u].pc = "locked" => Follows(tx[u].copy, tx[u].moved, tx[u].direct)'
             /\ tx'[u].pc = "written" => Follows(tx[u].row, tx[u].moved, tx[u].direct)'
  <2>0. tx'[t].pc = "locked" /\ tx'[t].moved = moved /\ ~tx'[t].direct
    BY <1>2, LockedTypes
  <2>1. governed' = governed /\ doc' = doc
    BY <1>2 DEF Locked
  <2>2. CASE u # t
    <3>1. tx'[u] = tx[u]
      BY <1>2, <2>2, LockedTypes
    <3> QED
      BY <1>1, <2>1, <3>1
  <2>3. CASE u = t
    <3>1. Follows(tx'[t].copy, moved, FALSE)
      BY <1>2, LockedFollows
    <3> QED
      BY <2>0, <2>1, <2>3, <3>1 DEF Follows
  <2> QED
    BY <2>2, <2>3
<1>3. ASSUME NEW t \in Tx, NEW dated \in BOOLEAN, NEW status \in 0..3, NEW state \in State,
             Save(t, dated, status, state)
      PROVE  /\ tx'[u].pc = "locked" => Follows(tx[u].copy, tx[u].moved, tx[u].direct)'
             /\ tx'[u].pc = "written" => Follows(tx[u].row, tx[u].moved, tx[u].direct)'
  <2>1. PICK copy : copy = [tx[t].copy EXCEPT !.state = state]
    OBVIOUS
  <2>2. copy \in Row /\ Locked(t, copy, dated, status, {}) /\ Untouched(copy, status)
    BY <1>3, <2>1, SentTypes DEF Save
  <2> QED
    BY <1>2, <2>2 DEF Untouched, Asked
<1>4. ASSUME NEW t \in Tx, NEW m \in Move, Apply(t, m)
      PROVE  /\ tx'[u].pc = "locked" => Follows(tx[u].copy, tx[u].moved, tx[u].direct)'
             /\ tx'[u].pc = "written" => Follows(tx[u].row, tx[u].moved, tx[u].direct)'
  <2>1. PICK copy : copy = [doc EXCEPT !.state = m[2]]
    OBVIOUS
  <2>2. copy \in Row /\ copy.state = m[2] /\ StatusOf[m[2]] \in Nat /\ {m} \in SUBSET Move
    BY <2>1, MoveTypes
  <2>3. Locked(t, copy, TRUE, StatusOf[m[2]], {m}) /\ governed /\ m[1] = doc.state
    BY <1>4, <2>1 DEF Apply
  <2>4. Asked(copy, StatusOf[m[2]], {m})
    BY <2>2, <2>3 DEF Asked
  <2> QED
    BY <1>2, <2>2, <2>3, <2>4
<1>5. ASSUME NEW t \in Tx, Open(t) \/ Setting(t) \/ Delete(t) \/ Rollback(t)
      PROVE  /\ tx'[u].pc = "locked" => Follows(tx[u].copy, tx[u].moved, tx[u].direct)'
             /\ tx'[u].pc = "written" => Follows(tx[u].row, tx[u].moved, tx[u].direct)'
  <2>1. governed' = governed /\ doc' = doc
    BY <1>5, OutsideLock
  <2>2. u # t => tx'[u] = tx[u]
    BY <1>5, OutsideLock
  <2>3. tx'[t].pc \notin {"locked", "written"}
    BY <1>5, OutsideLock
  <2>4. CASE u = t
    BY <2>3, <2>4
  <2> QED
    BY <1>1, <2>1, <2>2, <2>4
<1>6. ASSUME NEW t \in Tx, NEW status \in 0..2, NEW state \in State, Hook(t, status, state)
      PROVE  /\ tx'[u].pc = "locked" => Follows(tx[u].copy, tx[u].moved, tx[u].direct)'
             /\ tx'[u].pc = "written" => Follows(tx[u].row, tx[u].moved, tx[u].direct)'
  <2>1. governed' = governed /\ doc' = doc
    BY <1>6 DEF Hook
  <2>2. u # t => tx'[u] = tx[u]
    BY <1>0, <1>6 DEF Hook
  <2>3. PICK w : w = Owned(tx[t].row, status, state)
    OBVIOUS
  <2>0. tx[t].row \in Row /\ now \in Time /\ now < MaxTime
    BY <1>0, <1>6 DEF Hook, Mem, TypeOK
  <2>4. w.there = tx[t].row.there /\ w.status = status /\ w.state = state
    BY <2>0, <2>3, OwnRow, SMTT(30)
  <2>5. /\ tx'[t].pc = tx[t].pc /\ tx'[t].copy = tx[t].copy
        /\ tx'[t].moved = tx[t].moved /\ tx'[t].row = w
        /\ tx'[t].direct = (tx[t].direct \/ status # tx[t].row.status \/ state # tx[t].row.state)
    BY <1>0, <1>6, <2>3 DEF Hook, Mem, Owned
  <2>6. CASE u = t /\ tx[t].pc = "written"
    <3>1. Follows(tx[t].row, tx[t].moved, tx[t].direct)
      BY <2>6
    <3>2. Follows(w, tx[t].moved, tx'[t].direct)
      BY <2>4, <2>5, <3>1, ZenonT(60) DEF Follows
    <3> QED
      BY <2>1, <2>5, <2>6, <3>2 DEF Follows
  <2>7. CASE u = t /\ tx[t].pc # "written"
    <3>1. tx[t].pc = "locked" => Follows(tx[t].copy, tx[t].moved, tx[t].direct)
      BY <2>7
    <3>2. tx[t].pc = "locked" => Follows(tx[t].copy, tx[t].moved, tx'[t].direct)
      BY <2>5, <3>1 DEF Follows
    <3> QED
      BY <2>1, <2>5, <2>7, <3>2 DEF Follows
  <2> QED
    BY <1>1, <2>1, <2>2, <2>6, <2>7
<1>11. ASSUME NEW t \in Tx, NEW status \in 0..2, NEW state \in State, Assign(t, status, state)
      PROVE  /\ tx'[u].pc = "locked" => Follows(tx[u].copy, tx[u].moved, tx[u].direct)'
             /\ tx'[u].pc = "written" => Follows(tx[u].row, tx[u].moved, tx[u].direct)'
  <2>1. governed' = governed /\ doc' = doc /\ tx[t].pc = "locked"
    BY <1>11 DEF Assign
  <2>2. u # t => tx'[u] = tx[u]
    BY <1>0, <1>11 DEF Assign
  <2>3. PICK c : c = [tx[t].copy EXCEPT !.status = status, !.state = state]
    OBVIOUS
  <2>4. c.there = tx[t].copy.there
    BY <1>0, <2>3 DEF Mem, Row
  <2>5. tx'[t].pc = "locked" /\ tx'[t].moved = tx[t].moved /\ tx'[t].copy = c /\ tx'[t].direct
    BY <1>0, <1>11, <2>3 DEF Assign, Mem
  <2>6. CASE u = t
    BY <2>1, <2>4, <2>5, <2>6 DEF Follows
  <2> QED
    BY <1>1, <2>1, <2>2, <2>6
<1>7. ASSUME NEW t \in Tx, WriteUpdate(t)
      PROVE  /\ tx'[u].pc = "locked" => Follows(tx[u].copy, tx[u].moved, tx[u].direct)'
             /\ tx'[u].pc = "written" => Follows(tx[u].row, tx[u].moved, tx[u].direct)'
  <2>1. governed' = governed /\ doc' = doc /\ Follows(tx[t].copy, tx[t].moved, tx[t].direct)
    BY <1>7 DEF WriteUpdate
  <2>2. u # t => tx'[u] = tx[u]
    BY <1>0, <1>7 DEF WriteUpdate
  <2>3. /\ tx'[t].pc = "written" /\ tx'[t].row = tx[t].copy
        /\ tx'[t].moved = tx[t].moved /\ tx'[t].direct = tx[t].direct
    BY <1>0, <1>7 DEF WriteUpdate, Mem
  <2>4. CASE u = t
    BY <2>1, <2>3, <2>4 DEF Follows
  <2> QED
    BY <1>1, <2>1, <2>2, <2>4
<1>8. ASSUME NEW t \in Tx, SetColumns(t) \/ DeleteRow(t)
      PROVE  /\ tx'[u].pc = "locked" => Follows(tx[u].copy, tx[u].moved, tx[u].direct)'
             /\ tx'[u].pc = "written" => Follows(tx[u].row, tx[u].moved, tx[u].direct)'
  <2>1. governed' = governed /\ doc' = doc
    BY <1>8, TakesLock
  <2>2. u # t => tx'[u] = tx[u]
    BY <1>8, TakesLock
  <2>3. tx[t].moved = {}
    BY <1>8 DEF SetColumns, DeleteRow, LockIsHeld, Holding
  <2>4. /\ tx'[t].pc = "written" /\ tx'[t].moved = tx[t].moved
        /\ tx'[t].direct = tx[t].direct
        /\ tx'[t].row.there => doc.there
        /\ ~tx[t].direct => tx'[t].row.status = doc.status
        /\ tx'[t].row.state = doc.state
    BY <1>8, TakesLock
  <2>5. doc.status \in 0..2
    BY <1>0 DEF Row
  <2>6. CASE u = t
    BY <2>1, <2>3, <2>4, <2>5, <2>6 DEF Follows
  <2> QED
    BY <1>1, <2>1, <2>2, <2>6
<1>9. ASSUME NEW t \in Tx, Commit(t)
      PROVE  /\ tx'[u].pc = "locked" => Follows(tx[u].copy, tx[u].moved, tx[u].direct)'
             /\ tx'[u].pc = "written" => Follows(tx[u].row, tx[u].moved, tx[u].direct)'
  <2>1. tx'[u].pc \notin {"locked", "written"}
    BY <1>0, <1>9 DEF Commit, Idle, LockIsHeld, Holding
  <2> QED
    BY <2>1
<1>10. CASE Pass \/ UNCHANGED vars
  BY <1>1, <1>10, SMTT(30) DEF Pass, vars
<1> QED
  BY <1>3, <1>4, <1>5, <1>6, <1>7, <1>8, <1>9, <1>10, <1>11, NextCases

\* Only a commit changes the row or the trail.
LEMMA RowSteps ==
  ASSUME TypeOK, [Next]_vars
  PROVE  \/ UNCHANGED <<governed, doc, trail, overruled>>
         \/ \E t \in Tx : Commit(t)
<1>1. ASSUME NEW t \in Tx, NEW copy, NEW dated, NEW status, NEW moved,
             Locked(t, copy, dated, status, moved)
      PROVE  UNCHANGED <<governed, doc, trail, overruled>>
  BY <1>1 DEF Locked
<1>2. ASSUME NEW t \in Tx, NEW dated \in BOOLEAN, NEW status \in 0..3, NEW state \in State,
             Save(t, dated, status, state)
      PROVE  UNCHANGED <<governed, doc, trail, overruled>>
  BY <1>1, <1>2 DEF Save
<1>3. ASSUME NEW t \in Tx, NEW m \in Move, Apply(t, m)
      PROVE  UNCHANGED <<governed, doc, trail, overruled>>
  BY <1>1, <1>3 DEF Apply
<1>4. ASSUME NEW t \in Tx, NEW status \in 0..2, NEW state \in State,
             Hook(t, status, state) \/ Assign(t, status, state)
      PROVE  UNCHANGED <<governed, doc, trail, overruled>>
  BY <1>4 DEF Hook, Assign
<1>5. ASSUME NEW t \in Tx, Open(t) \/ Setting(t) \/ Delete(t) \/ Rollback(t)
                             \/ WriteUpdate(t) \/ SetColumns(t) \/ DeleteRow(t)
      PROVE  UNCHANGED <<governed, doc, trail, overruled>>
  BY <1>5 DEF Open, Setting, DBSet, Delete, Rollback, WriteUpdate, SetColumns, DeleteRow
<1>6. CASE Pass \/ UNCHANGED vars
  BY <1>6 DEF Pass, vars
<1> QED
  BY <1>2, <1>3, <1>4, <1>5, <1>6, NextCases

LEMMA NextTrail == MoveInv /\ [Next]_vars => TrailExplainsState'
<1> SUFFICES ASSUME MoveInv, [Next]_vars PROVE TrailExplainsState'
  OBVIOUS
<1> USE DEF MoveInv
<1>1. CASE UNCHANGED <<governed, doc, trail, overruled>>
  BY <1>1 DEF TrailExplainsState
<1>2. ASSUME NEW t \in Tx, Commit(t)
      PROVE  TrailExplainsState'
  <2> SUFFICES ASSUME governed, ~overruled, ~tx[t].direct PROVE TrailExplainsState'
    BY <1>2 DEF Commit, TrailExplainsState
  <2>0. Follows(tx[t].row, tx[t].moved, tx[t].direct)
    BY <1>2 DEF Commit, PendingFollows
  <2>1. Follows(tx[t].row, tx[t].moved, FALSE) /\ doc' = tx[t].row /\ governed'
    BY <1>2, <2>0 DEF Commit, Follows
  <2>2. CASE tx[t].moved = {}
    BY <1>2, <2>1, <2>2 DEF Commit, Follows, TrailExplainsState
  <2>3. CASE tx[t].moved # {}
    <3>1. PICK m : m = CHOOSE x \in tx[t].moved : TRUE
      OBVIOUS
    <3>2. m \in tx[t].moved /\ m \in Move
      BY <2>3, <3>1 DEF TypeOK, Mem
    <3>3. m[1] = doc.state /\ doc'.state = m[2] /\ doc'.status = StatusOf[m[2]]
      BY <2>1, <3>2 DEF Follows
    <3>4. trail' = Append(trail, m) /\ trail \in Seq(Move)
      BY <1>2, <2>3, <3>1 DEF Commit, TypeOK
    <3>5. Len(trail') = Len(trail) + 1 /\ trail'[Len(trail')] = m /\ trail' # <<>>
      BY <3>2, <3>4
    <3>6. \A i \in 1..Len(trail) : trail'[i] = trail[i]
      BY <3>2, <3>4
    <3>7. doc.state = IF trail = <<>> THEN Initial ELSE trail[Len(trail)][2]
      BY DEF TrailExplainsState
    <3>8. ASSUME NEW i \in 1..Len(trail')
          PROVE  trail'[i][1] = IF i = 1 THEN Initial ELSE trail'[i - 1][2]
      <4>1. CASE i \in 1..Len(trail)
        <5>1. i # 1 => i - 1 \in 1..Len(trail)
          BY <3>4, <4>1
        <5> QED
          BY <3>6, <4>1, <5>1 DEF TrailExplainsState
      <4>2. CASE i = Len(trail) + 1
        <5>1. CASE trail = <<>>
          BY <3>3, <3>4, <3>5, <3>7, <4>2, <5>1
        <5>2. CASE trail # <<>>
          <6>1. Len(trail) \in 1..Len(trail) /\ i - 1 = Len(trail) /\ i # 1
            BY <3>4, <4>2, <5>2
          <6> QED
            BY <3>3, <3>5, <3>6, <3>7, <4>2, <5>2, <6>1
        <5> QED
          BY <5>1, <5>2
      <4> QED
        BY <3>4, <3>5, <3>8, <4>1, <4>2
    <3> QED
      BY <3>3, <3>5, <3>8 DEF TrailExplainsState
  <2> QED
    BY <2>2, <2>3
<1> QED
  BY <1>1, <1>2, RowSteps

LEMMA InitMove == Init => MoveInv
<1> SUFFICES ASSUME Init PROVE MoveInv
  OBVIOUS
<1>1. TypeOK
  BY InitTypes
<1>2. \A t \in Tx : tx[t] = Idle /\ Idle.pc = "idle" /\ Idle.moved = {}
  BY DEF Init, Idle
<1>3. LockIsHeld /\ PendingFollows
  BY <1>2 DEF Init, LockIsHeld, Holding, PendingFollows
<1>4. TrailExplainsState
  BY WorkflowAssumption DEF Init, NewDoc, TrailExplainsState
<1> QED
  BY <1>1, <1>3, <1>4 DEF MoveInv

LEMMA NextMove == MoveInv /\ [Next]_vars => MoveInv'
BY NextTypes, NextLock, NextFollows, NextTrail DEF MoveInv

\* Under a workflow the audit trail is a path to the state the document is
\* in: no two requests decide the same state, and none decides unseen.
THEOREM TrailIsAPath == Spec => []TrailExplainsState
<1>1. MoveInv => TrailExplainsState
  BY DEF MoveInv
<1> QED
  BY <1>1, InitMove, NextMove, PTL DEF Spec

\* A commit that leaves docstatus and state to Save and ApplyWorkflow moves
\* docstatus forward only, and no commit brings a deleted document back.
THEOREM DocumentForwardOnly == Spec => ForwardOnly
<1> DEFINE Kept(t) ==
      /\ doc'.there => doc.there
      /\ tx[t].direct \/
           /\ doc.status <= doc'.status
           /\ (doc.status = 0 /\ doc'.status = 2) => governed
           /\ doc.status = 2 => (doc'.status = 2 /\ doc'.state = doc.state)
           /\ (governed /\ tx[t].moved = {}) =>
                doc'.status = doc.status /\ doc'.state = doc.state
<1>1. ASSUME MoveInv, [Next]_vars
      PROVE  [\E t \in holder : Kept(t)]_doc
  <2>1. CASE UNCHANGED <<governed, doc, trail, overruled>>
    BY <2>1
  <2>2. ASSUME NEW t \in Tx, Commit(t)
        PROVE  t \in holder /\ Kept(t)
    <3>1. doc' = tx[t].row /\ tx[t].pc = "written"
      BY <2>2 DEF Commit
    <3>2. Follows(tx[t].row, tx[t].moved, tx[t].direct) /\ t \in holder
      BY <1>1, <3>1 DEF MoveInv, PendingFollows, LockIsHeld, Holding
    <3> QED
      BY <3>1, <3>2 DEF Follows
  <2> QED
    BY <1>1, <2>1, <2>2, RowSteps DEF MoveInv
<1> QED
  BY <1>1, InitMove, NextMove, PTL DEF Spec, ForwardOnly

-----------------------------------------------------------------------------
(* Writes.                                                                 *)

\* A step whose transaction makes at most writes of its own instant.
LEMMA MadeStep ==
  ASSUME TypeOK, WritesAreNew, NEW t \in Tx,
         \A u \in Tx \ {t} : tx'[u] = tx[u],
         doc' = doc, now' \in Nat, now <= now', tx'[t].pc # "open",
         tx'[t].made \subseteq tx[t].made \cup ((now + 1)..now')
  PROVE  WritesAreNew'
<1>1. now \in Nat
  BY TimeAssumption DEF TypeOK, Time
<1>2. /\ 1..now \subseteq 1..now' /\ (0..now) \cap ((now + 1)..now') = {}
      /\ (now + 1)..now' \subseteq 1..now' /\ 0..now \subseteq 0..now' /\ 1..now \subseteq 0..now
  BY <1>1
<1>3. /\ doc.modified \in 0..now
      /\ \A u \in Tx : tx[u].made \subseteq (1..now) \ {doc.modified}
  BY DEF WritesAreNew
<1>4. \A u \in Tx : tx'[u].made \subseteq (1..now') \ {doc'.modified}
  BY <1>2, <1>3
<1>5. ASSUME NEW u \in Tx, NEW v \in Tx, u # v
      PROVE  tx'[u].made \cap tx'[v].made = {}
  BY <1>2, <1>3, <1>5 DEF WritesAreNew
<1>6. ASSUME NEW u \in Tx, tx'[u].pc = "open"
      PROVE  /\ tx'[u].copy.modified \in 0..now'
             /\ \A v \in Tx : tx'[u].copy.modified \notin tx'[v].made
  <2>1. u # t /\ tx'[u] = tx[u]
    BY <1>6
  <2>2. /\ tx[u].copy.modified \in 0..now
        /\ \A v \in Tx : tx[u].copy.modified \notin tx[v].made
    BY <1>6, <2>1 DEF WritesAreNew
  <2> QED
    BY <1>2, <2>1, <2>2
<1> QED
  BY <1>2, <1>3, <1>4, <1>5, <1>6 DEF WritesAreNew

LEMMA StampStep ==
  ASSUME TypeOK, now < MaxTime
  PROVE  /\ now \in Nat /\ Stamp \in Nat /\ now <= Stamp
         /\ {Stamp} = (now + 1)..Stamp /\ Stamp \in Time
BY TimeAssumption DEF TypeOK, Time, Stamp

\* The version a transaction commits has an instant that is new, or it is a
\* deletion.
LEMMA CommitsNewInstant ==
  ASSUME LostInv, NEW t \in Tx, Commit(t)
  PROVE  \/ doc'.modified \in tx[t].made
         \/ tx[t].made = {} /\ doc'.modified = doc.modified /\ doc'.holds = doc.holds
<1>1. doc' = tx[t].row /\ tx[t].pc = "written"
  BY DEF Commit
<1> QED
  BY <1>1 DEF LostInv, NothingBehind

LEMMA NextNew == LostInv /\ [Next]_vars => WritesAreNew'
<1> SUFFICES ASSUME LostInv, [Next]_vars PROVE WritesAreNew'
  OBVIOUS
<1>0. TypeOK /\ WritesAreNew /\ tx \in [Tx -> Mem] /\ now \in Nat /\ now <= now
  BY TimeAssumption DEF LostInv, TypeOK, Time
<1>1. ASSUME NEW t \in Tx, NEW copy \in Row, NEW dated \in BOOLEAN, NEW status \in Nat,
             NEW moved \in SUBSET Move, Locked(t, copy, dated, status, moved)
      PROVE  WritesAreNew'
  <2>1. doc' = doc /\ now' = Stamp /\ now < MaxTime
    BY <1>1 DEF Locked
  <2>2. tx'[t].made = {Stamp} /\ tx'[t].pc = "locked" /\ \A u \in Tx \ {t} : tx'[u] = tx[u]
    BY <1>0, <1>1, LockedTypes
  <2> QED
    BY <1>0, <2>1, <2>2, MadeStep, StampStep
<1>2. ASSUME NEW t \in Tx, NEW dated \in BOOLEAN, NEW status \in 0..3, NEW state \in State,
             Save(t, dated, status, state)
      PROVE  WritesAreNew'
  <2>1. PICK copy \in Row : Locked(t, copy, dated, status, {})
    BY <1>0, <1>2, SentTypes DEF Save
  <2> QED
    BY <1>1, <2>1
<1>3. ASSUME NEW t \in Tx, NEW m \in Move, Apply(t, m)
      PROVE  WritesAreNew'
  <2>1. PICK copy \in Row : Locked(t, copy, TRUE, StatusOf[m[2]], {m})
    BY <1>0, <1>3, MoveTypes DEF Apply
  <2> QED
    BY <1>0, <1>1, <2>1, MoveTypes
<1>4. ASSUME NEW t \in Tx, Open(t)
      PROVE  WritesAreNew'
  <2>1. /\ doc' = doc /\ now' = now /\ tx'[t].made = {} /\ tx'[t].copy = doc
        /\ \A u \in Tx \ {t} : tx'[u] = tx[u]
    <3>1. PICK n : n = [Idle EXCEPT !.pc = "open", !.copy = doc]
      OBVIOUS
    <3>2. n.made = {} /\ n.copy = doc
      BY <3>1 DEF Idle
    <3> QED
      BY <1>0, <1>4, <3>1, <3>2 DEF Open
  <2>2. \A u \in Tx : tx'[u].made \subseteq tx[u].made
    BY <2>1
  <2>3. ASSUME NEW u \in Tx, tx'[u].pc = "open"
        PROVE  /\ tx'[u].copy.modified \in 0..now'
               /\ \A v \in Tx : tx'[u].copy.modified \notin tx'[v].made
    <3>1. CASE u = t
      BY <1>0, <2>1, <2>2, <3>1 DEF WritesAreNew
    <3>2. CASE u # t
      BY <1>0, <2>1, <2>2, <2>3, <3>2 DEF WritesAreNew
    <3> QED
      BY <3>1, <3>2
  <2>4. \A u, v \in Tx : u # v => tx'[u].made \cap tx'[v].made = {}
    BY <1>0, <2>2 DEF WritesAreNew
  <2>5. \A u \in Tx : tx'[u].made \subseteq (1..now') \ {doc'.modified}
    BY <1>0, <2>1, <2>2 DEF WritesAreNew
  <2> QED
    BY <1>0, <2>1, <2>3, <2>4, <2>5 DEF WritesAreNew
<1>5. ASSUME NEW t \in Tx, Setting(t) \/ Delete(t) \/ Rollback(t)
      PROVE  WritesAreNew'
  <2>1. doc' = doc /\ \A u \in Tx \ {t} : tx'[u] = tx[u]
    BY <1>0, <1>5, OutsideLock
  <2>2. tx'[t].pc # "open"
    <3>1. CASE Setting(t)
      BY <1>0, <3>1 DEF Setting, DBSet, Idle
    <3>2. CASE Delete(t)
      BY <1>0, <3>2 DEF Delete, Idle
    <3>3. CASE Rollback(t)
      BY <1>0, <3>3 DEF Rollback, Idle
    <3> QED
      BY <1>5, <3>1, <3>2, <3>3
  <2>3. CASE tx'[t].pc = "setting"
    <3>1. tx'[t].made = {Stamp} /\ now' = Stamp /\ now < MaxTime
      BY <1>0, <1>5, <2>3, OutsideLock
    <3> QED
      BY <1>0, <2>1, <2>2, <3>1, MadeStep, StampStep
  <2>4. CASE tx'[t].pc # "setting"
    <3>1. tx'[t].made = {} /\ now' = now
      BY <1>0, <1>5, <2>4, OutsideLock
    <3> QED
      BY <1>0, <2>1, <2>2, <3>1, MadeStep
  <2> QED
    BY <2>3, <2>4
<1>6. ASSUME NEW t \in Tx, NEW status \in 0..2, NEW state \in State, Hook(t, status, state)
      PROVE  WritesAreNew'
  <2>1. doc' = doc /\ now' = Stamp /\ now < MaxTime
    BY <1>6 DEF Hook
  <2>2. /\ tx'[t].made = tx[t].made \cup {Stamp} /\ tx'[t].pc # "open"
        /\ \A u \in Tx \ {t} : tx'[u] = tx[u]
    BY <1>0, <1>6 DEF Hook, Mem
  <2> QED
    BY <1>0, <2>1, <2>2, MadeStep, StampStep
<1>7. ASSUME NEW t \in Tx, NEW status \in 0..2, NEW state \in State, Assign(t, status, state)
      PROVE  WritesAreNew'
  <2>1. doc' = doc /\ now' = now
    BY <1>7 DEF Assign
  <2>2. tx'[t].made = tx[t].made /\ tx'[t].pc # "open" /\ \A u \in Tx \ {t} : tx'[u] = tx[u]
    BY <1>0, <1>7 DEF Assign, Mem
  <2> QED
    BY <1>0, <2>1, <2>2, MadeStep
<1>8. ASSUME NEW t \in Tx, WriteUpdate(t) \/ SetColumns(t) \/ DeleteRow(t)
      PROVE  WritesAreNew'
  <2>1. doc' = doc /\ now' = now
    BY <1>8 DEF WriteUpdate, SetColumns, DeleteRow
  <2>2. tx'[t].made = tx[t].made /\ tx'[t].pc = "written" /\ \A u \in Tx \ {t} : tx'[u] = tx[u]
    <3>1. CASE WriteUpdate(t)
      BY <1>0, <3>1 DEF WriteUpdate, Mem
    <3> QED
      BY <1>0, <1>8, <3>1, TakesLock
  <2> QED
    BY <1>0, <2>1, <2>2, MadeStep
<1>9. ASSUME NEW t \in Tx, Commit(t)
      PROVE  WritesAreNew'
  <2>1. now' = now
    BY <1>9 DEF Commit
  <2>2. tx'[t].made = {} /\ tx'[t].pc = "idle" /\ \A u \in Tx \ {t} : tx'[u] = tx[u]
    BY <1>0, <1>9 DEF Commit, Idle
  <2>3. /\ doc'.modified \in 0..now
        /\ \A u \in Tx \ {t} : doc'.modified \notin tx[u].made
    <3>1. 1..now \subseteq 0..now
      BY <1>0
    <3>2. CASE doc'.modified \in tx[t].made
      BY <1>0, <3>1, <3>2 DEF WritesAreNew
    <3>3. CASE doc'.modified = doc.modified
      BY <1>0, <3>3 DEF WritesAreNew
    <3> QED
      BY <1>9, <3>2, <3>3, CommitsNewInstant
  <2>4. \A u \in Tx : tx'[u].made \subseteq (1..now') \ {doc'.modified}
    BY <1>0, <2>1, <2>2, <2>3 DEF WritesAreNew
  <2>5. \A u, v \in Tx : u # v => tx'[u].made \cap tx'[v].made = {}
    BY <1>0, <2>2 DEF WritesAreNew
  <2>6. ASSUME NEW u \in Tx, tx'[u].pc = "open"
        PROVE  /\ tx'[u].copy.modified \in 0..now'
               /\ \A v \in Tx : tx'[u].copy.modified \notin tx'[v].made
    BY <1>0, <2>1, <2>2, <2>6 DEF WritesAreNew
  <2> QED
    BY <2>1, <2>3, <2>4, <2>5, <2>6 DEF WritesAreNew
<1>10. CASE Pass
  <2>1. now' = now + 1 /\ doc' = doc /\ tx' = tx
    BY <1>10 DEF Pass
  <2>2. 1..now \subseteq 1..now' /\ 0..now \subseteq 0..now'
    BY <1>0, <2>1
  <2> QED
    BY <1>0, <2>1, <2>2 DEF WritesAreNew
<1>11. CASE UNCHANGED vars
  BY <1>0, <1>11 DEF vars, WritesAreNew
<1> QED
  BY <1>0, <1>2, <1>3, <1>4, <1>5, <1>6, <1>7, <1>8, <1>9, <1>10, <1>11, NextCases

LEMMA NextVersions == LostInv /\ [Next]_vars => CopiesAreVersions'
<1> SUFFICES ASSUME LostInv, [Next]_vars PROVE CopiesAreVersions'
  OBVIOUS
<1>0. TypeOK /\ tx \in [Tx -> Mem] /\ CopiesAreVersions
  BY DEF LostInv, TypeOK
<1>1. ASSUME NEW t \in Tx, doc' = doc, tx'[t].pc # "open",
             \A u \in Tx \ {t} : tx'[u] = tx[u]
      PROVE  CopiesAreVersions'
  BY <1>0, <1>1 DEF CopiesAreVersions
<1>2. ASSUME NEW t \in Tx, NEW copy \in Row, NEW dated \in BOOLEAN, NEW status \in Nat,
             NEW moved \in SUBSET Move, Locked(t, copy, dated, status, moved)
      PROVE  CopiesAreVersions'
  <2>1. tx'[t].pc = "locked" /\ \A u \in Tx \ {t} : tx'[u] = tx[u]
    BY <1>0, <1>2, LockedTypes
  <2>2. doc' = doc
    BY <1>2 DEF Locked
  <2> QED
    BY <1>1, <2>1, <2>2
<1>3. ASSUME NEW t \in Tx, NEW dated \in BOOLEAN, NEW status \in 0..3, NEW state \in State,
             Save(t, dated, status, state)
      PROVE  CopiesAreVersions'
  <2>1. PICK copy \in Row : Locked(t, copy, dated, status, {})
    BY <1>0, <1>3, SentTypes DEF Save
  <2> QED
    BY <1>2, <2>1
<1>4. ASSUME NEW t \in Tx, NEW m \in Move, Apply(t, m)
      PROVE  CopiesAreVersions'
  <2>1. PICK copy \in Row : Locked(t, copy, TRUE, StatusOf[m[2]], {m})
    BY <1>0, <1>4, MoveTypes DEF Apply
  <2> QED
    BY <1>0, <1>2, <2>1, MoveTypes
<1>5. ASSUME NEW t \in Tx, Open(t) \/ Setting(t) \/ Delete(t) \/ Rollback(t)
      PROVE  CopiesAreVersions'
  <2>1. tx'[t].pc = "open" => tx'[t].copy = doc
    BY <1>0, <1>5, OutsideLock
  <2>2. doc' = doc /\ \A u \in Tx \ {t} : tx'[u] = tx[u]
    BY <1>0, <1>5, OutsideLock
  <2> QED
    BY <1>0, <2>1, <2>2 DEF CopiesAreVersions
<1>6. ASSUME NEW t \in Tx, NEW status \in 0..2, NEW state \in State,
             Hook(t, status, state) \/ Assign(t, status, state)
      PROVE  CopiesAreVersions'
  <2>1. doc' = doc
    BY <1>6 DEF Hook, Assign
  <2>2. tx'[t].pc # "open" /\ \A u \in Tx \ {t} : tx'[u] = tx[u]
    BY <1>0, <1>6 DEF Hook, Assign, Mem
  <2> QED
    BY <1>1, <2>1, <2>2
<1>7. ASSUME NEW t \in Tx, WriteUpdate(t)
      PROVE  CopiesAreVersions'
  <2>1. doc' = doc
    BY <1>7 DEF WriteUpdate
  <2>2. tx'[t].pc # "open" /\ \A u \in Tx \ {t} : tx'[u] = tx[u]
    BY <1>0, <1>7 DEF WriteUpdate, Mem
  <2> QED
    BY <1>1, <2>1, <2>2
<1>8. ASSUME NEW t \in Tx, SetColumns(t) \/ DeleteRow(t)
      PROVE  CopiesAreVersions'
  BY <1>0, <1>1, <1>8, TakesLock
<1>9. ASSUME NEW t \in Tx, Commit(t)
      PROVE  CopiesAreVersions'
  <2>1. tx'[t].pc # "open" /\ \A u \in Tx \ {t} : tx'[u] = tx[u]
    BY <1>0, <1>9 DEF Commit, Idle
  <2>2. CASE doc'.modified \in tx[t].made
    <3>1. \A u \in Tx : tx[u].pc = "open" => tx[u].copy.modified # doc'.modified
      BY <2>2 DEF LostInv, WritesAreNew
    <3> QED
      BY <1>0, <2>1, <3>1 DEF CopiesAreVersions
  <2>3. CASE doc'.modified = doc.modified /\ doc'.holds = doc.holds
    BY <1>0, <2>1, <2>3 DEF CopiesAreVersions
  <2> QED
    BY <1>9, <2>2, <2>3, CommitsNewInstant
<1>10. CASE Pass \/ UNCHANGED vars
  BY <1>0, <1>10 DEF Pass, vars, CopiesAreVersions
<1> QED
  BY <1>0, <1>3, <1>4, <1>5, <1>6, <1>7, <1>8, <1>9, <1>10, NextCases

\* If the caller's copy has every write it does not waive, so does what Save
\* writes.
LEMMA LockedBehind ==
  ASSUME LostInv, NEW t \in Tx, NEW copy \in Row, NEW dated \in BOOLEAN, NEW status \in Nat,
         NEW moved \in SUBSET Move, Locked(t, copy, dated, status, moved),
         doc.holds \ Waived(copy, dated) \subseteq copy.holds
  PROVE  NothingBehind'
<1>1. TypeOK /\ NothingBehind
  BY DEF LostInv
<1>2. /\ tx'[t].pc = "locked" /\ tx'[t].base = doc.modified /\ tx'[t].row = doc
      /\ tx'[t].made = {Stamp} /\ tx'[t].copy.modified = Stamp
      /\ tx'[t].copy.holds = copy.holds \cup {Stamp}
      /\ tx'[t].waives = Waived(copy, dated)
      /\ \A u \in Tx \ {t} : tx'[u] = tx[u]
  BY <1>1, LockedTypes
<1>3. doc' = doc
  BY DEF Locked
<1>4. doc.holds \ tx'[t].waives \subseteq tx'[t].copy.holds
  BY <1>2
<1> QED
  BY <1>1, <1>2, <1>3, <1>4 DEF NothingBehind

\* A step that leaves the row alone, and the transaction too or not holding.
LEMMA BehindAlike ==
  ASSUME NothingBehind, NEW t \in Tx, doc' = doc,
         \A u \in Tx \ {t} : tx'[u] = tx[u],
         tx'[t].pc \notin {"locked", "written"},
         tx'[t].pc = "setting" => \E m \in Time : tx'[t].made = {m},
         tx'[t].pc = "deleting" => tx'[t].made = {}
  PROVE  NothingBehind'
BY DEF NothingBehind

\* What a comparison of "modified" at the precision of a copy still lets
\* through is waived.
LEMMA ComparedOrWaived ==
  ASSUME LostInv, NEW t \in Tx, tx[t].pc = "open", NEW copy, NEW dated \in BOOLEAN,
         copy.holds = tx[t].copy.holds, copy.modified = tx[t].copy.modified,
         dated => SameTime(copy.modified, doc.modified)
  PROVE  doc.holds \ Waived(copy, dated) \subseteq copy.holds
<1>1. CASE dated /\ copy.modified = doc.modified
  BY <1>1 DEF LostInv, CopiesAreVersions
<1>2. CASE ~(dated /\ copy.modified = doc.modified)
  <2>1. Waived(copy, dated) = doc.holds \ copy.holds
    BY <1>2 DEF Waived, SameTime
  <2> QED
    BY <2>1
<1> QED
  BY <1>1, <1>2

LEMMA NextBehind == LostInv /\ [Next]_vars => NothingBehind'
<1> SUFFICES ASSUME LostInv, [Next]_vars PROVE NothingBehind'
  OBVIOUS
<1>0. /\ TypeOK /\ tx \in [Tx -> Mem] /\ LockIsHeld /\ WritesAreNew /\ CopiesAreVersions
      /\ NothingBehind
  BY DEF LostInv, TypeOK
<1>1. ASSUME NEW t \in Tx, NEW dated \in BOOLEAN, NEW status \in 0..3, NEW state \in State,
             Save(t, dated, status, state)
      PROVE  NothingBehind'
  <2>1. PICK copy : copy = [tx[t].copy EXCEPT !.state = state]
    OBVIOUS
  <2>2. /\ copy \in Row /\ Locked(t, copy, dated, status, {}) /\ tx[t].pc = "open"
        /\ copy.holds = tx[t].copy.holds /\ copy.modified = tx[t].copy.modified
    BY <1>0, <1>1, <2>1, SentTypes DEF Save
  <2>3. doc.holds \ Waived(copy, dated) \subseteq copy.holds
    BY <2>2, ComparedOrWaived DEF Locked
  <2>4. status \in Nat
    OBVIOUS
  <2> QED
    BY <2>2, <2>3, <2>4, LockedBehind
<1>2. ASSUME NEW t \in Tx, NEW m \in Move, Apply(t, m)
      PROVE  NothingBehind'
  <2>1. PICK copy : copy = [doc EXCEPT !.state = m[2]]
    OBVIOUS
  <2>2. /\ copy \in Row /\ copy.holds = doc.holds
        /\ StatusOf[m[2]] \in Nat /\ {m} \in SUBSET Move
    BY <1>0, <2>1, MoveTypes
  <2>3. Locked(t, copy, TRUE, StatusOf[m[2]], {m})
    BY <1>2, <2>1 DEF Apply
  <2>4. doc.holds \ Waived(copy, TRUE) \subseteq copy.holds
    BY <2>2
  <2> QED
    BY <2>2, <2>3, <2>4, LockedBehind
<1>3. ASSUME NEW t \in Tx, Open(t) \/ Setting(t) \/ Delete(t) \/ Rollback(t)
      PROVE  NothingBehind'
  <2>1. /\ doc' = doc /\ \A u \in Tx \ {t} : tx'[u] = tx[u]
        /\ tx'[t].pc \notin {"locked", "written"}
        /\ tx'[t].pc = "setting" => tx'[t].made = {Stamp} /\ now < MaxTime
        /\ tx'[t].pc = "deleting" => tx'[t].made = {}
    BY <1>0, <1>3, OutsideLock
  <2>2. tx'[t].pc = "setting" => \E m \in Time : tx'[t].made = {m}
    BY <1>0, <2>1, StampStep
  <2> QED
    BY <1>0, <2>1, <2>2, BehindAlike
<1>5. ASSUME NEW t \in Tx, NEW status \in 0..2, NEW state \in State, Hook(t, status, state)
      PROVE  NothingBehind'
  <2>1. doc' = doc /\ now < MaxTime /\ tx[t].row \in Row
    BY <1>0, <1>5 DEF Hook, Mem
  <2>2. PICK w : w = Owned(tx[t].row, status, state)
    OBVIOUS
  <2>0. now \in Time
    BY <1>0 DEF TypeOK
  <2>10. Stamp \notin 0..now
    BY <2>0, <2>1, WrittenRow
  <2>3. w.modified = Stamp /\ w.holds = tx[t].row.holds \cup {Stamp} /\ Stamp \notin 0..now
    BY <2>0, <2>1, <2>2, <2>10, OwnRow
  <2>4. /\ tx'[t].pc = tx[t].pc /\ tx'[t].copy = tx[t].copy /\ tx'[t].base = tx[t].base
        /\ tx'[t].made = tx[t].made \cup {Stamp} /\ tx'[t].row = w
        /\ tx'[t].waives = tx[t].waives /\ \A u \in Tx \ {t} : tx'[u] = tx[u]
    BY <1>0, <1>5, <2>2 DEF Hook, Mem, Owned
  <2>5. doc.modified \in 0..now
    BY <1>0 DEF WritesAreNew
  <2>6. tx'[t].pc = "locked" => tx'[t].row.modified # tx'[t].base
    BY <1>0, <2>3, <2>4, <2>5, ZenonT(60) DEF NothingBehind
  <2>7. tx'[t].pc \in {"locked", "written"}
    BY <1>5, <2>4 DEF Hook
  <2>8. tx[t].pc = "locked" => /\ tx[t].base = doc.modified
                               /\ tx[t].copy.modified \in tx[t].made
                               /\ doc.holds \ tx[t].waives \subseteq tx[t].copy.holds
    BY <1>0 DEF NothingBehind
  <2>9. tx[t].pc = "written" => /\ doc.holds \ tx[t].waives \subseteq tx[t].row.holds
                                /\ tx[t].made \subseteq tx[t].row.holds
    BY <1>0 DEF NothingBehind
  <2> QED
    BY <1>0, <2>1, <2>3, <2>4, <2>6, <2>7, <2>8, <2>9 DEF NothingBehind
<1>4. ASSUME NEW t \in Tx, NEW status \in 0..2, NEW state \in State, Assign(t, status, state)
      PROVE  NothingBehind'
  <2>1. doc' = doc /\ tx[t].pc = "locked"
    BY <1>4 DEF Assign
  <2>2. PICK c : c = [tx[t].copy EXCEPT !.status = status, !.state = state]
    OBVIOUS
  <2>3. c.modified = tx[t].copy.modified /\ c.holds = tx[t].copy.holds
    BY <1>0, <2>2 DEF Mem, Row
  <2>4. /\ tx'[t].pc = "locked" /\ tx'[t].copy = c /\ tx'[t].base = tx[t].base
        /\ tx'[t].made = tx[t].made /\ tx'[t].row = tx[t].row
        /\ tx'[t].waives = tx[t].waives /\ \A u \in Tx \ {t} : tx'[u] = tx[u]
    BY <1>0, <1>4, <2>1, <2>2 DEF Assign, Mem
  <2> QED
    BY <1>0, <2>1, <2>3, <2>4 DEF NothingBehind
<1>6. ASSUME NEW t \in Tx, WriteUpdate(t)
      PROVE  NothingBehind'
  <2>1. doc' = doc /\ tx[t].pc = "locked" /\ tx[t].row.modified = tx[t].base
    BY <1>6 DEF WriteUpdate
  <2>2. /\ tx'[t].pc = "written" /\ tx'[t].row = tx[t].copy /\ tx'[t].made = tx[t].made
        /\ tx'[t].waives = tx[t].waives /\ \A u \in Tx \ {t} : tx'[u] = tx[u]
    BY <1>0, <1>6 DEF WriteUpdate, Mem
  <2> QED
    BY <1>0, <2>1, <2>2 DEF NothingBehind
<1>7. ASSUME NEW t \in Tx, SetColumns(t)
      PROVE  NothingBehind'
  <2>1. /\ doc' = doc /\ tx'[t].pc = "written"
        /\ tx'[t].made = tx[t].made /\ \A u \in Tx \ {t} : tx'[u] = tx[u]
    BY <1>0, <1>7, TakesLock
  <2>2. PICK m \in tx[t].made : tx'[t].row.modified = m /\ tx'[t].row.holds = doc.holds \cup {m}
    BY <1>0, <1>7, TakesLock
  <2>3. tx[t].made = {m}
    BY <1>0, <1>7, <2>2 DEF SetColumns, NothingBehind
  <2> QED
    BY <1>0, <2>1, <2>2, <2>3 DEF NothingBehind
<1>8. ASSUME NEW t \in Tx, DeleteRow(t)
      PROVE  NothingBehind'
  <2>1. /\ doc' = doc /\ tx'[t].pc = "written"
        /\ tx'[t].made = tx[t].made /\ \A u \in Tx \ {t} : tx'[u] = tx[u]
        /\ ~tx'[t].row.there /\ tx'[t].row.modified = doc.modified
        /\ tx'[t].row.holds = doc.holds
    BY <1>0, <1>8, TakesLock
  <2>2. tx[t].made = {}
    BY <1>0, <1>8 DEF DeleteRow, NothingBehind
  <2> QED
    BY <1>0, <2>1, <2>2 DEF NothingBehind
<1>9. ASSUME NEW t \in Tx, Commit(t)
      PROVE  NothingBehind'
  <2>1. tx'[t] = Idle /\ Idle.pc = "idle" /\ \A u \in Tx \ {t} : tx'[u] = tx[u]
    BY <1>0, <1>9 DEF Commit, Idle
  <2>2. \A u \in Tx \ {t} : tx[u].pc \notin {"locked", "written"}
    BY <1>0, <1>9 DEF Commit, LockIsHeld, Holding
  <2> QED
    BY <1>0, <2>1, <2>2 DEF NothingBehind
<1>10. CASE Pass \/ UNCHANGED vars
  <2>1. doc' = doc /\ tx' = tx
    BY <1>10 DEF Pass, vars
  <2> QED
    BY <1>0, <2>1 DEF NothingBehind
<1> QED
  BY <1>0, <1>1, <1>2, <1>3, <1>4, <1>5, <1>6, <1>7, <1>8, <1>9, <1>10, NextCases

LEMMA NextLost == LostInv /\ [Next]_vars => LostInv'
BY NextTypes, NextLock, NextNew, NextVersions, NextBehind DEF LostInv

LEMMA InitLost == Init => LostInv
<1> SUFFICES ASSUME Init PROVE LostInv
  OBVIOUS
<1>1. \A t \in Tx : tx[t].pc = "idle" /\ tx[t].made = {} /\ tx[t].moved = {}
  BY DEF Init, Idle
<1>2. doc.modified = 0 /\ now = 0 /\ holder = {}
  BY DEF Init, NewDoc
<1>3. LockIsHeld /\ WritesAreNew /\ CopiesAreVersions /\ NothingBehind
  BY <1>1, <1>2 DEF LockIsHeld, Holding, WritesAreNew, CopiesAreVersions, NothingBehind
<1> QED
  BY <1>3, InitTypes DEF LostInv

\* A commit keeps every write in the document and adds its own, except for the
\* writes that its save had no way to notice.
THEOREM NoWriteIsLost == Spec => NothingLost
<1>1. ASSUME LostInv, [Next]_vars
      PROVE  [ \E t \in holder : /\ doc.holds \ tx[t].waives \subseteq doc'.holds
                                 /\ tx[t].made \subseteq doc'.holds ]_doc
  <2>1. CASE UNCHANGED <<governed, doc, trail, overruled>>
    BY <2>1
  <2>2. ASSUME NEW t \in Tx, Commit(t)
        PROVE  /\ t \in holder
               /\ doc.holds \ tx[t].waives \subseteq doc'.holds
               /\ tx[t].made \subseteq doc'.holds
    <3>1. doc' = tx[t].row /\ tx[t].pc = "written"
      BY <2>2 DEF Commit
    <3>2. t \in holder
      BY <1>1, <3>1 DEF LostInv, LockIsHeld, Holding
    <3> QED
      BY <1>1, <3>1, <3>2 DEF LostInv, NothingBehind
  <2> QED
    BY <1>1, <2>1, <2>2, RowSteps DEF LostInv
<1> QED
  BY <1>1, InitLost, NextLost, PTL DEF Spec, NothingLost
=============================================================================

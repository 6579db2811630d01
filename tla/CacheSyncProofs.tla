------------------------- MODULE CacheSyncProofs -------------------------
(***************************************************************************)
(* That the process cache never keeps what a commit replaced, for any       *)
(* number of processes, reads, writes and lost connections.                 *)
(*                                                                         *)
(* A commit leaves no process synced: it puts a notification in the inbox   *)
(* of every connection that listens, and the others must come back through  *)
(* Ready.  A process becomes synced again only by a removal, which empties  *)
(* its cache and spoils every read it has in flight; so what it then serves *)
(* was read after the last commit.                                          *)
(***************************************************************************)
EXTENDS CacheSync, FiniteSetTheorems, TLAPS

\* A fresh read of a synced process found the row, or a value not committed.
ReadsAreCurrent ==
  entry.guarded =>
    \A l \in Load :
      load[l].pc \in {"got", "own"} /\ load[l].fresh /\ Synced(load[l].proc)
        => {load[l].value} \cap committed \subseteq {row}

\* One transaction at a time has the row, and its value is new.
OneWriter ==
  /\ \A p, q \in Proc : tx[p].pc = "wrote" /\ tx[q].pc = "wrote" => p = q
  /\ \A p \in Proc : tx[p].pc = "wrote" => tx[p].value \in (0..writes) \ committed
  /\ committed \subseteq 0..writes

IInv == TypeOK /\ OneWriter /\ SupersededIsGone /\ ReadsAreCurrent

-----------------------------------------------------------------------------
(* The initial states satisfy the invariant.                               *)
LEMMA InitInv == Init => IInv
<1> SUFFICES ASSUME Init PROVE IInv
  OBVIOUS
<1> USE BoundsAssumption, EntriesAssumption DEF Init
<1>1. TypeOK
  <2>1. 0 \in Value
    BY DEF Value
  <2>2. cache \in [Proc -> SUBSET Value] /\ \A p \in Proc : Cardinality(cache[p]) <= 1
    BY FS_EmptySet
  <2>3. load \in [Load -> Reading]
    BY <2>1 DEF Reading
  <2> QED
    BY <2>1, <2>2, <2>3 DEF TypeOK, Tx, NoTx, Value
<1>2. OneWriter
  BY DEF OneWriter, NoTx
<1>3. SupersededIsGone /\ ReadsAreCurrent
  BY DEF SupersededIsGone, ReadsAreCurrent, Reading
<1> QED
  BY <1>1, <1>2, <1>3 DEF IInv

-----------------------------------------------------------------------------
(* A removal keeps the types, empties the cache and spoils the reads.      *)
LEMMA RemoveTypes ==
  ASSUME TypeOK, NEW p \in Proc, Remove(p)
  PROVE  /\ cache' \in [Proc -> SUBSET Value]
         /\ \A q \in Proc : Cardinality(cache'[q]) <= 1
         /\ load' \in [Load -> Reading]
         /\ cache'[p] = {} /\ \A q \in Proc \ {p} : cache'[q] = cache[q]
         /\ \A l \in Load : /\ load'[l].pc = load[l].pc /\ load'[l].proc = load[l].proc
                            /\ load'[l].value = load[l].value
                            /\ load'[l].fresh = (load[l].fresh /\ load[l].proc # p)
<1>1. /\ cache' \in [Proc -> SUBSET Value]
      /\ cache'[p] = {} /\ \A q \in Proc \ {p} : cache'[q] = cache[q]
  BY DEF Remove, TypeOK
<1>2. \A q \in Proc : Cardinality(cache'[q]) <= 1
  BY <1>1, FS_EmptySet DEF TypeOK
<1>3. ASSUME NEW l \in Load
      PROVE  /\ load'[l] \in Reading
             /\ load'[l].pc = load[l].pc /\ load'[l].proc = load[l].proc
             /\ load'[l].value = load[l].value
             /\ load'[l].fresh = (load[l].fresh /\ load[l].proc # p)
  <2>1. load[l] \in Reading
    BY DEF TypeOK
  <2>2. load'[l] = IF load[l].proc = p THEN [load[l] EXCEPT !.fresh = FALSE] ELSE load[l]
    BY DEF Remove
  <2>3. CASE load[l].proc = p
    BY <2>1, <2>2, <2>3 DEF Reading
  <2>4. CASE load[l].proc # p
    BY <2>1, <2>2, <2>4 DEF Reading
  <2> QED
    BY <2>3, <2>4
<1>4. load' \in [Load -> Reading]
  BY <1>3 DEF Remove
<1> QED
  BY <1>1, <1>2, <1>3, <1>4

(* Every step keeps the types.                                             *)
LEMMA NextTypes ==
  ASSUME TypeOK, [Next]_vars
  PROVE  TypeOK'
<1> USE BoundsAssumption
<1>1. ASSUME NEW l \in Load, NEW p \in Proc, Miss(l, p)
      PROVE  TypeOK'
  <2>1. [pc |-> "miss", proc |-> p, value |-> 0, fresh |-> TRUE] \in Reading
    BY DEF Reading, Value
  <2> QED
    BY <1>1, <2>1 DEF Miss, TypeOK
<1>2. ASSUME NEW l \in Load, Read(l)
      PROVE  TypeOK'
  <2>1. load[l] \in Reading /\ row \in Value
    BY DEF TypeOK
  <2>2. [load[l] EXCEPT !.pc = "got", !.value = row] \in Reading
    BY <2>1 DEF Reading
  <2>3. load' \in [Load -> Reading]
    BY <1>2, <2>2 DEF Read, TypeOK
  <2> QED
    BY <1>2, <2>3 DEF Read, TypeOK
<1>3. ASSUME NEW l \in Load, ReadOwn(l)
      PROVE  TypeOK'
  <2>1. load[l] \in Reading
    BY DEF TypeOK
  <2>2. tx[load[l].proc].value \in Value
    BY <2>1 DEF TypeOK, Tx, Reading
  <2>3. load' \in [Load -> Reading]
    BY <1>3, <2>1, <2>2 DEF ReadOwn, TypeOK, Reading
  <2> QED
    BY <1>3, <2>3 DEF ReadOwn, TypeOK
<1>4. ASSUME NEW l \in Load, Store(l)
      PROVE  TypeOK'
  <2>1. load[l] \in Reading
    BY DEF TypeOK
  <2>2. load' \in [Load -> Reading]
    BY <1>4, <2>1 DEF Store, TypeOK, Reading
  <2>3. load[l].value \in Value /\ load[l].proc \in Proc
    BY <2>1 DEF Reading
  <2>4. cache' \in [Proc -> SUBSET Value]
    BY <1>4, <2>3 DEF Store, TypeOK
  <2>5. \A q \in Proc : cache'[q] = cache[q] \/ cache'[q] = {load[l].value}
    BY <1>4 DEF Store, TypeOK
  <2>6. Cardinality({load[l].value}) = 1
    BY FS_Singleton
  <2>7. \A q \in Proc : Cardinality(cache'[q]) <= 1
    <3> SUFFICES ASSUME NEW q \in Proc PROVE Cardinality(cache'[q]) <= 1
      OBVIOUS
    <3>1. CASE cache'[q] = cache[q]
      BY <3>1 DEF TypeOK
    <3>2. CASE cache'[q] = {load[l].value}
      BY <2>6, <3>2
    <3> QED
      BY <2>5, <3>1, <3>2
  <2> QED
    BY <1>4, <2>2, <2>4, <2>7 DEF Store, TypeOK
<1>5. ASSUME NEW p \in Proc, Expire(p)
      PROVE  TypeOK'
  <2>1. /\ cache' \in [Proc -> SUBSET Value]
        /\ \A q \in Proc : cache'[q] = cache[q] \/ cache'[q] = {}
    BY <1>5 DEF Expire, TypeOK
  <2>2. \A q \in Proc : Cardinality(cache'[q]) <= 1
    <3> SUFFICES ASSUME NEW q \in Proc PROVE Cardinality(cache'[q]) <= 1
      OBVIOUS
    <3>1. CASE cache'[q] = cache[q]
      BY <3>1 DEF TypeOK
    <3>2. CASE cache'[q] = {}
      BY <3>2, FS_EmptySet
    <3> QED
      BY <2>1, <3>1, <3>2
  <2> QED
    BY <1>5, <2>1, <2>2 DEF Expire, TypeOK
<1>6. ASSUME NEW p \in Proc, NEW late \in entry.late, Write(p, late)
      PROVE  TypeOK'
  <2>1. writes + 1 \in Value
    BY <1>6 DEF Write, TypeOK, Value
  <2>2. tx' \in [Proc -> Tx] /\ writes' \in Value
    <3>1. late \in BOOLEAN
      BY <1>6 DEF TypeOK, Kind
    <3>2. [pc |-> "wrote", value |-> writes + 1, late |-> late] \in Tx
      BY <2>1, <3>1 DEF Tx
    <3> QED
      BY <1>6, <2>1, <3>2 DEF Write, TypeOK
  <2>3. CASE ~late
    <3>1. Remove(p)
      BY <1>6, <2>3 DEF Write
    <3> QED
      BY <1>6, <2>2, <3>1, RemoveTypes DEF Write, TypeOK
  <2>4. CASE late
    BY <1>6, <2>2, <2>4 DEF Write, TypeOK
  <2> QED
    BY <2>3, <2>4
<1>7. ASSUME NEW p \in Proc, Commit(p)
      PROVE  TypeOK'
  <2>1. tx[p] \in Tx /\ tx[p].value \in Value /\ NoTx \in Tx
    BY DEF TypeOK, Tx, NoTx, Value
  <2>2. (IF tx[p].late THEN [tx[p] EXCEPT !.pc = "committed"] ELSE NoTx) \in Tx
    BY <2>1 DEF Tx
  <2>3. tx' \in [Proc -> Tx]
    BY <1>7, <2>2 DEF Commit, TypeOK
  <2>4. inbox' \in [Proc -> Nat]
    BY <1>7 DEF Commit, Notified, TypeOK
  <2> QED
    BY <1>7, <2>1, <2>3, <2>4 DEF Commit, TypeOK
<1>8. ASSUME NEW p \in Proc, AfterCommit(p) \/ Rollback(p)
      PROVE  TypeOK'
  <2>0. NoTx \in Tx
    BY DEF NoTx, Tx, Value
  <2>1. tx' \in [Proc -> Tx]
    BY <1>8, <2>0 DEF AfterCommit, Rollback, TypeOK
  <2>2. CASE AfterCommit(p)
    <3>1. Remove(p)
      BY <2>2 DEF AfterCommit
    <3> QED
      BY <2>1, <2>2, <3>1, RemoveTypes DEF AfterCommit, TypeOK
  <2>3. CASE Rollback(p)
    BY <2>1, <2>3 DEF Rollback, TypeOK
  <2> QED
    BY <1>8, <2>2, <2>3
<1>9. ASSUME NEW p \in Proc, Listen(p) \/ Lose(p)
      PROVE  TypeOK'
  BY <1>9 DEF Listen, Lose, TypeOK
<1>10. ASSUME NEW p \in Proc, Ready(p) \/ Deliver(p)
       PROVE  TypeOK'
  <2>1. Remove(p)
    BY <1>10 DEF Ready, Deliver
  <2>2. link' \in [Proc -> {"down", "listening", "ready"}]
    BY <1>10 DEF Ready, Deliver, TypeOK
  <2>3. inbox' \in [Proc -> Nat]
    BY <1>10 DEF Ready, Deliver, TypeOK
  <2> QED
    BY <1>10, <2>1, <2>2, <2>3, RemoveTypes DEF Ready, Deliver, TypeOK
<1>11. CASE UNCHANGED vars
  BY <1>11 DEF vars, TypeOK
<1> QED
  BY <1>1, <1>2, <1>3, <1>4, <1>5, <1>6, <1>7, <1>8, <1>9, <1>10, <1>11
  DEF Next, LoadStep, ProcStep, TxEnds

-----------------------------------------------------------------------------
(* Every step keeps one writer with a new value.                           *)
LEMMA NextOneWriter ==
  ASSUME TypeOK, OneWriter, [Next]_vars
  PROVE  OneWriter'
<1>1. ASSUME NEW p \in Proc, NEW late \in entry.late, Write(p, late)
      PROVE  OneWriter'
  <2>1. tx'[p].pc = "wrote" /\ tx'[p].value = writes + 1 /\ committed' = committed /\ writes' = writes + 1
    BY <1>1 DEF Write, TypeOK
  <2>2. \A q \in Proc \ {p} : tx'[q] = tx[q] /\ tx[q].pc # "wrote"
    BY <1>1 DEF Write, TypeOK
  <2>3. writes \in Nat /\ writes + 1 \notin committed /\ committed \subseteq 0..(writes + 1)
    BY BoundsAssumption DEF OneWriter, TypeOK, Value
  <2> QED
    BY <2>1, <2>2, <2>3 DEF OneWriter
<1>2. ASSUME NEW p \in Proc, Commit(p)
      PROVE  OneWriter'
  <2>1. tx'[p].pc # "wrote"
    BY <1>2 DEF Commit, TypeOK, NoTx, Tx
  <2>2. \A q \in Proc \ {p} : tx'[q] = tx[q] /\ tx[q].pc # "wrote"
    BY <1>2 DEF Commit, Ending, OneWriter, TypeOK
  <2>3. tx[p].value \in 0..writes
    BY <1>2 DEF Commit, Ending, OneWriter
  <2> QED
    BY <1>2, <2>1, <2>2, <2>3 DEF OneWriter, Commit
<1>3. ASSUME NEW p \in Proc, AfterCommit(p) \/ Rollback(p)
      PROVE  OneWriter'
  <2>1. tx'[p].pc # "wrote" /\ \A q \in Proc \ {p} : tx'[q] = tx[q]
    BY <1>3 DEF AfterCommit, Rollback, TypeOK, NoTx
  <2>2. committed' = committed /\ writes' = writes
    BY <1>3 DEF AfterCommit, Rollback
  <2> QED
    BY <2>1, <2>2 DEF OneWriter
<1>4. CASE UNCHANGED <<tx, committed, writes>>
  BY <1>4 DEF OneWriter
<1>5. ASSUME NEW l \in Load, LoadStep(l) \/ \E p \in Proc : Miss(l, p)
      PROVE  UNCHANGED <<tx, committed, writes>>
  BY <1>5 DEF LoadStep, Read, ReadOwn, Store, Miss
<1>6. ASSUME NEW p \in Proc, Listen(p) \/ Ready(p) \/ Deliver(p) \/ Expire(p) \/ Lose(p)
      PROVE  UNCHANGED <<tx, committed, writes>>
  BY <1>6 DEF Listen, Ready, Deliver, Expire, Lose
<1> QED
  BY <1>1, <1>2, <1>3, <1>4, <1>5, <1>6 DEF Next, ProcStep, TxEnds, vars

-----------------------------------------------------------------------------
(* Every step keeps the two claims about what is current.  Three lemmas     *)
(* cover the kinds of step: one that removes, one that leaves the rows and  *)
(* the caches alone, and the commit.                                        *)

\* What p serves and is about to serve was not replaced.
Current(p) ==
  Synced(p) =>
    /\ cache[p] \cap committed \subseteq {row}
    /\ \A l \in Load : load[l].proc = p /\ load[l].pc \in {"got", "own"} /\ load[l].fresh
                         => {load[l].value} \cap committed \subseteq {row}

\* A removal in p makes p current, and leaves the other processes as they were.
LEMMA RemoveCurrent ==
  ASSUME TypeOK, NEW p \in Proc, Remove(p), row' = row, committed' = committed,
         \A q \in Proc : Current(q),
         \A q \in Proc \ {p} : Synced(q)' => Synced(q)
  PROVE  \A q \in Proc : Current(q)'
<1> SUFFICES ASSUME NEW q \in Proc PROVE Current(q)'
  OBVIOUS
<1>0. /\ cache'[p] = {} /\ \A r \in Proc \ {p} : cache'[r] = cache[r]
      /\ \A l \in Load : /\ load'[l].pc = load[l].pc /\ load'[l].proc = load[l].proc
                         /\ load'[l].value = load[l].value
                         /\ load'[l].fresh = (load[l].fresh /\ load[l].proc # p)
  BY RemoveTypes
<1>1. CASE q = p
  BY <1>0, <1>1 DEF Current
<1>2. CASE q # p
  <2> SUFFICES ASSUME Synced(q)'
               PROVE  /\ cache'[q] \cap committed' \subseteq {row'}
                      /\ \A l \in Load : load'[l].proc = q /\ load'[l].pc \in {"got", "own"} /\ load'[l].fresh
                           => {load'[l].value} \cap committed' \subseteq {row'}
    BY DEF Current
  <2>1. Synced(q)
    BY <1>2
  <2>2. cache'[q] = cache[q]
    BY <1>0, <1>2
  <2>3. ASSUME NEW l \in Load, load'[l].proc = q, load'[l].pc \in {"got", "own"}, load'[l].fresh
        PROVE  {load[l].value} \cap committed \subseteq {row}
    <3>1. load[l].proc = q /\ load[l].pc \in {"got", "own"} /\ load[l].fresh
      BY <1>0, <2>3
    <3> QED
      BY <2>1, <3>1 DEF Current
  <2> QED
    BY <1>0, <2>1, <2>2, <2>3 DEF Current
<1> QED
  BY <1>1, <1>2

\* A step of a process or a connection that removes nothing.
LEMMA QuietCurrent ==
  ASSUME UNCHANGED <<row, committed, cache, load>>,
         \A q \in Proc : Current(q),
         \A q \in Proc : Synced(q)' => Synced(q)
  PROVE  \A q \in Proc : Current(q)'
BY DEF Current

\* An entry stays what it is of.
LEMMA EntryStays ==
  ASSUME [Next]_vars
  PROVE  entry' = entry
BY DEF Next, LoadStep, ProcStep, TxEnds, vars, Miss, Read, ReadOwn, Store, Listen, Ready,
       Deliver, AfterCommit, Expire, Commit, Rollback, Lose, Write

LEMMA NextCurrent ==
  ASSUME entry.guarded, TypeOK, OneWriter, SupersededIsGone, ReadsAreCurrent, [Next]_vars, TypeOK'
  PROVE  (SupersededIsGone /\ ReadsAreCurrent)'
<1> DEFINE Same == \A q \in Proc : Synced(q)' => Synced(q)
<1>0. \A q \in Proc : Current(q)
  BY DEF SupersededIsGone, ReadsAreCurrent, Current
<1> SUFFICES \A q \in Proc : Current(q)'
  <2>1. \A l \in Load : load'[l].proc \in Proc
    BY DEF TypeOK, Reading
  <2> QED
    BY <2>1 DEF SupersededIsGone, ReadsAreCurrent, Current
<1>1. ASSUME NEW l \in Load, NEW p \in Proc, Miss(l, p)
      PROVE  \A q \in Proc : Current(q)'
  <2>1. /\ load'[l].pc = "miss" /\ \A k \in Load \ {l} : load'[k] = load[k]
        /\ UNCHANGED <<row, committed, cache, link, inbox, tx>>
    BY <1>1 DEF Miss, TypeOK
  <2> QED
    BY <1>0, <2>1 DEF Current, Synced
<1>2. ASSUME NEW l \in Load, Read(l)
      PROVE  \A q \in Proc : Current(q)'
  <2>1. load[l] \in Reading
    BY DEF TypeOK
  <2>2. /\ load'[l].value = row /\ \A k \in Load \ {l} : load'[k] = load[k]
        /\ UNCHANGED <<row, committed, cache, link, inbox, tx>>
    BY <1>2, <2>1 DEF Read, TypeOK, Reading
  <2> QED
    BY <1>0, <2>2 DEF Current, Synced
<1>3. ASSUME NEW l \in Load, ReadOwn(l)
      PROVE  \A q \in Proc : Current(q)'
  <2>1. load[l] \in Reading /\ load[l].proc \in Proc
    BY DEF TypeOK, Reading
  <2>2. /\ load'[l].value \notin committed /\ \A k \in Load \ {l} : load'[k] = load[k]
        /\ UNCHANGED <<row, committed, cache, link, inbox, tx>>
    BY <1>3, <2>1 DEF ReadOwn, TypeOK, Reading, OneWriter
  <2> QED
    BY <1>0, <2>2 DEF Current, Synced
<1>4. ASSUME NEW l \in Load, Store(l)
      PROVE  \A q \in Proc : Current(q)'
  <2>1. load[l] \in Reading /\ load[l].proc \in Proc
    BY DEF TypeOK, Reading
  <2>2. /\ load'[l].pc = "idle" /\ \A k \in Load \ {l} : load'[k] = load[k]
        /\ UNCHANGED <<row, committed, link, inbox, tx>>
    BY <1>4, <2>1 DEF Store, TypeOK, Reading
  <2>3. ASSUME NEW q \in Proc, cache'[q] # cache[q]
        PROVE  q = load[l].proc /\ cache'[q] = {load[l].value} /\ load[l].fresh
    BY <1>4, <2>1, <2>3 DEF Store, Kept, TypeOK
  <2>4. load[l].pc \in {"got", "own"}
    BY <1>4 DEF Store
  <2> SUFFICES ASSUME NEW q \in Proc, Synced(q)' PROVE Current(q)'
    BY DEF Current
  <2>5. Synced(q)
    BY <2>2 DEF Synced
  <2>6. \A k \in Load : load'[k].proc = q /\ load'[k].pc \in {"got", "own"} /\ load'[k].fresh
                          => {load'[k].value} \cap committed \subseteq {row}
    BY <1>0, <2>2, <2>5 DEF Current
  <2>7. cache'[q] \cap committed \subseteq {row}
    <3>1. CASE cache'[q] = cache[q]
      BY <1>0, <2>5, <3>1 DEF Current
    <3>2. CASE cache'[q] # cache[q]
      BY <1>0, <2>3, <2>4, <2>5, <3>2 DEF Current
    <3> QED
      BY <3>1, <3>2
  <2> QED
    BY <2>2, <2>6, <2>7 DEF Current
<1>5. ASSUME NEW p \in Proc, Expire(p)
      PROVE  \A q \in Proc : Current(q)'
  <2>1. /\ \A q \in Proc : cache'[q] \subseteq cache[q]
        /\ UNCHANGED <<row, committed, load, link, inbox, tx>>
    BY <1>5 DEF Expire, TypeOK
  <2> QED
    BY <1>0, <2>1 DEF Current, Synced
<1>6. ASSUME NEW p \in Proc, NEW late \in entry.late, Write(p, late)
      PROVE  \A q \in Proc : Current(q)'
  <2>1. /\ UNCHANGED <<row, committed, link, inbox>>
        /\ Same
    BY <1>6 DEF Write, Synced, TypeOK
  <2>2. CASE ~late
    <3>1. Remove(p)
      BY <1>6, <2>2 DEF Write
    <3> QED
      BY <1>0, <2>1, <3>1, RemoveCurrent
  <2>3. CASE late
    <3>1. UNCHANGED <<cache, load>>
      BY <1>6, <2>3 DEF Write
    <3> QED
      BY <1>0, <2>1, <3>1, QuietCurrent
  <2> QED
    BY <2>2, <2>3
<1>7. ASSUME NEW p \in Proc, Commit(p)
      PROVE  \A q \in Proc : Current(q)'
  \* nobody is synced after a commit
  <2>1. \A q \in Proc : ~Synced(q)'
    BY <1>7 DEF Commit, Notified, Synced, TypeOK
  <2> QED
    BY <2>1 DEF Current
<1>8. ASSUME NEW p \in Proc, AfterCommit(p) \/ Ready(p) \/ Deliver(p)
      PROVE  \A q \in Proc : Current(q)'
  <2>1. Remove(p) /\ row' = row /\ committed' = committed
    BY <1>8 DEF AfterCommit, Ready, Deliver
  <2>2. \A q \in Proc \ {p} : Synced(q)' => Synced(q)
    BY <1>8 DEF AfterCommit, Ready, Deliver, Synced, TypeOK
  <2> QED
    BY <1>0, <2>1, <2>2, RemoveCurrent
<1>9. ASSUME NEW p \in Proc, Rollback(p) \/ Listen(p) \/ Lose(p)
      PROVE  \A q \in Proc : Current(q)'
  <2>1. Same
    BY <1>9 DEF Rollback, Ending, Listen, Lose, Synced, TypeOK
  <2>2. UNCHANGED <<row, committed, cache, load>>
    BY <1>9 DEF Rollback, Listen, Lose
  <2> QED
    BY <1>0, <2>1, <2>2, QuietCurrent
<1>10. CASE UNCHANGED vars
  BY <1>0, <1>10 DEF vars, Current, Synced
<1> QED
  BY <1>1, <1>2, <1>3, <1>4, <1>5, <1>6, <1>7, <1>8, <1>9, <1>10
  DEF Next, LoadStep, ProcStep, TxEnds

-----------------------------------------------------------------------------
(* The theorems.                                                           *)

\* The variables always hold values of their types.
THEOREM TypeCorrect == Spec => []TypeOK
<1>1. Init => TypeOK
  BY InitInv DEF IInv
<1>2. TypeOK /\ [Next]_vars => TypeOK'
  BY NextTypes
<1> QED
  BY <1>1, <1>2, PTL DEF Spec

\* The inductive invariant, of entries of every kind.
THEOREM Invariance == Spec => []IInv
<1>1. Init => IInv
  BY InitInv
<1>2. IInv /\ [Next]_vars => IInv'
  <2> SUFFICES ASSUME IInv, [Next]_vars PROVE IInv'
    OBVIOUS
  <2>1. TypeOK'
    BY NextTypes DEF IInv
  <2>2. OneWriter'
    BY NextOneWriter DEF IInv
  <2>3. (SupersededIsGone /\ ReadsAreCurrent)'
    <3>1. CASE entry.guarded
      BY <2>1, <3>1, NextCurrent DEF IInv
    <3>2. CASE ~entry.guarded
      BY <3>2, EntryStays DEF SupersededIsGone, ReadsAreCurrent
    <3> QED
      BY <3>1, <3>2
  <2> QED
    BY <2>1, <2>2, <2>3 DEF IInv
<1> QED
  BY <1>1, <1>2, PTL DEF Spec

\* With SetAt, a process that has been told of everything serves nothing that
\* a commit replaced, wherever the readers and the invalidations stand.
THEOREM NothingSuperseded == Spec => []SupersededIsGone
<1>1. Spec => []IInv
  BY Invariance
<1>2. IInv => SupersededIsGone
  BY DEF IInv
<1> QED
  BY <1>1, <1>2, PTL
=============================================================================

----------------------------- MODULE CacheSync -----------------------------
(***************************************************************************)
(* The process-local cache (internal/engine/cache.go) and what keeps it     *)
(* true to the database that several processes share (cachesync.go): one    *)
(* cached key, the row it answers for, the transactions that change the row *)
(* and announce it with NOTIFY, and each process's listening connection.    *)
(*                                                                         *)
(* A value is the number of the write that made it; 0 is the row as it was  *)
(* at the start.  The removal counter "gen" is kept as what its one reader, *)
(* SetAt, asks of it: whether anything was removed since Gen was called.    *)
(* What an entry is of is how its callers differ: "roles:" and "user_perms:" *)
(* are kept with SetAt and no TTL, "sid:" and "apikey:" with Set and a TTL  *)
(* of a minute; scopes and shares are dropped after the commit, roles and   *)
(* sessions at the statement; roles and scopes are read on the transaction  *)
(* in hand.                                                                 *)
(***************************************************************************)
EXTENDS Naturals, FiniteSets

CONSTANTS
  Proc,       \* processes on the database, each running WatchCache
  Load,       \* reads of the key, by requests of any process
  Entries,    \* the kinds of entry that may be kept under the key
  MaxWrites,  \* bound: transactions that change the row
  MaxDrops    \* bound: listening connections lost

\* guarded: Gen before the read and SetAt after it, not Set.  ttl: the entry
\* expires.  late: TRUE in it, writers use invalidate; FALSE, invalidateNow.
\* own: a read inside the writing transaction fills the cache.
Kind == [guarded: BOOLEAN, ttl: BOOLEAN, late: SUBSET BOOLEAN, own: BOOLEAN]

ASSUME EntriesAssumption == Entries \subseteq Kind
ASSUME BoundsAssumption == MaxWrites \in Nat /\ MaxDrops \in Nat

VARIABLES
  entry,      \* what the entry is of; it does not change
  row,        \* the committed value
  tx,         \* the transaction each process has in hand
  cache,      \* the entry each process holds: {} or the one value
  load,       \* the reads in flight
  link,       \* each process's listener: the state of listenCache
  inbox,      \* notifications sent and not yet applied, by process
  writes,     \* how many values were ever written
  committed,  \* history: the values that were ever committed
  drops       \* how many connections were lost

vars == <<entry, row, tx, cache, load, link, inbox, writes, committed, drops>>

Value == 0..MaxWrites

\* late: the transaction drops the local entry after its commit.
Tx == [pc: {"none", "wrote", "committed"}, value: Value, late: BOOLEAN]

NoTx == [pc |-> "none", value |-> 0, late |-> FALSE]

\* "miss": Get found nothing and Gen was read; "got": the committed row was
\* read; "own": the row as the reader's own transaction wrote it.  fresh says
\* that nothing was removed from the cache since Gen.
Reading == [pc: {"idle", "miss", "got", "own"}, proc: Proc, value: Value, fresh: BOOLEAN]

Init ==
  /\ entry \in Entries
  /\ row = 0
  /\ tx = [p \in Proc |-> NoTx]
  /\ cache = [p \in Proc |-> {}]
  /\ load \in [Load -> [pc: {"idle"}, proc: Proc, value: {0}, fresh: {FALSE}]]
  /\ link = [p \in Proc |-> "down"]
  /\ inbox = [p \in Proc |-> 0]
  /\ writes = 0
  /\ committed = {0}
  /\ drops = 0

-----------------------------------------------------------------------------
(* The cache.                                                              *)

\* Del, DelPrefix and Clear: the entry goes, and every read of this process
\* that is in flight has seen a removal.
Remove(p) ==
  /\ cache' = [cache EXCEPT ![p] = {}]
  /\ load' = [l \in Load |->
       IF load[l].proc = p THEN [load[l] EXCEPT !.fresh = FALSE] ELSE load[l]]

\* Get finds nothing, and Gen is taken before the read.
Miss(l, p) ==
  /\ load[l].pc = "idle"
  /\ cache[p] = {}
  /\ load' = [load EXCEPT ![l] = [pc |-> "miss", proc |-> p, value |-> 0, fresh |-> TRUE]]
  /\ UNCHANGED <<entry, row, tx, cache, link, inbox, writes, committed, drops>>

\* The SELECT: the committed row.
Read(l) ==
  /\ load[l].pc = "miss"
  /\ load' = [load EXCEPT ![l].pc = "got", ![l].value = row]
  /\ UNCHANGED <<entry, row, tx, cache, link, inbox, writes, committed, drops>>

\* The SELECT of a request that has written the row itself, on its own
\* transaction: RolesOf and UserPermissions read so.
ReadOwn(l) ==
  /\ entry.own
  /\ load[l].pc = "miss"
  /\ tx[load[l].proc].pc = "wrote"
  /\ load' = [load EXCEPT ![l].pc = "own", ![l].value = tx[load[l].proc].value]
  /\ UNCHANGED <<entry, row, tx, cache, link, inbox, writes, committed, drops>>

\* What SetAt asks and Set does not.
Kept(l) == entry.guarded => load[l].fresh

\* SetAt, or Set.
Store(l) ==
  /\ load[l].pc \in {"got", "own"}
  /\ cache' = IF Kept(l) THEN [cache EXCEPT ![load[l].proc] = {load[l].value}] ELSE cache
  /\ load' = [load EXCEPT ![l].pc = "idle", ![l].fresh = FALSE]
  /\ UNCHANGED <<entry, row, tx, link, inbox, writes, committed, drops>>

\* Mutant: an entry does not expire.
MutExpire(p) == FALSE /\ UNCHANGED vars

\* The TTL passes: Get deletes the entry, and counts no removal.
Expire(p) ==
  /\ entry.ttl
  /\ cache[p] # {}
  /\ cache' = [cache EXCEPT ![p] = {}]
  /\ UNCHANGED <<entry, row, tx, load, link, inbox, writes, committed, drops>>

-----------------------------------------------------------------------------
(* The transactions that change the row.                                   *)

\* The statement that changes the row, which locks it, and the invalidation:
\* the local part at once or registered for after the commit, the NOTIFY held
\* by the database until the commit.
Write(p, late) ==
  /\ writes < MaxWrites
  /\ \A q \in Proc : tx[q].pc # "wrote"
  /\ tx[p].pc = "none"
  /\ tx' = [tx EXCEPT ![p] = [pc |-> "wrote", value |-> writes + 1, late |-> late]]
  /\ writes' = writes + 1
  /\ IF late THEN UNCHANGED <<cache, load>> ELSE Remove(p)
  /\ UNCHANGED <<entry, row, link, inbox, committed, drops>>

\* Mutant: the notification reaches the other processes only.
MutNotified ==
  [p \in Proc |-> IF link[p] = "down" \/ tx[p].pc = "wrote" THEN inbox[p] ELSE inbox[p] + 1]

\* A commit delivers the notification to every connection that listens.
Notified == [p \in Proc |-> IF link[p] = "down" THEN inbox[p] ELSE inbox[p] + 1]

\* A transaction ends after the reads it makes.
Ending(p) ==
  /\ tx[p].pc = "wrote"
  /\ \A l \in Load : load[l].proc = p => load[l].pc # "own"

Commit(p) ==
  /\ Ending(p)
  /\ row' = tx[p].value
  /\ committed' = committed \cup {tx[p].value}
  /\ inbox' = Notified
  /\ tx' = [tx EXCEPT ![p] = IF tx[p].late THEN [@ EXCEPT !.pc = "committed"] ELSE NoTx]
  /\ UNCHANGED <<entry, cache, load, link, writes, drops>>

\* runOnce's after-commit callbacks.
AfterCommit(p) ==
  /\ tx[p].pc = "committed"
  /\ Remove(p)
  /\ tx' = [tx EXCEPT ![p] = NoTx]
  /\ UNCHANGED <<entry, row, link, inbox, writes, committed, drops>>

\* A rollback announces nothing and runs no after-commit callback.
Rollback(p) ==
  /\ Ending(p)
  /\ tx' = [tx EXCEPT ![p] = NoTx]
  /\ UNCHANGED <<entry, row, cache, load, link, inbox, writes, committed, drops>>

-----------------------------------------------------------------------------
(* The listener.                                                           *)

\* LISTEN succeeds: from now on notifications arrive.
Listen(p) ==
  /\ link[p] = "down"
  /\ link' = [link EXCEPT ![p] = "listening"]
  /\ UNCHANGED <<entry, row, tx, cache, load, inbox, writes, committed, drops>>

\* Mutant: the cache is not dropped when the listener comes back.
MutReady(p) ==
  /\ link[p] = "listening"
  /\ link' = [link EXCEPT ![p] = "ready"]
  /\ UNCHANGED <<entry, row, tx, cache, load, inbox, writes, committed, drops>>

\* Then the whole cache goes: what was announced meanwhile was not heard.
Ready(p) ==
  /\ link[p] = "listening"
  /\ link' = [link EXCEPT ![p] = "ready"]
  /\ Remove(p)
  /\ UNCHANGED <<entry, row, tx, inbox, writes, committed, drops>>

\* WaitForNotification returns one, and it is applied.
Deliver(p) ==
  /\ link[p] = "ready" /\ inbox[p] > 0
  /\ inbox' = [inbox EXCEPT ![p] = @ - 1]
  /\ Remove(p)
  /\ UNCHANGED <<entry, row, tx, link, writes, committed, drops>>

\* The connection is lost with all it had not delivered.
Lose(p) ==
  /\ link[p] # "down"
  /\ drops < MaxDrops
  /\ drops' = drops + 1
  /\ link' = [link EXCEPT ![p] = "down"]
  /\ inbox' = [inbox EXCEPT ![p] = 0]
  /\ UNCHANGED <<entry, row, tx, cache, load, writes, committed>>

-----------------------------------------------------------------------------
LoadStep(l) == Read(l) \/ ReadOwn(l) \/ Store(l)

ProcStep(p) == Listen(p) \/ Ready(p) \/ Deliver(p) \/ AfterCommit(p) \/ Expire(p)

TxEnds(p) == Commit(p) \/ Rollback(p)

Next ==
  \/ \E l \in Load : LoadStep(l) \/ \E p \in Proc : Miss(l, p)
  \/ \E p \in Proc : ProcStep(p) \/ TxEnds(p) \/ Lose(p) \/ \E late \in entry.late : Write(p, late)

Spec == Init /\ [][Next]_vars

\* A process goes on with its listener and its callbacks, and its clock runs.
\* Nothing is asked of requests: a read or a transaction may hang for ever.
Fairness ==
  /\ \A p \in Proc : WF_vars(Listen(p) \/ Ready(p) \/ Deliver(p))
  /\ \A p \in Proc : WF_vars(AfterCommit(p)) /\ WF_vars(Expire(p))

FairSpec == Spec /\ Fairness

-----------------------------------------------------------------------------
(* Properties.                                                             *)

\* Every variable holds values of its type.
TypeOK ==
  /\ entry \in Kind
  /\ row \in Value
  /\ tx \in [Proc -> Tx]
  /\ cache \in [Proc -> SUBSET Value] /\ \A p \in Proc : Cardinality(cache[p]) <= 1
  /\ load \in [Load -> Reading]
  /\ link \in [Proc -> {"down", "listening", "ready"}]
  /\ inbox \in [Proc -> Nat]
  /\ writes \in Value
  /\ committed \subseteq Value
  /\ drops \in Nat

\* p has been told of everything: it listens, has applied what it was sent,
\* and owes no callback of its own.
Synced(p) == link[p] = "ready" /\ inbox[p] = 0 /\ tx[p].pc # "committed"

\* A process that has been told of everything serves the committed row, or
\* reads it again: no interleaving of reads, commits, notifications and
\* reconnections leaves it with a value that nothing will ever remove.
CurrentWhenSynced == \A p \in Proc : Synced(p) => cache[p] \subseteq {row}

\* asuser.go:11: a row that will be rolled back never reaches the process
\* cache.  RolesOf and UserPermissions keep what they select on the
\* transaction in hand.
OnlyCommitted == \A p \in Proc : cache[p] \subseteq committed

\* The part of CurrentWhenSynced that reads by the writing transaction do not
\* weaken: what a process that has been told of everything serves was not
\* replaced by a later commit, if it was kept with SetAt.
SupersededIsGone ==
  entry.guarded => \A p \in Proc : Synced(p) => cache[p] \cap committed \subseteq {row}

\* A process that goes on listening stops serving what another one replaced,
\* whatever reads and transactions are in flight, and without a restart.
RevocationReaches == \A p \in Proc : []<>(cache[p] \cap committed \subseteq {row})
=============================================================================

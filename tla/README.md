# ddcore: a verification development

ddcore is a metadata-driven application runtime written in Go. A site is a
PostgreSQL database, one or more processes that serve it (`ddcore serve`, its
replicas, `ddcore jobs work`, `ddcore mcp`, and one-shot commands such as `eval`,
`exec`, `import` and `migrate`), an embedded JavaScript runtime that runs the
controllers of the apps, and a browser client (the desk). There is no other shared
infrastructure: the queue, the locks, the counters, the sessions, the cache
invalidations and the maintenance switch all go through PostgreSQL.

That is where the hard behaviour is. Every process runs many goroutines, each on
its own connection, and the correctness of a component is a claim about
interleavings of short transactions, of the connections they run on, of process
caches, and of crashes between two of them. This directory holds TLA+ models of
those components, TLC runs over small instances, and TLAPS proofs.

## Reading order

1. the inventory below: the parts of the system and what makes each correct;
2. the modules, one section each, with their correspondence to the code;
3. in each section what its runs check, within which bounds, and what is proved and how;
4. the counterexamples: what the documentation says and the code does not do;
5. the plan, what is not modelled, and what is model-checked only.

## Inventory

Sources are relative to `src/`; `engine/` is `src/internal/engine/`.

| Part | State | Operations | Talks to | Correct when |
|---|---|---|---|---|
| Job queue (`engine/jobs.go`, `jobs_admin.go`) | `ddcore_job` rows: status, attempts, lease, cancel request, unique key; a worker's goroutines and timers | enqueue, claim, heartbeat, finish, sweep, cancel, retry, purge, shutdown | every caller through `Ctx.Enqueue`; bodies run as document transactions; `onFailure` hooks; hub events | one holder per attempt, attempts bounded, every row ends, a failure is told once |
| Process cache (`engine/cache.go`, `cachesync.go`) | a map with TTLs and a removal counter; one LISTEN connection per process | get, gen, set, setAt, remove, NOTIFY, reconnect | roles, scopes, shares, sessions, API keys, webhooks, tenants | nothing revoked is served once it was announced, and what a rollback undid is not kept |
| Document engine (`engine/doc.go`, `workflow.go`, `tree.go`, `rename.go`, `merge.go`, `bulk.go`) | document rows: `modified`, `docstatus`, workflow state, tree parent, versions | insert, save, submit, cancel, amend, delete, dbSet, apply workflow, rename, merge, bulk | permissions, hooks, cache, outbox tables, realtime | no lost update, legal status moves only, no tree cycle, history matches writes |
| Permissions (`engine/perm.go`, `fieldperm.go`, `share.go`, `asuser.go`, `impersonate.go`) | roles, user permissions, shares, field levels; memos on the ctx | can, filter, share, act as another user | cache, document engine | a decision uses the rights of the acting user in its own space |
| Sequences (`engine/idgen.go`, `ddcore_series`) | one counter per prefix | next value, reset on import | document insert, import | no id handed out twice |
| Scheduler (`jobs.go` tick, `engine/engine.go` schedules) | `ddcore_schedule` ticks | claim a tick, enqueue | job queue | one enqueue per tick over all processes |
| Mail (`engine/mailqueue.go`, `internal/mail`) | `Email Delivery` rows: Queued, Sent, Failed, Uncertain | queue, deliver, resend | job queue, SMTP | never sent twice when the outcome was recorded, never silently lost |
| Webhooks (`engine/webhooks.go`) | `Webhook Delivery` rows, cached subscriptions | queue in the writer's transaction, deliver, replay, sweep | document engine, job queue, HTTP | every committed event is delivered or reported, states agree with the jobs |
| Notifications and push (`engine/notifications.go`, `push.go`) | `Notification` occurrences and subscriptions | notify, read, email, push | mail, job queue, hub | a recipient hears of an occurrence once, and only while allowed |
| Maintenance (`engine/maintenance.go`) | one row in `ddcore_setting`, a two-second answer per process | switch, ask, refuse writes, pause workers | API, job queue, backup | no write begins after every process has seen the switch |
| Sign-in and recovery (`engine/auth.go`, `token.go`, `throttle.go`, `recovery.go`, `credentials.go`, `oidc.go`, `pocketid.go`) | sessions, API keys, one-time tokens, attempt rows | sign in, sign out, revoke, consume a token, throttle | cache, mail, document engine | a token works once, a revocation ends access |
| Tenancy (`engine/tenancy.go`, `workspace_space.go`, `test_tenant.go`) | row-level security by tenant, tenant states | provision, enter, suspend, drop, backfill | everything that runs a statement | a statement sees one space |
| Imports (`engine/import*.go`, `data_import.go`) | `Data Import` and its rows, checkpoints | read, map, batch, resume, reconcile | document engine, job queue | a row is imported once over retries |
| Vault (`engine/vault.go`, `vault_rekey.go`, `secrets.go`) | sealed values with key versions | seal, open, rekey | document engine | every value opens with a configured key at all times |
| Migrations (`engine/migrate.go`, `internal/db`) | the schema, applied patches, an advisory lock | diff, apply, patch, prune | everything | one migration at a time, a patch once |
| Query (`engine/query.go`, `search.go`, `export*.go`) | none | list, count, aggregate, export | permissions, tenancy | results are those the user may read |
| Metadata (`internal/meta`), type generation (`internal/typegen`), scaffolding (`internal/scaffold`), translations (`internal/i18nx`) | definitions loaded at start or reload | load, merge, validate, generate | engine state, desk | definitions are consistent before they are used |
| JavaScript runtime (`internal/js`, `engine/host.go`) | VM pool, per-transaction VM | run a controller, host calls | document engine | host calls run on the ctx's transaction |
| API and realtime (`internal/api`) | HTTP handlers, the SSE hub and its buffers | request, subscribe, broadcast, resume | all of the above | an event a client may read reaches it or the client is told to reload |
| Watch and release (`internal/watch`, `internal/release`) | file stamps, the version manifest | poll, reload, check | engine state | a reload never serves half a definition |
| MCP and AI (`internal/mcp`, `internal/ai`) | tool sessions, provider calls | call a tool, stream | engine, HTTP | a tool acts with its user's rights |
| Storage and files (`internal/storage`, `engine/files*.go`) | blobs on disk or S3, `File` rows | put, get, delete after commit | document engine | a committed row has its blob |
| Printing, spreadsheets, signatures, barcodes, geo (`internal/print`, `engine/print.go`, `spreadsheet.go`, ...) | none | render, parse | document engine | output matches input |
| Command line and backup (`cmd/ddcore`) | local processes and dumps | serve, migrate, back up, restore | all | a backup is of one moment |
| Desk, SDKs (`desk`, `packages`) | browser state | forms, lists, realtime client | API | user interface of the above |
| Core and test apps (`core`, `apps`) | doctypes and controllers of the system's own records | hooks | engine | keep users, roles and keys consistent |

## Module: JobQueue (abstract: JobLifecycle)

`JobQueue` is `engine/jobs.go` and `engine/jobs_admin.go`. `job` is the table
`ddcore_job`; `worker` is what a worker goroutine holds between two statements (the
id, the attempt number it claimed, whether its heartbeat goroutine told it to stop and
why, how its body ended, the `onFailure` calls it still owes); `admin` is the same for a
request handler; `paused` is the maintenance flag; `told` and `commits` are history.
`starts` in a row is history too: it numbers the runs of a job, which the code does not.

One action is one statement or one transaction, in the order of the code:
`Sweep` (the UPDATE of expired leases, which moves every row or, when the unique index
refuses one, none), `ReportSwept`, `Claim`, `OnStart`, the body (`BodyCommits` or
`AttemptFails`), `Renew` and `Poll` of the heartbeat, the four terminal writes
(`FinishDone`, `FinishCancelled`, `GiveBack`, `FinishFailed`), `Tell`, and for
administrators `CancelQueued`, `CancelRunning`, `RetryInsert`, `RetryStamp`, `Purge`.
The environment is `LeaseExpires`, `BecomesDue`, `Stop`, `Interrupt`, `Exit`, `Crash`,
`Restart`, `PauseOn`, `PauseOff`, and a terminal write that fails. A lease may expire
while its holder lives (a stalled process); that costs a fault.

`JobLifecycle` is what the documentation promises whoever enqueues a job, with no
worker in it. `ImplementsLifecycle` maps each row's status to a phase.

| Run | Instance | Question |
|---|---|---|
| `jobqueue_faults` | 2 workers, 1 job of 2 attempts, 2 faults, 1 stop, 1 cancel, fairness | is the fence on `attempts` sound, is every statement a legal move, is `final` the last word, do runs end and jobs settle |
| `jobqueue_operator` | 2 workers, 2 jobs of 1 attempt, a key, cancel, retry, pause, purge, stop, no fault | are bodies committed once and failures told |

Two workers suffice for a race on a row because every conflict is between the current
holder and one other; two attempts are the fewest at which a retry and a last attempt
differ; two faults let a lease be lost and then its taker die.

Fairness: weak for each worker's next statement, its heartbeat, the timers (an
unheld lease expires, a delayed row becomes due) and the end of a pause. The worker
loop polls every second and PostgreSQL's clock runs, so a statement that stays possible
is made; crashes, stops and requests have no fairness.

Met on the way, and kept as counterexamples (see their table below): a cancel recorded just
before a failing attempt is written leaves a row that is queued, unclaimable and never
cancelled; two expired rows of one unique key make the sweep fail as a whole, for ever; a
worker that lost its lease can read a later attempt's cancel request and say `final = true`
while that attempt runs; two unforced retries at once queue two copies. Also, ops.md says in
one place that a pause costs an attempt, which the code gives back; the model follows the code.

Proved (`JobQueueProofs`), for every set of workers,
administrators, keys and every value of the bounds: `TypeCorrect`, `FenceIsSound`,
`SingleOwner`, `AttemptsWithinBounds`, `DoneIsCommitted`, `QueueImplementsLifecycle`.
The inductive invariant is `IInv == TypeOK /\ RowInv /\ WorkInv /\ Distinct`.
`TypeOK` alone is not inductive: `GiveBack` subtracts one from `attempts`, and that it
is positive there depends on the claim that the row's holder made. `RowInv` bounds the
attempts of a row by its starts and by `MaxAttempts` according to its status;
`WorkInv` ties a worker in a run to its row (the attempt it holds is at most the row's,
and if they are equal the row is running that very run); `Distinct` says that no two
workers hold the same run. The difficult case is a give-back: it decrements the number
that serves as the fence, so a stale worker of the same attempt number might pass it
again after the next claim. It cannot, because only the current holder can give back and a stale worker
holds a smaller number; `Distinct` is what carries this. The refinement needs the
invariant in one place, `Fail`: that a failed row has had `MaxAttempts` runs.

Also proved, of runs without a fault (no crash, no lost lease, no failed terminal write):
`ExactlyOnceHolds`, `FailureIsToldHolds` and `FinalIsFinalHolds`. Their inductive invariant is
`CInv`, on top of `IInv`. Without a fault a worker in a run owns its row and its lease is live (`Owned`), and a running
job without a key is in somebody's hands (`Carried`), so the sweep never takes it: it takes
only jobs with a key, whose way back to the queue the unique index refused. A commit is the first and last of its job
(`CommittedOnce`): the row is done, or the one worker that committed is about to write it. A failed or
cancelled row has a final notice that was made or is still owed (`Warned`), a notice says what the row
says (`Truthful`), and a run is reported by one worker once (`ReportedOnce`). That nothing failed is the properties' own
precondition, for a body whose worker dies after it committed is run again. One conjunct does not need it:
`IndexHolds`, one queued or running job of a key, with any number of faults.

## Module: CacheSync

`CacheSync` is `engine/cache.go` and `engine/cachesync.go` around one key. `row` is the
committed value, numbered by its write; `tx` is the transaction of a process that writes it;
`cache` the entry each process holds; `load` the reads in flight, split as the code splits
them into `Miss` (Get, Gen), `Read` or `ReadOwn` (the SELECT) and `Store` (SetAt or Set);
`link` is where `listenCache` is; `inbox` counts notifications delivered to the connection
and not applied. `Write` is the statement that changes the row with the invalidation that
goes with it (`late` says which: `invalidate` or `invalidateNow`), `Commit` delivers the NOTIFY atomically with the
commit, as PostgreSQL does, `AfterCommit` runs the callback, `Lose`, `Listen` and `Ready` are
a lost connection and its return. The removal counter `gen` is kept as `fresh`: whether a
removal came after the read's `Gen`. One key is enough because a removal of another key
only makes `SetAt` drop more.

`entry` is what the key is of, and how its callers differ. Roles: `guarded` (`Gen` and `SetAt`), not `late`. User permissions,
shares, webhooks: `guarded`, `late`. Sessions and API keys: `ttl`, and `Set`.
`own`: `RolesOf` and `UserPermissions` select on the transaction in hand. The initial state chooses one of `Entries`.

| Run | Instance | Question |
|---|---|---|
| `cachesync_kept` | 2 processes, 1 read, 2 writes, 1 lost listener, fairness; rights (SetAt, no TTL, both ways to drop, own reads) and sessions (Set and a TTL, read on the pool) | is what a commit replaced gone once everything was heard, and is every revocation heard |
| `cachesync_uncommitted` | 2 reads; roles (SetAt, dropped at the statement, own reads) | a rolled-back transaction's roles stay in the cache |

Two writes let a second revocation overtake the first one's notification; the second
process is the one that did not write; one lost connection is enough to miss either
notification. Fairness: the listener, the callbacks and the clock go on; requests and
transactions may hang for ever. Runs stop when the bounds are spent and every cache is warm,
so deadlock is not an error there. What the kinds are there to tell apart shows where sessions are asked what only `SetAt`
gives: a session cached again by a read that overlaps its revocation (the table of
counterexamples).

Finding. `RolesOf` (and `UserPermissions`) select on the transaction in hand and keep the
answer in the process cache. A script that grants a role, asks for that user's roles and then
fails leaves the role in the cache of its process, because a rollback removes nothing;
asuser.go says that a row that will be rolled back must never reach that cache.
`SupersededIsGone` is therefore stated of committed values, with own reads allowed; that no
uncommitted one is served is refuted by `cachesync_uncommitted` and is proved of nothing.

Proved (`CacheSyncProofs`): `TypeCorrect`; `NothingSuperseded`, that whatever the kinds of entry, of one kept with `SetAt` a process that
has heard everything serves nothing a commit replaced, for any number of processes, reads,
writes and lost connections, own reads included. `SupersededIsGone` is not inductive: the value is already in a read's hand. The
strengthening is `ReadsAreCurrent`, the same of every fresh read of a synced process, and
`OneWriter`. The argument: a commit leaves no process synced, itself included, and a process
becomes synced again only by a step that removes. The writing process needs its own notification for this
when it drops early: another of its requests may read the old row between the drop and the commit.

## Module: Document

`Document` is one document in `engine/doc.go` and `engine/workflow.go`: its row, and the
transactions that want it. `doc` is the row as committed, `holder` its lock, `tx[t]` what a
transaction has read and will write, `now` the clock; `trail` (the `workflow.transition` audit
events) and `overruled` (the app's own code has written docstatus or the state of the governed
document) are history. What the columns hold is the
set of the writes that are in them, each named by its instant, so that an UPDATE of every
column from an old copy loses a write visibly.

| Action | Code |
|---|---|
| `Open` | a GET or a script's `getDoc`: an unlocked read |
| `Save` | `Save`, `Submit`, `Cancel` up to the UPDATE: the row is locked and read again, docstatus and the workflow columns are checked, and `modified` if the copy carries it (`dated`) |
| `Apply` | `ApplyWorkflow`: locks, looks the transition up in the locked state, and saves |
| `Hook` | a hook of the save calls `dbSet` on its own document, before or after the UPDATE, of any column (`DirectWrite`: docstatus and the state only where no workflow governs, or in a transition) |
| `Assign` | a hook before the UPDATE assigns docstatus or the state in the document that `Save` goes on to write: `runHook` replaces the document, and both were checked before it |
| `WriteUpdate` | the UPDATE of every column, which compares `modified` with what Save read |
| `DBSet`, `SetColumns` | `DBSet`: its checks and its time, and then the UPDATE of the given columns, docstatus among them where no workflow governs, which waits for the lock |
| `Delete`, `DeleteRow` | `deleteWithFlags`: the unlocked read and its checks, and then the DELETE |
| `Commit`, `Rollback` | `runOnce` |
| `Pass` | the clock goes on |

Three details of the code decide what can be said. `Save` compares `modified` only if the copy
carries one: a copy the same request read has it, but a script may build a document without
it, a client may send null, and `share.go:339` deletes it before it saves; such a save
overwrites what it has not seen. `sameTime` compares milliseconds, because that
is what a copy keeps after JSON: two versions within one millisecond pass for one. `Waived` is
the set of the writes that a save so leaves uncompared; `NothingLost` exempts these and no
other, and shows that the lock, the re-read and the condition of the UPDATE keep all the rest. And `dbSet` takes its
time before it waits for the lock, so `modified` may go backwards; no property depends on its order.

What the app's own code writes on its own accord is the constant `Own`: pairs of a docstatus and
a state. `dbSet` writes docstatus like any column where no workflow governs, and hooks write
both; docstatus can so go backwards, by code the app's author wrote to do that.
`ForwardOnly` and `TrailExplainsState` are about every other commit, before and after such ones.

| Run | Instance | Question |
|---|---|---|
| `document_kept` | 2 transactions, 6 instants (0 to 5), 2 to a millisecond, with and without a workflow of four states; own writes that reopen, submit and cancel | is no write lost, is no state decided twice, does docstatus only go forward |
| `document_submitted_deleted` | 3 instants, no own writes | a submission committed while a deletion runs is deleted with the document |

Two transactions are enough for a stale copy, because whatever happens between its reading
and its use can be done by one other, one transaction at a time. Six instants allow three
versions a millisecond apart. The workflow has an approval, a rejection that goes back to the
draft (the state a stale approver would decide again) and a withdrawal straight to cancelled.
No fairness is assumed and no liveness stated: a request may always fail. A deleted
document at the end of time has nothing left to do, so deadlock is not an error there.

Finding. `Delete` checks docstatus and the workflow state on a read without a lock, and its
DELETE names only the id. A submission or an approval that commits between the two is
deleted, where docs/agent/workflows.md says a submitted document hits the "cancel before
deleting" rule.

Proved (`DocumentProofs`), for any number of transactions, any workflow that
`Engine.Load` accepts and any precision of timestamps: `TypeCorrect`, `TrailIsAPath`,
`DocumentForwardOnly`, `NoWriteIsLost`, whatever `Own` holds. Two invariants carry them. `MoveInv == TypeOK /\
LockIsHeld /\ PendingFollows /\ TrailExplainsState`: the holder of the lock alone has
something to commit, and what Save checked of the row it locked still holds of the row it
will replace, unless the transaction is `direct`. `LostInv == TypeOK /\ LockIsHeld /\ WritesAreNew /\
CopiesAreVersions /\ NothingBehind`: an instant names one write, a copy that bears the current
version's timestamp is the current version, and what a holder is about to commit contains
every committed write it did not waive and its own, hooks included. `NothingLost` is
about the step of a commit, and follows from `NothingBehind`, which in turn fails at a save whose copy was
not the version its timestamp says without `CopiesAreVersions`.

Left out: insert (it is the initial state) and amend (a new document), child rows and
`setOnlyOnce`. Links, rename and merge are in `Tree`, permissions in `Access`; here they only refuse more.

## Module: Delivery (over JobLifecycle)

`Delivery` is one outgoing message and the jobs that carry it: `engine/mailqueue.go` and
`internal/mail` for a mail sent by SMTP or by an app's transport function,
`engine/webhooks.go` for a webhook, `engine/outbox.go` for what they share. `record` is the
row of `Email Delivery` or `Webhook Delivery`, `job` the queue rows it had, `run` what each worker
holds between two statements, `leave` whether the message may still go (the webhook's row and
secret, or the notification behind the mail), `accepted` how often the other side took it.

| Action | Code |
|---|---|
| `QueueMail`, `QueueWebhook` | `queueDelivery`: record, job and stamp in the caller's transaction |
| `LoadMail`, `DeliverMail`, `LoadWebhook`, `Weigh`, `CheckWebhook` | what a run reads before it sends, each a statement of its own; `Weigh` asks the job the *record* names whether this try is the last |
| `Taken`, `NoAnswer`, `Refused`, `TransportInterrupted` | the answers: SMTP's lost answer to the final dot is Uncertain and not repeated, an app's transport fails, a webhook is tried again |
| `Record` | `recordDelivery`: on the pool, by id, with no fence; it may fail, which is only logged |
| `FailsEarly` | a read that fails or a template that throws before the message is on its way: the job fails, nothing is recorded |
| `TimesOut` | the job's own timeout (`context.WithTimeout`, 300 s unless set): like a cancellation it interrupts JavaScript and the outbound call, but the attempt is spent |
| `Claim`, `Sweep`, `Beat`, `Shutdown`, `Interrupted`, `End`, `Crash` | the queue around the run |
| `Replay`, `Retry`, `CancelJob`, `PurgeJob`, `SweepDeliveries`, `Withdraw`, `Allow` | the administrator and the application |

The queue is not modelled again statement by statement: its moves are those that
`JobLifecycle` promises, which `QueueAsPromised` checks as a refinement and `JobQueue` implements.
What is added to them is `attempts`, which decides a last try, and the lease, which a worker may
lose while it runs.

| Run | Instance | Question |
|---|---|---|
| `delivery_kept` | the three transports, 2 workers, up to 3 jobs of 2 attempts, any two troubles out of 2 faults, a stop, a timeout, a cancel, a retry, a replay, 2 switches, a failing read or template and a purge; fairness | does a message leave once, is Sent true and does it stand, does a withdrawn message stay, does every delivery end |

Two workers are a holder and the one that took its lease; three jobs are an original, a
replay or retry, and one more after it; two attempts are a first and a last try. Two troubles at
once are the pairs of everything that can go wrong (a lease lost and a shutdown, a crash and a
replay, a cancellation and a retry). Fairness: weak for each worker's next statement and for
the sweep of a lease whose holder is gone. Nothing forces an administrator, a fault or a
heartbeat. A message that has ended has nothing left to do: deadlock is not an error.

Checked: `OneCopyPerFault`, the relay takes one copy and one more per fault at most, whatever is
cancelled, retried by hand once, shut down, timed out or thrown (two retries of one job queue two
copies, which run side by side); `SentStands`, what was told as Sent is not taken back by a
late run; `OnItsWay`, undisturbed the record names the one job
that will move it on; `WithdrawnNeverLeaves`; `ComesToAnOutcome`; `QueueAsPromised`. The
preconditions name exactly the troubles that break them, and each of those was seen to break
them: a refused mail is recorded as Failed even after it was Sent (`DeliveryTakenBack`), and a
delivery whose job was cancelled stays Retrying (`DeliveryStuck`).

A timeout is the trouble that needs nobody to do anything. The run of an app's transport is
interrupted in JavaScript, before or after the message went, and records nothing; on its last
attempt the job fails and the record stays Queued (`DeliveryTimedOut` keeps the first half: a mail
that is Queued, "not yet attempted", and was taken). `OnItsWay` therefore says two things: without
a timeout the record's job waits or runs and nothing else waits; with timeouts, and no replay, the
record's job may also have failed, but never be done or cancelled under a record that is still on
its way. `ComesToAnOutcome` lets a timeout excuse a missing outcome only where the job that
should have brought it is over. A mail over SMTP and a webhook end their call at a timeout and
record an outcome like for any broken connection.

Left out: what the message says, attachments (one that is gone is a `Refused` before the try),
signatures, headers and the timeouts of the transports themselves (SMTP's dialogue, a webhook's
own), which only choose among the answers; a failing read of the job's row alone, by which a
webhook takes a try for its last; the cached list of subscriptions, which is in
`CacheSync` (`QueueWebhook` fires whatever `leave` says). The receiver and the relay are external.

Proved (`DeliveryProofs`), for every number of workers, jobs, attempts and every bound on what goes
wrong: `TypeCorrect`, `OneCopyPerFaultHolds`, `SentStandsHolds`, `WithdrawnNeverLeavesHolds`,
`OnItsWayHolds`, `QueueAsPromisedHolds`. The copies are counted with tokens. A run past its checks
(`Loaded`) holds one, a run that lost its job before the checks holds one, and the job
itself holds one as long as nobody carries it past them (`ToCome`); `BudgetInv` says that the copies accepted and the tokens together
never exceed one and a fault each. A claim, a check and an answer each pass a token on; a crash or a lost lease makes a
second, and it alone does. What makes the count go through is `Distinct`: two runs of one job carry different attempts, so
at most one owns it. The precondition of one retry by hand was
found by trying to prove the statement without it. `OnItsWay` needs to know of an undisturbed delivery what each
run is about to do (`QuietInv`): the record says Queued or Retrying exactly until the run that
settles it has written its outcome. With timeouts that is not so, and `SteadyInv` says what is left:
there is one run, it owns the record's job, and it does not come to a successful end before it has
recorded an outcome. The refinement is per job and step: what a run, the sweep or an administrator does
to one row is a move of `JobLifecycle`, and everything else leaves every row alone.

## Modules: Hierarchy, Forest and Tree

`Hierarchy` has the checks and the effects on the rows, pure operators over a table:
`checkTree`, `treeAncestorsInclusive` (as the least set the recursive query's UNION finds),
`treeHasChildren`, `mergeChecks`, `repointRefs`, `moveID`. `Forest` is what a tree DocType promises:
the committed rows change by one legal insert, save, delete, rename or merge at a time. `Tree` has the
transactions that do it (`engine/tree.go`, `merge.go`, and the tree's part of `doc.go` and
`workflow.go`), under READ COMMITTED, with the documents of another DocType that link to a row.

`tab` and `link` are committed; `draft` is the table as the holder of the advisory lock sees it;
`treeLock` and `rowLock` are the two kinds of lock; `tx[w]` is a transaction, its `pc` named for
what it does next. `Before` is what a rename, a merge and a linking document check before they
lock; `lockTree` and `LockRow` take the locks in the order each operation takes them; `InsertRow`,
`SaveRow`, `TransitionRow`, `RenameRow`, `MergeRow`, `DeleteChecks` and `DeleteRow` are the statements;
`CommitLink` and `Commit` publish; `GiveUp` and `DeadlockVictim` roll back. What the
lock's holder reads of the tree cannot change under it, so a check and the write behind it are
one step there, and separate steps wherever nothing is locked.

| Run | Instance | Question |
|---|---|---|
| `tree_kept` | 2 transactions at once, 2 in all, each any request over 4 ids, one linking document, 3 hierarchies; fairness | is the hierarchy a forest, are the transactions serial, do links lead somewhere, who can deadlock, does everyone end |

Two transactions at once are every pair of operations in every order of their statements. The
three hierarchies are a chain of groups, two roots with a leaf and a root over a group and a
leaf, with one id free: a move under a descendant, a swap of two, a merge with and without
children, a rename to an id being taken. Fairness: weak for a transaction's next step, because
PostgreSQL serves its lock queues and ends deadlocks; no request is forced.

Checked: `ForestUnlessLate` and `LinksHold` of the committed rows, with the two windows the code leaves
named in them (`late`, a merge whose checks before `lockTree` no longer hold when it writes;
`excused`, a link written while its target was going); `Serial`, a step of the transactions
is a step of `Forest` unless late; `OnlyApprovalsDeadlock`, since `ApplyWorkflow` alone takes the
row before the tree; `EveryTransactionEnds`. Counterexamples: `TreeLateMerge`, `TreeDeadlock`.

Proved (`TreeProofs`), for any ids, transactions and linking documents: `ForestHolds`, that from a
forest of groups no sequence of legal operations of `Forest` makes a loop, an orphan or a child of a leaf;
`TreeIsSerial`, that every step of a transaction which is not a late merge is a step of `Forest`; from
both, `ForestUnlessLateHolds`; `ApprovalsAlone`; `LinksAreExcused`; `TypeCorrect`. Acyclicity is stated
without paths, so that no induction over them is needed: no non-empty set of rows is closed
under their parents. The rows above a new parent are a set closed under parents without the
row that moves (`AncestorsAreClosed`); if hanging the row there closed a set, taking that closed set out
of it would leave one that was closed before (`PutUnderClosed`), or nothing. A rename carries a closed set
back along the renaming, a merge uses that the survivor is not below the row that goes.
`TreeIsSerial` rests on an invariant of four parts. `Shape` says where each operation can be; `Holding(w) <=> treeLock = w`
reads the holder of the advisory lock off its `pc`; `Drafted` says that the holder's `draft` is the committed
table until it has written, and afterwards the outcome of one operation that `Forest` allows, so that the commit is
that operation; `RowsHeld` that only an approval has a row's lock without the tree's. `LinksAreExcused` adds what
a transaction knows of the links it looked at (`LinksSeen`: those it did not move are excused) and of the target of
the link it commits (`TargetSeen`: it is there, or its loss is excused).

Left out: the versions, hooks and permissions of the writes (`Document`, `Access`), the rename of ids in Dynamic
Links and child rows, which are further rows of the same sweep, tree reads, and an import's inserts with `IgnoreLinks`
(`import.go:128`). For those `checkTree` lets a parent pass that is not there yet (`tree.go:114`), and neither an insert
nor the end of an import, which only looks whether the targets of links exist, asks whether a parent that came later is
a group or hangs below its child: the forest of `ForestUnlessLate` is that of the other operations.

## Module: Maintenance

`Maintenance` is `engine/maintenance.go` with what asks it: `checkWritable` before a write, the
scheduler before a run (`jobs.go`), `WatchMaintenance`, and the commands that pause the
site for the length of their own run (`cmd/ddcore/backup.go`, `import.go`). `flag` is the row of
`ddcore_setting` with its age, `cache[s]` the copy of a server (`age` in seconds, `refreshing` the one caller
that reads, `overtaken` that `m.read` changed since), `thread` what each request, scheduler and poller of
the deployment does, `command` a command's run, `ledger` the minutes claimed, `queued` their jobs.

`Ask`, `Refresh`, `Finish`, `Wait` and `Waited` are `Engine.Maintenance`; `BeginSet`, `Load` and `SetMaintenance`
are the switch from within a server, `Administrator` the one from a process of its own; `Fire`,
`claimTick` and `Enqueue` are the scheduler; `FindPaused`, `FindOpen`, `OpenWindow`, `Start` and `End` a
command, `Die` one that is killed or cannot write the flag; `Tick` lets a second pass. `OpenWindow` and `Die` leave the
site paused when a command fails after it wrote the flag (`backup.go:212`). `Enqueue` may fail, for the database or for a `runAs`
user missing or disabled: the code logs it, and the minute stays claimed. A refresh and a write that was let through are taken to end within
the second they began in. The code bounds neither, and its grace of three seconds relies on
both; the model says so rather than prove it.

| Run | Instance | Question |
|---|---|---|
| `maintenance_kept` | a server with requests and its poll, an administrator and a command; the worker and the scheduler of `ddcore jobs work`, with a command; and two servers' schedulers; TTL 2, grace 3, 2 switches, 2 minutes, 1 fault; fairness | is the window of a command free of writes, how old may an answer be, is a minute queued once, and at all, does a pause end everywhere |

One request thread and the poller are two callers of one cache, which is what a refresh can be raced
by; a worker and a scheduler are two callers of a cache that nobody polls. The TTL and the grace have the code's values in seconds. Two switches are a pause and its
end; two minutes show that one claim does not stand for the next. Fairness: the clock, the polls and what a
server has begun go on; requests, commands and switches do not have to happen.

Checked: `WindowHolds`; `AnswersAreFresh`, which found that the code's bound is the TTL only for an answer given while
nobody reads: what is answered during a refresh is up to twice that where the server polls (a poll within two
seconds of a read is answered from the cache, so the next one reads), and of any age in `ddcore jobs work`, which enforces
the pause and starts no `WatchMaintenance` (`cmd/ddcore/jobs.go:117-145`);
`NoOldAnswerPutBack`; `OneRunPerMinute`, at most once, and at least once unless who claimed it was paused, crashed or
could not queue it; `Reopens`, for servers that poll. Counterexamples:
`MaintenanceLateAnswer` (an answer older than the TTL the comment promises), `MaintenanceUnpolled` (one older than twice
that, in a process without a poll), `MaintenanceLostRun` (both schedulers are through with a minute, the job of which
one claimed and could not queue) and `MaintenanceSecondRun` (the first of two commands to end resumes the site under the
other).

Left out: the HTTP 503 and its headers, the message of the pause, the queue's own pause
(`PauseOn`, `PauseOff` in `JobQueue`).

Proved (`MaintenanceProofs`), for every number of servers, callers, commands, switches and
minutes: `TypeCorrect`, `WindowHoldsAlways`, `AnswersAreFreshHolds`, `NoOldAnswerPutBackHolds`,
`OneRunPerMinuteHolds`. The one assumption on the times, `TimesAssumption`, is what the code has: the grace is longer than
the TTL (`backup.go` waits three seconds, an answer is kept for two). Nothing is assumed of who polls: `AnswersAreFresh` says what a
poll is good for, and a write that an answer given during a refresh let in is `unsure` in `WindowHolds`.
The invariant says, per caller, that what it read disagrees with the flag only within the second of the
change (`Holds`); per server, that one refresh at most is out (`RefreshInv`), and that a cached answer which is out of date
was read before the flag changed, and past the TTL waits only for the poll (`StaleInv`); per command, that the age of the flag and
what is left of its grace make up the grace (`CommandInv`). For the minutes it counts: those who carry a minute's run to the queue and
the runs queued are at most one if the minute is in the ledger, and one more per fault.

## Module: Import

`Import` loads an export directory into a site (`engine/import_run.go`, `import_batch.go`,
`import_order.go`). `plan` is the order of the DocTypes and the links left for the end; `site` what is under
each line's id; `ledger`, `errors` and `run` the three tables of the import; `loader[l]` a call of
`Import`: the cursor and counts as it holds them in memory, and what its transaction has written.

| Action | Code |
|---|---|
| `ImportOrder`, `fewestDeps`, `Deferred` | the order: who waits on nobody first, a cycle broken at the one that waits on the fewest |
| `Begin`, `openImportRun` | a new run, or `--resume`, even of a run another process is at |
| `importBatch` | the next lines, the next DocType, the pause after `--max-batches`, and the end with `verifyDeferredLinks` |
| `Look`, `importOne` | the question to the ledger and the site, and the write, which waits for a key another transaction holds |
| `Commit`, `Broken` | documents, ledger rows and cursor as one; a failed batch is replayed once, record by record |
| `saveImportRun`, `Stop`, `User` | the end of a call, its death, and a user of the site under an id of the export |

| Run | Instance | Question |
|---|---|---|
| `import_kept` | 2 DocTypes of 2 lines, batches of 2, two batches a call, links one way, the other, both and to itself, a bad line or none, one process with two runs and two processes with one run, 1 fault; fairness | is a line loaded once and none passed over, does the order serve, is "completed" true, does a resumed run end |

Two lines in a batch are a commit that holds two records and a replay in which one of them
fails. A fault is a stop, a broken commit (heard or not) or a user's write, at any point. Fairness:
weak for a call's next step; strong for the resumption of a run that is not finished, because between two
calls a process may be busy with another run. import.md's `--resume` and `max_batches` are for an operator who
calls again until the run is finished; without one nothing ends.

Checked: `LoadedOnce`, `NothingPassedOver` (every line behind a cursor is in the ledger or has its reason),
`OrderServes`, `CompletedIsLoaded`, `Finishes`. Counterexamples: `ImportStarved`, a run that is resumed one
batch at a time never passes a finished DocType, because reading none counts as a batch; `ImportUncounted`, a
run whose call died before it saved its count of errors says it completed. A remark: when a cycle is to
be broken, `fewestDeps` (import_order.go:115) looks at every DocType that is left and may pick one that
only waits on the cycle, so more links than needed are left for the end, though all of
them are verified there.

Left out: the dry run (one transaction that is rolled back), the mapping of columns and values, the
spreadsheet importer, and the reset of series at the end, one statement.

Proved (`ImportProofs`), for any number of DocTypes, lines, processes, runs and any sizes of batch:
`TypeCorrect`, `LoadedOnceHolds`, `NothingPassedOverHolds`, `OrderServesHolds`, `CompletedIsLoadedHolds`, and of
the order itself `OrderIsTopological`, that without a circle of links only the links of a DocType to itself are left for
the end. The invariant says the same of a run's row (`RunInv`: nothing behind its cursor lacks a ledger row or a
reason) and of a call's memory (`CallInv`), where what the transaction has written stands in for the ledger until the commit; `Apart`
says that no two transactions hold a key, because the second waits on the unique index. The order is proved by induction,
over sets of numbers rather than over an operator: the steps at which the claim fails would have a least one (`LeastOf`). The
sorted list has each DocType once because a list of a finite set, as long as the set, is a bijection.

## Module: Access

`Access` decides who may read and write what: role rows, access scopes and shares (`engine/perm.go`,
`share.go`, `fieldperm.go`). The code says it twice. A document at hand is checked by a walk *up* from its
values (`HasPermission`, `withinScope`); a list is filtered by a query that walks *down* from the user's rules
(`permissionFilters`, `strictScopeFilters`, `childListFilters`). The two are translated separately, and that they agree
is the first property. Three DocTypes carry every case: Territory is a tree, an Order links to one, and
its Line is a child row with a Dynamic Link. `tab`, `order`, `rules` and `shares` are the tables; `lifted` is history:
what an unscoped System Manager allowed a share to lift.

`SaveTerritory` and `SaveOrder` are `Save` with its two checks (of the stored document and of the new one),
`DBSetParent` and `DBSetOrder` are a `setValue` from a client (scopes, and no role); `DBSetLine` is one of a child row,
which asks of the row's own values under its Order's rules and share, and never of the Order (`doc.go:1277-1288`). `ShareDoc`,
`UnshareDoc` and `WriteRule` change rights while others write. Each is one request; what they read is
committed. The walk up and the walk down are least fixed points, written without recursion.

| Run | Instance | Question |
|---|---|---|
| `access_kept` | 3 territories, 2 Orders, four users, four sites, three writes in any order | do lists and reads agree, does an override come from whom it must, does a write leave or draw something into a scope |
| `access_moved_out` | the same, two writes | a Territory is moved out of the branch its user is limited to |

The four sites are a branch rule, a rule for the rows of another DocType, an author who owns and is
scoped in one DocType only, and a user with nothing but shares. A chain of three changes is a
grant, a re-grant with less, and the use of it; or a rule, a move and a write. No fairness and no liveness:
nobody has to do anything, and when the changes are spent nothing can be done, so deadlock is not an error.

Checked: `ListsAgree`, of documents and of child rows; `OutsideIsGiven`; `OrdersStay`, an Order is within its writer's scopes as
he leaves it, and a Line set by itself takes out none that was in (one that was out stays out of both, and may be
written all the same: `AccessLineAlone` has that counterexample); `NothingDrawnIn`. The last has two exceptions,
both of which the first versions of the property ran into: a rule over Territories that
applies only within another DocType does not limit the Territories themselves, so their user may move
one, with the Orders linked to it, into his own branch; and so may whoever holds a Territory by an
override.

Finding. `checkUserPermissionsFor` says it refuses a move out of scope "because the parent checked is the one being
saved". It walks up from the document's id first, and before the write that id still hangs where it was: the
walk succeeds and the new parent is never looked at. The test of it moves the node under a leaf, which
`checkTree` refuses for another reason.

Left out: create and delete (they ask the same checks of one document), the permissions controllers add,
workflow states, portals and tenants, which each only narrow what is left; rights kept in a cache (`CacheSync`).

Proved (`AccessProofs`), for any trees, Orders, users, roles, rules and number of changes: `TypeCorrect`
(the territories stay a forest of groups), `ListsAgreeHolds`, `OutsideIsGivenHolds`, `OrdersStayHolds`,
`NothingDrawnInHolds`. The invariant is small: the types, and `LiftedIsGiven`, that a right which a share lifts was given
by one who may. What is hard is in the operators. The walk up from a document and the walk down from
a user's rules are least fixed points of the two directions of one relation, and each is the complement of what
the other cannot reach: the rows from which the walk up meets no rule are a set the walk down cannot enter, and the rows
the walk down does not reach are a set the walk up cannot leave (`UpIsDown`). `NothingDrawnIn` needs that a
move cannot make a row's walk reach a rule it did not reach before unless the row that moves was allowed to
(`MoveDrawsNothing`).

## Counterexamples kept beside the runs

Three disagreements between the code and what it says of itself are runs of the project and its
findings: `document_submitted_deleted`, `cachesync_uncommitted` and `access_moved_out`. The others each have a configuration of
their own, named for what it shows, on the smallest instance that shows it. TLC reports each
of these properties violated; the passing runs state the same question with the
window named, or leave out what opens it.

| Configuration | Property | What is said | What the code does |
|---|---|---|---|
| `JobQueueCancelLost` | `CancelIsActedOn` | docs/agent/ops.md:498: the request is recorded and the worker acts on it | a cancel just before a failing attempt is written leaves a queued row that no claim takes |
| `JobQueueKeyedSweep` | `RunsEnd` | jobs.go:25: if the process crashes, the job returns to the queue when the lease expires | two expired rows of one unique key make the sweep's UPDATE fail as a whole, every time |
| `JobQueueFinalTooSoon` | `FinalWhenOver` | docs/agent/ops.md:475: `job.final` is false while another attempt is still coming | a worker that lost its lease reads the later attempt's cancel request, and says final while that attempt runs |
| `JobQueueDoubleRetry` | `OneCopyPerFailure` | jobs_admin.go:99: a second retry is refused unless forced | two unforced retries at once queue two copies |
| `CacheSyncStaleSession` | `CurrentWhenSynced` | auth.go:419: the cached session goes with the row, in this process and the others | a read that overlaps the revocation caches it again, until its TTL |
| `DocumentOneMillisecond` | `StaleIsRefused` | docs/agent/portal.md:118: send `modified` to be refused if someone saved in between | a version of the same millisecond passes for the one that was read |
| `DocumentHookAssigns` | `OnlyTransitionsMove` | docs/agent/workflows.md:105: `SaveDoc` refuses a write to docstatus or the state outside a transition | both are checked before the hooks, and a hook that assigns one has it written |
| `DeliveryStuck` | `RetryingIsScheduled` | docs/agent/webhooks.md:141: Retrying means that another attempt is scheduled | a delivery whose job was cancelled stays Retrying |
| `DeliveryTimedOut` | `QueuedIsUntried` | docs/agent/mail.md:113: Queued is a mail not yet attempted | an app's transport took it, and the job's timeout interrupted the run before it was recorded |
| `DeliveryTakenBack` | `FailedDidNotGo` | docs/agent/mail.md:115: Failed is a mail that did not go | a refused mail is recorded as Failed before its status is read: one that was Sent is taken back |
| `TreeLateMerge` | `AlwaysAForest` | docs/agent/trees.md:50, 54: no path makes a loop or a child of a leaf | a merge makes its checks before it locks the tree (merge.go:238) |
| `TreeDeadlock` | `NeverDeadlocks` | tree.go:37: two transactions on one tree cannot deadlock | `ApplyWorkflow` takes the row before the tree |
| `MaintenanceSecondRun` | `PausedForTheRun` | docs/agent/backup.md:76: `--maintenance` pauses the site for the run | the first of two commands to end resumes the site under the other |
| `MaintenanceLateAnswer` | `AnswersWithinTTL` | maintenance.go:34: the TTL bounds how long a replica goes on | the bound is twice that: a poll inside the TTL is answered from the cache |
| `MaintenanceUnpolled` | `AnswersWithinTwice` | maintenance.go:34, as above | `ddcore jobs work` does not poll: what it answers during a refresh is of any age |
| `MaintenanceLostRun` | `NoRunIsLost` | jobs.go:1012: a job runs once however many replicas there are | one claims the minute and cannot queue it, the other has stood down |
| `AccessLineAlone` | `LinesFollowTheirOrder` | docs/agent/scopes.md:69: a row read on its own is refused when its parent is out of reach | a row set on its own (doc.go:1277) is asked about its own values, and its Order may be out of reach |
| `ImportStarved` | `Finishes` | docs/agent/import.md:44: `max_batches` advances a long load over several calls | reading no line of a finished DocType counts as a batch: one batch a call never gets past the first |
| `ImportUncounted` | `CompletedMeansLoaded` | docs/superpowers/plans/2026-09-22-resumable-import.md:178: a resume gives identical counts | the count of errors is saved at the end of a call only: a resumed run says it completed |

## The plan

The order is that of what a failure would cost. Modelled so far: the queue and its abstract
specification, the process cache, one document, deliveries over the abstract queue, trees over
their own, maintenance with the scheduler's tick, imports, and who may do what. Each safety
property and each action property that a passing run checks is also a theorem. What is left to prove are facts behind them:

| Theorem | Of | Argument |
|---|---|---|
| any number of retries by hand: one copy per job they queue, and one per fault | `Delivery` | a token for each job a retry queued beyond the first, in place of one for the message |
| `Document` implements a register with atomic updates when every copy carries `modified` and milliseconds separate the versions | `Document` | the optimistic check makes the read of a save and its commit one step |
| links left for the end are those of DocTypes on a circle, or behind one | `Import` | the DocTypes placed while somebody waits on nobody are outside every circle |

Then, where the model can grow: an import's inserts in `Tree`; `setOnlyOnce`, amend and insert in `Document`; the transaction of a
keyed enqueue in `JobQueue`; tokens, the vault's rekey, due notifications and the order
of series, one table each.

Abstract specifications: `JobLifecycle` and `Forest` (done), and a register with atomic updates
that `Document` implements when every copy carries `modified` and milliseconds separate its versions.

Each run stays small (a few minutes, two actors, the shortest history in which the case
happens), and a new one is added only for a question no run asks. Where a variant is a
matter of a flag, the initial state chooses it: `governed` in `Document`, `kind` in `Delivery`, the deployments,
exports, hierarchies and sites of the others.

## What is not modelled, and why

- Queries, searches, exports, printing and conversions are sequential
  computations over one snapshot; unit tests of the repository reach them well, and a model
  would repeat the code. What they share with writes, the filters that a user's rights
  become, is in `Access`; the rights kept in a cache are in `CacheSync`.
- Tenancy is row-level security: it filters every statement, and no interleaving changes
  which rows a statement sees. In the queue it only filters the claim.
- SMTP, HTTP receivers, identity providers, S3 and PostgreSQL are outside `src/`. The
  models take from PostgreSQL what the code relies on: read committed statements, row and
  advisory locks held to the end of a transaction, unique indexes, deadlock detection, NOTIFY delivered at commit.
- The desk, the SDKs, the command line (its two maintenance windows aside), type generation, scaffolding and
  watch mode hold no state that several actors change.
- Sequences, tokens and throttling are single statements; migrations run in one transaction under one lock;
  the vault's rekey and the settling of notifications are passes under row locks. They have no
  module. The lock order of two series is
  listed as a hazard without a property.

## What is model-checked only

Liveness: `JobsSettle`, which contains `RunsEnd`, `RevocationReaches`, `ComesToAnOutcome`,
`EveryTransactionEnds`, `Reopens` and `Finishes` are checked by TLC under the stated fairness and not
proved: temporal reasoning under fairness needs ENABLED, which the proof system does not
handle. The counterexamples have nothing to prove.

Induction over data is used once, in the order of an import, and is possible because it is stated over a set of
numbers; the library's induction theorems, which take an operator as a parameter, cannot be applied by the
installed provers, and nothing here rests on them.

The type invariants are theorems of all eight models, and `OneOwner` and `DoneMeansCommitted` of the queue too; a
run checks `TypeOK` only where a mistake in the code would show in it first.

## Running

`tlc -config TreeKept.cfg MCTree` checks one instance, and likewise for the other
configurations, each named after its model; `tlapm TreeProofs.tla` checks the proofs of one
module. The proofs of a model are in the module of its name with `Proofs` after it; the longest
(`JobQueueProofs`, `DeliveryProofs`) take some minutes.

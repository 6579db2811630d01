------------------------------ MODULE JobQueue ------------------------------
(***************************************************************************)
(* The background job queue of the runtime (internal/engine/jobs.go and    *)
(* jobs_admin.go): the rows of ddcore_job, the worker loop with its lease,  *)
(* heartbeat and fenced terminal writes, the sweep of expired leases, the   *)
(* administrative cancel, retry and purge, and the onFailure callbacks.     *)
(*                                                                         *)
(* Every SQL statement or transaction is one step.  Time is not a number:   *)
(* a lease is live or expired, a job is due or not.  Names, arguments,      *)
(* queues and results are left out; max_attempts is one constant.           *)
(***************************************************************************)
EXTENDS Naturals, FiniteSets

CONSTANTS
  Worker,       \* worker goroutines, each in a process of its own
  Admin,        \* request handlers that cancel, retry and purge
  Key,          \* values of uniqueKey
  NoKey,        \* unique_key IS NULL
  MaxJobs,      \* bound: rows ever inserted
  MaxAttempts,  \* max_attempts of every job
  MaxFaults,    \* bound: crashes, stalled leases and failed terminal writes
  MaxStops,     \* bound: graceful shutdowns of a worker
  MaxCancels,   \* bound: cancel requests
  MaxRetries,   \* bound: retries by an administrator
  MaxPauses,    \* bound: maintenance windows
  MaxPurges,    \* bound: rows the retention pass deletes
  ForceFlags    \* the values of "force" the callers of RetryJob pass

ASSUME NoKeyAssumption == NoKey \notin Key
ASSUME BoundsAssumption ==
  /\ MaxJobs \in Nat /\ MaxAttempts \in Nat \ {0}
  /\ MaxFaults \in Nat /\ MaxStops \in Nat /\ MaxCancels \in Nat
  /\ MaxRetries \in Nat /\ MaxPauses \in Nat /\ MaxPurges \in Nat
ASSUME ForceAssumption == ForceFlags \subseteq BOOLEAN

VARIABLES
  job,      \* the table ddcore_job, by id
  worker,   \* what each worker holds in memory
  admin,    \* what each request handler holds in memory
  paused,   \* the site's maintenance flag, as e.Paused reads it
  told,     \* history: every onFailure call made
  commits,  \* history: the starts of each job whose body committed
  spent     \* how much of each bound has been used

vars == <<job, worker, admin, paused, told, commits, spent>>

JobId    == 1..MaxJobs
Terminal == {"done", "failed", "cancelled"}
Status   == Terminal \cup {"absent", "queued", "running", "purged"}

JobRow ==
  [status: Status, attempts: Nat, starts: Nat, key: Key \cup {NoKey},
   lease: {"none", "live", "expired"}, cancelReq: BOOLEAN, due: BOOLEAN,
   finished: BOOLEAN, retryOf: 0..MaxJobs, retriedAs: 0..MaxJobs]

Notice ==
  [job: JobId, starts: Nat, by: {"worker", "sweep", "cancel"},
   reason: {"error", "timeout", "cancelled"}, final: BOOLEAN]

\* pc names the statement the worker is about to run; run is its process:
\* "draining" once Stop cancelled the claim context, "interrupted" once the
\* grace ran out and the run context was cancelled too.
WorkerMem ==
  [pc: {"off", "idle", "sweep", "report", "claim", "start", "body", "ended", "tell"},
   run: {"up", "draining", "interrupted"},
   job: 0..MaxJobs, attempt: Nat, starts: Nat,
   beat: BOOLEAN, stop: {"no", "lost", "cancelled"},
   end: {"none", "ok", "error", "timeout", "maintenance"},
   notices: SUBSET Notice]

AdminMem ==
  [pc: {"idle", "tell", "stamp"}, job: 0..MaxJobs, new: 0..MaxJobs, notices: SUBSET Notice]

Bounds == {"faults", "stops", "cancels", "retries", "pauses", "purges"}

BlankRow ==
  [status |-> "absent", attempts |-> 0, starts |-> 0, key |-> NoKey,
   lease |-> "none", cancelReq |-> FALSE, due |-> FALSE, finished |-> FALSE,
   retryOf |-> 0, retriedAs |-> 0]

Idle(r) ==
  [pc |-> "idle", run |-> r, job |-> 0, attempt |-> 0, starts |-> 0,
   beat |-> FALSE, stop |-> "no", end |-> "none", notices |-> {}]

Off == [Idle("up") EXCEPT !.pc = "off"]

AdminIdle == [pc |-> "idle", job |-> 0, new |-> 0, notices |-> {}]

Init ==
  /\ job = [j \in JobId |-> BlankRow]
  /\ worker = [w \in Worker |-> Idle("up")]
  /\ admin = [a \in Admin |-> AdminIdle]
  /\ paused = FALSE
  /\ told = {}
  /\ commits = [j \in JobId |-> {}]
  /\ spent = [b \in Bounds |-> 0]

Limit(b) ==
  CASE b = "faults"  -> MaxFaults
    [] b = "stops"   -> MaxStops
    [] b = "cancels" -> MaxCancels
    [] b = "retries" -> MaxRetries
    [] b = "pauses"  -> MaxPauses
    [] b = "purges"  -> MaxPurges

Spend(b) == spent[b] < Limit(b) /\ spent' = [spent EXCEPT ![b] = @ + 1]

-----------------------------------------------------------------------------
(* Rows and the partial unique index.                                      *)

\* ddcore_job_unique holds in table t: no two queued rows share a key.
IndexHolds(t) ==
  \A i, j \in JobId :
    (i # j /\ t[i].status = "queued" /\ t[j].status = "queued" /\ t[i].key # NoKey)
      => t[i].key # t[j].key

\* The next value of the id sequence.
Fresh(j) == job[j].status = "absent" /\ \A i \in 1..(j - 1) : job[i].status # "absent"

NewRow(k, of) == [BlankRow EXCEPT !.status = "queued", !.key = k, !.due = TRUE, !.retryOf = of]

\* What a claim makes of a row.
Claimed(r) ==
  [r EXCEPT !.status = "running", !.attempts = @ + 1, !.starts = @ + 1, !.lease = "live"]

\* What an attempt that ended without success makes of its row while attempts
\* remain: back to queued after the retry delay.
Requeued(r) ==
  [r EXCEPT !.status = "queued", !.lease = "none", !.finished = FALSE, !.due = FALSE]

Ended(r, s) == [r EXCEPT !.status = s, !.lease = "none", !.finished = TRUE]

\* Mutant: the attempt is given back twice.
MutGivenBack(r) ==
  [r EXCEPT !.status = "queued", !.attempts = @ - 2, !.lease = "none", !.due = TRUE]

\* The attempt given back: an interruption that nothing is to blame for.
GivenBack(r) ==
  [r EXCEPT !.status = "queued", !.attempts = @ - 1, !.lease = "none", !.due = TRUE]

\* Mutant: off by one in the comparison with max_attempts.
MutFailedAttempt(r) ==
  IF r.attempts <= MaxAttempts THEN Requeued(r)
  ELSE [Ended(r, "failed") EXCEPT !.due = FALSE]

FailedAttempt(r) ==
  IF r.attempts < MaxAttempts THEN Requeued(r)
  ELSE [Ended(r, "failed") EXCEPT !.due = FALSE]

\* Mutant: the sweep gives the attempt of a dead worker back.
MutSwept(r) ==
  IF r.cancelReq THEN Ended(r, "cancelled")
  ELSE IF r.attempts < MaxAttempts THEN GivenBack(r)
  ELSE Ended(r, "failed")

\* Mutant: the sweep only puts back, and leaves a last attempt running.
MutSweptLast(r) ==
  IF r.cancelReq THEN Ended(r, "cancelled")
  ELSE IF r.attempts < MaxAttempts THEN Requeued(r)
  ELSE r

\* The three ways the sweep's single UPDATE decides.
Swept(r) ==
  IF r.cancelReq THEN Ended(r, "cancelled")
  ELSE IF r.attempts < MaxAttempts THEN Requeued(r)
  ELSE Ended(r, "failed")

Stale(j) == job[j].status = "running" /\ job[j].lease = "expired"

\* Mutant: the claim ignores a recorded cancellation.
MutClaimable(j) == job[j].status = "queued" /\ job[j].due

Claimable(j) == job[j].status = "queued" /\ job[j].due /\ ~job[j].cancelReq

\* The fence of every terminal write and of the lease renewal.
Owns(w) ==
  LET m == worker[w] IN
    /\ m.job \in JobId
    /\ job[m.job].status = "running"
    /\ job[m.job].attempts = m.attempt

\* A worker that is alive and has the job as its current work.
Held(j) ==
  \E w \in Worker :
    worker[w].job = j /\ Owns(w) /\ worker[w].pc \in {"start", "body", "ended"}

-----------------------------------------------------------------------------
(* Callers: enqueue, cancel, retry, purge.                                 *)

\* Enqueue inserts unless a queued row already holds the key; then it returns
\* that row's id and changes nothing.  Refused while the site is paused.
Enqueue(k) ==
  /\ ~paused
  /\ \E j \in JobId :
       /\ Fresh(j)
       /\ LET new == [job EXCEPT ![j] = NewRow(k, 0)] IN
            IndexHolds(new) /\ job' = new
  /\ UNCHANGED <<worker, admin, paused, told, commits, spent>>

\* Mutant: cancelling a queued job calls no onFailure.
MutCancelQueued(a, j) ==
  /\ admin[a].pc = "idle"
  /\ job[j].status = "queued"
  /\ Spend("cancels")
  /\ job' = [job EXCEPT ![j] = [Ended(@, "cancelled") EXCEPT !.cancelReq = TRUE]]
  /\ UNCHANGED <<worker, admin, paused, told, commits>>

\* CancelJob on a queued row: terminal at once; its onFailure is still to run.
CancelQueued(a, j) ==
  /\ admin[a].pc = "idle"
  /\ job[j].status = "queued"
  /\ Spend("cancels")
  /\ job' = [job EXCEPT ![j] = [Ended(@, "cancelled") EXCEPT !.cancelReq = TRUE]]
  /\ admin' = [admin EXCEPT ![a] =
       [AdminIdle EXCEPT !.pc = "tell",
          !.notices = {[job |-> j, starts |-> job[j].starts, by |-> "cancel",
                        reason |-> "cancelled", final |-> TRUE]}]]
  /\ UNCHANGED <<worker, paused, told, commits>>

CancelTell(a) ==
  /\ admin[a].pc = "tell"
  /\ told' = told \cup admin[a].notices
  /\ admin' = [admin EXCEPT ![a] = AdminIdle]
  /\ UNCHANGED <<job, worker, paused, commits, spent>>

\* CancelJob on a running row records the request and nothing else; asking
\* again changes nothing.
CancelRunning(j) ==
  /\ job[j].status = "running"
  /\ ~job[j].cancelReq
  /\ Spend("cancels")
  /\ job' = [job EXCEPT ![j].cancelReq = TRUE]
  /\ UNCHANGED <<worker, admin, paused, told, commits>>

\* RetryJob's INSERT ... SELECT: a copy without the key.
RetryInsert(a, j, force) ==
  /\ admin[a].pc = "idle"
  /\ job[j].status \in {"failed", "cancelled"}
  /\ force \/ job[j].retriedAs = 0
  /\ Spend("retries")
  /\ \E n \in JobId :
       /\ Fresh(n)
       /\ job' = [job EXCEPT ![n] = NewRow(NoKey, j)]
       /\ admin' = [admin EXCEPT ![a] = [AdminIdle EXCEPT !.pc = "stamp", !.job = j, !.new = n]]
  /\ UNCHANGED <<worker, paused, told, commits>>

\* RetryJob's second statement, which finds no row once it has been purged.
RetryStamp(a) ==
  /\ admin[a].pc = "stamp"
  /\ job' = [job EXCEPT ![admin[a].job] =
       IF @.status = "purged" THEN @ ELSE [@ EXCEPT !.retriedAs = admin[a].new]]
  /\ admin' = [admin EXCEPT ![a] = AdminIdle]
  /\ UNCHANGED <<worker, paused, told, commits, spent>>

\* The process dies between the two halves of a handler.
AdminCrash(a) ==
  /\ admin[a].pc # "idle"
  /\ Spend("faults")
  /\ admin' = [admin EXCEPT ![a] = AdminIdle]
  /\ UNCHANGED <<job, worker, paused, told, commits>>

\* The retention pass: the status whitelist and a finish time old enough.
Purge(j) ==
  /\ job[j].status \in Terminal
  /\ job[j].finished
  /\ Spend("purges")
  /\ job' = [job EXCEPT ![j] = [BlankRow EXCEPT !.status = "purged", !.key = job[j].key]]
  /\ UNCHANGED <<worker, admin, paused, told, commits>>

-----------------------------------------------------------------------------
(* The worker loop.                                                        *)

Set(w, m) == worker' = [worker EXCEPT ![w] = m]

Goto(w, p) == Set(w, [worker[w] EXCEPT !.pc = p])

\* One iteration begins: not stopping, and the site is not paused.
Loop(w) ==
  /\ worker[w].pc = "idle" /\ worker[w].run = "up"
  /\ ~paused
  /\ Goto(w, "sweep")
  /\ UNCHANGED <<job, admin, paused, told, commits, spent>>

SweptTable == [j \in JobId |-> IF Stale(j) THEN Swept(job[j]) ELSE job[j]]

SweepNotice(j) ==
  [job |-> j, starts |-> job[j].starts, by |-> "sweep",
   reason |-> IF job[j].cancelReq THEN "cancelled" ELSE "error",
   final |-> Swept(job[j]).status # "queued"]

\* requeueStale: one UPDATE over every expired lease, and its RETURNING rows.
Sweep(w) ==
  /\ worker[w].pc = "sweep"
  /\ IndexHolds(SweptTable)
  /\ job' = SweptTable
  /\ LET stale == {j \in JobId : Stale(j)} IN
       Set(w, [worker[w] EXCEPT !.pc = IF stale = {} THEN "claim" ELSE "report",
                                !.notices = {SweepNotice(j) : j \in stale}])
  /\ UNCHANGED <<admin, paused, told, commits, spent>>

\* The UPDATE fails as a whole: it would break the unique index, or the claim
\* context is already cancelled.  The error is logged and the loop goes on.
SweepFails(w) ==
  /\ worker[w].pc = "sweep"
  /\ ~IndexHolds(SweptTable) \/ worker[w].run # "up"
  /\ Goto(w, "claim")
  /\ UNCHANGED <<job, admin, paused, told, commits, spent>>

\* runOnFailure for one swept row.
ReportSwept(w) ==
  /\ worker[w].pc = "report"
  /\ \E n \in worker[w].notices :
       /\ told' = told \cup {n}
       /\ Set(w, [worker[w] EXCEPT !.notices = @ \ {n},
                                   !.pc = IF worker[w].notices = {n} THEN "claim" ELSE "report"])
  /\ UNCHANGED <<job, admin, paused, commits, spent>>

\* claimAndRun's transaction.  A row another statement has locked is skipped,
\* so any claimable row may be the lowest one left.
Claim(w) ==
  /\ worker[w].pc = "claim" /\ worker[w].run # "interrupted"
  /\ \E j \in JobId :
       /\ Claimable(j)
       /\ job' = [job EXCEPT ![j] = Claimed(job[j])]
       /\ Set(w, [Idle(worker[w].run) EXCEPT !.pc = "start", !.job = j,
                    !.attempt = job[j].attempts + 1, !.starts = job[j].starts + 1, !.beat = TRUE])
  /\ UNCHANGED <<admin, paused, told, commits, spent>>

\* Nothing to claim, or the worker is stopping: back to the top of the loop.
NoClaim(w) ==
  /\ worker[w].pc = "claim"
  /\ worker[w].run # "up" \/ \A j \in JobId : ~Claimable(j)
  /\ Goto(w, "idle")
  /\ UNCHANGED <<job, admin, paused, told, commits, spent>>

\* onStart, in a transaction of its own, committed before the body.
OnStart(w) ==
  /\ worker[w].pc = "start"
  /\ Goto(w, "body")
  /\ UNCHANGED <<job, admin, paused, told, commits, spent>>

\* The body's transaction commits.  A cancellation may arrive as it does.
BodyCommits(w) ==
  /\ worker[w].pc = "body"
  /\ commits' = [commits EXCEPT ![worker[w].job] = @ \cup {worker[w].starts}]
  /\ Set(w, [worker[w] EXCEPT !.pc = "ended", !.beat = FALSE, !.end = "ok"])
  /\ UNCHANGED <<job, admin, paused, told, spent>>

\* onStart or the body fails: an error of its own or an interruption, the
\* deadline, or a write refused because the site is paused.
AttemptFails(w, e) ==
  /\ worker[w].pc \in {"start", "body"}
  /\ e = "maintenance" => paused
  /\ Set(w, [worker[w] EXCEPT !.pc = "ended", !.beat = FALSE, !.end = e])
  /\ UNCHANGED <<job, admin, paused, told, commits, spent>>

-----------------------------------------------------------------------------
(* The heartbeat of a running job.                                         *)

\* The renewal tick: fenced; no row back means the lease is lost.
Renew(w) ==
  /\ worker[w].pc \in {"start", "body"} /\ worker[w].beat
  /\ IF Owns(w)
     THEN /\ job' = [job EXCEPT ![worker[w].job].lease = "live"]
          /\ Set(w, IF job[worker[w].job].cancelReq
                    THEN [worker[w] EXCEPT !.stop = "cancelled", !.beat = FALSE]
                    ELSE worker[w])
     ELSE /\ Set(w, [worker[w] EXCEPT !.stop = "lost", !.beat = FALSE])
          /\ UNCHANGED job
  /\ UNCHANGED <<admin, paused, told, commits, spent>>

\* The cancellation poll: by id alone, whichever attempt the row is on.
Poll(w) ==
  /\ worker[w].pc \in {"start", "body"} /\ worker[w].beat
  /\ job[worker[w].job].cancelReq
  /\ Set(w, [worker[w] EXCEPT !.stop = "cancelled", !.beat = FALSE])
  /\ UNCHANGED <<job, admin, paused, told, commits, spent>>

-----------------------------------------------------------------------------
(* The switch at the end of claimAndRun.                                   *)

\* A terminal write: fenced on the attempt, and only logged when it fails --
\* because the row would break the unique index, or the database is away.
Write(w, r) ==
  LET new == [job EXCEPT ![worker[w].job] = r] IN
    \/ /\ job' = IF Owns(w) /\ IndexHolds(new) THEN new ELSE job
       /\ UNCHANGED spent
    \/ /\ Owns(w)
       /\ Spend("faults")
       /\ UNCHANGED job

\* Failed: the attempt is over for this worker and onFailure is to be called.
ToTell(w, reason, final) ==
  Set(w, [worker[w] EXCEPT !.pc = "tell",
            !.notices = {[job |-> worker[w].job, starts |-> worker[w].starts,
                          by |-> "worker", reason |-> reason, final |-> final]}])

FinishDone(w) ==
  /\ worker[w].pc = "ended" /\ worker[w].end = "ok"
  /\ Write(w, Ended(job[worker[w].job], "done"))
  /\ Set(w, Idle(worker[w].run))
  /\ UNCHANGED <<admin, paused, told, commits>>

\* Mutant: the cancellation is looked at before the result.
MutFinishCancelled(w) ==
  /\ worker[w].pc = "ended"
  /\ worker[w].stop = "cancelled"
  /\ Write(w, Ended(job[worker[w].job], "cancelled"))
  /\ ToTell(w, "cancelled", TRUE)
  /\ UNCHANGED <<admin, paused, told, commits>>

FinishCancelled(w) ==
  /\ worker[w].pc = "ended" /\ worker[w].end # "ok"
  /\ worker[w].stop = "cancelled"
  /\ Write(w, Ended(job[worker[w].job], "cancelled"))
  /\ ToTell(w, "cancelled", TRUE)
  /\ UNCHANGED <<admin, paused, told, commits>>

Interrupted(m) ==
  m.end = "maintenance" \/ (m.run = "interrupted" /\ m.end # "timeout")

GiveBack(w) ==
  /\ worker[w].pc = "ended" /\ worker[w].end # "ok"
  /\ worker[w].stop # "cancelled"
  /\ Interrupted(worker[w])
  /\ Write(w, GivenBack(job[worker[w].job]))
  /\ Set(w, Idle(worker[w].run))
  /\ UNCHANGED <<admin, paused, told, commits>>

\* Mutant: onFailure is told "final" one attempt too early.
MutFinishFailed(w) ==
  /\ worker[w].pc = "ended" /\ worker[w].end # "ok"
  /\ worker[w].stop # "cancelled"
  /\ ~Interrupted(worker[w])
  /\ Write(w, FailedAttempt(job[worker[w].job]))
  /\ ToTell(w, worker[w].end, worker[w].attempt + 1 >= MaxAttempts)
  /\ UNCHANGED <<admin, paused, told, commits>>

FinishFailed(w) ==
  /\ worker[w].pc = "ended" /\ worker[w].end # "ok"
  /\ worker[w].stop # "cancelled"
  /\ ~Interrupted(worker[w])
  /\ Write(w, FailedAttempt(job[worker[w].job]))
  /\ ToTell(w, worker[w].end, worker[w].attempt >= MaxAttempts)
  /\ UNCHANGED <<admin, paused, told, commits>>

\* runOnFailure of the attempt that just ended, whether or not its write hit.
Tell(w) ==
  /\ worker[w].pc = "tell"
  /\ told' = told \cup worker[w].notices
  /\ Set(w, Idle(worker[w].run))
  /\ UNCHANGED <<job, admin, paused, commits, spent>>

-----------------------------------------------------------------------------
(* Processes, time and maintenance.                                        *)

\* Workers.Stop: nothing new is claimed.
Stop(w) ==
  /\ worker[w].pc # "off" /\ worker[w].run = "up"
  /\ Spend("stops")
  /\ Set(w, [worker[w] EXCEPT !.run = "draining"])
  /\ UNCHANGED <<job, admin, paused, told, commits>>

\* The grace ran out: the run context is cancelled, and the heartbeat with it.
Interrupt(w) ==
  /\ worker[w].run = "draining"
  /\ Set(w, [worker[w] EXCEPT !.run = "interrupted", !.beat = FALSE])
  /\ UNCHANGED <<job, admin, paused, told, commits, spent>>

Exit(w) ==
  /\ worker[w].pc = "idle" /\ worker[w].run # "up"
  /\ Set(w, Off)
  /\ UNCHANGED <<job, admin, paused, told, commits, spent>>

Crash(w) ==
  /\ worker[w].pc # "off"
  /\ Spend("faults")
  /\ Set(w, Off)
  /\ UNCHANGED <<job, admin, paused, told, commits>>

Restart(w) ==
  /\ worker[w].pc = "off"
  /\ Set(w, Idle("up"))
  /\ UNCHANGED <<job, admin, paused, told, commits, spent>>

\* Two minutes without a renewal.  With a live worker on the job that takes a
\* stall of its process or its database connection.
LeaseExpires(j) ==
  /\ job[j].status = "running" /\ job[j].lease = "live"
  /\ IF Held(j) THEN Spend("faults") ELSE UNCHANGED spent
  /\ job' = [job EXCEPT ![j].lease = "expired"]
  /\ UNCHANGED <<worker, admin, paused, told, commits>>

\* run_after has passed.
BecomesDue(j) ==
  /\ job[j].status = "queued" /\ ~job[j].due
  /\ job' = [job EXCEPT ![j].due = TRUE]
  /\ UNCHANGED <<worker, admin, paused, told, commits, spent>>

PauseOn ==
  /\ ~paused /\ paused' = TRUE
  /\ Spend("pauses")
  /\ UNCHANGED <<job, worker, admin, told, commits>>

PauseOff ==
  /\ paused /\ paused' = FALSE
  /\ UNCHANGED <<job, worker, admin, told, commits, spent>>

-----------------------------------------------------------------------------
WorkerStep(w) ==
  \/ Loop(w) \/ Sweep(w) \/ SweepFails(w) \/ ReportSwept(w)
  \/ Claim(w) \/ NoClaim(w) \/ OnStart(w) \/ BodyCommits(w)
  \/ \E e \in {"error", "timeout", "maintenance"} : AttemptFails(w, e)
  \/ FinishDone(w) \/ FinishCancelled(w) \/ GiveBack(w) \/ FinishFailed(w) \/ Tell(w)
  \/ Exit(w) \/ Restart(w)

Heartbeat(w) == Renew(w) \/ Poll(w)

AdminStep(a) == CancelTell(a) \/ RetryStamp(a)

AdminRequest(a) ==
  \E j \in JobId :
    CancelQueued(a, j) \/ \E f \in ForceFlags : RetryInsert(a, j, f)

Next ==
  \/ \E k \in Key \cup {NoKey} : Enqueue(k)
  \/ \E w \in Worker : WorkerStep(w)
  \/ \E w \in Worker : Heartbeat(w)
  \/ \E w \in Worker : Stop(w) \/ Interrupt(w) \/ Crash(w)
  \/ \E a \in Admin : AdminRequest(a) \/ AdminStep(a) \/ AdminCrash(a)
  \/ \E j \in JobId : CancelRunning(j) \/ Purge(j) \/ LeaseExpires(j) \/ BecomesDue(j)
  \/ PauseOn \/ PauseOff

Spec == Init /\ [][Next]_vars

-----------------------------------------------------------------------------
(* Invariants.                                                             *)

\* Every variable holds values of its type.
TypeOK ==
  /\ job \in [JobId -> JobRow]
  /\ worker \in [Worker -> WorkerMem]
  /\ admin \in [Admin -> AdminMem]
  /\ paused \in BOOLEAN
  /\ told \subseteq Notice
  /\ commits \in [JobId -> SUBSET Nat]
  /\ spent \in [Bounds -> Nat]

Working(w) == worker[w].pc \in {"start", "body", "ended"}

\* The fence on "attempts" is as strong as one on "starts", which never goes
\* down: although a give-back decrements attempts, a worker whose renewal or
\* terminal write would still match the row is the one that began the row's
\* latest run.  So a worker that lost its lease can never stamp its outcome
\* over the run of another.
FenceNamesOneRun ==
  \A w \in Worker :
    (Working(w) /\ Owns(w)) => job[worker[w].job].starts = worker[w].starts

\* At most one live worker can write to a running row.
OneOwner ==
  \A v, w \in Worker :
    (Working(v) /\ Working(w) /\ Owns(v) /\ Owns(w) /\ worker[v].job = worker[w].job) => v = w

\* Attempts never exceed max_attempts, a queued row always has one left, and a
\* run never costs more than one attempt: claims do not check max_attempts, so
\* this rests on every way back to the queue -- sweep, failure, give-back.
AttemptsBounded ==
  \A j \in JobId :
    /\ job[j].attempts <= MaxAttempts
    /\ job[j].attempts <= job[j].starts
    /\ job[j].status = "queued" => job[j].attempts < MaxAttempts
    /\ job[j].status = "running" => job[j].attempts > 0

\* Without a crash, a stalled lease or a failed write, the queue is
\* exactly-once: a job's body commits at most once, whatever is cancelled,
\* retried, paused or shut down around it, and never under a row that ends
\* failed or cancelled.
ExactlyOnceWithoutFaults ==
  spent["faults"] = 0 =>
    \A j \in JobId :
      /\ Cardinality(commits[j]) <= 1
      /\ job[j].status \in {"failed", "cancelled"} => commits[j] = {}

\* A row that says done had a body that committed, on its latest run.
DoneMeansCommitted ==
  \A j \in JobId : job[j].status = "done" => job[j].starts \in commits[j]

Pending(j) ==
  \/ \E w \in Worker : \E n \in worker[w].notices : n.job = j /\ n.final
  \/ \E a \in Admin : \E n \in admin[a].notices : n.job = j /\ n.final

\* A job that ended without success has its onFailure told so, with
\* final = true, or somebody is still about to: only a fault can lose it.
FailureIsTold ==
  spent["faults"] = 0 =>
    \A j \in JobId :
      job[j].status \in {"failed", "cancelled"} =>
        \/ Pending(j)
        \/ \E n \in told : n.job = j /\ n.final

\* Without a fault, and apart from keyed jobs whose way back to the queue the
\* index can refuse, onFailure hears of a run from one side only, and
\* final = true is the last word: the job neither runs nor waits after it.
FinalIsFinal ==
  spent["faults"] = 0 =>
    \A n \in told : job[n.job].key = NoKey =>
      /\ \A m \in told \ {n} :
           ~(m.job = n.job /\ m.starts = n.starts /\ {m.by, n.by} \subseteq {"worker", "sweep"})
      /\ n.final => job[n.job].status \in {"failed", "cancelled", "purged"}

-----------------------------------------------------------------------------
(* The promise to whoever enqueues: JobLifecycle, of which a row is one job. *)

PhaseOf ==
  [j \in JobId |->
     CASE job[j].status = "absent"  -> "none"
       [] job[j].status = "queued"  -> "waiting"
       [] job[j].status = "running" -> "active"
       [] job[j].status = "purged"  -> "gone"
       [] OTHER -> job[j].status]

Lifecycle ==
  INSTANCE JobLifecycle WITH
    Job <- JobId, phase <- PhaseOf,
    runs <- [j \in JobId |-> job[j].starts],
    asked <- [j \in JobId |-> job[j].cancelReq]

\* Every step of the queue is, for every job, a move the lifecycle allows: an
\* outcome is never overwritten, a job asked to be cancelled is never started
\* again, a job fails only after all its attempts, "starts" never goes down,
\* and only jobs that are over are purged.
ImplementsLifecycle == Lifecycle!Spec

-----------------------------------------------------------------------------
(* Liveness.                                                               *)

\* A process that runs takes its next step and one that is down is restarted;
\* an unrenewed lease runs out, a delay passes, a maintenance window closes.
Fairness ==
  /\ \A w \in Worker : WF_vars(WorkerStep(w)) /\ WF_vars(Heartbeat(w))
  /\ \A a \in Admin : WF_vars(AdminStep(a))
  /\ \A j \in JobId : WF_vars(~Held(j) /\ LeaseExpires(j)) /\ WF_vars(BecomesDue(j))
  /\ WF_vars(PauseOff)

FairSpec == Spec /\ Fairness

Gone(j) == job[j].status \in Terminal \cup {"purged"}

\* A run ends: a job whose worker died does not stay "running".
RunsEnd == \A j \in JobId : (job[j].status = "running") ~> (job[j].status # "running")

\* Every run ends, and a queued job comes to some outcome unless its
\* cancellation is asked for.
JobsSettle ==
  /\ RunsEnd
  /\ \A j \in JobId : (job[j].status = "queued") ~> (Gone(j) \/ job[j].cancelReq)

-----------------------------------------------------------------------------
(* What the documentation says, and the code does not do.                  *)

\* docs/agent/ops.md: a request to cancel a running job is acted on, and the
\* job ends (done if it commits first, cancelled otherwise).
CancelIsActedOn == \A j \in JobId : job[j].cancelReq ~> Gone(j)

\* docs/agent/ops.md: job.final is false while another attempt is coming, so
\* no later run of the job is under way once final = true has been said.
FinalWhenOver ==
  \A n \in told :
    n.final => ~(job[n.job].status = "running" /\ job[n.job].starts > n.starts)

\* jobs_admin.go: an unforced retry of a job that was already retried is
\* refused, so one failure has at most one copy.
OneCopyPerFailure ==
  \A i, j \in JobId : (i # j /\ job[i].retryOf # 0) => job[i].retryOf # job[j].retryOf
=============================================================================

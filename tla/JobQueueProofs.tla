--------------------------- MODULE JobQueueProofs ---------------------------
(***************************************************************************)
(* Theorems about JobQueue, for every set of workers, keys and bounds.      *)
(***************************************************************************)
EXTENDS JobQueue, FiniteSetTheorems, TLAPS

USE DEF JobId, Bounds

-----------------------------------------------------------------------------
(* What the helpers do to a row.                                           *)

\* Every way a row changes keeps it a row.
LEMMA RowTypes ==
  ASSUME NEW r \in JobRow
  PROVE  /\ Requeued(r) \in JobRow
         /\ \A s \in Terminal : Ended(r, s) \in JobRow
         /\ Swept(r) \in JobRow
         /\ FailedAttempt(r) \in JobRow
         /\ r.attempts > 0 => GivenBack(r) \in JobRow
<1> USE DEF JobRow, Status, Terminal
<1>1. Requeued(r) \in JobRow
  BY DEF Requeued
<1>2. \A s \in Terminal : Ended(r, s) \in JobRow
  BY DEF Ended
<1>3. Swept(r) \in JobRow
  BY <1>1, <1>2 DEF Swept
<1>4. FailedAttempt(r) \in JobRow
  BY <1>1, <1>2, ZenonT(60) DEF FailedAttempt
<1>5. r.attempts > 0 => GivenBack(r) \in JobRow
  <2>1. ASSUME NEW n \in Nat
        PROVE  [r EXCEPT !.status = "queued", !.attempts = n, !.lease = "none", !.due = TRUE] \in JobRow
    OBVIOUS
  <2>2. r.attempts \in Nat
    OBVIOUS
  <2>3. r.attempts > 0 => r.attempts - 1 \in Nat
    BY <2>2
  <2>4. QED
    BY <2>1, <2>3 DEF GivenBack
<1>6. QED
  BY <1>1, <1>2, <1>3, <1>4, <1>5

\* A new row and the row a purge leaves are rows.
LEMMA NewRowType ==
  ASSUME NEW k \in Key \cup {NoKey}, NEW of \in 0..MaxJobs
  PROVE  /\ NewRow(k, of) \in JobRow
         /\ [BlankRow EXCEPT !.status = "purged", !.key = k] \in JobRow
<1>1. BlankRow \in JobRow
  BY BoundsAssumption DEF BlankRow, JobRow, Status, Terminal
<1>2. NewRow(k, of) \in JobRow
  BY <1>1 DEF NewRow, JobRow, Status
<1>3. [BlankRow EXCEPT !.status = "purged", !.key = k] \in JobRow
  BY <1>1 DEF JobRow, Status
<1>4. QED
  BY <1>2, <1>3

\* Spending from a bound keeps the counters natural numbers.
LEMMA SpendType ==
  ASSUME spent \in [Bounds -> Nat], NEW b \in Bounds, Spend(b)
  PROVE  spent' \in [Bounds -> Nat]
BY DEF Spend
-----------------------------------------------------------------------------
(* The inductive invariant.                                                *)

\* A row on its own: attempts and starts, and what "absent" and "done" mean.
RowInv(j) ==
  /\ job[j].attempts <= MaxAttempts
  /\ job[j].attempts <= job[j].starts
  /\ job[j].status = "queued" => job[j].attempts < MaxAttempts
  /\ job[j].status = "running" => job[j].attempts > 0
  /\ job[j].status = "absent" => job[j].starts = 0 /\ ~job[j].cancelReq
  /\ job[j].status = "done" => job[j].starts \in commits[j]

\* What a worker in the middle of a run knows of its row, which may have
\* moved on since: a later run of the row has spent more attempts, and a row
\* back in the queue has at least as many behind it.
WorkInv(w) ==
  LET m == worker[w]
      r == job[worker[w].job]
  IN Working(w) =>
       /\ m.job \in JobId /\ m.starts > 0
       /\ r.status # "purged" => r.starts >= m.starts
       /\ (r.status = "running" /\ r.starts = m.starts) => r.attempts = m.attempt
       /\ (r.status = "running" /\ r.starts > m.starts) => r.attempts > m.attempt
       /\ r.status = "queued" => r.attempts >= m.attempt
       /\ (m.stop = "cancelled" /\ r.status # "purged") => r.cancelReq
       /\ m.pc = "ended" => m.end # "none"
       /\ (m.pc = "ended" /\ m.end = "ok") => m.starts \in commits[m.job]

\* One run of one job is one worker's.
Distinct ==
  \A v, w \in Worker :
    /\ Working(v) /\ Working(w)
    /\ worker[v].job = worker[w].job /\ worker[v].starts = worker[w].starts
    => v = w

IInv ==
  /\ TypeOK
  /\ \A j \in JobId : RowInv(j)
  /\ \A w \in Worker : WorkInv(w)
  /\ Distinct
-----------------------------------------------------------------------------
(* Framing: what a step may do to the rows and to the workers without         *)
(* disturbing what the other workers know.                                  *)

\* The row of j is new, is purged, or changes without starting a run.
Aged(j) ==
  \/ job'[j].status = "purged"
  \/ job[j].status = "absent"
  \/ /\ job[j].status # "purged"
     /\ job'[j].starts = job[j].starts /\ job'[j].attempts = job[j].attempts
     /\ job[j].cancelReq => job'[j].cancelReq
     /\ job'[j].status = "running" => job[j].status = "running"
     /\ job'[j].status = "queued" => job[j].status \in {"queued", "running"}

\* If worker w is in a run after the step, it was in that run before.
Continues(w) ==
  worker'[w].pc \in {"start", "body", "ended"} =>
    /\ Working(w)
    /\ worker'[w].job = worker[w].job /\ worker'[w].attempt = worker[w].attempt
    /\ worker'[w].starts = worker[w].starts
    /\ worker'[w].stop = "cancelled" =>
         worker[w].stop = "cancelled" \/ job[worker[w].job].cancelReq
    /\ worker'[w].pc = "ended" => worker'[w].end # "none"
    /\ (worker'[w].pc = "ended" /\ worker'[w].end = "ok") =>
         worker[w].starts \in commits'[worker[w].job]

CommitsGrow == \A j \in JobId : commits[j] \subseteq commits'[j]

LEMMA WorkFrame ==
  ASSUME IInv, NEW w \in Worker, TypeOK', CommitsGrow, Continues(w),
         \A j \in JobId : Aged(j)
  PROVE  WorkInv(w)'
<1> SUFFICES ASSUME Working(w)' PROVE WorkInv(w)'
  BY DEF WorkInv
<1>1. Working(w) /\ WorkInv(w) /\ worker[w].job \in JobId
  BY DEF IInv, WorkInv, Continues, Working
<1> DEFINE j == worker[w].job
<1>2. Aged(j) /\ RowInv(j)
  BY <1>1 DEF IInv, RowInv
<1>3. /\ worker'[w].job = j /\ worker'[w].attempt = worker[w].attempt
      /\ worker'[w].starts = worker[w].starts
  BY DEF Continues, Working
<1>4. job[j] \in JobRow /\ job'[j] \in JobRow /\ worker[w] \in WorkerMem /\ worker'[w] \in WorkerMem
  BY <1>1 DEF IInv, TypeOK
<1>5. job[j].status # "absent"
  BY <1>1, <1>2, <1>4 DEF WorkInv, RowInv, JobRow, WorkerMem
<1>6. CASE job'[j].status = "purged"
  BY <1>1, <1>3, <1>6 DEF WorkInv, Continues, Working
<1>7. CASE job'[j].status # "purged"
  <2>1. /\ job[j].status # "purged"
        /\ job'[j].starts = job[j].starts /\ job'[j].attempts = job[j].attempts
        /\ job[j].cancelReq => job'[j].cancelReq
        /\ job'[j].status = "running" => job[j].status = "running"
        /\ job'[j].status = "queued" => job[j].status \in {"queued", "running"}
    BY <1>2, <1>5, <1>7 DEF Aged
  <2>2. /\ worker[w].starts \in Nat /\ worker[w].attempt \in Nat
        /\ job[j].starts \in Nat /\ job[j].attempts \in Nat
    BY <1>4 DEF JobRow, WorkerMem
  <2>3. job'[j].status = "queued" => job'[j].attempts >= worker[w].attempt
    BY <1>1, <2>1, <2>2 DEF WorkInv
  <2>4. /\ job[j].starts >= worker[w].starts
        /\ (job'[j].status = "running" /\ job[j].starts = worker[w].starts)
             => job[j].attempts = worker[w].attempt
        /\ (job'[j].status = "running" /\ job[j].starts > worker[w].starts)
             => job[j].attempts > worker[w].attempt
    BY <1>1, <2>1, <2>2 DEF WorkInv
  <2>5. worker'[w].stop = "cancelled" => job'[j].cancelReq
    BY <1>1, <1>3, <2>1 DEF WorkInv, Continues, Working
  <2>6. /\ worker[w].starts > 0
        /\ worker'[w].pc = "ended" => worker'[w].end # "none"
        /\ (worker'[w].pc = "ended" /\ worker'[w].end = "ok") => worker[w].starts \in commits'[j]
    BY <1>1 DEF WorkInv, Continues, Working
  <2>7. QED
    BY <1>1, <1>3, <2>1, <2>3, <2>4, <2>5, <2>6 DEF WorkInv
<1>8. QED
  BY <1>6, <1>7

LEMMA Frame ==
  ASSUME IInv, TypeOK', CommitsGrow, \A j \in JobId : RowInv(j)',
         \A j \in JobId : Aged(j), \A w \in Worker : Continues(w)
  PROVE  IInv'
<1>1. \A w \in Worker : WorkInv(w)'
  BY WorkFrame
<1>2. Distinct'
  BY DEF IInv, Distinct, Continues, Working
<1>3. QED
  BY <1>1, <1>2 DEF IInv
\* A row left as it is.
LEMMA SameRows ==
  ASSUME IInv, UNCHANGED job, CommitsGrow
  PROVE  /\ \A j \in JobId : RowInv(j)'
         /\ \A j \in JobId : Aged(j)
BY DEF IInv, TypeOK, JobRow, RowInv, Aged, CommitsGrow

\* One worker moves and the others stay.
LEMMA OneWorker ==
  ASSUME IInv, CommitsGrow, NEW w \in Worker, NEW m \in WorkerMem, Set(w, m)
  PROVE  /\ worker' \in [Worker -> WorkerMem]
         /\ worker'[w] = m
         /\ Continues(w) => \A v \in Worker : Continues(v)
<1>1. worker \in [Worker -> WorkerMem]
  BY DEF IInv, TypeOK
<1>2. worker' \in [Worker -> WorkerMem] /\ worker'[w] = m
      /\ \A v \in Worker : v # w => worker'[v] = worker[v]
  BY <1>1 DEF Set
<1>3. ASSUME NEW v \in Worker, v # w PROVE Continues(v)
  BY <1>1, <1>2, <1>3 DEF IInv, WorkInv, Working, Continues, CommitsGrow
<1>4. QED
  BY <1>2, <1>3
-----------------------------------------------------------------------------
(* Steps of a worker that write no row.                                    *)

\* What such a step has to respect.
LEMMA QuietStep ==
  ASSUME IInv, NEW w \in Worker, NEW m \in WorkerMem, Set(w, m),
         UNCHANGED job, CommitsGrow, Continues(w),
         admin' \in [Admin -> AdminMem], paused' \in BOOLEAN, told' \subseteq Notice,
         commits' \in [JobId -> SUBSET Nat], spent' \in [Bounds -> Nat]
  PROVE  IInv'
<1>1. TypeOK'
  BY OneWorker DEF IInv, TypeOK
<1>2. QED
  BY <1>1, SameRows, OneWorker, Frame

\* A worker between runs stays between runs, whatever else it does.
LEMMA IdleStep ==
  ASSUME IInv, NEW w \in Worker,
         \/ Loop(w) \/ SweepFails(w) \/ ReportSwept(w) \/ NoClaim(w)
         \/ Tell(w) \/ Exit(w) \/ Crash(w) \/ Restart(w)
  PROVE  IInv'
<1> DEFINE m == worker[w]
<1> USE DEF Set, Goto, Idle, Off, Continues, CommitsGrow, IInv, TypeOK
<1>1. m \in WorkerMem
  OBVIOUS
<1>2. CASE Loop(w) \/ SweepFails(w) \/ NoClaim(w)
  <2>1. PICK p \in {"sweep", "claim", "idle"} : Set(w, [m EXCEPT !.pc = p])
    BY <1>2 DEF Loop, SweepFails, NoClaim
  <2>2. [m EXCEPT !.pc = p] \in WorkerMem
    BY <1>1 DEF WorkerMem
  <2>3. Continues(w)
    BY <1>1, <2>1, SMTT(30) DEF WorkerMem
  <2>4. QED
    BY <1>2, <2>1, <2>2, <2>3, QuietStep DEF Loop, SweepFails, NoClaim
<1>3. CASE ReportSwept(w)
  <2>1. PICK n \in m.notices :
          /\ told' = told \cup {n}
          /\ Set(w, [m EXCEPT !.notices = @ \ {n},
                              !.pc = IF m.notices = {n} THEN "claim" ELSE "report"])
    BY <1>3 DEF ReportSwept
  <2>2. [m EXCEPT !.notices = @ \ {n}, !.pc = IF m.notices = {n} THEN "claim" ELSE "report"] \in WorkerMem
    BY <1>1 DEF WorkerMem
  <2>3. Continues(w)
    BY <1>1, <2>1 DEF WorkerMem
  <2>4. told' \subseteq Notice
    BY <1>1, <2>1 DEF WorkerMem
  <2>5. QED
    BY <1>3, <2>1, <2>2, <2>3, <2>4, QuietStep, ZenonT(60) DEF ReportSwept
<1>4. CASE Tell(w) \/ Exit(w) \/ Crash(w) \/ Restart(w)
  <2>1. \A r \in {"up", "draining", "interrupted"} : Idle(r) \in WorkerMem
    BY BoundsAssumption DEF WorkerMem
  <2>2. Off \in WorkerMem
    BY <2>1, ZenonT(60) DEF WorkerMem
  <2>3. PICK n \in WorkerMem : Set(w, n) /\ n.pc \in {"idle", "off"}
    <3>1. (\E r \in {"up", "draining", "interrupted"} : Set(w, Idle(r))) \/ Set(w, Off)
      BY <1>1, <1>4 DEF Tell, Exit, Crash, Restart, WorkerMem
    <3>2. /\ \A r \in {"up", "draining", "interrupted"} : Idle(r).pc = "idle"
          /\ Off.pc = "off"
      OBVIOUS
    <3>3. QED
      BY <2>1, <2>2, <3>1, <3>2, Zenon
  <2>4. Continues(w)
    BY <1>1, <2>3
  <2>5. told' \subseteq Notice
    BY <1>1, <1>4 DEF Tell, Exit, Crash, Restart, WorkerMem
  <2>6. spent' \in [Bounds -> Nat]
    BY <1>4, SpendType DEF Tell, Exit, Crash, Restart
  <2>7. UNCHANGED <<job, admin, paused, commits>>
    BY <1>4 DEF Tell, Exit, Crash, Restart
  <2>8. QED
    BY <2>3, <2>4, <2>5, <2>6, <2>7, QuietStep
<1>5. QED
  BY <1>2, <1>3, <1>4
\* A worker in a run goes on with it, or notes how its body ended.
LEMMA RunStep ==
  ASSUME IInv, NEW w \in Worker,
         \/ OnStart(w) \/ BodyCommits(w) \/ Poll(w) \/ Stop(w) \/ Interrupt(w)
         \/ \E e \in {"error", "timeout", "maintenance"} : AttemptFails(w, e)
  PROVE  IInv'
<1> DEFINE m == worker[w]
<1> USE DEF IInv, TypeOK
<1>1. m \in WorkerMem
  OBVIOUS
<1>2. CASE OnStart(w)
  <2>1. [m EXCEPT !.pc = "body"] \in WorkerMem /\ Set(w, [m EXCEPT !.pc = "body"])
    BY <1>1, <1>2 DEF OnStart, Goto, WorkerMem
  <2>2. Continues(w)
    BY <1>1, <1>2, <2>1 DEF OnStart, Set, Working, Continues, WorkerMem
  <2>3. QED
    BY <1>2, <2>1, <2>2, QuietStep DEF OnStart, CommitsGrow
<1>3. CASE BodyCommits(w)
  <2>1. /\ m.pc = "body" /\ m.job \in JobId /\ m.starts \in Nat
        /\ commits' = [commits EXCEPT ![m.job] = @ \cup {m.starts}]
    BY <1>1, <1>3 DEF BodyCommits, WorkInv, Working, WorkerMem
  <2>2. CommitsGrow /\ commits' \in [JobId -> SUBSET Nat] /\ m.starts \in commits'[m.job]
    BY <2>1 DEF CommitsGrow
  <2>3. [m EXCEPT !.pc = "ended", !.beat = FALSE, !.end = "ok"] \in WorkerMem
    BY <1>1 DEF WorkerMem
  <2>4. Continues(w)
    BY <1>1, <1>3, <2>1, <2>2 DEF BodyCommits, Set, Working, Continues, WorkerMem
  <2>5. QED
    BY <1>3, <2>2, <2>3, <2>4, QuietStep DEF BodyCommits
<1>4. CASE Poll(w)
  <2>1. [m EXCEPT !.stop = "cancelled", !.beat = FALSE] \in WorkerMem
    BY <1>1 DEF WorkerMem
  <2>2. Continues(w)
    BY <1>1, <1>4 DEF Poll, Set, Working, Continues, WorkerMem
  <2>3. QED
    BY <1>4, <2>1, <2>2, QuietStep DEF Poll, CommitsGrow
<1>5. CASE Stop(w)
  <2>1. [m EXCEPT !.run = "draining"] \in WorkerMem
    BY <1>1 DEF WorkerMem
  <2>2. Continues(w)
    BY <1>1, <1>5 DEF Stop, Set, Working, WorkInv, Continues, WorkerMem
  <2>3. spent' \in [Bounds -> Nat]
    BY <1>5, SpendType DEF Stop
  <2>4. QED
    BY <1>5, <2>1, <2>2, <2>3, QuietStep DEF Stop, CommitsGrow
<1>6. CASE Interrupt(w)
  <2>1. [m EXCEPT !.run = "interrupted", !.beat = FALSE] \in WorkerMem
    BY <1>1 DEF WorkerMem
  <2>2. Continues(w)
    BY <1>1, <1>6 DEF Interrupt, Set, Working, WorkInv, Continues, WorkerMem
  <2>3. QED
    BY <1>6, <2>1, <2>2, QuietStep DEF Interrupt, CommitsGrow
<1>7. ASSUME NEW e \in {"error", "timeout", "maintenance"}, AttemptFails(w, e) PROVE IInv'
  <2>1. [m EXCEPT !.pc = "ended", !.beat = FALSE, !.end = e] \in WorkerMem
    BY <1>1 DEF WorkerMem
  <2>2. Continues(w)
    BY <1>1, <1>7 DEF AttemptFails, Set, Working, Continues, WorkerMem
  <2>3. QED
    BY <1>7, <2>1, <2>2, QuietStep DEF AttemptFails, CommitsGrow
<1>8. QED
  BY <1>2, <1>3, <1>4, <1>5, <1>6, <1>7

-----------------------------------------------------------------------------
(* Steps that write one row and leave the workers alone.                    *)

\* What writing row r over the row of j has to respect.
RowOK(j, r) ==
  /\ r.attempts <= MaxAttempts /\ r.attempts <= r.starts
  /\ r.status = "queued" => r.attempts < MaxAttempts
  /\ r.status = "running" => r.attempts > 0
  /\ r.status = "absent" => r.starts = 0 /\ ~r.cancelReq
  /\ r.status = "done" => r.starts \in commits[j]

AgedTo(j, r) ==
  \/ r.status = "purged"
  \/ job[j].status = "absent"
  \/ /\ job[j].status # "purged"
     /\ r.starts = job[j].starts /\ r.attempts = job[j].attempts
     /\ job[j].cancelReq => r.cancelReq
     /\ r.status = "running" => job[j].status = "running"
     /\ r.status = "queued" => job[j].status \in {"queued", "running"}

LEMMA OneRow ==
  ASSUME IInv, NEW j \in JobId, NEW r \in JobRow, job' = [job EXCEPT ![j] = r],
         UNCHANGED commits, RowOK(j, r), AgedTo(j, r)
  PROVE  /\ job' \in [JobId -> JobRow]
         /\ \A i \in JobId : RowInv(i)' /\ Aged(i)
<1>0. job \in [JobId -> JobRow] /\ \A i \in JobId : RowInv(i)
  BY DEF IInv, TypeOK
<1>1. job' \in [JobId -> JobRow] /\ job'[j] = r
  BY <1>0
<1>2. RowInv(j)' /\ Aged(j)
  BY <1>1 DEF RowInv, RowOK, Aged, AgedTo
<1>3. ASSUME NEW i \in JobId, i # j PROVE RowInv(i)' /\ Aged(i)
  <2>1. job'[i] = job[i] /\ commits'[i] = commits[i] /\ job[i] \in JobRow
    BY <1>0, <1>3
  <2>2. QED
    BY <1>0, <2>1 DEF RowInv, Aged, JobRow
<1>4. QED
  BY <1>1, <1>2, <1>3

LEMMA RowStep ==
  ASSUME IInv, NEW j \in JobId, NEW r \in JobRow, job' = [job EXCEPT ![j] = r],
         UNCHANGED <<worker, paused, commits>>, RowOK(j, r), AgedTo(j, r),
         admin' \in [Admin -> AdminMem], told' \subseteq Notice, spent' \in [Bounds -> Nat]
  PROVE  IInv'
<1>1. TypeOK'
  BY OneRow DEF IInv, TypeOK
<1>2. \A w \in Worker : Continues(w)
  BY DEF IInv, WorkInv, Working, Continues
<1>3. QED
  BY <1>1, <1>2, OneRow, Frame DEF CommitsGrow
LEMMA EnqueueStep ==
  ASSUME IInv, NEW k \in Key \cup {NoKey}, Enqueue(k)
  PROVE  IInv'
<1>dom. 0 \in 0..MaxJobs /\ JobId \subseteq 0..MaxJobs
  BY BoundsAssumption
<1>2. /\ worker \in [Worker -> WorkerMem] /\ admin \in [Admin -> AdminMem]
      /\ told \subseteq Notice /\ paused \in BOOLEAN /\ spent \in [Bounds -> Nat]
  BY DEF IInv, TypeOK
<1>3. PICK i \in JobId : Fresh(i) /\ job' = [job EXCEPT ![i] = NewRow(k, 0)]
  BY DEF Enqueue
<1>4. NewRow(k, 0) \in JobRow
  BY NewRowType, <1>dom
<1>5. RowOK(i, NewRow(k, 0)) /\ AgedTo(i, NewRow(k, 0))
  BY <1>3, BoundsAssumption DEF Fresh, RowOK, AgedTo, NewRow, BlankRow
<1>6. QED
  BY <1>2, <1>3, <1>4, <1>5, RowStep DEF Enqueue

\* Requests and the clock, on one row.
LEMMA ClockStep ==
  ASSUME IInv, NEW j \in JobId,
         CancelRunning(j) \/ Purge(j) \/ LeaseExpires(j) \/ BecomesDue(j)
  PROVE  IInv'
<1>1. job[j] \in JobRow /\ RowInv(j) /\ job \in [JobId -> JobRow]
  BY DEF IInv, TypeOK
<1>2. /\ worker \in [Worker -> WorkerMem] /\ admin \in [Admin -> AdminMem]
      /\ told \subseteq Notice /\ paused \in BOOLEAN /\ spent \in [Bounds -> Nat]
  BY DEF IInv, TypeOK
<1>dom. 0 \in 0..MaxJobs /\ JobId \subseteq 0..MaxJobs
  BY BoundsAssumption
<1>3. CASE CancelRunning(j)
  <2> DEFINE r == [job[j] EXCEPT !.cancelReq = TRUE]
  <2>1. r \in JobRow /\ RowOK(j, r) /\ AgedTo(j, r)
    BY <1>1, <1>3 DEF CancelRunning, JobRow, RowInv, RowOK, AgedTo
  <2>2. spent' \in [Bounds -> Nat]
    BY <1>2, <1>3, SpendType DEF CancelRunning
  <2>3. job' = [job EXCEPT ![j] = r]
    BY <1>1, <1>3 DEF CancelRunning
  <2>4. QED
    BY <1>2, <1>3, <2>1, <2>2, <2>3, RowStep DEF CancelRunning
<1>4. CASE Purge(j)
  <2> DEFINE r == [BlankRow EXCEPT !.status = "purged", !.key = job[j].key]
  <2>1. job[j].key \in Key \cup {NoKey}
    BY <1>1 DEF JobRow
  <2>2. r \in JobRow
    BY <2>1, NewRowType, <1>dom
  <2>3. RowOK(j, r) /\ AgedTo(j, r)
    BY BoundsAssumption DEF BlankRow, RowOK, AgedTo
  <2>4. spent' \in [Bounds -> Nat]
    BY <1>2, <1>4, SpendType DEF Purge
  <2>5. QED
    BY <1>2, <1>4, <2>2, <2>3, <2>4, RowStep DEF Purge
<1>5. CASE LeaseExpires(j)
  <2> DEFINE r == [job[j] EXCEPT !.lease = "expired"]
  <2>1. r \in JobRow /\ RowOK(j, r) /\ AgedTo(j, r)
    BY <1>1, <1>5 DEF LeaseExpires, JobRow, RowInv, RowOK, AgedTo
  <2>2. spent' \in [Bounds -> Nat]
    BY <1>2, <1>5, SpendType DEF LeaseExpires
  <2>3. job' = [job EXCEPT ![j] = r]
    BY <1>1, <1>5 DEF LeaseExpires
  <2>4. QED
    BY <1>2, <1>5, <2>1, <2>2, <2>3, RowStep DEF LeaseExpires
<1>6. CASE BecomesDue(j)
  <2> DEFINE r == [job[j] EXCEPT !.due = TRUE]
  <2>1. r \in JobRow /\ RowOK(j, r) /\ AgedTo(j, r)
    BY <1>1, <1>6 DEF BecomesDue, JobRow, RowInv, RowOK, AgedTo
  <2>2. job' = [job EXCEPT ![j] = r]
    BY <1>1, <1>6 DEF BecomesDue
  <2>3. QED
    BY <1>2, <1>6, <2>1, <2>2, RowStep DEF BecomesDue
<1>7. QED
  BY <1>3, <1>4, <1>5, <1>6

\* A request handler's first statement.
LEMMA RequestStep ==
  ASSUME IInv, NEW j \in JobId, NEW a \in Admin,
         CancelQueued(a, j) \/ \E f \in ForceFlags : RetryInsert(a, j, f)
  PROVE  IInv'
<1>1. job[j] \in JobRow /\ RowInv(j) /\ job \in [JobId -> JobRow]
  BY DEF IInv, TypeOK
<1>2. /\ worker \in [Worker -> WorkerMem] /\ admin \in [Admin -> AdminMem]
      /\ told \subseteq Notice /\ paused \in BOOLEAN /\ spent \in [Bounds -> Nat]
  BY DEF IInv, TypeOK
<1>dom. 0 \in 0..MaxJobs /\ JobId \subseteq 0..MaxJobs
  BY BoundsAssumption
<1>idle. AdminIdle \in AdminMem
  BY <1>dom DEF AdminIdle, AdminMem
<1>3. CASE CancelQueued(a, j)
  <2> DEFINE r == [Ended(job[j], "cancelled") EXCEPT !.cancelReq = TRUE]
             n == [job |-> j, starts |-> job[j].starts, by |-> "cancel",
                   reason |-> "cancelled", final |-> TRUE]
  <2>0. Ended(job[j], "cancelled") \in JobRow
    BY <1>1, RowTypes DEF Terminal
  <2>1. r \in JobRow /\ RowOK(j, r) /\ AgedTo(j, r)
    <3>1. r \in JobRow
      BY <2>0 DEF JobRow
    <3>2. r.status = "cancelled" /\ r.attempts = job[j].attempts /\ r.starts = job[j].starts /\ r.cancelReq
      BY <1>1 DEF Ended, JobRow
    <3>3. job[j].status = "queued"
      BY <1>3 DEF CancelQueued
    <3>4. QED
      BY <1>1, <3>1, <3>2, <3>3 DEF RowInv, RowOK, AgedTo
  <2>2. n \in Notice
    BY <1>1 DEF Notice, JobRow
  <2>3. [AdminIdle EXCEPT !.pc = "tell", !.notices = {n}] \in AdminMem
    BY <1>idle, <2>2 DEF AdminMem
  <2>4. admin' \in [Admin -> AdminMem]
    BY <1>2, <1>3, <2>3 DEF CancelQueued
  <2>5. spent' \in [Bounds -> Nat]
    BY <1>2, <1>3, SpendType DEF CancelQueued
  <2>6. job' = [job EXCEPT ![j] = r]
    BY <1>1, <1>3 DEF CancelQueued
  <2>7. QED
    BY <1>2, <1>3, <2>1, <2>4, <2>5, <2>6, RowStep DEF CancelQueued
<1>4. ASSUME NEW f \in ForceFlags, RetryInsert(a, j, f) PROVE IInv'
  <2>1. PICK n \in JobId :
          /\ Fresh(n)
          /\ job' = [job EXCEPT ![n] = NewRow(NoKey, j)]
          /\ admin' = [admin EXCEPT ![a] =
               [AdminIdle EXCEPT !.pc = "stamp", !.job = j, !.new = n]]
    BY <1>4 DEF RetryInsert
  <2>2. NewRow(NoKey, j) \in JobRow
    BY NewRowType, <1>dom
  <2>3. RowOK(n, NewRow(NoKey, j)) /\ AgedTo(n, NewRow(NoKey, j))
    BY <2>1, BoundsAssumption DEF Fresh, RowOK, AgedTo, NewRow, BlankRow
  <2>4. [AdminIdle EXCEPT !.pc = "stamp", !.job = j, !.new = n] \in AdminMem
    BY <1>dom, <1>idle DEF AdminMem
  <2>5. admin' \in [Admin -> AdminMem]
    BY <1>2, <2>1, <2>4
  <2>6. spent' \in [Bounds -> Nat]
    BY <1>2, <1>4, SpendType DEF RetryInsert
  <2>7. QED
    BY <1>2, <1>4, <2>1, <2>2, <2>3, <2>5, <2>6, RowStep DEF RetryInsert
<1>5. QED
  BY <1>3, <1>4

\* What a request handler does after its first statement.
LEMMA HandlerStep ==
  ASSUME IInv, NEW a \in Admin,
         CancelTell(a) \/ RetryStamp(a) \/ AdminCrash(a)
  PROVE  IInv'
<1>1. /\ job \in [JobId -> JobRow] /\ admin[a] \in AdminMem
      /\ worker \in [Worker -> WorkerMem] /\ admin \in [Admin -> AdminMem]
      /\ commits \in [JobId -> SUBSET Nat]
      /\ told \subseteq Notice /\ paused \in BOOLEAN /\ spent \in [Bounds -> Nat]
  BY DEF IInv, TypeOK
<1>2. AdminIdle \in AdminMem
  BY BoundsAssumption DEF AdminIdle, AdminMem
<1>3. CASE RetryStamp(a) /\ admin[a].job \in JobId
  <2> DEFINE j == admin[a].job
             r == IF job[j].status = "purged" THEN job[j]
                  ELSE [job[j] EXCEPT !.retriedAs = admin[a].new]
  <2>1. job[j] \in JobRow /\ RowInv(j) /\ admin[a].new \in 0..MaxJobs
    BY <1>1, <1>3 DEF IInv, AdminMem
  <2>2. r \in JobRow /\ RowOK(j, r) /\ AgedTo(j, r)
    BY <2>1 DEF JobRow, RowInv, RowOK, AgedTo
  <2>3. job' = [job EXCEPT ![j] = r]
    BY <1>1, <1>3 DEF RetryStamp
  <2>4. admin' \in [Admin -> AdminMem]
    BY <1>1, <1>2, <1>3 DEF RetryStamp
  <2>5. QED
    BY <1>1, <1>3, <2>2, <2>3, <2>4, RowStep DEF RetryStamp
<1>4. CASE ~(RetryStamp(a) /\ admin[a].job \in JobId)
  <2>0. ASSUME RetryStamp(a) PROVE job' = job
    <3>1. admin[a].job \notin JobId
      BY <1>4, <2>0
    <3>2. DOMAIN job' = JobId /\ \A i \in JobId : job'[i] = job[i]
      BY <1>1, <2>0, <3>1 DEF RetryStamp
    <3>3. job' = [i \in JobId |-> job[i]]
      BY <1>1, <2>0, <3>2 DEF RetryStamp
    <3>4. QED
      BY <1>1, <3>3
  <2>1. UNCHANGED <<job, worker, commits>>
    BY <1>1, <2>0 DEF RetryStamp, CancelTell, AdminCrash
  <2>2. /\ admin' \in [Admin -> AdminMem]
        /\ told' \subseteq Notice /\ paused' \in BOOLEAN
    BY <1>1, <1>2 DEF RetryStamp, CancelTell, AdminCrash, AdminMem
  <2>3. spent' \in [Bounds -> Nat]
    BY <1>1, SpendType DEF RetryStamp, CancelTell, AdminCrash
  <2>4. TypeOK'
    BY <1>1, <2>1, <2>2, <2>3 DEF TypeOK
  <2>5. \A w \in Worker : Continues(w)
    BY <2>1 DEF IInv, WorkInv, Working, Continues
  <2>6. CommitsGrow
    BY <2>1 DEF CommitsGrow
  <2>7. QED
    BY <2>1, <2>4, <2>5, <2>6, SameRows, Frame
<1>5. QED
  BY <1>3, <1>4
-----------------------------------------------------------------------------
(* Steps that write a row and move a worker.                                *)

\* The fence names the row's latest run.
LEMMA Fence ==
  ASSUME IInv, NEW w \in Worker, Working(w), Owns(w)
  PROVE  /\ worker[w].job \in JobId
         /\ job[worker[w].job].status = "running"
         /\ job[worker[w].job].starts = worker[w].starts
<1>1. worker[w].job \in JobId /\ job[worker[w].job] \in JobRow /\ worker[w] \in WorkerMem
  BY DEF IInv, TypeOK, Owns
<1>2. QED
  BY <1>1 DEF IInv, WorkInv, Owns, JobRow, WorkerMem

\* What any step of worker w over rows that age has to respect.
LEMMA WorkerStepFrame ==
  ASSUME IInv, NEW w \in Worker, NEW m \in WorkerMem, Set(w, m), Continues(w),
         UNCHANGED <<admin, paused, told, commits>>,
         job' \in [JobId -> JobRow], spent' \in [Bounds -> Nat],
         \A j \in JobId : RowInv(j)' /\ Aged(j)
  PROVE  IInv'
<1>1. CommitsGrow
  BY DEF CommitsGrow
<1>2. TypeOK'
  BY <1>1, OneWorker DEF IInv, TypeOK
<1>3. QED
  BY <1>1, <1>2, OneWorker, Frame

LEMMA RenewStep ==
  ASSUME IInv, NEW w \in Worker, Renew(w)
  PROVE  IInv'
<1> DEFINE m == worker[w]
           r == [job[m.job] EXCEPT !.lease = "live"]
<1>1. /\ m \in WorkerMem /\ Working(w) /\ m.pc \in {"start", "body"}
      /\ m.job \in JobId /\ job \in [JobId -> JobRow] /\ spent \in [Bounds -> Nat]
  BY DEF IInv, TypeOK, WorkInv, Renew, Working
<1>2. PICK n \in {m, [m EXCEPT !.stop = "cancelled", !.beat = FALSE],
                     [m EXCEPT !.stop = "lost", !.beat = FALSE]} :
        Set(w, n) /\ (n.stop = "cancelled" => m.stop = "cancelled" \/ job[m.job].cancelReq)
  <2>1. [m EXCEPT !.stop = "lost", !.beat = FALSE].stop # "cancelled"
    BY <1>1 DEF WorkerMem
  <2>2. QED
    BY <2>1 DEF Renew
<1>3. n \in WorkerMem
  BY <1>1, ZenonT(60) DEF WorkerMem
<1>4. n.pc = m.pc /\ n.job = m.job /\ n.attempt = m.attempt /\ n.starts = m.starts
  BY <1>1 DEF WorkerMem
<1>5. worker'[w] = n
  BY <1>2 DEF IInv, TypeOK, Set
<1>6. Continues(w)
  BY <1>1, <1>2, <1>4, <1>5 DEF Continues
<1>7. CASE Owns(w)
  <2>1. job' = [job EXCEPT ![m.job] = r]
    BY <1>1, <1>7 DEF Renew
  <2>2. job[m.job] \in JobRow /\ RowInv(m.job) /\ job[m.job].status = "running"
    BY <1>1, <1>7, Fence DEF IInv
  <2>3. r \in JobRow /\ RowOK(m.job, r) /\ AgedTo(m.job, r)
    BY <2>2 DEF JobRow, RowInv, RowOK, AgedTo
  <2>4. job' \in [JobId -> JobRow] /\ \A i \in JobId : RowInv(i)' /\ Aged(i)
    BY <1>1, <2>1, <2>3, OneRow DEF Renew
  <2>5. QED
    BY <1>1, <1>2, <1>3, <1>6, <2>4, WorkerStepFrame DEF Renew
<1>8. CASE ~Owns(w)
  <2>1. UNCHANGED <<job, commits>> /\ CommitsGrow
    BY <1>8 DEF Renew, CommitsGrow
  <2>2. QED
    BY <1>1, <1>2, <1>3, <1>6, <2>1, SameRows, WorkerStepFrame DEF Renew
<1>9. QED
  BY <1>7, <1>8

\* A terminal write, hit or missed.
LEMMA WriteRow ==
  ASSUME IInv, NEW w \in Worker, Working(w), NEW r \in JobRow, Write(w, r), UNCHANGED commits,
         Owns(w) => RowOK(worker[w].job, r) /\ AgedTo(worker[w].job, r)
  PROVE  /\ job' \in [JobId -> JobRow] /\ spent' \in [Bounds -> Nat]
         /\ \A j \in JobId : RowInv(j)' /\ Aged(j)
<1>1. spent' \in [Bounds -> Nat]
  BY SpendType DEF IInv, TypeOK, Write
<1>2. CASE UNCHANGED job
  BY <1>1, <1>2, SameRows DEF IInv, TypeOK, CommitsGrow
<1>3. CASE job' # job
  <2>1. Owns(w) /\ job' = [job EXCEPT ![worker[w].job] = r]
    BY <1>3 DEF Write
  <2>2. worker[w].job \in JobId
    BY <2>1, Fence
  <2>3. QED
    BY <1>1, <2>1, <2>2, OneRow
<1>4. QED
  BY <1>2, <1>3

\* The typing of a worker that is about to call onFailure.
LEMMA ToTellType ==
  ASSUME IInv, NEW w \in Worker, Working(w), NEW reason \in {"error", "timeout", "cancelled"},
         NEW final \in BOOLEAN, ToTell(w, reason, final)
  PROVE  \E m \in WorkerMem : Set(w, m) /\ m.pc = "tell"
<1> DEFINE n == [job |-> worker[w].job, starts |-> worker[w].starts, by |-> "worker",
                 reason |-> reason, final |-> final]
           m == [worker[w] EXCEPT !.pc = "tell", !.notices = {n}]
<1>1. worker[w] \in WorkerMem /\ worker[w].job \in JobId
  BY DEF IInv, TypeOK, WorkInv
<1>2. n \in Notice
  BY <1>1 DEF Notice, WorkerMem
<1>3. m \in WorkerMem /\ m.pc = "tell"
  BY <1>1, <1>2 DEF WorkerMem
<1>4. QED
  BY <1>3 DEF ToTell
\* The worker leaves its run with a terminal write that spends the attempt.
LEMMA FinishStep ==
  ASSUME IInv, NEW w \in Worker, FinishDone(w) \/ FinishCancelled(w) \/ FinishFailed(w)
  PROVE  IInv'
<1> DEFINE m == worker[w]
           r == job[m.job]
<1>1. /\ Working(w) /\ m \in WorkerMem /\ m.job \in JobId /\ m.pc = "ended" /\ m.end # "none"
      /\ r \in JobRow /\ RowInv(m.job)
  BY DEF IInv, TypeOK, WorkInv, FinishDone, FinishCancelled, FinishFailed, Working
<1>2. Owns(w) => r.status = "running" /\ r.starts = m.starts
  BY <1>1, Fence
<1>3. \A n \in WorkerMem : Set(w, n) /\ n.pc \notin {"start", "body", "ended"} => Continues(w)
  BY DEF IInv, TypeOK, Set, Continues
<1>4. CASE FinishDone(w)
  <2>1. Ended(r, "done") \in JobRow
    BY <1>1, RowTypes DEF Terminal
  <2>2. Owns(w) => m.starts \in commits[m.job]
    BY <1>1, <1>4 DEF IInv, WorkInv, FinishDone
  <2>3. Owns(w) => RowOK(m.job, Ended(r, "done")) /\ AgedTo(m.job, Ended(r, "done"))
    BY <1>1, <1>2, <2>2 DEF JobRow, RowInv, RowOK, AgedTo, Ended
  <2>4. Idle(m.run) \in WorkerMem /\ Idle(m.run).pc = "idle"
    BY <1>1, BoundsAssumption DEF WorkerMem, Idle
  <2>5. QED
    BY <1>1, <1>3, <1>4, <2>1, <2>3, <2>4, WriteRow, WorkerStepFrame DEF FinishDone
<1>5. CASE FinishCancelled(w)
  <2>1. Ended(r, "cancelled") \in JobRow
    BY <1>1, RowTypes DEF Terminal
  <2>2. Owns(w) => RowOK(m.job, Ended(r, "cancelled")) /\ AgedTo(m.job, Ended(r, "cancelled"))
    BY <1>1, <1>2 DEF JobRow, RowInv, RowOK, AgedTo, Ended
  <2>3. PICK n \in WorkerMem : Set(w, n) /\ n.pc = "tell"
    BY <1>1, <1>5, ToTellType DEF FinishCancelled
  <2>4. QED
    BY <1>1, <1>3, <1>5, <2>1, <2>2, <2>3, WriteRow, WorkerStepFrame DEF FinishCancelled
<1>6. CASE FinishFailed(w)
  <2>1. FailedAttempt(r) \in JobRow
    BY <1>1, RowTypes
  <2>2. Owns(w) => RowOK(m.job, FailedAttempt(r)) /\ AgedTo(m.job, FailedAttempt(r))
    BY <1>1, <1>2, BoundsAssumption
       DEF JobRow, RowInv, RowOK, AgedTo, FailedAttempt, Requeued, Ended
  <2>3. m.end \in {"error", "timeout", "cancelled"} /\ (m.attempt >= MaxAttempts) \in BOOLEAN
    BY <1>1, <1>6 DEF FinishFailed, Interrupted, WorkerMem
  <2>4. PICK n \in WorkerMem : Set(w, n) /\ n.pc = "tell"
    BY <1>1, <1>6, <2>3, ToTellType DEF FinishFailed
  <2>5. QED
    BY <1>1, <1>3, <1>6, <2>1, <2>2, <2>4, WriteRow, WorkerStepFrame DEF FinishFailed
<1>7. QED
  BY <1>4, <1>5, <1>6

\* The sweep: every stale row at once, none of them starting a run.
LEMMA SweepStep ==
  ASSUME IInv, NEW w \in Worker, Sweep(w)
  PROVE  IInv'
<1>1. job \in [JobId -> JobRow] /\ worker[w] \in WorkerMem /\ spent \in [Bounds -> Nat]
  BY DEF IInv, TypeOK
<1>2. job' \in [JobId -> JobRow]
  BY <1>1, RowTypes DEF Sweep, SweptTable
<1>3. ASSUME NEW j \in JobId PROVE RowInv(j)' /\ Aged(j)
  <2>1. job[j] \in JobRow /\ RowInv(j) /\ commits'[j] = commits[j]
    BY <1>1 DEF IInv, Sweep
  <2>2. job'[j] = IF Stale(j) THEN Swept(job[j]) ELSE job[j]
    BY DEF Sweep, SweptTable
  <2>3. CASE Stale(j)
    BY <2>1, <2>2, <2>3, BoundsAssumption
       DEF Stale, Swept, Requeued, Ended, JobRow, RowInv, Aged
  <2>4. CASE ~Stale(j)
    BY <2>1, <2>2, <2>4 DEF JobRow, RowInv, Aged
  <2>5. QED
    BY <2>3, <2>4
<1>4. \A j \in JobId : Stale(j) => SweepNotice(j) \in Notice
  BY <1>1 DEF SweepNotice, Notice, JobRow
<1>5. PICK n \in WorkerMem : Set(w, n) /\ n.pc \in {"claim", "report"}
  <2> DEFINE told_ == {SweepNotice(j) : j \in {j \in JobId : Stale(j)}}
             n == [worker[w] EXCEPT
                     !.pc = IF {j \in JobId : Stale(j)} = {} THEN "claim" ELSE "report",
                     !.notices = told_]
  <2>1. told_ \subseteq Notice
    BY <1>4
  <2>2. n \in WorkerMem /\ n.pc \in {"claim", "report"}
    <3> HIDE DEF told_
    <3>1. QED
      BY <1>1, <2>1 DEF WorkerMem
  <2>3. Set(w, n)
    BY DEF Sweep
  <2>4. QED
    BY <2>2, <2>3
<1>6. Continues(w)
  BY <1>5 DEF IInv, TypeOK, Set, Continues
<1>7. QED
  BY <1>1, <1>2, <1>3, <1>5, <1>6, WorkerStepFrame DEF Sweep
\* A worker whose row is not touched, and who is not the one to move.
LEMMA Bystander ==
  ASSUME IInv, NEW v \in Worker, worker'[v] = worker[v], CommitsGrow,
         worker[v].job \in JobId => job'[worker[v].job] = job[worker[v].job]
  PROVE  WorkInv(v)'
BY DEF IInv, WorkInv, Working, CommitsGrow

\* The attempt given back: the one decrement of attempts.  The other workers
\* that ever began this job did so in earlier runs, which cost more.
LEMMA GiveBackStep ==
  ASSUME IInv, NEW w \in Worker, GiveBack(w)
  PROVE  IInv'
<1>0. PICK m \in WorkerMem : m = worker[w]
  BY DEF IInv, TypeOK
<1>j. PICK j \in JobId : j = m.job
  BY <1>0 DEF IInv, WorkInv, GiveBack, Working
<1>r. PICK r \in JobRow : r = job[j]
  BY DEF IInv, TypeOK
<1>1. /\ Working(w) /\ m \in WorkerMem /\ m = worker[w] /\ m.job = j /\ r = job[j] /\ j \in JobId /\ m.pc = "ended"
      /\ job \in [JobId -> JobRow] /\ r \in JobRow /\ RowInv(j) /\ WorkInv(w)
      /\ worker \in [Worker -> WorkerMem]
  BY <1>0, <1>j, <1>r DEF IInv, TypeOK, GiveBack, Working
<1>2. Idle(m.run) \in WorkerMem /\ Idle(m.run).pc = "idle" /\ Set(w, Idle(m.run))
  BY <1>1, BoundsAssumption DEF WorkerMem, Idle, GiveBack
<1>3. Continues(w)
  BY <1>1, <1>2 DEF Set, Continues
<1>4. spent' \in [Bounds -> Nat]
  BY SpendType DEF IInv, TypeOK, GiveBack, Write
<1>5. CommitsGrow
  BY DEF GiveBack, CommitsGrow
<1>6. CASE UNCHANGED job
  BY <1>1, <1>2, <1>3, <1>4, <1>5, <1>6, SameRows, WorkerStepFrame DEF GiveBack
<1>7. CASE job' # job
  <2>1. Owns(w) /\ job' = [job EXCEPT ![j] = GivenBack(r)]
    BY <1>1, <1>7 DEF GiveBack, Write
  <2>2. r.status = "running" /\ r.starts = m.starts /\ r.attempts > 0
    BY <1>1, <2>1, Fence DEF RowInv
  <2>3. GivenBack(r) \in JobRow
    BY <1>1, <2>2, RowTypes
  <2>4. /\ job' \in [JobId -> JobRow] /\ job'[j] = GivenBack(r)
        /\ \A i \in JobId : i # j => job'[i] = job[i]
    BY <1>1, <2>1, <2>3
  <2>5. /\ worker' \in [Worker -> WorkerMem] /\ worker'[w].pc = "idle"
        /\ \A v \in Worker : v # w => worker'[v] = worker[v]
    BY <1>1, <1>2 DEF Set
  <2>6. TypeOK'
    BY <1>4, <2>4, <2>5 DEF IInv, TypeOK, GiveBack
  <2>7. /\ GivenBack(r).status = "queued" /\ GivenBack(r).starts = r.starts
        /\ GivenBack(r).attempts = r.attempts - 1 /\ GivenBack(r).cancelReq = r.cancelReq
    BY <1>1 DEF GivenBack, JobRow
  <2>num. /\ r.attempts \in Nat /\ r.starts \in Nat /\ MaxAttempts \in Nat
          /\ r.attempts <= MaxAttempts /\ r.attempts <= r.starts
    BY <1>1, BoundsAssumption DEF JobRow, RowInv
  <2>8. RowInv(j)'
    BY <2>2, <2>4, <2>7, <2>num DEF RowInv
  <2>9. ASSUME NEW i \in JobId PROVE RowInv(i)'
    BY <2>4, <2>8 DEF IInv, RowInv, GiveBack
  <2>10. ASSUME NEW v \in Worker PROVE WorkInv(v)'
    <3>1. CASE v = w
      BY <2>5, <3>1 DEF WorkInv, Working
    <3>2. CASE v # w /\ worker[v].job # j
      BY <1>5, <2>4, <2>5, <3>2, Bystander
    <3>3. CASE v # w /\ worker[v].job = j
      <4> SUFFICES ASSUME Working(v)' PROVE WorkInv(v)'
        BY DEF WorkInv
      <4>1. worker'[v] = worker[v] /\ worker[v] \in WorkerMem /\ Working(v) /\ WorkInv(v)
        BY <1>1, <2>5, <3>3 DEF IInv, Working
      <4>2. worker[v].starts # r.starts
        BY <1>1, <2>2, <3>3, <4>1 DEF IInv, Distinct
      <4>3. r.starts > worker[v].starts /\ r.attempts > worker[v].attempt
        BY <1>1, <2>2, <3>3, <4>1, <4>2 DEF WorkInv, JobRow, WorkerMem
      <4>4. r.attempts - 1 >= worker[v].attempt /\ r.starts >= worker[v].starts
        BY <1>1, <4>1, <4>3 DEF JobRow, WorkerMem
      <4>5. /\ worker[v].starts > 0 /\ (worker[v].stop = "cancelled" => r.cancelReq)
            /\ worker[v].pc = "ended" => worker[v].end # "none"
            /\ (worker[v].pc = "ended" /\ worker[v].end = "ok")
                 => worker[v].starts \in commits'[j]
        BY <1>1, <2>2, <3>3, <4>1 DEF WorkInv, GiveBack
      <4>6. /\ worker'[v].job = j /\ job'[j].status = "queued"
            /\ job'[j].attempts = r.attempts - 1 /\ job'[j].starts = r.starts
            /\ job'[j].cancelReq = r.cancelReq
        BY <2>4, <2>7, <3>3, <4>1
      <4>7. QED
        BY <4>1, <4>4, <4>5, <4>6 DEF WorkInv
    <3>4. QED
      BY <3>1, <3>2, <3>3
  <2>11. Distinct'
    BY <2>5 DEF IInv, Distinct, Working
  <2>12. QED
    BY <2>6, <2>9, <2>10, <2>11 DEF IInv
<1>8. QED
  BY <1>6, <1>7

\* A claim begins a run that no worker is in: it is one more than the row's.
LEMMA ClaimStep ==
  ASSUME IInv, NEW w \in Worker, Claim(w)
  PROVE  IInv'
<1>1. PICK j \in JobId :
        /\ Claimable(j)
        /\ job' = [job EXCEPT ![j] = Claimed(job[j])]
        /\ Set(w, [Idle(worker[w].run) EXCEPT !.pc = "start", !.job = j,
                     !.attempt = job[j].attempts + 1, !.starts = job[j].starts + 1, !.beat = TRUE])
  BY DEF Claim
<1>2. /\ job \in [JobId -> JobRow] /\ job[j] \in JobRow /\ RowInv(j) /\ worker[w] \in WorkerMem
      /\ worker \in [Worker -> WorkerMem] /\ job[j].status = "queued"
  BY <1>1 DEF IInv, TypeOK, Claimable
<1>3. job[j].attempts \in Nat /\ job[j].starts \in Nat
  BY <1>2 DEF JobRow
<1>x. PICK x \in Nat : x = job[j].attempts + 1
  BY <1>3
<1>y. PICK y \in Nat : y = job[j].starts + 1
  BY <1>3
<1> DEFINE r == [job[j] EXCEPT !.status = "running", !.attempts = x, !.starts = y, !.lease = "live"]
           n == [Idle(worker[w].run) EXCEPT !.pc = "start", !.job = j, !.attempt = x,
                                            !.starts = y, !.beat = TRUE]
<1>4. r \in JobRow
  BY <1>2 DEF JobRow, Status
<1>5. n \in WorkerMem
  <2>1. Idle(worker[w].run) \in WorkerMem
    BY <1>2, BoundsAssumption DEF Idle, WorkerMem
  <2>2. j \in 0..MaxJobs
    BY BoundsAssumption
  <2>3. QED
    BY <2>1, <2>2 DEF WorkerMem
<1>6. /\ r.status = "running" /\ r.attempts = job[j].attempts + 1
      /\ r.starts = job[j].starts + 1 /\ r.cancelReq = job[j].cancelReq
  BY <1>2, <1>x, <1>y DEF JobRow
<1>7. /\ n.pc = "start" /\ n.job = j /\ n.attempt = job[j].attempts + 1
      /\ n.starts = job[j].starts + 1 /\ n.stop = "no"
  BY <1>x, <1>y DEF Idle
<1>r. job' = [job EXCEPT ![j] = r] /\ Set(w, n)
  <2>1. Claimed(job[j]) = r
    BY <1>2, <1>x, <1>y DEF Claimed, JobRow
  <2>2. job' = [job EXCEPT ![j] = r]
    BY <1>1, <2>1, Zenon
  <2>3. Set(w, n)
    BY <1>1, <1>x, <1>y, Zenon
  <2>4. QED
    BY <2>2, <2>3
<1> HIDE DEF r, n
<1>8. /\ job' \in [JobId -> JobRow] /\ job'[j] = r
      /\ \A i \in JobId : i # j => job'[i] = job[i]
  BY <1>2, <1>4, <1>r
<1>9. /\ worker' \in [Worker -> WorkerMem] /\ worker'[w] = n
      /\ \A v \in Worker : v # w => worker'[v] = worker[v]
  BY <1>2, <1>5, <1>r DEF Set
<1>10. TypeOK'
  BY <1>8, <1>9 DEF IInv, TypeOK, Claim
<1>11. RowInv(j)'
  BY <1>2, <1>3, <1>6, <1>8, BoundsAssumption DEF RowInv
<1>12. ASSUME NEW i \in JobId PROVE RowInv(i)'
  BY <1>8, <1>11 DEF IInv, RowInv, Claim
<1>13. ASSUME NEW v \in Worker, v # w, Working(v), worker[v].job = j
       PROVE  worker[v].starts <= job[j].starts /\ worker[v].attempt <= job[j].attempts
  BY <1>2, <1>3, <1>13 DEF IInv, WorkInv
<1>14. CommitsGrow
  BY DEF CommitsGrow, Claim
<1>15. ASSUME NEW v \in Worker PROVE WorkInv(v)'
  <2>1. CASE v = w
    BY <1>3, <1>6, <1>7, <1>8, <1>9, <2>1, SMTT(30) DEF WorkInv
  <2>2. CASE v # w /\ worker[v].job # j
    BY <1>8, <1>9, <1>14, <2>2, Bystander
  <2>3. CASE v # w /\ worker[v].job = j
    <3> SUFFICES ASSUME Working(v)' PROVE WorkInv(v)'
      BY DEF WorkInv
    <3>1. worker'[v] = worker[v] /\ worker[v] \in WorkerMem /\ Working(v) /\ WorkInv(v)
      BY <1>2, <1>9, <2>3 DEF IInv, Working
    <3>2. worker[v].starts \in Nat /\ worker[v].attempt \in Nat
      BY <3>1 DEF WorkerMem
    <3>3. worker[v].starts < r.starts /\ worker[v].attempt < r.attempts
      BY <1>3, <1>6, <1>13, <2>3, <3>1, <3>2
    <3>4. /\ worker[v].starts > 0 /\ (worker[v].stop = "cancelled" => job[j].cancelReq)
          /\ worker[v].pc = "ended" => worker[v].end # "none"
          /\ (worker[v].pc = "ended" /\ worker[v].end = "ok")
               => worker[v].starts \in commits'[j]
      BY <1>2, <2>3, <3>1 DEF WorkInv, Claim
    <3>5. /\ worker'[v].job = j /\ job'[j].status = "running" /\ r.starts \in Nat
          /\ job'[j].starts = r.starts /\ job'[j].attempts = r.attempts
          /\ job'[j].cancelReq = job[j].cancelReq
      BY <1>4, <1>6, <1>8, <2>3, <3>1 DEF JobRow
    <3>6. QED
      BY <3>1, <3>2, <3>3, <3>4, <3>5 DEF WorkInv
  <2>4. QED
    BY <2>1, <2>2, <2>3
<1>16. Distinct'
  <2> SUFFICES ASSUME NEW u \in Worker, NEW v \in Worker, Working(u)', Working(v)',
                      worker'[u].job = worker'[v].job, worker'[u].starts = worker'[v].starts,
                      u # v
               PROVE  FALSE
    BY DEF Distinct
  <2>a. job[j].starts \in Nat /\ worker'[w].job = j
        /\ worker'[w].starts = job[j].starts + 1
    BY <1>3, <1>7, <1>9
  <2>b. ASSUME NEW t \in Worker, t # w, Working(t)', worker'[t].job = j
        PROVE  worker'[t].starts # worker'[w].starts
    <3>1. worker'[t] = worker[t] /\ worker[t] \in WorkerMem
      BY <1>2, <1>9, <2>b
    <3>2. Working(t) /\ worker[t].job = j
      BY <2>b, <3>1 DEF Working
    <3>3. worker[t].starts <= job[j].starts /\ worker[t].starts \in Nat
      BY <1>13, <2>b, <3>1, <3>2 DEF WorkerMem
    <3>4. QED
      BY <2>a, <3>1, <3>3
  <2>1. CASE u = w
    BY <2>a, <2>b, <2>1
  <2>2. CASE v = w
    BY <2>a, <2>b, <2>2
  <2>3. CASE u # w /\ v # w
    BY <1>9, <2>3 DEF IInv, Distinct, Working
  <2>4. QED
    BY <2>1, <2>2, <2>3
<1>17. QED
  BY <1>10, <1>12, <1>15, <1>16 DEF IInv
-----------------------------------------------------------------------------
(* The theorems.                                                           *)

LEMMA InitIInv == Init => IInv
<1> SUFFICES ASSUME Init PROVE IInv
  OBVIOUS
<1> USE BoundsAssumption DEF Init
<1>1. BlankRow \in JobRow
  BY DEF BlankRow, JobRow, Status, Terminal
<1>2. Idle("up") \in WorkerMem
  BY DEF Idle, WorkerMem
<1>3. AdminIdle \in AdminMem
  BY DEF AdminIdle, AdminMem
<1>4. TypeOK
  BY <1>1, <1>2, <1>3 DEF TypeOK
<1>5. \A j \in JobId : RowInv(j)
  BY DEF BlankRow, RowInv
<1>6. \A w \in Worker : ~Working(w)
  BY DEF Idle, Working
<1>7. QED
  BY <1>4, <1>5, <1>6 DEF IInv, WorkInv, Distinct

LEMMA NextIInv == IInv /\ [Next]_vars => IInv'
<1> SUFFICES ASSUME IInv, [Next]_vars PROVE IInv'
  OBVIOUS
<1>1. CASE UNCHANGED vars
  <2>1. TypeOK' /\ CommitsGrow /\ UNCHANGED job
    BY <1>1 DEF IInv, TypeOK, vars, CommitsGrow
  <2>2. \A w \in Worker : Continues(w)
    BY <1>1 DEF IInv, WorkInv, Working, Continues, vars
  <2>3. QED
    BY <2>1, <2>2, SameRows, Frame
<1>2. ASSUME NEW w \in Worker, WorkerStep(w) \/ Heartbeat(w) \/ Stop(w) \/ Interrupt(w) \/ Crash(w)
      PROVE  IInv'
  BY <1>2, IdleStep, RunStep, SweepStep, ClaimStep, FinishStep, GiveBackStep, RenewStep
     DEF WorkerStep, Heartbeat
<1>3. ASSUME NEW a \in Admin, AdminRequest(a) \/ AdminStep(a) \/ AdminCrash(a)
      PROVE  IInv'
  BY <1>3, RequestStep, HandlerStep DEF AdminRequest, AdminStep
<1>4. ASSUME NEW j \in JobId, CancelRunning(j) \/ Purge(j) \/ LeaseExpires(j) \/ BecomesDue(j)
      PROVE  IInv'
  BY <1>4, ClockStep
<1>5. ASSUME NEW k \in Key \cup {NoKey}, Enqueue(k)
      PROVE  IInv'
  BY <1>5, EnqueueStep
<1>6. ASSUME PauseOn \/ PauseOff
      PROVE  IInv'
  <2>1. TypeOK' /\ CommitsGrow /\ UNCHANGED job
    BY <1>6, SpendType DEF IInv, TypeOK, PauseOn, PauseOff, CommitsGrow
  <2>2. \A w \in Worker : Continues(w)
    BY <1>6 DEF IInv, WorkInv, Working, Continues, PauseOn, PauseOff
  <2>3. QED
    BY <2>1, <2>2, SameRows, Frame
<1>7. QED
  BY <1>1, <1>2, <1>3, <1>4, <1>5, <1>6 DEF Next

\* The inductive invariant holds throughout.
THEOREM Invariance == Spec => []IInv
<1>1. QED
  BY InitIInv, NextIInv, PTL DEF Spec

\* Type correctness: no statement takes a row, a worker or a request handler
\* out of the values the code gives it -- attempts, which a give-back
\* decrements, stays a natural number.
THEOREM TypeCorrect == Spec => []TypeOK
<1>1. IInv => TypeOK
  BY DEF IInv
<1>2. QED
  BY <1>1, Invariance, PTL

\* The fence of the heartbeat and of every terminal write, which compares
\* attempts, names the latest run of the row.
THEOREM FenceIsSound == Spec => []FenceNamesOneRun
<1>1. IInv => FenceNamesOneRun
  BY Fence DEF FenceNamesOneRun
<1>2. QED
  BY <1>1, Invariance, PTL

\* No two live workers pass the fence of one row.
THEOREM SingleOwner == Spec => []OneOwner
<1>1. ASSUME IInv PROVE OneOwner
  <2> SUFFICES ASSUME NEW v \in Worker, NEW w \in Worker, Working(v), Working(w),
                      Owns(v), Owns(w), worker[v].job = worker[w].job
               PROVE  v = w
    BY DEF OneOwner
  <2>1. worker[v].starts = worker[w].starts
    BY <1>1, Fence
  <2>2. QED
    BY <1>1, <2>1 DEF IInv, Distinct
<1>2. QED
  BY <1>1, Invariance, PTL

\* However attempts go up at claims and down at give-backs, no job spends more
\* than max_attempts and a queued one has an attempt left.
THEOREM AttemptsWithinBounds == Spec => []AttemptsBounded
<1>1. IInv => AttemptsBounded
  BY DEF IInv, RowInv, AttemptsBounded
<1>2. QED
  BY <1>1, Invariance, PTL

\* A row is marked done only over a body that committed in its latest run.
THEOREM DoneIsCommitted == Spec => []DoneMeansCommitted
<1>1. IInv => DoneMeansCommitted
  BY DEF IInv, RowInv, DoneMeansCommitted
<1>2. QED
  BY <1>1, Invariance, PTL

-----------------------------------------------------------------------------
(* The moves of one row.                                                   *)

Same(r, s) == s.starts = r.starts /\ s.cancelReq = r.cancelReq

\* What the lifecycle allows between row r and row s.
Moves(r, s) ==
  \/ s.status = r.status /\ Same(r, s)
  \/ r.status = "absent" /\ s.status = "queued" /\ Same(r, s)
  \/ /\ r.status = "queued" /\ ~r.cancelReq /\ s.status = "running"
     /\ s.starts = r.starts + 1 /\ s.cancelReq = r.cancelReq
  \/ r.status = "running" /\ s.status \in {"queued", "done"} /\ Same(r, s)
  \/ r.status = "running" /\ s.status = "running" /\ s.starts = r.starts /\ s.cancelReq
  \/ r.status = "queued" /\ s.status = "cancelled" /\ s.starts = r.starts /\ s.cancelReq
  \/ r.status = "running" /\ s.status = "failed" /\ r.starts >= MaxAttempts /\ Same(r, s)
  \/ r.status = "running" /\ s.status = "cancelled" /\ r.cancelReq /\ Same(r, s)
  \/ r.status \in Terminal /\ s.status = "purged"

LEMMA MoveIsStep ==
  ASSUME job \in [JobId -> JobRow], job' \in [JobId -> JobRow], NEW j \in JobId,
         Moves(job[j], job'[j])
  PROVE  Lifecycle!Step(j)
<1> DEFINE r == job[j]
           s == job'[j]
<1>1. /\ PhaseOf[j] = CASE r.status = "absent"  -> "none"
                        [] r.status = "queued"  -> "waiting"
                        [] r.status = "running" -> "active"
                        [] r.status = "purged"  -> "gone"
                        [] OTHER -> r.status
      /\ PhaseOf'[j] = CASE s.status = "absent"  -> "none"
                         [] s.status = "queued"  -> "waiting"
                         [] s.status = "running" -> "active"
                         [] s.status = "purged"  -> "gone"
                         [] OTHER -> s.status
  BY DEF PhaseOf
<1>2. Same(r, s) => Lifecycle!Keep(j)
  BY DEF Same, Lifecycle!Keep
<1> USE DEF Lifecycle!Step
<1>3. CASE s.status = r.status /\ Same(r, s)
  BY <1>1, <1>2, <1>3 DEF Lifecycle!Stay
<1>4. CASE r.status = "absent" /\ s.status = "queued" /\ Same(r, s)
  BY <1>1, <1>2, <1>4 DEF Lifecycle!Submit
<1>5. CASE /\ r.status = "queued" /\ ~r.cancelReq /\ s.status = "running"
           /\ s.starts = r.starts + 1 /\ s.cancelReq = r.cancelReq
  BY <1>1, <1>5 DEF Lifecycle!Begin
<1>6. CASE r.status = "running" /\ s.status \in {"queued", "done"} /\ Same(r, s)
  BY <1>1, <1>2, <1>6 DEF Lifecycle!Yield, Lifecycle!Succeed
<1>7. CASE \/ r.status = "running" /\ s.status = "running" /\ s.starts = r.starts /\ s.cancelReq
           \/ r.status = "queued" /\ s.status = "cancelled" /\ s.starts = r.starts /\ s.cancelReq
  <2>1. s.cancelReq = TRUE
    BY <1>7 DEF JobRow
  <2>2. QED
    BY <1>1, <1>7, <2>1 DEF Lifecycle!Ask
<1>8. CASE r.status = "running" /\ s.status = "failed" /\ r.starts >= MaxAttempts /\ Same(r, s)
  BY <1>1, <1>2, <1>8 DEF Lifecycle!Fail
<1>9. CASE r.status = "running" /\ s.status = "cancelled" /\ r.cancelReq /\ Same(r, s)
  BY <1>1, <1>2, <1>9 DEF Lifecycle!Cancel
<1>10. CASE r.status \in Terminal /\ s.status = "purged"
  BY <1>1, <1>10 DEF Lifecycle!Forget, Lifecycle!Over, Terminal
<1>11. QED
  BY <1>3, <1>4, <1>5, <1>6, <1>7, <1>8, <1>9, <1>10 DEF Moves
-----------------------------------------------------------------------------
(* Every step is a move of every row.                                      *)

LEMMA StayMoves ==
  ASSUME UNCHANGED job
  PROVE  \A i \in JobId : Moves(job[i], job'[i])
BY DEF Moves, Same

LEMMA OneRowMoves ==
  ASSUME job \in [JobId -> JobRow], NEW j \in JobId, NEW r,
         job' = [job EXCEPT ![j] = r], Moves(job[j], r)
  PROVE  \A i \in JobId : Moves(job[i], job'[i])
<1>1. ASSUME NEW i \in JobId, i # j PROVE Moves(job[i], job'[i])
  BY <1>1 DEF Moves, Same
<1>2. Moves(job[j], job'[j])
  OBVIOUS
<1>3. QED
  BY <1>1, <1>2

\* A fenced write moves the row it names, or none.
LEMMA WriteMoves ==
  ASSUME IInv, NEW w \in Worker, NEW r, Write(w, r),
         Owns(w) => Moves(job[worker[w].job], r)
  PROVE  \A i \in JobId : Moves(job[i], job'[i])
<1>1. CASE UNCHANGED job
  BY <1>1, StayMoves
<1>2. CASE job' # job
  <2>1. Owns(w) /\ job' = [job EXCEPT ![worker[w].job] = r] /\ worker[w].job \in JobId
    BY <1>2 DEF Write, Owns
  <2>2. QED
    BY <2>1, OneRowMoves DEF IInv, TypeOK
<1>3. QED
  BY <1>1, <1>2

LEMMA EnqueueMoves ==
  ASSUME IInv, NEW j \in JobId, Fresh(j), NEW k, NEW of, job' = [job EXCEPT ![j] = NewRow(k, of)]
  PROVE  \A i \in JobId : Moves(job[i], job'[i])
<1>1. job \in [JobId -> JobRow] /\ job[j] \in JobRow /\ RowInv(j)
  BY DEF IInv, TypeOK
<1>2. Moves(job[j], NewRow(k, of))
  BY <1>1 DEF Fresh, RowInv, JobRow, NewRow, BlankRow, Moves, Same
<1>3. QED
  BY <1>1, <1>2, OneRowMoves

LEMMA CallerMoves ==
  ASSUME IInv, NEW j \in JobId, NEW a \in Admin,
         \/ CancelQueued(a, j) \/ \E f \in ForceFlags : RetryInsert(a, j, f)
         \/ CancelTell(a) \/ RetryStamp(a) \/ AdminCrash(a)
  PROVE  \A i \in JobId : Moves(job[i], job'[i])
<1>1. job \in [JobId -> JobRow] /\ job[j] \in JobRow
  BY DEF IInv, TypeOK
<1>2. CASE CancelQueued(a, j)
  <2> DEFINE r == [Ended(job[j], "cancelled") EXCEPT !.cancelReq = TRUE]
  <2>1. job' = [job EXCEPT ![j] = r] /\ job[j].status = "queued"
    BY <1>1, <1>2 DEF CancelQueued
  <2>2. Moves(job[j], r)
    BY <1>1, <2>1 DEF Ended, JobRow, Moves
  <2>3. QED
    BY <1>1, <2>1, <2>2, OneRowMoves
<1>3. ASSUME NEW f \in ForceFlags, RetryInsert(a, j, f) PROVE \A i \in JobId : Moves(job[i], job'[i])
  <2>1. PICK n \in JobId : Fresh(n) /\ job' = [job EXCEPT ![n] = NewRow(NoKey, j)]
    BY <1>3 DEF RetryInsert
  <2>2. QED
    BY <2>1, EnqueueMoves
<1>4. CASE CancelTell(a) \/ AdminCrash(a)
  BY <1>4, StayMoves DEF CancelTell, AdminCrash
<1>5. CASE RetryStamp(a)
  <2>1. ASSUME NEW i \in JobId PROVE Moves(job[i], job'[i])
    <3>1. job[i] \in JobRow
      BY <1>1
    <3>2. \/ job'[i] = job[i]
          \/ job'[i] = [job[i] EXCEPT !.retriedAs = admin[a].new]
      BY <1>1, <1>5 DEF RetryStamp
    <3>3. QED
      BY <3>1, <3>2 DEF JobRow, Moves, Same
  <2>2. QED
    BY <2>1
<1>6. QED
  BY <1>2, <1>3, <1>4, <1>5

LEMMA ClockMoves ==
  ASSUME IInv, NEW j \in JobId,
         CancelRunning(j) \/ Purge(j) \/ LeaseExpires(j) \/ BecomesDue(j)
  PROVE  \A i \in JobId : Moves(job[i], job'[i])
<1>1. job \in [JobId -> JobRow] /\ job[j] \in JobRow
  BY DEF IInv, TypeOK
<1>2. PICK r : job' = [job EXCEPT ![j] = r] /\ Moves(job[j], r)
  <2>1. CASE CancelRunning(j)
    <3>1. job' = [job EXCEPT ![j] = [job[j] EXCEPT !.cancelReq = TRUE]]
      BY <1>1, <2>1 DEF CancelRunning
    <3>2. Moves(job[j], [job[j] EXCEPT !.cancelReq = TRUE])
      BY <1>1, <2>1 DEF CancelRunning, Moves, JobRow
    <3>3. QED
      BY <3>1, <3>2
  <2>2. CASE Purge(j)
    <3>1. job' = [job EXCEPT ![j] = [BlankRow EXCEPT !.status = "purged", !.key = job[j].key]]
      BY <2>2 DEF Purge
    <3>2. Moves(job[j], [BlankRow EXCEPT !.status = "purged", !.key = job[j].key])
      BY <1>1, <2>2 DEF Purge, BlankRow, Moves
    <3>3. QED
      BY <3>1, <3>2
  <2>3. CASE LeaseExpires(j)
    <3>1. job' = [job EXCEPT ![j] = [job[j] EXCEPT !.lease = "expired"]]
      BY <1>1, <2>3 DEF LeaseExpires
    <3>2. Moves(job[j], [job[j] EXCEPT !.lease = "expired"])
      BY <1>1 DEF Moves, Same, JobRow
    <3>3. QED
      BY <3>1, <3>2
  <2>4. CASE BecomesDue(j)
    <3>1. job' = [job EXCEPT ![j] = [job[j] EXCEPT !.due = TRUE]]
      BY <1>1, <2>4 DEF BecomesDue
    <3>2. Moves(job[j], [job[j] EXCEPT !.due = TRUE])
      BY <1>1 DEF Moves, Same, JobRow
    <3>3. QED
      BY <3>1, <3>2
  <2>5. QED
    BY <2>1, <2>2, <2>3, <2>4
<1>3. QED
  BY <1>1, <1>2, OneRowMoves

LEMMA WorkerMoves ==
  ASSUME IInv, NEW w \in Worker,
         WorkerStep(w) \/ Heartbeat(w) \/ Stop(w) \/ Interrupt(w) \/ Crash(w)
  PROVE  \A i \in JobId : Moves(job[i], job'[i])
<1> DEFINE m == worker[w]
           r == job[m.job]
<1>1. job \in [JobId -> JobRow] /\ \A j \in JobId : job[j] \in JobRow /\ RowInv(j)
  BY DEF IInv, TypeOK
<1>2. CASE UNCHANGED job
  BY <1>2, StayMoves
<1>3. CASE Sweep(w)
  <2>1. ASSUME NEW j \in JobId PROVE Moves(job[j], job'[j])
    <3>1. job[j] \in JobRow /\ RowInv(j)
      BY <1>1
    <3>2. job'[j] = IF Stale(j) THEN Swept(job[j]) ELSE job[j]
      BY <1>3 DEF Sweep, SweptTable
    <3>3. QED
      BY <3>1, <3>2, BoundsAssumption
         DEF Stale, Swept, Requeued, Ended, RowInv, JobRow, Moves, Same
  <2>2. QED
    BY <2>1
<1>4. CASE Claim(w)
  <2>1. PICK j \in JobId : Claimable(j) /\ job' = [job EXCEPT ![j] = Claimed(job[j])]
    BY <1>4 DEF Claim
  <2>2. Moves(job[j], Claimed(job[j]))
    BY <1>1, <2>1 DEF Claimable, Claimed, JobRow, Moves
  <2>3. QED
    BY <1>1, <2>1, <2>2, OneRowMoves
<1>5. CASE Renew(w) /\ Owns(w)
  <2>1. m.job \in JobId /\ r \in JobRow
    BY <1>1, <1>5 DEF Owns
  <2>2. job' = [job EXCEPT ![m.job] = [r EXCEPT !.lease = "live"]]
    BY <1>1, <1>5, <2>1 DEF Renew
  <2>3. Moves(r, [r EXCEPT !.lease = "live"])
    BY <2>1 DEF JobRow, Moves, Same
  <2>4. QED
    BY <1>1, <2>1, <2>2, <2>3, OneRowMoves
<1>6. Owns(w) => r \in JobRow /\ RowInv(m.job) /\ r.status = "running"
  BY <1>1 DEF Owns
<1>7. CASE FinishDone(w)
  <2>1. Owns(w) => Moves(r, Ended(r, "done"))
    BY <1>6 DEF Ended, JobRow, Moves, Same
  <2>2. QED
    BY <1>7, <2>1, WriteMoves DEF FinishDone
<1>8. CASE FinishCancelled(w)
  <2>1. Owns(w) => r.cancelReq
    BY <1>6, <1>8 DEF IInv, WorkInv, Working, FinishCancelled
  <2>2. Owns(w) => Moves(r, Ended(r, "cancelled"))
    BY <1>6, <2>1 DEF Ended, JobRow, Moves, Same
  <2>3. QED
    BY <1>8, <2>2, WriteMoves DEF FinishCancelled
<1>9. CASE GiveBack(w)
  <2>1. Owns(w) => Moves(r, GivenBack(r))
    BY <1>6 DEF GivenBack, JobRow, Moves, Same
  <2>2. QED
    BY <1>9, <2>1, WriteMoves DEF GiveBack
<1>10. CASE FinishFailed(w)
  <2>1. Owns(w) => Moves(r, FailedAttempt(r))
    BY <1>6, BoundsAssumption
       DEF FailedAttempt, Requeued, Ended, RowInv, JobRow, Moves, Same
  <2>2. QED
    BY <1>10, <2>1, WriteMoves DEF FinishFailed
<1>11. QED
  BY <1>2, <1>3, <1>4, <1>5, <1>7, <1>8, <1>9, <1>10
     DEF WorkerStep, Heartbeat, Stop, Interrupt, Crash, Loop, SweepFails, ReportSwept, NoClaim,
         OnStart, BodyCommits, AttemptFails, Tell, Exit, Restart, Renew, Poll

LEMMA NextMoves ==
  ASSUME IInv, Next
  PROVE  \A i \in JobId : Moves(job[i], job'[i])
<1>1. ASSUME NEW k \in Key \cup {NoKey}, Enqueue(k) PROVE \A i \in JobId : Moves(job[i], job'[i])
  BY <1>1, EnqueueMoves DEF Enqueue
<1>2. CASE PauseOn \/ PauseOff
  BY <1>2, StayMoves DEF PauseOn, PauseOff
<1>3. ASSUME NEW a \in Admin, AdminRequest(a) \/ AdminStep(a) \/ AdminCrash(a)
      PROVE  \A i \in JobId : Moves(job[i], job'[i])
  BY <1>3, CallerMoves DEF AdminRequest, AdminStep
<1>4. QED
  BY <1>1, <1>2, <1>3, WorkerMoves, ClockMoves DEF Next

\* The queue implements the lifecycle: for every job, outcomes are never
\* overwritten, a job asked to be cancelled is never begun again, it fails only
\* after max_attempts runs and is cancelled only if somebody asked.
THEOREM QueueImplementsLifecycle == Spec => ImplementsLifecycle
<1>1. Init => Lifecycle!Init
  BY BoundsAssumption DEF Init, BlankRow, PhaseOf, Lifecycle!Init
<1>2. IInv /\ IInv' /\ [Next]_vars => [Lifecycle!Next]_Lifecycle!vars
  <2>1. ASSUME IInv, IInv', Next PROVE Lifecycle!Next
    BY <2>1, NextMoves, MoveIsStep DEF IInv, TypeOK, Lifecycle!Next
  <2>2. ASSUME UNCHANGED vars PROVE UNCHANGED Lifecycle!vars
    BY <2>2 DEF vars, Lifecycle!vars, PhaseOf
  <2>3. QED
    BY <2>1, <2>2
<1>3. QED
  BY <1>1, <1>2, Invariance, PTL DEF Spec, ImplementsLifecycle, Lifecycle!Spec

-----------------------------------------------------------------------------
(* Runs without a fault.                                                   *)

\* What onFailure was told of, or somebody is about to tell it.
Notices ==
  {n \in Notice : \/ n \in told
                  \/ \E w \in Worker : n \in worker[w].notices
                  \/ \E a \in Admin : n \in admin[a].notices}

\* Only who is about to tell has something to tell.
Silent ==
  /\ \A w \in Worker : worker[w].pc \notin {"report", "tell"} => worker[w].notices = {}
  /\ \A a \in Admin : admin[a].pc # "tell" => admin[a].notices = {}

\* A worker in a run owns its row, whose lease he keeps alive.
Owned == \A w \in Worker : Working(w) => Owns(w) /\ job[worker[w].job].lease = "live"

\* A running job without a key is in some worker's hands: nothing refuses its
\* way back to the queue.
Carried ==
  \A j \in JobId : job[j].status = "running" /\ job[j].key = NoKey
                     => \E w \in Worker : Working(w) /\ worker[w].job = j

\* w's body committed, and its terminal write is still to come.
Committing(w, j) == worker[w].pc = "ended" /\ worker[w].end = "ok" /\ worker[w].job = j

\* A commit is the only one of its job, which is done, or about to be.
CommittedOnce ==
  \A j \in JobId : \A s \in commits[j] :
    /\ \A t \in commits[j] : t = s
    /\ job[j].status \in {"done", "purged"} \/ \E w \in Worker : Committing(w, j)

\* A job that ended without success has a last word.
Warned ==
  \A j \in JobId : job[j].status \in {"failed", "cancelled"} => \E n \in Notices : n.job = j /\ n.final

\* What a notice says of its job: the last word is not taken back, the sweep
\* finds no job that has no key, and a run is not reported while it goes on.
Truthful(n) ==
  LET r == job[n.job]
  IN  /\ r.status # "absent"
      /\ n.final => r.status \in {"failed", "cancelled", "purged"}
      /\ n.by = "sweep" => r.key # NoKey
      /\ n.by = "worker" => /\ r.status # "purged" => n.starts <= r.starts
                            /\ \A w \in Worker : ~(Working(w) /\ worker[w].job = n.job /\ worker[w].starts = n.starts)

\* A worker reports a run once.
ReportedOnce ==
  \A m, n \in Notices :
    m.by = "worker" /\ n.by = "worker" /\ m.job = n.job /\ m.starts = n.starts => m = n

Calm == Owned /\ Carried /\ CommittedOnce /\ Warned /\ (\A n \in Notices : Truthful(n)) /\ ReportedOnce

CInv == IndexHolds(job) /\ Silent /\ (spent["faults"] = 0 => Calm)

LEMMA Spent ==
  ASSUME spent \in [Bounds -> Nat], NEW b \in Bounds, Spend(b), spent'["faults"] = 0
  PROVE  spent["faults"] = 0 /\ b # "faults"
<1>1. /\ spent["faults"] \in Nat /\ spent[b] \in Nat
      /\ spent'["faults"] = IF b = "faults" THEN spent["faults"] + 1 ELSE spent["faults"]
  BY DEF Spend
<1> QED
  BY <1>1

NoticesForm ==
  \A n : n \in Notices <=> \/ n \in told
                           \/ \E w \in Worker : n \in worker[w].notices
                           \/ \E a \in Admin : n \in admin[a].notices

LEMMA NoticesType == TypeOK => NoticesForm
<1> SUFFICES ASSUME TypeOK PROVE NoticesForm
  OBVIOUS
<1>1. ASSUME NEW w \in Worker, NEW n \in worker[w].notices PROVE n \in Notice
  BY DEF TypeOK, WorkerMem
<1>2. ASSUME NEW a \in Admin, NEW n \in admin[a].notices PROVE n \in Notice
  BY DEF TypeOK, AdminMem
<1>3. \A n \in told : n \in Notice
  BY DEF TypeOK
<1>4. ASSUME NEW n
      PROVE  n \in Notices <=> \/ n \in told
                               \/ \E w \in Worker : n \in worker[w].notices
                               \/ \E a \in Admin : n \in admin[a].notices
  BY <1>1, <1>2, <1>3 DEF Notices
<1> QED
  BY <1>4 DEF NoticesForm

\* Who else tells while worker w moves to m.
LEMMA WorkerNotices ==
  ASSUME TypeOK, TypeOK', NEW w \in Worker, NEW m, Set(w, m), UNCHANGED admin, NEW N,
         told' \cup m.notices = told \cup worker[w].notices \cup N
  PROVE  Notices' = Notices \cup N
<1>1. NoticesForm
  BY NoticesType
<1>2. NoticesForm'
  <2>1. TypeOK' => NoticesForm'
    BY NoticesType, PTL
  <2> QED
    BY <2>1
<1>3. /\ worker'[w] = m
      /\ \A v \in Worker : v # w => worker'[v] = worker[v]
  BY DEF Set, TypeOK
<1>4. ASSUME NEW n PROVE n \in Notices' <=> n \in Notices \cup N
  <2>1. (n \in told' \/ n \in m.notices) <=> (n \in told \/ n \in worker[w].notices \/ n \in N)
    OBVIOUS
  <2>2. (\E v \in Worker : n \in worker'[v].notices)
          <=> n \in m.notices \/ \E v \in Worker : v # w /\ n \in worker[v].notices
    BY <1>3
  <2>3. (\E v \in Worker : n \in worker[v].notices)
          <=> n \in worker[w].notices \/ \E v \in Worker : v # w /\ n \in worker[v].notices
    OBVIOUS
  <2> QED
    BY <1>1, <1>2, <2>1, <2>2, <2>3 DEF NoticesForm
<1> QED
  BY <1>4

\* And while request handler a does.
LEMMA AdminNotices ==
  ASSUME TypeOK, TypeOK', NEW a \in Admin, NEW m, admin' = [admin EXCEPT ![a] = m],
         UNCHANGED worker, NEW N, told' \cup m.notices = told \cup admin[a].notices \cup N
  PROVE  Notices' = Notices \cup N
<1>1. NoticesForm
  BY NoticesType
<1>2. NoticesForm'
  <2>1. TypeOK' => NoticesForm'
    BY NoticesType, PTL
  <2> QED
    BY <2>1
<1>3. /\ admin'[a] = m
      /\ \A b \in Admin : b # a => admin'[b] = admin[b]
  BY DEF TypeOK
<1>4. ASSUME NEW n PROVE n \in Notices' <=> n \in Notices \cup N
  <2>1. (n \in told' \/ n \in m.notices) <=> (n \in told \/ n \in admin[a].notices \/ n \in N)
    OBVIOUS
  <2>2. (\E b \in Admin : n \in admin'[b].notices)
          <=> n \in m.notices \/ \E b \in Admin : b # a /\ n \in admin[b].notices
    BY <1>3
  <2>3. (\E b \in Admin : n \in admin[b].notices)
          <=> n \in admin[a].notices \/ \E b \in Admin : b # a /\ n \in admin[b].notices
    OBVIOUS
  <2>4. (\E v \in Worker : n \in worker'[v].notices) <=> (\E v \in Worker : n \in worker[v].notices)
    OBVIOUS
  <2>5. n \in Notices' <=> \/ n \in told'
                           \/ \E v \in Worker : n \in worker'[v].notices
                           \/ \E b \in Admin : n \in admin'[b].notices
    BY <1>2 DEF NoticesForm
  <2>6. n \in Notices <=> \/ n \in told
                          \/ \E v \in Worker : n \in worker[v].notices
                          \/ \E b \in Admin : n \in admin[b].notices
    BY <1>1 DEF NoticesForm
  <2> HIDE DEF Notices
  <2> QED
    BY <2>1, <2>2, <2>3, <2>4, <2>5, <2>6
<1> QED
  BY <1>4

\* The run of w goes on, if there is one, and none begins.
SameRun(w) ==
  /\ Working(w)' <=> Working(w)
  /\ Working(w) => worker'[w].job = worker[w].job /\ worker'[w].attempt = worker[w].attempt
                     /\ worker'[w].starts = worker[w].starts
  /\ \A j \in JobId : Committing(w, j) => Committing(w, j)'

\* A row stands, is new, or is purged.
RowStays(j) ==
  \/ /\ job'[j].status = job[j].status /\ job'[j].key = job[j].key
     /\ job'[j].starts = job[j].starts /\ job'[j].attempts = job[j].attempts
  \/ job[j].status = "absent" /\ job'[j].status = "queued"
  \/ job[j].status \in Terminal /\ job'[j].status = "purged" /\ job'[j].key = job[j].key

\* What a step that ends and begins no run leaves as it is.
LEMMA CalmFrame ==
  ASSUME IInv, IInv', Calm, Notices' = Notices, UNCHANGED commits,
         \A w \in Worker : SameRun(w), \A j \in JobId : RowStays(j),
         \A w \in Worker : Working(w) => job'[worker[w].job].lease = "live"
  PROVE  Calm'
<1>1. Owned'
  <2> SUFFICES ASSUME NEW w \in Worker, Working(w)'
               PROVE  Owns(w)' /\ job'[worker'[w].job].lease = "live"
    BY DEF Owned
  <2>1. Working(w) /\ Owns(w) /\ worker'[w].job = worker[w].job /\ worker'[w].attempt = worker[w].attempt
    BY DEF SameRun, Calm, Owned
  <2>2. worker[w].job \in JobId /\ job[worker[w].job].status = "running"
    BY <2>1, Fence
  <2>3. RowStays(worker[w].job)
    BY <2>2
  <2> QED
    BY <2>1, <2>2, <2>3 DEF RowStays, Owns, Terminal
<1>2. Carried'
  <2> SUFFICES ASSUME NEW j \in JobId, job'[j].status = "running", job'[j].key = NoKey
               PROVE  \E w \in Worker : Working(w)' /\ worker'[w].job = j
    BY DEF Carried
  <2>1. job[j].status = "running" /\ job[j].key = NoKey
    BY DEF RowStays
  <2>2. PICK w \in Worker : Working(w) /\ worker[w].job = j
    BY <2>1 DEF Calm, Carried
  <2> QED
    BY <2>2 DEF SameRun
<1>3. CommittedOnce'
  <2> SUFFICES ASSUME NEW j \in JobId, NEW s \in commits[j]
               PROVE  /\ \A t \in commits[j] : t = s
                      /\ job'[j].status \in {"done", "purged"} \/ \E w \in Worker : Committing(w, j)'
    BY DEF CommittedOnce
  <2>1. /\ \A t \in commits[j] : t = s
        /\ job[j].status \in {"done", "purged"} \/ \E w \in Worker : Committing(w, j)
    BY DEF Calm, CommittedOnce
  <2> QED
    BY <2>1 DEF SameRun, RowStays, Terminal
<1>4. Warned'
  BY DEF Calm, Warned, RowStays, Terminal
<1>5. ASSUME NEW n \in Notices PROVE Truthful(n)'
  <2>1. Truthful(n) /\ n.job \in JobId
    BY DEF Calm, Notices, Notice
  <2>2. RowStays(n.job)
    BY <2>1
  <2>3. job'[n.job].status # "absent"
    BY <2>1, <2>2 DEF Truthful, RowStays
  <2>4. n.final => job'[n.job].status \in {"failed", "cancelled", "purged"}
    BY <2>1, <2>2 DEF Truthful, RowStays, Terminal
  <2>5. n.by = "sweep" => job'[n.job].key # NoKey
    BY <2>1, <2>2 DEF Truthful, RowStays
  <2>6. n.by = "worker" => (job'[n.job].status # "purged" => n.starts <= job'[n.job].starts)
    BY <2>1, <2>2 DEF Truthful, RowStays
  <2>7. n.by = "worker" =>
          \A w \in Worker : ~(Working(w)' /\ worker'[w].job = n.job /\ worker'[w].starts = n.starts)
    BY <2>1 DEF Truthful, SameRun
  <2> QED
    BY <2>3, <2>4, <2>5, <2>6, <2>7 DEF Truthful
<1>6. ReportedOnce'
  BY DEF Calm, ReportedOnce
<1> QED
  BY <1>1, <1>2, <1>3, <1>4, <1>5, <1>6 DEF Calm

\* One worker moves, and the others keep still.
LEMMA SilentMove ==
  ASSUME TypeOK, Silent, NEW w \in Worker, NEW m, Set(w, m), UNCHANGED admin,
         m.pc \in {"report", "tell"} \/ m.notices = {}
  PROVE  Silent'
<1>1. worker'[w] = m /\ \A v \in Worker : v # w => worker'[v] = worker[v]
  BY DEF Set, TypeOK
<1> QED
  BY <1>1 DEF Silent

\* A step of a worker that writes no row and says nothing.
LEMMA QuietCalm ==
  ASSUME IInv, IInv', CInv, NEW w \in Worker, NEW m, Set(w, m),
         UNCHANGED <<job, admin, told, commits>>,
         m.notices = worker[w].notices, m.pc \in {"report", "tell"} \/ m.notices = {},
         m.pc \in {"start", "body", "ended"} <=> Working(w),
         Working(w) => m.job = worker[w].job /\ m.attempt = worker[w].attempt /\ m.starts = worker[w].starts,
         worker[w].pc = "ended" => m.pc = "ended" /\ m.end = worker[w].end,
         spent'["faults"] = 0 => spent["faults"] = 0
  PROVE  CInv'
<1>1. worker'[w] = m /\ \A v \in Worker : v # w => worker'[v] = worker[v]
  BY DEF Set, IInv, TypeOK
<1>2. Silent'
  BY SilentMove DEF CInv, IInv
<1>3. IndexHolds(job)'
  BY DEF CInv, IndexHolds
<1>4. Notices' = Notices
  <2>1. told' \cup m.notices = told \cup worker[w].notices \cup {}
    OBVIOUS
  <2>2. TypeOK /\ TypeOK' /\ UNCHANGED admin
    BY DEF IInv
  <2>3. Notices' = Notices \cup {}
    BY <2>1, <2>2, WorkerNotices, ZenonT(60)
  <2> QED
    BY <2>3
<1>5. ASSUME NEW v \in Worker PROVE SameRun(v)
  <2>1. CASE v # w
    BY <1>1, <2>1 DEF SameRun, Working, Committing
  <2>2. CASE v = w
    BY <1>1, <2>2 DEF SameRun, Working, Committing
  <2> QED
    BY <2>1, <2>2
<1>6. \A j \in JobId : RowStays(j)
  BY DEF RowStays
<1>7. ASSUME Calm PROVE Calm'
  <2>1. \A v \in Worker : Working(v) => job'[worker[v].job].lease = "live"
    BY <1>7 DEF Calm, Owned
  <2> QED
    BY <1>4, <1>5, <1>6, <1>7, <2>1, CalmFrame
<1> QED
  BY <1>2, <1>3, <1>7 DEF CInv

\* A step that writes rows and no worker's run.
LEMMA RowsCalm ==
  ASSUME IInv, IInv', CInv, UNCHANGED <<worker, commits>>, Notices' = Notices, Silent',
         \A j \in JobId : RowStays(j), IndexHolds(job'),
         Calm /\ spent'["faults"] = 0 => \A w \in Worker : Working(w) => job'[worker[w].job].lease = "live",
         spent'["faults"] = 0 => spent["faults"] = 0
  PROVE  CInv'
<1>1. \A w \in Worker : SameRun(w)
  BY DEF SameRun, Working, Committing
<1>2. ASSUME Calm, spent'["faults"] = 0 PROVE Calm'
  BY <1>1, <1>2, CalmFrame
<1>3. IndexHolds(job)'
  BY DEF IndexHolds
<1> QED
  BY <1>2, <1>3 DEF CInv

\* Rows that keep their status, or leave the queue, keep to the index.
LEMMA IndexKept ==
  ASSUME IndexHolds(job), NEW t,
         \A j \in JobId : t[j].status = "queued" => job[j].status = "queued" /\ t[j].key = job[j].key
  PROVE  IndexHolds(t)
BY DEF IndexHolds

\* Whoever says nothing leaves the notices as they are.
LEMMA NotesSame == ASSUME UNCHANGED <<told, worker, admin>> PROVE Notices' = Notices
BY DEF Notices

LEMMA IdleCalm ==
  ASSUME IInv, IInv', CInv, NEW w \in Worker,
         \/ Loop(w) \/ SweepFails(w) \/ NoClaim(w) \/ Exit(w) \/ Restart(w)
         \/ OnStart(w) \/ Poll(w) \/ Stop(w) \/ Interrupt(w)
         \/ \E e \in {"error", "timeout", "maintenance"} : AttemptFails(w, e)
  PROVE  CInv'
<1> DEFINE m == worker[w]
<1>1. m \in WorkerMem /\ spent \in [Bounds -> Nat]
  BY DEF IInv, TypeOK
<1>2. m.pc \notin {"report", "tell"} => m.notices = {}
  BY DEF CInv, Silent
<1>3. CASE Loop(w) \/ SweepFails(w) \/ NoClaim(w) \/ OnStart(w)
  <2>1. PICK p \in {"sweep", "claim", "idle", "body"} :
          /\ Set(w, [m EXCEPT !.pc = p]) /\ UNCHANGED <<job, admin, told, commits, spent>>
          /\ m.pc \notin {"report", "tell", "ended"}
          /\ p = "body" <=> m.pc \in {"start", "body"}
    BY <1>3 DEF Loop, SweepFails, NoClaim, OnStart, Goto
  <2> DEFINE n == [m EXCEPT !.pc = p]
  <2>2. /\ n.pc = p /\ n.notices = m.notices /\ n.job = m.job /\ n.attempt = m.attempt
        /\ n.starts = m.starts
    BY <1>1 DEF WorkerMem
  <2>3. n.pc \in {"start", "body", "ended"} <=> Working(w)
    BY <1>1, <2>1, <2>2 DEF Working, WorkerMem
  <2>4. Set(w, n)
    BY <2>1
  <2> HIDE DEF n
  <2> QED
    BY <1>2, <2>1, <2>2, <2>3, <2>4, QuietCalm
<1>4. CASE Exit(w) \/ Restart(w)
  <2>1. PICK n \in {Off, Idle("up")} : Set(w, n) /\ UNCHANGED <<job, admin, told, commits, spent>>
    BY <1>4 DEF Exit, Restart
  <2>2. n.pc \in {"off", "idle"} /\ n.notices = {}
    BY DEF Off, Idle
  <2>3. m.pc \in {"off", "idle"} /\ ~Working(w)
    BY <1>4 DEF Exit, Restart, Working
  <2> QED
    BY <1>2, <2>1, <2>2, <2>3, QuietCalm
<1>5. CASE Poll(w) \/ \E e \in {"error", "timeout", "maintenance"} : AttemptFails(w, e)
  <2>1. PICK e : \/ Set(w, [m EXCEPT !.stop = "cancelled", !.beat = FALSE])
                 \/ Set(w, [m EXCEPT !.pc = "ended", !.beat = FALSE, !.end = e])
    BY <1>5 DEF Poll, AttemptFails
  <2>2. m.pc \in {"start", "body"} /\ UNCHANGED <<job, admin, told, commits, spent>>
    BY <1>5 DEF Poll, AttemptFails
  <2>3. PICK n : /\ Set(w, n)
                 /\ n \in {[m EXCEPT !.stop = "cancelled", !.beat = FALSE],
                           [m EXCEPT !.pc = "ended", !.beat = FALSE, !.end = e]}
    BY <2>1
  <2>4. /\ n.pc \in {"start", "body", "ended"} /\ n.notices = m.notices /\ n.job = m.job
        /\ n.attempt = m.attempt /\ n.starts = m.starts
    BY <1>1, <2>2, <2>3 DEF WorkerMem
  <2>5. Working(w)
    BY <2>2 DEF Working
  <2> QED
    BY <1>2, <2>2, <2>3, <2>4, <2>5, QuietCalm
<1>6. CASE Stop(w) \/ Interrupt(w)
  <2>1. PICK n : /\ Set(w, n)
                 /\ n \in {[m EXCEPT !.run = "draining"], [m EXCEPT !.run = "interrupted", !.beat = FALSE]}
    BY <1>6 DEF Stop, Interrupt
  <2>2. /\ n.pc = m.pc /\ n.notices = m.notices /\ n.job = m.job /\ n.end = m.end
        /\ n.attempt = m.attempt /\ n.starts = m.starts
    BY <1>1, <2>1 DEF WorkerMem
  <2>3. UNCHANGED <<job, admin, told, commits>> /\ (spent'["faults"] = 0 => spent["faults"] = 0)
    BY <1>1, <1>6, Spent DEF Stop, Interrupt
  <2>4. n.pc \in {"start", "body", "ended"} <=> Working(w)
    BY <2>2 DEF Working
  <2> QED
    BY <1>2, <2>1, <2>2, <2>3, <2>4, QuietCalm
<1> QED
  BY <1>3, <1>4, <1>5, <1>6

\* The callers and the clock, and the renewal of a lease.
LEMMA RequestCalm ==
  ASSUME IInv, IInv', CInv,
         \/ \E k \in Key \cup {NoKey} : Enqueue(k)
         \/ \E a \in Admin, j \in JobId, f \in ForceFlags : RetryInsert(a, j, f)
  PROVE  CInv'
<1>1. PICK n \in JobId, k \in Key \cup {NoKey}, of \in 0..MaxJobs :
        /\ Fresh(n) /\ job' = [job EXCEPT ![n] = NewRow(k, of)]
        /\ IndexHolds(job) => IndexHolds(job')
  <2>0. 0 \in 0..MaxJobs /\ JobId \subseteq 0..MaxJobs
    BY BoundsAssumption DEF JobId
  <2>1. CASE \E k \in Key \cup {NoKey} : Enqueue(k)
    BY <2>0, <2>1 DEF Enqueue
  <2>2. CASE \E a \in Admin, j \in JobId, f \in ForceFlags : RetryInsert(a, j, f)
    <3>1. PICK j \in JobId, n \in JobId : Fresh(n) /\ job' = [job EXCEPT ![n] = NewRow(NoKey, j)]
      <4>1. PICK a \in Admin, j \in JobId, f \in ForceFlags : RetryInsert(a, j, f)
        BY <2>2
      <4>2. \E n \in JobId : Fresh(n) /\ job' = [job EXCEPT ![n] = NewRow(NoKey, j)]
        BY <4>1 DEF RetryInsert
      <4> QED
        BY <4>2
    <3>2. \A i \in JobId : job'[i] = IF i = n THEN NewRow(NoKey, j) ELSE job[i]
      BY <3>1 DEF IInv, TypeOK
    <3>3. NewRow(NoKey, j).key = NoKey
      BY DEF NewRow, BlankRow
    <3>4. IndexHolds(job) => IndexHolds(job')
      BY <3>2, <3>3 DEF IndexHolds
    <3> QED
      BY <2>0, <3>1, <3>4
  <2> QED
    BY <2>1, <2>2
<1>2. /\ job' = [job EXCEPT ![n] = NewRow(k, of)] /\ Fresh(n)
      /\ \A i \in JobId : i # n => job'[i] = job[i]
      /\ job[n].status = "absent" /\ job'[n].status = "queued"
  BY <1>1 DEF IInv, TypeOK, Fresh, NewRow, BlankRow
<1>3. \A i \in JobId : RowStays(i)
  BY <1>2 DEF RowStays
<1>4. Calm => \A w \in Worker : Working(w) => job'[worker[w].job].lease = "live"
  BY <1>2 DEF Calm, Owned, Owns
<1>5. spent \in [Bounds -> Nat]
  BY DEF IInv, TypeOK
<1>6. UNCHANGED <<worker, told, commits>> /\ (spent'["faults"] = 0 => spent["faults"] = 0)
  BY <1>5, Spent DEF Enqueue, RetryInsert
<1>7. Silent' /\ Notices' = Notices
  <2>1. CASE \E x \in Key \cup {NoKey} : Enqueue(x)
    BY <2>1, NotesSame DEF Enqueue, CInv, Silent
  <2>2. CASE \E a \in Admin, j \in JobId, f \in ForceFlags : RetryInsert(a, j, f)
    <3>1. PICK a, j, i : /\ a \in Admin /\ admin[a].pc = "idle"
                         /\ admin' = [admin EXCEPT ![a] =
                              [AdminIdle EXCEPT !.pc = "stamp", !.job = j, !.new = i]]
      <4>1. PICK a \in Admin, j \in JobId, f \in ForceFlags : RetryInsert(a, j, f)
        BY <2>2
      <4>2. \E i : /\ admin[a].pc = "idle"
                   /\ admin' = [admin EXCEPT ![a] =
                        [AdminIdle EXCEPT !.pc = "stamp", !.job = j, !.new = i]]
        BY <4>1 DEF RetryInsert
      <4> QED
        BY <4>2
    <3> DEFINE m == [AdminIdle EXCEPT !.pc = "stamp", !.job = j, !.new = i]
    <3>2. m.notices = {} /\ m.pc = "stamp" /\ admin[a].notices = {}
      BY <3>1 DEF AdminIdle, CInv, Silent
    <3>3. admin' = [admin EXCEPT ![a] = m]
      BY <3>1
    <3> HIDE DEF m
    <3>4. Notices' = Notices \cup {}
      <4>1. TypeOK /\ TypeOK' /\ UNCHANGED worker
        BY <1>6 DEF IInv
      <4>2. told' \cup m.notices = told \cup admin[a].notices \cup {}
        BY <1>6, <3>2
      <4> QED
        BY <3>1, <3>3, <4>1, <4>2, AdminNotices
    <3>5. Silent'
      BY <1>6, <3>2, <3>3 DEF CInv, Silent, IInv, TypeOK
    <3> QED
      BY <3>4, <3>5
  <2> QED
    BY <2>1, <2>2
<1>8. IndexHolds(job')
  BY <1>1 DEF CInv
<1> QED
  BY <1>3, <1>4, <1>6, <1>7, <1>8, RowsCalm

LEMMA ClockCalm ==
  ASSUME IInv, IInv', CInv, NEW j \in JobId,
         CancelRunning(j) \/ Purge(j) \/ LeaseExpires(j) \/ BecomesDue(j)
  PROVE  CInv'
<1>1. spent \in [Bounds -> Nat] /\ job \in [JobId -> JobRow]
  BY DEF IInv, TypeOK
<1>2. UNCHANGED <<worker, admin, told, commits>> /\ (spent'["faults"] = 0 => spent["faults"] = 0)
  BY <1>1, Spent DEF CancelRunning, Purge, LeaseExpires, BecomesDue
<1>3. PICK r : job' = [job EXCEPT ![j] = r] /\ r = job'[j]
  BY <1>1 DEF CancelRunning, Purge, LeaseExpires, BecomesDue
<1>4. \A i \in JobId : i # j => job'[i] = job[i]
  BY <1>1, <1>3
<1>5. \/ /\ r.status = job[j].status /\ r.key = job[j].key
         /\ r.starts = job[j].starts /\ r.attempts = job[j].attempts
      \/ job[j].status \in Terminal /\ r.status = "purged" /\ r.key = job[j].key
  <2>1. job[j] \in JobRow
    BY <1>1
  <2>2. CASE CancelRunning(j)
    BY <1>1, <1>3, <2>1, <2>2 DEF CancelRunning, JobRow
  <2>3. CASE LeaseExpires(j)
    BY <1>1, <1>3, <2>1, <2>3 DEF LeaseExpires, JobRow
  <2>4. CASE BecomesDue(j)
    BY <1>1, <1>3, <2>1, <2>4 DEF BecomesDue, JobRow
  <2>5. CASE Purge(j)
    <3>1. job'[j] = [BlankRow EXCEPT !.status = "purged", !.key = job[j].key] /\ job[j].status \in Terminal
      BY <1>1, <2>5 DEF Purge
    <3>2. job'[j].status = "purged" /\ job'[j].key = job[j].key
      BY <3>1 DEF BlankRow
    <3> QED
      BY <1>3, <3>1, <3>2
  <2> QED
    BY <2>2, <2>3, <2>4, <2>5
<1>6. \A i \in JobId : RowStays(i)
  BY <1>3, <1>4, <1>5 DEF RowStays
<1>7. ASSUME Calm, spent'["faults"] = 0, NEW w \in Worker, Working(w)
      PROVE  job'[worker[w].job].lease = "live"
  <2>1. Owns(w) /\ job[worker[w].job].lease = "live" /\ worker[w].job \in JobId
    BY <1>7 DEF Calm, Owned, Owns
  <2>2. CASE worker[w].job # j
    BY <1>4, <2>1, <2>2
  <2>3. CASE worker[w].job = j
    <3>1. job[j].status = "running" /\ Held(j)
      BY <1>7, <2>1, <2>3 DEF Held, Owns, Working
    <3>2. ~LeaseExpires(j)
      BY <1>1, <1>7, <3>1, Spent DEF LeaseExpires
    <3>3. ~Purge(j) /\ ~BecomesDue(j)
      BY <3>1 DEF Purge, BecomesDue, Terminal
    <3>4. CancelRunning(j)
      BY <3>2, <3>3
    <3> QED
      BY <1>1, <2>1, <2>3, <3>4 DEF CancelRunning, JobRow
  <2> QED
    BY <2>2, <2>3
<1>8. Silent' /\ Notices' = Notices
  BY <1>2, NotesSame DEF CInv, Silent
<1>9. IndexHolds(job')
  BY <1>3, <1>4, <1>5, IndexKept DEF CInv, Terminal
<1> QED
  BY <1>2, <1>6, <1>7, <1>8, <1>9, RowsCalm

LEMMA PauseCalm ==
  ASSUME IInv, IInv', CInv, PauseOn \/ PauseOff \/ UNCHANGED vars
  PROVE  CInv'
<1>1. spent \in [Bounds -> Nat]
  BY DEF IInv, TypeOK
<1>2. UNCHANGED <<job, worker, admin, told, commits>> /\ (spent'["faults"] = 0 => spent["faults"] = 0)
  BY <1>1, Spent DEF PauseOn, PauseOff, vars
<1>3. Silent' /\ Notices' = Notices /\ IndexHolds(job') /\ \A i \in JobId : RowStays(i)
  BY <1>2, NotesSame DEF CInv, Silent, RowStays, IndexHolds
<1>4. Calm => \A w \in Worker : Working(w) => job'[worker[w].job].lease = "live"
  BY <1>2 DEF Calm, Owned
<1> QED
  BY <1>2, <1>3, <1>4, RowsCalm

LEMMA StampCalm ==
  ASSUME IInv, IInv', CInv, NEW a \in Admin, RetryStamp(a)
  PROVE  CInv'
<1>1. /\ spent \in [Bounds -> Nat] /\ job \in [JobId -> JobRow] /\ admin \in [Admin -> AdminMem]
      /\ admin[a].pc = "stamp" /\ UNCHANGED <<worker, told, commits, spent>>
      /\ admin' = [admin EXCEPT ![a] = AdminIdle]
  BY DEF IInv, TypeOK, RetryStamp
<1>2. \A i \in JobId : /\ job'[i].status = job[i].status /\ job'[i].key = job[i].key
                       /\ job'[i].starts = job[i].starts /\ job'[i].attempts = job[i].attempts
                       /\ job'[i].lease = job[i].lease
  <2>1. PICK x : job' = [job EXCEPT ![admin[a].job] =
                           IF @.status = "purged" THEN @ ELSE [@ EXCEPT !.retriedAs = x]]
    BY DEF RetryStamp
  <2>2. \A i \in JobId : job[i] \in JobRow
    BY <1>1
  <2> QED
    BY <1>1, <2>1, <2>2 DEF JobRow
<1>3. \A i \in JobId : RowStays(i)
  BY <1>2 DEF RowStays
<1>4. Calm => \A w \in Worker : Working(w) => job'[worker[w].job].lease = "live"
  BY <1>2 DEF Calm, Owned, Owns
<1>5. AdminIdle.notices = {} /\ AdminIdle.pc = "idle" /\ admin[a].notices = {}
  BY <1>1 DEF AdminIdle, CInv, Silent
<1>6. Notices' = Notices \cup {}
  <2>1. told' \cup AdminIdle.notices = told \cup admin[a].notices \cup {}
    BY <1>1, <1>5
  <2>2. TypeOK /\ TypeOK'
    BY DEF IInv
  <2> QED
    BY <1>1, <2>1, <2>2, AdminNotices, ZenonT(60)
<1>7. Silent'
  BY <1>1, <1>5 DEF CInv, Silent
<1>8. IndexHolds(job')
  BY <1>2, IndexKept DEF CInv
<1> QED
  BY <1>1, <1>3, <1>4, <1>6, <1>7, <1>8, RowsCalm

LEMMA RenewCalm ==
  ASSUME IInv, IInv', CInv, NEW w \in Worker, Renew(w)
  PROVE  CInv'
<1> DEFINE m == worker[w]
<1>1. /\ m \in WorkerMem /\ Working(w) /\ m.pc \in {"start", "body"} /\ m.notices = {}
      /\ m.job \in JobId /\ job \in [JobId -> JobRow]
      /\ UNCHANGED <<admin, told, commits, spent>>
  BY DEF IInv, TypeOK, WorkInv, Renew, Working, CInv, Silent
<1>2. PICK n : /\ Set(w, n)
               /\ n \in {m, [m EXCEPT !.stop = "cancelled", !.beat = FALSE],
                         [m EXCEPT !.stop = "lost", !.beat = FALSE]}
  BY DEF Renew
<1>3. /\ n.pc = m.pc /\ n.job = m.job /\ n.attempt = m.attempt /\ n.starts = m.starts
      /\ n.notices = {}
  BY <1>1, <1>2 DEF WorkerMem
<1>4. worker'[w] = n /\ \A v \in Worker : v # w => worker'[v] = worker[v]
  BY <1>2 DEF IInv, TypeOK, Set
<1>5. \A i \in JobId : /\ job'[i].status = job[i].status /\ job'[i].key = job[i].key
                       /\ job'[i].starts = job[i].starts /\ job'[i].attempts = job[i].attempts
                       /\ job'[i].lease = job[i].lease \/ job'[i].lease = "live"
  <2>1. job' = job \/ job' = [job EXCEPT ![m.job].lease = "live"]
    BY DEF Renew
  <2>2. CASE job' = job
    BY <2>2
  <2>3. CASE job' = [job EXCEPT ![m.job].lease = "live"]
    <3>1. ASSUME NEW i \in JobId, i # m.job PROVE job'[i] = job[i]
      BY <1>1, <2>3, <3>1
    <3>2. job'[m.job] = [job[m.job] EXCEPT !.lease = "live"] /\ job[m.job] \in JobRow
      BY <1>1, <2>3
    <3>3. /\ job'[m.job].status = job[m.job].status /\ job'[m.job].key = job[m.job].key
          /\ job'[m.job].starts = job[m.job].starts /\ job'[m.job].attempts = job[m.job].attempts
          /\ job'[m.job].lease = "live"
      BY <3>2 DEF JobRow
    <3> QED
      BY <3>1, <3>3
  <2> QED
    BY <2>1, <2>2, <2>3
<1>6. Silent'
  BY <1>1, <1>2, <1>3, SilentMove DEF CInv, IInv
<1>7. Notices' = Notices \cup {}
  <2>1. told' \cup n.notices = told \cup worker[w].notices \cup {}
    BY <1>1, <1>3
  <2>2. TypeOK /\ TypeOK' /\ UNCHANGED admin
    BY <1>1 DEF IInv
  <2> QED
    BY <1>2, <2>1, <2>2, WorkerNotices
<1>8. \A v \in Worker : SameRun(v)
  BY <1>1, <1>3, <1>4 DEF SameRun, Working, Committing
<1>9. \A i \in JobId : RowStays(i)
  BY <1>5 DEF RowStays
<1>10. ASSUME Calm PROVE \A v \in Worker : Working(v) => job'[worker[v].job].lease = "live"
  BY <1>5, <1>10 DEF Calm, Owned, Owns
<1>11. Calm => Calm'
  BY <1>1, <1>7, <1>8, <1>9, <1>10, CalmFrame
<1>12. IndexHolds(job')
  BY <1>5, IndexKept DEF CInv
<1>13. IndexHolds(job)'
  BY <1>12 DEF IndexHolds
<1> QED
  BY <1>1, <1>6, <1>11, <1>13 DEF CInv

\* What was about to be said is said.
LEMMA TellCalm ==
  ASSUME IInv, IInv', CInv, UNCHANGED <<job, commits, spent>>,
         \/ \E w \in Worker : ReportSwept(w) \/ Tell(w)
         \/ \E a \in Admin : CancelTell(a)
  PROVE  CInv'
<1>1. TypeOK /\ TypeOK' /\ \A w \in Worker : worker[w] \in WorkerMem
  BY DEF IInv, TypeOK
<1>2. Notices' = Notices \cup {} /\ Silent'
  <2>1. ASSUME NEW w \in Worker, ReportSwept(w) PROVE Notices' = Notices \cup {} /\ Silent'
    <3>1. PICK n \in worker[w].notices :
            /\ told' = told \cup {n}
            /\ Set(w, [worker[w] EXCEPT !.notices = @ \ {n},
                                        !.pc = IF worker[w].notices = {n} THEN "claim" ELSE "report"])
      BY <2>1 DEF ReportSwept
    <3> DEFINE m == [worker[w] EXCEPT !.notices = @ \ {n},
                                      !.pc = IF worker[w].notices = {n} THEN "claim" ELSE "report"]
    <3>2. /\ m.notices = worker[w].notices \ {n}
          /\ m.pc = IF worker[w].notices = {n} THEN "claim" ELSE "report"
      BY <1>1 DEF WorkerMem
    <3>3. told' \cup m.notices = told \cup worker[w].notices \cup {}
      BY <3>1, <3>2
    <3>4. m.pc \in {"report", "tell"} \/ m.notices = {}
      BY <3>2
    <3>5. Set(w, m) /\ UNCHANGED admin
      BY <2>1, <3>1 DEF ReportSwept
    <3> HIDE DEF m
    <3>6. Silent'
      BY <1>1, <3>4, <3>5, SilentMove DEF CInv
    <3>7. Notices' = Notices \cup {}
      BY <1>1, <3>3, <3>5, WorkerNotices
    <3> QED
      BY <3>6, <3>7, SMTT(30)
  <2>2. ASSUME NEW w \in Worker, Tell(w) PROVE Notices' = Notices \cup {} /\ Silent'
    <3> DEFINE m == Idle(worker[w].run)
    <3>1. m.notices = {} /\ m.pc = "idle"
      BY DEF Idle
    <3>2. Set(w, m) /\ UNCHANGED admin /\ told' \cup m.notices = told \cup worker[w].notices \cup {}
      BY <2>2, <3>1 DEF Tell
    <3> HIDE DEF m
    <3>3. Silent'
      BY <1>1, <3>1, <3>2, SilentMove DEF CInv
    <3>4. Notices' = Notices \cup {}
      BY <1>1, <3>2, WorkerNotices
    <3> QED
      BY <3>3, <3>4
  <2>3. ASSUME NEW a \in Admin, CancelTell(a) PROVE Notices' = Notices \cup {} /\ Silent'
    <3>1. AdminIdle.notices = {} /\ AdminIdle.pc = "idle"
      BY DEF AdminIdle
    <3>2. /\ admin' = [admin EXCEPT ![a] = AdminIdle] /\ UNCHANGED worker
          /\ told' \cup AdminIdle.notices = told \cup admin[a].notices \cup {}
      BY <2>3, <3>1 DEF CancelTell
    <3>3. Silent'
      BY <1>1, <3>1, <3>2 DEF CInv, Silent, TypeOK
    <3>4. Notices' = Notices \cup {}
      BY <1>1, <3>2, AdminNotices
    <3> QED
      BY <3>3, <3>4
  <2> QED
    BY <2>1, <2>2, <2>3
<1>3. \A w \in Worker : SameRun(w)
  <2>1. ASSUME NEW w \in Worker, ReportSwept(w) \/ Tell(w) PROVE \A v \in Worker : SameRun(v)
    <3>1. PICK m : Set(w, m) /\ m.pc \in {"claim", "report", "idle"}
      <4>1. CASE ReportSwept(w)
        <5>1. PICK n \in worker[w].notices :
                Set(w, [worker[w] EXCEPT !.notices = @ \ {n},
                                         !.pc = IF worker[w].notices = {n} THEN "claim" ELSE "report"])
          BY <4>1 DEF ReportSwept
        <5>2. [worker[w] EXCEPT !.notices = @ \ {n},
                 !.pc = IF worker[w].notices = {n} THEN "claim" ELSE "report"].pc \in {"claim", "report"}
          BY <1>1 DEF WorkerMem
        <5> QED
          BY <5>1, <5>2
      <4>2. CASE Tell(w)
        BY <4>2, SMTT(30) DEF Tell, Idle
      <4> QED
        BY <2>1, <4>1, <4>2
    <3>2. ~Working(w) /\ worker[w].pc # "ended"
      BY <2>1 DEF ReportSwept, Tell, Working
    <3>3. worker'[w] = m /\ \A v \in Worker : v # w => worker'[v] = worker[v]
      BY <1>1, <3>1 DEF Set, TypeOK
    <3>4. ASSUME NEW v \in Worker PROVE SameRun(v)
      <4>1. CASE v = w
        BY <3>1, <3>2, <3>3, <4>1 DEF SameRun, Working, Committing
      <4>2. CASE v # w
        BY <3>3, <4>2 DEF SameRun, Working, Committing
      <4> QED
        BY <4>1, <4>2
    <3> QED
      BY <3>4
  <2>2. ASSUME NEW a \in Admin, CancelTell(a) PROVE \A v \in Worker : SameRun(v)
    BY <2>2 DEF CancelTell, SameRun, Working, Committing
  <2> QED
    BY <2>1, <2>2
<1>4. \A j \in JobId : RowStays(j)
  BY DEF RowStays
<1>5. ASSUME Calm PROVE \A w \in Worker : Working(w) => job'[worker[w].job].lease = "live"
  BY <1>5 DEF Calm, Owned
<1>6. Calm => Calm'
  BY <1>2, <1>3, <1>4, <1>5, CalmFrame
<1>7. IndexHolds(job)'
  BY DEF CInv, IndexHolds
<1> QED
  BY <1>2, <1>6, <1>7 DEF CInv

\* A crash leaves the rows alone and is a fault.
LEMMA CrashCalm ==
  ASSUME IInv, IInv', CInv, (\E w \in Worker : Crash(w)) \/ \E a \in Admin : AdminCrash(a)
  PROVE  CInv'
<1>1. spent \in [Bounds -> Nat]
  BY DEF IInv, TypeOK
<1>2. UNCHANGED job /\ spent'["faults"] # 0
  BY <1>1, Spent DEF Crash, AdminCrash
<1>3. Silent'
  <2>1. ASSUME NEW w \in Worker, Crash(w) PROVE Silent'
    <3>1. Off.notices = {} /\ Set(w, Off) /\ UNCHANGED admin
      BY <2>1 DEF Off, Idle, Crash
    <3> QED
      BY <3>1, SilentMove DEF CInv, IInv
  <2>2. ASSUME NEW a \in Admin, AdminCrash(a) PROVE Silent'
    BY <2>2, SMTT(30) DEF AdminCrash, AdminIdle, CInv, Silent, IInv, TypeOK
  <2> QED
    BY <2>1, <2>2
<1>4. IndexHolds(job)'
  BY <1>2 DEF CInv, IndexHolds
<1> QED
  BY <1>2, <1>3, <1>4 DEF CInv

\* A commit is the first of its job: whoever committed before it still holds
\* the row, or the row is done.
LEMMA BodyCalm ==
  ASSUME IInv, IInv', CInv, NEW w \in Worker, BodyCommits(w)
  PROVE  CInv'
<1> DEFINE m == worker[w]
           j == worker[w].job
           n == [m EXCEPT !.pc = "ended", !.beat = FALSE, !.end = "ok"]
<1>1. /\ m \in WorkerMem /\ Working(w) /\ m.pc = "body" /\ m.notices = {} /\ j \in JobId
      /\ commits \in [JobId -> SUBSET Nat]
  BY DEF IInv, TypeOK, WorkInv, BodyCommits, Working, CInv, Silent
<1>2. /\ Set(w, n) /\ UNCHANGED <<job, admin, told, spent>>
      /\ commits' = [commits EXCEPT ![j] = @ \cup {m.starts}]
  BY DEF BodyCommits
<1>3. /\ n.pc = "ended" /\ n.end = "ok" /\ n.job = j /\ n.starts = m.starts /\ n.attempt = m.attempt
      /\ n.notices = {}
  BY <1>1 DEF WorkerMem
<1> HIDE DEF n
<1>4. worker'[w] = n /\ \A v \in Worker : v # w => worker'[v] = worker[v]
  BY <1>2 DEF Set, IInv, TypeOK
<1>5. Silent'
  BY <1>2, <1>3, SilentMove DEF CInv, IInv
<1>6. Notices' = Notices
  <2>1. told' \cup n.notices = told \cup worker[w].notices \cup {}
    BY <1>1, <1>2, <1>3
  <2>2. TypeOK /\ TypeOK' /\ UNCHANGED admin
    BY <1>2 DEF IInv
  <2>3. Notices' = Notices \cup {}
    BY <1>2, <2>1, <2>2, WorkerNotices
  <2> QED
    BY <2>3
<1>7. ASSUME Calm PROVE Calm'
  <2>1. \A v \in Worker : Working(v)' <=> Working(v)
    BY <1>1, <1>3, <1>4 DEF Working
  <2>2. \A v \in Worker : Working(v) => /\ worker'[v].job = worker[v].job /\ worker'[v].starts = worker[v].starts
                                        /\ worker'[v].attempt = worker[v].attempt
    BY <1>3, <1>4
  <2>3. Owned'
    BY <1>2, <1>7, <2>1, <2>2 DEF Calm, Owned, Owns
  <2>4. Carried'
    BY <1>2, <1>7, <2>1, <2>2 DEF Calm, Carried
  <2>5. Warned' /\ ReportedOnce'
    BY <1>2, <1>6, <1>7 DEF Calm, Warned, ReportedOnce
  <2>6. \A x \in Notices : Truthful(x)'
    BY <1>2, <1>7, <2>1, <2>2 DEF Calm, Truthful
  <2>7. Owns(w) /\ job[j].status = "running"
    BY <1>1, <1>7, Fence DEF Calm, Owned
  <2>8. commits[j] = {}
    <3>1. SUFFICES ASSUME NEW s \in commits[j] PROVE FALSE
      OBVIOUS
    <3>2. PICK v \in Worker : Committing(v, j)
      BY <1>1, <1>7, <2>7 DEF Calm, CommittedOnce
    <3>3. Working(v) /\ Owns(v) /\ worker[v].job = j /\ v # w
      BY <1>1, <1>7, <3>2 DEF Committing, Working, Calm, Owned
    <3>4. worker[v].starts = worker[w].starts
      BY <1>1, <2>7, <3>3, Fence
    <3> QED
      BY <1>1, <3>3, <3>4 DEF IInv, Distinct
  <2>9. CommittedOnce'
    <3> SUFFICES ASSUME NEW i \in JobId, NEW s \in commits'[i]
                 PROVE  /\ \A t \in commits'[i] : t = s
                        /\ job'[i].status \in {"done", "purged"} \/ \E v \in Worker : Committing(v, i)'
      BY DEF CommittedOnce
    <3>1. CASE i = j
      <4>1. commits'[j] = {m.starts}
        BY <1>1, <1>2, <2>8
      <4>2. Committing(w, i)'
        BY <1>3, <1>4, <3>1 DEF Committing
      <4> QED
        BY <3>1, <4>1, <4>2
    <3>2. CASE i # j
      <4>1. commits'[i] = commits[i] /\ job'[i] = job[i]
        BY <1>1, <1>2, <3>2
      <4>2. /\ \A t \in commits[i] : t = s
            /\ job[i].status \in {"done", "purged"} \/ \E v \in Worker : Committing(v, i)
        BY <1>7, <4>1 DEF Calm, CommittedOnce
      <4>3. \A v \in Worker : Committing(v, i) => Committing(v, i)'
        BY <1>1, <1>4 DEF Committing
      <4> QED
        BY <4>1, <4>2, <4>3
    <3> QED
      BY <3>1, <3>2
  <2> QED
    BY <1>6, <2>3, <2>4, <2>5, <2>6, <2>9 DEF Calm
<1>8. IndexHolds(job)'
  BY <1>2 DEF CInv, IndexHolds
<1> QED
  BY <1>2, <1>5, <1>7, <1>8 DEF CInv

\* A job waiting to run has committed nothing, and nobody works on it.
LEMMA WaitingIsFresh ==
  ASSUME IInv, Calm, NEW j \in JobId, job[j].status = "queued"
  PROVE  /\ commits[j] = {}
         /\ \A w \in Worker : Working(w) => worker[w].job # j
<1>1. \A w \in Worker : Working(w) => worker[w].job # j
  BY DEF Calm, Owned, Owns
<1>2. \A w \in Worker : ~Committing(w, j)
  BY <1>1 DEF Committing, Working
<1> QED
  BY <1>1, <1>2 DEF Calm, CommittedOnce

LEMMA ClaimCalm ==
  ASSUME IInv, IInv', CInv, NEW w \in Worker, Claim(w)
  PROVE  CInv'
<1>1. PICK j \in JobId :
        /\ Claimable(j) /\ job' = [job EXCEPT ![j] = Claimed(job[j])]
        /\ Set(w, [Idle(worker[w].run) EXCEPT !.pc = "start", !.job = j,
                     !.attempt = job[j].attempts + 1, !.starts = job[j].starts + 1, !.beat = TRUE])
  BY DEF Claim
<1> DEFINE n == [Idle(worker[w].run) EXCEPT !.pc = "start", !.job = j,
                   !.attempt = job[j].attempts + 1, !.starts = job[j].starts + 1, !.beat = TRUE]
<1>2. /\ n.pc = "start" /\ n.job = j /\ n.notices = {}
      /\ n.attempt = job[j].attempts + 1 /\ n.starts = job[j].starts + 1
  BY DEF Idle
<1>3. Set(w, n)
  BY <1>1
<1> HIDE DEF n
<1>4. /\ worker[w].pc = "claim" /\ ~Working(w) /\ worker[w].notices = {}
      /\ UNCHANGED <<admin, told, commits, spent>>
      /\ job[j] \in JobRow /\ job[j].status = "queued"
  BY <1>1 DEF Claim, Working, CInv, Silent, Claimable, IInv, TypeOK
<1>5. worker'[w] = n /\ \A v \in Worker : v # w => worker'[v] = worker[v]
  BY <1>3 DEF Set, IInv, TypeOK
<1>6. /\ job'[j].status = "running" /\ job'[j].key = job[j].key /\ job'[j].lease = "live"
      /\ job'[j].attempts = job[j].attempts + 1 /\ job'[j].starts = job[j].starts + 1
      /\ \A i \in JobId : i # j => job'[i] = job[i]
  <2>1. job'[j] = Claimed(job[j]) /\ \A i \in JobId : i # j => job'[i] = job[i]
    BY <1>1 DEF IInv, TypeOK
  <2> QED
    BY <1>4, <2>1 DEF Claimed, JobRow
<1>7. Silent'
  BY <1>2, <1>3, <1>4, SilentMove DEF CInv, IInv
<1>8. Notices' = Notices
  <2>1. told' \cup n.notices = told \cup worker[w].notices \cup {}
    BY <1>2, <1>4
  <2>2. TypeOK /\ TypeOK' /\ UNCHANGED admin
    BY <1>4 DEF IInv
  <2>3. Notices' = Notices \cup {}
    BY <1>3, <2>1, <2>2, WorkerNotices
  <2> QED
    BY <2>3
<1>9. ASSUME Calm PROVE Calm'
  <2>1. commits[j] = {} /\ \A v \in Worker : Working(v) => worker[v].job # j
    BY <1>4, <1>9, WaitingIsFresh
  <2>2. ASSUME NEW v \in Worker, v # w PROVE /\ Working(v)' <=> Working(v)
                                            /\ worker'[v] = worker[v]
    BY <1>5, <2>2 DEF Working
  <2>3. Working(w)' /\ worker'[w].job = j
    BY <1>2, <1>5 DEF Working
  <2>4. Owned'
    <3> SUFFICES ASSUME NEW v \in Worker, Working(v)'
                 PROVE  Owns(v)' /\ job'[worker'[v].job].lease = "live"
      BY DEF Owned
    <3>1. CASE v = w
      BY <1>2, <1>5, <1>6, <3>1 DEF Owns
    <3>2. CASE v # w
      <4>1. Working(v) /\ worker'[v] = worker[v] /\ worker[v].job # j
        BY <2>1, <2>2, <3>2
      <4>2. Owns(v) /\ job[worker[v].job].lease = "live"
        BY <1>9, <4>1 DEF Calm, Owned
      <4> QED
        BY <1>6, <4>1, <4>2 DEF Owns
    <3> QED
      BY <3>1, <3>2
  <2>5. Carried'
    <3> SUFFICES ASSUME NEW i \in JobId, job'[i].status = "running", job'[i].key = NoKey
                 PROVE  \E v \in Worker : Working(v)' /\ worker'[v].job = i
      BY DEF Carried
    <3>1. CASE i = j
      BY <2>3, <3>1
    <3>2. CASE i # j
      <4>1. PICK v \in Worker : Working(v) /\ worker[v].job = i
        BY <1>6, <1>9, <3>2 DEF Calm, Carried
      <4> QED
        BY <1>4, <2>2, <4>1
    <3> QED
      BY <3>1, <3>2
  <2>6. CommittedOnce'
    <3> SUFFICES ASSUME NEW i \in JobId, NEW s \in commits[i]
                 PROVE  /\ \A t \in commits[i] : t = s
                        /\ job'[i].status \in {"done", "purged"} \/ \E v \in Worker : Committing(v, i)'
      BY <1>4 DEF CommittedOnce
    <3>1. i # j /\ job'[i] = job[i]
      BY <1>6, <2>1
    <3>2. \A v \in Worker : Committing(v, i) => Committing(v, i)'
      BY <1>4, <1>5 DEF Committing
    <3>3. /\ \A t \in commits[i] : t = s
          /\ job[i].status \in {"done", "purged"} \/ \E v \in Worker : Committing(v, i)
      BY <1>9 DEF Calm, CommittedOnce
    <3> QED
      BY <3>1, <3>2, <3>3
  <2>7. Warned' /\ ReportedOnce'
    BY <1>6, <1>8, <1>9 DEF Calm, Warned, ReportedOnce
  <2>8. ASSUME NEW x \in Notices PROVE Truthful(x)'
    <3>1. Truthful(x) /\ x.job \in JobId /\ x.starts \in Nat
      BY <1>9 DEF Calm, Notices, Notice
    <3>2. CASE x.job = j
      <4>1. /\ ~x.final /\ (x.by = "sweep" => job[j].key # NoKey)
            /\ x.by = "worker" => x.starts <= job[j].starts
        BY <1>4, <3>1, <3>2 DEF Truthful
      <4>2. job[j].starts \in Nat
        BY <1>4 DEF JobRow
      <4>3. x.by = "worker" => x.starts <= job'[j].starts /\ worker'[w].starts # x.starts
        BY <1>2, <1>5, <1>6, <3>1, <4>1, <4>2
      <4>4. \A v \in Worker : v # w => ~(Working(v)' /\ worker'[v].job = j)
        BY <2>1, <2>2
      <4> QED
        BY <1>6, <3>2, <4>1, <4>3, <4>4 DEF Truthful
    <3>3. CASE x.job # j
      <4>1. job'[x.job] = job[x.job]
        BY <1>6, <3>1, <3>3
      <4>2. \A v \in Worker : Working(v)' /\ worker'[v].job = x.job => Working(v) /\ worker'[v] = worker[v]
        BY <2>2, <2>3, <3>3
      <4> QED
        BY <3>1, <4>1, <4>2 DEF Truthful
    <3> QED
      BY <3>2, <3>3
  <2> QED
    BY <1>8, <2>4, <2>5, <2>6, <2>7, <2>8 DEF Calm
<1>10. IndexHolds(job')
  BY <1>6, IndexKept DEF CInv
<1>11. IndexHolds(job)'
  BY <1>10 DEF IndexHolds
<1> QED
  BY <1>4, <1>7, <1>9, <1>11 DEF CInv

LEMMA CancelCalm ==
  ASSUME IInv, IInv', CInv, NEW a \in Admin, NEW j \in JobId, CancelQueued(a, j)
  PROVE  CInv'
<1> DEFINE x == [job |-> j, starts |-> job[j].starts, by |-> "cancel",
                 reason |-> "cancelled", final |-> TRUE]
           m == [AdminIdle EXCEPT !.pc = "tell", !.notices = {x}]
<1>1. /\ admin' = [admin EXCEPT ![a] = m] /\ admin[a].pc = "idle" /\ admin[a].notices = {}
      /\ UNCHANGED <<worker, told, commits>> /\ job[j].status = "queued"
      /\ job' = [job EXCEPT ![j] = [Ended(@, "cancelled") EXCEPT !.cancelReq = TRUE]]
  BY DEF CancelQueued, CInv, Silent
<1>2. spent \in [Bounds -> Nat] /\ Spend("cancels")
  BY DEF IInv, TypeOK, CancelQueued
<1>3. spent'["faults"] = 0 => spent["faults"] = 0
  BY <1>2, Spent
<1>4. /\ job'[j].status = "cancelled" /\ job'[j].key = job[j].key /\ job'[j].starts = job[j].starts
      /\ \A i \in JobId : i # j => job'[i] = job[i]
  <2>1. /\ job'[j] = [Ended(job[j], "cancelled") EXCEPT !.cancelReq = TRUE]
        /\ \A i \in JobId : i # j => job'[i] = job[i]
        /\ job[j] \in JobRow
    BY <1>1 DEF IInv, TypeOK
  <2> QED
    BY <2>1 DEF Ended, JobRow
<1>5. m.notices = {x} /\ m.pc = "tell"
  BY DEF AdminIdle
<1>6. Silent'
  <2>1. \A b \in Admin : admin'[b] = IF b = a THEN m ELSE admin[b]
    BY <1>1 DEF IInv, TypeOK
  <2> HIDE DEF m
  <2> QED
    BY <1>1, <1>5, <2>1 DEF CInv, Silent
<1>7. Notices' = Notices \cup {x}
  <2>1. TypeOK /\ TypeOK'
    BY DEF IInv
  <2>2. told' \cup m.notices = told \cup admin[a].notices \cup {x}
    BY <1>1, <1>5
  <2> HIDE DEF m, x
  <2> QED
    BY <1>1, <2>1, <2>2, AdminNotices, ZenonT(60)
<1>8. x.job = j /\ x.by = "cancel" /\ x.final
  OBVIOUS
<1> HIDE DEF m, x
<1>9. ASSUME Calm PROVE Calm'
  <2>1. commits[j] = {} /\ \A w \in Worker : Working(w) => worker[w].job # j
    BY <1>1, <1>9, WaitingIsFresh
  <2>2. \A w \in Worker : (Working(w)' <=> Working(w)) /\ \A i \in JobId : Committing(w, i)' <=> Committing(w, i)
    BY <1>1 DEF Working, Committing
  <2>3. Owned'
    BY <1>1, <1>4, <1>9, <2>1, <2>2 DEF Calm, Owned, Owns
  <2>4. Carried'
    BY <1>1, <1>4, <1>9, <2>2 DEF Calm, Carried
  <2>5. CommittedOnce'
    <3> SUFFICES ASSUME NEW i \in JobId, NEW s \in commits[i]
                 PROVE  /\ \A t \in commits[i] : t = s
                        /\ job'[i].status \in {"done", "purged"} \/ \E v \in Worker : Committing(v, i)'
      BY <1>1 DEF CommittedOnce
    <3>1. i # j /\ job'[i] = job[i]
      BY <1>4, <2>1
    <3>2. /\ \A t \in commits[i] : t = s
          /\ job[i].status \in {"done", "purged"} \/ \E v \in Worker : Committing(v, i)
      BY <1>9 DEF Calm, CommittedOnce
    <3> QED
      BY <2>2, <3>1, <3>2
  <2>6. Warned'
    <3> SUFFICES ASSUME NEW i \in JobId, job'[i].status \in {"failed", "cancelled"}
                 PROVE  \E n \in Notices' : n.job = i /\ n.final
      BY DEF Warned
    <3>1. CASE i = j
      BY <1>7, <1>8, <3>1
    <3>2. CASE i # j
      BY <1>4, <1>7, <1>9, <3>2 DEF Calm, Warned
    <3> QED
      BY <3>1, <3>2
  <2>7. ASSUME NEW n \in Notices' PROVE Truthful(n)'
    <3>1. CASE n = x
      BY <1>4, <1>8, <3>1 DEF Truthful
    <3>2. CASE n \in Notices
      <4>1. Truthful(n) /\ n.job \in JobId
        BY <1>9, <3>2 DEF Calm, Notices, Notice
      <4>2. CASE n.job = j
        BY <1>1, <1>4, <2>1, <2>2, <4>1, <4>2 DEF Truthful
      <4>3. CASE n.job # j
        BY <1>1, <1>4, <2>2, <4>1, <4>3 DEF Truthful
      <4> QED
        BY <4>2, <4>3
    <3> QED
      BY <1>7, <3>1, <3>2
  <2>8. ReportedOnce'
    BY <1>7, <1>8, <1>9 DEF Calm, ReportedOnce
  <2> QED
    BY <2>3, <2>4, <2>5, <2>6, <2>7, <2>8 DEF Calm
<1>10. IndexHolds(job')
  BY <1>4, IndexKept DEF CInv
<1>11. IndexHolds(job)'
  BY <1>10 DEF IndexHolds
<1> QED
  BY <1>3, <1>6, <1>9, <1>11 DEF CInv

\* A run that ends with its row's outcome, and a report of it.
LEMMA EndCalm ==
  ASSUME IInv, IInv', Silent, Calm, NEW w \in Worker, worker[w].pc = "ended",
         NEW n, Set(w, n), n.pc \in {"idle", "tell"}, UNCHANGED <<admin, told, commits>>,
         NEW j \in JobId, j = worker[w].job,
         \A i \in JobId : i # j => job'[i] = job[i],
         job'[j].starts = job[j].starts, job'[j].key = job[j].key,
         job'[j].status \in {"running", "queued", "done", "failed", "cancelled"},
         job'[j].status = "running" => job[j].key # NoKey,
         worker[w].end = "ok" => job'[j].status = "done",
         \A x \in n.notices : /\ x.job = j /\ x.by = "worker" /\ x.starts = worker[w].starts
                              /\ x.final => job'[j].status \in {"failed", "cancelled"},
         \A x, y \in n.notices : x = y,
         job'[j].status \in {"failed", "cancelled"} => \E x \in n.notices : x.final
  PROVE  Calm'
<1>1. Working(w) /\ Owns(w) /\ worker[w].notices = {}
  BY DEF Working, Calm, Owned, Silent
<1>2. job[j].status = "running" /\ job[j].starts = worker[w].starts /\ job[j] \in JobRow
  BY <1>1, Fence DEF IInv, TypeOK
<1>3. worker'[w] = n /\ \A v \in Worker : v # w => worker'[v] = worker[v]
  BY DEF Set, IInv, TypeOK
<1>4. ASSUME NEW v \in Worker, Working(v)'
      PROVE  v # w /\ Working(v) /\ worker'[v] = worker[v] /\ Owns(v) /\ worker[v].job # j
  <2>1. v # w
    BY <1>3, <1>4 DEF Working
  <2>2. Working(v) /\ worker'[v] = worker[v]
    BY <1>3, <1>4, <2>1 DEF Working
  <2>3. Owns(v)
    BY <2>2 DEF Calm, Owned
  <2>4. worker[v].job = j => worker[v].starts = worker[w].starts
    BY <1>2, <2>2, <2>3, Fence
  <2> QED
    BY <1>1, <2>1, <2>2, <2>3, <2>4 DEF IInv, Distinct
<1>5. ASSUME NEW v \in Worker, Working(v), v # w
      PROVE  Working(v)' /\ worker'[v] = worker[v] /\ worker[v].job # j
  <2>1. Working(v)' /\ worker'[v] = worker[v]
    BY <1>3, <1>5 DEF Working
  <2> QED
    BY <1>4, <2>1
<1>6. Notices' = Notices \cup n.notices
  <2>1. told' \cup n.notices = told \cup worker[w].notices \cup n.notices
    BY <1>1
  <2>2. TypeOK /\ TypeOK' /\ UNCHANGED admin
    BY DEF IInv
  <2> QED
    BY <2>1, <2>2, WorkerNotices
<1>7. Owned'
  <2> SUFFICES ASSUME NEW v \in Worker, Working(v)'
               PROVE  Owns(v)' /\ job'[worker'[v].job].lease = "live"
    BY DEF Owned
  <2>1. Working(v) /\ worker'[v] = worker[v] /\ worker[v].job # j
    BY <1>4
  <2>2. Owns(v) /\ job[worker[v].job].lease = "live"
    BY <2>1 DEF Calm, Owned
  <2> QED
    BY <2>1, <2>2 DEF Owns
<1>8. Carried'
  <2> SUFFICES ASSUME NEW i \in JobId, job'[i].status = "running", job'[i].key = NoKey
               PROVE  \E v \in Worker : Working(v)' /\ worker'[v].job = i
    BY DEF Carried
  <2>1. i # j /\ job'[i] = job[i]
    OBVIOUS
  <2>2. PICK v \in Worker : Working(v) /\ worker[v].job = i
    BY <2>1 DEF Calm, Carried
  <2> QED
    BY <1>5, <2>1, <2>2
<1>9. CommittedOnce'
  <2> SUFFICES ASSUME NEW i \in JobId, NEW s \in commits[i]
               PROVE  /\ \A t \in commits[i] : t = s
                      /\ job'[i].status \in {"done", "purged"} \/ \E v \in Worker : Committing(v, i)'
    BY DEF CommittedOnce
  <2>1. /\ \A t \in commits[i] : t = s
        /\ job[i].status \in {"done", "purged"} \/ \E v \in Worker : Committing(v, i)
    BY DEF Calm, CommittedOnce
  <2>2. CASE i = j
    <3>1. PICK v \in Worker : Committing(v, j)
      BY <1>2, <2>1, <2>2
    <3>2. Working(v) /\ worker[v].job = j
      BY <3>1 DEF Committing, Working
    <3>3. v = w
      BY <1>5, <3>2
    <3>4. worker[w].end = "ok"
      BY <3>1, <3>3 DEF Committing
    <3> QED
      BY <2>1, <2>2, <3>4
  <2>3. CASE i # j
    <3>1. \A v \in Worker : Committing(v, i) => Committing(v, i)'
      BY <1>3, <2>3 DEF Committing
    <3> QED
      BY <2>1, <2>3, <3>1
  <2> QED
    BY <2>2, <2>3
<1>10. Warned'
  <2> SUFFICES ASSUME NEW i \in JobId, job'[i].status \in {"failed", "cancelled"}
               PROVE  \E x \in Notices' : x.job = i /\ x.final
    BY DEF Warned
  <2>1. CASE i = j
    BY <1>6, <2>1
  <2>2. CASE i # j
    BY <1>6, <2>2 DEF Calm, Warned
  <2> QED
    BY <2>1, <2>2
<1>11. ASSUME NEW x \in Notices PROVE Truthful(x)' /\ ~(x.by = "worker" /\ x.job = j /\ x.starts = worker[w].starts)
  <2>1. Truthful(x) /\ x.job \in JobId
    BY DEF Calm, Notices, Notice
  <2>2. ~(x.by = "worker" /\ x.job = j /\ x.starts = worker[w].starts)
    BY <1>1, <2>1 DEF Truthful
  <2>3. x.by = "worker" => \A v \in Worker : ~(Working(v)' /\ worker'[v].job = x.job /\ worker'[v].starts = x.starts)
    BY <1>4, <2>1 DEF Truthful
  <2>4. /\ job'[x.job].status # "absent"
        /\ x.final => job'[x.job].status \in {"failed", "cancelled", "purged"}
        /\ x.by = "sweep" => job'[x.job].key # NoKey
        /\ x.by = "worker" => (job'[x.job].status # "purged" => x.starts <= job'[x.job].starts)
    <3>1. CASE x.job = j
      BY <1>2, <2>1, <3>1 DEF Truthful
    <3>2. CASE x.job # j
      <4>1. job'[x.job] = job[x.job]
        BY <2>1, <3>2
      <4> QED
        BY <2>1, <4>1 DEF Truthful
    <3> QED
      BY <3>1, <3>2
  <2>5. Truthful(x)'
    BY <2>3, <2>4 DEF Truthful
  <2> QED
    BY <2>2, <2>5
<1>12. ASSUME NEW x \in n.notices PROVE Truthful(x)'
  <2>1. /\ x.job = j /\ x.by = "worker" /\ x.starts = worker[w].starts
        /\ x.final => job'[j].status \in {"failed", "cancelled"}
    OBVIOUS
  <2>2. \A v \in Worker : ~(Working(v)' /\ worker'[v].job = j)
    BY <1>4
  <2>3. x.starts <= job'[j].starts
    BY <1>2, <2>1 DEF JobRow
  <2> QED
    BY <2>1, <2>2, <2>3 DEF Truthful
<1>13. \A x \in Notices' : Truthful(x)'
  BY <1>6, <1>11, <1>12
<1>14. ReportedOnce'
  <2> SUFFICES ASSUME NEW x \in Notices', NEW y \in Notices',
                      x.by = "worker", y.by = "worker", x.job = y.job, x.starts = y.starts
               PROVE  x = y
    BY DEF ReportedOnce
  <2>1. CASE x \in Notices /\ y \in Notices
    BY <2>1 DEF Calm, ReportedOnce
  <2>2. CASE x \in n.notices /\ y \in n.notices
    BY <2>2
  <2>3. CASE x \in Notices /\ y \in n.notices
    BY <1>11, <2>3
  <2>4. CASE x \in n.notices /\ y \in Notices
    BY <1>11, <2>4
  <2> QED
    BY <1>6, <2>1, <2>2, <2>3, <2>4
<1> QED
  BY <1>7, <1>8, <1>9, <1>10, <1>13, <1>14 DEF Calm

\* A terminal write keeps the index, and without a fault it is only refused
\* for the sake of the index.
LEMMA WriteCalm ==
  ASSUME IInv, IndexHolds(job), NEW w \in Worker, worker[w].job \in JobId, NEW r, Write(w, r)
  PROVE  /\ IndexHolds(job')
         /\ spent'["faults"] = 0 => spent["faults"] = 0
         /\ \A i \in JobId : i # worker[w].job => job'[i] = job[i]
         /\ \/ job'[worker[w].job] = r
            \/ job'[worker[w].job] = job[worker[w].job]
         /\ /\ spent'["faults"] = 0 /\ Owns(w)
            /\ r.key = job[worker[w].job].key /\ (r.status # "queued" \/ r.key = NoKey)
            => job'[worker[w].job] = r
<1> DEFINE j == worker[w].job
           new == [job EXCEPT ![j] = r]
<1>1. spent \in [Bounds -> Nat] /\ job \in [JobId -> JobRow]
  BY DEF IInv, TypeOK
<1>2. new[j] = r /\ \A i \in JobId : i # j => new[i] = job[i]
  BY <1>1
<1>3. r.status # "queued" \/ r.key = NoKey => IndexHolds(new)
  BY <1>2 DEF IndexHolds
<1>4. \/ Owns(w) /\ IndexHolds(new) /\ job' = new /\ UNCHANGED spent
      \/ ~(Owns(w) /\ IndexHolds(new)) /\ job' = job /\ UNCHANGED spent
      \/ Spend("faults") /\ job' = job
  BY DEF Write
<1> HIDE DEF new
<1>5. Spend("faults") => spent'["faults"] # 0
  BY <1>1, Spent, SMTT(30)
<1> QED
  BY <1>2, <1>3, <1>4, <1>5

LEMMA FinishCalm ==
  ASSUME IInv, IInv', CInv, NEW w \in Worker,
         FinishDone(w) \/ FinishCancelled(w) \/ GiveBack(w) \/ FinishFailed(w)
  PROVE  CInv'
<1> DEFINE j == worker[w].job
           x(reason, final) == [job |-> j, starts |-> worker[w].starts, by |-> "worker",
                                reason |-> reason, final |-> final]
<1>1. /\ worker[w].pc = "ended" /\ Working(w) /\ worker[w] \in WorkerMem
      /\ j \in JobId /\ job[j] \in JobRow /\ RowInv(j)
      /\ UNCHANGED <<admin, told, commits>>
  BY DEF FinishDone, FinishCancelled, GiveBack, FinishFailed, Working, IInv, TypeOK, WorkInv
<1>2. PICK r, n :
        /\ Write(w, r) /\ Set(w, n)
        /\ \/ /\ worker[w].end = "ok" /\ r = Ended(job[j], "done") /\ n = Idle(worker[w].run)
           \/ /\ worker[w].end # "ok" /\ r = Ended(job[j], "cancelled")
              /\ n = [worker[w] EXCEPT !.pc = "tell", !.notices = {x("cancelled", TRUE)}]
           \/ worker[w].end # "ok" /\ r = GivenBack(job[j]) /\ n = Idle(worker[w].run)
           \/ /\ worker[w].end # "ok" /\ r = FailedAttempt(job[j])
              /\ n = [worker[w] EXCEPT !.pc = "tell",
                        !.notices = {x(worker[w].end, worker[w].attempt >= MaxAttempts)}]
  BY DEF FinishDone, FinishCancelled, GiveBack, FinishFailed, ToTell
<1>3. /\ r.key = job[j].key /\ r.starts = job[j].starts
      /\ r.status \in {"queued", "done", "failed", "cancelled"}
      /\ worker[w].end = "ok" => r.status = "done"
  BY <1>1, <1>2, ZenonT(60) DEF Ended, GivenBack, FailedAttempt, Requeued, JobRow
<1>4. /\ n.pc \in {"idle", "tell"} /\ (n.pc \in {"report", "tell"} \/ n.notices = {})
      /\ \A y \in n.notices : y.job = j /\ y.by = "worker" /\ y.starts = worker[w].starts
      /\ \A y, z \in n.notices : y = z
  <2>1. Idle(worker[w].run).pc = "idle" /\ Idle(worker[w].run).notices = {}
    BY DEF Idle
  <2>2. \A s : /\ [worker[w] EXCEPT !.pc = "tell", !.notices = s].pc = "tell"
               /\ [worker[w] EXCEPT !.pc = "tell", !.notices = s].notices = s
    BY <1>1 DEF WorkerMem
  <2>3. CASE n = Idle(worker[w].run)
    BY <2>1, <2>3
  <2>4. CASE n = [worker[w] EXCEPT !.pc = "tell", !.notices = {x("cancelled", TRUE)}]
    <3>1. n.pc = "tell" /\ n.notices = {x("cancelled", TRUE)}
      BY <2>2, <2>4
    <3> QED
      BY <3>1
  <2>5. CASE n = [worker[w] EXCEPT !.pc = "tell",
                    !.notices = {x(worker[w].end, worker[w].attempt >= MaxAttempts)}]
    <3>1. n.pc = "tell" /\ n.notices = {x(worker[w].end, worker[w].attempt >= MaxAttempts)}
      BY <2>2, <2>5
    <3> QED
      BY <3>1
  <2> QED
    BY <1>2, <2>3, <2>4, <2>5
<1>5. /\ IndexHolds(job')
      /\ spent'["faults"] = 0 => spent["faults"] = 0
      /\ \A i \in JobId : i # j => job'[i] = job[i]
      /\ job'[j] = r \/ job'[j] = job[j]
      /\ spent'["faults"] = 0 /\ Owns(w) /\ (r.status # "queued" \/ r.key = NoKey) => job'[j] = r
  BY <1>1, <1>2, <1>3, WriteCalm DEF CInv
<1>6. Silent'
  BY <1>1, <1>2, <1>4, SilentMove DEF CInv, IInv
<1>7. ASSUME spent'["faults"] = 0 PROVE Calm'
  <2>1. Calm /\ Silent
    BY <1>5, <1>7 DEF CInv
  <2>2. Owns(w) /\ job[j].status = "running" /\ job[j].attempts = worker[w].attempt
    BY <1>1, <2>1 DEF Calm, Owned, Owns
  <2>3. job'[j].starts = job[j].starts /\ job'[j].key = job[j].key
    BY <1>3, <1>5
  <2>4. /\ job'[j].status \in {"running", "queued", "done", "failed", "cancelled"}
        /\ job'[j].status = "running" => job[j].key # NoKey
    BY <1>3, <1>5, <1>7, <2>2
  <2>5. worker[w].end = "ok" => job'[j].status = "done"
    BY <1>3, <1>5, <1>7, <2>2
  <2>6. /\ \A y \in n.notices : y.final => job'[j].status \in {"failed", "cancelled"}
        /\ job'[j].status \in {"failed", "cancelled"} => \E y \in n.notices : y.final
    <3>1. /\ Ended(job[j], "done").status = "done" /\ Ended(job[j], "cancelled").status = "cancelled"
          /\ GivenBack(job[j]).status = "queued"
          /\ FailedAttempt(job[j]).status = IF job[j].attempts < MaxAttempts THEN "queued" ELSE "failed"
      BY <1>1 DEF Ended, GivenBack, FailedAttempt, Requeued, JobRow
    <3>2. Idle(worker[w].run).notices = {}
      BY DEF Idle
    <3>3. \A s : [worker[w] EXCEPT !.pc = "tell", !.notices = s].notices = s
      BY <1>1 DEF WorkerMem
    <3>4. CASE worker[w].end = "ok" /\ r = Ended(job[j], "done") /\ n = Idle(worker[w].run)
      BY <1>5, <2>2, <3>1, <3>2, <3>4
    <3>5. CASE /\ r = Ended(job[j], "cancelled")
               /\ n = [worker[w] EXCEPT !.pc = "tell", !.notices = {x("cancelled", TRUE)}]
      <4>1. job'[j].status = "cancelled"
        BY <1>5, <1>7, <2>2, <3>1, <3>5
      <4>2. n.notices = {x("cancelled", TRUE)} /\ x("cancelled", TRUE).final
        BY <3>3, <3>5
      <4> QED
        BY <4>1, <4>2
    <3>6. CASE r = GivenBack(job[j]) /\ n = Idle(worker[w].run)
      BY <1>5, <2>2, <3>1, <3>2, <3>6
    <3>7. CASE /\ r = FailedAttempt(job[j])
               /\ n = [worker[w] EXCEPT !.pc = "tell",
                         !.notices = {x(worker[w].end, worker[w].attempt >= MaxAttempts)}]
      <4> DEFINE f == worker[w].attempt >= MaxAttempts
      <4>1. n.notices = {x(worker[w].end, f)} /\ (x(worker[w].end, f).final <=> f)
        BY <3>3, <3>7
      <4>2. f <=> ~(job[j].attempts < MaxAttempts)
        BY <1>1, <2>2, BoundsAssumption DEF JobRow, WorkerMem
      <4>3. f => job'[j].status = "failed"
        BY <1>5, <1>7, <2>2, <3>1, <3>7, <4>2
      <4>4. ~f => job'[j].status \in {"queued", "running"}
        BY <1>5, <2>2, <3>1, <3>7, <4>2
      <4> QED
        BY <4>1, <4>3, <4>4
    <3> QED
      BY <1>2, <3>4, <3>5, <3>6, <3>7
  <2>7. \A y \in n.notices : /\ y.job = j /\ y.by = "worker" /\ y.starts = worker[w].starts
                             /\ y.final => job'[j].status \in {"failed", "cancelled"}
    BY <1>4, <2>6
  <2> QED
    BY <1>1, <1>2, <1>4, <1>5, <2>1, <2>3, <2>4, <2>5, <2>6, <2>7, EndCalm
<1>8. IndexHolds(job)'
  BY <1>5 DEF IndexHolds
<1> QED
  BY <1>6, <1>7, <1>8 DEF CInv

\* The sweep takes no job from a live worker, so it says nothing of a job
\* without a key.
LEMMA SweepCalm ==
  ASSUME IInv, IInv', CInv, NEW w \in Worker, Sweep(w)
  PROVE  CInv'
<1> DEFINE stale == {j \in JobId : Stale(j)}
           N == {SweepNotice(j) : j \in stale}
           n == [worker[w] EXCEPT !.pc = IF stale = {} THEN "claim" ELSE "report", !.notices = N]
<1>1. /\ worker[w].pc = "sweep" /\ ~Working(w) /\ worker[w].notices = {} /\ worker[w] \in WorkerMem
      /\ IndexHolds(SweptTable) /\ job' = SweptTable /\ Set(w, n)
      /\ UNCHANGED <<admin, told, commits, spent>>
  BY DEF Sweep, Working, CInv, Silent, IInv, TypeOK
<1>2. n.pc = (IF stale = {} THEN "claim" ELSE "report") /\ n.notices = N
  BY <1>1 DEF WorkerMem
<1>3. n.pc \in {"report", "tell"} \/ n.notices = {}
  BY <1>2
<1>4. n.pc \in {"claim", "report"}
  BY <1>2
<1> HIDE DEF n
<1>5. worker'[w] = n /\ \A v \in Worker : v # w => worker'[v] = worker[v]
  BY <1>1 DEF Set, IInv, TypeOK
<1>6. Silent'
  BY <1>1, <1>3, SilentMove DEF CInv, IInv
<1>7. Notices' = Notices \cup N
  <2>1. told' \cup n.notices = told \cup worker[w].notices \cup N
    BY <1>1, <1>2
  <2>2. TypeOK /\ TypeOK' /\ UNCHANGED admin
    BY <1>1 DEF IInv
  <2> HIDE DEF N
  <2> QED
    BY <1>1, <2>1, <2>2, WorkerNotices
<1>8. ASSUME NEW i \in JobId
      PROVE  /\ ~Stale(i) => job'[i] = job[i]
             /\ Stale(i) => /\ job'[i].status \in {"queued", "failed", "cancelled"}
                            /\ job'[i].key = job[i].key /\ job'[i].starts = job[i].starts
                            /\ job[i].status = "running" /\ job[i].lease = "expired"
                            /\ job'[i] = Swept(job[i])
  <2>1. job'[i] = IF Stale(i) THEN Swept(job[i]) ELSE job[i]
    BY <1>1 DEF SweptTable
  <2>2. job[i] \in JobRow
    BY DEF IInv, TypeOK
  <2> QED
    BY <2>1, <2>2 DEF Swept, Ended, Requeued, Stale, JobRow
<1>9. ASSUME NEW i \in JobId
      PROVE  LET x == SweepNotice(i)
             IN  /\ x.job = i /\ x.by = "sweep"
                 /\ x.final <=> Swept(job[i]).status # "queued"
  BY DEF SweepNotice
<1>10. ASSUME Calm PROVE Calm'
  <2>1. ASSUME NEW v \in Worker, Working(v) PROVE /\ Working(v)' /\ worker'[v] = worker[v]
                                                 /\ worker[v].job \in JobId /\ ~Stale(worker[v].job)
    <3>1. v # w
      BY <1>1, <2>1
    <3>2. Owns(v) /\ job[worker[v].job].lease = "live"
      BY <1>10, <2>1 DEF Calm, Owned
    <3> QED
      BY <1>5, <2>1, <3>1, <3>2 DEF Working, Owns, Stale
  <2>2. ASSUME NEW v \in Worker, Working(v)' PROVE Working(v) /\ worker'[v] = worker[v]
    <3>1. v # w
      BY <1>4, <1>5, <2>2 DEF Working
    <3> QED
      BY <1>5, <2>2, <3>1 DEF Working
  <2>3. ASSUME NEW i \in JobId, Stale(i) PROVE commits[i] = {} /\ job[i].key # NoKey
    <3>1. \A v \in Worker : Working(v) => worker[v].job # i
      BY <2>1, <2>3
    <3>2. job[i].key # NoKey
      BY <1>8, <1>10, <2>3, <3>1 DEF Calm, Carried
    <3>3. \A v \in Worker : ~Committing(v, i)
      BY <3>1 DEF Committing, Working
    <3> QED
      BY <1>8, <1>10, <2>3, <3>2, <3>3 DEF Calm, CommittedOnce
  <2>4. Owned'
    <3> SUFFICES ASSUME NEW v \in Worker, Working(v)'
                 PROVE  Owns(v)' /\ job'[worker'[v].job].lease = "live"
      BY DEF Owned
    <3>1. Working(v) /\ worker'[v] = worker[v] /\ worker[v].job \in JobId /\ job'[worker[v].job] = job[worker[v].job]
      BY <1>8, <2>1, <2>2
    <3>2. Owns(v) /\ job[worker[v].job].lease = "live"
      BY <1>10, <3>1 DEF Calm, Owned
    <3> QED
      BY <3>1, <3>2 DEF Owns
  <2>5. Carried'
    <3> SUFFICES ASSUME NEW i \in JobId, job'[i].status = "running", job'[i].key = NoKey
                 PROVE  \E v \in Worker : Working(v)' /\ worker'[v].job = i
      BY DEF Carried
    <3>1. job'[i] = job[i]
      BY <1>8
    <3>2. PICK v \in Worker : Working(v) /\ worker[v].job = i
      BY <1>10, <3>1 DEF Calm, Carried
    <3> QED
      BY <2>1, <3>2
  <2>6. CommittedOnce'
    <3> SUFFICES ASSUME NEW i \in JobId, NEW s \in commits[i]
                 PROVE  /\ \A t \in commits[i] : t = s
                        /\ job'[i].status \in {"done", "purged"} \/ \E v \in Worker : Committing(v, i)'
      BY <1>1 DEF CommittedOnce
    <3>1. job'[i] = job[i]
      BY <1>8, <2>3
    <3>2. \A v \in Worker : Committing(v, i) => Committing(v, i)'
      BY <2>1 DEF Committing, Working
    <3>3. /\ \A t \in commits[i] : t = s
          /\ job[i].status \in {"done", "purged"} \/ \E v \in Worker : Committing(v, i)
      BY <1>10 DEF Calm, CommittedOnce
    <3> QED
      BY <3>1, <3>2, <3>3
  <2>7. Warned'
    <3> SUFFICES ASSUME NEW i \in JobId, job'[i].status \in {"failed", "cancelled"}
                 PROVE  \E x \in Notices' : x.job = i /\ x.final
      BY DEF Warned
    <3>1. CASE Stale(i)
      <4>1. SweepNotice(i) \in Notices'
        BY <1>7, <3>1
      <4>2. SweepNotice(i).job = i /\ SweepNotice(i).final
        BY <1>8, <1>9, <3>1
      <4> QED
        BY <4>1, <4>2
    <3>2. CASE ~Stale(i)
      BY <1>7, <1>8, <1>10, <3>2 DEF Calm, Warned
    <3> QED
      BY <3>1, <3>2
  <2>8. ASSUME NEW x \in Notices PROVE Truthful(x)'
    <3>1. Truthful(x) /\ x.job \in JobId
      BY <1>10 DEF Calm, Notices, Notice
    <3>2. /\ job'[x.job].status # "absent"
          /\ x.final => job'[x.job].status \in {"failed", "cancelled", "purged"}
          /\ x.by = "sweep" => job'[x.job].key # NoKey
          /\ x.by = "worker" => (job'[x.job].status # "purged" => x.starts <= job'[x.job].starts)
      <4>1. CASE Stale(x.job)
        BY <1>8, <3>1, <4>1 DEF Truthful
      <4>2. CASE ~Stale(x.job)
        <5>1. job'[x.job] = job[x.job]
          BY <1>8, <3>1, <4>2
        <5> QED
          BY <3>1, <5>1 DEF Truthful
      <4> QED
        BY <4>1, <4>2
    <3>3. x.by = "worker" => \A v \in Worker : ~(Working(v)' /\ worker'[v].job = x.job /\ worker'[v].starts = x.starts)
      BY <2>2, <3>1 DEF Truthful
    <3> QED
      BY <3>2, <3>3 DEF Truthful
  <2>9. ASSUME NEW x \in N PROVE Truthful(x)' /\ x.by # "worker"
    <3>1. PICK i \in JobId : Stale(i) /\ x = SweepNotice(i)
      OBVIOUS
    <3>2. /\ x.job = i /\ x.by = "sweep"
          /\ x.final => Swept(job[i]).status # "queued"
      BY <1>9, <3>1
    <3>3. /\ job'[i].status # "absent" /\ job'[i].key # NoKey
          /\ x.final => job'[i].status \in {"failed", "cancelled"}
      BY <1>8, <2>3, <3>1, <3>2
    <3> QED
      BY <3>2, <3>3 DEF Truthful
  <2>10. ReportedOnce'
    BY <1>7, <1>10, <2>9 DEF Calm, ReportedOnce
  <2> QED
    BY <1>7, <2>4, <2>5, <2>6, <2>7, <2>8, <2>9, <2>10 DEF Calm
<1>11. IndexHolds(job)'
  BY <1>1 DEF IndexHolds
<1> QED
  BY <1>1, <1>6, <1>10, <1>11 DEF CInv

LEMMA InitCalm == Init => CInv
<1> SUFFICES ASSUME Init PROVE CInv
  OBVIOUS
<1>1. /\ \A j \in JobId : job[j].status = "absent" /\ commits[j] = {}
      /\ \A w \in Worker : worker[w].pc = "idle" /\ worker[w].notices = {}
      /\ \A a \in Admin : admin[a].pc = "idle" /\ admin[a].notices = {}
      /\ told = {}
  BY DEF Init, BlankRow, Idle, AdminIdle
<1>2. Notices = {}
  BY <1>1 DEF Notices
<1>3. \A w \in Worker : ~Working(w)
  BY <1>1 DEF Working
<1>4. Owned /\ Carried /\ CommittedOnce /\ Warned
  BY <1>1, <1>3 DEF Owned, Carried, CommittedOnce, Warned
<1>5. Calm
  BY <1>2, <1>4 DEF Calm, ReportedOnce
<1>6. IndexHolds(job) /\ Silent
  BY <1>1 DEF IndexHolds, Silent
<1> QED
  BY <1>5, <1>6 DEF CInv

LEMMA NextCalm == IInv /\ IInv' /\ CInv /\ [Next]_vars => CInv'
<1> SUFFICES ASSUME IInv, IInv', CInv, [Next]_vars PROVE CInv'
  OBVIOUS
<1>1. CASE UNCHANGED vars
  BY <1>1, PauseCalm
<1>2. ASSUME NEW w \in Worker, WorkerStep(w) PROVE CInv'
  <2>1. CASE ReportSwept(w) \/ Tell(w)
    BY <2>1, TellCalm DEF ReportSwept, Tell
  <2>2. CASE ~(ReportSwept(w) \/ Tell(w))
    BY <1>2, <2>2, IdleCalm, SweepCalm, ClaimCalm, BodyCalm, FinishCalm DEF WorkerStep
  <2> QED
    BY <2>1, <2>2, SMTT(30)
<1>3. ASSUME NEW w \in Worker, Heartbeat(w) PROVE CInv'
  BY <1>3, RenewCalm, IdleCalm DEF Heartbeat
<1>4. ASSUME NEW w \in Worker, Stop(w) \/ Interrupt(w) \/ Crash(w) PROVE CInv'
  BY <1>4, IdleCalm, CrashCalm
<1>5. ASSUME NEW a \in Admin, AdminRequest(a) PROVE CInv'
  BY <1>5, CancelCalm, RequestCalm DEF AdminRequest
<1>6. ASSUME NEW a \in Admin, AdminStep(a) \/ AdminCrash(a) PROVE CInv'
  <2>1. CASE CancelTell(a)
    BY <2>1, TellCalm DEF CancelTell
  <2>2. CASE RetryStamp(a) \/ AdminCrash(a)
    BY <2>2, StampCalm, CrashCalm
  <2> QED
    BY <1>6, <2>1, <2>2 DEF AdminStep
<1>7. ASSUME NEW j \in JobId, CancelRunning(j) \/ Purge(j) \/ LeaseExpires(j) \/ BecomesDue(j) PROVE CInv'
  BY <1>7, ClockCalm
<1>8. ASSUME NEW k \in Key \cup {NoKey}, Enqueue(k) PROVE CInv'
  BY <1>8, RequestCalm
<1>9. CASE PauseOn \/ PauseOff
  BY <1>9, PauseCalm
<1> QED
  BY <1>1, <1>2, <1>3, <1>4, <1>5, <1>6, <1>7, <1>8, <1>9 DEF Next

\* What holds of the queue as long as nothing crashes, stalls or is lost.
THEOREM CalmInvariance == Spec => []CInv
BY InitCalm, NextCalm, Invariance, PTL DEF Spec

\* Without a fault a body commits at most once, and never under a job that
\* ends failed or cancelled, through any cancels, retries, pauses, shutdowns.
THEOREM ExactlyOnceHolds == Spec => []ExactlyOnceWithoutFaults
<1>1. ASSUME IInv, CInv PROVE ExactlyOnceWithoutFaults
  <2> SUFFICES ASSUME Calm, NEW j \in JobId
               PROVE  /\ Cardinality(commits[j]) <= 1
                      /\ job[j].status \in {"failed", "cancelled"} => commits[j] = {}
    BY <1>1 DEF CInv, ExactlyOnceWithoutFaults
  <2>1. \A s \in commits[j] : commits[j] = {s}
    BY DEF Calm, CommittedOnce
  <2>2. Cardinality(commits[j]) <= 1
    <3>1. CASE commits[j] = {}
      BY <3>1, FS_EmptySet
    <3>2. CASE commits[j] # {}
      <4>1. PICK s : commits[j] = {s}
        BY <2>1, <3>2
      <4>2. Cardinality({s}) = 1
        BY FS_Singleton
      <4> QED
        BY <4>1, <4>2
    <3> QED
      BY <3>1, <3>2
  <2>3. ASSUME job[j].status \in {"failed", "cancelled"} PROVE commits[j] = {}
    <3>1. \A w \in Worker : Working(w) => worker[w].job # j
      BY <2>3 DEF Calm, Owned, Owns
    <3>2. \A w \in Worker : ~Committing(w, j)
      BY <3>1 DEF Committing, Working
    <3> QED
      BY <2>3, <3>2 DEF Calm, CommittedOnce
  <2> QED
    BY <2>2, <2>3
<1> QED
  BY <1>1, Invariance, CalmInvariance, PTL

\* Without a fault a job that ended without success has its last word said, or
\* somebody is about to say it.
THEOREM FailureIsToldHolds == Spec => []FailureIsTold
<1>1. ASSUME IInv, CInv PROVE FailureIsTold
  <2> SUFFICES ASSUME Calm, NEW j \in JobId, job[j].status \in {"failed", "cancelled"}
               PROVE  Pending(j) \/ \E n \in told : n.job = j /\ n.final
    BY <1>1 DEF CInv, FailureIsTold
  <2>1. PICK n \in Notices : n.job = j /\ n.final
    BY DEF Calm, Warned
  <2> QED
    BY <2>1 DEF Notices, Pending
<1> QED
  BY <1>1, Invariance, CalmInvariance, PTL

\* Without a fault a run of a job without a key is reported by one side, once,
\* and what was called final is.
THEOREM FinalIsFinalHolds == Spec => []FinalIsFinal
<1>1. ASSUME IInv, CInv PROVE FinalIsFinal
  <2> SUFFICES ASSUME Calm, NEW n \in told, job[n.job].key = NoKey
               PROVE  /\ \A m \in told \ {n} :
                           ~(m.job = n.job /\ m.starts = n.starts /\ {m.by, n.by} \subseteq {"worker", "sweep"})
                      /\ n.final => job[n.job].status \in {"failed", "cancelled", "purged"}
    BY <1>1 DEF CInv, FinalIsFinal
  <2>1. told \subseteq Notices
    BY <1>1 DEF Notices, IInv, TypeOK
  <2>2. Truthful(n) /\ \A m \in told : Truthful(m)
    BY <2>1 DEF Calm
  <2>3. ASSUME NEW m \in told, m # n, m.job = n.job, m.starts = n.starts, {m.by, n.by} \subseteq {"worker", "sweep"}
        PROVE  FALSE
    <3>1. m.by = "worker" /\ n.by = "worker"
      BY <2>2, <2>3 DEF Truthful
    <3> QED
      BY <2>1, <2>3, <3>1 DEF Calm, ReportedOnce
  <2> QED
    BY <2>2, <2>3 DEF Truthful
<1> QED
  BY <1>1, Invariance, CalmInvariance, PTL
===============================================================================

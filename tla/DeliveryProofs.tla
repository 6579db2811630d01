---------------------------- MODULE DeliveryProofs ----------------------------
(***************************************************************************)
(* What Delivery promises, for every number of workers, jobs and attempts   *)
(* and every bound on what goes wrong: the relay takes one copy and one     *)
(* more per fault, what was told as Sent stands, a withdrawn message stays, *)
(* an undisturbed delivery has the one job that moves it on, and every step *)
(* is a move the queue allows.                                             *)
(*                                                                         *)
(* The copies are counted with tokens.  A run past its checks holds one, a  *)
(* run that lost its job before them holds one too, and so does the job     *)
(* while nobody carries it further: only a fault makes a second.           *)
(***************************************************************************)
EXTENDS Delivery, FiniteSetTheorems, TLAPS

-----------------------------------------------------------------------------
(* The inductive invariant.                                                *)

Busy == {r \in Runner : run[r].pc # "idle"}

\* A run has a job, an attempt of it that the row has counted, and something to
\* record when it comes to that.
RunInv(r) ==
  LET m == run[r] IN
  m.pc # "idle" =>
    /\ m.job \in JobId
    /\ job[m.job].phase # "none"
    /\ m.attempt >= 1 /\ m.attempt <= job[m.job].attempts
    /\ m.stop = "cancelled" => job[m.job].asked
    /\ m.pc = "record" => m.note # "none"

RowInv(j) ==
  /\ job[j].phase = "none" => job[j] = NoJob
  /\ job[j].attempts <= job[j].runs

\* No two runs of a job carry the same attempt: the fence tells them apart.
Distinct ==
  \A q, r \in Busy : (q # r /\ run[q].job = run[r].job) => run[q].attempt # run[r].attempt

RecordInv ==
  /\ record.status = "none" =>
       /\ record.job = 0 /\ Busy = {}
       /\ \A j \in JobId : job[j].phase = "none"
       /\ spent["retries"] = 0 /\ spent["replays"] = 0
  /\ record.status # "none" => record.job \in JobId
  /\ record.status = "gone" => kind = "webhook"
  /\ Mail => spent["replays"] = 0

RowsInv ==
  /\ \A r \in Runner : RunInv(r)
  /\ \A j \in JobId : RowInv(j)
  /\ Distinct
  /\ IsFiniteSet(Busy)

\* Withdrawn, with no run past its check.
WithdrawnInv == barred => (leave # "on" /\ \A r \in Runner : run[r].pc # "send")

\* The job of the message while nothing but one retry has queued a second.
Current == 1 + spent["retries"]

OneJob == spent["replays"] = 0 /\ spent["retries"] <= 1

OneJobInv ==
  OneJob =>
    /\ Current \in JobId
    /\ \A j \in JobId : Live(j) => j = Current
    /\ \A j \in JobId : job[j].phase # "none" => j <= Current
    /\ job[Current].phase = "none" => record.status = "none"

\* Without a fault nobody runs a job that is not its own any more.
NoOrphans == spent["faults"] = 0 => \A r \in Busy : Owns(r)

LeaveInv == spent["switches"] = 0 => leave = "on"

SentInv ==
  (/\ record.status = "Sent" /\ OneJob /\ spent["faults"] = 0
   /\ Mail => spent["switches"] = 0) =>
    \A r \in Busy : run[r].pc \in {"load", "end"}

-----------------------------------------------------------------------------
(* The tokens of a mail sent by SMTP.                                      *)

OneCopy == kind = "smtp" /\ spent["switches"] <= 1 /\ spent["retries"] <= 1

\* Past LoadMail's check, and its try is not known to have ended.
Loaded(r) ==
  run[r].pc \in {"check", "send"} \/ (run[r].pc = "record" /\ run[r].note = "Failed")

Hot == {r \in Runner : Loaded(r) \/ (run[r].pc = "load" /\ ~Owns(r))}

Sending == {r \in Runner : run[r].pc = "send"}

\* The job itself can still bring the message to a relay.
ToCome ==
  /\ record.status \notin {"Sent", "Uncertain"}
  /\ job[Current].phase \notin {"done", "gone"}
  /\ \A r \in Busy : (run[r].job = Current /\ Owns(r)) => run[r].pc \in {"load", "end"}

MailInv ==
  Mail => \A r \in Runner :
    run[r].pc # "weigh" /\ (run[r].pc = "record" => run[r].note \in Final)

BudgetInv ==
  OneCopy =>
    /\ leave = "on" <=> spent["switches"] = 0
    /\ leave = "on" =>
         accepted + Cardinality(Hot) + (IF ToCome THEN 1 ELSE 0) <= 1 + spent["faults"]
    /\ leave # "on" => accepted + Cardinality(Sending) <= 1 + spent["faults"]

-----------------------------------------------------------------------------
(* A delivery nothing disturbs.                                            *)

Quiet == Undisturbed /\ spent["throws"] = 0 /\ spent["timeouts"] = 0

\* At its end, and its job is over with it.
Settling(r) == run[r].pc = "end" /\ (run[r].ok \/ job[run[r].job].attempts >= MaxAttempts)

\* Nobody lost a job, every job that runs has its run, and only the record's
\* job waits.
QuietQueue ==
  /\ \A r \in Busy : Owns(r) /\ run[r].stop = "no"
  /\ \A j \in JobId : ~job[j].asked
  /\ \A j \in JobId : job[j].phase = "active" => \E r \in Busy : run[r].job = j
  /\ \A j \in JobId : job[j].phase = "waiting" => j = record.job
  /\ \A r \in Busy : run[r].job # record.job => Settling(r)

\* What the record says agrees with what its job will do.
QuietRecord ==
  /\ record.status \in {"Queued", "Retrying"} =>
       Live(record.job) /\ \A r \in Busy : run[r].job = record.job => ~Settling(r)
  /\ (~Mail /\ record.status \in {"Sent", "Failed", "gone"}) =>
       /\ job[record.job].phase # "waiting"
       /\ \A r \in Busy : run[r].job = record.job => Settling(r)
  /\ Mail => record.status # "Retrying"

\* What a webhook's run is about to record agrees with it too.
QuietRun(r) ==
  (~Mail /\ run[r].pc \in {"check", "send", "record"}) =>
    /\ run[r].last <=> job[run[r].job].attempts >= MaxAttempts
    /\ run[r].pc = "record" =>
         /\ run[r].note \in {"Sent", "Failed", "Retrying"}
         /\ run[r].note = "Sent" => run[r].ok
         /\ run[r].note = "Failed" => (run[r].ok \/ run[r].last)
         /\ run[r].note = "Retrying" => (~run[r].ok /\ ~run[r].last)

QuietInv == Quiet => QuietQueue /\ QuietRecord /\ \A r \in Runner : QuietRun(r)

\* A delivery that was not replayed and is disturbed by nothing but timeouts: no
\* run is about to finish the job over a record that is still on its way.
Steady == Undisturbed /\ spent["throws"] = 0 /\ spent["replays"] = 0

SteadyQueue ==
  /\ record.status # "none" => record.job = 1
  /\ \A j \in JobId : ~job[j].asked
  /\ \A r \in Busy :
       /\ Owns(r) /\ run[r].stop \in {"no", "timeout"}
       /\ (run[r].pc = "record" /\ run[r].ok) => run[r].note \in Final

SteadyRecord ==
  record.status \in {"Queued", "Retrying"} =>
    /\ job[record.job].phase \notin {"none", "done", "cancelled"}
    /\ \A r \in Busy : ~(run[r].pc = "end" /\ run[r].ok)

SteadyInv == Steady => SteadyQueue /\ SteadyRecord

IInv ==
  /\ TypeOK /\ RecordInv /\ RowsInv /\ WithdrawnInv /\ OneJobInv /\ NoOrphans
  /\ LeaveInv /\ SentInv /\ MailInv /\ BudgetInv /\ QuietInv /\ SteadyInv

-----------------------------------------------------------------------------
(* What steps change, by group.                                            *)

LEMMA SpendOne ==
  ASSUME spent \in [Bounds -> Nat], NEW b \in Bounds, Spend(b)
  PROVE  /\ spent' \in [Bounds -> Nat]
         /\ spent'[b] = spent[b] + 1
         /\ \A c \in Bounds : c # b => spent'[c] = spent[c]
<1>1. spent' = [spent EXCEPT ![b] = @ + 1]  BY DEF Spend
<1>2. spent[b] \in Nat  OBVIOUS
<1> QED  BY <1>1, <1>2

LEMMA TypeInit == Init => TypeOK
<1>1. NoJob \in JobRow  BY DEF NoJob, JobRow, Over
<1>2. NotRunning \in RunMem  BY BoundsAssumption DEF NotRunning, RunMem, Final
<1>3. [status |-> "none", attempts |-> 0, job |-> 0] \in RecordRow
  BY BoundsAssumption DEF RecordRow, Final
<1>4. [b \in Bounds |-> 0] \in [Bounds -> Nat]  OBVIOUS
<1>5. ASSUME Init PROVE TypeOK
  <2>1. record \in RecordRow  BY <1>3, <1>5 DEF Init
  <2>2. job \in [JobId -> JobRow]  BY <1>1, <1>5 DEF Init
  <2>3. run \in [Runner -> RunMem]  BY <1>2, <1>5 DEF Init
  <2>4. spent \in [Bounds -> Nat]  BY <1>4, <1>5 DEF Init
  <2>5. kind \in Kinds /\ leave = "on" /\ barred = FALSE /\ accepted = 0  BY <1>5 DEF Init
  <2> QED  BY <2>1, <2>2, <2>3, <2>4, <2>5 DEF TypeOK
<1> QED  BY <1>5

\* Steps that leave jobs and runs alone.
Outside == SweepDeliveries \/ Allow \/ \E to \in {"off", "deleted"} : Withdraw(to)

\* Steps that queue a job.
NewJob == QueueMail \/ QueueWebhook \/ Replay \/ \E j \in JobId : Retry(j)

\* Steps of one job and no run.
RowStep(j) == CancelJob(j) \/ PurgeJob(j) \/ Sweep(j)

\* Steps of one run and no job, which goes on.
Goes(r) == Deliver(r) \/ Interrupted(r) \/ Beat(r) \/ Shutdown(r) \/ TimesOut(r)

LEMMA Groups ==
  ASSUME Next
  PROVE  \/ Outside \/ NewJob \/ \E j \in JobId : RowStep(j)
         \/ \E r \in Runner : Goes(r) \/ Claim(r) \/ End(r) \/ Crash(r)
BY DEF Next, RunStep, Outside, NewJob, RowStep, Goes

LEMMA OutsideSteps ==
  ASSUME TypeOK, Outside
  PROVE  /\ TypeOK' /\ UNCHANGED <<kind, job, run, accepted>>
         /\ \A b \in Bounds \ {"switches"} : spent'[b] = spent[b]
         /\ spent'["switches"] >= spent["switches"]
         /\ record'.job = record.job
         /\ \/ record' = record
            \/ /\ kind = "webhook" /\ record.status \in {"Sent", "Failed"}
               /\ record'.status = "gone" /\ leave' = leave /\ spent' = spent
<1>1. CASE SweepDeliveries
  <2>1. record' \in RecordRow /\ record'.job = record.job /\ record'.status = "gone"
    BY <1>1 DEF SweepDeliveries, TypeOK, RecordRow
  <2> QED  BY <1>1, <2>1 DEF SweepDeliveries, TypeOK, Bounds
<1>2. CASE Allow
  <2>1. Spend("switches")  BY <1>2 DEF Allow
  <2>2. "switches" \in Bounds /\ spent["switches"] \in Nat  BY DEF Bounds, TypeOK
  <2>3. /\ spent' \in [Bounds -> Nat] /\ spent'["switches"] = spent["switches"] + 1
        /\ \A b \in Bounds : b # "switches" => spent'[b] = spent[b]
    BY <2>1, <2>2, SpendOne DEF TypeOK
  <2>4. TypeOK'  BY <1>2, <2>3 DEF Allow, TypeOK
  <2> QED  BY <1>2, <2>2, <2>3, <2>4 DEF Allow
<1>3. ASSUME NEW to \in {"off", "deleted"}, Withdraw(to)
      PROVE  /\ TypeOK' /\ UNCHANGED <<kind, job, run, accepted>>
             /\ \A b \in Bounds \ {"switches"} : spent'[b] = spent[b]
             /\ spent'["switches"] >= spent["switches"]
             /\ record' = record
  <2>1. Spend("switches")  BY <1>3 DEF Withdraw
  <2>2. "switches" \in Bounds /\ spent["switches"] \in Nat  BY DEF Bounds, TypeOK
  <2> QED  BY <1>3, <2>1, <2>2, SpendOne DEF Withdraw, TypeOK
<1> QED  BY <1>1, <1>2, <1>3 DEF Outside

LEMMA QueuedRow == Queued \in JobRow /\ Queued.phase = "waiting" /\ ~Queued.asked
                   /\ Queued.attempts = 0 /\ Queued.runs = 0
BY DEF Queued, NoJob, JobRow, Over

\* A job is queued at the first row that was never used, and no run has it.
LEMMA NewJobSteps ==
  ASSUME TypeOK, RecordInv, NewJob
  PROVE  /\ TypeOK' /\ UNCHANGED <<kind, run, leave, barred, accepted>>
         /\ \E n \in JobId :
              /\ job[n].phase = "none" /\ \A i \in 1..(n - 1) : job[i].phase # "none"
              /\ job' = [job EXCEPT ![n] = Queued]
              /\ \/ /\ record.status = "none" /\ spent' = spent /\ n = 1
                    /\ record'.status = "Queued" /\ record'.job = n
                 \/ /\ kind = "webhook" /\ record.status \in {"Sent", "Failed"}
                    /\ spent'["replays"] = spent["replays"] + 1
                    /\ \A b \in Bounds \ {"replays"} : spent'[b] = spent[b]
                    /\ record'.status = "Queued" /\ record'.job = n
                 \/ /\ \E j \in JobId : job[j].phase \in {"failed", "cancelled"}
                    /\ spent'["retries"] = spent["retries"] + 1
                    /\ \A b \in Bounds \ {"retries"} : spent'[b] = spent[b]
                    /\ record' = record
<1>1. CASE QueueMail \/ QueueWebhook
  <2>1. QueueDelivery  BY <1>1 DEF QueueMail, QueueWebhook
  <2>2. 1 \in JobId  BY BoundsAssumption DEF JobId
  <2>3. record' \in RecordRow /\ record'.status = "Queued" /\ record'.job = 1
    <3>1. record \in RecordRow /\ record' = [record EXCEPT !.status = "Queued", !.job = 1]
      BY <2>1 DEF QueueDelivery, TypeOK
    <3>2. 1 \in 0..MaxJobs  BY BoundsAssumption
    <3> QED  BY <3>1, <3>2 DEF RecordRow
  <2>4. job' \in [JobId -> JobRow]  BY <2>1, <2>2, QueuedRow DEF QueueDelivery, TypeOK
  <2>5. \A i \in 1..(1 - 1) : job[i].phase # "none"  OBVIOUS
  <2>6. TypeOK'  BY <2>1, <2>3, <2>4 DEF QueueDelivery, TypeOK
  <2> QED  BY <2>1, <2>2, <2>3, <2>5, <2>6 DEF QueueDelivery, RecordInv
<1>2. CASE Replay
  <2>1. PICK n \in JobId : /\ Fresh(n) /\ job' = [job EXCEPT ![n] = Queued]
                           /\ record' = [status |-> "Queued", attempts |-> 0, job |-> n]
    BY <1>2 DEF Replay
  <2>2. /\ spent' \in [Bounds -> Nat] /\ spent'["replays"] = spent["replays"] + 1
        /\ \A b \in Bounds \ {"replays"} : spent'[b] = spent[b]
    BY <1>2, SpendOne DEF Replay, TypeOK, Bounds
  <2>3. record' \in RecordRow  BY <2>1, BoundsAssumption DEF RecordRow, JobId
  <2>4. job' \in [JobId -> JobRow]  BY <2>1, QueuedRow DEF TypeOK
  <2>5. TypeOK'  BY <1>2, <2>2, <2>3, <2>4 DEF Replay, TypeOK
  <2> QED  BY <1>2, <2>1, <2>2, <2>5 DEF Replay, Fresh
<1>3. ASSUME NEW j \in JobId, Retry(j)
      PROVE  /\ TypeOK' /\ UNCHANGED <<kind, run, leave, barred, accepted>>
             /\ record' = record
             /\ job[j].phase \in {"failed", "cancelled"}
             /\ spent'["retries"] = spent["retries"] + 1
             /\ \A b \in Bounds \ {"retries"} : spent'[b] = spent[b]
             /\ \E n \in JobId : Fresh(n) /\ job' = [job EXCEPT ![n] = Queued]
  <2>1. PICK n \in JobId : Fresh(n) /\ job' = [job EXCEPT ![n] = Queued]
    BY <1>3 DEF Retry
  <2>2. /\ spent' \in [Bounds -> Nat] /\ spent'["retries"] = spent["retries"] + 1
        /\ \A b \in Bounds \ {"retries"} : spent'[b] = spent[b]
    BY <1>3, SpendOne DEF Retry, TypeOK, Bounds
  <2>4. job' \in [JobId -> JobRow]  BY <2>1, QueuedRow DEF TypeOK
  <2>5. TypeOK'  BY <1>3, <2>2, <2>4 DEF Retry, TypeOK
  <2> QED  BY <1>3, <2>1, <2>2, <2>5 DEF Retry
<1> QED  BY <1>1, <1>2, <1>3 DEF NewJob, Fresh

\* A job is asked to be cancelled, forgotten, or taken back from its worker.
LEMMA RowSteps ==
  ASSUME TypeOK, NEW j \in JobId, RowStep(j)
  PROVE  /\ TypeOK' /\ UNCHANGED <<kind, record, run, leave, barred, accepted>>
         /\ \A b \in Bounds \ {"faults", "cancels", "purges"} : spent'[b] = spent[b]
         /\ \A b \in Bounds : spent'[b] >= spent[b]
         /\ \A i \in JobId : i # j => job'[i] = job[i]
         /\ job'[j].attempts = job[j].attempts /\ job'[j].runs = job[j].runs
         /\ job[j].asked => job'[j].asked
         /\ \/ /\ Live(j) /\ spent'["cancels"] = spent["cancels"] + 1 /\ job'[j].asked
               /\ job'[j].phase = IF job[j].phase = "waiting" THEN "cancelled" ELSE "active"
            \/ job[j].phase \in Over /\ job'[j].phase = "gone" /\ job'[j].asked = job[j].asked
            \/ /\ job[j].phase = "active" /\ job'[j].asked = job[j].asked
               /\ \/ job'[j].phase = "cancelled" /\ job[j].asked
                  \/ job'[j].phase = "waiting"
                  \/ job'[j].phase = "failed" /\ job[j].attempts >= MaxAttempts
               /\ \/ spent'["faults"] = spent["faults"] + 1
                  \/ \A r \in Runner : ~(run[r].job = j /\ Owns(r))
<1>1. job \in [JobId -> JobRow] /\ job[j] \in JobRow /\ \A b \in Bounds : spent[b] \in Nat
  BY DEF TypeOK
<1>2. CASE CancelJob(j)
  <2> DEFINE row == [job[j] EXCEPT !.asked = TRUE,
                       !.phase = IF job[j].phase = "waiting" THEN "cancelled" ELSE job[j].phase]
  <2>1. /\ spent' \in [Bounds -> Nat] /\ spent'["cancels"] = spent["cancels"] + 1
        /\ \A b \in Bounds \ {"cancels"} : spent'[b] = spent[b]
    BY <1>2, SpendOne DEF CancelJob, TypeOK, Bounds
  <2>2. job' = [job EXCEPT ![j] = row]  BY <1>1, <1>2 DEF CancelJob, JobRow
  <2>3. /\ row \in JobRow /\ row.asked /\ row.attempts = job[j].attempts /\ row.runs = job[j].runs
        /\ row.phase = IF job[j].phase = "waiting" THEN "cancelled" ELSE job[j].phase
    BY <1>1 DEF JobRow, Over
  <2> HIDE DEF row
  <2>4. job' \in [JobId -> JobRow] /\ job'[j] = row /\ \A i \in JobId : i # j => job'[i] = job[i]
    BY <1>1, <2>2, <2>3
  <2>5. TypeOK'  BY <1>2, <2>1, <2>4 DEF CancelJob, TypeOK
  <2>6. Live(j) /\ UNCHANGED <<kind, record, run, leave, barred, accepted>>  BY <1>2 DEF CancelJob
  <2>7. job[j].phase \in {"waiting", "active"}  BY <2>6 DEF Live
  <2> QED  BY <1>1, <2>1, <2>3, <2>4, <2>5, <2>6, <2>7
<1>3. CASE PurgeJob(j)
  <2> DEFINE row == [job[j] EXCEPT !.phase = "gone"]
  <2>1. /\ spent' \in [Bounds -> Nat] /\ spent'["purges"] = spent["purges"] + 1
        /\ \A b \in Bounds \ {"purges"} : spent'[b] = spent[b]
    BY <1>3, SpendOne DEF PurgeJob, TypeOK, Bounds
  <2>2. job' = [job EXCEPT ![j] = row]  BY <1>1, <1>3 DEF PurgeJob
  <2>3. /\ row \in JobRow /\ row.asked = job[j].asked /\ row.attempts = job[j].attempts
        /\ row.runs = job[j].runs /\ row.phase = "gone"
    BY <1>1 DEF JobRow
  <2> HIDE DEF row
  <2>4. job' \in [JobId -> JobRow] /\ job'[j] = row /\ \A i \in JobId : i # j => job'[i] = job[i]
    BY <1>1, <2>2, <2>3
  <2>5. TypeOK'  BY <1>3, <2>1, <2>4 DEF PurgeJob, TypeOK
  <2> QED  BY <1>1, <1>3, <2>1, <2>3, <2>4, <2>5 DEF PurgeJob
<1>4. CASE Sweep(j)
  <2> DEFINE row == IF job[j].asked THEN [job[j] EXCEPT !.phase = "cancelled"] ELSE Spent(job[j])
             Held == \E r \in Runner : run[r].job = j /\ Owns(r)
  <2>1. /\ spent' \in [Bounds -> Nat]
        /\ \/ spent'["faults"] = spent["faults"] + 1
           \/ spent'["faults"] = spent["faults"] /\ ~Held
        /\ \A b \in Bounds \ {"faults"} : spent'[b] = spent[b]
    <3>1. CASE Held
      <4>1. Spend("faults")  BY <1>4, <3>1 DEF Sweep
      <4> QED  BY <4>1, SpendOne DEF TypeOK, Bounds
    <3>2. CASE ~Held
      BY <1>4, <3>2 DEF Sweep, TypeOK, Bounds
    <3> QED  BY <3>1, <3>2
  <2>2. job' = [job EXCEPT ![j] = row]  BY <1>1, <1>4 DEF Sweep
  <2>3. /\ row \in JobRow /\ row.asked = job[j].asked /\ row.attempts = job[j].attempts
        /\ row.runs = job[j].runs
        /\ \/ row.phase = "cancelled" /\ job[j].asked
           \/ row.phase = "waiting"
           \/ row.phase = "failed" /\ job[j].attempts >= MaxAttempts
    BY <1>1, BoundsAssumption DEF JobRow, Over, Spent
  <2> HIDE DEF row
  <2>4. job' \in [JobId -> JobRow] /\ job'[j] = row /\ \A i \in JobId : i # j => job'[i] = job[i]
    BY <1>1, <2>2, <2>3
  <2>5. TypeOK'  BY <1>4, <2>1, <2>4 DEF Sweep, TypeOK
  <2>6. job[j].phase = "active" /\ UNCHANGED <<kind, record, run, leave, barred, accepted>>
    BY <1>4 DEF Sweep
  <2>7. \A b \in Bounds : spent'[b] >= spent[b]  BY <1>1, <2>1
  <2>8. \A b \in Bounds \ {"faults", "cancels", "purges"} : spent'[b] = spent[b]  BY <2>1
  <2> QED  BY <2>1, <2>3, <2>4, <2>5, <2>6, <2>7, <2>8
<1> QED  BY <1>2, <1>3, <1>4 DEF RowStep

-----------------------------------------------------------------------------
(* The steps of a run, field by field.                                     *)

\* The run hears that it has to stop.
Told(r) ==
  /\ run[r].stop \in {"no", "timeout"}
  /\ run'[r].pc = run[r].pc /\ run'[r].last = run[r].last
  /\ run'[r].note = run[r].note /\ run'[r].ok = run[r].ok
  /\ record' = record /\ accepted' = accepted
  /\ \/ spent' = spent /\ job[run[r].job].asked /\ run'[r].stop = "cancelled"
     \/ spent' = spent /\ ~Owns(r) /\ run'[r].stop = "lost"
     \/ spent'["stops"] = spent["stops"] + 1 /\ run'[r].stop = "shutdown"
     \/ spent'["timeouts"] = spent["timeouts"] + 1 /\ run'[r].stop = "timeout"

\* The run ends without a word: interrupted, or its template or a read failed.
GivesUp(r) ==
  /\ run'[r].pc = "end" /\ ~run'[r].ok /\ record' = record
  /\ \/ /\ run[r].stop # "no" /\ spent' = spent /\ accepted' = accepted
        /\ run[r].pc \in {"load", "check"}
     \/ /\ run[r].stop # "no" /\ spent' = spent /\ kind = "method" /\ run[r].pc = "send"
     \/ /\ run[r].pc \in {"load", "weigh", "check"} /\ accepted' = accepted
        /\ spent'["throws"] = spent["throws"] + 1

\* A mail that may not leave ends as Failed.
TurnedAway(r) ==
  /\ Mail /\ leave # "on" /\ run[r].pc \in {"load", "check"}
  /\ run'[r].pc = "end" /\ run'[r].ok
  /\ record'.status = IF record.status = "gone" THEN "gone" ELSE "Failed"
  /\ accepted' = accepted /\ spent' = spent

\* Nothing is left to be sent.
Skips(r) ==
  /\ run[r].pc = "load" /\ run'[r].pc = "end" /\ run'[r].ok
  /\ IF Mail THEN record.status \in {"Sent", "Uncertain"} ELSE record.status \in {"Sent", "gone"}
  /\ record' = record /\ accepted' = accepted /\ spent' = spent

\* One more check is behind the run.
Advances(r) ==
  /\ record'.status = record.status /\ accepted' = accepted /\ spent' = spent
  /\ \/ /\ Mail /\ leave = "on" /\ record.status \notin {"Sent", "Uncertain"}
        /\ run[r].pc = "load" /\ run'[r].pc = "check"
     \/ /\ ~Mail /\ record.status \notin {"Sent", "gone"}
        /\ run[r].pc = "load" /\ run'[r].pc = "weigh"
     \/ /\ run[r].pc = "weigh" /\ run'[r].pc = "check"
        /\ run'[r].last =
             ((record.job \in JobId /\ job[record.job].phase # "gone")
                => job[record.job].attempts >= MaxAttempts)
     \/ /\ leave = "on" /\ run'[r].last = run[r].last
        /\ run[r].pc = "check" /\ run'[r].pc = "send"

\* The try is over, and its outcome is still to be recorded.
Tries(r) ==
  /\ run'[r].pc = "record" /\ run'[r].last = run[r].last
  /\ record' = record /\ spent' = spent
  /\ \/ /\ run[r].pc = "check" /\ ~Mail /\ accepted' = accepted
        /\ run'[r].note = "Failed" /\ run'[r].ok
     \/ /\ run[r].pc = "send" /\ accepted' = accepted + 1
        /\ run'[r].note = "Sent" /\ run'[r].ok
     \/ /\ run[r].pc = "send" /\ kind = "smtp" /\ accepted' \in {accepted, accepted + 1}
        /\ run'[r].note = "Uncertain" /\ run'[r].ok
     \/ /\ run[r].pc = "send" /\ kind = "method" /\ accepted' \in {accepted, accepted + 1}
        /\ run'[r].note = "Failed" /\ ~run'[r].ok
     \/ /\ run[r].pc = "send" /\ ~Mail /\ accepted' \in {accepted, accepted + 1} /\ ~run'[r].ok
        /\ run'[r].note = IF run[r].last THEN "Failed" ELSE "Retrying"
     \/ /\ run[r].pc = "send" /\ accepted' = accepted
        /\ run'[r].note = "Failed" /\ run'[r].ok = ~Mail

\* The outcome is written, or the write is lost.
Records(r) ==
  /\ run[r].pc = "record" /\ run'[r].pc = "end" /\ run'[r].ok = run[r].ok
  /\ accepted' = accepted
  /\ \/ /\ record'.status = IF record.status = "gone" THEN "gone" ELSE run[r].note
        /\ spent' = spent
     \/ record' = record /\ spent'["faults"] = spent["faults"] + 1

Passes(r) ==
  \/ Told(r) \/ GivesUp(r) \/ TurnedAway(r) \/ Skips(r) \/ Advances(r) \/ Tries(r) \/ Records(r)

\* What every such step leaves alone.
LeavesAlone(r) ==
  /\ UNCHANGED <<kind, job, leave, barred>>
  /\ run[r].pc # "idle" /\ run'[r].pc # "idle"
  /\ run'[r].job = run[r].job /\ run'[r].attempt = run[r].attempt
  /\ run'[r].stop = run[r].stop \/ Told(r)
  /\ \A q \in Runner : q # r => run'[q] = run[q]
  /\ \A b \in Bounds \ {"faults", "stops", "timeouts", "throws"} : spent'[b] = spent[b]
  /\ \A b \in Bounds : spent'[b] >= spent[b]
  /\ record'.job = record.job
  /\ record'.status = "gone" <=> record.status = "gone"

LEMMA RunIs ==
  ASSUME TypeOK, NEW r \in Runner, NEW m \in RunMem, run' = [run EXCEPT ![r] = m]
  PROVE  /\ run' \in [Runner -> RunMem] /\ run'[r] = m
         /\ \A q \in Runner : q # r => run'[q] = run[q]
BY DEF TypeOK

\* What a step of a run must show: the run it leaves, the record and the bounds.
LEMMA StepIs ==
  ASSUME TypeOK, NEW r \in Runner, NEW m \in RunMem, run' = [run EXCEPT ![r] = m],
         UNCHANGED <<kind, job, leave, barred>>,
         run[r].pc # "idle", m.pc # "idle", m.job = run[r].job, m.attempt = run[r].attempt,
         m.stop = run[r].stop \/ Told(r), accepted' \in Nat,
         record' \in RecordRow, record'.job = record.job,
         record'.status = "gone" <=> record.status = "gone",
         spent' = spent \/ \E b \in {"faults", "stops", "timeouts", "throws"} : Spend(b)
  PROVE  TypeOK' /\ LeavesAlone(r)
<1>1. /\ run' \in [Runner -> RunMem] /\ run'[r] = m
      /\ \A q \in Runner : q # r => run'[q] = run[q]
  BY RunIs
<1>2. /\ spent' \in [Bounds -> Nat]
      /\ \A b \in Bounds \ {"faults", "stops", "timeouts", "throws"} : spent'[b] = spent[b]
      /\ \A b \in Bounds : spent'[b] >= spent[b]
  <2>1. spent \in [Bounds -> Nat] /\ \A b \in Bounds : spent[b] \in Nat  BY DEF TypeOK
  <2>2. ASSUME NEW c \in {"faults", "stops", "timeouts", "throws"}, Spend(c)
        PROVE  /\ spent' \in [Bounds -> Nat]
               /\ spent'[c] = spent[c] + 1 /\ \A b \in Bounds : b # c => spent'[b] = spent[b]
    <3>1. c \in Bounds  BY DEF Bounds
    <3> QED  BY <2>1, <2>2, <3>1, SpendOne
  <2> QED  BY <2>1, <2>2
<1>3. TypeOK'  BY <1>1, <1>2 DEF TypeOK
<1> QED  BY <1>1, <1>2, <1>3 DEF LeavesAlone

LEMMA RecordRows ==
  ASSUME TypeOK, NEW s \in Final \cup {"Retrying"}
  PROVE  /\ Recorded(s) \in RecordRow /\ Recorded(s).job = record.job
         /\ Recorded(s).status = IF record.status = "gone" THEN "gone" ELSE s
         /\ Counted \in RecordRow /\ Counted.job = record.job /\ Counted.status = record.status
<1>1. record \in RecordRow  BY DEF TypeOK
<1> QED  BY <1>1 DEF Recorded, Counted, RecordRow, Final

LEMMA ToldSteps ==
  ASSUME TypeOK, NEW r \in Runner, Beat(r) \/ Shutdown(r) \/ TimesOut(r)
  PROVE  TypeOK' /\ LeavesAlone(r) /\ Told(r)
<1>1. run[r] \in RunMem /\ record \in RecordRow /\ accepted \in Nat  BY DEF TypeOK
<1>2. PICK x \in {"cancelled", "lost", "shutdown", "timeout"} :
        /\ run' = [run EXCEPT ![r] = [run[r] EXCEPT !.stop = x]]
        /\ \/ x = "cancelled" /\ job[run[r].job].asked /\ spent' = spent
           \/ x = "lost" /\ ~Owns(r) /\ spent' = spent
           \/ x = "shutdown" /\ Spend("stops")
           \/ x = "timeout" /\ Spend("timeouts")
  BY DEF Beat, Shutdown, TimesOut, Set
<1> DEFINE m == [run[r] EXCEPT !.stop = x]
<1>3. /\ m \in RunMem /\ m.pc = run[r].pc /\ m.job = run[r].job /\ m.attempt = run[r].attempt
      /\ m.last = run[r].last /\ m.note = run[r].note /\ m.ok = run[r].ok /\ m.stop = x
  BY <1>1 DEF RunMem
<1>4. /\ UNCHANGED <<kind, record, job, leave, barred, accepted>>
      /\ run[r].pc # "idle" /\ run[r].stop \in {"no", "timeout"}
  BY DEF Beat, Shutdown, TimesOut
<1>5. run' = [run EXCEPT ![r] = m]  BY <1>2
<1> HIDE DEF m
<1>6. run'[r] = m  BY <1>3, <1>5, RunIs
<1>7. /\ Spend("stops") => spent'["stops"] = spent["stops"] + 1
      /\ Spend("timeouts") => spent'["timeouts"] = spent["timeouts"] + 1
  BY SpendOne DEF TypeOK, Bounds
<1>8. Told(r)  BY <1>2, <1>3, <1>4, <1>6, <1>7 DEF Told
<1> QED  BY <1>1, <1>2, <1>3, <1>4, <1>5, <1>8, StepIs

\* A run that goes to its end, whatever was recorded.
LEMMA EndsIs ==
  ASSUME TypeOK, NEW r \in Runner, NEW ok \in BOOLEAN, Ends(r, ok), run[r].pc # "idle",
         UNCHANGED <<kind, job, leave, barred>>, accepted' \in Nat,
         record' \in RecordRow, record'.job = record.job,
         record'.status = "gone" <=> record.status = "gone",
         spent' = spent \/ \E b \in {"faults", "stops", "timeouts", "throws"} : Spend(b)
  PROVE  TypeOK' /\ LeavesAlone(r) /\ run'[r].pc = "end" /\ run'[r].ok = ok
<1> DEFINE m == [run[r] EXCEPT !.pc = "end", !.ok = ok]
<1>1. run[r] \in RunMem  BY DEF TypeOK
<1>2. /\ m \in RunMem /\ m.pc = "end" /\ m.job = run[r].job /\ m.attempt = run[r].attempt
      /\ m.ok = ok /\ m.stop = run[r].stop
  BY <1>1 DEF RunMem
<1>3. run' = [run EXCEPT ![r] = m]  BY DEF Ends, Set
<1> HIDE DEF m
<1> QED  BY <1>2, <1>3, StepIs, RunIs

\* A run that goes on to one more check, or to the transport.
LEMMA OnIs ==
  ASSUME TypeOK, NEW r \in Runner, NEW p \in {"weigh", "check", "send"}, NEW last \in BOOLEAN,
         run' = [run EXCEPT ![r] = [run[r] EXCEPT !.pc = p, !.last = last]], run[r].pc # "idle",
         UNCHANGED <<kind, job, leave, barred, accepted, spent>>,
         record' \in RecordRow, record'.job = record.job, record'.status = record.status
  PROVE  TypeOK' /\ LeavesAlone(r) /\ run'[r].pc = p /\ run'[r].last = last
<1> DEFINE m == [run[r] EXCEPT !.pc = p, !.last = last]
<1>1. run[r] \in RunMem /\ accepted' \in Nat  BY DEF TypeOK
<1>2. /\ m \in RunMem /\ m.pc = p /\ m.job = run[r].job /\ m.attempt = run[r].attempt
      /\ m.last = last /\ m.stop = run[r].stop
  BY <1>1 DEF RunMem
<1>3. run' = [run EXCEPT ![r] = m] /\ p # "idle" /\ spent' = spent  OBVIOUS
<1> HIDE DEF m
<1>4. run'[r] = m  BY <1>2, <1>3, RunIs
<1>5. TypeOK' /\ LeavesAlone(r)
  <2>1. m.pc # "idle" /\ (record'.status = "gone" <=> record.status = "gone")  BY <1>2, <1>3
  <2> QED  BY <1>1, <1>2, <1>3, <2>1, StepIs
<1> QED  BY <1>2, <1>4, <1>5

\* A run whose try is over.
LEMMA TriedIs ==
  ASSUME TypeOK, NEW r \in Runner, NEW note \in Final \cup {"Retrying"}, NEW ok \in BOOLEAN,
         run' = [run EXCEPT ![r] = [run[r] EXCEPT !.pc = "record", !.note = note, !.ok = ok]],
         run[r].pc # "idle", UNCHANGED <<kind, job, leave, barred, record, spent>>,
         accepted' \in {accepted, accepted + 1}
  PROVE  /\ TypeOK' /\ LeavesAlone(r)
         /\ run'[r].pc = "record" /\ run'[r].last = run[r].last
         /\ run'[r].note = note /\ run'[r].ok = ok
<1> DEFINE m == [run[r] EXCEPT !.pc = "record", !.note = note, !.ok = ok]
<1>1. run[r] \in RunMem /\ accepted' \in Nat /\ record' \in RecordRow  BY DEF TypeOK
<1>2. /\ m \in RunMem /\ m.pc = "record" /\ m.job = run[r].job /\ m.attempt = run[r].attempt
      /\ m.last = run[r].last /\ m.note = note /\ m.ok = ok /\ m.stop = run[r].stop
  BY <1>1 DEF RunMem
<1>3. run' = [run EXCEPT ![r] = m]  OBVIOUS
<1> HIDE DEF m
<1> QED  BY <1>1, <1>2, <1>3, StepIs, RunIs

LEMMA LoadSteps ==
  ASSUME TypeOK, NEW r \in Runner, LoadMail(r) \/ LoadWebhook(r)
  PROVE  TypeOK' /\ LeavesAlone(r) /\ (TurnedAway(r) \/ Skips(r) \/ Advances(r))
<1>1. run[r] \in RunMem /\ record \in RecordRow /\ accepted \in Nat  BY DEF TypeOK
<1>2. /\ UNCHANGED <<kind, job, leave, barred, accepted, spent>>
      /\ run[r].pc = "load" /\ run[r].last \in BOOLEAN
  BY <1>1 DEF LoadMail, LoadWebhook, RunMem
<1>3. CASE LoadMail(r) /\ leave # "on"
  <2>1. record' = Recorded("Failed") /\ Ends(r, TRUE) /\ Mail  BY <1>3 DEF LoadMail
  <2>2. /\ record' \in RecordRow /\ record'.job = record.job
        /\ record'.status = IF record.status = "gone" THEN "gone" ELSE "Failed"
    BY <2>1, RecordRows DEF Final
  <2>3. TypeOK' /\ LeavesAlone(r) /\ run'[r].pc = "end" /\ run'[r].ok
    BY <1>1, <1>2, <2>1, <2>2, EndsIs
  <2> QED  BY <1>2, <1>3, <2>1, <2>2, <2>3 DEF TurnedAway
<1>4. CASE /\ record' = record /\ Ends(r, TRUE)
           /\ IF Mail THEN record.status \in {"Sent", "Uncertain"} ELSE record.status \in {"Sent", "gone"}
  <2>1. TypeOK' /\ LeavesAlone(r) /\ run'[r].pc = "end" /\ run'[r].ok
    BY <1>1, <1>2, <1>4, EndsIs
  <2> QED  BY <1>2, <1>4, <2>1 DEF Skips
<1>5. ASSUME NEW p \in {"check", "weigh"}, record' = Counted, Set(r, [run[r] EXCEPT !.pc = p])
      PROVE  TypeOK' /\ LeavesAlone(r) /\ run'[r].pc = p /\ record'.status = record.status
  <2>1. record' \in RecordRow /\ record'.job = record.job /\ record'.status = record.status
    BY <1>5, RecordRows DEF Final
  <2>2. [run[r] EXCEPT !.pc = p] = [run[r] EXCEPT !.pc = p, !.last = run[r].last]
    BY <1>1 DEF RunMem
  <2>3. run' = [run EXCEPT ![r] = [run[r] EXCEPT !.pc = p, !.last = run[r].last]]
    BY <1>5, <2>2 DEF Set
  <2> QED  BY <1>2, <2>1, <2>3, OnIs
<1>6. CASE LoadMail(r) /\ leave = "on"
  <2>1. CASE record.status \in {"Sent", "Uncertain"}
    BY <1>4, <1>6, <2>1 DEF LoadMail
  <2>2. CASE record.status \notin {"Sent", "Uncertain"}
    <3>1. record' = Counted /\ Set(r, [run[r] EXCEPT !.pc = "check"]) /\ Mail
      BY <1>6, <2>2 DEF LoadMail
    <3>2. TypeOK' /\ LeavesAlone(r) /\ run'[r].pc = "check" /\ record'.status = record.status
      BY <1>5, <3>1
    <3> QED  BY <1>2, <1>6, <2>2, <3>1, <3>2 DEF Advances
  <2> QED  BY <2>1, <2>2
<1>7. CASE LoadWebhook(r)
  <2>1. CASE record.status \in {"gone", "Sent"}
    BY <1>4, <1>7, <2>1 DEF LoadWebhook
  <2>2. CASE record.status \notin {"gone", "Sent"}
    <3>1. record' = Counted /\ Set(r, [run[r] EXCEPT !.pc = "weigh"]) /\ ~Mail
      BY <1>7, <2>2 DEF LoadWebhook
    <3>2. TypeOK' /\ LeavesAlone(r) /\ run'[r].pc = "weigh" /\ record'.status = record.status
      BY <1>5, <3>1
    <3> QED  BY <1>2, <2>2, <3>1, <3>2 DEF Advances
  <2> QED  BY <2>1, <2>2
<1> QED  BY <1>3, <1>6, <1>7

LEMMA CheckSteps ==
  ASSUME TypeOK, NEW r \in Runner, DeliverMail(r) \/ Weigh(r) \/ CheckWebhook(r)
  PROVE  TypeOK' /\ LeavesAlone(r) /\ (TurnedAway(r) \/ Advances(r) \/ Tries(r))
<1>1. run[r] \in RunMem /\ record \in RecordRow /\ accepted \in Nat  BY DEF TypeOK
<1>2. /\ UNCHANGED <<kind, job, leave, barred, accepted, spent>>
      /\ run[r].pc \in {"check", "weigh"} /\ run[r].last \in BOOLEAN
  BY <1>1 DEF DeliverMail, Weigh, CheckWebhook, RunMem
<1>3. CASE DeliverMail(r) /\ leave # "on"
  <2>1. record' = Recorded("Failed") /\ Ends(r, TRUE) /\ Mail /\ run[r].pc = "check"
    BY <1>3 DEF DeliverMail
  <2>2. /\ record' \in RecordRow /\ record'.job = record.job
        /\ record'.status = IF record.status = "gone" THEN "gone" ELSE "Failed"
    BY <2>1, RecordRows DEF Final
  <2>3. TypeOK' /\ LeavesAlone(r) /\ run'[r].pc = "end" /\ run'[r].ok
    BY <1>1, <1>2, <2>1, <2>2, EndsIs
  <2> QED  BY <1>2, <1>3, <2>1, <2>2, <2>3 DEF TurnedAway
<1>4. CASE (DeliverMail(r) \/ CheckWebhook(r)) /\ leave = "on"
  <2>1. record' = record /\ Set(r, [run[r] EXCEPT !.pc = "send"]) /\ run[r].pc = "check"
    BY <1>4 DEF DeliverMail, CheckWebhook
  <2>2. [run[r] EXCEPT !.pc = "send"] = [run[r] EXCEPT !.pc = "send", !.last = run[r].last]
    BY <1>1 DEF RunMem
  <2>3. run' = [run EXCEPT ![r] = [run[r] EXCEPT !.pc = "send", !.last = run[r].last]]
    BY <2>1, <2>2 DEF Set
  <2>4. TypeOK' /\ LeavesAlone(r) /\ run'[r].pc = "send" /\ run'[r].last = run[r].last
    BY <1>1, <1>2, <2>1, <2>3, OnIs
  <2> QED  BY <1>2, <1>4, <2>1, <2>4 DEF Advances
<1>5. CASE Weigh(r)
  <2> DEFINE last == (record.job \in JobId /\ job[record.job].phase # "gone")
                       => job[record.job].attempts >= MaxAttempts
  <2>1. /\ record' = record /\ run[r].pc = "weigh" /\ last \in BOOLEAN
        /\ run' = [run EXCEPT ![r] = [run[r] EXCEPT !.pc = "check", !.last = last]]
    BY <1>5 DEF Weigh, Set
  <2> HIDE DEF last
  <2>2. TypeOK' /\ LeavesAlone(r) /\ run'[r].pc = "check" /\ run'[r].last = last
    BY <1>1, <1>2, <2>1, OnIs
  <2> QED  BY <1>2, <2>1, <2>2 DEF Advances, last
<1>6. CASE CheckWebhook(r) /\ leave # "on"
  <2>1. /\ record' = record /\ run[r].pc = "check" /\ ~Mail
        /\ run' = [run EXCEPT ![r] = [run[r] EXCEPT !.pc = "record", !.note = "Failed", !.ok = TRUE]]
    BY <1>6 DEF CheckWebhook, Set
  <2>2. "Failed" \in Final \cup {"Retrying"} /\ accepted' \in {accepted, accepted + 1}
    BY <1>2 DEF Final
  <2>3. /\ TypeOK' /\ LeavesAlone(r) /\ run'[r].pc = "record" /\ run'[r].last = run[r].last
        /\ run'[r].note = "Failed" /\ run'[r].ok
    BY <1>1, <1>2, <2>1, <2>2, TriedIs
  <2> QED  BY <1>2, <2>1, <2>3 DEF Tries
<1> QED  BY <1>3, <1>4, <1>5, <1>6

LEMMA AnswerSteps ==
  ASSUME TypeOK, NEW r \in Runner, Taken(r) \/ NoAnswer(r) \/ Refused(r)
  PROVE  TypeOK' /\ LeavesAlone(r) /\ Tries(r)
<1>1. run[r] \in RunMem /\ record \in RecordRow /\ accepted \in Nat  BY DEF TypeOK
<1>2. PICK taken \in BOOLEAN, note \in Final \cup {"Retrying"}, ok \in BOOLEAN :
        /\ Answered(r, taken, note, ok)
        /\ \/ taken /\ note = "Sent" /\ ok
           \/ kind = "smtp" /\ note = "Uncertain" /\ ok
           \/ kind = "method" /\ note = "Failed" /\ ~ok
           \/ ~Mail /\ note = (IF run[r].last THEN "Failed" ELSE "Retrying") /\ ~ok
           \/ ~taken /\ note = "Failed" /\ ok = ~Mail
  <2>1. CASE Taken(r)
    <3>1. TRUE \in BOOLEAN /\ "Sent" \in Final \cup {"Retrying"}  BY DEF Final
    <3> QED  BY <2>1, <3>1 DEF Taken
  <2>2. CASE NoAnswer(r)
    <3>1. PICK taken \in BOOLEAN :
            \/ kind = "smtp" /\ Answered(r, taken, "Uncertain", TRUE)
            \/ kind = "method" /\ Answered(r, taken, "Failed", FALSE)
            \/ ~Mail /\ Answered(r, taken, IF run[r].last THEN "Failed" ELSE "Retrying", FALSE)
      BY <2>2 DEF NoAnswer, Mail
    <3>2. {"Uncertain", "Failed", "Retrying"} \subseteq Final \cup {"Retrying"}  BY DEF Final
    <3> QED  BY <3>1, <3>2
  <2>3. CASE Refused(r)
    <3>1. "Failed" \in Final \cup {"Retrying"}  BY DEF Final
    <3> QED  BY <2>3, <3>1 DEF Refused
  <2> QED  BY <2>1, <2>2, <2>3
<1>3. /\ run[r].pc = "send" /\ UNCHANGED <<kind, record, job, leave, barred, spent>>
      /\ accepted' = IF taken THEN accepted + 1 ELSE accepted
      /\ run' = [run EXCEPT ![r] = [run[r] EXCEPT !.pc = "record", !.note = note, !.ok = ok]]
  BY <1>2 DEF Answered, Set
<1>4. /\ TypeOK' /\ LeavesAlone(r) /\ run'[r].pc = "record" /\ run'[r].last = run[r].last
      /\ run'[r].note = note /\ run'[r].ok = ok
  BY <1>1, <1>3, TriedIs
<1> QED  BY <1>2, <1>3, <1>4 DEF Tries

LEMMA StopSteps ==
  ASSUME TypeOK, NEW r \in Runner, RunInv(r),
         Interrupted(r) \/ FailsEarly(r) \/ TransportInterrupted(r) \/ Record(r)
  PROVE  TypeOK' /\ LeavesAlone(r) /\ (GivesUp(r) \/ Records(r))
<1>1. /\ run[r] \in RunMem /\ record \in RecordRow /\ accepted \in Nat
      /\ spent \in [Bounds -> Nat] /\ "throws" \in Bounds /\ "faults" \in Bounds
  BY DEF TypeOK, Bounds
<1>2. UNCHANGED <<kind, job, leave, barred>> /\ run[r].pc # "idle" /\ run[r].ok \in BOOLEAN
  BY <1>1 DEF Interrupted, FailsEarly, TransportInterrupted, Record, RunMem
<1>3. CASE Interrupted(r) \/ FailsEarly(r) \/ TransportInterrupted(r)
  <2>1. record' = record /\ Ends(r, FALSE) /\ accepted' \in {accepted, accepted + 1}
    BY <1>3 DEF Interrupted, FailsEarly, TransportInterrupted
  <2>2. spent' = spent \/ Spend("throws")
    BY <1>3 DEF Interrupted, FailsEarly, TransportInterrupted
  <2>3. accepted' \in Nat  BY <1>1, <2>1
  <2>4. TypeOK' /\ LeavesAlone(r) /\ run'[r].pc = "end" /\ run'[r].ok = FALSE
    BY <1>1, <1>2, <2>1, <2>2, <2>3, EndsIs
  <2>5. Spend("throws") => spent'["throws"] = spent["throws"] + 1  BY <1>1, SpendOne
  <2>6. GivesUp(r)
    BY <1>3, <2>1, <2>4, <2>5
       DEF Interrupted, FailsEarly, TransportInterrupted, GivesUp
  <2> QED  BY <2>4, <2>6
<1>4. CASE Record(r)
  <2>1. run[r].pc = "record" /\ Ends(r, run[r].ok) /\ accepted' = accepted
    BY <1>4 DEF Record
  <2>2. \/ record' = Recorded(run[r].note) /\ spent' = spent
        \/ record' = record /\ Spend("faults")
    BY <1>4 DEF Record
  <2>3. run[r].note \in Final \cup {"Retrying"} \/ run[r].note = "none"
    BY <1>1 DEF RunMem
  <2>4. run[r].note \in Final \cup {"Retrying"}  BY <2>1, <2>3 DEF RunInv
  <2>5. /\ record' \in RecordRow /\ record'.job = record.job
        /\ record'.status = "gone" <=> record.status = "gone"
        /\ \/ /\ record'.status = IF record.status = "gone" THEN "gone" ELSE run[r].note
              /\ spent' = spent
           \/ record' = record /\ Spend("faults")
    BY <1>1, <2>2, <2>4, RecordRows DEF Final
  <2>6. TypeOK' /\ LeavesAlone(r) /\ run'[r].pc = "end" /\ run'[r].ok = run[r].ok
    BY <1>1, <1>2, <2>1, <2>5, EndsIs
  <2>7. Spend("faults") => spent'["faults"] = spent["faults"] + 1  BY <1>1, SpendOne
  <2>8. Records(r)  BY <2>1, <2>5, <2>6, <2>7 DEF Records
  <2> QED  BY <2>6, <2>8
<1> QED  BY <1>3, <1>4

LEMMA GoesSteps ==
  ASSUME TypeOK, NEW r \in Runner, RunInv(r), Goes(r)
  PROVE  TypeOK' /\ LeavesAlone(r) /\ Passes(r)
BY LoadSteps, CheckSteps, AnswerSteps, StopSteps, ToldSteps DEF Goes, Deliver, Passes

-----------------------------------------------------------------------------
(* A run begins and ends.                                                  *)

LEMMA NotRunningIs == NotRunning \in RunMem /\ NotRunning.pc = "idle"
BY BoundsAssumption DEF NotRunning, RunMem

LEMMA ClaimSteps ==
  ASSUME TypeOK, NEW r \in Runner, Claim(r)
  PROVE  /\ TypeOK' /\ UNCHANGED <<kind, record, leave, barred, accepted, spent>>
         /\ run[r].pc = "idle" /\ run'[r].pc = "load" /\ run'[r].stop = "no"
         /\ \A q \in Runner : q # r => run'[q] = run[q]
         /\ \E j \in JobId :
              /\ job[j].phase = "waiting" /\ ~job[j].asked
              /\ job'[j].phase = "active" /\ ~job'[j].asked
              /\ job'[j].runs = job[j].runs + 1 /\ job'[j].attempts = job[j].attempts + 1
              /\ \A i \in JobId : i # j => job'[i] = job[i]
              /\ run'[r].job = j /\ run'[r].attempt = job'[j].attempts
<1>1. PICK j \in JobId :
        /\ job[j].phase = "waiting" /\ ~job[j].asked
        /\ job' = [job EXCEPT ![j].phase = "active", ![j].runs = @ + 1, ![j].attempts = @ + 1]
        /\ Set(r, [NotRunning EXCEPT !.pc = "load", !.job = j, !.attempt = job[j].attempts + 1])
  BY DEF Claim
<1>2. /\ job \in [JobId -> JobRow] /\ job[j] \in JobRow /\ j \in 0..MaxJobs
      /\ job[j].attempts \in Nat /\ job[j].runs \in Nat
  BY BoundsAssumption DEF TypeOK, JobId, JobRow
<1> DEFINE row == [job[j] EXCEPT !.phase = "active", !.runs = job[j].runs + 1,
                                  !.attempts = job[j].attempts + 1]
           m == [NotRunning EXCEPT !.pc = "load", !.job = j, !.attempt = job[j].attempts + 1]
<1>3. job' = [job EXCEPT ![j] = row]  BY <1>1, <1>2 DEF JobRow
<1>4. /\ row \in JobRow /\ row.phase = "active" /\ row.asked = job[j].asked
      /\ row.runs = job[j].runs + 1 /\ row.attempts = job[j].attempts + 1
  <2>1. PICK a \in Nat, n \in Nat : a = job[j].attempts + 1 /\ n = job[j].runs + 1
    BY <1>2
  <2>2. row = [job[j] EXCEPT !.phase = "active", !.runs = n, !.attempts = a]  BY <2>1
  <2> HIDE DEF row
  <2> QED  BY <1>2, <2>1, <2>2 DEF JobRow
<1>5. /\ m \in RunMem /\ m.pc = "load" /\ m.stop = "no" /\ m.job = j
      /\ m.attempt = job[j].attempts + 1
  <2>1. PICK a \in Nat : a = job[j].attempts + 1  BY <1>2
  <2>2. m = [NotRunning EXCEPT !.pc = "load", !.job = j, !.attempt = a]  BY <2>1
  <2> HIDE DEF m
  <2> QED  BY <1>2, <2>1, <2>2, NotRunningIs DEF NotRunning, RunMem
<1>6. run' = [run EXCEPT ![r] = m]  BY <1>1 DEF Set
<1> HIDE DEF row, m
<1>7. job' \in [JobId -> JobRow] /\ job'[j] = row /\ \A i \in JobId : i # j => job'[i] = job[i]
  BY <1>2, <1>3, <1>4
<1>8. /\ run' \in [Runner -> RunMem] /\ run'[r] = m
      /\ \A q \in Runner : q # r => run'[q] = run[q]
  BY <1>5, <1>6, RunIs
<1>9. run[r].pc = "idle" /\ UNCHANGED <<kind, record, leave, barred, accepted, spent>>
  BY DEF Claim
<1>10. TypeOK'  BY <1>7, <1>8, <1>9 DEF TypeOK
<1> QED  BY <1>1, <1>4, <1>5, <1>7, <1>8, <1>9, <1>10

LEMMA CrashSteps ==
  ASSUME TypeOK, NEW r \in Runner, Crash(r)
  PROVE  /\ TypeOK' /\ UNCHANGED <<kind, record, job, leave, barred, accepted>>
         /\ run'[r].pc = "idle" /\ \A q \in Runner : q # r => run'[q] = run[q]
         /\ spent'["faults"] = spent["faults"] + 1
         /\ \A b \in Bounds \ {"faults"} : spent'[b] = spent[b]
<1>1. /\ run' \in [Runner -> RunMem] /\ run'[r] = NotRunning
      /\ \A q \in Runner : q # r => run'[q] = run[q]
  BY NotRunningIs, RunIs DEF Crash, Set
<1>2. /\ spent' \in [Bounds -> Nat] /\ spent'["faults"] = spent["faults"] + 1
      /\ \A b \in Bounds \ {"faults"} : spent'[b] = spent[b]
  BY SpendOne DEF Crash, TypeOK, Bounds
<1>3. UNCHANGED <<kind, record, job, leave, barred, accepted>>  BY DEF Crash
<1>4. TypeOK'  BY <1>1, <1>2, <1>3 DEF TypeOK
<1> QED  BY <1>1, <1>2, <1>3, <1>4, NotRunningIs

\* The job of a run that still owns it gets an outcome, or waits again.
LEMMA EndSteps ==
  ASSUME TypeOK, NEW r \in Runner, RunInv(r), End(r)
  PROVE  /\ TypeOK' /\ UNCHANGED <<kind, record, leave, barred, accepted, spent>>
         /\ run[r].pc = "end" /\ run'[r].pc = "idle"
         /\ \A q \in Runner : q # r => run'[q] = run[q]
         /\ \A i \in JobId : (i # run[r].job \/ ~Owns(r)) => job'[i] = job[i]
         /\ Owns(r) =>
              LET j == run[r].job IN
              /\ job'[j].runs = job[j].runs /\ job'[j].asked = job[j].asked
              /\ job'[j].attempts \in {job[j].attempts, job[j].attempts - 1}
              /\ \/ job'[j].phase = "done" /\ run[r].ok
                 \/ job'[j].phase = "cancelled" /\ run[r].stop = "cancelled"
                 \/ /\ job'[j].phase = "waiting" /\ run[r].stop = "shutdown"
                    /\ job'[j].attempts = job[j].attempts - 1
                 \/ /\ job'[j].attempts = job[j].attempts
                    /\ run[r].stop = "no" => ~run[r].ok
                    /\ job'[j].phase = IF job[j].attempts < MaxAttempts THEN "waiting" ELSE "failed"
<1> DEFINE j == run[r].job
<1>1. job \in [JobId -> JobRow] /\ run[r] \in RunMem  BY DEF TypeOK
<1>2. /\ run' \in [Runner -> RunMem] /\ run'[r] = NotRunning
      /\ \A q \in Runner : q # r => run'[q] = run[q]
  BY NotRunningIs, RunIs DEF End, Set
<1>3. run[r].pc = "end" /\ UNCHANGED <<kind, record, leave, barred, accepted, spent>>
  BY DEF End
<1>4. CASE ~Owns(r)
  <2>1. job' = job  BY <1>4 DEF End
  <2>2. TypeOK'  BY <1>2, <1>3, <2>1 DEF TypeOK
  <2> QED  BY <1>2, <1>3, <1>4, <2>1, <2>2, NotRunningIs
<1>5. CASE Owns(r)
  <2>1. j \in JobId /\ job[j] \in JobRow /\ run[r].attempt >= 1 /\ job[j].attempts = run[r].attempt
    BY <1>1, <1>3, <1>5 DEF Owns, RunInv
  <2>2. PICK ok \in {run[r].ok, run[r].ok /\ run[r].stop = "no"} :
          job' = [job EXCEPT ![j] = Settled(r, job[j], ok)]
    BY <1>1, <1>5, <2>1 DEF End
  <2> DEFINE row == Settled(r, job[j], ok)
  <2>3. ok => run[r].ok  BY <2>2
  <2>4. (run[r].stop = "no" /\ ~ok) => ~run[r].ok  BY <2>2
  <2>5. row.runs = job[j].runs /\ row.asked = job[j].asked /\ row \in JobRow
    <3>1. job[j].attempts \in Nat /\ job[j].attempts - 1 \in Nat
      BY <2>1 DEF JobRow
    <3>2. /\ row = [job[j] EXCEPT !.phase = row.phase, !.attempts = row.attempts]
          /\ row.phase \in {"done", "cancelled", "waiting", "failed"} /\ row.attempts \in Nat
      BY <2>1, <3>1 DEF Settled, Spent, JobRow
    <3> HIDE DEF row
    <3> QED  BY <2>1, <3>2 DEF JobRow, Over
  <2>6. /\ row.attempts \in {job[j].attempts, job[j].attempts - 1}
        /\ \/ row.phase = "done" /\ ok
           \/ row.phase = "cancelled" /\ run[r].stop = "cancelled"
           \/ /\ row.phase = "waiting" /\ run[r].stop = "shutdown"
              /\ row.attempts = job[j].attempts - 1
           \/ /\ row.attempts = job[j].attempts /\ ~ok
              /\ row.phase = IF job[j].attempts < MaxAttempts THEN "waiting" ELSE "failed"
    BY <2>1, BoundsAssumption DEF Settled, Spent, JobRow
  <2> HIDE DEF row
  <2>7. job' \in [JobId -> JobRow] /\ job'[j] = row /\ \A i \in JobId : i # j => job'[i] = job[i]
    BY <1>1, <2>1, <2>2, <2>5 DEF row
  <2>8. TypeOK'  BY <1>2, <1>3, <2>7 DEF TypeOK
  <2> QED  BY <1>2, <1>3, <1>5, <2>3, <2>4, <2>5, <2>6, <2>7, <2>8, NotRunningIs
<1> QED  BY <1>4, <1>5

-----------------------------------------------------------------------------
(* Rows and runs: every run has an attempt of its own.                     *)

LEMMA Typed ==
  ASSUME TypeOK
  PROVE  /\ record \in RecordRow /\ record.job \in 0..MaxJobs /\ accepted \in Nat
         /\ \A b \in Bounds : spent[b] \in Nat
         /\ \A j \in JobId : /\ job[j] \in JobRow /\ job[j].attempts \in Nat
                             /\ job[j].runs \in Nat /\ job[j].asked \in BOOLEAN
         /\ \A r \in Runner : /\ run[r] \in RunMem /\ run[r].attempt \in Nat
                              /\ run[r].job \in 0..MaxJobs
                              /\ run[r].ok \in BOOLEAN /\ run[r].last \in BOOLEAN
<1>1. record \in RecordRow /\ \A b \in Bounds : spent[b] \in Nat  BY DEF TypeOK
<1>2. \A j \in JobId : job[j] \in JobRow  BY DEF TypeOK
<1>3. \A r \in Runner : run[r] \in RunMem  BY DEF TypeOK
<1>4. \A x \in JobRow : x.attempts \in Nat /\ x.runs \in Nat /\ x.asked \in BOOLEAN
  BY DEF JobRow
<1>5. \A m \in RunMem : /\ m.attempt \in Nat /\ m.job \in 0..MaxJobs
                        /\ m.ok \in BOOLEAN /\ m.last \in BOOLEAN
  BY DEF RunMem
<1>6. record.job \in 0..MaxJobs /\ accepted \in Nat  BY <1>1 DEF RecordRow, TypeOK
<1> QED  BY <1>1, <1>2, <1>3, <1>4, <1>5, <1>6

\* A run that is under way owns its job exactly while its attempt is the row's.
LEMMA OwnsIs ==
  ASSUME NEW r \in Runner, RunInv(r), run[r].pc # "idle"
  PROVE  Owns(r) <=> job[run[r].job].phase = "active" /\ job[run[r].job].attempts = run[r].attempt
BY DEF Owns, RunInv

LEMMA OneOwnerEach ==
  ASSUME Distinct, NEW q \in Runner, NEW r \in Runner, run[q].pc # "idle", run[r].pc # "idle",
         Owns(q), Owns(r), run[q].job = run[r].job
  PROVE  q = r
BY DEF Distinct, Busy, Owns

LEMMA RowsOutside ==
  ASSUME RowsInv, UNCHANGED <<job, run>>
  PROVE  RowsInv'
<1>1. Busy' = Busy  BY DEF Busy
<1>2. \A r \in Runner : RunInv(r)'  BY DEF RowsInv, RunInv
<1>3. \A j \in JobId : RowInv(j)'  BY DEF RowsInv, RowInv
<1>4. Distinct'  BY <1>1 DEF RowsInv, Distinct
<1> QED  BY <1>1, <1>2, <1>3, <1>4 DEF RowsInv

LEMMA RowsNewJob ==
  ASSUME TypeOK, RowsInv, UNCHANGED run,
         NEW n \in JobId, job[n].phase = "none", job' = [job EXCEPT ![n] = Queued]
  PROVE  RowsInv'
<1>1. Busy' = Busy  BY DEF Busy
<1>2. job'[n] = Queued /\ \A i \in JobId : i # n => job'[i] = job[i]  BY DEF TypeOK
<1>3. ASSUME NEW r \in Runner PROVE RunInv(r)'
  <2>1. run[r].pc # "idle" => run[r].job \in JobId \ {n}  BY DEF RowsInv, RunInv
  <2> QED  BY <1>2, <2>1 DEF RowsInv, RunInv
<1>4. \A j \in JobId : RowInv(j)'  BY <1>2, QueuedRow DEF RowsInv, RowInv
<1>5. Distinct'  BY <1>1 DEF RowsInv, Distinct
<1> QED  BY <1>1, <1>3, <1>4, <1>5 DEF RowsInv

LEMMA RowsRow ==
  ASSUME TypeOK, RowsInv, NEW j \in JobId, RowStep(j)
  PROVE  RowsInv'
<1>1. /\ UNCHANGED run /\ \A i \in JobId : i # j => job'[i] = job[i]
      /\ job'[j].attempts = job[j].attempts /\ job'[j].runs = job[j].runs
      /\ job[j].asked => job'[j].asked
      /\ job[j].phase # "none" /\ job'[j].phase # "none"
  <2>1. job[j].phase # "none" /\ job'[j].phase # "none"  BY RowSteps DEF Over, Live
  <2> QED  BY <2>1, RowSteps
<1>2. Busy' = Busy  BY <1>1 DEF Busy
<1>3. \A r \in Runner : RunInv(r)'  BY <1>1 DEF RowsInv, RunInv
<1>4. \A i \in JobId : RowInv(i)'  BY <1>1 DEF RowsInv, RowInv
<1>5. Distinct'  BY <1>1, <1>2 DEF RowsInv, Distinct
<1> QED  BY <1>2, <1>3, <1>4, <1>5 DEF RowsInv

LEMMA RowsPass ==
  ASSUME TypeOK, RowsInv, NEW r \in Runner, LeavesAlone(r), Passes(r)
  PROVE  RowsInv'
<1>1. Busy' = Busy  BY DEF Busy, LeavesAlone
<1>2. ASSUME NEW q \in Runner PROVE RunInv(q)'
  <2>1. CASE q # r  BY <2>1 DEF RowsInv, RunInv, LeavesAlone
  <2>2. CASE q = r
    <3>1. RunInv(r) /\ run[r].pc # "idle" /\ job' = job  BY DEF RowsInv, LeavesAlone
    <3>2. run'[r].stop = "cancelled" => job[run[r].job].asked
      BY <3>1 DEF RunInv, LeavesAlone, Told
    <3>3. run'[r].pc = "record" => run'[r].note # "none"
      BY <3>1 DEF RunInv, Passes, Told, GivesUp, TurnedAway, Skips, Advances, Tries, Records
    <3> QED  BY <2>2, <3>1, <3>2, <3>3 DEF RunInv, LeavesAlone
  <2> QED  BY <2>1, <2>2
<1>3. \A i \in JobId : RowInv(i)'  BY DEF RowsInv, RowInv, LeavesAlone
<1>4. Distinct'
  <2>1. \A q \in Runner : run'[q].job = run[q].job /\ run'[q].attempt = run[q].attempt
    BY DEF LeavesAlone
  <2> QED  BY <1>1, <2>1 DEF RowsInv, Distinct, Busy
<1> QED  BY <1>1, <1>2, <1>3, <1>4 DEF RowsInv

LEMMA RowsClaim ==
  ASSUME TypeOK, RowsInv, NEW r \in Runner, Claim(r)
  PROVE  RowsInv'
<1>1. PICK j \in JobId :
        /\ job[j].phase = "waiting"
        /\ job'[j].phase = "active" /\ ~job'[j].asked
        /\ job'[j].runs = job[j].runs + 1 /\ job'[j].attempts = job[j].attempts + 1
        /\ \A i \in JobId : i # j => job'[i] = job[i]
        /\ run'[r].job = j /\ run'[r].attempt = job'[j].attempts
        /\ ~job[j].asked
  BY ClaimSteps
<1>2. /\ run[r].pc = "idle" /\ run'[r].pc = "load" /\ run'[r].stop = "no"
      /\ \A q \in Runner : q # r => run'[q] = run[q]
  BY ClaimSteps
<1>3. Busy' = Busy \cup {r}  BY <1>2 DEF Busy
<1>4. IsFiniteSet(Busy')  BY <1>3, FS_AddElement DEF RowsInv
<1>5. job[j].attempts \in Nat /\ job[j].runs \in Nat  BY Typed
<1>6. ASSUME NEW q \in Runner PROVE RunInv(q)'
  <2>1. CASE q = r  BY <1>1, <1>2, <1>5, <2>1 DEF RunInv
  <2>2. CASE q # r
    <3>1. RunInv(q) /\ run'[q] = run[q] /\ run[q].attempt \in Nat  BY <1>2, <2>2, Typed DEF RowsInv
    <3> QED  BY <1>1, <1>5, <3>1 DEF RunInv
  <2> QED  BY <2>1, <2>2
<1>7. \A i \in JobId : RowInv(i)'  BY <1>1, <1>5 DEF RowsInv, RowInv
<1>8. Distinct'
  <2>1. SUFFICES ASSUME NEW p \in Busy', NEW q \in Busy', p # q, run'[p].job = run'[q].job
                 PROVE  run'[p].attempt # run'[q].attempt
    BY DEF Distinct
  <2>2. ASSUME NEW x \in Busy, run[x].job = j PROVE run[x].attempt # job[j].attempts + 1
    <3>1. x \in Runner /\ RunInv(x) /\ run[x].attempt \in Nat  BY Typed DEF Busy, RowsInv
    <3> QED  BY <1>5, <2>2, <3>1 DEF RunInv, Busy
  <2>3. r \notin Busy  BY <1>2 DEF Busy
  <2>4. p # r => p \in Busy /\ run'[p] = run[p]  BY <1>2, <1>3 DEF Busy
  <2>5. q # r => q \in Busy /\ run'[q] = run[q]  BY <1>2, <1>3 DEF Busy
  <2> QED  BY <1>1, <2>1, <2>2, <2>4, <2>5 DEF RowsInv, Distinct
<1> QED  BY <1>4, <1>6, <1>7, <1>8 DEF RowsInv

LEMMA RowsLeave ==
  ASSUME TypeOK, RowsInv, NEW r \in Runner, End(r) \/ Crash(r)
  PROVE  RowsInv' /\ Busy' = Busy \ {r}
<1>1. run'[r].pc = "idle" /\ \A q \in Runner : q # r => run'[q] = run[q]
  BY EndSteps, CrashSteps DEF RowsInv
<1>2. Busy' = Busy \ {r}  BY <1>1 DEF Busy
<1>3. IsFiniteSet(Busy')  BY <1>2, FS_RemoveElement DEF RowsInv
<1>4. Distinct'  BY <1>1, <1>2 DEF RowsInv, Distinct, Busy
<1>5. CASE UNCHANGED job
  <2>1. \A q \in Runner : RunInv(q)'  BY <1>1, <1>5 DEF RowsInv, RunInv
  <2>2. \A i \in JobId : RowInv(i)'  BY <1>5 DEF RowsInv, RowInv
  <2> QED  BY <1>2, <1>3, <1>4, <2>1, <2>2 DEF RowsInv
<1>6. CASE End(r) /\ Owns(r)
  <2> DEFINE j == run[r].job
  <2>1. /\ run[r].pc = "end" /\ RunInv(r) /\ j \in JobId
        /\ job[j].phase = "active" /\ job[j].attempts = run[r].attempt
    BY <1>6, EndSteps DEF RowsInv, Owns
  <2>2. /\ \A i \in JobId : i # j => job'[i] = job[i]
        /\ job'[j].runs = job[j].runs /\ job'[j].asked = job[j].asked
        /\ job'[j].phase # "none"
        /\ job'[j].attempts \in {job[j].attempts, job[j].attempts - 1}
    BY <1>6, <2>1, EndSteps
  <2>3. job[j].attempts \in Nat /\ job[j].runs \in Nat  BY <2>1, Typed
  <2>4. ASSUME NEW q \in Runner PROVE RunInv(q)'
    <3>1. CASE q = r  BY <1>1, <3>1 DEF RunInv
    <3>2. CASE q # r /\ run[q].pc # "idle"
      <4>1. RunInv(q) /\ run'[q] = run[q] /\ run[q].attempt \in Nat
        BY <1>1, <3>2, Typed DEF RowsInv
      <4>2. run[q].job = j => run[q].attempt # job[j].attempts
        BY <2>1, <3>2 DEF RowsInv, Distinct, Busy
      <4>3. run[q].job = j => run[q].attempt <= job'[j].attempts
        BY <2>2, <2>3, <3>2, <4>1, <4>2 DEF RunInv
      <4> QED  BY <2>2, <3>2, <4>1, <4>3 DEF RunInv
    <3>3. CASE q # r /\ run[q].pc = "idle"  BY <1>1, <3>3 DEF RunInv
    <3> QED  BY <3>1, <3>2, <3>3
  <2>5. \A i \in JobId : RowInv(i)'  BY <2>2, <2>3 DEF RowsInv, RowInv
  <2> QED  BY <1>2, <1>3, <1>4, <2>4, <2>5 DEF RowsInv
<1>7. CASE Crash(r) \/ ~Owns(r)
  BY <1>5, <1>7, CrashSteps DEF End
<1> QED  BY <1>6, <1>7

\* All of it: the types and the rows.
LEMMA RowsKept ==
  ASSUME TypeOK, RecordInv, RowsInv, Next
  PROVE  TypeOK' /\ RowsInv'
<1>1. CASE Outside  BY <1>1, OutsideSteps, RowsOutside
<1>2. CASE NewJob
  <2>1. TypeOK' /\ UNCHANGED run  BY <1>2, NewJobSteps
  <2>2. PICK n \in JobId : job[n].phase = "none" /\ job' = [job EXCEPT ![n] = Queued]
    BY <1>2, NewJobSteps
  <2> QED  BY <2>1, <2>2, RowsNewJob
<1>3. ASSUME NEW j \in JobId, RowStep(j) PROVE TypeOK' /\ RowsInv'
  BY <1>3, RowSteps, RowsRow
<1>4. ASSUME NEW r \in Runner, Goes(r) PROVE TypeOK' /\ RowsInv'
  <2>1. RunInv(r)  BY DEF RowsInv
  <2> QED  BY <1>4, <2>1, GoesSteps, RowsPass
<1>5. ASSUME NEW r \in Runner, Claim(r) PROVE TypeOK' /\ RowsInv'
  BY <1>5, ClaimSteps, RowsClaim
<1>6. ASSUME NEW r \in Runner, End(r) \/ Crash(r) PROVE TypeOK' /\ RowsInv'
  <2>1. RunInv(r)  BY DEF RowsInv
  <2> QED  BY <1>6, <2>1, EndSteps, CrashSteps, RowsLeave
<1> QED  BY <1>1, <1>2, <1>3, <1>4, <1>5, <1>6, Groups

-----------------------------------------------------------------------------
(* The record, the switch and the mail.                                    *)

LEMMA RecordKept ==
  ASSUME TypeOK, RecordInv, RowsInv, Next
  PROVE  RecordInv'
<1>1. CASE Outside
  <2>1. /\ UNCHANGED <<kind, job, run>> /\ record'.job = record.job
        /\ spent'["retries"] = spent["retries"] /\ spent'["replays"] = spent["replays"]
    BY <1>1, OutsideSteps DEF Bounds
  <2>2. \/ record' = record
        \/ kind = "webhook" /\ record.status # "none" /\ record'.status = "gone"
    BY <1>1, OutsideSteps
  <2>3. Busy' = Busy  BY <2>1 DEF Busy
  <2> QED  BY <2>1, <2>2, <2>3 DEF RecordInv, Mail
<1>2. CASE NewJob
  <2>1. UNCHANGED kind  BY <1>2, NewJobSteps
  <2>2. PICK n \in JobId :
          \/ /\ record.status = "none" /\ spent' = spent
             /\ record'.status = "Queued" /\ record'.job = n
          \/ /\ kind = "webhook" /\ record'.status = "Queued" /\ record'.job = n
          \/ /\ \E j \in JobId : job[j].phase \in {"failed", "cancelled"}
             /\ \A b \in Bounds \ {"retries"} : spent'[b] = spent[b]
             /\ record' = record
    BY <1>2, NewJobSteps
  <2>3. (\E j \in JobId : job[j].phase \in {"failed", "cancelled"}) => record.status # "none"
    BY DEF RecordInv
  <2> QED  BY <2>1, <2>2, <2>3 DEF RecordInv, Mail, Bounds
<1>3. ASSUME NEW j \in JobId, RowStep(j) PROVE RecordInv'
  <2>1. /\ UNCHANGED <<kind, record, run>> /\ spent'["replays"] = spent["replays"]
        /\ job[j].phase # "none"
    BY <1>3, RowSteps DEF Bounds, Live, Over
  <2> QED  BY <2>1 DEF RecordInv, Mail
<1>4. ASSUME NEW r \in Runner, Goes(r) PROVE RecordInv'
  <2>1. LeavesAlone(r) /\ Passes(r) /\ run[r].pc # "idle"
    BY <1>4, GoesSteps DEF RowsInv, LeavesAlone
  <2>2. record.status # "none"  BY <2>1 DEF RecordInv, Busy
  <2>3. record'.status # "none"
    <3>1. run[r].pc = "record" => run[r].note # "none"  BY DEF RowsInv, RunInv
    <3> QED
      BY <2>1, <2>2, <3>1 DEF Passes, Told, GivesUp, TurnedAway, Skips, Advances, Tries, Records
  <2>4. /\ record'.job = record.job /\ kind' = kind /\ spent'["replays"] = spent["replays"]
        /\ record'.status = "gone" <=> record.status = "gone"
    BY <2>1 DEF LeavesAlone, Bounds
  <2> QED  BY <2>2, <2>3, <2>4 DEF RecordInv, Mail
<1>5. ASSUME NEW r \in Runner, Claim(r) PROVE RecordInv'
  <2>1. /\ UNCHANGED <<kind, record, spent>> /\ \E j \in JobId : job[j].phase = "waiting"
    BY <1>5, ClaimSteps
  <2> QED  BY <2>1 DEF RecordInv, Mail
<1>6. ASSUME NEW r \in Runner, End(r) \/ Crash(r) PROVE RecordInv'
  <2>1. /\ UNCHANGED <<kind, record>> /\ spent'["replays"] = spent["replays"]
        /\ run[r].pc # "idle"
    BY <1>6, EndSteps, CrashSteps DEF RowsInv, Bounds, Crash
  <2> QED  BY <2>1 DEF RecordInv, Mail, Busy
<1> QED  BY <1>1, <1>2, <1>3, <1>4, <1>5, <1>6, Groups

\* A step that lets a run past its last check finds the message allowed.
LEMMA WithdrawnKept ==
  ASSUME TypeOK, RowsInv, RecordInv, WithdrawnInv, Next
  PROVE  WithdrawnInv' /\ (accepted' # accepted => ~barred)
<1>1. CASE Outside
  <2>1. accepted' = accepted /\ UNCHANGED run  BY <1>1, OutsideSteps
  <2>2. ASSUME barred' PROVE leave' # "on" /\ \A r \in Runner : run'[r].pc # "send"
    BY <1>1, <2>1, <2>2 DEF Outside, SweepDeliveries, Allow, Withdraw, WithdrawnInv
  <2> QED  BY <2>1, <2>2 DEF WithdrawnInv
<1>2. CASE NewJob
  BY <1>2, NewJobSteps DEF WithdrawnInv
<1>3. ASSUME NEW j \in JobId, RowStep(j) PROVE WithdrawnInv' /\ accepted' = accepted
  <2>1. UNCHANGED <<run, leave, barred, accepted>>  BY <1>3, RowSteps
  <2> QED  BY <2>1 DEF WithdrawnInv
<1>4. ASSUME NEW r \in Runner, Goes(r) PROVE WithdrawnInv' /\ (accepted' # accepted => ~barred)
  <2>1. LeavesAlone(r) /\ Passes(r)  BY <1>4, GoesSteps DEF RowsInv
  <2>2. accepted' # accepted => run[r].pc = "send"
    BY <2>1 DEF Passes, Told, GivesUp, TurnedAway, Skips, Advances, Tries, Records
  <2>3. run'[r].pc = "send" => run[r].pc = "send" \/ leave = "on"
    BY <2>1 DEF Passes, Told, GivesUp, TurnedAway, Skips, Advances, Tries, Records
  <2> QED  BY <2>1, <2>2, <2>3 DEF WithdrawnInv, LeavesAlone
<1>5. ASSUME NEW r \in Runner, Claim(r) \/ End(r) \/ Crash(r)
      PROVE  WithdrawnInv' /\ accepted' = accepted
  <2>1. /\ UNCHANGED <<leave, barred, accepted>> /\ run'[r].pc # "send"
        /\ \A q \in Runner : q # r => run'[q] = run[q]
    BY <1>5, ClaimSteps, EndSteps, CrashSteps DEF RowsInv
  <2> QED  BY <2>1 DEF WithdrawnInv
<1> QED  BY <1>1, <1>2, <1>3, <1>4, <1>5, Groups

LEMMA LeaveKept ==
  ASSUME TypeOK, RowsInv, RecordInv, LeaveInv, Next
  PROVE  LeaveInv'
<1>1. CASE Outside
  <2>1. CASE SweepDeliveries  BY <2>1 DEF SweepDeliveries, LeaveInv
  <2>2. CASE ~SweepDeliveries
    <3>1. Spend("switches")  BY <1>1, <2>2 DEF Outside, Allow, Withdraw
    <3>2. spent'["switches"] = spent["switches"] + 1 /\ spent["switches"] \in Nat
      BY <3>1, SpendOne, Typed DEF TypeOK, Bounds
    <3> QED  BY <3>2 DEF LeaveInv
  <2> QED  BY <2>1, <2>2
<1>2. CASE NewJob
  <2>1. UNCHANGED leave /\ spent'["switches"] = spent["switches"]
    BY <1>2, NewJobSteps DEF Bounds
  <2> QED  BY <2>1 DEF LeaveInv
<1>3. ASSUME NEW j \in JobId, RowStep(j) PROVE LeaveInv'
  <2>1. UNCHANGED leave /\ spent'["switches"] = spent["switches"]
    BY <1>3, RowSteps DEF Bounds
  <2> QED  BY <2>1 DEF LeaveInv
<1>4. ASSUME NEW r \in Runner, Goes(r) \/ Claim(r) \/ End(r) \/ Crash(r) PROVE LeaveInv'
  <2>1. UNCHANGED leave /\ spent'["switches"] = spent["switches"]
    BY <1>4, GoesSteps, ClaimSteps, EndSteps, CrashSteps DEF RowsInv, LeavesAlone, Bounds
  <2> QED  BY <2>1 DEF LeaveInv
<1> QED  BY <1>1, <1>2, <1>3, <1>4, Groups

LEMMA MailKept ==
  ASSUME TypeOK, RowsInv, RecordInv, MailInv, Next
  PROVE  MailInv'
<1>1. ASSUME UNCHANGED <<kind, run>> PROVE MailInv'  BY <1>1 DEF MailInv, Mail
<1>2. CASE Outside \/ NewJob \/ \E j \in JobId : RowStep(j)
  BY <1>1, <1>2, OutsideSteps, NewJobSteps, RowSteps
<1>3. ASSUME NEW r \in Runner, Goes(r) PROVE MailInv'
  <2>1. LeavesAlone(r) /\ Passes(r)  BY <1>3, GoesSteps DEF RowsInv
  <2>2. Mail => /\ run'[r].pc # "weigh"
                /\ run'[r].pc = "record" => run'[r].note \in Final
    BY <2>1
       DEF MailInv, Mail, Final, Passes, Told, GivesUp, TurnedAway, Skips, Advances, Tries, Records
  <2> QED  BY <2>1, <2>2 DEF MailInv, Mail, LeavesAlone
<1>4. ASSUME NEW r \in Runner, Claim(r) \/ End(r) \/ Crash(r) PROVE MailInv'
  <2>1. /\ UNCHANGED kind /\ run'[r].pc \in {"load", "idle"}
        /\ \A q \in Runner : q # r => run'[q] = run[q]
    BY <1>4, ClaimSteps, EndSteps, CrashSteps DEF RowsInv
  <2> QED  BY <2>1 DEF MailInv, Mail
<1> QED  BY <1>2, <1>3, <1>4, Groups

-----------------------------------------------------------------------------
(* One job at a time, and one run of it.                                   *)

\* The bounds only grow.
LEMMA SpentGrows ==
  ASSUME TypeOK, RowsInv, RecordInv, Next
  PROVE  \A b \in Bounds : spent'[b] >= spent[b] /\ spent'[b] \in Nat
<1>1. \A b \in Bounds : spent[b] \in Nat  BY Typed
<1>2. ASSUME Outside PROVE \A b \in Bounds : spent'[b] >= spent[b]
  <2>1. /\ \A b \in Bounds \ {"switches"} : spent'[b] = spent[b]
        /\ spent'["switches"] >= spent["switches"]
    BY <1>2, OutsideSteps
  <2> QED  BY <1>1, <2>1
<1>3. ASSUME NewJob PROVE \A b \in Bounds : spent'[b] >= spent[b]
  BY <1>1, <1>3, NewJobSteps
<1>4. ASSUME NEW j \in JobId, RowStep(j) PROVE \A b \in Bounds : spent'[b] >= spent[b]
  BY <1>4, RowSteps
<1>5. ASSUME NEW r \in Runner, Goes(r) PROVE \A b \in Bounds : spent'[b] >= spent[b]
  BY <1>5, GoesSteps DEF RowsInv, LeavesAlone
<1>6. ASSUME NEW r \in Runner, Claim(r) \/ End(r) \/ Crash(r)
      PROVE \A b \in Bounds : spent'[b] >= spent[b]
  BY <1>1, <1>6, ClaimSteps, EndSteps, CrashSteps DEF RowsInv
<1>7. \A b \in Bounds : spent'[b] >= spent[b]
  BY <1>2, <1>3, <1>4, <1>5, <1>6, Groups
<1>8. \A b \in Bounds : spent'[b] \in Nat  BY RowsKept DEF TypeOK
<1> QED  BY <1>7, <1>8

\* The retry copies the one job there is, and that job is over.
LEMMA OneJobRetried ==
  ASSUME TypeOK, RecordInv, OneJobInv, NEW n \in JobId,
         job[n].phase = "none", \A i \in 1..(n - 1) : job[i].phase # "none",
         job' = [job EXCEPT ![n] = Queued],
         NEW k \in JobId, job[k].phase \in {"failed", "cancelled"},
         spent'["retries"] = spent["retries"] + 1, spent'["replays"] = spent["replays"]
  PROVE  OneJobInv' /\ (OneJob' => n = 2 /\ Current = 1 /\ Current' = 2 /\ k = 1)
<1>1. SUFFICES ASSUME OneJob'
               PROVE  /\ n = 2 /\ Current = 1 /\ Current' = 2 /\ k = 1
                      /\ Current' \in JobId
                      /\ \A j \in JobId : Live(j)' => j = Current'
                      /\ \A j \in JobId : job'[j].phase # "none" => j <= Current'
                      /\ job'[Current'].phase # "none"
  BY DEF OneJobInv
<1>2. spent["retries"] = 0 /\ spent["replays"] = 0
  <2>1. spent["retries"] \in Nat /\ spent["replays"] \in Nat  BY Typed DEF Bounds
  <2> QED  BY <1>1, <2>1 DEF OneJob
<1>3. /\ Current = 1 /\ Current' = 2 /\ OneJob  BY <1>2 DEF Current, OneJob
<1>4. /\ \A j \in JobId : Live(j) => j = 1
      /\ \A j \in JobId : job[j].phase # "none" => j <= 1
  BY <1>3 DEF OneJobInv
<1>5. k = 1
  <2>1. k <= 1  BY <1>4
  <2> QED  BY <2>1 DEF JobId
<1>6. n = 2
  <2>1. n # 1  BY <1>5
  <2>2. n \in Nat /\ n >= 2  BY <2>1, BoundsAssumption DEF JobId
  <2>3. CASE n > 2
    <3>1. 2 \in JobId /\ 2 \in 1..(n - 1)  BY <2>2, <2>3, BoundsAssumption DEF JobId
    <3>2. job[2].phase # "none"  BY <3>1
    <3> QED  BY <1>4, <3>1, <3>2
  <2> QED  BY <2>2, <2>3
<1>7. job'[n] = Queued /\ \A i \in JobId : i # n => job'[i] = job[i]  BY DEF TypeOK
<1>8. ~Live(1)  BY <1>5 DEF Live
<1>9. \A j \in JobId : Live(j)' => j = 2  BY <1>4, <1>6, <1>7, <1>8 DEF Live
<1>10. \A j \in JobId : job'[j].phase # "none" => j <= 2
  <2>1. ASSUME NEW j \in JobId, job'[j].phase # "none" PROVE j <= 2
    <3>1. CASE j = n  BY <1>6, <3>1
    <3>2. CASE j # n
      <4>1. j <= 1  BY <1>4, <1>7, <2>1, <3>2
      <4> QED  BY <4>1 DEF JobId
    <3> QED  BY <3>1, <3>2
  <2> QED  BY <2>1
<1> QED  BY <1>3, <1>5, <1>6, <1>7, <1>9, <1>10, QueuedRow

LEMMA OneJobKept ==
  ASSUME TypeOK, RowsInv, RecordInv, OneJobInv, Next
  PROVE  OneJobInv'
<1>1. OneJob' => OneJob
  <2>1. /\ spent["retries"] \in Nat /\ spent["replays"] \in Nat
        /\ spent'["retries"] \in Nat /\ spent'["replays"] \in Nat
        /\ spent'["retries"] >= spent["retries"] /\ spent'["replays"] >= spent["replays"]
    BY Typed, SpentGrows DEF Bounds
  <2> QED  BY <2>1 DEF OneJob
\* A step that queues nothing leaves at most the same job live.
<1>2. ASSUME spent'["retries"] = spent["retries"],
             \A j \in JobId : Live(j)' => Live(j),
             \A j \in JobId : job'[j].phase = "none" <=> job[j].phase = "none",
             record.status = "none" => record'.status = "none"
      PROVE  OneJobInv'
  <2>1. SUFFICES ASSUME OneJob'
                 PROVE  /\ Current' \in JobId
                        /\ \A j \in JobId : Live(j)' => j = Current'
                        /\ \A j \in JobId : job'[j].phase # "none" => j <= Current'
                        /\ job'[Current'].phase = "none" => record'.status = "none"
    BY DEF OneJobInv
  <2>2. Current' = Current  BY <1>2 DEF Current
  <2>3. /\ Current \in JobId
        /\ \A j \in JobId : Live(j) => j = Current
        /\ \A j \in JobId : job[j].phase # "none" => j <= Current
        /\ job[Current].phase = "none" => record.status = "none"
    BY <1>1, <2>1 DEF OneJobInv
  <2> QED  BY <1>2, <2>2, <2>3
<1>3. CASE Outside
  <2>1. job' = job /\ spent'["retries"] = spent["retries"]
        /\ (record.status = "none" => record'.status = "none")
    BY <1>3, OutsideSteps DEF Bounds
  <2> QED  BY <1>2, <2>1 DEF Live
<1>4. CASE NewJob
  <2>1. PICK n \in JobId :
              /\ job[n].phase = "none" /\ \A i \in 1..(n - 1) : job[i].phase # "none"
              /\ job' = [job EXCEPT ![n] = Queued]
              /\ \/ record.status = "none" /\ spent' = spent /\ n = 1
                 \/ spent'["replays"] = spent["replays"] + 1
                 \/ /\ \E j \in JobId : job[j].phase \in {"failed", "cancelled"}
                    /\ spent'["retries"] = spent["retries"] + 1
                    /\ spent'["replays"] = spent["replays"]
    BY <1>4, NewJobSteps DEF Bounds
  <2>2. CASE record.status = "none" /\ spent' = spent /\ n = 1
    <3>1. Current' = 1 /\ n \in JobId  BY <2>2 DEF Current, RecordInv
    <3>2. job'[n] = Queued /\ \A i \in JobId : i # n => job'[i].phase = "none"
      BY <2>1, <2>2 DEF TypeOK, RecordInv
    <3>3. \A j \in JobId : job'[j].phase # "none" => j = 1  BY <2>2, <3>2
    <3>4. \A j \in JobId : Live(j)' => j = 1  BY <3>3 DEF Live
    <3>5. Current' \in JobId /\ \A j \in JobId : j = 1 => j <= Current'
      BY <2>2, <3>1
    <3>6. job'[Current'].phase = "waiting"  BY <2>2, <3>1, <3>2, QueuedRow
    <3> QED  BY <3>1, <3>3, <3>4, <3>5, <3>6 DEF OneJobInv
  <2>3. CASE spent'["replays"] = spent["replays"] + 1
    <3>1. spent["replays"] \in Nat  BY Typed DEF Bounds
    <3>2. spent'["replays"] # 0  BY <2>3, <3>1
    <3>3. ~OneJob'  BY <3>2 DEF OneJob
    <3> QED  BY <3>3 DEF OneJobInv
  <2>4. CASE /\ \E j \in JobId : job[j].phase \in {"failed", "cancelled"}
             /\ spent'["retries"] = spent["retries"] + 1
             /\ spent'["replays"] = spent["replays"]
    <3>1. PICK k \in JobId : job[k].phase \in {"failed", "cancelled"}  BY <2>4
    <3> QED  BY <2>1, <2>4, <3>1, OneJobRetried
  <2> QED  BY <2>1, <2>2, <2>3, <2>4
<1>5. ASSUME NEW j \in JobId, RowStep(j) PROVE OneJobInv'
  <2>1. /\ record' = record /\ spent'["retries"] = spent["retries"]
        /\ \A i \in JobId : i # j => job'[i] = job[i]
        /\ job[j].phase # "none" /\ job'[j].phase # "none" /\ (Live(j)' => Live(j))
    BY <1>5, RowSteps DEF Bounds, Live, Over
  <2>2. \A i \in JobId : Live(i)' => Live(i)  BY <2>1 DEF Live
  <2> QED  BY <1>2, <2>1, <2>2
<1>6. ASSUME NEW r \in Runner, Goes(r) \/ Crash(r) PROVE OneJobInv'
  <2>1. /\ job' = job /\ spent'["retries"] = spent["retries"] /\ run[r].pc # "idle"
    BY <1>6, GoesSteps, CrashSteps DEF RowsInv, LeavesAlone, Bounds, Crash
  <2>2. record.status # "none"  BY <2>1 DEF RecordInv, Busy
  <2> QED  BY <1>2, <2>1, <2>2 DEF Live
<1>7. ASSUME NEW r \in Runner, Claim(r) PROVE OneJobInv'
  <2>1. PICK j \in JobId :
          /\ job[j].phase = "waiting" /\ job'[j].phase = "active"
          /\ \A i \in JobId : i # j => job'[i] = job[i]
    BY <1>7, ClaimSteps
  <2>2. record' = record /\ spent' = spent  BY <1>7, ClaimSteps
  <2>3. \A i \in JobId : Live(i)' => Live(i)  BY <2>1 DEF Live
  <2> QED  BY <1>2, <2>1, <2>2, <2>3
<1>8. ASSUME NEW r \in Runner, End(r) PROVE OneJobInv'
  <2>1. record' = record /\ spent' = spent  BY <1>8, EndSteps DEF RowsInv
  <2>2. \A i \in JobId : (i # run[r].job \/ ~Owns(r)) => job'[i] = job[i]
    BY <1>8, EndSteps DEF RowsInv
  <2>3. Owns(r) => /\ run[r].job \in JobId /\ job[run[r].job].phase = "active"
                   /\ job'[run[r].job].phase # "none"
    BY <1>8, EndSteps DEF RowsInv, Owns
  <2>4. \A i \in JobId : Live(i)' => Live(i)  BY <2>2, <2>3 DEF Live
  <2> QED  BY <1>2, <2>1, <2>2, <2>3, <2>4
<1> QED  BY <1>3, <1>4, <1>5, <1>6, <1>7, <1>8, Groups

LEMMA NoOrphansKept ==
  ASSUME TypeOK, RowsInv, RecordInv, NoOrphans, Next
  PROVE  NoOrphans'
<1>1. SUFFICES ASSUME spent'["faults"] = 0, NEW q \in Busy' PROVE Owns(q)'
  BY DEF NoOrphans
<1>2. spent["faults"] = 0
  <2>1. spent["faults"] \in Nat /\ spent'["faults"] >= spent["faults"]
    BY Typed, SpentGrows DEF Bounds
  <2> QED  BY <1>1, <2>1
<1>3. \A r \in Busy : /\ r \in Runner /\ Owns(r) /\ run[r].job \in JobId
                      /\ job[run[r].job].phase = "active"
                      /\ job[run[r].job].attempts = run[r].attempt
  BY <1>2 DEF NoOrphans, Owns, Busy
\* The run is as it was, and so are what the fence compares.
<1>4. ASSUME q \in Busy, run'[q].job = run[q].job, run'[q].attempt = run[q].attempt,
             job'[run[q].job].phase = "active",
             job'[run[q].job].attempts = job[run[q].job].attempts
      PROVE  Owns(q)'
  BY <1>3, <1>4 DEF Owns
<1>5. CASE Outside
  <2>1. UNCHANGED <<job, run>>  BY <1>5, OutsideSteps
  <2> QED  BY <1>1, <1>3, <1>4, <2>1 DEF Busy
<1>6. CASE NewJob
  <2>1. PICK n \in JobId : job[n].phase = "none" /\ job' = [job EXCEPT ![n] = Queued]
    BY <1>6, NewJobSteps
  <2>2. UNCHANGED run /\ q \in Busy  BY <1>1, <1>6, NewJobSteps DEF Busy
  <2>3. run[q].job # n  BY <1>3, <2>1, <2>2
  <2>4. job'[run[q].job] = job[run[q].job]  BY <1>3, <2>1, <2>2, <2>3 DEF TypeOK
  <2> QED  BY <1>3, <1>4, <2>2, <2>4
<1>7. ASSUME NEW j \in JobId, RowStep(j) PROVE Owns(q)'
  <2>1. UNCHANGED run /\ q \in Busy /\ \A i \in JobId : i # j => job'[i] = job[i]
    BY <1>1, <1>7, RowSteps DEF Busy
  <2>2. CASE run[q].job # j  BY <1>3, <1>4, <2>1, <2>2
  <2>3. CASE run[q].job = j
    <3>1. job[j].phase = "active" /\ ~(\A r \in Runner : ~(run[r].job = j /\ Owns(r)))
      BY <1>3, <2>1, <2>3
    <3>2. spent'["faults"] # spent["faults"] + 1  BY <1>1, <1>2
    <3>3. job'[j].phase = "active" /\ job'[j].attempts = job[j].attempts
      BY <1>7, <3>1, <3>2, RowSteps DEF Over
    <3> QED  BY <1>4, <2>1, <2>3, <3>3
  <2> QED  BY <2>2, <2>3
<1>8. ASSUME NEW r \in Runner, Goes(r) PROVE Owns(q)'
  <2>1. LeavesAlone(r)  BY <1>8, GoesSteps DEF RowsInv
  <2>2. /\ job' = job /\ q \in Busy
        /\ run'[q].job = run[q].job /\ run'[q].attempt = run[q].attempt
    BY <1>1, <2>1 DEF LeavesAlone, Busy
  <2> QED  BY <1>3, <1>4, <2>2
<1>9. ASSUME NEW r \in Runner, Claim(r) PROVE Owns(q)'
  <2>1. PICK j \in JobId :
          /\ job[j].phase = "waiting" /\ job'[j].phase = "active"
          /\ \A i \in JobId : i # j => job'[i] = job[i]
          /\ run'[r].job = j /\ run'[r].attempt = job'[j].attempts
    BY <1>9, ClaimSteps
  <2>2. CASE q = r  BY <2>1, <2>2 DEF Owns
  <2>3. CASE q # r
    <3>1. run'[q] = run[q] /\ q \in Busy  BY <1>1, <1>9, <2>3, ClaimSteps DEF Busy
    <3>2. run[q].job # j  BY <1>3, <2>1, <3>1
    <3> QED  BY <1>3, <1>4, <2>1, <3>1, <3>2
  <2> QED  BY <2>2, <2>3
<1>10. ASSUME NEW r \in Runner, End(r) PROVE Owns(q)'
  <2>1. /\ run[r].pc = "end" /\ run'[r].pc = "idle"
        /\ \A p \in Runner : p # r => run'[p] = run[p]
        /\ \A i \in JobId : (i # run[r].job \/ ~Owns(r)) => job'[i] = job[i]
    BY <1>10, EndSteps DEF RowsInv
  <2>2. q # r /\ q \in Busy /\ r \in Busy /\ run'[q] = run[q]  BY <1>1, <2>1 DEF Busy
  <2>3. run[q].job # run[r].job
    BY <1>3, <2>2, OneOwnerEach DEF RowsInv, Busy
  <2> QED  BY <1>3, <1>4, <2>1, <2>2, <2>3
<1>11. ASSUME NEW r \in Runner, Crash(r) PROVE FALSE
  <2>1. spent'["faults"] = spent["faults"] + 1  BY <1>11, CrashSteps
  <2> QED  BY <1>1, <1>2, <2>1
<1> QED  BY <1>5, <1>6, <1>7, <1>8, <1>9, <1>10, <1>11, Groups

\* One job, and no orphans: one run.
LEMMA LoneRun ==
  ASSUME RowsInv, OneJobInv, NoOrphans, OneJob, spent["faults"] = 0,
         NEW q \in Busy, NEW r \in Busy
  PROVE  q = r
<1>1. /\ q \in Runner /\ r \in Runner /\ run[q].pc # "idle" /\ run[r].pc # "idle"
      /\ Owns(q) /\ Owns(r)
  BY DEF NoOrphans, Busy
<1>2. run[q].job = Current /\ run[r].job = Current
  BY <1>1 DEF OneJobInv, Owns, Live
<1> QED  BY <1>1, <1>2, OneOwnerEach DEF RowsInv

LEMMA SentKept ==
  ASSUME TypeOK, RowsInv, RecordInv, OneJobInv, NoOrphans, LeaveInv, SentInv, Next
  PROVE  SentInv'
<1>1. SUFFICES ASSUME record'.status = "Sent", OneJob', spent'["faults"] = 0,
                      Mail' => spent'["switches"] = 0, NEW q \in Busy'
               PROVE  run'[q].pc \in {"load", "end"}
  BY DEF SentInv
<1>2. /\ OneJob /\ spent["faults"] = 0 /\ (Mail => spent["switches"] = 0)
      /\ spent'["replays"] = spent["replays"] /\ kind' = kind
  <2>1. /\ \A b \in Bounds : spent[b] \in Nat /\ spent'[b] \in Nat /\ spent'[b] >= spent[b]
    BY Typed, SpentGrows
  <2>2. kind' = kind
    <3>1. \A r \in Runner : RunInv(r)  BY DEF RowsInv
    <3> QED
      BY <3>1, Groups, OutsideSteps, NewJobSteps, RowSteps, GoesSteps, ClaimSteps, EndSteps, CrashSteps
         DEF LeavesAlone
  <2>3. /\ spent["retries"] \in Nat /\ spent["replays"] \in Nat /\ spent["faults"] \in Nat
        /\ spent'["retries"] >= spent["retries"] /\ spent'["replays"] >= spent["replays"]
        /\ spent'["retries"] \in Nat /\ spent'["replays"] \in Nat
        /\ spent'["faults"] >= spent["faults"] /\ spent["switches"] \in Nat
        /\ spent'["switches"] >= spent["switches"]
    BY <2>1 DEF Bounds
  <2> QED  BY <1>1, <2>2, <2>3 DEF OneJob, Mail
\* Nobody goes on, and the record says what it said.
<1>3. ASSUME record.status = "Sent", q \in Busy, run'[q] = run[q]
      PROVE  run'[q].pc \in {"load", "end"}
  BY <1>2, <1>3 DEF SentInv
<1>4. CASE Outside
  <2>1. record.status = "Sent" /\ run' = run
    BY <1>1, <1>4, OutsideSteps
  <2> QED  BY <1>1, <1>3, <2>1 DEF Busy
<1>5. CASE NewJob
  <2>1. record' = record /\ run' = run
    <3>1. spent["replays"] \in Nat  BY Typed DEF Bounds
    <3>2. spent'["replays"] # spent["replays"] + 1  BY <1>2, <3>1
    <3> QED  BY <1>1, <1>5, <3>2, NewJobSteps
  <2> QED  BY <1>1, <1>3, <2>1 DEF Busy
<1>6. ASSUME NEW j \in JobId, RowStep(j) PROVE run'[q].pc \in {"load", "end"}
  <2>1. record' = record /\ run' = run  BY <1>6, RowSteps
  <2> QED  BY <1>1, <1>3, <2>1 DEF Busy
<1>7. ASSUME NEW r \in Runner, Goes(r) PROVE run'[q].pc \in {"load", "end"}
  <2>1. LeavesAlone(r) /\ Passes(r)  BY <1>7, GoesSteps DEF RowsInv
  <2>2. q \in Busy /\ r \in Busy  BY <1>1, <2>1 DEF LeavesAlone, Busy
  <2>3. q = r  BY <1>2, <2>2, LoneRun
  <2>4. record.status = "Sent" => run[r].pc \in {"load", "end"}  BY <1>2, <2>2 DEF SentInv
  <2> QED
    BY <1>1, <2>1, <2>3, <2>4
       DEF Passes, Told, GivesUp, TurnedAway, Skips, Advances, Tries, Records
<1>8. ASSUME NEW r \in Runner, Claim(r) \/ End(r) \/ Crash(r)
      PROVE  run'[q].pc \in {"load", "end"}
  <2>1. /\ record' = record /\ run'[r].pc \in {"load", "idle"}
        /\ \A p \in Runner : p # r => run'[p] = run[p]
    BY <1>8, ClaimSteps, EndSteps, CrashSteps DEF RowsInv
  <2> QED  BY <1>1, <1>3, <2>1 DEF Busy
<1> QED  BY <1>4, <1>5, <1>6, <1>7, <1>8, Groups

-----------------------------------------------------------------------------
(* The tokens are spent, never made.                                       *)

LEMMA Tally ==
  ASSUME NEW S, IsFiniteSet(S), NEW x, NEW T \in SUBSET (S \cup {x})
  PROVE  /\ Cardinality(S) \in Nat /\ Cardinality(T) \in Nat
         /\ Cardinality(T) <= Cardinality(S) + 1
         /\ T \subseteq S => Cardinality(T) <= Cardinality(S)
         /\ (x \in S /\ x \notin T) => Cardinality(T) <= Cardinality(S) - 1
<1>1. IsFiniteSet(S \cup {x}) /\ Cardinality(S \cup {x}) \in {Cardinality(S), Cardinality(S) + 1}
  BY FS_AddElement
<1>2. /\ IsFiniteSet(T) /\ Cardinality(S) \in Nat /\ Cardinality(T) \in Nat
      /\ Cardinality(T) <= Cardinality(S \cup {x})
  BY <1>1, FS_Subset, FS_CardinalityType
<1>3. T \subseteq S => Cardinality(T) <= Cardinality(S)
  BY FS_Subset
<1>4. ASSUME x \in S, x \notin T PROVE Cardinality(T) <= Cardinality(S) - 1
  <2>1. IsFiniteSet(S \ {x}) /\ Cardinality(S \ {x}) = Cardinality(S) - 1
    BY <1>4, FS_RemoveElement
  <2>2. T \subseteq S \ {x}  BY <1>4
  <2> QED  BY <2>1, <2>2, FS_Subset
<1> QED  BY <1>1, <1>2, <1>3, <1>4

\* The tokens that are left.
Tokens == Cardinality(Hot) + (IF ToCome THEN 1 ELSE 0)

LEMMA HotFinite ==
  ASSUME RowsInv
  PROVE  /\ Sending \subseteq Hot /\ Hot \subseteq Busy
         /\ IsFiniteSet(Hot) /\ IsFiniteSet(Sending)
         /\ Cardinality(Hot) \in Nat /\ Cardinality(Sending) \in Nat
         /\ Cardinality(Sending) <= Cardinality(Hot)
<1>1. Sending \subseteq Hot /\ Hot \subseteq Busy  BY DEF Sending, Hot, Busy, Loaded
<1>2. IsFiniteSet(Busy)  BY DEF RowsInv
<1>3. IsFiniteSet(Hot)  BY <1>1, <1>2, FS_Subset
<1>4. IsFiniteSet(Sending) /\ Cardinality(Sending) <= Cardinality(Hot)  BY <1>1, <1>3, FS_Subset
<1> QED  BY <1>1, <1>3, <1>4, FS_CardinalityType

\* The same of the state a step leaves.
LEMMA HotFiniteNext ==
  ASSUME RowsInv'
  PROVE  /\ Hot' \subseteq Busy' /\ Cardinality(Hot') \in Nat
         /\ Cardinality(Sending') \in Nat /\ Tokens' \in Nat
<1>1. Sending' \subseteq Hot' /\ Hot' \subseteq Busy'  BY DEF Sending, Hot, Busy, Loaded
<1>2. IsFiniteSet(Busy')  BY DEF RowsInv
<1>3. IsFiniteSet(Hot') /\ IsFiniteSet(Sending')  BY <1>1, <1>2, FS_Subset
<1>4. Cardinality(Hot') \in Nat /\ Cardinality(Sending') \in Nat  BY <1>3, FS_CardinalityType
<1>5. Tokens' = Cardinality(Hot') + (IF ToCome' THEN 1 ELSE 0)  BY DEF Tokens
<1> HIDE DEF Hot, ToCome
<1> QED  BY <1>1, <1>4, <1>5

\* Each way the tokens of a step add up.
LEMMA TokensAddUp ==
  ASSUME RowsInv, NEW r, Hot' \subseteq Hot \cup {r}
  PROVE  /\ Tokens \in Nat /\ Tokens' \in Nat
         /\ (Hot' \subseteq Hot /\ (ToCome' => ToCome)) => Tokens' <= Tokens
         /\ Hot' \subseteq Hot => Tokens' <= Tokens + 1
         /\ (ToCome' => ToCome) => Tokens' <= Tokens + 1
         /\ (r \in Hot /\ r \notin Hot') => Tokens' <= Tokens
         /\ (r \in Hot /\ r \notin Hot' /\ (ToCome' => ToCome)) => Tokens' <= Tokens - 1
         /\ (ToCome /\ ~ToCome') => Tokens' <= Tokens
<1>1. IsFiniteSet(Hot)  BY HotFinite
<1>2. /\ Cardinality(Hot) \in Nat /\ Cardinality(Hot') \in Nat
      /\ Cardinality(Hot') <= Cardinality(Hot) + 1
      /\ Hot' \subseteq Hot => Cardinality(Hot') <= Cardinality(Hot)
      /\ (r \in Hot /\ r \notin Hot') => Cardinality(Hot') <= Cardinality(Hot) - 1
  BY <1>1, Tally
<1> HIDE DEF Hot, ToCome
<1>3. Tokens' = Cardinality(Hot') + (IF ToCome' THEN 1 ELSE 0)  BY DEF Tokens
<1>4. Tokens = Cardinality(Hot) + (IF ToCome THEN 1 ELSE 0)  BY DEF Tokens
<1> QED  BY <1>2, <1>3, <1>4

\* The fence stays where it was when the row and the run do.
LEMMA OwnsSame ==
  ASSUME NEW q \in Runner, run'[q].job = run[q].job, run'[q].attempt = run[q].attempt,
         run[q].job \in JobId => job'[run[q].job] = job[run[q].job]
  PROVE  Owns(q)' <=> Owns(q)
BY DEF Owns

\* The steps of a run of an SMTP mail that is not withdrawn.
LEMMA TokensPass ==
  ASSUME TypeOK, TypeOK', RowsInv, OneJobInv, MailInv, OneJob, kind = "smtp", leave = "on",
         record.status # "gone", NEW r \in Runner, LeavesAlone(r), Passes(r)
  PROVE  accepted' + Tokens' <= accepted + Tokens + (spent'["faults"] - spent["faults"])
<1> DEFINE Open == record.status \notin {"Sent", "Uncertain"}
           Rest == /\ job[Current].phase \notin {"done", "gone"}
                   /\ \A q \in Busy : (q # r /\ run[q].job = Current /\ Owns(q))
                                        => run[q].pc \in {"load", "end"}
           Mine == Owns(r) => run[r].pc \in {"load", "end"}
           F == spent'["faults"] - spent["faults"]
<1>1. /\ run[r].pc # "idle" /\ run'[r].pc # "idle" /\ RunInv(r) /\ r \in Busy /\ Mail
      /\ job' = job /\ kind' = kind /\ leave' = leave
      /\ \A q \in Runner : q # r => run'[q] = run[q]
      /\ run'[r].job = run[r].job /\ run'[r].attempt = run[r].attempt
  BY DEF LeavesAlone, RowsInv, Busy, Mail
<1>2. \A q \in Runner : Owns(q)' <=> Owns(q)
  BY <1>1, OwnsSame
<1>3. Current' = Current  BY DEF LeavesAlone, Bounds, Current
<1>4. Busy' = Busy  BY <1>1 DEF Busy
<1>5. Owns(r) => run[r].job = Current  BY DEF OneJobInv, Owns, Live
<1>6. ToCome <=> Open /\ Rest /\ Mine
  BY <1>1, <1>5 DEF ToCome
<1>7. ToCome' <=> Open' /\ Rest /\ Mine'
  <2>1. Rest' <=> Rest  BY <1>1, <1>2, <1>3, <1>4 DEF Busy
  <2>2. Owns(r)' => run'[r].job = Current'  BY <1>1, <1>2, <1>3, <1>5
  <2>3. ToCome' <=> Open' /\ Rest' /\ Mine'  BY <1>1, <1>4, <2>2 DEF ToCome
  <2> QED  BY <2>1, <2>3
<1>8. Mine' <=> (Owns(r) => run'[r].pc \in {"load", "end"})  BY <1>2
<1>9. (Owns(r) /\ run[r].pc = "load" /\ Open) => Rest
  <2>1. ASSUME Owns(r), Open PROVE Rest
    <3>1. job[Current].phase = "active"  BY <1>5, <2>1 DEF Owns
    <3>2. ASSUME NEW q \in Busy, q # r, run[q].job = Current, Owns(q) PROVE FALSE
      BY <1>1, <1>5, <2>1, <3>2, OneOwnerEach DEF RowsInv, Busy
    <3> QED  BY <3>1, <3>2
  <2> QED  BY <2>1
<1>10. /\ \A q \in Runner : q # r => (q \in Hot' <=> q \in Hot)
       /\ r \in Hot <=> Loaded(r) \/ (run[r].pc = "load" /\ ~Owns(r))
       /\ r \in Hot' <=> Loaded(r)' \/ (run'[r].pc = "load" /\ ~Owns(r))
       /\ Hot \subseteq Runner /\ Hot' \subseteq Runner
  BY <1>1, <1>2 DEF Hot, Loaded
<1>11. Hot' \subseteq Hot \cup {r} /\ ((r \in Hot' => r \in Hot) => Hot' \subseteq Hot)
  BY <1>10
<1>12. /\ Tokens \in Nat /\ Tokens' \in Nat /\ accepted \in Nat /\ accepted' \in Nat
       /\ F \in Int /\ F >= 0
  <2>1. /\ spent["faults"] \in Nat /\ spent'["faults"] \in Nat
        /\ spent'["faults"] >= spent["faults"]
    BY DEF TypeOK, Bounds, LeavesAlone
  <2>2. accepted \in Nat /\ accepted' \in Nat  BY DEF TypeOK
  <2> QED  BY <1>11, <2>1, <2>2, TokensAddUp
<1>13. /\ (Hot' \subseteq Hot /\ (ToCome' => ToCome)) => Tokens' <= Tokens
       /\ Hot' \subseteq Hot => Tokens' <= Tokens + 1
       /\ (r \in Hot /\ r \notin Hot') => Tokens' <= Tokens
       /\ (r \in Hot /\ r \notin Hot' /\ (ToCome' => ToCome)) => Tokens' <= Tokens - 1
       /\ (ToCome /\ ~ToCome') => Tokens' <= Tokens
  BY <1>11, TokensAddUp
<1>14. spent' = spent => F = 0
  <2>1. spent["faults"] \in Nat  BY Typed DEF Bounds
  <2> QED  BY <2>1
<1>15. ~(~Mail) /\ kind # "method"  BY <1>1
<1>16. run[r].pc # "weigh" /\ (run[r].pc = "record" => run[r].note \in Final)
  BY <1>1 DEF MailInv
<1> HIDE DEF Rest, Hot, ToCome, Tokens
<1>17. CASE Told(r)
  <2>1. Hot' \subseteq Hot  BY <1>10, <1>11, <1>17 DEF Told, Loaded
  <2>2. ToCome' => ToCome  BY <1>6, <1>7, <1>8, <1>17 DEF Told
  <2> QED  BY <1>12, <1>13, <1>17, <2>1, <2>2 DEF Told
<1>18. CASE GivesUp(r)
  <2>1. r \notin Hot' /\ Hot' \subseteq Hot /\ accepted' = accepted
    BY <1>10, <1>11, <1>15, <1>18 DEF GivesUp, Loaded
  <2>2. run[r].pc = "check" => r \in Hot  BY <1>10 DEF Loaded
  <2>3. run[r].pc = "load" => (ToCome' => ToCome)
    BY <1>6, <1>7, <1>8, <1>18 DEF GivesUp
  <2> QED  BY <1>12, <1>13, <1>15, <1>16, <1>18, <2>1, <2>2, <2>3 DEF GivesUp
<1>19. CASE Skips(r)
  <2>1. Hot' \subseteq Hot  BY <1>10, <1>11, <1>19 DEF Skips, Loaded
  <2>2. ~ToCome'  BY <1>1, <1>7, <1>19 DEF Skips
  <2> QED  BY <1>12, <1>13, <1>19, <2>1, <2>2 DEF Skips
<1>20. CASE Advances(r) /\ run[r].pc = "load"
  <2>1. run'[r].pc = "check" /\ Open /\ Open' /\ accepted' = accepted
    BY <1>15, <1>20 DEF Advances
  <2>2. CASE Owns(r)
    <3>1. ToCome  BY <1>6, <1>9, <1>20, <2>1, <2>2
    <3>2. ~ToCome'  BY <1>7, <1>8, <2>1, <2>2
    <3> QED  BY <1>12, <1>13, <2>1, <3>1, <3>2
  <2>3. CASE ~Owns(r)
    <3>1. r \in Hot  BY <1>10, <1>20, <2>3
    <3>2. Hot' \subseteq Hot  BY <1>11, <3>1
    <3>3. ToCome' => ToCome  BY <1>6, <1>7, <2>1, <2>3
    <3> QED  BY <1>12, <1>13, <2>1, <3>2, <3>3
  <2> QED  BY <2>2, <2>3
<1>21. CASE Advances(r) /\ run[r].pc # "load"
  <2>1. /\ run[r].pc = "check" /\ run'[r].pc = "send" /\ accepted' = accepted
        /\ record'.status = record.status
    BY <1>16, <1>21 DEF Advances
  <2>2. Hot' \subseteq Hot  BY <1>10, <1>11, <2>1 DEF Loaded
  <2>3. ToCome' => ToCome  BY <1>6, <1>7, <1>8, <2>1
  <2> QED  BY <1>12, <1>13, <2>1, <2>2, <2>3
<1>22. CASE Tries(r)
  <2>1. /\ run[r].pc = "send" /\ run'[r].pc = "record" /\ record' = record
        /\ \/ run'[r].note \in {"Sent", "Uncertain"} /\ accepted' \in {accepted, accepted + 1}
           \/ run'[r].note = "Failed" /\ accepted' = accepted
    BY <1>15, <1>22 DEF Tries
  <2>2. r \in Hot  BY <1>10, <2>1 DEF Loaded
  <2>3. ToCome' => ToCome  BY <1>6, <1>7, <1>8, <2>1
  <2>4. run'[r].note \in {"Sent", "Uncertain"} => r \notin Hot'  BY <1>10, <2>1 DEF Loaded
  <2>5. Hot' \subseteq Hot  BY <1>11, <2>2
  <2> QED  BY <1>12, <1>13, <2>1, <2>2, <2>3, <2>4, <2>5
<1>23. CASE Records(r)
  <2>1. /\ run[r].pc = "record" /\ run'[r].pc = "end" /\ accepted' = accepted
        /\ run[r].note \in {"Sent", "Failed", "Uncertain"}
    BY <1>16, <1>23 DEF Records, Final
  <2>2. r \notin Hot' /\ Hot' \subseteq Hot  BY <1>10, <1>11, <2>1 DEF Loaded
  <2>3. CASE run[r].note = "Failed"
    <3>1. r \in Hot  BY <1>10, <2>1, <2>3 DEF Loaded
    <3> QED  BY <1>12, <1>13, <2>1, <2>2, <3>1
  <2>4. CASE run[r].note # "Failed" /\ spent' = spent
    <3>1. spent'["faults"] # spent["faults"] + 1
      <4>1. spent["faults"] \in Nat  BY Typed DEF Bounds
      <4> QED  BY <2>4, <4>1
    <3>2. record'.status \in {"Sent", "Uncertain"}  BY <1>23, <2>1, <2>4, <3>1 DEF Records
    <3>3. ~ToCome'  BY <1>7, <3>2
    <3> QED  BY <1>12, <1>13, <2>1, <2>2, <3>3
  <2>5. CASE spent'["faults"] = spent["faults"] + 1
    <3>1. F = 1
      <4>1. spent["faults"] \in Nat  BY Typed DEF Bounds
      <4> QED  BY <2>5, <4>1
    <3> QED  BY <1>12, <1>13, <2>1, <2>2, <3>1
  <2> QED  BY <1>23, <2>3, <2>4, <2>5 DEF Records
<1> QED  BY <1>15, <1>17, <1>18, <1>19, <1>20, <1>21, <1>22, <1>23 DEF Passes, TurnedAway

\* The steps of the queue around it.
LEMMA TokensRow ==
  ASSUME TypeOK, TypeOK', RowsInv, OneJobInv, OneJob, NEW j \in JobId, RowStep(j)
  PROVE  Tokens' <= Tokens + (spent'["faults"] - spent["faults"])
<1>1. /\ run' = run /\ record' = record /\ spent'["retries"] = spent["retries"]
      /\ spent'["faults"] >= spent["faults"]
      /\ \A i \in JobId : i # j => job'[i] = job[i]
      /\ job'[j].attempts = job[j].attempts
  BY RowSteps DEF Bounds
<1>2. spent["faults"] \in Nat /\ spent'["faults"] \in Nat  BY DEF TypeOK, Bounds
<1>3. Busy' = Busy /\ Current' = Current  BY <1>1 DEF Busy, Current
<1>4. \A q \in Runner : (run[q].job # j) => (Owns(q)' <=> Owns(q))
  BY <1>1, OwnsSame
<1>5. job[j].phase \in Over => job'[j].phase = "gone"
  BY RowSteps DEF Live, Over
<1> Current \in JobId  BY DEF OneJobInv
\* Whoever does not lose the job keeps its token.
<1>6. ASSUME \A q \in Busy : Owns(q)' <=> Owns(q)
      PROVE  Hot' = Hot /\ (ToCome' => ToCome)
  <2>1. Hot' = Hot  BY <1>1, <1>6 DEF Hot, Loaded, Busy
  <2>2. job'[Current].phase \notin {"done", "gone"} => job[Current].phase \notin {"done", "gone"}
    <3>1. job[j].phase # "gone"  BY RowSteps DEF Live, Over
    <3> QED  BY <1>1, <1>5, <3>1 DEF Over
  <2> QED  BY <1>1, <1>3, <1>6, <2>1, <2>2 DEF ToCome
<1>7. CASE \A q \in Busy : Owns(q)' <=> Owns(q)
  <2>1. Tokens' = Cardinality(Hot) + (IF ToCome' THEN 1 ELSE 0)  BY <1>6, <1>7 DEF Tokens
  <2>2. Cardinality(Hot) \in Nat  BY HotFinite
  <2> QED  BY <1>1, <1>2, <1>6, <1>7, <2>1, <2>2 DEF Tokens
<1>8. ASSUME NEW r \in Busy, ~(Owns(r)' <=> Owns(r))
      PROVE  Tokens' <= Tokens + (spent'["faults"] - spent["faults"])
  <2>1. run[r].job = j /\ r \in Runner /\ run[r].pc # "idle"  BY <1>4, <1>8 DEF Busy
  <2>2. job[j].phase = "active" /\ job'[j].phase # "active" /\ Owns(r) /\ ~Owns(r)'
    <3>1. job[j].phase # job'[j].phase /\ "active" \in {job[j].phase, job'[j].phase}
      BY <1>1, <1>8, <2>1 DEF Owns
    <3>2. job'[j].phase = "active" => job[j].phase = "active"
      BY RowSteps DEF Live, Over
    <3> QED  BY <1>1, <1>8, <2>1, <3>1, <3>2 DEF Owns
  <2>3. spent'["faults"] = spent["faults"] + 1
    <3>1. job'[j].phase # (IF job[j].phase = "waiting" THEN "cancelled" ELSE "active")
      BY <2>2
    <3> QED  BY <2>1, <2>2, <3>1, RowSteps DEF Over
  <2>4. ASSUME NEW q \in Busy, run[q].job = j, Owns(q) PROVE q = r
    BY <2>1, <2>2, <2>4, OneOwnerEach DEF RowsInv, Busy
  <2>5. j = Current  BY <2>2 DEF OneJobInv, Live
  <2>6. Hot' \subseteq Hot \cup {r} /\ (run[r].pc # "load" => Hot' \subseteq Hot)
    <3>1. ASSUME NEW q \in Hot', q \notin Hot PROVE q = r /\ run[r].pc = "load"
      <4>1. q \in Runner /\ (Loaded(q) \/ (run[q].pc = "load" /\ ~Owns(q)'))
        BY <1>1, <3>1 DEF Hot, Loaded
      <4>2. run[q].pc = "load" /\ ~Owns(q)' /\ Owns(q)  BY <3>1, <4>1 DEF Hot
      <4>3. q \in Busy /\ run[q].job = j  BY <1>4, <4>1, <4>2 DEF Busy
      <4> QED  BY <2>4, <4>2, <4>3
    <3> QED  BY <3>1
  <2>7. CASE run[r].pc = "load"
    <3>1. \A q \in Busy : (run[q].job = Current /\ Owns(q)) => run[q].pc = "load"
      BY <2>4, <2>5, <2>7
    <3>2. ToCome' => ToCome
      BY <1>1, <2>2, <2>5, <3>1 DEF ToCome
    <3> HIDE DEF ToCome
    <3> QED  BY <1>2, <2>3, <2>6, <3>2, TokensAddUp
  <2>8. CASE run[r].pc # "load"
    BY <1>2, <2>3, <2>6, <2>8, TokensAddUp
  <2> QED  BY <2>7, <2>8
<1> QED  BY <1>7, <1>8

\* A run that begins finds the token with its job.
LEMMA TokensClaim ==
  ASSUME TypeOK, RowsInv, OneJobInv, OneJob, NEW r \in Runner, Claim(r)
  PROVE  Tokens' <= Tokens
<1>1. PICK j \in JobId :
        /\ job[j].phase = "waiting" /\ job'[j].phase = "active"
        /\ job'[j].attempts = job[j].attempts + 1
        /\ \A i \in JobId : i # j => job'[i] = job[i]
        /\ run'[r].job = j /\ run'[r].attempt = job'[j].attempts
  BY ClaimSteps
<1>2. /\ run[r].pc = "idle" /\ run'[r].pc = "load" /\ record' = record /\ spent' = spent
      /\ \A q \in Runner : q # r => run'[q] = run[q]
  BY ClaimSteps
<1>3. j = Current /\ Current' = Current  BY <1>1, <1>2 DEF OneJobInv, Live, Current
<1>4. Owns(r)'  BY <1>1 DEF Owns
<1>5. ASSUME NEW q \in Busy PROVE q # r /\ run'[q] = run[q] /\ (Owns(q)' <=> Owns(q))
  <2>1. q \in Runner /\ q # r /\ run'[q] = run[q] /\ RunInv(q) /\ run[q].pc # "idle"
    BY <1>2 DEF Busy, RowsInv
  <2>2. CASE run[q].job = j
    <3>1. run[q].attempt \in Nat /\ job[j].attempts \in Nat  BY <2>1, Typed
    <3>2. run[q].attempt # job'[j].attempts  BY <1>1, <2>1, <2>2, <3>1 DEF RunInv
    <3> QED  BY <1>1, <2>1, <2>2, <3>2 DEF Owns
  <2>3. CASE run[q].job # j  BY <1>1, <2>1, <2>3, OwnsSame
  <2> QED  BY <2>1, <2>2, <2>3
<1>6. Hot' \subseteq Hot
  <2>1. ASSUME NEW q \in Hot' PROVE q \in Hot
    <3>1. q # r  BY <1>2, <1>4 DEF Hot, Loaded
    <3>2. q \in Busy  BY <1>2, <3>1 DEF Hot, Loaded, Busy
    <3> QED  BY <1>5, <3>2 DEF Hot, Loaded, Busy
  <2> QED  BY <2>1
<1>7. ToCome' => ToCome
  <2>1. ASSUME NEW q \in Busy, run[q].job = Current, Owns(q) PROVE FALSE
    BY <1>1, <1>3, <2>1 DEF Owns
  <2> QED  BY <1>1, <1>2, <1>3, <2>1 DEF ToCome
<1> HIDE DEF ToCome
<1> QED  BY <1>6, <1>7, TokensAddUp

\* The token of a run that ends goes back to its job, and no further.
LEMMA TokensEnd ==
  ASSUME TypeOK, RowsInv, OneJobInv, OneJob, NEW r \in Runner, End(r)
  PROVE  Tokens' <= Tokens
<1>1. /\ run[r].pc = "end" /\ run'[r].pc = "idle" /\ record' = record /\ spent' = spent
      /\ \A q \in Runner : q # r => run'[q] = run[q]
      /\ \A i \in JobId : (i # run[r].job \/ ~Owns(r)) => job'[i] = job[i]
  BY EndSteps DEF RowsInv
<1>2. Current' = Current /\ Current \in JobId  BY <1>1 DEF Current, OneJobInv
<1>3. r \in Busy /\ Busy' = Busy \ {r}  BY <1>1, RowsLeave DEF Busy
<1>4. Owns(r) => /\ run[r].job = Current /\ job[Current].phase = "active"
                 /\ job'[Current].phase # "active"
  <2>1. ASSUME Owns(r) PROVE run[r].job = Current /\ job[Current].phase = "active"
    BY <2>1 DEF OneJobInv, Owns, Live
  <2>2. Owns(r) => job'[run[r].job].phase # "active"  BY EndSteps DEF RowsInv
  <2> QED  BY <2>1, <2>2
<1>5. ASSUME NEW q \in Busy, q # r
      PROVE  run'[q] = run[q] /\ (Owns(q)' <=> Owns(q)) /\ (Owns(r) => ~(run[q].job = Current /\ Owns(q)))
  <2>1. q \in Runner /\ run'[q] = run[q] /\ run[q].pc # "idle"  BY <1>1, <1>5 DEF Busy
  <2>2. CASE Owns(r) /\ run[q].job = run[r].job
    <3>1. ~Owns(q)  BY <1>1, <1>5, <2>1, <2>2, OneOwnerEach DEF RowsInv
    <3>2. ~Owns(q)'  BY <1>4, <2>1, <2>2 DEF Owns
    <3> QED  BY <2>1, <3>1, <3>2
  <2>3. CASE ~(Owns(r) /\ run[q].job = run[r].job)
    BY <1>1, <1>4, <2>1, <2>3, OwnsSame
  <2> QED  BY <2>2, <2>3
<1>6. Hot' \subseteq Hot
  <2>1. ASSUME NEW q \in Hot' PROVE q \in Hot
    <3>1. q # r  BY <1>1 DEF Hot, Loaded
    <3>2. q \in Busy  BY <1>1, <3>1 DEF Hot, Loaded, Busy
    <3> QED  BY <1>5, <3>1, <3>2 DEF Hot, Loaded, Busy
  <2> QED  BY <2>1
<1>7. ToCome' => ToCome
  <2>1. ASSUME ToCome', NEW q \in Busy, run[q].job = Current, Owns(q)
        PROVE  run[q].pc \in {"load", "end"}
    <3>1. CASE q = r  BY <1>1, <3>1
    <3>2. CASE q # r
      <4>1. q \in Busy' /\ run'[q] = run[q] /\ Owns(q)'  BY <1>3, <1>5, <2>1, <3>2
      <4> QED  BY <1>2, <2>1, <4>1 DEF ToCome
    <3> QED  BY <3>1, <3>2
  <2>2. ToCome' => job[Current].phase \notin {"done", "gone"}
    <3>1. CASE Owns(r)  BY <1>4, <3>1
    <3>2. CASE ~Owns(r)  BY <1>1, <1>2, <3>2 DEF ToCome
    <3> QED  BY <3>1, <3>2
  <2>3. ToCome' => record.status \notin {"Sent", "Uncertain"}  BY <1>1 DEF ToCome
  <2> QED  BY <2>1, <2>2, <2>3 DEF ToCome
<1> HIDE DEF ToCome
<1> QED  BY <1>6, <1>7, TokensAddUp

\* Withdrawn, what is on its way to the relay only becomes less.
LEMMA SendingPass ==
  ASSUME TypeOK, TypeOK', RowsInv, kind = "smtp", leave # "on",
         NEW r \in Runner, LeavesAlone(r), Passes(r)
  PROVE  accepted' + Cardinality(Sending') <= accepted + Cardinality(Sending)
<1>1. accepted \in Nat /\ accepted' \in Nat /\ Cardinality(Sending) \in Nat /\ IsFiniteSet(Sending)
  BY HotFinite DEF TypeOK
<1>2. run'[r].pc = "send" => run[r].pc = "send" /\ accepted' = accepted
  BY DEF Passes, Told, GivesUp, TurnedAway, Skips, Advances, Tries, Records
<1>3. accepted' = accepted \/ (accepted' = accepted + 1 /\ run[r].pc = "send" /\ run'[r].pc # "send")
  BY DEF Passes, Told, GivesUp, TurnedAway, Skips, Advances, Tries, Records
<1>4. Sending' \subseteq Sending  BY <1>2 DEF Sending, LeavesAlone
<1>5. Sending' \in SUBSET (Sending \cup {r})  BY <1>4
<1>6. /\ Cardinality(Sending') \in Nat /\ Cardinality(Sending') <= Cardinality(Sending)
      /\ (r \in Sending /\ r \notin Sending') => Cardinality(Sending') <= Cardinality(Sending) - 1
  BY <1>1, <1>4, <1>5, Tally
<1>7. (run[r].pc = "send" /\ run'[r].pc # "send") => (r \in Sending /\ r \notin Sending')
  BY DEF Sending
<1> QED  BY <1>1, <1>3, <1>6, <1>7

LEMMA BudgetKept ==
  ASSUME TypeOK, RowsInv, RecordInv, OneJobInv, LeaveInv, MailInv, BudgetInv, Next
  PROVE  BudgetInv'
<1>1. SUFFICES ASSUME OneCopy'
               PROVE  /\ leave' = "on" <=> spent'["switches"] = 0
                      /\ leave' = "on" => accepted' + Tokens' <= 1 + spent'["faults"]
                      /\ leave' # "on" => accepted' + Cardinality(Sending') <= 1 + spent'["faults"]
  <2>1. Tokens' = Cardinality(Hot') + (IF ToCome' THEN 1 ELSE 0)  BY DEF Tokens
  <2>2. Cardinality(Hot') \in Nat /\ accepted' \in Nat
    BY RowsKept, HotFiniteNext DEF TypeOK
  <2> HIDE DEF ToCome, Hot
  <2> QED  BY <1>1, <2>1, <2>2 DEF BudgetInv
<1>2. TypeOK' /\ RowsInv'  BY RowsKept
<1>3. /\ spent["faults"] \in Nat /\ spent'["faults"] \in Nat /\ spent'["faults"] >= spent["faults"]
      /\ spent["switches"] \in Nat /\ spent'["switches"] \in Nat
      /\ spent'["switches"] >= spent["switches"]
      /\ spent["retries"] \in Nat /\ spent'["retries"] \in Nat
      /\ spent'["retries"] >= spent["retries"]
      /\ accepted \in Nat /\ accepted' \in Nat
  BY <1>2, Typed, SpentGrows DEF Bounds, TypeOK
<1>4. kind' = kind
  <2>1. \A r \in Runner : RunInv(r)  BY DEF RowsInv
  <2> QED
    BY <2>1, Groups, OutsideSteps, NewJobSteps, RowSteps, GoesSteps, ClaimSteps, EndSteps, CrashSteps
       DEF LeavesAlone
<1>5. /\ OneCopy /\ kind = "smtp" /\ Mail /\ OneJob /\ record.status # "gone"
      /\ spent'["switches"] <= 1 /\ spent'["retries"] <= 1
  BY <1>1, <1>3, <1>4 DEF OneCopy, Mail, OneJob, RecordInv
<1>6. /\ Cardinality(Hot) \in Nat /\ Cardinality(Sending) \in Nat
      /\ Cardinality(Sending) <= Cardinality(Hot) /\ Tokens \in Nat
      /\ Tokens' \in Nat /\ Cardinality(Sending') \in Nat
  <2>1. Cardinality(Hot) \in Nat /\ Tokens = Cardinality(Hot) + (IF ToCome THEN 1 ELSE 0)
    BY HotFinite DEF Tokens
  <2> HIDE DEF Hot, ToCome, Sending
  <2> QED  BY <1>2, <2>1, HotFinite, HotFiniteNext
<1>7. /\ leave = "on" <=> spent["switches"] = 0
      /\ leave = "on" => accepted + Tokens <= 1 + spent["faults"]
      /\ leave # "on" => accepted + Cardinality(Sending) <= 1 + spent["faults"]
  <2>1. Tokens = Cardinality(Hot) + (IF ToCome THEN 1 ELSE 0)  BY DEF Tokens
  <2> HIDE DEF ToCome
  <2> QED  BY <1>3, <1>5, <1>6, <2>1 DEF BudgetInv
\* A step that leaves the switch alone.
<1>8. ASSUME leave' = leave, spent'["switches"] = spent["switches"],
             leave = "on" =>
               accepted' + Tokens' <= accepted + Tokens + (spent'["faults"] - spent["faults"]),
             leave # "on" => accepted' + Cardinality(Sending') <= accepted + Cardinality(Sending)
      PROVE  /\ leave' = "on" <=> spent'["switches"] = 0
             /\ leave' = "on" => accepted' + Tokens' <= 1 + spent'["faults"]
             /\ leave' # "on" => accepted' + Cardinality(Sending') <= 1 + spent'["faults"]
  BY <1>3, <1>6, <1>7, <1>8
<1>9. CASE Outside
  <2>1. ~SweepDeliveries  BY <1>5 DEF SweepDeliveries
  <2>2. Spend("switches")  BY <1>9, <2>1 DEF Outside, Allow, Withdraw
  <2>3. spent'["switches"] = spent["switches"] + 1  BY <2>2, SpendOne DEF TypeOK, Bounds
  <2>4. spent["switches"] = 0 /\ leave = "on"  BY <1>3, <1>5, <1>7, <2>3
  <2>5. leave' # "on"  BY <1>9, <2>1, <2>4 DEF Outside, Allow, Withdraw
  <2>6. accepted' = accepted /\ run' = run  BY <1>9, OutsideSteps
  <2>7. Sending' = Sending  BY <2>6 DEF Sending
  <2>8. Cardinality(Hot) <= Tokens  BY <1>6 DEF Tokens
  <2> QED  BY <1>3, <1>6, <1>7, <2>3, <2>4, <2>5, <2>6, <2>7, <2>8
<1>10. CASE NewJob
  <2>1. /\ run' = run /\ leave' = leave /\ accepted' = accepted
        /\ spent'["switches"] = spent["switches"] /\ spent'["faults"] = spent["faults"]
    BY <1>10, NewJobSteps DEF Bounds
  <2>2. Sending' = Sending /\ Busy' = Busy  BY <2>1 DEF Sending, Busy
  <2>3. PICK n \in JobId :
          /\ job[n].phase = "none" /\ \A i \in 1..(n - 1) : job[i].phase # "none"
          /\ job' = [job EXCEPT ![n] = Queued]
          /\ \/ record.status = "none" /\ spent' = spent /\ n = 1
             \/ /\ \E j \in JobId : job[j].phase \in {"failed", "cancelled"}
                /\ spent'["retries"] = spent["retries"] + 1
                /\ spent'["replays"] = spent["replays"]
                /\ record' = record
    BY <1>5, <1>10, NewJobSteps DEF Bounds
  <2>4. CASE record.status = "none" /\ spent' = spent /\ n = 1
    <3>1. Busy = {} /\ spent["retries"] = 0 /\ job[n].phase = "none"
      BY <2>3, <2>4 DEF RecordInv
    <3>2. ToCome  BY <2>4, <3>1 DEF ToCome, Current
    <3>3. Hot = {} /\ Hot' = {}  BY <1>2, <2>2, <3>1, HotFinite, HotFiniteNext
    <3>4. Tokens = Cardinality({}) + 1 /\ Tokens' <= Cardinality({}) + 1
      <4>1. Cardinality({}) \in Nat  BY <1>6, <3>3
      <4>2. Tokens' = Cardinality({}) + (IF ToCome' THEN 1 ELSE 0)  BY <3>3 DEF Tokens
      <4> HIDE DEF ToCome
      <4> QED  BY <3>2, <3>3, <4>1, <4>2 DEF Tokens
    <3> QED  BY <1>3, <1>6, <1>8, <2>1, <2>2, <3>4
  <2>5. CASE /\ \E j \in JobId : job[j].phase \in {"failed", "cancelled"}
             /\ spent'["retries"] = spent["retries"] + 1
             /\ spent'["replays"] = spent["replays"]
             /\ record' = record
    <3>1. PICK k \in JobId : job[k].phase \in {"failed", "cancelled"}  BY <2>5
    <3>2. OneJob'  BY <1>5, <2>5 DEF OneJob
    <3>3. n = 2 /\ Current = 1 /\ k = 1
      BY <2>3, <2>5, <3>1, <3>2, OneJobRetried
    <3>4. ASSUME NEW q \in Busy PROVE Owns(q)' <=> Owns(q)
      <4>1. q \in Runner /\ run[q].job \in JobId /\ job[run[q].job].phase # "none"
        BY DEF Busy, RowsInv, RunInv
      <4>2. job'[run[q].job] = job[run[q].job]  BY <2>3, <4>1 DEF TypeOK
      <4> QED  BY <2>1, <4>1, <4>2, OwnsSame
    <3>5. Hot' = Hot  BY <2>1, <2>2, <3>4 DEF Hot, Loaded, Busy
    <3>6. ToCome' => ToCome
      <4>1. ASSUME NEW q \in Busy, run[q].job = Current, Owns(q) PROVE FALSE
        BY <3>1, <3>3, <4>1 DEF Owns
      <4> QED  BY <2>5, <3>1, <3>3, <4>1 DEF ToCome
    <3>7. Tokens' <= Tokens
      <4>1. Tokens' = Cardinality(Hot) + (IF ToCome' THEN 1 ELSE 0)  BY <3>5 DEF Tokens
      <4> HIDE DEF ToCome
      <4> QED  BY <1>6, <3>6, <4>1 DEF Tokens
    <3> QED  BY <1>3, <1>6, <1>8, <2>1, <2>2, <3>7
  <2> QED  BY <2>3, <2>4, <2>5
<1>11. ASSUME NEW j \in JobId, RowStep(j) PROVE
             /\ leave' = "on" <=> spent'["switches"] = 0
             /\ leave' = "on" => accepted' + Tokens' <= 1 + spent'["faults"]
             /\ leave' # "on" => accepted' + Cardinality(Sending') <= 1 + spent'["faults"]
  <2>1. /\ run' = run /\ leave' = leave /\ accepted' = accepted
        /\ spent'["switches"] = spent["switches"]
    BY <1>11, RowSteps DEF Bounds
  <2>2. Sending' = Sending  BY <2>1 DEF Sending
  <2>3. Tokens' <= Tokens + (spent'["faults"] - spent["faults"])
    BY <1>2, <1>5, <1>11, TokensRow
  <2> QED  BY <1>3, <1>6, <1>8, <2>1, <2>2, <2>3
<1>12. ASSUME NEW r \in Runner, Goes(r) PROVE
             /\ leave' = "on" <=> spent'["switches"] = 0
             /\ leave' = "on" => accepted' + Tokens' <= 1 + spent'["faults"]
             /\ leave' # "on" => accepted' + Cardinality(Sending') <= 1 + spent'["faults"]
  <2>1. LeavesAlone(r) /\ Passes(r)  BY <1>12, GoesSteps DEF RowsInv
  <2>2. leave' = leave /\ spent'["switches"] = spent["switches"]  BY <2>1 DEF LeavesAlone, Bounds
  <2> QED  BY <1>2, <1>5, <1>8, <2>1, <2>2, TokensPass, SendingPass
<1>13. ASSUME NEW r \in Runner, Claim(r) \/ End(r) \/ Crash(r) PROVE
             /\ leave' = "on" <=> spent'["switches"] = 0
             /\ leave' = "on" => accepted' + Tokens' <= 1 + spent'["faults"]
             /\ leave' # "on" => accepted' + Cardinality(Sending') <= 1 + spent'["faults"]
  <2>1. /\ leave' = leave /\ accepted' = accepted /\ spent'["switches"] = spent["switches"]
        /\ run'[r].pc \in {"load", "idle"} /\ \A q \in Runner : q # r => run'[q] = run[q]
    BY <1>13, ClaimSteps, EndSteps, CrashSteps DEF RowsInv, Bounds
  <2>2. Sending' \subseteq Sending  BY <2>1 DEF Sending
  <2>3. Cardinality(Sending') <= Cardinality(Sending)  BY <2>2, HotFinite, FS_Subset
  <2>4. Tokens' <= Tokens + (spent'["faults"] - spent["faults"])
    <3>1. CASE Claim(r) \/ End(r)
      <4>1. Tokens' <= Tokens  BY <1>5, <3>1, TokensClaim, TokensEnd
      <4> QED  BY <1>3, <1>6, <4>1
    <3>2. CASE Crash(r)
      <4>1. /\ job' = job /\ run'[r].pc = "idle" /\ spent'["faults"] = spent["faults"] + 1
        BY <3>2, CrashSteps
      <4>2. \A q \in Runner : q # r => (Owns(q)' <=> Owns(q))  BY <2>1, <4>1, OwnsSame
      <4>3. Hot' \subseteq Hot  BY <2>1, <4>1, <4>2 DEF Hot, Loaded
      <4>4. Tokens' <= Tokens + 1  BY <4>3, TokensAddUp
      <4> QED  BY <1>3, <1>6, <4>1, <4>4
    <3> QED  BY <1>13, <3>1, <3>2
  <2> QED  BY <1>3, <1>6, <1>8, <2>1, <2>3, <2>4
<1> QED  BY <1>9, <1>10, <1>11, <1>12, <1>13, Groups

-----------------------------------------------------------------------------
(* Undisturbed, the record and its job agree.                              *)

\* The runs and jobs of a step that changes neither.
LEMMA QuietSame ==
  ASSUME QuietQueue, \A r \in Runner : QuietRun(r), UNCHANGED <<kind, job, run>>,
         record'.job = record.job
  PROVE  /\ QuietQueue' /\ (\A r \in Runner : QuietRun(r)') /\ Busy' = Busy
         /\ \A r \in Busy : Settling(r)' <=> Settling(r)
<1>1. Busy' = Busy  BY DEF Busy
<1>2. \A r \in Runner : (Settling(r)' <=> Settling(r)) /\ (Owns(r)' <=> Owns(r))
  BY DEF Settling, Owns
<1>3. QuietQueue'  BY <1>1, <1>2 DEF QuietQueue, Busy
<1>4. \A r \in Runner : QuietRun(r)'  BY DEF QuietRun, Mail
<1> QED  BY <1>1, <1>2, <1>3, <1>4 DEF Busy

\* A run that has not come to its end carries the record's job, and of a
\* webhook the record has not come to one either.
LEMMA QuietCarrier ==
  ASSUME RowsInv, QuietQueue, QuietRecord, NEW r \in Busy, run[r].pc # "end"
  PROVE  /\ run[r].job = record.job /\ record.job \in JobId /\ Owns(r)
         /\ job[record.job].phase = "active"
         /\ ~Mail => record.status \notin {"Sent", "Failed", "gone"}
<1>1. ~Settling(r)  BY DEF Settling
<1>2. run[r].job = record.job /\ Owns(r)  BY <1>1 DEF QuietQueue
<1> QED  BY <1>1, <1>2 DEF QuietRecord, Owns

LEMMA QuietPass ==
  ASSUME TypeOK, RowsInv, MailInv, RecordInv, QuietQueue, QuietRecord,
         \A q \in Runner : QuietRun(q), NEW r \in Runner, LeavesAlone(r), Passes(r),
         \A b \in {"faults", "stops", "timeouts", "throws"} : spent[b] = 0 /\ spent'[b] = 0
  PROVE  QuietQueue' /\ QuietRecord' /\ \A q \in Runner : QuietRun(q)'
<1>1. /\ job' = job /\ kind' = kind /\ record'.job = record.job
      /\ \A q \in Runner : q # r => run'[q] = run[q]
      /\ run'[r].job = run[r].job /\ run'[r].attempt = run[r].attempt
      /\ r \in Busy /\ Busy' = Busy
  BY DEF LeavesAlone, Busy
<1>2. run[r].stop = "no" /\ Owns(r) /\ run[r].job \in JobId /\ ~job[run[r].job].asked
  BY <1>1 DEF QuietQueue, Owns
<1>3. ~Told(r) /\ ~GivesUp(r)
  BY <1>2 DEF Told, GivesUp
<1>4. spent'["faults"] # spent["faults"] + 1  OBVIOUS
<1>5. run[r].pc # "end" /\ run'[r].stop = "no"
  BY <1>2, <1>3 DEF Passes, TurnedAway, Skips, Advances, Tries, Records, LeavesAlone
<1>6. /\ run[r].job = record.job /\ job[record.job].phase = "active" /\ record.job \in JobId
      /\ ~Mail => record.status \notin {"Sent", "Failed", "gone"}
  BY <1>1, <1>5, QuietCarrier
<1>7. ASSUME NEW q \in Busy, q # r
      PROVE  /\ run'[q] = run[q] /\ (Owns(q)' <=> Owns(q)) /\ (Settling(q)' <=> Settling(q))
             /\ run[q].job # record.job
  <2>1. q \in Runner /\ run[q].pc # "idle" /\ Owns(q) /\ run[r].pc # "idle"
    BY <1>1 DEF Busy, QuietQueue
  <2>2. run[q].job # run[r].job  BY <1>2, <1>7, <2>1, OneOwnerEach DEF RowsInv
  <2> QED  BY <1>1, <1>6, <1>7, <2>1, <2>2 DEF Owns, Settling
<1>8. Owns(r)'  BY <1>1, <1>2 DEF Owns
<1>9. QuietQueue'
  <2>1. \A q \in Busy' : Owns(q)' /\ run'[q].stop = "no"
    BY <1>1, <1>5, <1>7, <1>8 DEF QuietQueue
  <2>2. \A q \in Busy' : run'[q].job = run[q].job  BY <1>1, <1>7
  <2>3. \A q \in Busy' : run'[q].job # record'.job => Settling(q)'
    BY <1>1, <1>6, <1>7 DEF QuietQueue
  <2> QED  BY <1>1, <2>1, <2>2, <2>3 DEF QuietQueue
<1>10. QuietRun(r)'
  <2>1. SUFFICES ASSUME ~Mail, run'[r].pc \in {"check", "send", "record"}
                 PROVE  /\ run'[r].last <=> job[run[r].job].attempts >= MaxAttempts
                        /\ run'[r].pc = "record" =>
                             /\ run'[r].note \in {"Sent", "Failed", "Retrying"}
                             /\ run'[r].note = "Sent" => run'[r].ok
                             /\ run'[r].note = "Failed" => (run'[r].ok \/ run'[r].last)
                             /\ run'[r].note = "Retrying" => (~run'[r].ok /\ ~run'[r].last)
    BY <1>1 DEF QuietRun, Mail
  <2>2. CASE Advances(r)
    <3>1. run[r].pc = "check" => (run[r].last <=> job[run[r].job].attempts >= MaxAttempts)
      BY <2>1 DEF QuietRun
    <3> QED  BY <1>6, <2>1, <2>2, <3>1 DEF Advances
  <2>3. CASE Tries(r)
    <3>1. run[r].last <=> job[run[r].job].attempts >= MaxAttempts
      BY <2>1, <2>3 DEF QuietRun, Tries
    <3>2. /\ run'[r].last = run[r].last /\ run[r].last \in BOOLEAN
          /\ run'[r].pc = "record"
      BY <2>3, Typed DEF Tries
    <3>3. /\ run'[r].note \in {"Sent", "Failed", "Retrying"}
          /\ run'[r].note = "Sent" => run'[r].ok
          /\ run'[r].note = "Failed" => (run'[r].ok \/ run[r].last)
          /\ run'[r].note = "Retrying" => (~run'[r].ok /\ ~run[r].last)
      BY <2>1, <2>3 DEF Tries, Mail
    <3> QED  BY <3>1, <3>2, <3>3
  <2>4. CASE ~Advances(r) /\ ~Tries(r)
    BY <1>3, <2>1, <2>4 DEF Passes, TurnedAway, Skips, Records
  <2> QED  BY <2>2, <2>3, <2>4
<1>11. \A q \in Runner : QuietRun(q)'
  <2>1. ASSUME NEW q \in Runner, q # r PROVE QuietRun(q)'
    BY <1>1, <2>1 DEF QuietRun, Mail
  <2> QED  BY <1>10, <2>1
\* The record's job is the run's: what one of them says of it, the other does.
<1>12. ASSUME record'.status \in {"Queued", "Retrying"} => ~Settling(r)',
              (~Mail /\ record'.status \in {"Sent", "Failed", "gone"}) => Settling(r)',
              Mail => record'.status # "Retrying"
       PROVE  QuietRecord'
  <2>1. \A q \in Busy' : run'[q].job = record'.job => q = r  BY <1>1, <1>7
  <2>2. Live(record.job)' /\ job'[record.job].phase # "waiting"  BY <1>1, <1>6 DEF Live
  <2> QED  BY <1>1, <1>12, <2>1, <2>2 DEF QuietRecord, Mail
<1>13. CASE TurnedAway(r)
  <2>1. record'.status # "Retrying" /\ record'.status # "Queued" /\ Mail
    BY <1>13 DEF TurnedAway
  <2> QED  BY <1>9, <1>11, <1>12, <2>1
<1>14. CASE Skips(r)
  <2>1. Settling(r)' /\ record' = record  BY <1>14 DEF Skips, Settling
  <2>2. record.status \notin {"Queued", "Retrying"}  BY <1>14 DEF Skips
  <2> QED  BY <1>9, <1>11, <1>12, <2>1, <2>2
<1>15. CASE Advances(r) \/ Tries(r)
  <2>1. ~Settling(r)' /\ record'.status = record.status
    BY <1>15 DEF Advances, Tries, Settling
  <2>2. Mail => record.status # "Retrying"  BY DEF QuietRecord
  <2> QED  BY <1>6, <1>9, <1>11, <1>12, <2>1, <2>2
<1>16. CASE Records(r)
  <2>1. /\ run[r].pc = "record" /\ run'[r].pc = "end" /\ run'[r].ok = run[r].ok
        /\ record'.status = IF record.status = "gone" THEN "gone" ELSE run[r].note
    BY <1>4, <1>16 DEF Records
  <2>2. CASE Mail
    <3>1. run[r].note \in Final /\ record.status # "gone"  BY <2>1, <2>2 DEF MailInv, RecordInv, Mail
    <3>2. record'.status \notin {"Queued", "Retrying"}  BY <2>1, <3>1 DEF Final
    <3> QED  BY <1>9, <1>11, <1>12, <2>2, <3>2
  <2>3. CASE ~Mail
    <3>1. record'.status = run[r].note  BY <1>6, <2>1, <2>3
    <3>2. /\ run[r].last <=> job[run[r].job].attempts >= MaxAttempts
          /\ run[r].note \in {"Sent", "Failed", "Retrying"}
          /\ run[r].note = "Sent" => run[r].ok
          /\ run[r].note = "Failed" => (run[r].ok \/ run[r].last)
          /\ run[r].note = "Retrying" => (~run[r].ok /\ ~run[r].last)
      BY <2>1, <2>3 DEF QuietRun
    <3>3. Settling(r)' <=> run[r].ok \/ run[r].last
      BY <1>1, <2>1, <3>2 DEF Settling
    <3> QED  BY <1>9, <1>11, <1>12, <2>3, <3>1, <3>2, <3>3
  <2> QED  BY <2>2, <2>3
<1> QED  BY <1>3, <1>13, <1>14, <1>15, <1>16 DEF Passes

\* A delivery that is quiet after a step was quiet before it.
LEMMA QuietBefore ==
  ASSUME TypeOK, RowsInv, RecordInv, Next, Quiet'
  PROVE  /\ Quiet
         /\ \A b \in {"faults", "stops", "timeouts", "cancels", "retries", "throws"} :
              spent[b] = 0 /\ spent'[b] = 0
<1>1. \A b \in {"faults", "stops", "timeouts", "cancels", "retries", "throws"} : spent'[b] = 0
  BY DEF Quiet, Undisturbed
<1>2. ASSUME NEW b \in {"faults", "stops", "timeouts", "cancels", "retries", "throws"} PROVE spent[b] = 0
  <2>1. b \in Bounds  BY DEF Bounds
  <2>2. spent[b] \in Nat /\ spent'[b] >= spent[b]  BY <2>1, Typed, SpentGrows
  <2> QED  BY <1>1, <2>2
<1> QED  BY <1>1, <1>2 DEF Quiet, Undisturbed

QuietAll == QuietQueue /\ QuietRecord /\ \A r \in Runner : QuietRun(r)

LEMMA QuietOutside ==
  ASSUME TypeOK, QuietAll, Outside
  PROVE  QuietAll'
<1>1. /\ UNCHANGED <<kind, job, run>> /\ record'.job = record.job
      /\ \/ record' = record
         \/ /\ kind = "webhook" /\ record.status \in {"Sent", "Failed"}
            /\ record'.status = "gone"
  BY OutsideSteps
<1>2. /\ QuietQueue' /\ (\A r \in Runner : QuietRun(r)') /\ Busy' = Busy
      /\ \A r \in Busy : Settling(r)' <=> Settling(r)
  BY <1>1, QuietSame DEF QuietAll
<1>3. QuietRecord'
  <2>1. CASE record' = record
    BY <1>1, <1>2, <2>1 DEF QuietAll, QuietRecord, Mail, Live
  <2>2. CASE ~Mail /\ record.status \in {"Sent", "Failed"} /\ record'.status = "gone"
    BY <1>1, <1>2, <2>2 DEF QuietAll, QuietRecord, Mail
  <2> QED  BY <1>1, <2>1, <2>2 DEF Mail
<1> QED  BY <1>2, <1>3 DEF QuietAll

LEMMA QuietNewJob ==
  ASSUME TypeOK, RecordInv, RowsInv, QuietAll, NewJob, spent'["retries"] = spent["retries"]
  PROVE  QuietAll'
<1>1. UNCHANGED <<kind, run>> /\ Busy' = Busy  BY NewJobSteps DEF Busy
<1>2. spent["retries"] # spent["retries"] + 1  BY Typed DEF Bounds
<1>3. PICK n \in JobId :
        /\ job[n].phase = "none" /\ job' = [job EXCEPT ![n] = Queued]
        /\ record'.status = "Queued" /\ record'.job = n
        /\ \/ record.status = "none"
           \/ ~Mail /\ record.status \in {"Sent", "Failed"}
  <2>1. spent'["retries"] # spent["retries"] + 1  BY <1>2
  <2> QED  BY <2>1, NewJobSteps DEF Mail
<1>4. job'[n] = Queued /\ \A i \in JobId : i # n => job'[i] = job[i]  BY <1>3 DEF TypeOK
\* Whatever is still under way is at its end, and no job of it waits.
<1>5. /\ \A r \in Busy : Settling(r) /\ Owns(r) /\ run[r].stop = "no"
      /\ \A i \in JobId : job[i].phase # "waiting"
      /\ \A i \in JobId : ~job[i].asked
      /\ \A i \in JobId : job[i].phase = "active" => \E r \in Busy : run[r].job = i
  BY <1>3 DEF QuietAll, QuietQueue, QuietRecord, RecordInv
<1>6. ASSUME NEW r \in Busy PROVE run[r].job # n /\ run[r].job \in JobId
  BY <1>3, <1>5, <1>6 DEF Owns
<1>7. ASSUME NEW r \in Busy PROVE Owns(r)' /\ Settling(r)'
  BY <1>1, <1>4, <1>5, <1>6, <1>7 DEF Owns, Settling
<1>8. QuietQueue'
  <2>1. \A i \in JobId : ~job'[i].asked  BY <1>4, <1>5, QueuedRow
  <2>2. \A i \in JobId : job'[i].phase = "active" => \E r \in Busy : run[r].job = i
    BY <1>4, <1>5, QueuedRow
  <2>3. \A i \in JobId : job'[i].phase = "waiting" => i = n  BY <1>4, <1>5
  <2> QED  BY <1>1, <1>3, <1>5, <1>7, <2>1, <2>2, <2>3 DEF QuietQueue
<1>9. QuietRecord'
  BY <1>1, <1>3, <1>4, <1>6, QueuedRow DEF QuietRecord, Live
<1>10. \A r \in Runner : QuietRun(r)'
  <2>1. \A r \in Runner : run'[r].pc \in {"idle", "end"}
    BY <1>1, <1>5 DEF Settling, Busy
  <2> QED  BY <2>1 DEF QuietRun
<1> QED  BY <1>8, <1>9, <1>10 DEF QuietAll

\* Of the steps of a job alone only the purge is left: a cancellation and a
\* sweep under a run are counted, and every job that runs has its run.
LEMMA QuietRow ==
  ASSUME TypeOK, RecordInv, RowsInv, QuietAll, NEW j \in JobId, RowStep(j),
         spent'["cancels"] = spent["cancels"], spent'["faults"] = spent["faults"]
  PROVE  QuietAll'
<1>1. /\ UNCHANGED <<kind, record, run>> /\ Busy' = Busy
      /\ \A i \in JobId : i # j => job'[i] = job[i]
      /\ job'[j].attempts = job[j].attempts
  BY RowSteps DEF Busy
<1>2. job[j].phase \in Over /\ job'[j].phase = "gone" /\ job'[j].asked = job[j].asked
  <2>1. spent'["cancels"] # spent["cancels"] + 1 /\ spent'["faults"] # spent["faults"] + 1
    <3>1. spent["cancels"] \in Nat /\ spent["faults"] \in Nat  BY Typed DEF Bounds
    <3> QED  BY <3>1
  <2>2. job[j].phase = "active" => \E r \in Runner : run[r].job = j /\ Owns(r)
    BY DEF QuietAll, QuietQueue, Busy
  <2> QED  BY <2>1, <2>2, RowSteps
<1>3. ASSUME NEW r \in Busy
      PROVE  run[r].job # j /\ run[r].job \in JobId /\ Owns(r)' /\ (Settling(r)' <=> Settling(r))
  <2>1. Owns(r)  BY DEF QuietAll, QuietQueue
  <2>2. run[r].job # j /\ run[r].job \in JobId  BY <1>2, <2>1 DEF Owns, Over
  <2> QED  BY <1>1, <2>1, <2>2 DEF Owns, Settling
<1>4. QuietQueue'
  <2>1. \A i \in JobId : ~job'[i].asked  BY <1>1, <1>2 DEF QuietAll, QuietQueue
  <2>2. \A i \in JobId : job'[i].phase = "active" => \E r \in Busy : run[r].job = i
    BY <1>1, <1>2 DEF QuietAll, QuietQueue
  <2>3. \A i \in JobId : job'[i].phase = "waiting" => i = record.job
    BY <1>1, <1>2 DEF QuietAll, QuietQueue
  <2> QED  BY <1>1, <1>3, <2>1, <2>2, <2>3 DEF QuietAll, QuietQueue
<1>5. QuietRecord'
  <2>1. ASSUME record.status \in {"Queued", "Retrying"} PROVE Live(record.job)'
    BY <1>1, <1>2, <2>1 DEF QuietAll, QuietRecord, RecordInv, Live, Over
  <2>2. ASSUME ~Mail, record.status \in {"Sent", "Failed", "gone"}
        PROVE  job'[record.job].phase # "waiting"
    BY <1>1, <1>2, <2>2 DEF QuietAll, QuietRecord, RecordInv
  <2> QED  BY <1>1, <1>3, <2>1, <2>2 DEF QuietAll, QuietRecord, Mail
<1>6. ASSUME NEW r \in Runner PROVE QuietRun(r)'
  <2>1. run[r].pc \in {"check", "send", "record"} => r \in Busy  BY DEF Busy
  <2>2. r \in Busy => job'[run[r].job] = job[run[r].job]  BY <1>1, <1>3
  <2> QED  BY <1>1, <2>1, <2>2 DEF QuietAll, QuietRun, Mail
<1> QED  BY <1>4, <1>5, <1>6 DEF QuietAll

LEMMA QuietClaim ==
  ASSUME TypeOK, RecordInv, RowsInv, QuietAll, NEW r \in Runner, Claim(r)
  PROVE  QuietAll'
<1>1. /\ UNCHANGED <<kind, record>>
      /\ run[r].pc = "idle" /\ run'[r].pc = "load" /\ run'[r].stop = "no"
      /\ \A q \in Runner : q # r => run'[q] = run[q]
  BY ClaimSteps
<1>2. PICK j \in JobId :
        /\ job[j].phase = "waiting" /\ job'[j].phase = "active" /\ ~job'[j].asked
        /\ \A i \in JobId : i # j => job'[i] = job[i]
        /\ run'[r].job = j /\ run'[r].attempt = job'[j].attempts
  BY ClaimSteps
<1>3. Busy' = Busy \cup {r} /\ r \notin Busy  BY <1>1 DEF Busy
<1>4. j = record.job  BY <1>2 DEF QuietAll, QuietQueue
\* The others are at their end, with jobs of their own.
<1>5. ASSUME NEW q \in Busy
      PROVE  /\ run[q].job # j /\ run[q].job \in JobId /\ run'[q] = run[q]
             /\ Owns(q)' /\ Settling(q)' /\ run[q].stop = "no"
  <2>1. q \in Runner /\ q # r /\ Owns(q) /\ run[q].stop = "no"
    BY <1>3 DEF QuietAll, QuietQueue, Busy
  <2>2. run[q].job # j /\ run[q].job \in JobId  BY <1>2, <2>1 DEF Owns
  <2>3. Settling(q)  BY <1>4, <2>2 DEF QuietAll, QuietQueue
  <2> QED  BY <1>1, <1>2, <2>1, <2>2, <2>3 DEF Owns, Settling
<1>6. Owns(r)' /\ ~Settling(r)'  BY <1>1, <1>2 DEF Owns, Settling
<1>7. QuietQueue'
  <2>1. \A q \in Busy' : Owns(q)' /\ run'[q].stop = "no"  BY <1>1, <1>3, <1>5, <1>6
  <2>2. \A i \in JobId : ~job'[i].asked  BY <1>2 DEF QuietAll, QuietQueue
  <2>3. \A i \in JobId : job'[i].phase = "active" => \E q \in Busy' : run'[q].job = i
    <3>1. ASSUME NEW i \in JobId, job'[i].phase = "active", i # j
          PROVE  \E q \in Busy : run[q].job = i
      BY <1>2, <3>1 DEF QuietAll, QuietQueue
    <3> QED  BY <1>2, <1>3, <1>5, <3>1
  <2>4. \A i \in JobId : job'[i].phase = "waiting" => i = record'.job
    BY <1>1, <1>2 DEF QuietAll, QuietQueue
  <2>5. \A q \in Busy' : run'[q].job # record'.job => Settling(q)'
    BY <1>1, <1>2, <1>3, <1>4, <1>5
  <2> QED  BY <2>1, <2>2, <2>3, <2>4, <2>5 DEF QuietQueue
<1>8. QuietRecord'
  <2>1. \A q \in Busy' : run'[q].job = record'.job => q = r
    BY <1>1, <1>3, <1>4, <1>5
  <2>2. ~(~Mail /\ record.status \in {"Sent", "Failed", "gone"})
    BY <1>2, <1>4 DEF QuietAll, QuietRecord
  <2>3. Live(record.job)'  BY <1>1, <1>2, <1>4 DEF Live
  <2>4. Mail' <=> Mail  BY <1>1 DEF Mail
  <2>5. Mail => record.status # "Retrying"  BY DEF QuietAll, QuietRecord
  <2> QED  BY <1>1, <1>6, <2>1, <2>2, <2>3, <2>4, <2>5 DEF QuietRecord
<1>9. ASSUME NEW q \in Runner PROVE QuietRun(q)'
  <2>1. run'[q].pc \in {"check", "send", "record"} => q # r  BY <1>1
  <2>2. (q # r /\ run[q].pc # "idle") => q \in Busy  BY DEF Busy
  <2>3. q \in Busy => run'[q].pc = "end"  BY <1>5 DEF Settling
  <2> QED  BY <1>1, <2>1, <2>2, <2>3 DEF QuietRun
<1> QED  BY <1>7, <1>8, <1>9 DEF QuietAll

LEMMA QuietEnd ==
  ASSUME TypeOK, RecordInv, RowsInv, QuietAll, NEW r \in Runner, End(r)
  PROVE  QuietAll'
<1> DEFINE j == run[r].job
<1>1. RunInv(r)  BY DEF RowsInv
<1>2. /\ UNCHANGED <<kind, record>> /\ run[r].pc = "end" /\ run'[r].pc = "idle"
      /\ \A q \in Runner : q # r => run'[q] = run[q]
      /\ Busy' = Busy \ {r} /\ r \in Busy
  BY <1>1, EndSteps, RowsLeave DEF Busy
<1>3. Owns(r) /\ run[r].stop = "no" /\ j \in JobId /\ job[j].attempts \in Nat
  BY <1>2, Typed DEF QuietAll, QuietQueue, Owns
<1>4. /\ \A i \in JobId : i # j => job'[i] = job[i]
      /\ job'[j].asked = job[j].asked
      /\ \/ job'[j].phase = "done" /\ run[r].ok
         \/ /\ ~run[r].ok
            /\ job'[j].phase = IF job[j].attempts < MaxAttempts THEN "waiting" ELSE "failed"
  BY <1>1, <1>3, EndSteps
\* The job waits again exactly when the run did not settle it.
<1>5. /\ job'[j].phase # "active"
      /\ Settling(r) => job'[j].phase # "waiting"
      /\ ~Settling(r) => job'[j].phase = "waiting" /\ j = record.job
  <2>1. ~Settling(r) => j = record.job  BY <1>2 DEF QuietAll, QuietQueue
  <2>2. Settling(r) <=> run[r].ok \/ ~(job[j].attempts < MaxAttempts)
    BY <1>2, <1>3, BoundsAssumption DEF Settling
  <2> QED  BY <1>4, <2>1, <2>2
<1>6. ASSUME NEW q \in Busy'
      PROVE  /\ q \in Busy /\ q # r /\ run'[q] = run[q] /\ run[q].job # j
             /\ run[q].job \in JobId /\ Owns(q)' /\ (Settling(q)' <=> Settling(q))
  <2>1. q \in Busy /\ q \in Runner /\ q # r /\ run[q].pc # "idle" /\ Owns(q)
    BY <1>2 DEF QuietAll, QuietQueue, Busy
  <2>2. run[q].job # j  BY <1>2, <1>3, <2>1, OneOwnerEach DEF RowsInv
  <2>3. run[q].job \in JobId  BY <2>1 DEF Owns
  <2> QED  BY <1>2, <1>4, <2>1, <2>2, <2>3 DEF Owns, Settling
<1>7. QuietQueue'
  <2>1. \A q \in Busy' : Owns(q)' /\ run'[q].stop = "no"
    BY <1>6 DEF QuietAll, QuietQueue
  <2>2. \A i \in JobId : ~job'[i].asked
    BY <1>3, <1>4 DEF QuietAll, QuietQueue
  <2>3. \A i \in JobId : job'[i].phase = "active" => \E q \in Busy' : run'[q].job = i
    <3>1. SUFFICES ASSUME NEW i \in JobId, job'[i].phase = "active"
                   PROVE  \E q \in Busy' : run'[q].job = i
      OBVIOUS
    <3>2. i # j /\ job[i].phase = "active"  BY <1>4, <1>5, <3>1
    <3>3. PICK q \in Busy : run[q].job = i  BY <3>2 DEF QuietAll, QuietQueue
    <3>4. q \in Busy'  BY <1>2, <3>2, <3>3
    <3> QED  BY <1>6, <3>3, <3>4
  <2>4. \A i \in JobId : job'[i].phase = "waiting" => i = record'.job
    BY <1>2, <1>4, <1>5 DEF QuietAll, QuietQueue
  <2>5. \A q \in Busy' : run'[q].job # record'.job => Settling(q)'
    BY <1>2, <1>6 DEF QuietAll, QuietQueue
  <2> QED  BY <2>1, <2>2, <2>3, <2>4, <2>5 DEF QuietQueue
<1>8. QuietRecord'
  <2>1. ASSUME record.status \in {"Queued", "Retrying"} PROVE Live(record.job)'
    <3>1. record.job \in JobId  BY <2>1 DEF RecordInv
    <3>2. CASE record.job = j
      <4>1. ~Settling(r)  BY <1>2, <2>1, <3>2 DEF QuietAll, QuietRecord
      <4> QED  BY <1>2, <1>5, <3>2, <4>1 DEF Live
    <3>3. CASE record.job # j
      BY <1>2, <1>4, <2>1, <3>1, <3>3 DEF QuietAll, QuietRecord, Live
    <3> QED  BY <3>2, <3>3
  <2>2. ASSUME ~Mail, record.status \in {"Sent", "Failed", "gone"}
        PROVE  job'[record.job].phase # "waiting"
    <3>1. record.job \in JobId  BY <2>2 DEF RecordInv
    <3>2. CASE record.job = j
      <4>1. Settling(r)  BY <1>2, <2>2, <3>2 DEF QuietAll, QuietRecord
      <4> QED  BY <1>5, <3>2, <4>1
    <3>3. CASE record.job # j
      BY <1>4, <2>2, <3>1, <3>3 DEF QuietAll, QuietRecord
    <3> QED  BY <3>2, <3>3
  <2>3. Mail' <=> Mail  BY <1>2 DEF Mail
  <2> QED  BY <1>2, <1>6, <2>1, <2>2, <2>3 DEF QuietAll, QuietRecord
<1>9. ASSUME NEW q \in Runner PROVE QuietRun(q)'
  <2>1. run'[q].pc \in {"check", "send", "record"} => q \in Busy'  BY DEF Busy
  <2>2. q \in Busy' => run'[q] = run[q] /\ job'[run[q].job] = job[run[q].job]  BY <1>4, <1>6
  <2>3. Mail' <=> Mail  BY <1>2 DEF Mail
  <2> QED  BY <2>1, <2>2, <2>3 DEF QuietAll, QuietRun
<1> QED  BY <1>7, <1>8, <1>9 DEF QuietAll

LEMMA QuietKept ==
  ASSUME TypeOK, RecordInv, RowsInv, MailInv, QuietInv, Next
  PROVE  QuietInv'
<1>1. SUFFICES ASSUME Quiet' PROVE QuietAll'  BY DEF QuietInv, QuietAll
<1>2. /\ QuietAll
      /\ \A b \in {"faults", "stops", "timeouts", "cancels", "retries", "throws"} :
           spent[b] = 0 /\ spent'[b] = 0
  BY <1>1, QuietBefore DEF QuietInv, QuietAll
<1>3. /\ spent["faults"] = 0 /\ spent'["faults"] = 0 /\ spent["cancels"] = 0
      /\ spent'["cancels"] = 0 /\ spent["retries"] = 0 /\ spent'["retries"] = 0
  BY <1>2
<1>4. CASE Outside  BY <1>2, <1>4, QuietOutside
<1>5. CASE NewJob  BY <1>2, <1>3, <1>5, QuietNewJob
<1>6. ASSUME NEW j \in JobId, RowStep(j) PROVE QuietAll'
  BY <1>2, <1>3, <1>6, QuietRow
<1>7. ASSUME NEW r \in Runner, Goes(r) PROVE QuietAll'
  <2>1. LeavesAlone(r) /\ Passes(r)  BY <1>7, GoesSteps DEF RowsInv
  <2>2. \A b \in {"faults", "stops", "timeouts", "throws"} : spent[b] = 0 /\ spent'[b] = 0  BY <1>2
  <2> QED  BY <1>2, <2>1, <2>2, QuietPass DEF QuietAll
<1>8. ASSUME NEW r \in Runner, Claim(r) PROVE QuietAll'  BY <1>2, <1>8, QuietClaim
<1>9. ASSUME NEW r \in Runner, End(r) PROVE QuietAll'  BY <1>2, <1>9, QuietEnd
<1>10. ASSUME NEW r \in Runner, Crash(r) PROVE QuietAll'
  <2>1. spent'["faults"] # spent["faults"] + 1  BY <1>3
  <2> QED  BY <1>10, <2>1, CrashSteps
<1> QED  BY <1>4, <1>5, <1>6, <1>7, <1>8, <1>9, <1>10, Groups

-----------------------------------------------------------------------------
(* With timeouts, the record waits for a job that is not done.             *)

\* A delivery that is steady after a step was steady before it.
LEMMA SteadyBefore ==
  ASSUME TypeOK, RowsInv, RecordInv, Next, Steady'
  PROVE  /\ Steady
         /\ \A b \in {"faults", "stops", "cancels", "retries", "throws", "replays"} :
              b \in Bounds /\ spent[b] = 0 /\ spent'[b] = 0
<1>1. \A b \in {"faults", "stops", "cancels", "retries", "throws", "replays"} :
        b \in Bounds /\ spent'[b] = 0
  BY DEF Steady, Undisturbed, Bounds
<1>2. ASSUME NEW b \in {"faults", "stops", "cancels", "retries", "throws", "replays"}
      PROVE  spent[b] = 0
  <2>1. b \in Bounds /\ spent'[b] = 0  BY <1>1
  <2>2. spent[b] \in Nat /\ spent'[b] >= spent[b]  BY <2>1, Typed, SpentGrows
  <2> QED  BY <2>1, <2>2
<1> QED  BY <1>1, <1>2 DEF Steady, Undisturbed

\* Steps that change no run and no job a run has.
LEMMA SteadySame ==
  ASSUME RowsInv, SteadyQueue, run' = run,
         record'.status # "none" => record'.job = 1,
         \A j \in JobId : ~job'[j].asked,
         \A r \in Busy : job'[run[r].job] = job[run[r].job]
  PROVE  SteadyQueue' /\ Busy' = Busy
<1>1. Busy' = Busy  BY DEF Busy
<1>2. ASSUME NEW r \in Busy PROVE Owns(r)'
  <2>1. Owns(r)  BY DEF SteadyQueue
  <2> QED  BY <2>1 DEF Owns
<1> QED  BY <1>1, <1>2 DEF SteadyQueue

\* One run at most, and of the record's job.
LEMMA SteadyAlone ==
  ASSUME RowsInv, OneJobInv, Steady, SteadyQueue, NEW q \in Busy, NEW r \in Busy
  PROVE  q = r
<1>1. OneJob  BY DEF Steady, Undisturbed, OneJob
<1>2. \A p \in Busy : p \in Runner /\ run[p].pc # "idle" /\ Owns(p) /\ run[p].job = Current
  BY <1>1 DEF OneJobInv, SteadyQueue, Busy, Owns, Live
<1> QED  BY <1>2, OneOwnerEach DEF RowsInv

LEMMA SteadyNewJob ==
  ASSUME TypeOK, RecordInv, RowsInv, SteadyQueue, SteadyRecord, NewJob,
         \A b \in {"retries", "replays"} : b \in Bounds /\ spent[b] = 0 /\ spent'[b] = 0
  PROVE  SteadyQueue' /\ SteadyRecord'
<1>1. run' = run /\ Busy' = Busy  BY NewJobSteps DEF Busy
<1>2. PICK n \in JobId : /\ n = 1 /\ job' = [job EXCEPT ![n] = Queued]
                         /\ record.status = "none"
                         /\ record'.status = "Queued" /\ record'.job = n
  BY NewJobSteps
<1>3. Busy = {}  BY <1>2 DEF RecordInv
<1>4. job'[n] = Queued /\ \A j \in JobId : j # n => job'[j] = job[j]
  BY <1>2 DEF TypeOK
<1>5. \A j \in JobId : ~job'[j].asked  BY <1>4, QueuedRow DEF SteadyQueue
<1>6. SteadyQueue'  BY <1>1, <1>2, <1>3, <1>5, SteadySame
<1>7. job'[record'.job].phase = "waiting"  BY <1>2, <1>4, QueuedRow
<1> QED  BY <1>1, <1>3, <1>6, <1>7 DEF SteadyRecord

LEMMA SteadyRow ==
  ASSUME TypeOK, RecordInv, RowsInv, SteadyQueue, SteadyRecord, NEW j \in JobId, RowStep(j),
         \A b \in {"faults", "cancels"} : b \in Bounds /\ spent[b] = 0 /\ spent'[b] = 0
  PROVE  SteadyQueue' /\ SteadyRecord'
<1>1. /\ UNCHANGED <<record, run>> /\ Busy' = Busy
      /\ \A i \in JobId : i # j => job'[i] = job[i]
  BY RowSteps DEF Busy
<1>2. /\ job'[j].asked = job[j].asked
      /\ \/ job[j].phase \in Over /\ job'[j].phase = "gone"
         \/ /\ job[j].phase = "active" /\ job'[j].phase \in {"waiting", "failed"}
            /\ \A r \in Runner : ~(run[r].job = j /\ Owns(r))
  <2>1. ~job[j].asked  BY DEF SteadyQueue
  <2> QED  BY <2>1, RowSteps
<1>3. ASSUME NEW r \in Busy PROVE run[r].job # j /\ run[r].job \in JobId
  <2>1. Owns(r) /\ r \in Runner  BY DEF SteadyQueue, Busy
  <2> QED  BY <1>2, <2>1 DEF Owns, Over
<1>4. SteadyQueue'
  <2>1. \A i \in JobId : ~job'[i].asked  BY <1>1, <1>2 DEF SteadyQueue
  <2>2. \A r \in Busy : job'[run[r].job] = job[run[r].job]  BY <1>1, <1>3
  <2> QED  BY <1>1, <2>1, <2>2, SteadySame DEF SteadyQueue
<1>5. ASSUME record.status \in {"Queued", "Retrying"}
      PROVE  job'[record.job].phase \notin {"none", "done", "cancelled"}
  <2>1. record.job \in JobId  BY <1>5 DEF RecordInv
  <2> QED  BY <1>1, <1>2, <1>5, <2>1 DEF SteadyRecord
<1> QED  BY <1>1, <1>4, <1>5 DEF SteadyRecord

LEMMA SteadyPass ==
  ASSUME TypeOK, RecordInv, RowsInv, MailInv, OneJobInv, Steady, SteadyQueue, SteadyRecord,
         NEW r \in Runner, LeavesAlone(r), Passes(r),
         \A b \in {"faults", "stops", "throws"} : b \in Bounds /\ spent[b] = 0 /\ spent'[b] = 0
  PROVE  SteadyQueue' /\ SteadyRecord'
<1>1. /\ job' = job /\ kind' = kind /\ record'.job = record.job
      /\ run[r].pc # "idle" /\ run'[r].pc # "idle"
      /\ run'[r].job = run[r].job /\ run'[r].attempt = run[r].attempt
      /\ r \in Busy /\ Busy' = Busy
  BY DEF LeavesAlone, Busy
<1>2. Busy = {r}  BY <1>1, SteadyAlone
<1>3. Owns(r) /\ Owns(r)' /\ run[r].stop \in {"no", "timeout"} /\ ~job[run[r].job].asked
  BY <1>1 DEF SteadyQueue, Owns
<1>4. \A b \in {"faults", "stops", "throws"} : spent'[b] # spent[b] + 1  OBVIOUS
<1>5. run'[r].stop \in {"no", "timeout"}
  BY <1>3, <1>4 DEF LeavesAlone, Told
<1>6. ASSUME run'[r].pc = "record", run'[r].ok PROVE run'[r].note \in Final
  <2>1. (run[r].pc = "record" /\ run[r].ok) => run[r].note \in Final
    BY <1>1 DEF SteadyQueue
  <2>2. CASE Told(r)  BY <1>6, <2>1, <2>2 DEF Told
  <2>3. CASE Tries(r)  BY <1>6, <2>3 DEF Tries, Final
  <2> QED  BY <1>6, <2>2, <2>3 DEF Passes, GivesUp, TurnedAway, Skips, Advances, Records
<1>7. record'.status # "none" => record'.job = 1
  <2>1. record.status # "none"  BY <1>1 DEF RecordInv
  <2> QED  BY <1>1, <2>1 DEF SteadyQueue
<1>8. SteadyQueue'  BY <1>1, <1>2, <1>3, <1>5, <1>6, <1>7 DEF SteadyQueue
<1>9. ASSUME record'.status \in {"Queued", "Retrying"}
      PROVE  /\ job[record.job].phase \notin {"none", "done", "cancelled"}
             /\ ~(run'[r].pc = "end" /\ run'[r].ok)
  <2>1. CASE Records(r)
    <3>1. run'[r].ok = run[r].ok /\ record'.status = run[r].note /\ run[r].pc = "record"
      BY <1>4, <1>9, <2>1 DEF Records
    <3>2. ~run[r].ok  BY <1>1, <1>9, <3>1 DEF SteadyQueue, Final
    <3>3. job[record.job].phase = "active"
      <4>1. OneJob  BY DEF Steady, Undisturbed, OneJob
      <4>2. run[r].job = 1  BY <1>3, <4>1 DEF OneJobInv, OneJob, Current, Steady, Undisturbed, Owns, Live
      <4>3. record.status # "none"  BY <1>1 DEF RecordInv
      <4>4. record.job = 1  BY <4>3 DEF SteadyQueue
      <4> QED  BY <1>3, <4>2, <4>4 DEF Owns
    <3> QED  BY <3>1, <3>2, <3>3
  <2>2. CASE ~Records(r)
    <3>1. record'.status = record.status
      BY <1>9, <2>2 DEF Passes, Told, GivesUp, TurnedAway, Skips, Advances, Tries
    <3>2. ~(run[r].pc = "end" /\ run[r].ok)  BY <1>1, <1>9, <3>1 DEF SteadyRecord
    <3>3. ~(run'[r].pc = "end" /\ run'[r].ok)
      BY <1>9, <2>2, <3>1, <3>2 DEF Passes, Told, GivesUp, TurnedAway, Skips, Advances, Tries
    <3> QED  BY <1>9, <3>1, <3>3 DEF SteadyRecord
  <2> QED  BY <2>1, <2>2
<1> QED  BY <1>1, <1>2, <1>8, <1>9 DEF SteadyRecord

LEMMA SteadyClaim ==
  ASSUME TypeOK, RecordInv, RowsInv, SteadyQueue, SteadyRecord, NEW r \in Runner, Claim(r)
  PROVE  SteadyQueue' /\ SteadyRecord'
<1>1. /\ record' = record
      /\ run[r].pc = "idle" /\ run'[r].pc = "load" /\ run'[r].stop = "no"
      /\ \A q \in Runner : q # r => run'[q] = run[q]
  BY ClaimSteps
<1>2. PICK j \in JobId :
        /\ job[j].phase = "waiting" /\ job'[j].phase = "active" /\ ~job'[j].asked
        /\ \A i \in JobId : i # j => job'[i] = job[i]
        /\ run'[r].job = j /\ run'[r].attempt = job'[j].attempts
  BY ClaimSteps
<1>3. Busy' = Busy \cup {r} /\ r \notin Busy  BY <1>1 DEF Busy
<1>4. ASSUME NEW q \in Busy PROVE run'[q] = run[q] /\ Owns(q)'
  <2>1. q \in Runner /\ q # r /\ Owns(q)  BY <1>3 DEF SteadyQueue, Busy
  <2>2. run[q].job # j /\ run[q].job \in JobId  BY <1>2, <2>1 DEF Owns
  <2> QED  BY <1>1, <1>2, <2>1, <2>2 DEF Owns
<1>5. Owns(r)'  BY <1>2 DEF Owns
<1>6. \A i \in JobId : ~job'[i].asked  BY <1>2 DEF SteadyQueue
<1>7. SteadyQueue'  BY <1>1, <1>3, <1>4, <1>5, <1>6 DEF SteadyQueue
<1>8. SteadyRecord'
  <2>1. \A q \in Busy' : run'[q] = run[q] \/ run'[q].pc = "load"  BY <1>1, <1>3, <1>4
  <2>2. record.status \in {"Queued", "Retrying"} => record.job \in JobId  BY DEF RecordInv
  <2> QED  BY <1>1, <1>2, <1>3, <2>1, <2>2 DEF SteadyRecord
<1> QED  BY <1>7, <1>8

LEMMA SteadyEnd ==
  ASSUME TypeOK, RecordInv, RowsInv, OneJobInv, Steady, SteadyQueue, SteadyRecord,
         NEW r \in Runner, End(r)
  PROVE  SteadyQueue' /\ SteadyRecord'
<1> DEFINE j == run[r].job
<1>1. RunInv(r)  BY DEF RowsInv
<1>2. /\ record' = record /\ run[r].pc = "end" /\ r \in Busy /\ Busy' = Busy \ {r}
  BY <1>1, EndSteps, RowsLeave DEF Busy
<1>3. Busy = {r} /\ Busy' = {}  BY <1>2, SteadyAlone
<1>4. Owns(r) /\ run[r].stop \in {"no", "timeout"} /\ j \in JobId
  BY <1>2 DEF SteadyQueue, Owns
<1>5. /\ \A i \in JobId : i # j => job'[i] = job[i]
      /\ job'[j].asked = job[j].asked
      /\ \/ job'[j].phase = "done" /\ run[r].ok
         \/ job'[j].phase \in {"waiting", "failed"}
  BY <1>1, <1>4, EndSteps
<1>6. SteadyQueue'
  <2>1. \A i \in JobId : ~job'[i].asked  BY <1>4, <1>5 DEF SteadyQueue
  <2> QED  BY <1>2, <1>3, <2>1 DEF SteadyQueue
<1>7. ASSUME record.status \in {"Queued", "Retrying"}
      PROVE  job'[record.job].phase \notin {"none", "done", "cancelled"}
  <2>1. record.job \in JobId  BY <1>7 DEF RecordInv
  <2>2. ~run[r].ok  BY <1>2, <1>7 DEF SteadyRecord
  <2> QED  BY <1>4, <1>5, <1>7, <2>1, <2>2 DEF SteadyRecord
<1> QED  BY <1>2, <1>3, <1>6, <1>7 DEF SteadyRecord

LEMMA SteadyKept ==
  ASSUME TypeOK, RecordInv, RowsInv, MailInv, OneJobInv, SteadyInv, Next
  PROVE  SteadyInv'
<1>1. SUFFICES ASSUME Steady' PROVE SteadyQueue' /\ SteadyRecord'  BY DEF SteadyInv
<1>2. /\ Steady /\ SteadyQueue /\ SteadyRecord
      /\ \A b \in {"faults", "stops", "cancels", "retries", "throws", "replays"} :
           b \in Bounds /\ spent[b] = 0 /\ spent'[b] = 0
  BY <1>1, SteadyBefore DEF SteadyInv
<1>3. CASE Outside
  <2>1. /\ UNCHANGED <<job, run>> /\ record'.job = record.job
        /\ record' = record \/ (record.status \in {"Sent", "Failed"} /\ record'.status = "gone")
    BY <1>3, OutsideSteps
  <2>2. record'.status # "none" => record'.job = 1  BY <1>2, <2>1 DEF SteadyQueue
  <2>3. SteadyQueue' /\ Busy' = Busy  BY <1>2, <2>1, <2>2, SteadySame DEF SteadyQueue
  <2> QED  BY <1>2, <2>1, <2>3 DEF SteadyRecord
<1>4. CASE NewJob  BY <1>2, <1>4, SteadyNewJob
<1>5. ASSUME NEW j \in JobId, RowStep(j) PROVE SteadyQueue' /\ SteadyRecord'
  BY <1>2, <1>5, SteadyRow
<1>6. ASSUME NEW r \in Runner, Goes(r) PROVE SteadyQueue' /\ SteadyRecord'
  <2>1. LeavesAlone(r) /\ Passes(r)  BY <1>6, GoesSteps DEF RowsInv
  <2> QED  BY <1>2, <2>1, SteadyPass
<1>7. ASSUME NEW r \in Runner, Claim(r) PROVE SteadyQueue' /\ SteadyRecord'
  BY <1>2, <1>7, SteadyClaim
<1>8. ASSUME NEW r \in Runner, End(r) PROVE SteadyQueue' /\ SteadyRecord'
  BY <1>2, <1>8, SteadyEnd
<1>9. ASSUME NEW r \in Runner, Crash(r) PROVE SteadyQueue' /\ SteadyRecord'
  <2>1. spent'["faults"] # spent["faults"] + 1  BY <1>2
  <2> QED  BY <1>9, <2>1, CrashSteps
<1> QED  BY <1>3, <1>4, <1>5, <1>6, <1>7, <1>8, <1>9, Groups

-----------------------------------------------------------------------------
(* The invariant.                                                          *)

LEMMA InitIInv == Init => IInv
<1>1. SUFFICES ASSUME Init PROVE IInv  OBVIOUS
<1>2. /\ record = [status |-> "none", attempts |-> 0, job |-> 0]
      /\ job = [j \in JobId |-> NoJob] /\ run = [r \in Runner |-> NotRunning]
      /\ leave = "on" /\ barred = FALSE /\ accepted = 0 /\ spent = [b \in Bounds |-> 0]
  BY <1>1 DEF Init
<1>3. /\ \A j \in JobId : job[j] = NoJob
      /\ \A r \in Runner : run[r].pc = "idle"
      /\ \A b \in Bounds : spent[b] = 0
  BY <1>2, NotRunningIs
<1>4. /\ spent["switches"] = 0 /\ spent["faults"] = 0 /\ spent["retries"] = 0
      /\ spent["replays"] = 0
  BY <1>3 DEF Bounds
<1>5. /\ NoJob.phase = "none" /\ NoJob.attempts = 0 /\ NoJob.runs = 0 /\ NoJob.asked = FALSE
      /\ record.status = "none" /\ record.job = 0
  BY <1>2 DEF NoJob
<1>6. Busy = {} /\ Hot = {} /\ Sending = {}
  BY <1>3 DEF Busy, Hot, Loaded, Sending
<1>7. TypeOK  BY <1>1, TypeInit
<1>8. RecordInv  BY <1>3, <1>4, <1>5, <1>6 DEF RecordInv
<1>9. RowsInv
  <2>1. IsFiniteSet(Busy)  BY <1>6, FS_EmptySet
  <2>2. \A r \in Runner : RunInv(r)  BY <1>3 DEF RunInv
  <2>3. \A j \in JobId : RowInv(j)  BY <1>3, <1>5 DEF RowInv
  <2>4. Distinct  BY <1>6 DEF Distinct
  <2> QED  BY <2>1, <2>2, <2>3, <2>4 DEF RowsInv
<1>10. WithdrawnInv /\ LeaveInv  BY <1>2 DEF WithdrawnInv, LeaveInv
<1>11. OneJobInv
  <2>1. Current = 1 /\ 1 \in JobId  BY <1>4, BoundsAssumption DEF Current, JobId
  <2>2. \A j \in JobId : ~Live(j)  BY <1>3, <1>5 DEF Live
  <2> QED  BY <1>3, <1>5, <2>1, <2>2 DEF OneJobInv
<1>12. NoOrphans /\ SentInv  BY <1>5, <1>6 DEF NoOrphans, SentInv
<1>13. MailInv  BY <1>3 DEF MailInv
<1>14. BudgetInv
  <2>1. Cardinality(Hot) = 0  BY <1>6, FS_EmptySet
  <2> HIDE DEF Hot, ToCome
  <2>2. accepted + Cardinality(Hot) + (IF ToCome THEN 1 ELSE 0) <= 1 + spent["faults"]
    BY <1>2, <1>4, <2>1
  <2> QED  BY <1>2, <1>4, <2>2 DEF BudgetInv
<1>15. QuietInv
  <2>1. QuietQueue  BY <1>3, <1>5, <1>6 DEF QuietQueue
  <2>2. QuietRecord  BY <1>5 DEF QuietRecord
  <2>3. \A r \in Runner : QuietRun(r)  BY <1>3 DEF QuietRun
  <2> QED  BY <2>1, <2>2, <2>3 DEF QuietInv
<1>16. SteadyInv
  <2>1. SteadyQueue  BY <1>3, <1>5, <1>6 DEF SteadyQueue
  <2>2. SteadyRecord  BY <1>5 DEF SteadyRecord
  <2> QED  BY <2>1, <2>2 DEF SteadyInv
<1> QED  BY <1>7, <1>8, <1>9, <1>10, <1>11, <1>12, <1>13, <1>14, <1>15, <1>16 DEF IInv

LEMMA NextIInv == IInv /\ [Next]_vars => IInv'
<1>1. ASSUME IInv, Next PROVE IInv'
  <2>1. /\ TypeOK /\ RecordInv /\ RowsInv /\ WithdrawnInv /\ OneJobInv /\ NoOrphans
        /\ LeaveInv /\ SentInv /\ MailInv /\ BudgetInv /\ QuietInv /\ SteadyInv
    BY <1>1 DEF IInv
  <2>2. TypeOK' /\ RowsInv' /\ RecordInv'  BY <1>1, <2>1, RowsKept, RecordKept
  <2>3. WithdrawnInv' /\ LeaveInv' /\ MailInv'
    BY <1>1, <2>1, WithdrawnKept, LeaveKept, MailKept
  <2>4. OneJobInv' /\ NoOrphans' /\ SentInv'
    BY <1>1, <2>1, OneJobKept, NoOrphansKept, SentKept
  <2>5. BudgetInv'  BY <1>1, <2>1, BudgetKept
  <2>6. QuietInv' /\ SteadyInv'  BY <1>1, <2>1, QuietKept, SteadyKept
  <2> QED  BY <2>2, <2>3, <2>4, <2>5, <2>6 DEF IInv
<1>2. ASSUME IInv, UNCHANGED vars PROVE IInv'
  <2>1. UNCHANGED <<kind, record, job, run, leave, barred, accepted, spent>>
    BY <1>2 DEF vars
  <2>2. /\ TypeOK /\ RecordInv /\ RowsInv /\ WithdrawnInv /\ OneJobInv /\ NoOrphans
        /\ LeaveInv /\ SentInv /\ MailInv /\ BudgetInv /\ QuietInv /\ SteadyInv
    BY <1>2 DEF IInv
  <2>3. Busy' = Busy /\ (OneJob' <=> OneJob) /\ Current' = Current /\ (Mail' <=> Mail)
    BY <2>1 DEF Busy, OneJob, Current, Mail
  <2>4. /\ \A r \in Runner : Owns(r)' <=> Owns(r)
        /\ \A j \in JobId : Live(j)' <=> Live(j)
    BY <2>1 DEF Owns, Live
  <2>5. TypeOK'  BY <2>1, <2>2 DEF TypeOK
  <2>6. RecordInv'  BY <2>1, <2>2, <2>3 DEF RecordInv
  <2>7. RowsInv'  BY <2>1, <2>2, RowsOutside
  <2>8. WithdrawnInv' /\ LeaveInv' /\ MailInv'
    BY <2>1, <2>2, <2>3 DEF WithdrawnInv, LeaveInv, MailInv
  <2>9. OneJobInv'  BY <2>1, <2>2, <2>3, <2>4 DEF OneJobInv
  <2>10. NoOrphans'  BY <2>1, <2>2, <2>3, <2>4 DEF NoOrphans, Busy
  <2>11. SentInv'  BY <2>1, <2>2, <2>3 DEF SentInv
  <2>12. BudgetInv'
    <3>1. Hot' = Hot /\ Sending' = Sending  BY <2>1, <2>4 DEF Hot, Sending, Loaded
    <3>2. ToCome' <=> ToCome  BY <2>1, <2>3, <2>4 DEF ToCome, Busy
    <3>3. OneCopy' <=> OneCopy  BY <2>1 DEF OneCopy
    <3> HIDE DEF Hot, Sending, ToCome, OneCopy
    <3> QED  BY <2>1, <2>2, <3>1, <3>2, <3>3 DEF BudgetInv
  <2>13. QuietInv'
    <3>1. ASSUME Quiet' PROVE QuietAll'
      <4>1. QuietAll  BY <2>1, <2>2, <3>1 DEF Quiet, Undisturbed, QuietInv, QuietAll
      <4>2. /\ QuietQueue' /\ (\A r \in Runner : QuietRun(r)')
            /\ \A r \in Busy : Settling(r)' <=> Settling(r)
        BY <2>1, <4>1, QuietSame DEF QuietAll
      <4>3. QuietRecord'  BY <2>1, <2>3, <4>1, <4>2 DEF QuietAll, QuietRecord, Live
      <4> QED  BY <4>2, <4>3 DEF QuietAll
    <3> QED  BY <3>1 DEF QuietInv, QuietAll
  <2>14. SteadyInv'
    <3>1. Steady' <=> Steady  BY <2>1 DEF Steady, Undisturbed
    <3>2. SteadyQueue' <=> SteadyQueue  BY <2>1, <2>3, <2>4 DEF SteadyQueue, Busy
    <3>3. SteadyRecord' <=> SteadyRecord  BY <2>1, <2>3 DEF SteadyRecord
    <3> QED  BY <2>2, <3>1, <3>2, <3>3 DEF SteadyInv
  <2> QED  BY <2>5, <2>6, <2>7, <2>8, <2>9, <2>10, <2>11, <2>12, <2>13, <2>14 DEF IInv
<1> QED  BY <1>1, <1>2

-----------------------------------------------------------------------------
(* The theorems.                                                           *)

\* The whole invariant: rows, runs, tokens and the quiet delivery.
THEOREM Invariance == Spec => []IInv
BY InitIInv, NextIInv, PTL DEF Spec

\* Type correctness, for any number of workers, jobs and attempts.
THEOREM TypeCorrect == Spec => []TypeOK
<1>1. IInv => TypeOK  BY DEF IInv
<1> QED  BY <1>1, Invariance, PTL

\* The relay takes one copy, and at most one more for each fault.
THEOREM OneCopyPerFaultHolds == Spec => []OneCopyPerFault
<1>1. IInv => OneCopyPerFault
  <2>1. SUFFICES ASSUME IInv, OneCopy PROVE accepted <= 1 + spent["faults"]
    BY DEF OneCopyPerFault, OneCopy
  <2>2. TypeOK /\ RowsInv /\ BudgetInv  BY <2>1 DEF IInv
  <2>3. /\ accepted \in Nat /\ spent["faults"] \in Nat
        /\ Cardinality(Hot) \in Nat /\ Cardinality(Sending) \in Nat
    BY <2>2, Typed, HotFinite DEF Bounds
  <2> HIDE DEF Hot, Sending, ToCome
  <2> QED  BY <2>1, <2>2, <2>3 DEF BudgetInv
<1> QED  BY <1>1, Invariance, PTL

\* A withdrawn message does not leave before it is allowed again.
THEOREM WithdrawnNeverLeavesHolds == Spec => WithdrawnNeverLeaves
<1>1. IInv /\ [Next]_vars => [accepted' # accepted => ~barred]_vars
  BY WithdrawnKept DEF IInv
<1> QED  BY <1>1, Invariance, PTL DEF Spec, WithdrawnNeverLeaves

\* An undisturbed delivery on its way has the one job that moves it on; a run
\* that times out may fail that job under it, and nothing finishes it.
THEOREM OnItsWayHolds == Spec => []OnItsWay
<1>1. IInv => OnItsWay
  <2>1. SUFFICES ASSUME IInv, Undisturbed, spent["throws"] = 0,
                        record.status \in {"Queued", "Retrying"}
                 PROVE  /\ record.job \in JobId
                        /\ spent["timeouts"] = 0 =>
                             /\ Live(record.job)
                             /\ \A j \in JobId : job[j].phase = "waiting" => j = record.job
                        /\ spent["replays"] = 0 =>
                             Live(record.job) \/ job[record.job].phase \in {"failed", "gone"}
    BY DEF OnItsWay
  <2>2. record.job \in JobId  BY <2>1 DEF IInv, RecordInv
  <2>3. ASSUME spent["timeouts"] = 0
        PROVE  Live(record.job) /\ \A j \in JobId : job[j].phase = "waiting" => j = record.job
    <3>1. QuietQueue /\ QuietRecord  BY <2>1, <2>3 DEF IInv, QuietInv, Quiet
    <3> QED  BY <2>1, <3>1 DEF QuietQueue, QuietRecord
  <2>4. ASSUME spent["replays"] = 0
        PROVE  Live(record.job) \/ job[record.job].phase \in {"failed", "gone"}
    <3>1. SteadyRecord  BY <2>1, <2>4 DEF IInv, SteadyInv, Steady
    <3>2. job[record.job].phase \notin {"none", "done", "cancelled"}  BY <2>1, <3>1 DEF SteadyRecord
    <3>3. job[record.job] \in JobRow  BY <2>1, <2>2, Typed DEF IInv
    <3> QED  BY <3>2, <3>3 DEF JobRow, Over, Live
  <2> QED  BY <2>2, <2>3, <2>4
<1> QED  BY <1>1, Invariance, PTL

LEMMA SentStep ==
  ASSUME IInv, Next, record.status = "Sent", spent["faults"] = 0, spent["retries"] <= 1,
         Mail => spent["switches"] = 0, spent'["replays"] = 0
  PROVE  record'.status \in {"Sent", "gone"}
<1>1. TypeOK /\ RecordInv /\ RowsInv /\ LeaveInv /\ SentInv  BY DEF IInv
<1>2. OneJob
  <2>1. "replays" \in Bounds  BY DEF Bounds
  <2>2. spent["replays"] \in Nat /\ spent'["replays"] >= spent["replays"]
    BY <1>1, <2>1, Typed, SpentGrows
  <2> QED  BY <2>2 DEF OneJob
<1>3. CASE Outside  BY <1>1, <1>3, OutsideSteps
<1>4. CASE NewJob
  <2>1. spent["replays"] \in Nat  BY <1>1, Typed DEF Bounds
  <2>2. spent'["replays"] # spent["replays"] + 1  BY <2>1
  <2> QED  BY <1>1, <1>4, <2>2, NewJobSteps
<1>5. ASSUME NEW j \in JobId, RowStep(j) PROVE record' = record
  BY <1>1, <1>5, RowSteps
<1>6. ASSUME NEW r \in Runner, Goes(r) PROVE record'.status = "Sent"
  <2>1. LeavesAlone(r) /\ Passes(r)  BY <1>1, <1>6, GoesSteps DEF RowsInv
  <2>2. run[r].pc \in {"load", "end"}
    BY <1>1, <1>2, <2>1 DEF SentInv, LeavesAlone, Busy
  <2>3. Mail => leave = "on"  BY <1>1 DEF LeaveInv
  <2> QED
    BY <2>1, <2>2, <2>3
       DEF Passes, Told, GivesUp, TurnedAway, Skips, Advances, Tries, Records
<1>7. ASSUME NEW r \in Runner, Claim(r) \/ End(r) \/ Crash(r) PROVE record' = record
  BY <1>1, <1>7, ClaimSteps, EndSteps, CrashSteps DEF RowsInv
<1> QED  BY <1>3, <1>4, <1>5, <1>6, <1>7, Groups

\* What was told as Sent stands, unless a fault, a second job or a refusal
\* interferes.
THEOREM SentStandsHolds == Spec => SentStands
<1> DEFINE A == (/\ record.status = "Sent" /\ spent["faults"] = 0 /\ spent["retries"] <= 1
                 /\ Mail => spent["switches"] = 0
                 /\ spent'["replays"] = 0) => record'.status \in {"Sent", "gone"}
<1>1. IInv /\ [Next]_vars => [A]_vars  BY SentStep
<1> QED  BY <1>1, Invariance, PTL DEF Spec, SentStands

-----------------------------------------------------------------------------
(* The queue as promised.                                                  *)

Same(j) == job'[j].runs = job[j].runs /\ job'[j].asked = job[j].asked

\* The moves of a row, by its phase.
Moves(j) ==
  LET p == job[j].phase
      q == job'[j].phase IN
  \/ q = p /\ Same(j)
  \/ p = "none" /\ q = "waiting" /\ Same(j)
  \/ /\ p = "waiting" /\ ~job[j].asked /\ q = "active"
     /\ job'[j].runs = job[j].runs + 1 /\ job'[j].asked = job[j].asked
  \/ p = "active" /\ q \in {"waiting", "done"} /\ Same(j)
  \/ /\ p \in {"active", "waiting"} /\ q = IF p = "waiting" THEN "cancelled" ELSE "active"
     /\ job'[j].runs = job[j].runs /\ job'[j].asked = TRUE
  \/ p = "active" /\ q = "failed" /\ job[j].runs >= MaxAttempts /\ Same(j)
  \/ p = "active" /\ q = "cancelled" /\ job[j].asked /\ Same(j)
  \/ p \in Over /\ q = "gone"

LEMMA MoveIsStep ==
  ASSUME NEW j \in JobId, Moves(j)
  PROVE  Queue!Step(j)
<1> DEFINE p == job[j].phase
           q == job'[j].phase
<1>1. Same(j) => Queue!Keep(j)  BY DEF Same, Queue!Keep
<1> USE DEF Queue!Step
<1>2. CASE q = p /\ Same(j)  BY <1>1, <1>2 DEF Queue!Stay
<1>3. CASE p = "none" /\ q = "waiting" /\ Same(j)  BY <1>1, <1>3 DEF Queue!Submit
<1>4. CASE /\ p = "waiting" /\ ~job[j].asked /\ q = "active"
           /\ job'[j].runs = job[j].runs + 1 /\ job'[j].asked = job[j].asked
  BY <1>4 DEF Queue!Begin
<1>5. CASE p = "active" /\ q \in {"waiting", "done"} /\ Same(j)
  BY <1>1, <1>5 DEF Queue!Yield, Queue!Succeed
<1>6. CASE /\ p \in {"active", "waiting"} /\ q = IF p = "waiting" THEN "cancelled" ELSE "active"
           /\ job'[j].runs = job[j].runs /\ job'[j].asked = TRUE
  BY <1>6 DEF Queue!Ask
<1>7. CASE p = "active" /\ q = "failed" /\ job[j].runs >= MaxAttempts /\ Same(j)
  BY <1>1, <1>7 DEF Queue!Fail
<1>8. CASE p = "active" /\ q = "cancelled" /\ job[j].asked /\ Same(j)
  BY <1>1, <1>8 DEF Queue!Cancel
<1>9. CASE p \in Over /\ q = "gone"  BY <1>9 DEF Queue!Forget, Queue!Over, Over
<1> QED  BY <1>2, <1>3, <1>4, <1>5, <1>6, <1>7, <1>8, <1>9 DEF Moves

LEMMA NextMoves ==
  ASSUME TypeOK, RecordInv, RowsInv, Next, NEW j \in JobId
  PROVE  Moves(j)
<1>1. job'[j] = job[j] => Moves(j)  BY DEF Moves, Same
<1>2. CASE Outside  BY <1>1, <1>2, OutsideSteps
<1>3. CASE NewJob
  <2>1. PICK n \in JobId : job[n].phase = "none" /\ job' = [job EXCEPT ![n] = Queued]
    BY <1>3, NewJobSteps
  <2>2. job'[n] = Queued /\ (n # j => job'[j] = job[j])  BY <2>1 DEF TypeOK
  <2>3. job[n] = NoJob  BY <2>1 DEF RowsInv, RowInv
  <2>4. Queued.phase = "waiting" /\ Queued.runs = NoJob.runs /\ Queued.asked = NoJob.asked
    BY DEF Queued, NoJob
  <2>5. n = j => Moves(j)  BY <2>1, <2>2, <2>3, <2>4 DEF Moves, Same
  <2> QED  BY <1>1, <2>2, <2>5
<1>4. ASSUME NEW i \in JobId, RowStep(i) PROVE Moves(j)
  <2>1. i # j => job'[j] = job[j]  BY <1>4, RowSteps
  <2>2. ASSUME i = j PROVE Moves(j)
    <3>1. /\ job'[j].runs = job[j].runs
          /\ \/ /\ Live(j) /\ job'[j].asked
                /\ job'[j].phase = IF job[j].phase = "waiting" THEN "cancelled" ELSE "active"
             \/ job[j].phase \in Over /\ job'[j].phase = "gone" /\ job'[j].asked = job[j].asked
             \/ /\ job[j].phase = "active" /\ job'[j].asked = job[j].asked
                /\ \/ job'[j].phase = "cancelled" /\ job[j].asked
                   \/ job'[j].phase = "waiting"
                   \/ job'[j].phase = "failed" /\ job[j].attempts >= MaxAttempts
      BY <1>4, <2>2, RowSteps
    <3>2. job'[j].asked => job'[j].asked = TRUE
      <4>1. TypeOK'  BY <1>4, RowSteps
      <4>2. job'[j] \in JobRow  BY <4>1 DEF TypeOK
      <4> QED  BY <4>2 DEF JobRow
    <3>3. job[j].attempts >= MaxAttempts => job[j].runs >= MaxAttempts
      <4>1. job[j].attempts \in Nat /\ job[j].runs \in Nat /\ job[j].attempts <= job[j].runs
        BY Typed DEF RowsInv, RowInv
      <4> QED  BY <4>1, BoundsAssumption
    <3> QED  BY <3>1, <3>2, <3>3 DEF Moves, Same, Live
  <2> QED  BY <1>1, <2>1, <2>2
<1>5. ASSUME NEW r \in Runner, Goes(r) PROVE Moves(j)
  <2>1. job' = job  BY <1>5, GoesSteps DEF RowsInv, LeavesAlone
  <2> QED  BY <1>1, <2>1
<1>6. ASSUME NEW r \in Runner, Claim(r) PROVE Moves(j)
  <2>1. PICK i \in JobId :
          /\ job[i].phase = "waiting" /\ ~job[i].asked
          /\ job'[i].phase = "active" /\ ~job'[i].asked /\ job'[i].runs = job[i].runs + 1
          /\ \A k \in JobId : k # i => job'[k] = job[k]
    BY <1>6, ClaimSteps
  <2>2. job[i].asked \in BOOLEAN /\ job'[i].asked \in BOOLEAN
    <3>1. TypeOK'  BY <1>6, ClaimSteps
    <3>2. job'[i] \in JobRow  BY <3>1 DEF TypeOK
    <3> QED  BY <3>2, Typed DEF JobRow
  <2>3. job'[i].asked = job[i].asked  BY <2>1, <2>2
  <2>4. i = j => Moves(j)  BY <2>1, <2>3 DEF Moves
  <2> QED  BY <1>1, <2>1, <2>4
<1>7. ASSUME NEW r \in Runner, Crash(r) PROVE Moves(j)
  BY <1>1, <1>7, CrashSteps
<1>8. ASSUME NEW r \in Runner, End(r) PROVE Moves(j)
  <2>1. RunInv(r) /\ run[r].pc = "end"  BY <1>8, EndSteps DEF RowsInv
  <2>2. (j # run[r].job \/ ~Owns(r)) => Moves(j)  BY <1>1, <1>8, <2>1, EndSteps
  <2>3. ASSUME j = run[r].job, Owns(r) PROVE Moves(j)
    <3>1. /\ Same(j) /\ job[j].phase = "active"
          /\ \/ job'[j].phase \in {"done", "waiting"}
             \/ job'[j].phase = "cancelled" /\ run[r].stop = "cancelled"
             \/ job'[j].phase = "failed" /\ ~(job[j].attempts < MaxAttempts)
      BY <1>8, <2>1, <2>3, EndSteps DEF Owns, Same
    <3>2. run[r].stop = "cancelled" => job[j].asked  BY <2>1, <2>3 DEF RunInv
    <3>3. ~(job[j].attempts < MaxAttempts) => job[j].runs >= MaxAttempts
      <4>1. job[j].attempts \in Nat /\ job[j].runs \in Nat /\ job[j].attempts <= job[j].runs
        BY Typed DEF RowsInv, RowInv
      <4> QED  BY <4>1, BoundsAssumption
    <3> QED  BY <3>1, <3>2, <3>3 DEF Moves
  <2> QED  BY <2>2, <2>3
<1> QED  BY <1>2, <1>3, <1>4, <1>5, <1>6, <1>7, <1>8, Groups

\* What this module assumes of the queue is what JobLifecycle promises.
THEOREM QueueAsPromisedHolds == Spec => QueueAsPromised
<1>1. Init => Queue!Init
  <2>1. NoJob.phase = "none" /\ NoJob.runs = 0 /\ NoJob.asked = FALSE  BY DEF NoJob
  <2> QED  BY <2>1 DEF Init, Queue!Init
<1>2. IInv /\ [Next]_vars => [Queue!Next]_Queue!vars
  <2>1. ASSUME IInv, Next PROVE Queue!Next
    BY <2>1, NextMoves, MoveIsStep DEF IInv, Queue!Next
  <2>2. ASSUME UNCHANGED vars PROVE UNCHANGED Queue!vars
    BY <2>2 DEF vars, Queue!vars
  <2> QED  BY <2>1, <2>2
<1> QED  BY <1>1, <1>2, Invariance, PTL DEF Spec, QueueAsPromised, Queue!Spec
===============================================================================

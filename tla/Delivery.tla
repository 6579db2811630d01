------------------------------ MODULE Delivery ------------------------------
(***************************************************************************)
(* One outgoing message over the job queue: an Email Delivery, sent by SMTP *)
(* or by an app's own transport function (internal/engine/mailqueue.go), or *)
(* a Webhook Delivery (internal/engine/webhooks.go), with what both share   *)
(* (outbox.go).  The record and its job are written on one transaction; the *)
(* outcome is written on the pool, by whoever believes it is delivering.    *)
(*                                                                         *)
(* The queue is here as JobLifecycle promises it, with the attempts that    *)
(* decide a last try; JobQueue is where that promise is checked.  Workers   *)
(* crash, lose their lease while they run, time out, and are cancelled or    *)
(* shut down.                                                               *)
(***************************************************************************)
EXTENDS Naturals, FiniteSets, FiniteSetsExt

CONSTANTS
  Kinds,        \* the transports: a subset of {"smtp", "method", "webhook"}
  Runner,       \* workers that may run a delivery's job
  MaxJobs,      \* bound: jobs ever queued for the message
  MaxAttempts,  \* max_attempts of each of them
  MaxFaults,    \* bound: crashes, leases lost while running, outcomes not recorded
  MaxStops,     \* bound: shutdowns that interrupt a run
  MaxTimeouts,  \* bound: runs that outlast the timeout of their job
  MaxCancels,   \* bound: jobs an administrator cancels
  MaxRetries,   \* bound: jobs an administrator retries
  MaxReplays,   \* bound: replays of the delivery
  MaxSwitches,  \* bound: times the message is withdrawn or allowed again
  MaxThrows,    \* bound: templates that throw, and reads that fail
  MaxPurges,    \* bound: jobs the retention pass deletes
  MaxTrouble    \* bound: all of these together

ASSUME KindsAssumption == Kinds \subseteq {"smtp", "method", "webhook"}
ASSUME BoundsAssumption ==
  /\ MaxJobs \in Nat \ {0} /\ MaxAttempts \in Nat \ {0}
  /\ MaxFaults \in Nat /\ MaxStops \in Nat /\ MaxTimeouts \in Nat
  /\ MaxCancels \in Nat /\ MaxRetries \in Nat
  /\ MaxReplays \in Nat /\ MaxSwitches \in Nat /\ MaxThrows \in Nat
  /\ MaxPurges \in Nat /\ MaxTrouble \in Nat

VARIABLES
  kind,      \* how this message travels
  record,    \* its row: tab_email_delivery or tab_webhook_delivery
  job,       \* the rows of ddcore_job queued for it, by id
  run,       \* what each worker holds in memory
  leave,     \* whether it may leave: the webhook's row, or the notification behind a mail
  barred,    \* history: withdrawn while no run was past its check
  accepted,  \* history: how many times the other side took the message
  spent      \* how much of each bound has been used

vars == <<kind, record, job, run, leave, barred, accepted, spent>>

JobId == 1..MaxJobs
Over  == {"done", "failed", "cancelled"}
Final == {"Sent", "Failed", "Uncertain"}

RecordRow ==
  [status: Final \cup {"none", "Queued", "Retrying", "gone"}, attempts: Nat, job: 0..MaxJobs]

JobRow ==
  [phase: Over \cup {"none", "waiting", "active", "gone"}, runs: Nat, attempts: Nat, asked: BOOLEAN]

\* pc names what the run does next.  "check" is DeliverMail's, or the read of
\* the webhook's row; note and ok are the outcome and the job's result it is
\* about to record; stop is why it was told to stop.
RunMem ==
  [pc: {"idle", "load", "weigh", "check", "send", "record", "end"},
   job: 0..MaxJobs, attempt: Nat, last: BOOLEAN,
   note: Final \cup {"none", "Retrying"}, ok: BOOLEAN,
   stop: {"no", "cancelled", "lost", "shutdown", "timeout"}]

Bounds ==
  {"faults", "stops", "timeouts", "cancels", "retries", "replays", "switches", "throws", "purges"}

Limit ==
  [faults |-> MaxFaults, stops |-> MaxStops, timeouts |-> MaxTimeouts,
   cancels |-> MaxCancels, retries |-> MaxRetries,
   replays |-> MaxReplays, switches |-> MaxSwitches, throws |-> MaxThrows, purges |-> MaxPurges]

Trouble == MapThenSumSet(LAMBDA b : spent[b], Bounds)

Spend(b) == spent[b] < Limit[b] /\ Trouble < MaxTrouble /\ spent' = [spent EXCEPT ![b] = @ + 1]

NoJob   == [phase |-> "none", runs |-> 0, attempts |-> 0, asked |-> FALSE]
Queued  == [NoJob EXCEPT !.phase = "waiting"]
NotRunning ==
  [pc |-> "idle", job |-> 0, attempt |-> 0, last |-> FALSE, note |-> "none", ok |-> FALSE, stop |-> "no"]

Init ==
  /\ kind \in Kinds
  /\ record = [status |-> "none", attempts |-> 0, job |-> 0]
  /\ job = [j \in JobId |-> NoJob]
  /\ run = [r \in Runner |-> NotRunning]
  /\ leave = "on" /\ barred = FALSE
  /\ accepted = 0
  /\ spent = [b \in Bounds |-> 0]

Mail == kind # "webhook"

Fresh(j) == job[j].phase = "none" /\ \A i \in 1..(j - 1) : job[i].phase # "none"

\* Still on its way, as far as the queue is concerned.
Live(j) == job[j].phase \in {"waiting", "active"}

Set(r, m) == run' = [run EXCEPT ![r] = m]

-----------------------------------------------------------------------------
(* The application and the administrator.                                  *)

\* Mutant: the record is not stamped with its job.
MutQueueDelivery ==
  /\ record.status = "none"
  /\ job' = [job EXCEPT ![1] = Queued]
  /\ record' = [record EXCEPT !.status = "Queued"]
  /\ UNCHANGED <<kind, run, leave, barred, accepted, spent>>

\* queueDelivery: the record, its job and the stamp commit together.
QueueDelivery ==
  /\ record.status = "none"
  /\ job' = [job EXCEPT ![1] = Queued]
  /\ record' = [record EXCEPT !.status = "Queued", !.job = 1]
  /\ UNCHANGED <<kind, run, leave, barred, accepted, spent>>

\* QueueMail: a recipient is left, and the attachments are within limits.
QueueMail == Mail /\ QueueDelivery

\* One event for one subscription, by this process's cached subscriptions,
\* which may lag behind the webhook's row: so whatever leave says.
QueueWebhook == ~Mail /\ QueueDelivery

\* ReplayWebhook, under the row's lock: a finished delivery starts again.
Replay ==
  /\ kind = "webhook"
  /\ record.status \in {"Sent", "Failed"} /\ leave # "deleted"
  /\ Spend("replays")
  /\ \E j \in JobId :
       /\ Fresh(j)
       /\ job' = [job EXCEPT ![j] = Queued]
       /\ record' = [status |-> "Queued", attempts |-> 0, job |-> j]
  /\ UNCHANGED <<kind, run, leave, barred, accepted>>

\* RetryJob copies the job and leaves the record's stamp as it is.
Retry(j) ==
  /\ job[j].phase \in {"failed", "cancelled"}
  /\ Spend("retries")
  /\ \E n \in JobId : Fresh(n) /\ job' = [job EXCEPT ![n] = Queued]
  /\ UNCHANGED <<kind, record, run, leave, barred, accepted>>

\* CancelJob: at once while the job waits, a request while it runs.
CancelJob(j) ==
  /\ Live(j) /\ ~job[j].asked
  /\ Spend("cancels")
  /\ job' = [job EXCEPT ![j].asked = TRUE,
                        ![j].phase = IF @ = "waiting" THEN "cancelled" ELSE @]
  /\ UNCHANGED <<kind, record, run, leave, barred, accepted>>

\* The retention pass of the queue, over what a record may still name.
PurgeJob(j) ==
  /\ job[j].phase \in Over
  /\ Spend("purges")
  /\ job' = [job EXCEPT ![j].phase = "gone"]
  /\ UNCHANGED <<kind, record, run, leave, barred, accepted>>

\* SweepWebhookDeliveries: finished deliveries past the site's retention.
SweepDeliveries ==
  /\ kind = "webhook"
  /\ record.status \in {"Sent", "Failed"}
  /\ record' = [record EXCEPT !.status = "gone"]
  /\ UNCHANGED <<kind, job, run, leave, barred, accepted, spent>>

\* The webhook is disabled, deleted or loses its secret; the notification is
\* resolved, or its reader loses access to what it is about.
Withdraw(to) ==
  /\ leave = "on" \/ (leave = "off" /\ to = "deleted")
  /\ to = "deleted" => kind = "webhook"
  /\ Spend("switches")
  /\ leave' = to
  /\ barred' = (\A r \in Runner : run[r].pc # "send")
  /\ UNCHANGED <<kind, record, job, run, accepted>>

\* The webhook is enabled again, or access is granted again.
Allow ==
  /\ leave = "off"
  /\ Spend("switches")
  /\ leave' = "on" /\ barred' = FALSE
  /\ UNCHANGED <<kind, record, job, run, accepted>>

-----------------------------------------------------------------------------
(* The queue around a run.                                                 *)

\* The fence of a terminal write, and of the lease's renewal.
Owns(r) ==
  LET m == run[r] IN
    m.job \in JobId /\ job[m.job].phase = "active" /\ job[m.job].attempts = m.attempt

\* Mutant: a job asked to be cancelled is claimed.
MutClaim(r) ==
  /\ run[r].pc = "idle"
  /\ \E j \in JobId :
       /\ job[j].phase = "waiting"
       /\ job' = [job EXCEPT ![j].phase = "active", ![j].runs = @ + 1, ![j].attempts = @ + 1]
       /\ Set(r, [NotRunning EXCEPT !.pc = "load", !.job = j, !.attempt = job[j].attempts + 1])
  /\ UNCHANGED <<kind, record, leave, barred, accepted, spent>>

\* claimAndRun: a job nobody asked to cancel, and one more attempt of it.
Claim(r) ==
  /\ run[r].pc = "idle"
  /\ \E j \in JobId :
       /\ job[j].phase = "waiting" /\ ~job[j].asked
       /\ job' = [job EXCEPT ![j].phase = "active", ![j].runs = @ + 1, ![j].attempts = @ + 1]
       /\ Set(r, [NotRunning EXCEPT !.pc = "load", !.job = j, !.attempt = job[j].attempts + 1])
  /\ UNCHANGED <<kind, record, leave, barred, accepted, spent>>

\* An attempt that is over without success.
Spent(row) ==
  [row EXCEPT !.phase = IF row.attempts < MaxAttempts THEN "waiting" ELSE "failed"]

\* The lease runs out and the sweep takes the job back; a fault when its
\* worker is alive and will go on.
Sweep(j) ==
  /\ job[j].phase = "active"
  /\ IF \E r \in Runner : run[r].job = j /\ Owns(r) THEN Spend("faults") ELSE UNCHANGED spent
  /\ job' = [job EXCEPT ![j] = IF @.asked THEN [@ EXCEPT !.phase = "cancelled"] ELSE Spent(@)]
  /\ UNCHANGED <<kind, record, run, leave, barred, accepted>>

\* The heartbeat finds the request to cancel, also after the run timed out, or
\* that the lease is lost.
Beat(r) ==
  /\ run[r].pc # "idle" /\ run[r].stop \in {"no", "timeout"}
  /\ \/ job[run[r].job].asked /\ Set(r, [run[r] EXCEPT !.stop = "cancelled"])
     \/ ~Owns(r) /\ Set(r, [run[r] EXCEPT !.stop = "lost"])
  /\ UNCHANGED <<kind, record, job, leave, barred, accepted, spent>>

\* The worker is stopping and its grace ran out.
Shutdown(r) ==
  /\ run[r].pc # "idle" /\ run[r].stop = "no"
  /\ Spend("stops")
  /\ Set(r, [run[r] EXCEPT !.stop = "shutdown"])
  /\ UNCHANGED <<kind, record, job, leave, barred, accepted>>

\* The run outlasts its job's timeout.
TimesOut(r) ==
  /\ run[r].pc # "idle" /\ run[r].stop = "no"
  /\ Spend("timeouts")
  /\ Set(r, [run[r] EXCEPT !.stop = "timeout"])
  /\ UNCHANGED <<kind, record, job, leave, barred, accepted>>

Crash(r) ==
  /\ run[r].pc # "idle"
  /\ Spend("faults")
  /\ Set(r, NotRunning)
  /\ UNCHANGED <<kind, record, job, leave, barred, accepted>>

Ends(r, ok) == Set(r, [run[r] EXCEPT !.pc = "end", !.ok = ok])

\* A run that was told to stop is interrupted while it is in JavaScript: before
\* the delivery is loaded, and for a mail while its template is rendered.
Interrupted(r) ==
  /\ run[r].stop # "no"
  /\ run[r].pc = "load" \/ (Mail /\ run[r].pc = "check")
  /\ Ends(r, FALSE)
  /\ UNCHANGED <<kind, record, job, leave, barred, accepted, spent>>

\* What claimAndRun makes of the row of a run it still owns: one that timed out
\* has spent its attempt.
Settled(r, row, ok) ==
  IF ok THEN [row EXCEPT !.phase = "done"]
  ELSE IF run[r].stop = "cancelled" THEN [row EXCEPT !.phase = "cancelled"]
  ELSE IF run[r].stop = "shutdown" THEN [row EXCEPT !.phase = "waiting", !.attempts = @ - 1]
  ELSE Spent(row)

\* The end of a run.  One that was told to stop may be interrupted between the
\* record of its outcome and its return.
End(r) ==
  /\ run[r].pc = "end"
  /\ \E ok \in {run[r].ok, run[r].ok /\ run[r].stop = "no"} :
       job' = IF Owns(r) THEN [job EXCEPT ![run[r].job] = Settled(r, @, ok)] ELSE job
  /\ Set(r, NotRunning)
  /\ UNCHANGED <<kind, record, leave, barred, accepted, spent>>

-----------------------------------------------------------------------------
(* The delivery itself.                                                    *)

\* recordDelivery: on the pool, by id alone; nothing when the row is gone.
Recorded(s) == IF record.status = "gone" THEN record ELSE [record EXCEPT !.status = s]

Counted == IF record.status = "gone" THEN record ELSE [record EXCEPT !.attempts = @ + 1]

\* LoadMail: a refused mail is recorded as failed, one that has left (or may
\* have) is skipped, and otherwise the attempt is counted.
LoadMail(r) ==
  /\ Mail /\ run[r].pc = "load"
  /\ IF leave # "on"
     THEN /\ record' = Recorded("Failed")
          /\ Ends(r, TRUE)
     ELSE IF record.status \in {"Sent", "Uncertain"}
     THEN Ends(r, TRUE) /\ UNCHANGED record
     ELSE /\ record' = Counted
          /\ Set(r, [run[r] EXCEPT !.pc = "check"])
  /\ UNCHANGED <<kind, job, leave, barred, accepted, spent>>

\* A read of the database fails before the message is on its way, or the
\* template of a mail throws between LoadMail and DeliverMail: nothing is recorded.
FailsEarly(r) ==
  /\ run[r].pc \in {"load", "weigh", "check"}
  /\ Spend("throws")
  /\ Ends(r, FALSE)
  /\ UNCHANGED <<kind, record, job, leave, barred, accepted>>

\* Mutant: DeliverMail relies on the check LoadMail made.
MutDeliverMail(r) ==
  /\ Mail /\ run[r].pc = "check"
  /\ Set(r, [run[r] EXCEPT !.pc = "send"])
  /\ UNCHANGED <<kind, record, job, leave, barred, accepted, spent>>

\* DeliverMail up to the transport: the refusal is asked for again.
DeliverMail(r) ==
  /\ Mail /\ run[r].pc = "check"
  /\ IF leave # "on"
     THEN Ends(r, TRUE) /\ record' = Recorded("Failed")
     ELSE Set(r, [run[r] EXCEPT !.pc = "send"]) /\ UNCHANGED record
  /\ UNCHANGED <<kind, job, leave, barred, accepted, spent>>

\* Mutant: a delivery that was Sent is sent again.
MutLoadWebhook(r) ==
  /\ ~Mail /\ run[r].pc = "load"
  /\ IF record.status = "gone"
     THEN Ends(r, TRUE) /\ UNCHANGED record
     ELSE /\ record' = Counted
          /\ Set(r, [run[r] EXCEPT !.pc = "weigh"])
  /\ UNCHANGED <<kind, job, leave, barred, accepted, spent>>

\* DeliverWebhook: the row, and the attempt counted.
LoadWebhook(r) ==
  /\ ~Mail /\ run[r].pc = "load"
  /\ IF record.status \in {"gone", "Sent"}
     THEN Ends(r, TRUE) /\ UNCHANGED record
     ELSE /\ record' = Counted
          /\ Set(r, [run[r] EXCEPT !.pc = "weigh"])
  /\ UNCHANGED <<kind, job, leave, barred, accepted, spent>>

\* Mutant: the attempt before the last is taken for the last.
MutWeigh(r) ==
  /\ run[r].pc = "weigh"
  /\ LET j == record.job IN
       Set(r, [run[r] EXCEPT !.pc = "check",
                 !.last = (j \in JobId /\ job[j].phase # "gone") => job[j].attempts > MaxAttempts])
  /\ UNCHANGED <<kind, record, job, leave, barred, accepted, spent>>

\* Whether this is the last try, by the job the record names; a job that is
\* not there any more counts as out of attempts.
Weigh(r) ==
  /\ run[r].pc = "weigh"
  /\ LET j == record.job IN
       Set(r, [run[r] EXCEPT !.pc = "check",
                 !.last = (j \in JobId /\ job[j].phase # "gone") => job[j].attempts >= MaxAttempts])
  /\ UNCHANGED <<kind, record, job, leave, barred, accepted, spent>>

\* The webhook and its secret as they are now.
CheckWebhook(r) ==
  /\ ~Mail /\ run[r].pc = "check"
  /\ Set(r, IF leave = "on" THEN [run[r] EXCEPT !.pc = "send"]
            ELSE [run[r] EXCEPT !.pc = "record", !.note = "Failed", !.ok = TRUE])
  /\ UNCHANGED <<kind, record, job, leave, barred, accepted, spent>>

\* The answer to one try leaves this note, and this result of the job, behind.
Answered(r, taken, note, ok) ==
  /\ run[r].pc = "send"
  /\ accepted' = IF taken THEN accepted + 1 ELSE accepted
  /\ Set(r, [run[r] EXCEPT !.pc = "record", !.note = note, !.ok = ok])
  /\ UNCHANGED <<kind, record, job, leave, barred, spent>>

\* The other side takes the message and says so.
Taken(r) == Answered(r, TRUE, "Sent", TRUE)

\* Mutant: the answer to the final dot that never came is an ordinary failure.
MutNoAnswer(r) ==
  \E taken \in BOOLEAN : kind = "smtp" /\ Answered(r, taken, "Failed", FALSE)

\* It may have taken the message, and the answer is lost: Uncertain by SMTP,
\* which is not retried; a failure of an app's transport; a try worth
\* repeating for a webhook, whose receiver can tell.
NoAnswer(r) ==
  \E taken \in BOOLEAN :
    \/ kind = "smtp" /\ Answered(r, taken, "Uncertain", TRUE)
    \/ kind = "method" /\ Answered(r, taken, "Failed", FALSE)
    \/ kind = "webhook" /\ Answered(r, taken, IF run[r].last THEN "Failed" ELSE "Retrying", FALSE)

\* It says no: a failed try of a mail, the last word on a webhook.
Refused(r) ==
  \/ Mail /\ Answered(r, FALSE, "Failed", FALSE)
  \/ ~Mail /\ Answered(r, FALSE, "Failed", TRUE)

\* An app's transport is called from JavaScript: told to stop, or out of time,
\* the run is interrupted in it or after it, and records nothing.
TransportInterrupted(r) ==
  /\ kind = "method" /\ run[r].pc = "send" /\ run[r].stop # "no"
  /\ accepted' \in {accepted, accepted + 1}
  /\ Ends(r, FALSE)
  /\ UNCHANGED <<kind, record, job, leave, barred, spent>>

\* The outcome is written, or the write fails, which is only logged.
Record(r) ==
  /\ run[r].pc = "record"
  /\ \/ record' = Recorded(run[r].note) /\ UNCHANGED spent
     \/ Spend("faults") /\ UNCHANGED record
  /\ Ends(r, run[r].ok)
  /\ UNCHANGED <<kind, job, leave, barred, accepted>>

-----------------------------------------------------------------------------
Deliver(r) ==
  \/ LoadMail(r) \/ DeliverMail(r) \/ FailsEarly(r)
  \/ LoadWebhook(r) \/ Weigh(r) \/ CheckWebhook(r)
  \/ Taken(r) \/ NoAnswer(r) \/ Refused(r) \/ TransportInterrupted(r)
  \/ Record(r)

RunStep(r) == Claim(r) \/ Deliver(r) \/ Interrupted(r) \/ End(r)

Next ==
  \/ QueueMail \/ QueueWebhook \/ Replay \/ SweepDeliveries \/ Allow
  \/ \E to \in {"off", "deleted"} : Withdraw(to)
  \/ \E j \in JobId : Retry(j) \/ CancelJob(j) \/ PurgeJob(j) \/ Sweep(j)
  \/ \E r \in Runner : RunStep(r) \/ Beat(r) \/ Shutdown(r) \/ TimesOut(r) \/ Crash(r)

Spec == Init /\ [][Next]_vars

\* Workers take their next step, and a lease nobody renews runs out.
Fairness ==
  /\ \A r \in Runner : WF_vars(RunStep(r))
  /\ \A j \in JobId : WF_vars(Sweep(j) /\ spent' = spent)

FairSpec == Spec /\ Fairness

-----------------------------------------------------------------------------
(* Properties.                                                             *)

\* Every variable holds values of its type.
TypeOK ==
  /\ kind \in Kinds
  /\ record \in RecordRow
  /\ job \in [JobId -> JobRow]
  /\ run \in [Runner -> RunMem]
  /\ leave \in {"on", "off", "deleted"} /\ barred \in BOOLEAN
  /\ accepted \in Nat
  /\ spent \in [Bounds -> Nat]

\* The relay takes one message once: neither an answer that never came, nor a
\* cancellation, a retry by hand, a shutdown, a timeout or a template that throws
\* sends a second copy.  Each fault -- a crash, a lease lost under a run, an outcome
\* that could not be recorded -- can cost one more, and no more than one.  The
\* message is not withdrawn and then allowed again (see FailedDidNotGo), and its
\* job is retried by hand once: two retries of one job queue two copies of it,
\* as JobQueue has them, which run side by side.
OneCopyPerFault ==
  (kind = "smtp" /\ spent["switches"] <= 1 /\ spent["retries"] <= 1) =>
    accepted <= 1 + spent["faults"]

\* A message withdrawn while no run was past its check never leaves until it is
\* allowed again, however many attempts are still to come: neither a resolved
\* notification nor a disabled webhook sends on a retry.
WithdrawnNeverLeaves == [][accepted' # accepted => ~barred]_vars

Undisturbed == \A b \in {"faults", "stops", "cancels", "retries"} : spent[b] = 0

\* Undisturbed, a delivery on its way has one job that will move it on: Retrying
\* and Queued name a job that waits or runs, and nothing else is under way.  A
\* run that times out may leave it so (an app's transport records nothing), but
\* then its job says failed: no job is done under it.
OnItsWay ==
  (Undisturbed /\ spent["throws"] = 0 /\ record.status \in {"Queued", "Retrying"}) =>
    /\ record.job \in JobId
    /\ spent["timeouts"] = 0 =>
         Live(record.job) /\ \A j \in JobId : job[j].phase = "waiting" => j = record.job
    /\ spent["replays"] = 0 =>
         Live(record.job) \/ job[record.job].phase \in {"failed", "gone"}

\* What was told as Sent is not taken back by a late attempt, whatever is
\* cancelled, retried by hand once, shut down or given back in between: only a
\* fault, a second job beside the first (two retries by hand, a replay) or a
\* refused mail (see FailedDidNotGo) can change it.
SentStands ==
  [][(/\ record.status = "Sent" /\ spent["faults"] = 0 /\ spent["retries"] <= 1
      /\ Mail => spent["switches"] = 0
      /\ spent'["replays"] = 0) => record'.status \in {"Sent", "gone"}]_vars

\* A message that is queued comes to an outcome, unless a fault, a cancellation
\* or a template or read that fails got in its way: shutdowns, retries by hand,
\* receivers that fail and switches of the webhook do not leave it half way, and
\* a run that times out leaves it so only with its job over.
ComesToAnOutcome ==
  record.status = "Queued" ~>
    \/ record.status \in Final \cup {"gone"}
    \/ spent["faults"] + spent["cancels"] + spent["throws"] > 0
    \/ spent["timeouts"] > 0 /\ job[record.job].phase \in Over \cup {"gone"}

\* Every step is a move the queue's promise allows for every job.
Queue ==
  INSTANCE JobLifecycle WITH
    Job <- JobId,
    phase <- [j \in JobId |-> job[j].phase],
    runs <- [j \in JobId |-> job[j].runs],
    asked <- [j \in JobId |-> job[j].asked]

\* The queue this module assumes is the one JobQueue implements: a cancelled job
\* is not begun again, an outcome is kept, and only what is over is forgotten.
QueueAsPromised == Queue!Spec

-----------------------------------------------------------------------------
(* What the documentation says, and the code does not do.                  *)

\* docs/agent/webhooks.md: Retrying means another attempt is scheduled.
RetryingIsScheduled == record.status = "Retrying" => \E j \in JobId : Live(j)

\* docs/agent/mail.md: a mail that is Failed, with no run under way, did not go.
FailedDidNotGo ==
  (kind = "smtp" /\ record.status = "Failed" /\ \A r \in Runner : run[r].pc = "idle") => accepted = 0

\* docs/agent/mail.md:113: Queued is a mail that was not yet attempted.
QueuedIsUntried ==
  (Mail /\ record.status = "Queued" /\ \A r \in Runner : run[r].pc = "idle") => accepted = 0
=============================================================================

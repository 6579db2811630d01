---------------------------- MODULE JobLifecycle ----------------------------
(***************************************************************************)
(* What the queue promises the code that enqueues a job, one job at a time  *)
(* and without workers, leases or fences: the statuses of docs/agent/ops.md *)
(* and the moves between them.  JobQueue implements it.                      *)
(***************************************************************************)
EXTENDS Naturals

CONSTANTS
  Job,          \* job numbers
  MaxAttempts   \* attempts a job has before it fails

VARIABLES
  phase,   \* where each job is
  runs,    \* how many times a worker began it
  asked    \* whether somebody asked for it to be cancelled

vars == <<phase, runs, asked>>

Over == {"done", "failed", "cancelled"}

Init ==
  /\ phase = [j \in Job |-> "none"]
  /\ runs = [j \in Job |-> 0]
  /\ asked = [j \in Job |-> FALSE]

Keep(j) == runs'[j] = runs[j] /\ asked'[j] = asked[j]

Submit(j) == phase[j] = "none" /\ phase'[j] = "waiting" /\ Keep(j)

\* A worker begins the job; never once its cancellation has been asked for.
Begin(j) ==
  /\ phase[j] = "waiting" /\ ~asked[j]
  /\ phase'[j] = "active"
  /\ runs'[j] = runs[j] + 1 /\ asked'[j] = asked[j]

\* The run ended without an outcome: it failed with attempts left, was given
\* back, or its worker died.
Yield(j) == phase[j] = "active" /\ phase'[j] = "waiting" /\ Keep(j)

Ask(j) ==
  /\ phase[j] \in {"active", "waiting"}
  /\ phase'[j] = IF phase[j] = "waiting" THEN "cancelled" ELSE "active"
  /\ runs'[j] = runs[j] /\ asked'[j] = TRUE

Succeed(j) == phase[j] = "active" /\ phase'[j] = "done" /\ Keep(j)

\* Failing for good takes as many runs as there are attempts.
Fail(j) ==
  /\ phase[j] = "active" /\ runs[j] >= MaxAttempts
  /\ phase'[j] = "failed" /\ Keep(j)

\* Nothing is cancelled that nobody asked to cancel.
Cancel(j) ==
  /\ phase[j] = "active" /\ asked[j]
  /\ phase'[j] = "cancelled" /\ Keep(j)

\* Retention removes what is over, and only that.
Forget(j) == phase[j] \in Over /\ phase'[j] = "gone"

Stay(j) == phase'[j] = phase[j] /\ Keep(j)

Step(j) ==
  \/ Submit(j) \/ Begin(j) \/ Yield(j) \/ Ask(j)
  \/ Succeed(j) \/ Fail(j) \/ Cancel(j) \/ Forget(j) \/ Stay(j)

\* One statement may move several jobs, each by a move of its own.
Next == \A j \in Job : Step(j)

Spec == Init /\ [][Next]_vars
=============================================================================

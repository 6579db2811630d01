----------------------------- MODULE Maintenance -----------------------------
(***************************************************************************)
(* Maintenance mode (internal/engine/maintenance.go): a flag in the         *)
(* database, the copy every serving process keeps of it for maintenanceTTL, *)
(* the writes and scheduled runs that ask before they go on                 *)
(* (internal/engine/doc.go, jobs.go), and the commands that pause the site  *)
(* for the length of their own run (cmd/ddcore/backup.go, import.go).       *)
(*                                                                         *)
(* Time passes in seconds, by Tick.  A read of the flag, and a write that   *)
(* was let through, end within the second they began in: the code bounds    *)
(* neither, and the grace a command gives the servers counts on both.       *)
(***************************************************************************)
EXTENDS Naturals, FiniteSets

CONSTANTS
  Servers,      \* processes that enforce maintenance
  Deployments,  \* what runs: each its threads, commands and switches left
  TTL,          \* maintenanceTTL
  Grace,        \* what a command waits for the servers to pause
  MaxSwitches,  \* bound: times the flag is written, the closing of windows aside
  MaxMinutes,   \* bound: minutes the scheduler fires
  MaxFaults,    \* bound: reads and writes of the flag that fail, ledgers not written, crashes
  None

\* The requests of ddcore serve and its WatchMaintenance, the workers of ddcore
\* jobs work, which does not poll, and a scheduler of either.  A command is a run
\* of backup --maintenance or import --maintenance.
Kinds == {"request", "worker", "cron", "watch"}

ASSUME DeploymentsAssumption ==
  \A d \in Deployments : d.threads \subseteq Servers \X Kinds /\ d.switches \in 0..MaxSwitches

\* A command waits for longer than an answer is kept (backup.go: three seconds
\* and two).
ASSUME TimesAssumption ==
  /\ TTL \in Nat \ {0} /\ Grace \in Nat /\ Grace > TTL
  /\ MaxSwitches \in Nat /\ MaxMinutes \in Nat /\ MaxFaults \in Nat

ASSUME NoneAssumption ==
  None \notin Servers \X Kinds /\ \A d \in Deployments : None \notin d.commands

VARIABLES
  flag,      \* ddcore_maintenance: is it on, and since how long (history)
  cache,     \* maintenanceCache of each server
  due,       \* seconds to each server's next poll of WatchMaintenance
  thread,    \* what each thread of the deployment does
  command,   \* what each command of it does
  ledger,    \* ddcore_scheduler_tick: the minutes claimed
  queued,    \* jobs queued for each minute's run
  excuse,    \* history: minutes a pause, a crash or a failed Enqueue may have cost
  switches, faults

vars == <<flag, cache, due, thread, command, ledger, queued, excuse, switches, faults>>

Minutes == 1..MaxMinutes
Threads == DOMAIN thread
Commands == DOMAIN command
Of(kind) == {s \in Servers : <<s, kind>> \in Threads}
Home(t) == t[1]

Up(n, cap) == IF n < cap THEN n + 1 ELSE cap

\* pc: "ask" calls Maintenance, "reading" is its refresh, "waiting" its wait
\* for another's; then comes after an answer of "open".  val is what a read
\* found, seen the flag's number at that time (history), unsure that the
\* answer rests on a failed read, or on what was known while another read.
ThreadState ==
  [pc: {"idle", "ask", "reading", "waiting", "write", "claim", "enqueue", "set", "load", "store"},
   then: {"idle", "write", "claim", "enqueue"}, minute: 0..MaxMinutes,
   val: BOOLEAN, seen: Nat, bad: BOOLEAN, unsure: BOOLEAN]

Idle == [pc |-> "idle", then |-> "idle", minute |-> 0, val |-> FALSE, seen |-> 0,
         bad |-> FALSE, unsure |-> FALSE]

\* age: whole seconds since m.read, which TTL of them may be less or more than
\* maintenanceTTL; overtaken: m.read has changed since the refresh began.
NoCache == [on |-> FALSE, known |-> FALSE, age |-> TTL + 1, refreshing |-> None,
            overtaken |-> FALSE, seen |-> 0, unsure |-> FALSE]

Init ==
  /\ flag = [on |-> FALSE, age |-> 2 * TTL + 1]
  /\ cache = [s \in Servers |-> NoCache]
  /\ due = [s \in Servers |-> 0]
  /\ \E d \in Deployments :
       /\ thread = [t \in d.threads |-> Idle]
       /\ command = [c \in d.commands |-> [pc |-> "idle", own |-> FALSE, disturbed |-> FALSE, left |-> 0]]
       /\ switches = MaxSwitches - d.switches
  /\ ledger = {} /\ queued = [m \in Minutes |-> 0] /\ excuse = {} /\ faults = 0

Fault == faults < MaxFaults /\ faults' = faults + 1

Set(t, r) == thread' = [thread EXCEPT ![t] = r]

-----------------------------------------------------------------------------
(* Writing the flag.                                                       *)

SetMaintenanceFlag(on) ==
  /\ flag' = [on |-> on, age |-> IF on = flag.on THEN flag.age ELSE 0]
  /\ switches' = switches + 1

\* A command under way when another lifts the pause has been disturbed.
Disturbed(on, who) ==
  [c \in Commands |-> IF ~on /\ c # who /\ command[c].pc # "idle"
                      THEN [command[c] EXCEPT !.disturbed = TRUE] ELSE command[c]]

\* ddcore maintenance on|off: a process of its own.
Administrator ==
  /\ switches < MaxSwitches
  /\ \E on \in BOOLEAN : SetMaintenanceFlag(on) /\ command' = Disturbed(on, None)
  /\ UNCHANGED <<cache, due, thread, ledger, queued, excuse, faults>>

\* maintenance_set in a server: SetMaintenance writes, reads back and stores.
BeginSet(t) ==
  /\ thread[t].pc = "idle" /\ t[2] = "request"
  /\ switches < MaxSwitches
  /\ \E on \in BOOLEAN :
       /\ SetMaintenanceFlag(on) /\ command' = Disturbed(on, None)
       /\ Set(t, [Idle EXCEPT !.pc = "load"])
  /\ UNCHANGED <<cache, due, ledger, queued, excuse, faults>>

Load(t) ==
  /\ thread[t].pc = "load"
  /\ \/ Set(t, [Idle EXCEPT !.pc = "store", !.val = flag.on, !.seen = switches]) /\ UNCHANGED faults
     \/ Set(t, Idle) /\ Fault
  /\ UNCHANGED <<flag, cache, due, command, ledger, queued, excuse, switches>>

SetMaintenance(t) ==
  LET s == Home(t)
  IN  /\ thread[t].pc = "store"
      /\ cache' = [cache EXCEPT ![s].on = thread[t].val, ![s].known = TRUE, ![s].age = 0,
                                ![s].overtaken = TRUE, ![s].seen = thread[t].seen, ![s].unsure = FALSE]
      /\ Set(t, Idle)
      /\ UNCHANGED <<flag, due, command, ledger, queued, excuse, switches, faults>>

-----------------------------------------------------------------------------
(* Maintenance: the answer, from the cache or from one refresh.            *)

\* What the thread does with the answer: goes on, or is refused.  A scheduled
\* run that is skipped or refused is not made up later.
Answer(t, c) ==
  /\ Set(t, IF c.on \/ thread[t].then = "idle" THEN [Idle EXCEPT !.minute = thread[t].minute]
            ELSE [Idle EXCEPT !.pc = thread[t].then, !.minute = thread[t].minute, !.unsure = c.unsure])
  /\ excuse' = IF c.on /\ thread[t].then \in {"claim", "enqueue"}
               THEN excuse \cup {thread[t].minute} ELSE excuse

\* Mutant: whoever holds a known state answers from it, however old.
MutAsk(t) ==
  LET s == Home(t)  c == cache[s]
  IN  /\ thread[t].pc = "ask" /\ (c.age <= TTL \/ c.known)
      /\ Answer(t, c)
      /\ UNCHANGED <<flag, cache, due, command, ledger, queued, switches, faults>>

Ask(t) ==
  LET s == Home(t)  c == cache[s]
  IN  /\ thread[t].pc = "ask"
      /\ c.age <= TTL \/ (c.refreshing # None /\ c.known)
      /\ Answer(t, [c EXCEPT !.unsure = @ \/ (c.age >= TTL /\ c.refreshing # None)])
      /\ UNCHANGED <<flag, cache, due, command, ledger, queued, switches, faults>>

\* The first to find it stale reads it, the database answering or failing.
Refresh(t) ==
  LET s == Home(t)  c == cache[s]
  IN  /\ thread[t].pc = "ask" /\ c.age >= TTL /\ c.refreshing = None
      /\ cache' = [cache EXCEPT ![s].refreshing = t, ![s].overtaken = FALSE]
      /\ \E bad \in BOOLEAN :
           /\ IF bad THEN Fault ELSE UNCHANGED faults
           /\ Set(t, [thread[t] EXCEPT !.pc = "reading", !.val = flag.on, !.seen = switches,
                                       !.bad = bad])
      /\ UNCHANGED <<flag, due, command, ledger, queued, excuse, switches>>

\* Mutant: a newer state stored meanwhile is overwritten.
MutFinish(t) ==
  LET s == Home(t)  c == cache[s]
      found == IF thread[t].bad THEN [c EXCEPT !.age = 0, !.unsure = TRUE]
               ELSE [c EXCEPT !.age = 0, !.on = thread[t].val, !.known = TRUE,
                              !.seen = thread[t].seen, !.unsure = FALSE]
  IN  /\ thread[t].pc = "reading"
      /\ cache' = [cache EXCEPT ![s] = [found EXCEPT !.refreshing = None]]
      /\ Answer(t, found)
      /\ UNCHANGED <<flag, due, command, ledger, queued, switches, faults>>

\* Mutant: a failed read leaves the refresh open.
MutOpenRefresh(t) ==
  LET s == Home(t)  c == cache[s]
      found == IF c.overtaken THEN c
               ELSE IF thread[t].bad THEN [c EXCEPT !.age = 0, !.unsure = TRUE]
               ELSE [c EXCEPT !.age = 0, !.on = thread[t].val, !.known = TRUE,
                              !.seen = thread[t].seen, !.unsure = FALSE]
  IN  /\ thread[t].pc = "reading"
      /\ cache' = [cache EXCEPT ![s] = IF thread[t].bad THEN found ELSE [found EXCEPT !.refreshing = None]]
      /\ Answer(t, found)
      /\ UNCHANGED <<flag, due, command, ledger, queued, switches, faults>>

\* A read overtaken by SetMaintenance is dropped; a failed one keeps the last
\* known state, and counts as an attempt.
Finish(t) ==
  LET s == Home(t)  c == cache[s]
      found == IF c.overtaken THEN c
               ELSE IF thread[t].bad THEN [c EXCEPT !.age = 0, !.unsure = TRUE]
               ELSE [c EXCEPT !.age = 0, !.on = thread[t].val, !.known = TRUE,
                              !.seen = thread[t].seen, !.unsure = FALSE]
  IN  /\ thread[t].pc = "reading"
      /\ cache' = [cache EXCEPT ![s] = [found EXCEPT !.refreshing = None]]
      /\ Answer(t, found)
      /\ UNCHANGED <<flag, due, command, ledger, queued, switches, faults>>

\* Nobody has ever read it: wait for the one who does.
Wait(t) ==
  LET c == cache[Home(t)]
  IN  /\ thread[t].pc = "ask" /\ c.age >= TTL /\ c.refreshing # None /\ ~c.known
      /\ Set(t, [thread[t] EXCEPT !.pc = "waiting"])
      /\ UNCHANGED <<flag, cache, due, command, ledger, queued, excuse, switches, faults>>

Waited(t) ==
  /\ thread[t].pc = "waiting" /\ cache[Home(t)].refreshing = None
  /\ Answer(t, cache[Home(t)])
  /\ UNCHANGED <<flag, cache, due, command, ledger, queued, switches, faults>>

-----------------------------------------------------------------------------
(* What asks.                                                              *)

\* checkWritable, before a write of a request or of a job.
Request(t) ==
  /\ thread[t].pc = "idle" /\ t[2] \in {"request", "worker"}
  /\ Set(t, [Idle EXCEPT !.pc = "ask", !.then = "write"])
  /\ UNCHANGED <<flag, cache, due, command, ledger, queued, excuse, switches, faults>>

\* WatchMaintenance, at once and then every TTL.
WatchMaintenance(s) ==
  /\ due[s] = 0 /\ s \in Of("watch") /\ thread[<<s, "watch">>].pc = "idle"
  /\ due' = [due EXCEPT ![s] = TTL]
  /\ Set(<<s, "watch">>, [Idle EXCEPT !.pc = "ask"])
  /\ UNCHANGED <<flag, cache, command, ledger, queued, excuse, switches, faults>>

\* The write commits, or fails for a reason of its own.
Write(t) ==
  /\ thread[t].pc = "write"
  /\ Set(t, Idle)
  /\ UNCHANGED <<flag, cache, due, command, ledger, queued, excuse, switches, faults>>

\* An entry fires in every server, once for each minute.
Fire(t) ==
  /\ thread[t].pc = "idle" /\ t[2] = "cron" /\ thread[t].minute < MaxMinutes
  /\ Set(t, [Idle EXCEPT !.pc = "ask", !.then = "claim", !.minute = thread[t].minute + 1])
  /\ UNCHANGED <<flag, cache, due, command, ledger, queued, excuse, switches, faults>>

\* Mutant: whoever records the minute, or finds it recorded, goes on.
MutclaimTick(t) ==
  LET m == thread[t].minute
  IN  /\ thread[t].pc = "claim"
      /\ ledger' = ledger \cup {m}
      /\ Set(t, [thread[t] EXCEPT !.pc = "ask", !.then = "enqueue", !.unsure = FALSE])
      /\ UNCHANGED <<flag, cache, due, command, queued, excuse, switches, faults>>

\* claimTick, in a transaction of its own: the first to record the minute goes
\* on.  When it cannot be recorded the entry is enqueued anyway.
claimTick(t) ==
  LET m == thread[t].minute  go == [thread[t] EXCEPT !.pc = "ask", !.then = "enqueue", !.unsure = FALSE]
  IN  /\ thread[t].pc = "claim"
      /\ \/ /\ m \notin ledger /\ ledger' = ledger \cup {m} /\ Set(t, go)
            /\ UNCHANGED <<faults, excuse>>
         \/ /\ m \in ledger /\ Set(t, [Idle EXCEPT !.minute = thread[t].minute])
            /\ UNCHANGED <<ledger, faults, excuse>>
         \/ /\ Fault /\ Set(t, go) /\ UNCHANGED <<ledger, excuse>>
      /\ UNCHANGED <<flag, cache, due, command, queued, switches>>

\* Enqueue, which asks again, in a second transaction.  One that fails, for the
\* database or for a runAs user missing or disabled, is logged and no more: the
\* minute stays claimed.
Enqueue(t) ==
  LET m == thread[t].minute
  IN  /\ thread[t].pc = "enqueue"
      /\ \/ queued' = [queued EXCEPT ![m] = @ + 1] /\ UNCHANGED excuse
         \/ excuse' = excuse \cup {m} /\ UNCHANGED queued
      /\ Set(t, [Idle EXCEPT !.minute = m])
      /\ UNCHANGED <<flag, cache, due, command, ledger, switches, faults>>

\* The process stops and another takes its place, knowing nothing.  Its
\* scheduler does not fire again for a minute that has passed.
Crash(s) ==
  /\ Fault
  /\ cache' = [cache EXCEPT ![s] = NoCache] /\ due' = [due EXCEPT ![s] = 0]
  /\ excuse' = excuse \cup {thread[t].minute : t \in {u \in Threads : u = <<s, "cron">> /\ thread[u].pc # "idle"}}
  /\ thread' = [t \in Threads |-> IF Home(t) = s THEN [Idle EXCEPT !.minute = thread[t].minute] ELSE thread[t]]
  /\ UNCHANGED <<flag, command, ledger, queued, switches>>

-----------------------------------------------------------------------------
(* Commands that pause the site for their run.                             *)

\* prev := e.Maintenance(ctx), which a process just started reads at once.
\* Paused already, it goes ahead; otherwise it opens a window of its own.
FindPaused(c) ==
  /\ command[c].pc = "idle" /\ flag.on
  /\ command' = [command EXCEPT ![c] = [pc |-> "run", own |-> FALSE, disturbed |-> FALSE, left |-> 0]]
  /\ UNCHANGED <<flag, cache, due, thread, ledger, queued, excuse, switches, faults>>

FindOpen(c) ==
  /\ command[c].pc = "idle" /\ ~flag.on
  /\ command' = [command EXCEPT ![c] = [pc |-> "open", own |-> TRUE, disturbed |-> FALSE, left |-> Grace]]
  /\ UNCHANGED <<flag, cache, due, thread, ledger, queued, excuse, switches, faults>>

\* Mutant: the command does not wait for the servers.
MutOpenWindow(c) ==
  /\ command[c].pc = "open" /\ switches < MaxSwitches
  /\ SetMaintenanceFlag(TRUE)
  /\ command' = [command EXCEPT ![c].pc = "run", ![c].disturbed = FALSE]
  /\ UNCHANGED <<cache, due, thread, ledger, queued, excuse, faults>>

\* SetMaintenance reads the flag back: when that fails the command ends, and
\* leaves the site paused.
OpenWindow(c) ==
  /\ command[c].pc = "open" /\ switches < MaxSwitches
  /\ SetMaintenanceFlag(TRUE)
  /\ \/ command' = [command EXCEPT ![c].pc = "sleep", ![c].disturbed = FALSE] /\ UNCHANGED faults
     \/ command' = [command EXCEPT ![c].pc = "idle"] /\ Fault
  /\ UNCHANGED <<cache, due, thread, ledger, queued, excuse>>

Start(c) ==
  /\ command[c].pc = "sleep" /\ command[c].left = 0
  /\ command' = [command EXCEPT ![c].pc = "run"]
  /\ UNCHANGED <<flag, cache, due, thread, ledger, queued, excuse, switches, faults>>

\* The run ends; a command that opened its window closes it.
End(c) ==
  /\ command[c].pc = "run"
  /\ IF command[c].own
     THEN SetMaintenanceFlag(FALSE) /\ command' = [Disturbed(FALSE, c) EXCEPT ![c].pc = "idle"]
     ELSE command' = [command EXCEPT ![c].pc = "idle"] /\ UNCHANGED <<flag, switches>>
  /\ UNCHANGED <<cache, due, thread, ledger, queued, excuse, faults>>

\* A command that cannot write the flag, or is killed, leaves it as it is.
Die(c) ==
  /\ command[c].pc # "idle" /\ Fault
  /\ command' = [command EXCEPT ![c].pc = "idle"]
  /\ UNCHANGED <<flag, cache, due, thread, ledger, queued, excuse, switches>>

\* A second passes, once the polls that are due have been made and what takes
\* less has ended.
Tick ==
  /\ \A s \in Of("watch") : due[s] > 0
  /\ \A t \in Threads : /\ thread[t].pc \notin {"reading", "store", "waiting", "write"}
                        /\ t[2] = "watch" => thread[t].pc = "idle"
  /\ flag' = [flag EXCEPT !.age = Up(@, 2 * TTL + 1)]
  /\ cache' = [s \in Servers |-> [cache[s] EXCEPT !.age = Up(@, TTL + 1)]]
  /\ due' = [s \in Servers |-> IF s \in Of("watch") THEN due[s] - 1 ELSE 0]
  /\ command' = [c \in Commands |-> IF command[c].pc = "sleep" /\ command[c].left > 0
                                    THEN [command[c] EXCEPT !.left = @ - 1] ELSE command[c]]
  /\ UNCHANGED <<thread, ledger, queued, excuse, switches, faults>>

Serve(t) ==
  \/ Load(t) \/ SetMaintenance(t)
  \/ Ask(t) \/ Refresh(t) \/ Finish(t) \/ Wait(t) \/ Waited(t)
  \/ Write(t) \/ claimTick(t) \/ Enqueue(t)

Run(c) == FindPaused(c) \/ FindOpen(c) \/ OpenWindow(c) \/ Start(c) \/ End(c) \/ Die(c)

Next ==
  \/ Administrator \/ Tick
  \/ \E t \in Threads : BeginSet(t) \/ Request(t) \/ Fire(t) \/ Serve(t)
  \/ \E c \in Commands : Run(c)
  \/ \E s \in Servers : WatchMaintenance(s) \/ Crash(s)

Spec == Init /\ [][Next]_vars

\* Time passes, what a server has begun goes on, and WatchMaintenance polls
\* for as long as the server runs.  Nothing makes a command begin or end.
FairSpec ==
  /\ Spec
  /\ WF_vars(Tick)
  /\ \A s \in Servers : /\ WF_vars(WatchMaintenance(s))
                         /\ \A kind \in Kinds : WF_vars(<<s, kind>> \in Threads /\ Serve(<<s, kind>>))

-----------------------------------------------------------------------------
(* Properties.                                                             *)

\* The state has its shape, and one refresh at most is out in each server.
TypeOK ==
  /\ flag.on \in BOOLEAN /\ flag.age \in 0..(2 * TTL + 1)
  /\ \A t \in Threads : thread[t] \in ThreadState
  /\ \A s \in Servers :
       /\ cache[s].age \in 0..(TTL + 1) /\ due[s] \in 0..TTL
       /\ {cache[s].on, cache[s].known, cache[s].overtaken, cache[s].unsure} \subseteq BOOLEAN
       /\ {t \in Threads : Home(t) = s /\ thread[t].pc = "reading"} = {cache[s].refreshing} \ {None}
  /\ \A c \in Commands : /\ command[c].pc \in {"idle", "open", "sleep", "run"}
                         /\ command[c].left \in 0..Grace
  /\ ledger \subseteq Minutes /\ excuse \subseteq Minutes
  /\ faults \in 0..MaxFaults

\* A command that opened its window, and whose pause nobody else lifted, runs
\* while no write is let through or under way; the writes that were let in by
\* a failed read, or while another caller read, aside (backup.go:210).
WindowHolds ==
  \A c \in Commands : command[c].pc = "run" /\ command[c].own /\ ~command[c].disturbed
                        => \A t \in Threads : thread[t].pc = "write" => thread[t].unsure

\* Every server has fired for the minute and is done with it.
Fired(m) ==
  /\ Of("cron") # {}
  /\ \A s \in Of("cron") : LET t == thread[<<s, "cron">>]
                          IN  t.minute > m \/ (t.minute = m /\ t.pc = "idle")

\* A minute's run is queued once for all the servers, a ledger that could not
\* be written aside, and no server stands down for a run that another does not
\* make, unless that other was paused or crashed on its way, or failed in
\* Enqueue (jobs.go, claimTick).
OneRunPerMinute ==
  \A m \in Minutes :
    queued[m] <= 1 + faults /\ ((Fired(m) /\ m \notin excuse) => queued[m] > 0)

\* What the comment of claimTick says: "so a job runs once however many replicas
\* there are".
NoRunIsLost == \A m \in Minutes : Fired(m) => queued[m] > 0

\* The step gives t an answer.
Answered(t) == /\ thread[t].pc \in {"ask", "reading", "waiting"}
               /\ thread'[t].pc \notin {"ask", "reading", "waiting"}
               /\ cache'[Home(t)] # NoCache

\* An answer that disagrees with the database.
Outdated(t) == Answered(t) /\ ~cache'[Home(t)].unsure /\ cache'[Home(t)].on # flag.on

\* Unless the reads since have failed, an answer disagrees with the database for
\* TTL after a change and no longer; what is answered while another caller reads
\* is older (maintenance.go:62, 67).  A server that polls keeps that below twice
\* TTL: a poll within TTL of the last read is answered from the cache, so only
\* the next one reads again.  One that does not poll gives it at any age.
AnswersAreFresh ==
  [][\A t \in Threads : Outdated(t) =>
       \/ flag.age <= TTL
       \/ /\ cache[Home(t)].refreshing \notin {None, t}
          /\ flag.age <= 2 * TTL \/ <<Home(t), "watch">> \notin Threads]_vars

\* What maintenance.go:34 says: "maintenanceTTL bounds how long a replica keeps
\* writing after another process switched maintenance on".
AnswersWithinTTL == [][\A t \in Threads : Outdated(t) => flag.age <= TTL]_vars

\* Twice that for every server, which those that do not poll do not keep.
AnswersWithinTwice == [][\A t \in Threads : Outdated(t) => flag.age <= 2 * TTL]_vars

\* A refresh never puts an older answer back over the one SetMaintenance
\* stored while it was out (maintenance.go, m.read != started).
NoOldAnswerPutBack ==
  [][\A s \in Servers : cache'[s].seen < cache[s].seen
       => cache'[s] = NoCache \/ \E t \in Threads : Home(t) = s /\ thread[t].pc = "store"]_vars

\* A pause that has been lifted for good is over in every server.
Reopens == \A s \in Servers : (<>[](~flag.on /\ s \in Of("watch"))) => <>[]~cache[s].on

\* What docs/agent/backup.md:76 says of --maintenance: the site is paused for
\* the run.
PausedForTheRun ==
  \A c \in Commands : command[c].pc = "run" => \A t \in Threads : thread[t].pc # "write"
=============================================================================

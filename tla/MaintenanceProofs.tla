-------------------------- MODULE MaintenanceProofs --------------------------
(***************************************************************************)
(* What Maintenance promises, for every number of servers, threads and      *)
(* commands, every TTL and every grace that is longer: a command that opened *)
(* its window runs while no write is let through, how old an answer may be,   *)
(* no refresh puts an older answer back, and a minute is queued once, and at  *)
(* all.                                                                     *)
(***************************************************************************)
EXTENDS Maintenance, FiniteSetTheorems, TLAPS

-----------------------------------------------------------------------------
(* The inductive invariant.                                                *)

CacheRow ==
  [on: BOOLEAN, known: BOOLEAN, age: 0..(TTL + 1), refreshing: (Servers \X Kinds) \cup {None},
   overtaken: BOOLEAN, seen: Nat, unsure: BOOLEAN]

CommandRow ==
  [pc: {"idle", "open", "sleep", "run"}, own: BOOLEAN, disturbed: BOOLEAN, left: 0..Grace]

Asking == {"ask", "reading", "waiting"}

\* The deployment is one of those assumed, and stays it.
Deployed == Threads \subseteq Servers \X Kinds /\ None \notin Commands

Types ==
  /\ flag \in [on: BOOLEAN, age: 0..(2 * TTL + 1)]
  /\ cache \in [Servers -> CacheRow]
  /\ due \in [Servers -> 0..TTL]
  /\ thread \in [Threads -> ThreadState]
  /\ command \in [Commands -> CommandRow]
  /\ ledger \subseteq Minutes /\ excuse \subseteq Minutes
  /\ queued \in [Minutes -> Nat]
  /\ switches \in Nat /\ faults \in 0..MaxFaults

\* What a thread holds from a read is of this second: if it disagrees with the
\* flag, the flag has just changed.
Holds(t) == thread[t].pc \in {"reading", "store"} => (thread[t].val # flag.on => flag.age = 0)

SeenInv(t) == thread[t].pc \in {"reading", "store"} => thread[t].seen <= switches

ReadInv(t) ==
  thread[t].pc = "reading" =>
    /\ cache[Home(t)].refreshing = t
    /\ ~cache[Home(t)].overtaken => cache[Home(t)].seen <= thread[t].seen

WaitInv(t) ==
  thread[t].pc = "waiting" => cache[Home(t)].refreshing # None \/ cache[Home(t)].age = 0

\* A write that a sure answer let in came within TTL of the last change.
WriteInv(t) == (thread[t].pc = "write" /\ ~thread[t].unsure) => (~flag.on \/ flag.age <= TTL)

ThreadInv(t) == Holds(t) /\ SeenInv(t) /\ ReadInv(t) /\ WaitInv(t) /\ WriteInv(t)

Stale(s) == ~cache[s].unsure /\ cache[s].on # flag.on

Polling(s) == <<s, "watch">> \in Threads /\ thread[<<s, "watch">>].pc \in Asking

Busy(s) == Polling(s) \/ cache[s].refreshing # None

RefreshInv(s) ==
  LET r == cache[s].refreshing IN
  r # None => /\ r \in Threads /\ Home(r) = s /\ thread[r].pc = "reading"
              /\ cache[s].overtaken => cache[s].age = 0

\* A stale answer is no older than what the cache says of it; past TTL, which
\* it does not count, the poll bounds it.
StaleInv(s) ==
  Stale(s) =>
    /\ cache[s].age <= TTL => flag.age <= cache[s].age
    /\ (cache[s].known /\ <<s, "watch">> \in Threads) =>
         flag.age + (IF Busy(s) THEN 0 ELSE due[s]) <= 2 * TTL

ServerInv(s) == RefreshInv(s) /\ StaleInv(s) /\ cache[s].seen <= switches

CommandInv(c) ==
  LET m == command[c] IN
  /\ m.pc = "open" => m.left = Grace
  /\ (m.pc = "sleep" /\ ~m.disturbed) => flag.on /\ (flag.age > TTL \/ flag.age + m.left >= Grace)
  /\ (m.pc = "run" /\ m.own /\ ~m.disturbed) => flag.on /\ flag.age > TTL

\* The scheduler's threads, and nobody else, claim and enqueue.
CronInv(t) ==
  LET m == thread[t] IN
  /\ (m.pc \in {"claim", "enqueue"} \/ (m.pc \in Asking /\ m.then \in {"claim", "enqueue"}))
       => t[2] = "cron"
  /\ (t[2] = "cron" /\ m.pc # "idle") =>
       /\ m.minute \in Minutes
       /\ m.pc \in Asking \cup {"claim", "enqueue"}
       /\ m.pc \in Asking => m.then \in {"claim", "enqueue"}

\* Who brings the minute's run to the queue.
Carries(t, m) ==
  /\ thread[t].minute = m
  /\ thread[t].pc = "enqueue" \/ (thread[t].pc \in Asking /\ thread[t].then = "enqueue")

Carriers(m) == {t \in Threads : Carries(t, m)}

Past(t, m) == t[2] = "cron" /\ (thread[t].minute > m \/ (thread[t].minute = m /\ thread[t].pc = "idle"))

\* A claim is carried by one, and by one more for each ledger not written; a
\* minute nobody is excused for is queued or carried once somebody is past it.
MinuteInv(m) ==
  /\ IsFiniteSet(Carriers(m))
  /\ Cardinality(Carriers(m)) + queued[m] <= (IF m \in ledger THEN 1 ELSE 0) + faults
  /\ (m \notin excuse /\ (m \in ledger \/ \E t \in Threads : Past(t, m))) =>
       (queued[m] > 0 \/ Carriers(m) # {})

IInv ==
  /\ Deployed /\ Types
  /\ \A t \in Threads : ThreadInv(t) /\ CronInv(t)
  /\ \A s \in Servers : ServerInv(s)
  /\ \A c \in Commands : CommandInv(c)
  /\ \A m \in Minutes : MinuteInv(m)

-----------------------------------------------------------------------------
(* Types.                                                                  *)

LEMMA Homes ==
  ASSUME Deployed, NEW t \in Threads
  PROVE  /\ Home(t) \in Servers /\ t[2] \in Kinds /\ t = <<Home(t), t[2]>> /\ t # None
         /\ t \in Servers \X Kinds
<1>1. t \in Servers \X Kinds  BY DEF Deployed
<1> QED  BY <1>1, NoneAssumption DEF Home

LEMMA Typed ==
  ASSUME Types
  PROVE  /\ flag.on \in BOOLEAN /\ flag.age \in Nat /\ flag.age <= 2 * TTL + 1
         /\ TTL \in Nat /\ TTL >= 1 /\ Grace \in Nat /\ Grace > TTL /\ MaxFaults \in Nat
         /\ switches \in Nat /\ faults \in Nat /\ faults <= MaxFaults
         /\ \A s \in Servers : /\ cache[s] \in CacheRow /\ cache[s].age \in Nat
                               /\ cache[s].age <= TTL + 1 /\ cache[s].seen \in Nat
                               /\ cache[s].on \in BOOLEAN /\ cache[s].unsure \in BOOLEAN
                               /\ cache[s].known \in BOOLEAN /\ cache[s].overtaken \in BOOLEAN
                               /\ due[s] \in Nat /\ due[s] <= TTL
         /\ \A t \in Threads : /\ thread[t] \in ThreadState /\ thread[t].minute \in Nat
                               /\ thread[t].minute <= MaxMinutes /\ thread[t].seen \in Nat
                               /\ thread[t].val \in BOOLEAN /\ thread[t].unsure \in BOOLEAN
         /\ \A c \in Commands : /\ command[c] \in CommandRow /\ command[c].left \in Nat
                                /\ command[c].left <= Grace
         /\ \A m \in Minutes : queued[m] \in Nat
<1>1. /\ \A r \in CacheRow : /\ r.age \in 0..(TTL + 1) /\ r.seen \in Nat /\ r.on \in BOOLEAN
                             /\ r.unsure \in BOOLEAN /\ r.known \in BOOLEAN /\ r.overtaken \in BOOLEAN
      /\ \A r \in ThreadState : /\ r.minute \in 0..MaxMinutes /\ r.seen \in Nat /\ r.val \in BOOLEAN
                                /\ r.unsure \in BOOLEAN
      /\ \A r \in CommandRow : r.left \in 0..Grace
  BY DEF CacheRow, ThreadState, CommandRow
<1>2. /\ \A s \in Servers : cache[s] \in CacheRow /\ due[s] \in 0..TTL
      /\ \A t \in Threads : thread[t] \in ThreadState
      /\ \A c \in Commands : command[c] \in CommandRow
      /\ \A m \in Minutes : queued[m] \in Nat
  BY DEF Types
<1>3. flag.on \in BOOLEAN /\ flag.age \in 0..(2 * TTL + 1) /\ switches \in Nat /\ faults \in 0..MaxFaults
  BY DEF Types
<1> QED  BY <1>1, <1>2, <1>3, TimesAssumption

LEMMA IdleIs ==
  /\ Idle \in ThreadState /\ Idle.pc = "idle" /\ Idle.then = "idle" /\ Idle.minute = 0
  /\ Idle.unsure = FALSE
BY TimesAssumption DEF Idle, ThreadState

LEMMA ThreadIs ==
  ASSUME Types, Deployed, NEW t \in Threads, NEW m \in ThreadState, Set(t, m)
  PROVE  /\ Threads' = Threads /\ (Commands' = Commands => Deployed') /\ thread' \in [Threads' -> ThreadState]
         /\ thread'[t] = m /\ \A u \in Threads : u # t => thread'[u] = thread[u]
<1>1. thread \in [Threads -> ThreadState] /\ thread' = [thread EXCEPT ![t] = m]
  BY DEF Types, Set
<1>2. Threads' = Threads  BY <1>1 DEF Threads
<1>3. Commands' = Commands => Deployed'  BY <1>2 DEF Deployed
<1> QED  BY <1>1, <1>2, <1>3

\* The flag is written: it changes, and is young, or stays as it was.
Switched ==
  /\ switches' = switches + 1
  /\ \/ flag'.on = flag.on /\ flag'.age = flag.age
     \/ flag'.on # flag.on /\ flag'.age = 0

LEMMA SwitchIs ==
  ASSUME Types, NEW on \in BOOLEAN, SetMaintenanceFlag(on)
  PROVE  /\ flag' \in [on: BOOLEAN, age: 0..(2 * TTL + 1)] /\ switches' \in Nat /\ Switched
         /\ flag'.on = on
<1>1. flag.age \in 0..(2 * TTL + 1) /\ 0 \in 0..(2 * TTL + 1)  BY TimesAssumption DEF Types
<1>2. flag' = [on |-> on, age |-> IF on = flag.on THEN flag.age ELSE 0] /\ switches' = switches + 1
  BY DEF SetMaintenanceFlag
<1>3. flag.on \in BOOLEAN  BY DEF Types
<1>4. flag'.on = on /\ flag'.age = (IF on = flag.on THEN flag.age ELSE 0)  BY <1>2
<1>5. flag' \in [on: BOOLEAN, age: 0..(2 * TTL + 1)]  BY <1>1, <1>2
<1>6. switches' \in Nat  BY <1>2 DEF Types
<1>7. switches' = switches + 1  BY <1>2
<1>8. CASE on = flag.on
  <2>1. flag'.on = flag.on /\ flag'.age = flag.age  BY <1>4, <1>8
  <2> QED  BY <1>4, <1>5, <1>6, <1>7, <2>1 DEF Switched
<1>9. CASE on # flag.on
  <2>1. flag'.on # flag.on /\ flag'.age = 0  BY <1>4, <1>9
  <2> QED  BY <1>4, <1>5, <1>6, <1>7, <2>1 DEF Switched
<1> QED  BY <1>8, <1>9

\* The commands under way when a pause is lifted know it.
LEMMA DisturbedIs ==
  ASSUME Types, NEW on \in BOOLEAN, NEW who
  PROVE  /\ Disturbed(on, who) \in [Commands -> CommandRow]
         /\ \A c \in Commands :
              /\ Disturbed(on, who)[c].pc = command[c].pc
              /\ Disturbed(on, who)[c].own = command[c].own
              /\ Disturbed(on, who)[c].left = command[c].left
              /\ command[c].disturbed => Disturbed(on, who)[c].disturbed
              /\ (~on /\ c # who /\ command[c].pc # "idle") => Disturbed(on, who)[c].disturbed
<1>1. \A c \in Commands : command[c] \in CommandRow  BY DEF Types
<1>2. ASSUME NEW c \in Commands
      PROVE  /\ Disturbed(on, who)[c] \in CommandRow
             /\ Disturbed(on, who)[c].pc = command[c].pc
             /\ Disturbed(on, who)[c].own = command[c].own
             /\ Disturbed(on, who)[c].left = command[c].left
             /\ command[c].disturbed => Disturbed(on, who)[c].disturbed
             /\ (~on /\ c # who /\ command[c].pc # "idle") => Disturbed(on, who)[c].disturbed
  BY <1>1 DEF Disturbed, CommandRow
<1>3. Disturbed(on, who) = [c \in Commands |-> Disturbed(on, who)[c]]  BY DEF Disturbed
<1> QED  BY <1>2, <1>3

-----------------------------------------------------------------------------
(* What the steps change, field by field.                                  *)

Others(t) == Threads' = Threads /\ \A u \in Threads : u # t => thread'[u] = thread[u]

\* The flag is written, by an administrator, a server or a command.
Switching ==
  \/ Administrator
  \/ \E t \in Threads : BeginSet(t)
  \/ \E c \in Commands : OpenWindow(c) \/ (End(c) /\ command[c].own)

\* What a write of the flag does to a command.
Shifted(c) ==
  \/ /\ command'[c].pc = command[c].pc /\ command'[c].own = command[c].own
     /\ command'[c].left = command[c].left
     /\ command[c].disturbed => command'[c].disturbed
     /\ (~flag'.on /\ command[c].pc # "idle") => command'[c].disturbed
  \/ /\ command[c].pc = "open" /\ command'[c].pc = "sleep" /\ command'[c].left = command[c].left
     /\ flag'.on
  \/ command'[c].pc = "idle"

LEMMA FaultIs ==
  ASSUME Types, Fault
  PROVE  faults' \in 0..MaxFaults /\ faults' = faults + 1
BY TimesAssumption DEF Fault, Types

LEMMA SwitchSteps ==
  ASSUME Types, Deployed, Switching
  PROVE  /\ Types' /\ Deployed' /\ Switched
         /\ UNCHANGED <<cache, due, ledger, queued, excuse>>
         /\ faults' \in {faults, faults + 1}
         /\ Threads' = Threads /\ Commands' = Commands
         /\ \A u \in Threads :
              \/ thread'[u] = thread[u]
              \/ u[2] = "request" /\ thread[u].pc = "idle" /\ thread'[u].pc = "load"
         /\ \A c \in Commands : Shifted(c)
<1>1. CASE Administrator
  <2>1. PICK on \in BOOLEAN : SetMaintenanceFlag(on) /\ command' = Disturbed(on, None)
    BY <1>1 DEF Administrator
  <2>2. /\ flag' \in [on: BOOLEAN, age: 0..(2 * TTL + 1)] /\ switches' \in Nat /\ Switched
        /\ flag'.on = on
    BY <2>1, SwitchIs
  <2>3. /\ UNCHANGED <<cache, due, thread, ledger, queued, excuse, faults>>  BY <1>1 DEF Administrator
  <2>4. Threads' = Threads  BY <2>3 DEF Threads
  <2>5. command' \in [Commands -> CommandRow]  BY <2>1, DisturbedIs
  <2>6. Commands' = Commands  BY <2>5 DEF Commands
  <2>7. \A c \in Commands : Shifted(c)
    <3>1. ASSUME NEW c \in Commands PROVE c # None  BY DEF Deployed
    <3> QED  BY <2>1, <2>2, <3>1, DisturbedIs DEF Shifted
  <2>8. Types'  BY <2>2, <2>3, <2>4, <2>5, <2>6 DEF Types
  <2> QED  BY <2>2, <2>3, <2>4, <2>6, <2>7, <2>8 DEF Deployed
<1>2. ASSUME NEW t \in Threads, BeginSet(t)
      PROVE  /\ Types' /\ Deployed' /\ Switched
             /\ UNCHANGED <<cache, due, ledger, queued, excuse, faults>>
             /\ Threads' = Threads /\ Commands' = Commands
             /\ \A u \in Threads :
                  \/ thread'[u] = thread[u]
                  \/ u[2] = "request" /\ thread[u].pc = "idle" /\ thread'[u].pc = "load"
             /\ \A c \in Commands : Shifted(c)
  <2>1. PICK on \in BOOLEAN : /\ SetMaintenanceFlag(on) /\ command' = Disturbed(on, None)
                              /\ Set(t, [Idle EXCEPT !.pc = "load"])
    BY <1>2 DEF BeginSet
  <2>2. /\ flag' \in [on: BOOLEAN, age: 0..(2 * TTL + 1)] /\ switches' \in Nat /\ Switched
        /\ flag'.on = on
    BY <2>1, SwitchIs
  <2>3. UNCHANGED <<cache, due, ledger, queued, excuse, faults>>  BY <1>2 DEF BeginSet
  <2>4. [Idle EXCEPT !.pc = "load"] \in ThreadState /\ [Idle EXCEPT !.pc = "load"].pc = "load"
    BY IdleIs DEF Idle, ThreadState
  <2>5. command' \in [Commands -> CommandRow]  BY <2>1, DisturbedIs
  <2>6. Commands' = Commands  BY <2>5 DEF Commands
  <2>7. /\ Threads' = Threads /\ Deployed' /\ thread' \in [Threads' -> ThreadState]
        /\ thread'[t].pc = "load" /\ \A u \in Threads : u # t => thread'[u] = thread[u]
    BY <2>1, <2>4, <2>6, ThreadIs
  <2>8. \A c \in Commands : Shifted(c)
    <3>1. ASSUME NEW c \in Commands PROVE c # None  BY DEF Deployed
    <3> QED  BY <2>1, <2>2, <3>1, DisturbedIs DEF Shifted
  <2>9. Types'  BY <2>2, <2>3, <2>5, <2>6, <2>7 DEF Types
  <2>10. t[2] = "request" /\ thread[t].pc = "idle"  BY <1>2 DEF BeginSet
  <2> QED  BY <2>2, <2>3, <2>6, <2>7, <2>8, <2>9, <2>10
<1>3. ASSUME NEW c \in Commands, OpenWindow(c) \/ (End(c) /\ command[c].own)
      PROVE  /\ Types' /\ Deployed' /\ Switched
             /\ UNCHANGED <<cache, due, thread, ledger, queued, excuse>>
             /\ faults' \in {faults, faults + 1}
             /\ Threads' = Threads /\ Commands' = Commands
             /\ \A d \in Commands : Shifted(d)
  <2>1. /\ UNCHANGED <<cache, due, thread, ledger, queued, excuse>>
        /\ faults' = faults \/ Fault
    BY <1>3 DEF OpenWindow, End
  <2>8. faults' \in {faults, faults + 1} /\ faults' \in 0..MaxFaults
    <3>1. faults \in 0..MaxFaults  BY DEF Types
    <3> QED  BY <2>1, <3>1, FaultIs
  <2>2. Threads' = Threads  BY <2>1 DEF Threads
  <2>3. PICK on \in BOOLEAN : SetMaintenanceFlag(on) /\ (OpenWindow(c) <=> on)
    BY <1>3 DEF OpenWindow, End
  <2>4. /\ flag' \in [on: BOOLEAN, age: 0..(2 * TTL + 1)] /\ switches' \in Nat /\ Switched
        /\ flag'.on = on
    BY <2>3, SwitchIs
  <2>5. /\ command' \in [Commands -> CommandRow] /\ \A d \in Commands : Shifted(d)
    <3>1. command \in [Commands -> CommandRow] /\ command[c] \in CommandRow  BY DEF Types
    <3>2. CASE OpenWindow(c)
      <4> DEFINE r == [command[c] EXCEPT !.pc = "sleep", !.disturbed = FALSE]
                 q == [command[c] EXCEPT !.pc = "idle"]
      <4>1. /\ command' = [command EXCEPT ![c] = r] \/ command' = [command EXCEPT ![c] = q]
            /\ command[c].pc = "open"
        BY <3>1, <3>2 DEF OpenWindow
      <4>2. /\ r \in CommandRow /\ r.pc = "sleep" /\ r.left = command[c].left
            /\ q \in CommandRow /\ q.pc = "idle"
        BY <3>1 DEF CommandRow
      <4> HIDE DEF r, q
      <4>3. /\ command' \in [Commands -> CommandRow] /\ command'[c] \in {r, q}
            /\ \A d \in Commands : d # c => command'[d] = command[d]
        BY <3>1, <4>1, <4>2
      <4>4. flag'.on = TRUE  BY <2>3, <2>4, <3>2
      <4> QED  BY <4>1, <4>2, <4>3, <4>4 DEF Shifted
    <3>3. CASE ~OpenWindow(c)
      <4> DEFINE D == Disturbed(FALSE, c)
      <4>1. command' = [D EXCEPT ![c].pc = "idle"]  BY <1>3, <3>3 DEF End
      <4>2. D \in [Commands -> CommandRow] /\ D[c] \in CommandRow  BY DisturbedIs
      <4>3. \A d \in Commands : /\ D[d].pc = command[d].pc /\ D[d].own = command[d].own
                                /\ D[d].left = command[d].left
                                /\ command[d].disturbed => D[d].disturbed
                                /\ (d # c /\ command[d].pc # "idle") => D[d].disturbed
        BY DisturbedIs, ZenonT(60)
      <4> HIDE DEF D
      <4>4. [D[c] EXCEPT !.pc = "idle"] \in CommandRow  BY <4>2 DEF CommandRow
      <4>5. command' = [D EXCEPT ![c] = [D[c] EXCEPT !.pc = "idle"]]  BY <4>1, <4>2
      <4>6. command' \in [Commands -> CommandRow]  BY <4>2, <4>4, <4>5
      <4>7. command'[c].pc = "idle"  BY <4>2, <4>4, <4>5 DEF CommandRow
      <4>8. \A d \in Commands : d # c => command'[d] = D[d]  BY <4>2, <4>5
      <4> QED  BY <4>3, <4>6, <4>7, <4>8 DEF Shifted
    <3> QED  BY <3>2, <3>3
  <2>6. Commands' = Commands  BY <2>5 DEF Commands
  <2>7. Types'  BY <2>1, <2>2, <2>4, <2>5, <2>6, <2>8 DEF Types
  <2> QED  BY <2>1, <2>2, <2>4, <2>5, <2>6, <2>7, <2>8 DEF Deployed
<1> QED  BY <1>1, <1>2, <1>3 DEF Switching

\* A thread goes on without a look at the cache.
Talking(t) == Request(t) \/ Fire(t) \/ Load(t) \/ Write(t) \/ Wait(t) \/ claimTick(t) \/ Enqueue(t)

SamePlans(t) == thread'[t].then = thread[t].then /\ thread'[t].minute = thread[t].minute

Requests(t) ==
  /\ t[2] \in {"request", "worker"} /\ thread[t].pc = "idle"
  /\ thread'[t].pc = "ask" /\ thread'[t].then = "write"
  /\ UNCHANGED <<ledger, queued, faults>>

Fires(t) ==
  /\ t[2] = "cron" /\ thread[t].pc = "idle" /\ thread'[t].pc = "ask" /\ thread'[t].then = "claim"
  /\ thread'[t].minute = thread[t].minute + 1 /\ thread'[t].minute \in Minutes
  /\ UNCHANGED <<ledger, queued, faults>>

Loads(t) ==
  /\ thread[t].pc = "load" /\ UNCHANGED <<ledger, queued>>
  /\ \/ /\ thread'[t].pc = "store" /\ thread'[t].val = flag.on /\ thread'[t].seen = switches
        /\ faults' = faults
     \/ thread'[t].pc = "idle" /\ faults' = faults + 1

Writes(t) ==
  thread[t].pc = "write" /\ thread'[t].pc = "idle" /\ UNCHANGED <<ledger, queued, faults>>

Waits(t) ==
  /\ thread[t].pc = "ask" /\ thread'[t].pc = "waiting" /\ SamePlans(t)
  /\ cache[Home(t)].refreshing # None
  /\ UNCHANGED <<ledger, queued, faults>>

Claims(t) ==
  /\ thread[t].pc = "claim" /\ thread'[t].minute = thread[t].minute /\ queued' = queued
  /\ \/ /\ thread[t].minute \notin ledger /\ ledger' = ledger \cup {thread[t].minute}
        /\ thread'[t].pc = "ask" /\ thread'[t].then = "enqueue" /\ faults' = faults
     \/ thread[t].minute \in ledger /\ thread'[t].pc = "idle" /\ UNCHANGED <<ledger, faults>>
     \/ /\ thread'[t].pc = "ask" /\ thread'[t].then = "enqueue"
        /\ ledger' = ledger /\ faults' = faults + 1

Enqueues(t) ==
  /\ thread[t].pc = "enqueue" /\ thread'[t].pc = "idle" /\ thread'[t].minute = thread[t].minute
  /\ UNCHANGED <<ledger, faults>>
  /\ \/ queued' = [queued EXCEPT ![thread[t].minute] = @ + 1] /\ excuse' = excuse
     \/ queued' = queued /\ excuse' = excuse \cup {thread[t].minute}

Talks(t) ==
  Requests(t) \/ Fires(t) \/ Loads(t) \/ Writes(t) \/ Waits(t) \/ Claims(t) \/ Enqueues(t)

LEMMA TalkSteps ==
  ASSUME Types, Deployed, NEW t \in Threads, CronInv(t), Talking(t)
  PROVE  /\ Types' /\ Deployed' /\ Others(t) /\ Talks(t)
         /\ excuse' = excuse \/ Enqueues(t)
         /\ UNCHANGED <<flag, cache, due, command, switches>>
<1>1. /\ thread[t] \in ThreadState /\ thread[t].minute \in 0..MaxMinutes
      /\ 0 \in 0..MaxMinutes /\ switches \in Nat /\ flag.on \in BOOLEAN /\ faults \in 0..MaxFaults
  <2>1. thread[t] \in ThreadState  BY DEF Types
  <2> QED  BY <2>1, TimesAssumption DEF Types, ThreadState
<1>2. /\ UNCHANGED <<flag, cache, due, command, switches>>
      /\ Enqueue(t) \/ excuse' = excuse
  BY DEF Talking, Request, Fire, Load, Write, Wait, claimTick, Enqueue
<1>3. Commands' = Commands  BY <1>2 DEF Commands
<1>13. excuse' \subseteq Minutes
  <2>1. excuse \subseteq Minutes  BY DEF Types
  <2>2. CASE Enqueue(t)
    <3>1. thread[t].pc = "enqueue" /\ (excuse' = excuse \/ excuse' = excuse \cup {thread[t].minute})
      BY <2>2 DEF Enqueue
    <3>2. thread[t].minute \in Minutes  BY <3>1 DEF CronInv
    <3> QED  BY <2>1, <3>1, <3>2
  <2> QED  BY <1>2, <2>1, <2>2
\* It is enough to name the thread it leaves.
<1>4. ASSUME NEW m \in ThreadState, Set(t, m), ledger' \subseteq Minutes,
             queued' \in [Minutes -> Nat], faults' \in 0..MaxFaults
      PROVE  Types' /\ Deployed' /\ Others(t) /\ thread'[t] = m
  <2>1. /\ Threads' = Threads /\ Deployed' /\ thread' \in [Threads' -> ThreadState]
        /\ thread'[t] = m /\ \A u \in Threads : u # t => thread'[u] = thread[u]
    BY <1>3, <1>4, ThreadIs
  <2>2. Types'  BY <1>2, <1>3, <1>4, <1>13, <2>1 DEF Types
  <2> QED  BY <2>1, <2>2 DEF Others
<1>5. /\ ledger \subseteq Minutes /\ queued \in [Minutes -> Nat]  BY DEF Types
<1>14. (Request(t) \/ Fire(t) \/ Load(t) \/ Write(t) \/ Wait(t) \/ claimTick(t)) => excuse' = excuse
  BY DEF Request, Fire, Load, Write, Wait, claimTick
<1>6. CASE Request(t)
  <2> DEFINE m == [Idle EXCEPT !.pc = "ask", !.then = "write"]
  <2>1. m \in ThreadState /\ m.pc = "ask" /\ m.then = "write"  BY <1>1 DEF Idle, ThreadState
  <2>2. Set(t, m)  BY <1>6 DEF Request
  <2> HIDE DEF m
  <2>3. UNCHANGED <<ledger, queued, faults>>  BY <1>6 DEF Request
  <2>4. Types' /\ Deployed' /\ Others(t) /\ thread'[t] = m  BY <1>1, <1>4, <1>5, <2>1, <2>2, <2>3
  <2>5. Requests(t)  BY <1>6, <2>1, <2>3, <2>4 DEF Request, Requests
  <2> QED  BY <1>2, <1>6, <1>14, <2>4, <2>5 DEF Talks
<1>7. CASE Fire(t)
  <2>1. PICK n \in 0..MaxMinutes : n = thread[t].minute + 1 /\ n \in Minutes
    BY <1>1, <1>7, TimesAssumption DEF Fire, Minutes
  <2> DEFINE m == [Idle EXCEPT !.pc = "ask", !.then = "claim", !.minute = n]
  <2>2. m \in ThreadState /\ m.pc = "ask" /\ m.then = "claim" /\ m.minute = n
    BY <1>1 DEF Idle, ThreadState
  <2>3. Set(t, m)  BY <1>7, <2>1 DEF Fire
  <2> HIDE DEF m
  <2>4. UNCHANGED <<ledger, queued, faults>>  BY <1>7 DEF Fire
  <2>5. Types' /\ Deployed' /\ Others(t) /\ thread'[t] = m  BY <1>1, <1>4, <1>5, <2>2, <2>3, <2>4
  <2>6. Fires(t)  BY <1>7, <2>1, <2>2, <2>4, <2>5 DEF Fire, Fires
  <2> QED  BY <1>2, <1>7, <1>14, <2>5, <2>6 DEF Talks
<1>8. CASE Load(t)
  <2> DEFINE m == [Idle EXCEPT !.pc = "store", !.val = flag.on, !.seen = switches]
  <2>1. /\ m \in ThreadState /\ m.pc = "store" /\ m.val = flag.on /\ m.seen = switches
    BY <1>1 DEF Idle, ThreadState
  <2>2. (Set(t, m) /\ faults' = faults) \/ (Set(t, Idle) /\ Fault)  BY <1>8 DEF Load
  <2> HIDE DEF m
  <2>3. thread[t].pc = "load" /\ UNCHANGED <<ledger, queued>>  BY <1>8 DEF Load
  <2>4. CASE Set(t, m) /\ faults' = faults
    <3>1. Types' /\ Deployed' /\ Others(t) /\ thread'[t] = m
      BY <1>1, <1>4, <1>5, <2>1, <2>3, <2>4
    <3>2. Loads(t)  BY <2>1, <2>3, <2>4, <3>1 DEF Loads
    <3> QED  BY <1>2, <1>8, <1>14, <3>1, <3>2 DEF Talks
  <2>5. CASE Set(t, Idle) /\ Fault
    <3>1. faults' \in 0..MaxFaults /\ faults' = faults + 1  BY <2>5, FaultIs
    <3>2. Types' /\ Deployed' /\ Others(t) /\ thread'[t] = Idle
      BY <1>4, <1>5, <2>3, <2>5, <3>1, IdleIs
    <3>3. Loads(t)  BY <2>3, <3>1, <3>2, IdleIs DEF Loads
    <3> QED  BY <1>2, <1>8, <1>14, <3>2, <3>3 DEF Talks
  <2> QED  BY <2>2, <2>4, <2>5
<1>9. CASE Write(t)
  <2>1. Set(t, Idle) /\ thread[t].pc = "write" /\ UNCHANGED <<ledger, queued, faults>>
    BY <1>9 DEF Write
  <2>2. Types' /\ Deployed' /\ Others(t) /\ thread'[t] = Idle  BY <1>1, <1>4, <1>5, <2>1, IdleIs
  <2>3. Writes(t)  BY <2>1, <2>2, IdleIs DEF Writes
  <2> QED  BY <1>2, <1>9, <1>14, <2>2, <2>3 DEF Talks
<1>10. CASE Wait(t)
  <2> DEFINE m == [thread[t] EXCEPT !.pc = "waiting"]
  <2>1. /\ m \in ThreadState /\ m.pc = "waiting" /\ m.then = thread[t].then
        /\ m.minute = thread[t].minute
    BY <1>1 DEF ThreadState
  <2>2. Set(t, m)  BY <1>10 DEF Wait
  <2> HIDE DEF m
  <2>3. UNCHANGED <<ledger, queued, faults>>  BY <1>10 DEF Wait
  <2>4. Types' /\ Deployed' /\ Others(t) /\ thread'[t] = m  BY <1>1, <1>4, <1>5, <2>1, <2>2, <2>3
  <2>5. Waits(t)  BY <1>10, <2>1, <2>3, <2>4 DEF Wait, Waits, SamePlans
  <2> QED  BY <1>2, <1>10, <1>14, <2>4, <2>5 DEF Talks
<1>11. CASE claimTick(t)
  <2> DEFINE go == [thread[t] EXCEPT !.pc = "ask", !.then = "enqueue", !.unsure = FALSE]
             rest == [Idle EXCEPT !.minute = thread[t].minute]
  <2>1. /\ go \in ThreadState /\ go.pc = "ask" /\ go.then = "enqueue"
        /\ go.minute = thread[t].minute
    BY <1>1 DEF ThreadState
  <2>2. /\ rest \in ThreadState /\ rest.pc = "idle" /\ rest.minute = thread[t].minute
    BY <1>1 DEF Idle, ThreadState
  <2>3. \/ /\ thread[t].minute \notin ledger /\ ledger' = ledger \cup {thread[t].minute}
           /\ Set(t, go) /\ faults' = faults
        \/ thread[t].minute \in ledger /\ Set(t, rest) /\ UNCHANGED <<ledger, faults>>
        \/ Fault /\ Set(t, go) /\ ledger' = ledger
    BY <1>11 DEF claimTick
  <2> HIDE DEF go, rest
  <2>4. thread[t].pc = "claim" /\ queued' = queued  BY <1>11 DEF claimTick
  <2>5. thread[t].minute \in Minutes  BY <2>4 DEF CronInv
  <2>6. ledger' \subseteq Minutes /\ faults' \in 0..MaxFaults
    BY <1>1, <1>5, <2>3, <2>5, FaultIs
  <2>7. /\ Types' /\ Deployed' /\ Others(t)
        /\ Set(t, go) => thread'[t] = go
        /\ Set(t, rest) => thread'[t] = rest
    BY <1>4, <1>5, <2>1, <2>2, <2>3, <2>4, <2>6
  <2>8. Claims(t)  BY <2>1, <2>2, <2>3, <2>4, <2>7, FaultIs DEF Claims
  <2> QED  BY <1>2, <1>11, <1>14, <2>7, <2>8 DEF Talks
<1>12. CASE Enqueue(t)
  <2> DEFINE m == [Idle EXCEPT !.minute = thread[t].minute]
  <2>1. m \in ThreadState /\ m.pc = "idle" /\ m.minute = thread[t].minute
    BY <1>1 DEF Idle, ThreadState
  <2>2. Set(t, m)  BY <1>12 DEF Enqueue
  <2> HIDE DEF m
  <2>3. /\ thread[t].pc = "enqueue" /\ UNCHANGED <<ledger, faults>>
        /\ \/ queued' = [queued EXCEPT ![thread[t].minute] = @ + 1] /\ excuse' = excuse
           \/ queued' = queued /\ excuse' = excuse \cup {thread[t].minute}
    BY <1>12 DEF Enqueue
  <2>4. queued' \in [Minutes -> Nat]
    <3>1. thread[t].minute \in Minutes  BY <2>3 DEF CronInv
    <3>2. queued[thread[t].minute] + 1 \in Nat  BY <1>5, <3>1
    <3> QED  BY <1>5, <2>3, <3>1, <3>2
  <2>5. Types' /\ Deployed' /\ Others(t) /\ thread'[t] = m  BY <1>1, <1>4, <1>5, <2>1, <2>2, <2>3, <2>4
  <2>6. Enqueues(t)  BY <2>1, <2>3, <2>5 DEF Enqueues
  <2> QED  BY <1>2, <2>5, <2>6 DEF Talks
<1> QED  BY <1>6, <1>7, <1>8, <1>9, <1>10, <1>11, <1>12 DEF Talking
LEMMA PollSteps ==
  ASSUME Types, Deployed, NEW s \in Servers, WatchMaintenance(s)
  PROVE  LET t == <<s, "watch">> IN
         /\ Types' /\ Deployed' /\ t \in Threads /\ Home(t) = s /\ Others(t)
         /\ thread[t].pc = "idle" /\ thread'[t].pc = "ask" /\ thread'[t].then = "idle"
         /\ due[s] = 0 /\ due'[s] = TTL
         /\ \A q \in Servers : q # s => due'[q] = due[q]
         /\ UNCHANGED <<flag, cache, command, ledger, queued, excuse, switches, faults>>
<1> DEFINE t == <<s, "watch">>
           m == [Idle EXCEPT !.pc = "ask"]
<1>1. /\ UNCHANGED <<flag, cache, command, ledger, queued, excuse, switches, faults>>
      /\ thread[t].pc = "idle" /\ due[s] = 0 /\ due' = [due EXCEPT ![s] = TTL] /\ Set(t, m)
      /\ s \in Of("watch")
  BY DEF WatchMaintenance
<1>2. t \in Threads /\ Home(t) = s  BY <1>1 DEF Of, Home
<1>3. m \in ThreadState /\ m.pc = "ask" /\ m.then = "idle"  BY IdleIs DEF Idle, ThreadState
<1> HIDE DEF m
<1>4. Commands' = Commands  BY <1>1 DEF Commands
<1>5. /\ Threads' = Threads /\ Deployed' /\ thread' \in [Threads' -> ThreadState]
      /\ thread'[t] = m /\ \A u \in Threads : u # t => thread'[u] = thread[u]
  BY <1>1, <1>2, <1>3, <1>4, ThreadIs
<1>6. due' \in [Servers -> 0..TTL] /\ due'[s] = TTL /\ \A q \in Servers : q # s => due'[q] = due[q]
  BY <1>1, TimesAssumption DEF Types
<1>7. Types'  BY <1>1, <1>4, <1>5, <1>6 DEF Types
<1> QED  BY <1>1, <1>2, <1>3, <1>5, <1>6, <1>7 DEF Others

\* What an answer makes of the thread: refused, or on to what it asked for.
Told(t, on, unsure) ==
  /\ thread'[t].minute = thread[t].minute
  /\ (on \/ thread[t].then = "idle") => thread'[t].pc = "idle"
  /\ (~on /\ thread[t].then # "idle") =>
       thread'[t].pc = thread[t].then /\ thread'[t].unsure = unsure
  /\ excuse' = IF on /\ thread[t].then \in {"claim", "enqueue"}
               THEN excuse \cup {thread[t].minute} ELSE excuse

LEMMA AnswerIs ==
  ASSUME Types, Deployed, NEW t \in Threads, CronInv(t), thread[t].pc \in Asking,
         NEW c, c.on \in BOOLEAN, c.unsure \in BOOLEAN, Answer(t, c), Commands' = Commands
  PROVE  /\ Others(t) /\ Deployed' /\ Told(t, c.on, c.unsure)
         /\ thread' \in [Threads' -> ThreadState] /\ excuse' \subseteq Minutes
<1>1. thread[t] \in ThreadState  BY DEF Types
<1>2. thread[t].minute \in 0..MaxMinutes /\ thread[t].then \in {"idle", "write", "claim", "enqueue"}
  BY <1>1 DEF ThreadState
<1> DEFINE rest == [Idle EXCEPT !.minute = thread[t].minute]
           go == [Idle EXCEPT !.pc = thread[t].then, !.minute = thread[t].minute, !.unsure = c.unsure]
<1>3. /\ rest \in ThreadState /\ rest.pc = "idle" /\ rest.minute = thread[t].minute
      /\ go \in ThreadState /\ go.pc = thread[t].then /\ go.minute = thread[t].minute
      /\ go.unsure = c.unsure
  BY <1>2, IdleIs DEF Idle, ThreadState
<1>4. Set(t, IF c.on \/ thread[t].then = "idle" THEN rest ELSE go)  BY DEF Answer
<1> HIDE DEF rest, go
<1>5. /\ Others(t) /\ Deployed' /\ thread' \in [Threads' -> ThreadState]
      /\ thread'[t] = IF c.on \/ thread[t].then = "idle" THEN rest ELSE go
  <2> DEFINE m == IF c.on \/ thread[t].then = "idle" THEN rest ELSE go
  <2>1. m \in ThreadState  BY <1>3
  <2>2. Set(t, m)  BY <1>4
  <2> HIDE DEF m
  <2>3. /\ Threads' = Threads /\ Deployed' /\ thread' \in [Threads' -> ThreadState]
        /\ thread'[t] = m /\ \A u \in Threads : u # t => thread'[u] = thread[u]
    BY <2>1, <2>2, ThreadIs
  <2> QED  BY <2>3 DEF m, Others
<1>6. excuse' = IF c.on /\ thread[t].then \in {"claim", "enqueue"}
                THEN excuse \cup {thread[t].minute} ELSE excuse
  BY DEF Answer
<1>7. thread[t].then \in {"claim", "enqueue"} => thread[t].minute \in Minutes
  BY DEF CronInv, Asking
<1>8. excuse' \subseteq Minutes  BY <1>6, <1>7 DEF Types
<1>9. Told(t, c.on, c.unsure)
  <2>1. CASE c.on \/ thread[t].then = "idle"
    <3>1. thread'[t] = rest  BY <1>5, <2>1
    <3> QED  BY <1>3, <1>6, <2>1, <3>1 DEF Told
  <2>2. CASE ~(c.on \/ thread[t].then = "idle")
    <3>1. thread'[t] = go  BY <1>5, <2>2
    <3> QED  BY <1>3, <1>6, <2>2, <3>1 DEF Told
  <2> QED  BY <2>1, <2>2
<1> QED  BY <1>5, <1>8, <1>9

\* An answer out of the cache, sure if it is young and nobody reads.
LEMMA AskSteps ==
  ASSUME Types, Deployed, NEW t \in Threads, CronInv(t), Ask(t) \/ Waited(t)
  PROVE  /\ Types' /\ Deployed' /\ Others(t)
         /\ UNCHANGED <<flag, cache, due, command, ledger, queued, switches, faults>>
         /\ \E unsure \in BOOLEAN : LET c == cache[Home(t)] IN
              /\ Told(t, c.on, unsure)
              /\ ~unsure => ~c.unsure
              /\ \/ /\ thread[t].pc = "ask"
                    /\ c.age <= TTL \/ (c.refreshing # None /\ c.known)
                    /\ (c.age >= TTL /\ c.refreshing # None) => unsure
                 \/ thread[t].pc = "waiting" /\ c.refreshing = None
<1> DEFINE c == cache[Home(t)]
           late == [c EXCEPT !.unsure = @ \/ (c.age >= TTL /\ c.refreshing # None)]
<1>1. c \in CacheRow /\ c.on \in BOOLEAN /\ c.unsure \in BOOLEAN  BY Homes, Typed
<1>2. UNCHANGED <<flag, cache, due, command, ledger, queued, switches, faults>>
  BY DEF Ask, Waited
<1>3. Commands' = Commands  BY <1>2 DEF Commands
<1>4. CASE Ask(t)
  <2>1. /\ late.on = c.on /\ late.unsure \in BOOLEAN
        /\ late.unsure <=> c.unsure \/ (c.age >= TTL /\ c.refreshing # None)
    BY <1>1 DEF CacheRow
  <2>2. Answer(t, late) /\ thread[t].pc = "ask" /\ (c.age <= TTL \/ (c.refreshing # None /\ c.known))
    BY <1>4 DEF Ask
  <2> HIDE DEF late
  <2>3. /\ Others(t) /\ Deployed' /\ Told(t, late.on, late.unsure)
        /\ thread' \in [Threads' -> ThreadState] /\ excuse' \subseteq Minutes
    BY <1>1, <1>3, <2>1, <2>2, AnswerIs DEF Asking
  <2>4. Types'  BY <1>2, <1>3, <2>3 DEF Types
  <2> QED  BY <1>2, <2>1, <2>2, <2>3, <2>4
<1>5. CASE Waited(t)
  <2>1. Answer(t, c) /\ thread[t].pc = "waiting" /\ c.refreshing = None  BY <1>5 DEF Waited
  <2>2. /\ Others(t) /\ Deployed' /\ Told(t, c.on, c.unsure)
        /\ thread' \in [Threads' -> ThreadState] /\ excuse' \subseteq Minutes
    BY <1>1, <1>3, <2>1, AnswerIs DEF Asking
  <2>3. Types'  BY <1>2, <1>3, <2>2 DEF Types
  <2> QED  BY <1>1, <1>2, <2>1, <2>2, <2>3
<1> QED  BY <1>4, <1>5
\* One server's cache changes.
OneCache(s) == \A q \in Servers : q # s => cache'[q] = cache[q]

LEMMA CacheIs ==
  ASSUME Types, NEW s \in Servers, NEW r \in CacheRow, cache' = [cache EXCEPT ![s] = r]
  PROVE  cache' \in [Servers -> CacheRow] /\ cache'[s] = r /\ OneCache(s)
BY DEF Types, OneCache

LEMMA SetSteps ==
  ASSUME Types, Deployed, NEW t \in Threads, SetMaintenance(t)
  PROVE  LET s == Home(t) IN
         /\ Types' /\ Deployed' /\ Others(t) /\ OneCache(s)
         /\ thread[t].pc = "store" /\ thread'[t].pc = "idle"
         /\ cache'[s].on = thread[t].val /\ cache'[s].age = 0 /\ cache'[s].overtaken
         /\ cache'[s].seen = thread[t].seen /\ cache'[s].refreshing = cache[s].refreshing
         /\ UNCHANGED <<flag, due, command, ledger, queued, excuse, switches, faults>>
<1> DEFINE s == Home(t)
           r == [cache[s] EXCEPT !.on = thread[t].val, !.known = TRUE, !.age = 0,
                                 !.overtaken = TRUE, !.seen = thread[t].seen, !.unsure = FALSE]
<1>1. s \in Servers /\ cache[s] \in CacheRow /\ thread[t].val \in BOOLEAN /\ thread[t].seen \in Nat
      /\ 0 \in 0..(TTL + 1)
  BY Homes, Typed
<1>2. /\ r \in CacheRow /\ r.on = thread[t].val /\ r.age = 0 /\ r.overtaken
      /\ r.seen = thread[t].seen /\ r.refreshing = cache[s].refreshing
  BY <1>1 DEF CacheRow
<1>3. /\ cache' = [cache EXCEPT ![s] = r] /\ Set(t, Idle) /\ thread[t].pc = "store"
      /\ UNCHANGED <<flag, due, command, ledger, queued, excuse, switches, faults>>
  BY <1>1 DEF SetMaintenance, Types
<1> HIDE DEF r
<1>4. cache' \in [Servers -> CacheRow] /\ cache'[s] = r /\ OneCache(s)  BY <1>1, <1>2, <1>3, CacheIs
<1>5. Commands' = Commands  BY <1>3 DEF Commands
<1>6. /\ Threads' = Threads /\ Deployed' /\ thread' \in [Threads' -> ThreadState]
      /\ thread'[t] = Idle /\ \A u \in Threads : u # t => thread'[u] = thread[u]
  BY <1>3, <1>5, IdleIs, ThreadIs
<1>7. Types'  BY <1>3, <1>4, <1>5, <1>6 DEF Types
<1> QED  BY <1>2, <1>3, <1>4, <1>6, <1>7, IdleIs DEF Others

LEMMA RefreshSteps ==
  ASSUME Types, Deployed, NEW t \in Threads, Refresh(t)
  PROVE  LET s == Home(t) IN
         /\ Types' /\ Deployed' /\ Others(t) /\ OneCache(s)
         /\ thread[t].pc = "ask" /\ cache[s].age >= TTL /\ cache[s].refreshing = None
         /\ thread'[t].pc = "reading" /\ thread'[t].val = flag.on /\ thread'[t].seen = switches
         /\ SamePlans(t)
         /\ cache'[s].refreshing = t /\ ~cache'[s].overtaken
         /\ cache'[s].on = cache[s].on /\ cache'[s].known = cache[s].known
         /\ cache'[s].age = cache[s].age /\ cache'[s].seen = cache[s].seen
         /\ cache'[s].unsure = cache[s].unsure
         /\ faults' \in {faults, faults + 1}
         /\ UNCHANGED <<flag, due, command, ledger, queued, excuse, switches>>
<1> DEFINE s == Home(t)
           r == [cache[s] EXCEPT !.refreshing = t, !.overtaken = FALSE]
<1>1. /\ s \in Servers /\ cache[s] \in CacheRow /\ thread[t] \in ThreadState
      /\ t \in Servers \X Kinds /\ flag.on \in BOOLEAN /\ switches \in Nat
      /\ cache \in [Servers -> CacheRow]
  BY Homes, Typed DEF Types
<1>2. /\ r \in CacheRow /\ r.refreshing = t /\ ~r.overtaken
      /\ r.on = cache[s].on /\ r.known = cache[s].known /\ r.age = cache[s].age
      /\ r.seen = cache[s].seen /\ r.unsure = cache[s].unsure
  BY <1>1 DEF CacheRow
<1>3. /\ cache' = [cache EXCEPT ![s] = r]
      /\ thread[t].pc = "ask" /\ cache[s].age >= TTL /\ cache[s].refreshing = None
      /\ UNCHANGED <<flag, due, command, ledger, queued, excuse, switches>>
  BY <1>1 DEF Refresh
<1>4. PICK bad \in BOOLEAN :
        /\ IF bad THEN Fault ELSE UNCHANGED faults
        /\ Set(t, [thread[t] EXCEPT !.pc = "reading", !.val = flag.on, !.seen = switches, !.bad = bad])
  BY DEF Refresh
<1> HIDE DEF r
<1> DEFINE m == [thread[t] EXCEPT !.pc = "reading", !.val = flag.on, !.seen = switches, !.bad = bad]
<1>5. /\ m \in ThreadState /\ m.pc = "reading" /\ m.val = flag.on /\ m.seen = switches
      /\ m.then = thread[t].then /\ m.minute = thread[t].minute
  BY <1>1 DEF ThreadState
<1> HIDE DEF m
<1>6. cache' \in [Servers -> CacheRow] /\ cache'[s] = r /\ OneCache(s)  BY <1>1, <1>2, <1>3, CacheIs
<1>7. Commands' = Commands  BY <1>3 DEF Commands
<1>8. /\ Threads' = Threads /\ Deployed' /\ thread' \in [Threads' -> ThreadState]
      /\ thread'[t] = m /\ \A u \in Threads : u # t => thread'[u] = thread[u]
  BY <1>4, <1>5, <1>7, ThreadIs DEF m
<1>9. faults' \in 0..MaxFaults /\ faults' \in {faults, faults + 1}
  BY <1>4, FaultIs DEF Types
<1>10. Types'  BY <1>3, <1>6, <1>7, <1>8, <1>9 DEF Types
<1> QED  BY <1>2, <1>3, <1>5, <1>6, <1>8, <1>9, <1>10 DEF Others, SamePlans

\* What a refresh finds: nothing new when it was overtaken, no answer when the
\* read failed, and otherwise what it read.
Finds(t) ==
  LET c == cache[Home(t)]
      d == cache'[Home(t)] IN
  \/ /\ c.overtaken /\ d.on = c.on /\ d.known = c.known /\ d.age = c.age
     /\ d.seen = c.seen /\ d.unsure = c.unsure
  \/ d.on = c.on /\ d.known = c.known /\ d.age = 0 /\ d.seen = c.seen /\ d.unsure
  \/ /\ ~c.overtaken /\ d.on = thread[t].val /\ d.age = 0 /\ d.seen = thread[t].seen /\ ~d.unsure

LEMMA FinishSteps ==
  ASSUME Types, Deployed, NEW t \in Threads, CronInv(t), Finish(t)
  PROVE  LET s == Home(t) IN
         /\ Types' /\ Deployed' /\ Others(t) /\ OneCache(s)
         /\ thread[t].pc = "reading" /\ cache'[s].refreshing = None
         /\ Finds(t) /\ Told(t, cache'[s].on, cache'[s].unsure)
         /\ UNCHANGED <<flag, due, command, ledger, queued, switches, faults>>
<1> DEFINE s == Home(t)
           c == cache[s]
           found == IF c.overtaken THEN c
                    ELSE IF thread[t].bad THEN [c EXCEPT !.age = 0, !.unsure = TRUE]
                    ELSE [c EXCEPT !.age = 0, !.on = thread[t].val, !.known = TRUE,
                                   !.seen = thread[t].seen, !.unsure = FALSE]
           r == [found EXCEPT !.refreshing = None]
<1>1. /\ s \in Servers /\ c \in CacheRow /\ thread[t].val \in BOOLEAN /\ thread[t].seen \in Nat
      /\ 0 \in 0..(TTL + 1)
  BY Homes, Typed
<1>2. /\ found \in CacheRow /\ found.on \in BOOLEAN /\ found.unsure \in BOOLEAN
      /\ \/ /\ c.overtaken /\ found.on = c.on /\ found.known = c.known /\ found.age = c.age
            /\ found.seen = c.seen /\ found.unsure = c.unsure
         \/ /\ found.on = c.on /\ found.known = c.known /\ found.age = 0 /\ found.seen = c.seen
            /\ found.unsure
         \/ /\ ~c.overtaken /\ found.on = thread[t].val /\ found.age = 0
            /\ found.seen = thread[t].seen /\ ~found.unsure
  <2>1. CASE c.overtaken  BY <1>1, <2>1 DEF CacheRow
  <2>2. CASE ~c.overtaken /\ thread[t].bad  BY <1>1, <2>2 DEF CacheRow
  <2>3. CASE ~c.overtaken /\ ~thread[t].bad  BY <1>1, <2>3 DEF CacheRow
  <2> QED  BY <2>1, <2>2, <2>3
<1>3. /\ cache' = [cache EXCEPT ![s] = r] /\ Answer(t, found) /\ thread[t].pc = "reading"
      /\ UNCHANGED <<flag, due, command, ledger, queued, switches, faults>>
  BY DEF Finish
<1> HIDE DEF found
<1>4. /\ r \in CacheRow /\ r.refreshing = None /\ r.on = found.on /\ r.known = found.known
      /\ r.age = found.age /\ r.seen = found.seen /\ r.unsure = found.unsure
  BY <1>2 DEF CacheRow
<1> HIDE DEF r
<1>5. cache' \in [Servers -> CacheRow] /\ cache'[s] = r /\ OneCache(s)  BY <1>1, <1>3, <1>4, CacheIs
<1>6. Commands' = Commands  BY <1>3 DEF Commands
<1>7. /\ Others(t) /\ Deployed' /\ Told(t, found.on, found.unsure)
      /\ thread' \in [Threads' -> ThreadState] /\ excuse' \subseteq Minutes
  BY <1>2, <1>3, <1>6, AnswerIs DEF Asking
<1>8. Types'  BY <1>3, <1>5, <1>6, <1>7 DEF Types
<1>9. Finds(t)  BY <1>2, <1>4, <1>5 DEF Finds
<1> QED  BY <1>3, <1>4, <1>5, <1>7, <1>8, <1>9

LEMMA CrashSteps ==
  ASSUME Types, Deployed, \A t \in Threads : CronInv(t), NEW s \in Servers, Crash(s)
  PROVE  /\ Types' /\ Deployed' /\ OneCache(s) /\ Threads' = Threads
         /\ cache'[s] = NoCache
         /\ \A t \in Threads : IF Home(t) = s
              THEN thread'[t].pc = "idle" /\ thread'[t].minute = thread[t].minute
              ELSE thread'[t] = thread[t]
         /\ excuse \subseteq excuse'
         /\ \A t \in Threads : (t = <<s, "cron">> /\ thread[t].pc # "idle")
              => thread[t].minute \in excuse'
         /\ due'[s] = 0 /\ \A q \in Servers : q # s => due'[q] = due[q]
         /\ faults' = faults + 1
         /\ UNCHANGED <<flag, command, ledger, queued, switches>>
<1>1. /\ Fault /\ cache' = [cache EXCEPT ![s] = NoCache] /\ due' = [due EXCEPT ![s] = 0]
      /\ excuse' = excuse \cup {thread[t].minute : t \in {u \in Threads : u = <<s, "cron">> /\ thread[u].pc # "idle"}}
      /\ thread' = [t \in Threads |-> IF Home(t) = s THEN [Idle EXCEPT !.minute = thread[t].minute] ELSE thread[t]]
      /\ UNCHANGED <<flag, command, ledger, queued, switches>>
  BY DEF Crash
<1>2. NoCache \in CacheRow  BY TimesAssumption DEF NoCache, CacheRow
<1>3. cache' \in [Servers -> CacheRow] /\ cache'[s] = NoCache /\ OneCache(s)  BY <1>1, <1>2, CacheIs
<1>4. ASSUME NEW t \in Threads
      PROVE  /\ [Idle EXCEPT !.minute = thread[t].minute] \in ThreadState
             /\ [Idle EXCEPT !.minute = thread[t].minute].pc = "idle"
             /\ [Idle EXCEPT !.minute = thread[t].minute].minute = thread[t].minute
             /\ thread[t] \in ThreadState
  <2>1. thread[t] \in ThreadState  BY DEF Types
  <2>2. thread[t].minute \in 0..MaxMinutes  BY <2>1 DEF ThreadState
  <2> QED  BY <2>1, <2>2, IdleIs DEF Idle, ThreadState
<1>5. /\ thread' \in [Threads -> ThreadState]
      /\ \A t \in Threads : IF Home(t) = s
           THEN thread'[t].pc = "idle" /\ thread'[t].minute = thread[t].minute
           ELSE thread'[t] = thread[t]
  <2>1. \A t \in Threads :
          thread'[t] = IF Home(t) = s THEN [Idle EXCEPT !.minute = thread[t].minute] ELSE thread[t]
    BY <1>1
  <2>2. \A t \in Threads : thread'[t] \in ThreadState  BY <1>4, <2>1
  <2>3. thread' = [t \in Threads |-> thread'[t]]  BY <1>1
  <2>4. thread' \in [Threads -> ThreadState]  BY <2>2, <2>3
  <2>5. \A t \in Threads : IF Home(t) = s
           THEN thread'[t].pc = "idle" /\ thread'[t].minute = thread[t].minute
           ELSE thread'[t] = thread[t]
    BY <1>4, <2>1
  <2> QED  BY <2>4, <2>5
<1>6. Threads' = Threads /\ Commands' = Commands /\ Deployed'
  <2>1. Threads' = Threads /\ Commands' = Commands  BY <1>1, <1>5 DEF Threads, Commands
  <2> QED  BY <2>1 DEF Deployed
<1>7. due' \in [Servers -> 0..TTL] /\ due'[s] = 0 /\ \A q \in Servers : q # s => due'[q] = due[q]
  BY <1>1, TimesAssumption DEF Types
<1>8. /\ excuse' \subseteq Minutes /\ excuse \subseteq excuse'
      /\ \A t \in Threads : (t = <<s, "cron">> /\ thread[t].pc # "idle") => thread[t].minute \in excuse'
  <2>1. \A t \in Threads : (t = <<s, "cron">> /\ thread[t].pc # "idle") => thread[t].minute \in Minutes
    BY DEF CronInv
  <2> QED  BY <1>1, <2>1 DEF Types
<1>9. faults' \in 0..MaxFaults /\ faults' = faults + 1  BY <1>1, FaultIs
<1>10. Types'  BY <1>1, <1>3, <1>5, <1>6, <1>7, <1>8, <1>9 DEF Types
<1> QED  BY <1>1, <1>3, <1>5, <1>6, <1>7, <1>8, <1>9, <1>10

\* A number counts up to its cap.
Later(n, m, cap) == /\ n < cap => m = n + 1
                    /\ n >= cap => m = n

LEMMA UpIs ==
  ASSUME NEW cap \in Nat, NEW n \in 0..cap
  PROVE  Up(n, cap) \in 0..cap /\ Later(n, Up(n, cap), cap)
BY DEF Up, Later

LEMMA TickSteps ==
  ASSUME Types, Deployed, Tick
  PROVE  /\ Types' /\ Deployed'
         /\ flag'.on = flag.on /\ Later(flag.age, flag'.age, 2 * TTL + 1)
         /\ \A s \in Servers :
              /\ cache'[s].on = cache[s].on /\ cache'[s].known = cache[s].known
              /\ cache'[s].refreshing = cache[s].refreshing /\ cache'[s].seen = cache[s].seen
              /\ cache'[s].overtaken = cache[s].overtaken /\ cache'[s].unsure = cache[s].unsure
              /\ Later(cache[s].age, cache'[s].age, TTL + 1)
              /\ <<s, "watch">> \in Threads => due[s] > 0 /\ due'[s] = due[s] - 1
         /\ \A t \in Threads : /\ thread[t].pc \notin {"reading", "store", "waiting", "write"}
                               /\ t[2] = "watch" => thread[t].pc = "idle"
         /\ \A c \in Commands :
              /\ command'[c].pc = command[c].pc /\ command'[c].own = command[c].own
              /\ command'[c].disturbed = command[c].disturbed
              /\ IF command[c].pc = "sleep" /\ command[c].left > 0
                 THEN command'[c].left = command[c].left - 1
                 ELSE command'[c].left = command[c].left
         /\ UNCHANGED <<thread, ledger, queued, excuse, switches, faults>>
<1>1. UNCHANGED <<thread, ledger, queued, excuse, switches, faults>>  BY DEF Tick
<1>2. \A t \in Threads : /\ thread[t].pc \notin {"reading", "store", "waiting", "write"}
                         /\ t[2] = "watch" => thread[t].pc = "idle"
  BY DEF Tick
<1>3. /\ flag'.on = flag.on /\ Later(flag.age, flag'.age, 2 * TTL + 1)
      /\ flag' \in [on: BOOLEAN, age: 0..(2 * TTL + 1)]
  <2>1. 2 * TTL + 1 \in Nat /\ flag.age \in 0..(2 * TTL + 1) /\ flag \in [on: BOOLEAN, age: 0..(2 * TTL + 1)]
    BY TimesAssumption DEF Types
  <2>2. PICK n \in 0..(2 * TTL + 1) : n = Up(flag.age, 2 * TTL + 1) /\ Later(flag.age, n, 2 * TTL + 1)
    BY <2>1, UpIs
  <2>3. flag' = [flag EXCEPT !.age = n]  BY <2>1, <2>2 DEF Tick
  <2>4. flag'.on = flag.on /\ flag'.age = n /\ flag' \in [on: BOOLEAN, age: 0..(2 * TTL + 1)]
    BY <2>1, <2>2, <2>3
  <2> QED  BY <2>2, <2>4
<1>4. /\ cache' \in [Servers -> CacheRow]
      /\ \A s \in Servers :
           /\ cache'[s].on = cache[s].on /\ cache'[s].known = cache[s].known
           /\ cache'[s].refreshing = cache[s].refreshing /\ cache'[s].seen = cache[s].seen
           /\ cache'[s].overtaken = cache[s].overtaken /\ cache'[s].unsure = cache[s].unsure
           /\ Later(cache[s].age, cache'[s].age, TTL + 1)
  <2>1. cache' = [s \in Servers |-> [cache[s] EXCEPT !.age = Up(@, TTL + 1)]]  BY DEF Tick
  <2>2. ASSUME NEW s \in Servers
        PROVE  /\ cache'[s] \in CacheRow
               /\ cache'[s].on = cache[s].on /\ cache'[s].known = cache[s].known
               /\ cache'[s].refreshing = cache[s].refreshing /\ cache'[s].seen = cache[s].seen
               /\ cache'[s].overtaken = cache[s].overtaken /\ cache'[s].unsure = cache[s].unsure
               /\ Later(cache[s].age, cache'[s].age, TTL + 1)
    <3>1. cache[s] \in CacheRow  BY DEF Types
    <3>2. TTL + 1 \in Nat /\ cache[s].age \in 0..(TTL + 1)  BY <3>1, TimesAssumption DEF CacheRow
    <3>3. PICK n \in 0..(TTL + 1) : n = Up(cache[s].age, TTL + 1) /\ Later(cache[s].age, n, TTL + 1)
      BY <3>2, UpIs
    <3>4. cache'[s] = [cache[s] EXCEPT !.age = n]  BY <2>1, <3>1, <3>3
    <3>5. /\ cache'[s] \in CacheRow /\ cache'[s].age = n
          /\ cache'[s].on = cache[s].on /\ cache'[s].known = cache[s].known
          /\ cache'[s].refreshing = cache[s].refreshing /\ cache'[s].seen = cache[s].seen
          /\ cache'[s].overtaken = cache[s].overtaken /\ cache'[s].unsure = cache[s].unsure
      BY <3>1, <3>4 DEF CacheRow
    <3> QED  BY <3>3, <3>5
  <2>3. cache' = [s \in Servers |-> cache'[s]]  BY <2>1
  <2> QED  BY <2>2, <2>3
<1>5. /\ due' \in [Servers -> 0..TTL]
      /\ \A s \in Servers : <<s, "watch">> \in Threads => due[s] > 0 /\ due'[s] = due[s] - 1
  <2>1. due' = [s \in Servers |-> IF s \in Of("watch") THEN due[s] - 1 ELSE 0]  BY DEF Tick
  <2>2. ASSUME NEW s \in Servers
        PROVE  due'[s] \in 0..TTL /\ (<<s, "watch">> \in Threads => due[s] > 0 /\ due'[s] = due[s] - 1)
    <3>1. due[s] \in 0..TTL /\ TTL \in Nat  BY TimesAssumption DEF Types
    <3>2. s \in Of("watch") => due[s] > 0  BY DEF Tick
    <3>3. <<s, "watch">> \in Threads => s \in Of("watch")  BY DEF Of
    <3>4. due'[s] = IF s \in Of("watch") THEN due[s] - 1 ELSE 0  BY <2>1
    <3> QED  BY <3>1, <3>2, <3>3, <3>4
  <2>3. due' = [s \in Servers |-> due'[s]]  BY <2>1
  <2> QED  BY <2>2, <2>3
<1>6. /\ command' \in [Commands -> CommandRow]
      /\ \A c \in Commands :
              /\ command'[c].pc = command[c].pc /\ command'[c].own = command[c].own
              /\ command'[c].disturbed = command[c].disturbed
              /\ IF command[c].pc = "sleep" /\ command[c].left > 0
                 THEN command'[c].left = command[c].left - 1
                 ELSE command'[c].left = command[c].left
  <2>1. command' = [c \in Commands |-> IF command[c].pc = "sleep" /\ command[c].left > 0
                                       THEN [command[c] EXCEPT !.left = @ - 1] ELSE command[c]]
    BY DEF Tick
  <2>2. ASSUME NEW c \in Commands
        PROVE  /\ command'[c] \in CommandRow
               /\ command'[c].pc = command[c].pc /\ command'[c].own = command[c].own
               /\ command'[c].disturbed = command[c].disturbed
               /\ IF command[c].pc = "sleep" /\ command[c].left > 0
                  THEN command'[c].left = command[c].left - 1
                  ELSE command'[c].left = command[c].left
    <3>1. command[c] \in CommandRow  BY DEF Types
    <3>2. CASE command[c].pc = "sleep" /\ command[c].left > 0
      <4>1. command[c].left \in 0..Grace /\ Grace \in Nat  BY <3>1, TimesAssumption DEF CommandRow
      <4>2. PICK n \in 0..Grace : n = command[c].left - 1  BY <3>2, <4>1
      <4>3. command'[c] = [command[c] EXCEPT !.left = n]  BY <2>1, <3>1, <3>2, <4>2
      <4> QED  BY <3>1, <3>2, <4>2, <4>3 DEF CommandRow
    <3>3. CASE ~(command[c].pc = "sleep" /\ command[c].left > 0)
      <4>1. command'[c] = command[c]  BY <2>1, <3>3
      <4> QED  BY <3>1, <3>3, <4>1
    <3> QED  BY <3>2, <3>3
  <2>3. command' = [c \in Commands |-> command'[c]]  BY <2>1
  <2> QED  BY <2>2, <2>3
<1>7. Threads' = Threads  BY <1>1 DEF Threads
<1>8. Commands' = Commands  BY <1>6 DEF Commands
<1>9. Deployed'  BY <1>7, <1>8 DEF Deployed
<1>10. Types'  BY <1>1, <1>3, <1>4, <1>5, <1>6, <1>7, <1>8 DEF Types
<1> QED  BY <1>1, <1>2, <1>3, <1>4, <1>5, <1>6, <1>9, <1>10

\* A command finds the site paused or open, begins its run, or ends one that
\* was within somebody else's pause.
Stepping(c) == FindPaused(c) \/ FindOpen(c) \/ Start(c) \/ (End(c) /\ ~command[c].own) \/ Die(c)

LEMMA CommandSteps ==
  ASSUME Types, Deployed, NEW c \in Commands, Stepping(c)
  PROVE  /\ Types' /\ Deployed'
         /\ UNCHANGED <<flag, cache, due, thread, ledger, queued, excuse, switches>>
         /\ faults' \in {faults, faults + 1}
         /\ \A d \in Commands : d # c => command'[d] = command[d]
         /\ \/ command'[c].pc = "run" /\ ~command'[c].own
            \/ command'[c].pc = "open" /\ command'[c].left = Grace
            \/ /\ command[c].pc = "sleep" /\ command[c].left = 0 /\ command'[c].pc = "run"
               /\ command'[c].own = command[c].own /\ command'[c].disturbed = command[c].disturbed
            \/ command'[c].pc = "idle"
<1>1. /\ UNCHANGED <<flag, cache, due, thread, ledger, queued, excuse, switches>>
      /\ faults' \in {faults, faults + 1} /\ faults' \in 0..MaxFaults
  <2>1. /\ UNCHANGED <<flag, cache, due, thread, ledger, queued, excuse, switches>>
        /\ faults' = faults \/ Fault
    BY DEF Stepping, FindPaused, FindOpen, Start, End, Die
  <2>2. faults \in 0..MaxFaults  BY DEF Types
  <2> QED  BY <2>1, <2>2, FaultIs
<1>2. command \in [Commands -> CommandRow] /\ command[c] \in CommandRow /\ Grace \in Nat
  BY TimesAssumption DEF Types
<1>3. Threads' = Threads  BY <1>1 DEF Threads
<1>4. ASSUME NEW r \in CommandRow, command' = [command EXCEPT ![c] = r]
      PROVE  /\ Types' /\ Deployed' /\ command'[c] = r
             /\ \A d \in Commands : d # c => command'[d] = command[d]
  <2>1. /\ command' \in [Commands -> CommandRow] /\ command'[c] = r
        /\ \A d \in Commands : d # c => command'[d] = command[d]
    BY <1>2, <1>4
  <2>2. Commands' = Commands  BY <2>1 DEF Commands
  <2>3. Deployed'  BY <1>3, <2>2 DEF Deployed
  <2>4. Types'  BY <1>1, <1>3, <2>1, <2>2 DEF Types
  <2> QED  BY <2>1, <2>3, <2>4
<1>5. CASE FindPaused(c)
  <2> DEFINE r == [pc |-> "run", own |-> FALSE, disturbed |-> FALSE, left |-> 0]
  <2>1. r \in CommandRow /\ r.pc = "run" /\ ~r.own  BY <1>2 DEF CommandRow
  <2>2. command' = [command EXCEPT ![c] = r]  BY <1>5 DEF FindPaused
  <2> HIDE DEF r
  <2> QED  BY <1>1, <1>4, <2>1, <2>2
<1>6. CASE FindOpen(c)
  <2> DEFINE r == [pc |-> "open", own |-> TRUE, disturbed |-> FALSE, left |-> Grace]
  <2>1. r \in CommandRow /\ r.pc = "open" /\ r.left = Grace  BY <1>2 DEF CommandRow
  <2>2. command' = [command EXCEPT ![c] = r]  BY <1>6 DEF FindOpen
  <2> HIDE DEF r
  <2> QED  BY <1>1, <1>4, <2>1, <2>2
<1>7. CASE Start(c)
  <2> DEFINE r == [command[c] EXCEPT !.pc = "run"]
  <2>1. /\ r \in CommandRow /\ r.pc = "run" /\ r.own = command[c].own
        /\ r.disturbed = command[c].disturbed
    BY <1>2 DEF CommandRow
  <2>2. /\ command' = [command EXCEPT ![c] = r] /\ command[c].pc = "sleep" /\ command[c].left = 0
    BY <1>2, <1>7 DEF Start
  <2> HIDE DEF r
  <2> QED  BY <1>1, <1>4, <2>1, <2>2
<1>8. CASE (End(c) /\ ~command[c].own) \/ Die(c)
  <2> DEFINE r == [command[c] EXCEPT !.pc = "idle"]
  <2>1. r \in CommandRow /\ r.pc = "idle"  BY <1>2 DEF CommandRow
  <2>2. command' = [command EXCEPT ![c] = r]  BY <1>2, <1>8 DEF End, Die
  <2> HIDE DEF r
  <2> QED  BY <1>1, <1>4, <2>1, <2>2
<1> QED  BY <1>5, <1>6, <1>7, <1>8 DEF Stepping

-----------------------------------------------------------------------------
(* The answers and the age of what they rest on.                           *)

\* What the threads and the servers' caches have to do with the time.
Timely ==
  /\ Deployed /\ Types
  /\ \A t \in Threads : ThreadInv(t) /\ CronInv(t)
  /\ \A s \in Servers : ServerInv(s)

LEMMA ThreadStays ==
  ASSUME NEW u, ThreadInv(u), thread'[u] = thread[u], UNCHANGED <<flag, switches>>,
         cache'[Home(u)] = cache[Home(u)]
  PROVE  ThreadInv(u)'
BY DEF ThreadInv, Holds, SeenInv, ReadInv, WaitInv, WriteInv, Home

\* Nothing happens to a server whose threads that read or poll go on.
LEMMA ServerStays ==
  ASSUME Timely, NEW s \in Servers, UNCHANGED <<flag, switches>>, Threads' = Threads,
         cache'[s] = cache[s], due'[s] = due[s], Polling(s)' <=> Polling(s),
         \A u \in Threads : (Home(u) = s /\ thread[u].pc = "reading") => thread'[u].pc = "reading"
  PROVE  ServerInv(s)'
<1>1. ServerInv(s)  BY DEF Timely
<1>2. RefreshInv(s)'  BY <1>1 DEF ServerInv, RefreshInv, Home
<1>3. StaleInv(s)'  BY <1>1 DEF ServerInv, StaleInv, Stale, Busy
<1>4. cache'[s].seen <= switches'  BY <1>1 DEF ServerInv
<1> QED  BY <1>2, <1>3, <1>4 DEF ServerInv

LEMMA SwitchKeepsTime ==
  ASSUME Timely, Switching
  PROVE  /\ \A t \in Threads' : ThreadInv(t)'
         /\ \A s \in Servers : ServerInv(s)'
<1>1. Types /\ Deployed  BY DEF Timely
<1>2. /\ Switched /\ UNCHANGED <<cache, due>> /\ Threads' = Threads
      /\ \A u \in Threads :
           \/ thread'[u] = thread[u]
           \/ u[2] = "request" /\ thread[u].pc = "idle" /\ thread'[u].pc = "load"
  BY <1>1, SwitchSteps
<1>3. ASSUME NEW t \in Threads PROVE ThreadInv(t)'
  <2>1. ThreadInv(t) /\ TTL \in Nat /\ thread[t].seen \in Nat /\ switches \in Nat
    BY <1>1, Typed DEF Timely
  <2>2. CASE thread'[t].pc = "load"
    BY <2>2 DEF ThreadInv, Holds, SeenInv, ReadInv, WaitInv, WriteInv
  <2>3. CASE thread'[t] = thread[t]
    <3>1. Holds(t)'  BY <1>2, <2>1, <2>3 DEF ThreadInv, Holds, Switched
    <3>2. SeenInv(t)'  BY <1>2, <2>1, <2>3 DEF ThreadInv, SeenInv, Switched
    <3>3. ReadInv(t)' /\ WaitInv(t)'  BY <1>2, <2>1, <2>3 DEF ThreadInv, ReadInv, WaitInv, Home
    <3>4. WriteInv(t)'  BY <1>2, <2>1, <2>3 DEF ThreadInv, WriteInv, Switched
    <3> QED  BY <3>1, <3>2, <3>3, <3>4 DEF ThreadInv
  <2> QED  BY <1>2, <2>2, <2>3
<1>4. ASSUME NEW s \in Servers PROVE ServerInv(s)'
  <2>1. ServerInv(s)  BY DEF Timely
  <2>2. RefreshInv(s)'  BY <1>2, <2>1 DEF ServerInv, RefreshInv, Home
  <2>3. StaleInv(s)'
    <3>1. /\ cache[s].age \in Nat /\ due[s] \in Nat /\ due[s] <= TTL /\ TTL \in Nat /\ flag.age \in Nat
      BY <1>1, Typed
    <3>2. CASE flag'.on = flag.on /\ flag'.age = flag.age
      <4>1. Polling(s)' <=> Polling(s)
        <5>1. <<s, "watch">>[2] # "request"  OBVIOUS
        <5>2. <<s, "watch">> \in Threads => thread'[<<s, "watch">>] = thread[<<s, "watch">>]
          BY <1>2, <5>1
        <5> QED  BY <1>2, <5>2 DEF Polling
      <4> QED  BY <1>2, <2>1, <3>2, <4>1 DEF ServerInv, StaleInv, Stale, Busy
    <3>3. CASE flag'.age = 0
      <4>1. cache' = cache /\ due' = due  BY <1>2
      <4>2. flag'.age <= cache[s].age  BY <3>1, <3>3
      <4>3. flag'.age + (IF Busy(s)' THEN 0 ELSE due[s]) <= 2 * TTL  BY <3>1, <3>3
      <4> QED  BY <4>1, <4>2, <4>3 DEF StaleInv
    <3> QED  BY <1>2, <3>2, <3>3 DEF Switched
  <2>4. cache'[s].seen <= switches'
    <3>1. cache[s].seen \in Nat /\ switches \in Nat  BY <1>1, Typed
    <3> QED  BY <1>2, <2>1, <3>1 DEF ServerInv, Switched
  <2> QED  BY <2>2, <2>3, <2>4 DEF ServerInv
<1> QED  BY <1>2, <1>3, <1>4

LEMMA TalkKeepsTime ==
  ASSUME Timely, NEW t \in Threads, Talking(t)
  PROVE  /\ \A u \in Threads' : ThreadInv(u)'
         /\ \A s \in Servers : ServerInv(s)'
<1>1. Types /\ Deployed /\ CronInv(t) /\ ThreadInv(t)  BY DEF Timely
<1>2. Others(t) /\ Talks(t) /\ UNCHANGED <<flag, cache, due, command, switches>>
  BY <1>1, TalkSteps
<1>3. ThreadInv(t)'
  <2>1. thread'[t].pc \in {"ask", "idle"} \/ Loads(t) \/ Waits(t)
    BY <1>2 DEF Talks, Requests, Fires, Writes, Claims, Enqueues
  <2>2. CASE thread'[t].pc \in {"ask", "idle"}
    BY <2>2 DEF ThreadInv, Holds, SeenInv, ReadInv, WaitInv, WriteInv
  <2>3. CASE Loads(t) /\ thread'[t].pc = "store"
    <3>1. thread'[t].val = flag.on /\ thread'[t].seen = switches  BY <2>3 DEF Loads
    <3>2. switches \in Nat  BY <1>1, Typed
    <3> QED  BY <1>2, <2>3, <3>1, <3>2 DEF ThreadInv, Holds, SeenInv, ReadInv, WaitInv, WriteInv
  <2>4. CASE Waits(t)
    BY <1>2, <2>4 DEF Waits, ThreadInv, Holds, SeenInv, ReadInv, WaitInv, WriteInv, Home
  <2> QED  BY <2>1, <2>2, <2>3, <2>4 DEF Loads
<1>4. ASSUME NEW u \in Threads, u # t PROVE ThreadInv(u)'
  BY <1>2, <1>4, ThreadStays DEF Others, Timely
<1>5. ASSUME NEW s \in Servers PROVE ServerInv(s)'
  <2>1. thread[t].pc # "reading"
    BY <1>2 DEF Talks, Requests, Fires, Loads, Writes, Waits, Claims, Enqueues
  <2>2. Polling(s)' <=> Polling(s)
    <3>1. <<s, "watch">>[2] = "watch"  OBVIOUS
    <3>2. t[2] = "watch" => (thread[t].pc \in Asking <=> thread'[t].pc \in Asking)
      BY <1>1, <1>2 DEF Talks, Requests, Fires, Loads, Writes, Waits, Claims, Enqueues, CronInv, Asking
    <3>3. CASE t = <<s, "watch">>  BY <1>2, <3>1, <3>2, <3>3 DEF Polling, Others
    <3>4. CASE t # <<s, "watch">>  BY <1>2, <3>4 DEF Polling, Others
    <3> QED  BY <3>3, <3>4
  <2>3. \A u \in Threads : (Home(u) = s /\ thread[u].pc = "reading") => thread'[u].pc = "reading"
    BY <1>2, <2>1 DEF Others
  <2> QED  BY <1>2, <2>2, <2>3, ServerStays DEF Others
<1> QED  BY <1>2, <1>3, <1>4, <1>5 DEF Others

LEMMA PollKeepsTime ==
  ASSUME Timely, NEW s \in Servers, WatchMaintenance(s)
  PROVE  /\ \A u \in Threads' : ThreadInv(u)'
         /\ \A q \in Servers : ServerInv(q)'
<1> DEFINE t == <<s, "watch">>
<1>1. Types /\ Deployed  BY DEF Timely
<1>2. /\ t \in Threads /\ Home(t) = s /\ Others(t)
      /\ thread[t].pc = "idle" /\ thread'[t].pc = "ask" /\ due[s] = 0 /\ due'[s] = TTL
      /\ \A q \in Servers : q # s => due'[q] = due[q]
      /\ UNCHANGED <<flag, cache, switches>>
  BY <1>1, PollSteps
<1>3. ThreadInv(t)'  BY <1>2 DEF ThreadInv, Holds, SeenInv, ReadInv, WaitInv, WriteInv
<1>4. ASSUME NEW u \in Threads, u # t PROVE ThreadInv(u)'
  BY <1>2, <1>4, ThreadStays DEF Others, Timely
<1>5. ServerInv(s)'
  <2>1. ServerInv(s)  BY DEF Timely
  <2>2. RefreshInv(s)'  BY <1>2, <2>1 DEF ServerInv, RefreshInv, Others, Home
  <2>3. Busy(s)'  BY <1>2 DEF Busy, Polling, Asking, Others
  <2>4. StaleInv(s)'
    <3>1. flag.age \in Nat /\ TTL \in Nat  BY <1>1, Typed
    <3>2. flag' = flag /\ cache' = cache /\ Threads' = Threads  BY <1>2 DEF Others
    <3>3. (Stale(s) /\ cache[s].known) => flag.age <= 2 * TTL
      BY <1>2, <2>1, <3>1 DEF ServerInv, StaleInv
    <3>4. Stale(s) => (cache[s].age <= TTL => flag.age <= cache[s].age)
      BY <2>1 DEF ServerInv, StaleInv
    <3>5. Stale(s)' <=> Stale(s)  BY <3>2 DEF Stale
    <3>6. (Stale(s)' /\ cache'[s].known) => flag'.age + (IF Busy(s)' THEN 0 ELSE due'[s]) <= 2 * TTL
      BY <2>3, <3>1, <3>2, <3>3, <3>5
    <3> QED  BY <3>2, <3>4, <3>5, <3>6 DEF StaleInv
  <2>5. cache'[s].seen <= switches'  BY <1>2, <2>1 DEF ServerInv
  <2> QED  BY <2>2, <2>4, <2>5 DEF ServerInv
<1>6. ASSUME NEW q \in Servers, q # s PROVE ServerInv(q)'
  <2>1. Polling(q)' <=> Polling(q)
    <3>1. <<q, "watch">> # t  BY <1>6
    <3> QED  BY <1>2, <3>1 DEF Polling, Others
  <2>2. \A u \in Threads : (Home(u) = q /\ thread[u].pc = "reading") => thread'[u].pc = "reading"
    BY <1>2, <1>6 DEF Others
  <2> QED  BY <1>2, <1>6, <2>1, <2>2, ServerStays DEF Others
<1> QED  BY <1>2, <1>3, <1>4, <1>5, <1>6 DEF Others

\* What a sure answer from the cache says of the flag.
LEMMA AnswerIsRecent ==
  ASSUME Timely, NEW t \in Threads, Ask(t) \/ Waited(t)
  PROVE  LET s == Home(t) IN
         /\ thread[t].pc \in {"ask", "waiting"}
         /\ \/ Stale(s) => flag.age <= TTL
            \/ /\ cache[s].age > TTL /\ cache[s].refreshing # None /\ cache[s].known
               /\ thread[t].pc = "ask"
<1> DEFINE s == Home(t)
<1>1. Types /\ Deployed /\ CronInv(t) /\ ThreadInv(t)  BY DEF Timely
<1>2. s \in Servers  BY <1>1, Homes
<1>3. ServerInv(s) /\ cache[s].age \in Nat /\ flag.age \in Nat /\ TTL \in Nat
  BY <1>1, <1>2, Typed DEF Timely
<1>4. cache[s].age <= TTL => (Stale(s) => flag.age <= TTL)
  BY <1>3 DEF ServerInv, StaleInv
<1>5. CASE Ask(t)
  BY <1>3, <1>4, <1>5 DEF Ask
<1>6. CASE Waited(t)
  <2>1. thread[t].pc = "waiting" /\ cache[s].refreshing = None  BY <1>6 DEF Waited
  <2>2. cache[s].age = 0  BY <1>1, <2>1 DEF ThreadInv, WaitInv
  <2> QED  BY <1>3, <1>4, <2>1, <2>2
<1> QED  BY <1>5, <1>6

LEMMA AskKeepsTime ==
  ASSUME Timely, NEW t \in Threads, Ask(t) \/ Waited(t)
  PROVE  /\ \A u \in Threads' : ThreadInv(u)'
         /\ \A q \in Servers : ServerInv(q)'
<1> DEFINE s == Home(t)
<1>1. Types /\ Deployed /\ CronInv(t) /\ ThreadInv(t)  BY DEF Timely
<1>2. s \in Servers  BY <1>1, Homes
<1>3. /\ Others(t) /\ UNCHANGED <<flag, cache, due, switches>>
  BY <1>1, AskSteps
<1>4. PICK unsure \in BOOLEAN :
              /\ Told(t, cache[s].on, unsure)
              /\ ~unsure => ~cache[s].unsure
              /\ \/ /\ thread[t].pc = "ask"
                    /\ cache[s].age <= TTL \/ (cache[s].refreshing # None /\ cache[s].known)
                    /\ (cache[s].age >= TTL /\ cache[s].refreshing # None) => unsure
                 \/ thread[t].pc = "waiting" /\ cache[s].refreshing = None
  BY <1>1, AskSteps
<1>5. /\ ServerInv(s) /\ cache[s].age \in Nat /\ flag.age \in Nat /\ TTL \in Nat /\ due[s] \in Nat
      /\ due[s] <= TTL /\ cache[s].on \in BOOLEAN /\ flag.on \in BOOLEAN
      /\ thread[t].then \in {"idle", "write", "claim", "enqueue"}
  <2>1. thread[t].then \in {"idle", "write", "claim", "enqueue"}
    <3>1. thread[t] \in ThreadState  BY <1>1 DEF Types
    <3> QED  BY <3>1 DEF ThreadState
  <2> QED  BY <1>1, <1>2, <2>1, Typed DEF Timely
<1>6. /\ thread[t].pc \in {"ask", "waiting"}
      /\ \/ Stale(s) => flag.age <= TTL
         \/ /\ cache[s].age > TTL /\ cache[s].refreshing # None /\ cache[s].known
            /\ thread[t].pc = "ask"
  BY AnswerIsRecent
<1>7. ThreadInv(t)'
  <2>1. thread'[t].pc \in {"idle", "write", "claim", "enqueue"}  BY <1>4, <1>5 DEF Told
  <2>2. ASSUME thread'[t].pc = "write", ~thread'[t].unsure, flag.on
        PROVE  flag.age <= TTL
    <3>1. ~cache[s].on /\ thread'[t].unsure = unsure  BY <1>4, <1>5, <2>2 DEF Told
    <3>2. Stale(s)  BY <1>4, <2>2, <3>1 DEF Stale
    <3>3. ~(cache[s].age > TTL /\ cache[s].refreshing # None /\ thread[t].pc = "ask")
      BY <1>4, <1>5, <2>2, <3>1
    <3> QED  BY <1>6, <3>2, <3>3
  <2>3. WriteInv(t)'  BY <1>3, <2>2 DEF WriteInv
  <2>4. Holds(t)' /\ SeenInv(t)' /\ ReadInv(t)' /\ WaitInv(t)'
    BY <2>1 DEF Holds, SeenInv, ReadInv, WaitInv
  <2> QED  BY <2>3, <2>4 DEF ThreadInv
<1>8. ASSUME NEW u \in Threads, u # t PROVE ThreadInv(u)'
  BY <1>3, <1>8, ThreadStays DEF Others, Timely
<1>9. \A u \in Threads : thread[u].pc = "reading" => thread'[u].pc = "reading"
  BY <1>3, <1>6 DEF Others
<1>10. ServerInv(s)'
  <2>1. RefreshInv(s)'  BY <1>3, <1>5, <1>9 DEF ServerInv, RefreshInv, Others, Home
  <2>2. Stale(s)' <=> Stale(s)  BY <1>3 DEF Stale
  <2>3. StaleInv(s)'
    <3>1. CASE Stale(s) => flag.age <= TTL
      <4>1. (Stale(s)' /\ cache'[s].age <= TTL) => flag'.age <= cache'[s].age
        BY <1>3, <1>5, <2>2 DEF ServerInv, StaleInv
      <4>2. Stale(s)' => flag'.age + (IF Busy(s)' THEN 0 ELSE due'[s]) <= 2 * TTL
        BY <1>3, <1>5, <2>2, <3>1
      <4> QED  BY <4>1, <4>2 DEF StaleInv
    <3>2. CASE cache[s].refreshing # None
      <4>1. Busy(s) /\ Busy(s)'  BY <1>3, <3>2 DEF Busy
      <4> QED  BY <1>3, <1>5, <2>2, <4>1 DEF ServerInv, StaleInv, Others
    <3> QED  BY <1>6, <3>1, <3>2
  <2>4. cache'[s].seen <= switches'  BY <1>3, <1>5 DEF ServerInv
  <2> QED  BY <2>1, <2>3, <2>4 DEF ServerInv
<1>11. ASSUME NEW q \in Servers, q # s PROVE ServerInv(q)'
  <2>1. <<q, "watch">> # t  BY <1>11 DEF Home
  <2>2. Polling(q)' <=> Polling(q)  BY <1>3, <2>1 DEF Polling, Others
  <2> QED  BY <1>3, <1>9, <2>2, ServerStays DEF Others
<1> QED  BY <1>3, <1>7, <1>8, <1>10, <1>11 DEF Others

LEMMA SetKeepsTime ==
  ASSUME Timely, NEW t \in Threads, SetMaintenance(t)
  PROVE  /\ \A u \in Threads' : ThreadInv(u)'
         /\ \A q \in Servers : ServerInv(q)'
<1> DEFINE s == Home(t)
<1>1. Types /\ Deployed /\ CronInv(t) /\ ThreadInv(t)  BY DEF Timely
<1>2. s \in Servers  BY <1>1, Homes
<1>3. /\ Others(t) /\ OneCache(s)
      /\ thread[t].pc = "store" /\ thread'[t].pc = "idle"
      /\ cache'[s].on = thread[t].val /\ cache'[s].age = 0 /\ cache'[s].overtaken
      /\ cache'[s].seen = thread[t].seen /\ cache'[s].refreshing = cache[s].refreshing
      /\ UNCHANGED <<flag, due, switches>>
  BY <1>1, SetSteps
<1>4. /\ ServerInv(s) /\ flag.age \in Nat /\ TTL \in Nat /\ due[s] \in Nat /\ due[s] <= TTL
  BY <1>1, <1>2, Typed DEF Timely
<1>5. ThreadInv(t)'  BY <1>3 DEF ThreadInv, Holds, SeenInv, ReadInv, WaitInv, WriteInv
<1>6. ASSUME NEW u \in Threads, u # t PROVE ThreadInv(u)'
  <2>1. ThreadInv(u) /\ Home(u) \in Servers  BY <1>1, Homes DEF Timely
  <2>2. CASE Home(u) # s  BY <1>3, <1>6, <2>1, <2>2, ThreadStays DEF Others, OneCache
  <2>3. CASE Home(u) = s
    <3>1. ReadInv(u)' /\ WaitInv(u)'
      BY <1>3, <1>6, <2>1, <2>3 DEF Others, ThreadInv, ReadInv, WaitInv, Home
    <3>2. Holds(u)' /\ SeenInv(u)' /\ WriteInv(u)'
      BY <1>3, <1>6, <2>1 DEF Others, ThreadInv, Holds, SeenInv, WriteInv
    <3> QED  BY <3>1, <3>2 DEF ThreadInv
  <2> QED  BY <2>2, <2>3
<1>7. \A u \in Threads : thread[u].pc = "reading" => thread'[u].pc = "reading"
  BY <1>3 DEF Others
<1>8. ServerInv(s)'
  <2>1. RefreshInv(s)'  BY <1>3, <1>4, <1>7 DEF ServerInv, RefreshInv, Others, Home
  <2>2. Stale(s)' => flag'.age = 0  BY <1>1, <1>3 DEF Stale, ThreadInv, Holds
  <2>3. Stale(s)' => flag'.age <= cache'[s].age  BY <1>3, <2>2
  <2>4. Stale(s)' => flag'.age + (IF Busy(s)' THEN 0 ELSE due'[s]) <= 2 * TTL
    BY <1>3, <1>4, <2>2
  <2>5. StaleInv(s)'  BY <2>3, <2>4 DEF StaleInv
  <2>6. cache'[s].seen <= switches'  BY <1>1, <1>3 DEF ThreadInv, SeenInv
  <2> QED  BY <2>1, <2>5, <2>6 DEF ServerInv
<1>9. ASSUME NEW q \in Servers, q # s PROVE ServerInv(q)'
  <2>1. <<q, "watch">> # t  BY <1>9 DEF Home
  <2>2. Polling(q)' <=> Polling(q)  BY <1>3, <2>1 DEF Polling, Others
  <2>3. cache'[q] = cache[q]  BY <1>3, <1>9 DEF OneCache
  <2> QED  BY <1>3, <1>7, <2>2, <2>3, ServerStays DEF Others
<1> QED  BY <1>3, <1>5, <1>6, <1>8, <1>9 DEF Others

LEMMA RefreshKeepsTime ==
  ASSUME Timely, NEW t \in Threads, Refresh(t)
  PROVE  /\ \A u \in Threads' : ThreadInv(u)'
         /\ \A q \in Servers : ServerInv(q)'
<1> DEFINE s == Home(t)
<1>1. Types /\ Deployed /\ CronInv(t) /\ ThreadInv(t)  BY DEF Timely
<1>2. s \in Servers /\ t # None  BY <1>1, Homes
<1>3. /\ Others(t) /\ OneCache(s)
      /\ thread[t].pc = "ask" /\ cache[s].age >= TTL /\ cache[s].refreshing = None
      /\ thread'[t].pc = "reading" /\ thread'[t].val = flag.on /\ thread'[t].seen = switches
      /\ cache'[s].refreshing = t /\ ~cache'[s].overtaken
      /\ cache'[s].on = cache[s].on /\ cache'[s].known = cache[s].known
      /\ cache'[s].age = cache[s].age /\ cache'[s].seen = cache[s].seen
      /\ cache'[s].unsure = cache[s].unsure
      /\ UNCHANGED <<flag, due, switches>>
  BY <1>1, RefreshSteps
<1>4. /\ ServerInv(s) /\ flag.age \in Nat /\ TTL \in Nat /\ due[s] \in Nat /\ due[s] <= TTL
      /\ switches \in Nat /\ cache[s].seen \in Nat
  BY <1>1, <1>2, Typed DEF Timely
<1>5. ThreadInv(t)'
  <2>1. Holds(t)' /\ SeenInv(t)' /\ WaitInv(t)' /\ WriteInv(t)'
    BY <1>3, <1>4 DEF Holds, SeenInv, WaitInv, WriteInv
  <2>2. cache[s].seen <= switches  BY <1>4 DEF ServerInv
  <2>3. ReadInv(t)'  BY <1>3, <2>2 DEF ReadInv, Home
  <2> QED  BY <2>1, <2>3 DEF ThreadInv
<1>6. ASSUME NEW u \in Threads, u # t PROVE ThreadInv(u)'
  <2>1. ThreadInv(u) /\ Home(u) \in Servers /\ u # None  BY <1>1, Homes DEF Timely
  <2>2. CASE Home(u) # s  BY <1>3, <1>6, <2>1, <2>2, ThreadStays DEF Others, OneCache
  <2>3. CASE Home(u) = s
    <3>1. thread[u].pc # "reading"  BY <1>3, <2>1, <2>3 DEF ThreadInv, ReadInv
    <3>2. ReadInv(u)' /\ WaitInv(u)'
      BY <1>2, <1>3, <1>6, <2>3, <3>1 DEF Others, ReadInv, WaitInv, Home
    <3>3. Holds(u)' /\ SeenInv(u)' /\ WriteInv(u)'
      BY <1>3, <1>6, <2>1 DEF Others, ThreadInv, Holds, SeenInv, WriteInv
    <3> QED  BY <3>2, <3>3 DEF ThreadInv
  <2> QED  BY <2>2, <2>3
<1>7. \A u \in Threads : thread[u].pc = "reading" => thread'[u].pc = "reading"
  BY <1>3 DEF Others
<1>8. ServerInv(s)'
  <2>1. RefreshInv(s)'  BY <1>3 DEF RefreshInv, Others, Home
  <2>2. Stale(s)' <=> Stale(s)  BY <1>3 DEF Stale
  <2>3. Busy(s)'  BY <1>2, <1>3 DEF Busy
  <2>4. (Stale(s)' /\ cache'[s].age <= TTL) => flag'.age <= cache'[s].age
    BY <1>3, <1>4, <2>2 DEF ServerInv, StaleInv
  <2>5. (Stale(s)' /\ cache'[s].known /\ <<s, "watch">> \in Threads')
          => flag'.age + (IF Busy(s)' THEN 0 ELSE due'[s]) <= 2 * TTL
    BY <1>3, <1>4, <2>2, <2>3 DEF ServerInv, StaleInv, Others
  <2>6. StaleInv(s)'  BY <2>4, <2>5 DEF StaleInv
  <2>7. cache'[s].seen <= switches'  BY <1>3, <1>4 DEF ServerInv
  <2> QED  BY <2>1, <2>6, <2>7 DEF ServerInv
<1>9. ASSUME NEW q \in Servers, q # s PROVE ServerInv(q)'
  <2>1. <<q, "watch">> # t  BY <1>9 DEF Home
  <2>2. Polling(q)' <=> Polling(q)  BY <1>3, <2>1 DEF Polling, Others
  <2>3. cache'[q] = cache[q]  BY <1>3, <1>9 DEF OneCache
  <2> QED  BY <1>3, <1>7, <2>2, <2>3, ServerStays DEF Others
<1> QED  BY <1>3, <1>5, <1>6, <1>8, <1>9 DEF Others

\* What a refresh leaves behind is of this second, or says that it is not sure.
LEMMA FinishIsRecent ==
  ASSUME Timely, NEW t \in Threads, Finish(t)
  PROVE  LET s == Home(t) IN
         /\ cache'[s].age = 0 /\ (Stale(s)' => flag.age = 0) /\ flag' = flag
         /\ cache'[s].seen <= switches
         /\ cache[s].seen <= cache'[s].seen
<1> DEFINE s == Home(t)
<1>1. Types /\ Deployed /\ CronInv(t) /\ ThreadInv(t)  BY DEF Timely
<1>2. s \in Servers /\ t # None  BY <1>1, Homes
<1>3. /\ thread[t].pc = "reading" /\ Finds(t) /\ flag' = flag  BY <1>1, FinishSteps
<1>4. ServerInv(s) /\ flag.age \in Nat /\ cache[s].age \in Nat /\ TTL \in Nat /\ cache[s].seen \in Nat
  BY <1>1, <1>2, Typed DEF Timely
<1>5. /\ cache[s].refreshing = t
      /\ ~cache[s].overtaken => cache[s].seen <= thread[t].seen
      /\ thread[t].seen <= switches
      /\ thread[t].val # flag.on => flag.age = 0
  BY <1>1, <1>3 DEF ThreadInv, ReadInv, Holds, SeenInv
<1>6. cache[s].overtaken => cache[s].age = 0  BY <1>2, <1>4, <1>5 DEF ServerInv, RefreshInv
<1>7. cache[s].seen <= switches  BY <1>4 DEF ServerInv
<1>8. CASE /\ cache[s].overtaken /\ cache'[s].on = cache[s].on /\ cache'[s].known = cache[s].known
           /\ cache'[s].age = cache[s].age /\ cache'[s].seen = cache[s].seen
           /\ cache'[s].unsure = cache[s].unsure
  <2>1. Stale(s)' <=> Stale(s)  BY <1>3, <1>8 DEF Stale
  <2>2. Stale(s) => flag.age <= 0  BY <1>4, <1>6, <1>8 DEF ServerInv, StaleInv
  <2>3. cache'[s].age = 0 /\ cache'[s].seen <= switches  BY <1>6, <1>7, <1>8
  <2> QED  BY <1>3, <1>4, <1>8, <2>1, <2>2, <2>3
<1>9. CASE cache'[s].age = 0 /\ cache'[s].seen = cache[s].seen /\ cache'[s].unsure
  BY <1>3, <1>4, <1>7, <1>9 DEF Stale
<1>10. CASE /\ ~cache[s].overtaken /\ cache'[s].on = thread[t].val /\ cache'[s].age = 0
            /\ cache'[s].seen = thread[t].seen /\ ~cache'[s].unsure
  BY <1>3, <1>5, <1>10 DEF Stale
<1> QED  BY <1>3, <1>8, <1>9, <1>10 DEF Finds

LEMMA FinishKeepsTime ==
  ASSUME Timely, NEW t \in Threads, Finish(t)
  PROVE  /\ \A u \in Threads' : ThreadInv(u)'
         /\ \A q \in Servers : ServerInv(q)'
<1> DEFINE s == Home(t)
<1>1. Types /\ Deployed /\ CronInv(t) /\ ThreadInv(t)  BY DEF Timely
<1>2. s \in Servers /\ t # None  BY <1>1, Homes
<1>3. /\ Others(t) /\ OneCache(s)
      /\ thread[t].pc = "reading" /\ cache'[s].refreshing = None
      /\ Told(t, cache'[s].on, cache'[s].unsure)
      /\ UNCHANGED <<flag, due, switches>> /\ Types'
  BY <1>1, FinishSteps
<1>4. /\ flag.age \in Nat /\ TTL \in Nat /\ due[s] \in Nat /\ due[s] <= TTL
      /\ flag.on \in BOOLEAN /\ thread[t].then \in {"idle", "write", "claim", "enqueue"}
  <2>1. thread[t] \in ThreadState  BY <1>1 DEF Types
  <2>2. thread[t].then \in {"idle", "write", "claim", "enqueue"}  BY <2>1 DEF ThreadState
  <2> QED  BY <1>1, <1>2, <2>2, Typed
<1>5. /\ cache'[s].age = 0 /\ (Stale(s)' => flag.age = 0) /\ cache'[s].seen <= switches
  BY FinishIsRecent
<1>6. ThreadInv(t)'
  <2>1. thread'[t].pc \in {"idle", "write", "claim", "enqueue"}
    <3>1. cache'[s] \in CacheRow  BY <1>2, <1>3 DEF Types
    <3>2. cache'[s].on \in BOOLEAN  BY <3>1 DEF CacheRow
    <3> QED  BY <1>3, <1>4, <3>2 DEF Told
  <2>2. ASSUME thread'[t].pc = "write", ~thread'[t].unsure, flag.on
        PROVE  flag.age <= TTL
    <3>1. ~cache'[s].on /\ thread'[t].unsure = cache'[s].unsure  BY <1>3, <2>2 DEF Told
    <3>2. Stale(s)'  BY <1>3, <2>2, <3>1 DEF Stale
    <3> QED  BY <1>4, <1>5, <3>2
  <2>3. WriteInv(t)'  BY <1>3, <2>2 DEF WriteInv
  <2>4. Holds(t)' /\ SeenInv(t)' /\ ReadInv(t)' /\ WaitInv(t)'
    BY <2>1 DEF Holds, SeenInv, ReadInv, WaitInv
  <2> QED  BY <2>3, <2>4 DEF ThreadInv
<1>7. ASSUME NEW u \in Threads, u # t PROVE ThreadInv(u)'
  <2>1. ThreadInv(u) /\ Home(u) \in Servers  BY <1>1, Homes DEF Timely
  <2>2. CASE Home(u) # s  BY <1>3, <1>7, <2>1, <2>2, ThreadStays DEF Others, OneCache
  <2>3. CASE Home(u) = s
    <3>1. thread[u].pc # "reading"
      BY <1>1, <1>3, <1>7, <2>1, <2>3 DEF ThreadInv, ReadInv
    <3>2. ReadInv(u)' /\ WaitInv(u)'
      BY <1>3, <1>5, <1>7, <2>3, <3>1 DEF Others, ReadInv, WaitInv, Home
    <3>3. Holds(u)' /\ SeenInv(u)' /\ WriteInv(u)'
      BY <1>3, <1>7, <2>1 DEF Others, ThreadInv, Holds, SeenInv, WriteInv
    <3> QED  BY <3>2, <3>3 DEF ThreadInv
  <2> QED  BY <2>2, <2>3
<1>8. ServerInv(s)'
  <2>1. RefreshInv(s)'  BY <1>3 DEF RefreshInv
  <2>2. Stale(s)' => flag'.age <= cache'[s].age  BY <1>3, <1>4, <1>5
  <2>3. Stale(s)' => flag'.age + (IF Busy(s)' THEN 0 ELSE due'[s]) <= 2 * TTL
    BY <1>3, <1>4, <1>5
  <2>4. StaleInv(s)'  BY <2>2, <2>3 DEF StaleInv
  <2>5. cache'[s].seen <= switches'  BY <1>3, <1>5
  <2> QED  BY <2>1, <2>4, <2>5 DEF ServerInv
<1>9. ASSUME NEW q \in Servers, q # s PROVE ServerInv(q)'
  <2>1. <<q, "watch">> # t  BY <1>9 DEF Home
  <2>2. Polling(q)' <=> Polling(q)  BY <1>3, <2>1 DEF Polling, Others
  <2>3. cache'[q] = cache[q]  BY <1>3, <1>9 DEF OneCache
  <2>4. \A u \in Threads : (Home(u) = q /\ thread[u].pc = "reading") => thread'[u].pc = "reading"
    BY <1>3, <1>9 DEF Others
  <2> QED  BY <1>3, <2>2, <2>3, <2>4, ServerStays DEF Others
<1> QED  BY <1>3, <1>6, <1>7, <1>8, <1>9 DEF Others

LEMMA CrashKeepsTime ==
  ASSUME Timely, NEW s \in Servers, Crash(s)
  PROVE  /\ \A u \in Threads' : ThreadInv(u)'
         /\ \A q \in Servers : ServerInv(q)'
<1>1. Types /\ Deployed /\ \A t \in Threads : CronInv(t)  BY DEF Timely
<1>2. /\ OneCache(s) /\ Threads' = Threads /\ cache'[s] = NoCache
      /\ \A t \in Threads : IF Home(t) = s
           THEN thread'[t].pc = "idle" /\ thread'[t].minute = thread[t].minute
           ELSE thread'[t] = thread[t]
      /\ \A q \in Servers : q # s => due'[q] = due[q]
      /\ UNCHANGED <<flag, switches>>
  BY <1>1, CrashSteps
<1>3. ASSUME NEW u \in Threads PROVE ThreadInv(u)'
  <2>1. Home(u) \in Servers  BY <1>1, Homes
  <2>2. CASE Home(u) = s
    BY <1>2, <2>2 DEF ThreadInv, Holds, SeenInv, ReadInv, WaitInv, WriteInv
  <2>3. CASE Home(u) # s
    BY <1>2, <2>1, <2>3, ThreadStays DEF Timely, OneCache
  <2> QED  BY <2>2, <2>3
<1>4. ServerInv(s)'
  <2>1. /\ NoCache.age = TTL + 1 /\ NoCache.refreshing = None /\ NoCache.seen = 0
        /\ NoCache.known = FALSE
    BY DEF NoCache
  <2>2. RefreshInv(s)'  BY <1>2, <2>1 DEF RefreshInv
  <2>3. StaleInv(s)'  BY <1>2, <2>1, TimesAssumption DEF StaleInv
  <2>4. cache'[s].seen <= switches'  BY <1>1, <1>2, <2>1, Typed
  <2> QED  BY <2>2, <2>3, <2>4 DEF ServerInv
<1>5. ASSUME NEW q \in Servers, q # s PROVE ServerInv(q)'
  <2>1. Polling(q)' <=> Polling(q)
    <3>1. Home(<<q, "watch">>) = q  BY DEF Home
    <3> QED  BY <1>2, <1>5, <3>1 DEF Polling
  <2>2. cache'[q] = cache[q]  BY <1>2, <1>5 DEF OneCache
  <2>3. \A u \in Threads : (Home(u) = q /\ thread[u].pc = "reading") => thread'[u].pc = "reading"
    BY <1>2, <1>5
  <2> QED  BY <1>2, <1>5, <2>1, <2>2, <2>3, ServerStays
<1> QED  BY <1>2, <1>3, <1>4, <1>5

LEMMA TickKeepsTime ==
  ASSUME Timely, Tick
  PROVE  /\ \A u \in Threads' : ThreadInv(u)'
         /\ \A q \in Servers : ServerInv(q)'
<1>1. Types /\ Deployed /\ \A t \in Threads : CronInv(t)  BY DEF Timely
<1>2. /\ flag'.on = flag.on /\ Later(flag.age, flag'.age, 2 * TTL + 1)
      /\ \A s \in Servers :
           /\ cache'[s].on = cache[s].on /\ cache'[s].known = cache[s].known
           /\ cache'[s].refreshing = cache[s].refreshing /\ cache'[s].seen = cache[s].seen
           /\ cache'[s].overtaken = cache[s].overtaken /\ cache'[s].unsure = cache[s].unsure
           /\ Later(cache[s].age, cache'[s].age, TTL + 1)
           /\ <<s, "watch">> \in Threads => due[s] > 0 /\ due'[s] = due[s] - 1
      /\ \A t \in Threads : /\ thread[t].pc \notin {"reading", "store", "waiting", "write"}
                            /\ t[2] = "watch" => thread[t].pc = "idle"
      /\ UNCHANGED <<thread, switches>>
  BY <1>1, TickSteps
<1>3. Threads' = Threads  BY <1>2 DEF Threads
<1>4. \A u \in Threads : ThreadInv(u)'
  BY <1>2, <1>3 DEF ThreadInv, Holds, SeenInv, ReadInv, WaitInv, WriteInv
<1>5. ASSUME NEW s \in Servers PROVE ServerInv(s)'
  <2>1. /\ ServerInv(s) /\ cache[s].age \in Nat /\ cache[s].age <= TTL + 1 /\ flag.age \in Nat
        /\ flag.age <= 2 * TTL + 1 /\ TTL \in Nat /\ due[s] \in Nat
    BY <1>1, Typed DEF Timely
  <2>2. cache[s].refreshing = None  BY <1>2, <2>1 DEF ServerInv, RefreshInv
  <2>3. cache'[s].refreshing = None  BY <1>2, <2>2
  <2>4. RefreshInv(s)'  BY <2>3 DEF RefreshInv
  <2>5. <<s, "watch">> \in Threads => (~Busy(s) /\ ~Busy(s)')
    <3>1. <<s, "watch">>[2] = "watch"  OBVIOUS
    <3>2. <<s, "watch">> \in Threads => thread[<<s, "watch">>].pc = "idle"  BY <1>2, <3>1
    <3> QED  BY <1>2, <1>3, <2>2, <2>3, <3>2 DEF Busy, Polling, Asking
  <2>6. Stale(s)' <=> Stale(s)  BY <1>2 DEF Stale
  <2>7. (Stale(s)' /\ cache'[s].age <= TTL) => flag'.age <= cache'[s].age
    <3>1. SUFFICES ASSUME Stale(s), cache'[s].age <= TTL PROVE flag'.age <= cache'[s].age
      BY <2>6
    <3>2. cache[s].age < TTL + 1 /\ cache'[s].age = cache[s].age + 1
      <4>1. Later(cache[s].age, cache'[s].age, TTL + 1)  BY <1>2
      <4>2. cache[s].age >= TTL + 1 => cache'[s].age = cache[s].age  BY <4>1 DEF Later
      <4>3. cache[s].age < TTL + 1  BY <2>1, <3>1, <4>2
      <4> QED  BY <4>1, <4>3 DEF Later
    <3>3. flag.age <= cache[s].age  BY <2>1, <3>1, <3>2 DEF ServerInv, StaleInv
    <3>4. flag'.age <= flag.age + 1  BY <1>2, <2>1 DEF Later
    <3>5. flag'.age \in Nat  BY <1>2, <2>1 DEF Later
    <3> QED  BY <2>1, <3>2, <3>3, <3>4, <3>5
  <2>8. (Stale(s)' /\ cache'[s].known /\ <<s, "watch">> \in Threads')
          => flag'.age + (IF Busy(s)' THEN 0 ELSE due'[s]) <= 2 * TTL
    <3>1. SUFFICES ASSUME Stale(s), cache[s].known, <<s, "watch">> \in Threads
                   PROVE  flag'.age + (IF Busy(s)' THEN 0 ELSE due'[s]) <= 2 * TTL
      BY <1>2, <1>3, <2>6
    <3>2. flag.age + due[s] <= 2 * TTL  BY <2>1, <2>5, <3>1 DEF ServerInv, StaleInv
    <3>3. due[s] > 0 /\ due'[s] = due[s] - 1  BY <1>2, <3>1
    <3>4. flag'.age = flag.age + 1  BY <1>2, <2>1, <3>2, <3>3 DEF Later
    <3>5. flag'.age + due'[s] <= 2 * TTL  BY <2>1, <3>2, <3>3, <3>4
    <3> QED  BY <2>5, <3>1, <3>5
  <2>9. StaleInv(s)'  BY <2>7, <2>8 DEF StaleInv
  <2>10. cache'[s].seen <= switches'  BY <1>2, <2>1 DEF ServerInv
  <2> QED  BY <2>4, <2>9, <2>10 DEF ServerInv
<1> QED  BY <1>3, <1>4, <1>5

\* Nothing the threads, the servers and the flag know of.
LEMMA StillKeepsTime ==
  ASSUME Timely, UNCHANGED <<flag, cache, due, thread, switches>>
  PROVE  /\ \A u \in Threads' : ThreadInv(u)'
         /\ \A q \in Servers : ServerInv(q)'
<1>1. Threads' = Threads  BY DEF Threads
<1>2. \A u \in Threads : ThreadInv(u)'  BY ThreadStays DEF Timely
<1>3. \A q \in Servers : Polling(q)' <=> Polling(q)  BY <1>1 DEF Polling
<1>4. \A q \in Servers : ServerInv(q)'  BY <1>1, <1>3, ServerStays
<1> QED  BY <1>1, <1>2, <1>4

-----------------------------------------------------------------------------
(* The commands.                                                           *)

LEMMA SwitchKeepsCommands ==
  ASSUME Types, Deployed, \A c \in Commands : CommandInv(c), Switching
  PROVE  \A c \in Commands' : CommandInv(c)'
<1>1. Switched /\ Commands' = Commands /\ \A c \in Commands : Shifted(c)  BY SwitchSteps
<1>2. SUFFICES ASSUME NEW c \in Commands PROVE CommandInv(c)'  BY <1>1
<1>3. /\ CommandInv(c) /\ Shifted(c) /\ flag.age \in Nat /\ TTL \in Nat /\ Grace \in Nat
  BY <1>1, Typed
<1>4. CASE /\ command'[c].pc = command[c].pc /\ command'[c].own = command[c].own
           /\ command'[c].left = command[c].left
           /\ command[c].disturbed => command'[c].disturbed
           /\ (~flag'.on /\ command[c].pc # "idle") => command'[c].disturbed
  <2>1. CASE flag'.on = flag.on /\ flag'.age = flag.age
    BY <1>3, <1>4, <2>1 DEF CommandInv
  <2>2. CASE flag'.on # flag.on
    <3>1. command'[c].pc \in {"sleep", "run"} /\ ~command'[c].disturbed => flag'.on  BY <1>4
    <3>2. (command'[c].pc = "sleep" /\ ~command'[c].disturbed) => flag.on
      BY <1>3, <1>4 DEF CommandInv
    <3>3. (command'[c].pc = "run" /\ command'[c].own /\ ~command'[c].disturbed) => flag.on
      BY <1>3, <1>4 DEF CommandInv
    <3>4. command'[c].pc = "open" => command'[c].left = Grace  BY <1>3, <1>4 DEF CommandInv
    <3>5. flag.on \in BOOLEAN /\ flag'.on \in BOOLEAN
      <4>1. Types'  BY SwitchSteps
      <4> QED  BY <4>1 DEF Types
    <3> QED  BY <2>2, <3>1, <3>2, <3>3, <3>4, <3>5 DEF CommandInv
  <2> QED  BY <1>1, <2>1, <2>2 DEF Switched
<1>5. CASE /\ command[c].pc = "open" /\ command'[c].pc = "sleep" /\ command'[c].left = command[c].left
           /\ flag'.on
  <2>1. command'[c].left = Grace  BY <1>3, <1>5 DEF CommandInv
  <2>2. flag'.age \in Nat  BY <1>1, <1>3 DEF Switched
  <2>3. flag'.age + command'[c].left >= Grace  BY <1>3, <2>1, <2>2
  <2> QED  BY <1>5, <2>3 DEF CommandInv
<1>6. CASE command'[c].pc = "idle"  BY <1>6 DEF CommandInv
<1> QED  BY <1>3, <1>4, <1>5, <1>6 DEF Shifted

LEMMA TickKeepsCommands ==
  ASSUME Types, Deployed, \A c \in Commands : CommandInv(c), Tick
  PROVE  \A c \in Commands' : CommandInv(c)'
<1>1. /\ flag'.on = flag.on /\ Later(flag.age, flag'.age, 2 * TTL + 1) /\ Types'
      /\ \A c \in Commands :
              /\ command'[c].pc = command[c].pc /\ command'[c].own = command[c].own
              /\ command'[c].disturbed = command[c].disturbed
              /\ IF command[c].pc = "sleep" /\ command[c].left > 0
                 THEN command'[c].left = command[c].left - 1
                 ELSE command'[c].left = command[c].left
  BY TickSteps
<1>2. Commands' = Commands  BY DEF Tick, Commands
<1>3. SUFFICES ASSUME NEW c \in Commands PROVE CommandInv(c)'  BY <1>2
<1>4. /\ CommandInv(c) /\ flag.age \in Nat /\ flag.age <= 2 * TTL + 1 /\ TTL \in Nat
      /\ Grace \in Nat /\ Grace > TTL /\ command[c].left \in Nat
  BY Typed
<1>5. flag'.age \in Nat /\ flag'.age >= flag.age  BY <1>1, <1>4 DEF Later
<1>6. ASSUME command[c].pc = "sleep", ~command[c].disturbed
      PROVE  flag.on /\ (flag'.age > TTL \/ flag'.age + command'[c].left >= Grace)
  <2>1. flag.on /\ (flag.age > TTL \/ flag.age + command[c].left >= Grace)
    BY <1>4, <1>6 DEF CommandInv
  <2>2. CASE flag.age > TTL  BY <1>4, <1>5, <2>1, <2>2
  <2>3. CASE flag.age <= TTL /\ command[c].left > 0
    <3>1. flag'.age = flag.age + 1  BY <1>1, <1>4, <2>3 DEF Later
    <3>2. command'[c].left = command[c].left - 1  BY <1>1, <1>6, <2>3
    <3> QED  BY <1>4, <2>1, <2>3, <3>1, <3>2
  <2>4. CASE ~(command[c].left > 0)
    <3>1. command'[c].left = command[c].left  BY <1>1, <2>4
    <3> QED  BY <1>4, <1>5, <2>1, <2>4, <3>1
  <2> QED  BY <1>4, <2>2, <2>3, <2>4
<1>7. ASSUME command[c].pc = "open" PROVE command'[c].left = Grace
  BY <1>1, <1>4, <1>7 DEF CommandInv
<1>8. ASSUME command[c].pc = "run", command[c].own, ~command[c].disturbed
      PROVE  flag.on /\ flag'.age > TTL
  BY <1>4, <1>5, <1>8 DEF CommandInv
<1> QED  BY <1>1, <1>6, <1>7, <1>8 DEF CommandInv

LEMMA StepKeepsCommands ==
  ASSUME Types, Deployed, \A c \in Commands : CommandInv(c), NEW c \in Commands, Stepping(c)
  PROVE  \A d \in Commands' : CommandInv(d)'
<1>1. /\ Types' /\ UNCHANGED flag
      /\ \A d \in Commands : d # c => command'[d] = command[d]
      /\ \/ command'[c].pc = "run" /\ ~command'[c].own
         \/ command'[c].pc = "open" /\ command'[c].left = Grace
         \/ /\ command[c].pc = "sleep" /\ command[c].left = 0 /\ command'[c].pc = "run"
            /\ command'[c].own = command[c].own /\ command'[c].disturbed = command[c].disturbed
         \/ command'[c].pc = "idle"
  BY CommandSteps
<1>2. Commands' = Commands  BY DEF Stepping, FindPaused, FindOpen, Start, End, Die, Commands, Types, Disturbed
<1>3. ASSUME NEW d \in Commands, d # c PROVE CommandInv(d)'  BY <1>1, <1>3 DEF CommandInv
<1>4. CommandInv(c)'
  <2>1. /\ CommandInv(c) /\ flag.age \in Nat /\ TTL \in Nat /\ Grace \in Nat /\ Grace > TTL
    BY Typed
  <2> QED  BY <1>1, <2>1 DEF CommandInv
<1> QED  BY <1>2, <1>3, <1>4

-----------------------------------------------------------------------------
(* The scheduler's threads.                                                *)

CronStays == \A t \in Threads' : CronInv(t)'

LEMMA SwitchKeepsCron ==
  ASSUME Timely, Switching
  PROVE  CronStays
<1>1. /\ Threads' = Threads
      /\ \A u \in Threads :
           \/ thread'[u] = thread[u]
           \/ u[2] = "request" /\ thread[u].pc = "idle" /\ thread'[u].pc = "load"
  BY SwitchSteps DEF Timely
<1>2. ASSUME NEW u \in Threads PROVE CronInv(u)'
  <2>1. CronInv(u)  BY DEF Timely
  <2> QED  BY <1>1, <2>1 DEF CronInv, Asking
<1> QED  BY <1>1, <1>2 DEF CronStays

LEMMA OneKeepsCron ==
  ASSUME Timely, NEW t \in Threads, Others(t), CronInv(t)'
  PROVE  CronStays
<1>1. ASSUME NEW u \in Threads, u # t PROVE CronInv(u)'
  <2>1. CronInv(u)  BY DEF Timely
  <2>2. thread'[u] = thread[u]  BY <1>1 DEF Others
  <2> QED  BY <2>1, <2>2 DEF CronInv
<1> QED  BY <1>1 DEF CronStays, Others

LEMMA TalkKeepsCron ==
  ASSUME Timely, NEW t \in Threads, Talking(t)
  PROVE  CronStays
<1>1. Types /\ Deployed /\ CronInv(t)  BY DEF Timely
<1>2. Others(t) /\ Talks(t)  BY <1>1, TalkSteps
<1>3. CronInv(t)'
  <2>1. CASE Requests(t) \/ Writes(t) \/ Enqueues(t)
    BY <2>1 DEF Requests, Writes, Enqueues, CronInv, Asking
  <2>2. CASE Fires(t)  BY <2>2 DEF Fires, CronInv, Asking
  <2>3. CASE Loads(t)  BY <1>1, <2>3 DEF Loads, CronInv, Asking
  <2>4. CASE Waits(t)  BY <1>1, <2>4 DEF Waits, SamePlans, CronInv, Asking
  <2>5. CASE Claims(t)  BY <1>1, <2>5 DEF Claims, CronInv, Asking
  <2> QED  BY <1>2, <2>1, <2>2, <2>3, <2>4, <2>5 DEF Talks
<1> QED  BY <1>2, <1>3, OneKeepsCron

LEMMA ToldKeepsCron ==
  ASSUME Timely, NEW t \in Threads, Others(t), thread[t].pc \in Asking,
         NEW on \in BOOLEAN, NEW unsure, Told(t, on, unsure)
  PROVE  CronStays
<1>1. CronInv(t) /\ thread[t].then \in {"idle", "write", "claim", "enqueue"}
  <2>1. thread[t] \in ThreadState  BY DEF Timely, Types
  <2> QED  BY <2>1 DEF ThreadState, Timely
<1>2. CronInv(t)'  BY <1>1 DEF Told, CronInv, Asking
<1> QED  BY <1>2, OneKeepsCron

LEMMA CrashKeepsCron ==
  ASSUME Timely, NEW s \in Servers, Crash(s)
  PROVE  CronStays
<1>1. /\ Threads' = Threads
      /\ \A t \in Threads : IF Home(t) = s
           THEN thread'[t].pc = "idle" /\ thread'[t].minute = thread[t].minute
           ELSE thread'[t] = thread[t]
  BY CrashSteps DEF Timely
<1>2. ASSUME NEW u \in Threads PROVE CronInv(u)'
  <2>1. CronInv(u)  BY DEF Timely
  <2> QED  BY <1>1, <2>1 DEF CronInv, Asking
<1> QED  BY <1>1, <1>2 DEF CronStays

-----------------------------------------------------------------------------
(* The minutes.                                                            *)

Count(m) == Cardinality(Carriers(m))

LEMMA CarriersAre ==
  ASSUME NEW m, MinuteInv(m)
  PROVE  IsFiniteSet(Carriers(m)) /\ Count(m) \in Nat
BY FS_CardinalityType DEF MinuteInv, Count

\* No thread takes up the minute's run, and one that puts it down is excused.
LEMMA MinuteStays ==
  ASSUME Types, Types', NEW m \in Minutes, MinuteInv(m), Threads' = Threads,
         m \in ledger' <=> m \in ledger, queued'[m] = queued[m], faults' >= faults,
         excuse \subseteq excuse',
         \A u \in Threads : Carries(u, m)' => Carries(u, m),
         \A u \in Threads : (m \notin excuse' /\ Carries(u, m)) => Carries(u, m)',
         \A u \in Threads : (m \notin excuse' /\ Past(u, m)') => (Past(u, m) \/ m \in ledger)
  PROVE  MinuteInv(m)'
<1>1. IsFiniteSet(Carriers(m)) /\ Count(m) \in Nat  BY CarriersAre
<1>2. Carriers(m)' \subseteq Carriers(m)  BY DEF Carriers
<1>3. m \notin excuse' => Carriers(m)' = Carriers(m)
  <2>1. SUFFICES ASSUME m \notin excuse' PROVE Carriers(m)' = Carriers(m)  OBVIOUS
  <2>2. \A u \in Threads : Carries(u, m)' <=> Carries(u, m)  BY <2>1
  <2> QED  BY <2>2 DEF Carriers
<1>4. /\ IsFiniteSet(Carriers(m)') /\ Cardinality(Carriers(m)') \in Nat
      /\ Cardinality(Carriers(m)') <= Count(m)
  BY <1>1, <1>2, FS_Subset, FS_CardinalityType DEF Count
<1>5. Cardinality(Carriers(m)') + queued'[m] <= (IF m \in ledger' THEN 1 ELSE 0) + faults'
  <2>1. Count(m) + queued[m] <= (IF m \in ledger THEN 1 ELSE 0) + faults  BY DEF MinuteInv, Count
  <2>2. queued[m] \in Nat /\ faults \in Nat  BY Typed
  <2>3. faults' \in Nat
    <3>1. faults' \in 0..MaxFaults  BY DEF Types
    <3> QED  BY <3>1
  <2> QED  BY <1>1, <1>4, <2>1, <2>2, <2>3
<1>6. ASSUME m \notin excuse', m \in ledger' \/ \E t \in Threads : Past(t, m)'
      PROVE  queued'[m] > 0 \/ Carriers(m)' # {}
  <2>1. m \notin excuse /\ (m \in ledger \/ \E t \in Threads : Past(t, m))
    <3>1. CASE m \in ledger'  BY <1>6, <3>1
    <3>2. ASSUME NEW t \in Threads, Past(t, m)' PROVE Past(t, m) \/ m \in ledger
      BY <1>6, <3>2
    <3> QED  BY <1>6, <3>1, <3>2
  <2>2. queued[m] > 0 \/ Carriers(m) # {}  BY <2>1 DEF MinuteInv
  <2> QED  BY <1>3, <1>6, <2>2
<1> QED  BY <1>4, <1>5, <1>6 DEF MinuteInv

\* One thread claims the minute, or goes on because of a fault.
LEMMA MinuteTaken ==
  ASSUME Types, NEW m \in Minutes, MinuteInv(m), NEW t \in Threads, Others(t),
         ~Carries(t, m), Carries(t, m)', queued'[m] = queued[m],
         \/ m \notin ledger /\ m \in ledger' /\ faults' = faults
         \/ ledger' = ledger /\ faults' = faults + 1
  PROVE  MinuteInv(m)'
<1>1. IsFiniteSet(Carriers(m)) /\ Count(m) \in Nat  BY CarriersAre
<1>2. \A u \in Threads : u # t => (Carries(u, m)' <=> Carries(u, m))  BY DEF Others, Carries
<1>3. Carriers(m)' = Carriers(m) \cup {t} /\ t \notin Carriers(m)  BY <1>2 DEF Carriers, Others
<1>4. IsFiniteSet(Carriers(m)') /\ Cardinality(Carriers(m)') = Count(m) + 1
  BY <1>1, <1>3, FS_AddElement DEF Count
<1>5. Count(m) + queued[m] <= (IF m \in ledger THEN 1 ELSE 0) + faults  BY DEF MinuteInv, Count
<1>6. queued[m] \in Nat /\ faults \in Nat  BY Typed
<1>7. Cardinality(Carriers(m)') + queued'[m] <= (IF m \in ledger' THEN 1 ELSE 0) + faults'
  BY <1>1, <1>4, <1>5, <1>6
<1>8. Carriers(m)' # {}  BY <1>3
<1> QED  BY <1>4, <1>7, <1>8 DEF MinuteInv

\* The run is queued by the one who carries it.
LEMMA MinuteQueued ==
  ASSUME Types, NEW m \in Minutes, MinuteInv(m), NEW t \in Threads, Others(t),
         Carries(t, m), ~Carries(t, m)', queued'[m] = queued[m] + 1, UNCHANGED <<ledger, faults>>
  PROVE  MinuteInv(m)'
<1>1. IsFiniteSet(Carriers(m)) /\ Count(m) \in Nat  BY CarriersAre
<1>2. \A u \in Threads : u # t => (Carries(u, m)' <=> Carries(u, m))  BY DEF Others, Carries
<1>3. Carriers(m)' = Carriers(m) \ {t} /\ t \in Carriers(m)  BY <1>2 DEF Carriers, Others
<1>4. IsFiniteSet(Carriers(m)') /\ Cardinality(Carriers(m)') = Count(m) - 1
  BY <1>1, <1>3, FS_RemoveElement DEF Count
<1>5. Count(m) + queued[m] <= (IF m \in ledger THEN 1 ELSE 0) + faults  BY DEF MinuteInv, Count
<1>6. queued[m] \in Nat /\ faults \in Nat  BY Typed
<1>7. Cardinality(Carriers(m)') + queued'[m] <= (IF m \in ledger' THEN 1 ELSE 0) + faults'
  BY <1>1, <1>4, <1>5, <1>6
<1>8. queued'[m] > 0  BY <1>6
<1> QED  BY <1>4, <1>7, <1>8 DEF MinuteInv

LEMMA OneStays ==
  ASSUME Types, Types', NEW m \in Minutes, MinuteInv(m), NEW t \in Threads, Others(t),
         m \in ledger' <=> m \in ledger, queued'[m] = queued[m], faults' >= faults,
         excuse \subseteq excuse',
         Carries(t, m)' => Carries(t, m),
         (m \notin excuse' /\ Carries(t, m)) => Carries(t, m)',
         (m \notin excuse' /\ Past(t, m)') => (Past(t, m) \/ m \in ledger)
  PROVE  MinuteInv(m)'
<1>1. \A u \in Threads : u # t => /\ Carries(u, m)' <=> Carries(u, m)
                                  /\ Past(u, m)' <=> Past(u, m)
  BY DEF Others, Carries, Past
<1>2. Threads' = Threads  BY DEF Others
<1>3. /\ \A u \in Threads : Carries(u, m)' => Carries(u, m)
      /\ \A u \in Threads : (m \notin excuse' /\ Carries(u, m)) => Carries(u, m)'
      /\ \A u \in Threads : (m \notin excuse' /\ Past(u, m)') => (Past(u, m) \/ m \in ledger)
  BY <1>1
<1> QED  BY <1>2, <1>3, MinuteStays

MinutesStay == \A m \in Minutes : MinuteInv(m)'

LEMMA StillKeepsMinutes ==
  ASSUME Types, Types', \A m \in Minutes : MinuteInv(m),
         UNCHANGED <<thread, ledger, queued, excuse>>, faults' \in {faults, faults + 1}
  PROVE  MinutesStay
<1>1. Threads' = Threads  BY DEF Threads
<1>2. \A u \in Threads, m \in Minutes : /\ Carries(u, m)' <=> Carries(u, m)
                                        /\ Past(u, m)' <=> Past(u, m)
  BY DEF Carries, Past
<1>3. faults' >= faults  BY Typed
<1> QED  BY <1>1, <1>2, <1>3, MinuteStays DEF MinutesStay

LEMMA SwitchKeepsMinutes ==
  ASSUME Timely, \A m \in Minutes : MinuteInv(m), Switching
  PROVE  MinutesStay
<1>1. Types /\ Deployed  BY DEF Timely
<1>2. /\ Types' /\ UNCHANGED <<ledger, queued, excuse>> /\ Threads' = Threads
      /\ faults' \in {faults, faults + 1}
      /\ \A u \in Threads :
           \/ thread'[u] = thread[u]
           \/ u[2] = "request" /\ thread[u].pc = "idle" /\ thread'[u].pc = "load"
  BY <1>1, SwitchSteps
<1>3. \A u \in Threads, m \in Minutes : /\ Carries(u, m)' <=> Carries(u, m)
                                        /\ Past(u, m)' <=> Past(u, m)
  BY <1>2 DEF Carries, Past, Asking
<1>4. faults' >= faults  BY <1>1, <1>2, Typed
<1> QED  BY <1>1, <1>2, <1>3, <1>4, MinuteStays DEF MinutesStay

LEMMA PollKeepsMinutes ==
  ASSUME Timely, \A m \in Minutes : MinuteInv(m), NEW s \in Servers, WatchMaintenance(s)
  PROVE  MinutesStay
<1> DEFINE t == <<s, "watch">>
<1>1. Types /\ Deployed  BY DEF Timely
<1>2. /\ Types' /\ t \in Threads /\ Others(t)
      /\ thread[t].pc = "idle" /\ thread'[t].pc = "ask" /\ thread'[t].then = "idle"
      /\ UNCHANGED <<ledger, queued, excuse, faults>>
  BY <1>1, PollSteps
<1>3. \A m \in Minutes : ~Carries(t, m) /\ ~Carries(t, m)' /\ ~Past(t, m)'
  BY <1>2 DEF Carries, Past, Asking
<1>4. faults' >= faults  BY <1>1, <1>2, Typed
<1> QED  BY <1>1, <1>2, <1>3, <1>4, OneStays DEF MinutesStay

LEMMA SetKeepsMinutes ==
  ASSUME Timely, \A m \in Minutes : MinuteInv(m), NEW t \in Threads, SetMaintenance(t)
  PROVE  MinutesStay
<1>1. Types /\ Deployed /\ CronInv(t)  BY DEF Timely
<1>2. /\ Types' /\ Others(t) /\ thread[t].pc = "store" /\ thread'[t].pc = "idle"
      /\ UNCHANGED <<ledger, queued, excuse, faults>>
  BY <1>1, SetSteps
<1>3. \A m \in Minutes : ~Carries(t, m) /\ ~Carries(t, m)' /\ ~Past(t, m)'
  BY <1>1, <1>2 DEF Carries, Past, Asking, CronInv
<1>4. faults' >= faults  BY <1>1, <1>2, Typed
<1> QED  BY <1>1, <1>2, <1>3, <1>4, OneStays DEF MinutesStay

LEMMA RefreshKeepsMinutes ==
  ASSUME Timely, \A m \in Minutes : MinuteInv(m), NEW t \in Threads, Refresh(t)
  PROVE  MinutesStay
<1>1. Types /\ Deployed  BY DEF Timely
<1>2. /\ Types' /\ Others(t) /\ thread[t].pc = "ask" /\ thread'[t].pc = "reading" /\ SamePlans(t)
      /\ faults' \in {faults, faults + 1}
      /\ UNCHANGED <<ledger, queued, excuse>>
  BY <1>1, RefreshSteps
<1>3. \A m \in Minutes : /\ Carries(t, m)' <=> Carries(t, m)
                         /\ Past(t, m)' => Past(t, m)
  BY <1>2 DEF Carries, Past, Asking, SamePlans
<1>4. faults' >= faults  BY <1>1, <1>2, Typed
<1> QED  BY <1>1, <1>2, <1>3, <1>4, OneStays DEF MinutesStay

\* Who is refused at a minute is excused for it.
LEMMA ToldKeepsMinutes ==
  ASSUME Timely, Types', \A m \in Minutes : MinuteInv(m), NEW t \in Threads, Others(t),
         thread[t].pc \in Asking, NEW on \in BOOLEAN, NEW unsure, Told(t, on, unsure),
         UNCHANGED <<ledger, queued, faults>>
  PROVE  MinutesStay
<1>1. Types /\ CronInv(t) /\ thread[t].then \in {"idle", "write", "claim", "enqueue"}
  <2>1. thread[t] \in ThreadState  BY DEF Timely, Types
  <2> QED  BY <2>1 DEF ThreadState, Timely
<1>2. faults' >= faults  BY <1>1, Typed
<1>3. excuse \subseteq excuse'  BY DEF Told
<1>4. ASSUME NEW m \in Minutes PROVE MinuteInv(m)'
  <2>1. Carries(t, m)' => Carries(t, m)  BY <1>1 DEF Told, Carries, Asking
  <2>2. (m \notin excuse' /\ Carries(t, m)) => Carries(t, m)'  BY <1>1 DEF Told, Carries, Asking
  <2>3. (m \notin excuse' /\ Past(t, m)') => Past(t, m)
    <3>1. SUFFICES ASSUME m \notin excuse', Past(t, m)', ~(thread[t].minute > m) PROVE FALSE
      BY DEF Past
    <3>2. thread'[t].minute = thread[t].minute /\ thread[t].minute = m /\ thread'[t].pc = "idle"
          /\ t[2] = "cron"
      BY <3>1 DEF Past, Told
    <3>3. thread[t].then \in {"claim", "enqueue"}  BY <1>1, <3>2 DEF CronInv, Asking
    <3>4. on  BY <3>2, <3>3 DEF Told
    <3> QED  BY <3>1, <3>2, <3>3, <3>4 DEF Told
  <2> QED  BY <1>1, <1>2, <1>3, <2>1, <2>2, <2>3, OneStays
<1> QED  BY <1>4 DEF MinutesStay

LEMMA CrashKeepsMinutes ==
  ASSUME Timely, \A m \in Minutes : MinuteInv(m), NEW s \in Servers, Crash(s)
  PROVE  MinutesStay
<1>1. Types /\ Deployed /\ \A t \in Threads : CronInv(t)  BY DEF Timely
<1>2. /\ Types' /\ Threads' = Threads
      /\ \A t \in Threads : IF Home(t) = s
           THEN thread'[t].pc = "idle" /\ thread'[t].minute = thread[t].minute
           ELSE thread'[t] = thread[t]
      /\ excuse \subseteq excuse'
      /\ \A t \in Threads : (t = <<s, "cron">> /\ thread[t].pc # "idle")
           => thread[t].minute \in excuse'
      /\ faults' = faults + 1
      /\ UNCHANGED <<ledger, queued>>
  BY <1>1, CrashSteps
<1>3. faults' >= faults  BY <1>1, <1>2, Typed
<1>4. ASSUME NEW m \in Minutes, NEW t \in Threads
      PROVE  /\ Carries(t, m)' => Carries(t, m)
             /\ (m \notin excuse' /\ Carries(t, m)) => Carries(t, m)'
             /\ (m \notin excuse' /\ Past(t, m)') => Past(t, m)
  <2>1. CronInv(t) /\ t = <<Home(t), t[2]>>  BY <1>1, Homes
  <2>2. CASE Home(t) = s
    <3>1. thread'[t].pc = "idle" /\ thread'[t].minute = thread[t].minute  BY <1>2, <2>2
    <3>2. (t[2] = "cron" /\ thread[t].pc # "idle") => thread[t].minute \in excuse'
      BY <1>2, <2>1, <2>2
    <3>3. Carries(t, m) => t[2] = "cron" /\ thread[t].pc # "idle" /\ thread[t].minute = m
      BY <2>1 DEF Carries, CronInv, Asking
    <3>4. ~Carries(t, m)'  BY <3>1 DEF Carries, Asking
    <3>5. (m \notin excuse' /\ Past(t, m)') => Past(t, m)  BY <3>1, <3>2 DEF Past
    <3> QED  BY <3>2, <3>3, <3>4, <3>5
  <2>3. CASE Home(t) # s
    <3>1. thread'[t] = thread[t]  BY <1>2, <2>3
    <3> QED  BY <3>1 DEF Carries, Past
  <2> QED  BY <2>2, <2>3
<1>5. ASSUME NEW m \in Minutes PROVE MinuteInv(m)'
  <2>1. /\ \A t \in Threads : Carries(t, m)' => Carries(t, m)
        /\ \A t \in Threads : (m \notin excuse' /\ Carries(t, m)) => Carries(t, m)'
        /\ \A t \in Threads : (m \notin excuse' /\ Past(t, m)') => (Past(t, m) \/ m \in ledger)
    BY <1>4
  <2>2. MinuteInv(m)  OBVIOUS
  <2> QED  BY <1>1, <1>2, <1>3, <2>1, <2>2, MinuteStays
<1> QED  BY <1>5 DEF MinutesStay

LEMMA TalkKeepsMinutes ==
  ASSUME Timely, \A m \in Minutes : MinuteInv(m), NEW t \in Threads, Talking(t)
  PROVE  MinutesStay
<1>1. Types /\ Deployed /\ CronInv(t) /\ thread[t].minute \in Nat
  <2>1. Types /\ Deployed /\ CronInv(t)  BY DEF Timely
  <2> QED  BY <2>1, Typed
<1>2. Types' /\ Others(t) /\ Talks(t) /\ excuse \subseteq excuse'
  <2>1. Types' /\ Others(t) /\ Talks(t) /\ (excuse' = excuse \/ Enqueues(t))  BY <1>1, TalkSteps
  <2> QED  BY <2>1 DEF Enqueues
<1>3. SUFFICES ASSUME NEW m \in Minutes PROVE MinuteInv(m)'  BY DEF MinutesStay
<1>4. MinuteInv(m) /\ m \in Nat /\ faults \in Nat  BY <1>1, Typed DEF Minutes
<1>5. CASE Requests(t) \/ Writes(t) \/ Loads(t)
  <2>1. /\ thread[t].pc \in {"idle", "write", "load"} /\ t[2] # "cron"
        /\ thread'[t].pc \in {"idle", "store"} \/ (thread'[t].pc = "ask" /\ thread'[t].then = "write")
    BY <1>1, <1>5 DEF Requests, Writes, Loads, CronInv, Asking
  <2>2. ledger' = ledger /\ queued' = queued /\ faults' >= faults
    BY <1>4, <1>5 DEF Requests, Writes, Loads
  <2>3. ~Carries(t, m) /\ ~Carries(t, m)' /\ ~Past(t, m)'  BY <2>1 DEF Carries, Past, Asking
  <2> QED  BY <1>1, <1>2, <1>4, <2>2, <2>3, OneStays
<1>6. CASE Fires(t)
  <2>1. ~Carries(t, m) /\ ~Carries(t, m)'  BY <1>6 DEF Fires, Carries, Asking
  <2>2. Past(t, m)' => Past(t, m)  BY <1>1, <1>4, <1>6 DEF Fires, Past
  <2>3. ledger' = ledger /\ queued' = queued /\ faults' >= faults  BY <1>4, <1>6 DEF Fires
  <2> QED  BY <1>1, <1>2, <1>4, <2>1, <2>2, <2>3, OneStays
<1>7. CASE Waits(t)
  <2>1. Carries(t, m)' <=> Carries(t, m)  BY <1>7 DEF Waits, SamePlans, Carries, Asking
  <2>2. Past(t, m)' => Past(t, m)  BY <1>7 DEF Waits, SamePlans, Past
  <2>3. ledger' = ledger /\ queued' = queued /\ faults' >= faults  BY <1>4, <1>7 DEF Waits
  <2> QED  BY <1>1, <1>2, <1>4, <2>1, <2>2, <2>3, OneStays
<1>8. CASE Claims(t)
  <2>1. thread[t].pc = "claim" /\ thread'[t].minute = thread[t].minute /\ queued' = queued
    BY <1>8 DEF Claims
  <2>2. ~Carries(t, m)  BY <2>1 DEF Carries, Asking
  <2>3. CASE thread[t].minute # m
    <3>1. ~Carries(t, m)'  BY <2>1, <2>3 DEF Carries
    <3>2. Past(t, m)' => Past(t, m)  BY <2>1, <2>3 DEF Past
    <3>3. (m \in ledger' <=> m \in ledger) /\ faults' >= faults  BY <1>4, <1>8, <2>3 DEF Claims
    <3> QED  BY <1>1, <1>2, <1>4, <2>1, <2>2, <3>1, <3>2, <3>3, OneStays
  <2>4. CASE thread[t].minute = m /\ thread'[t].pc = "idle"
    <3>1. m \in ledger /\ UNCHANGED <<ledger, faults>>  BY <1>8, <2>4 DEF Claims
    <3>2. ~Carries(t, m)'  BY <2>4 DEF Carries, Asking
    <3>3. faults' >= faults  BY <1>4, <3>1
    <3> QED  BY <1>1, <1>2, <1>4, <2>1, <2>2, <3>1, <3>2, <3>3, OneStays
  <2>5. CASE thread[t].minute = m /\ thread'[t].pc # "idle"
    <3>1. thread'[t].pc = "ask" /\ thread'[t].then = "enqueue"  BY <1>8, <2>5 DEF Claims
    <3>2. Carries(t, m)'  BY <2>1, <2>5, <3>1 DEF Carries, Asking
    <3>3. \/ m \notin ledger /\ m \in ledger' /\ faults' = faults
          \/ ledger' = ledger /\ faults' = faults + 1
      BY <1>8, <2>5 DEF Claims
    <3> QED  BY <1>1, <1>2, <1>4, <2>1, <2>2, <3>2, <3>3, MinuteTaken
  <2> QED  BY <2>3, <2>4, <2>5
<1>9. CASE Enqueues(t)
  <2>1. /\ thread[t].pc = "enqueue" /\ thread'[t].pc = "idle" /\ thread'[t].minute = thread[t].minute
        /\ UNCHANGED <<ledger, faults>>
        /\ \/ queued' = [queued EXCEPT ![thread[t].minute] = @ + 1]
           \/ queued' = queued /\ thread[t].minute \in excuse'
    BY <1>9 DEF Enqueues
  <2>2. queued \in [Minutes -> Nat]  BY <1>1 DEF Types
  <2>3. CASE thread[t].minute # m
    <3>1. ~Carries(t, m) /\ ~Carries(t, m)'  BY <2>1, <2>3 DEF Carries
    <3>2. Past(t, m)' => Past(t, m)  BY <2>1, <2>3 DEF Past
    <3>3. queued'[m] = queued[m] /\ faults' >= faults  BY <1>4, <2>1, <2>2, <2>3
    <3> QED  BY <1>1, <1>2, <1>4, <2>1, <3>1, <3>2, <3>3, OneStays
  <2>4. CASE thread[t].minute = m
    <3>1. Carries(t, m) /\ ~Carries(t, m)'  BY <2>1, <2>4 DEF Carries, Asking
    <3>2. CASE queued' = queued /\ m \in excuse'
      <4>1. queued'[m] = queued[m] /\ faults' >= faults  BY <1>4, <2>1, <3>2
      <4> QED  BY <1>1, <1>2, <1>4, <2>1, <3>1, <3>2, <4>1, OneStays
    <3>3. CASE queued' = [queued EXCEPT ![m] = @ + 1]
      <4>1. queued'[m] = queued[m] + 1  BY <2>2, <3>3
      <4> QED  BY <1>1, <1>2, <1>4, <2>1, <3>1, <4>1, MinuteQueued
    <3> QED  BY <2>1, <2>4, <3>2, <3>3
  <2> QED  BY <2>3, <2>4
<1> QED  BY <1>2, <1>5, <1>6, <1>7, <1>8, <1>9 DEF Talks

-----------------------------------------------------------------------------
(* The invariant.                                                          *)

LEMMA Initially ==
  ASSUME Init
  PROVE  IInv
<1>1. PICK d \in Deployments :
        /\ thread = [t \in d.threads |-> Idle]
        /\ command = [c \in d.commands |-> [pc |-> "idle", own |-> FALSE, disturbed |-> FALSE, left |-> 0]]
        /\ switches = MaxSwitches - d.switches
  BY DEF Init
<1>2. /\ flag = [on |-> FALSE, age |-> 2 * TTL + 1] /\ cache = [s \in Servers |-> NoCache]
      /\ due = [s \in Servers |-> 0]
      /\ ledger = {} /\ queued = [m \in Minutes |-> 0] /\ excuse = {} /\ faults = 0
  BY DEF Init
<1>3. Threads = d.threads /\ Commands = d.commands  BY <1>1 DEF Threads, Commands
<1>4. Deployed
  <2>1. d.threads \subseteq Servers \X Kinds /\ None \notin d.commands
    BY DeploymentsAssumption, NoneAssumption
  <2> QED  BY <1>3, <2>1 DEF Deployed
<1>5. /\ NoCache \in CacheRow /\ NoCache.on = FALSE /\ NoCache.age = TTL + 1
      /\ NoCache.refreshing = None /\ NoCache.seen = 0 /\ NoCache.known = FALSE
  BY TimesAssumption DEF NoCache, CacheRow
<1>6. switches \in Nat
  <2>1. d.switches \in 0..MaxSwitches /\ MaxSwitches \in Nat  BY DeploymentsAssumption, TimesAssumption
  <2> QED  BY <1>1, <2>1
<1>7. Types
  <2>1. flag \in [on: BOOLEAN, age: 0..(2 * TTL + 1)]
    <3>1. 2 * TTL + 1 \in 0..(2 * TTL + 1)  BY TimesAssumption
    <3> QED  BY <1>2, <3>1
  <2>2. thread \in [Threads -> ThreadState]  BY <1>1, <1>3, IdleIs
  <2>3. command \in [Commands -> CommandRow]  BY <1>1, <1>3, TimesAssumption DEF CommandRow
  <2>4. due \in [Servers -> 0..TTL] /\ cache \in [Servers -> CacheRow] /\ queued \in [Minutes -> Nat]
    BY <1>2, <1>5, TimesAssumption
  <2>5. faults \in 0..MaxFaults  BY <1>2, TimesAssumption
  <2> QED  BY <1>2, <1>6, <2>1, <2>2, <2>3, <2>4, <2>5 DEF Types
<1>8. \A t \in Threads : thread[t].pc = "idle" /\ thread[t].minute = 0  BY <1>1, <1>3, IdleIs
<1>9. \A t \in Threads : ThreadInv(t) /\ CronInv(t)
  BY <1>8 DEF ThreadInv, Holds, SeenInv, ReadInv, WaitInv, WriteInv, CronInv, Asking
<1>10. \A s \in Servers : ServerInv(s)
  <2>1. SUFFICES ASSUME NEW s \in Servers PROVE ServerInv(s)  OBVIOUS
  <2>2. cache[s] = NoCache  BY <1>2
  <2>3. ~Stale(s)  BY <1>2, <1>5, <2>2 DEF Stale
  <2> QED  BY <1>5, <1>6, <2>2, <2>3 DEF ServerInv, RefreshInv, StaleInv
<1>11. \A c \in Commands : CommandInv(c)  BY <1>1, <1>3 DEF CommandInv
<1>12. \A m \in Minutes : MinuteInv(m)
  <2>1. SUFFICES ASSUME NEW m \in Minutes PROVE MinuteInv(m)  OBVIOUS
  <2>2. Carriers(m) = {}  BY <1>8 DEF Carriers, Carries, Asking
  <2>3. IsFiniteSet(Carriers(m)) /\ Cardinality(Carriers(m)) = 0  BY <2>2, FS_EmptySet
  <2>4. \A t \in Threads : ~Past(t, m)
    <3>1. m \in Nat /\ m >= 1  BY TimesAssumption DEF Minutes
    <3> QED  BY <1>8, <3>1 DEF Past
  <2>5. queued[m] = 0 /\ m \notin ledger /\ faults = 0  BY <1>2
  <2> QED  BY <2>3, <2>4, <2>5 DEF MinuteInv
<1> QED  BY <1>4, <1>7, <1>9, <1>10, <1>11, <1>12 DEF IInv

\* The steps, by what they change.
LEMMA Steps ==
  ASSUME Next
  PROVE  \/ Switching \/ Tick
         \/ \E c \in Commands : Stepping(c)
         \/ \E t \in Threads : Talking(t)
         \/ \E t \in Threads : Ask(t) \/ Waited(t)
         \/ \E t \in Threads : Finish(t)
         \/ \E t \in Threads : SetMaintenance(t)
         \/ \E t \in Threads : Refresh(t)
         \/ \E s \in Servers : WatchMaintenance(s)
         \/ \E s \in Servers : Crash(s)
<1>1. CASE \E c \in Commands : Run(c)
  <2>1. PICK c \in Commands : Run(c)  BY <1>1
  <2>2. Stepping(c) \/ OpenWindow(c) \/ (End(c) /\ command[c].own)  BY <2>1 DEF Run, Stepping
  <2> QED  BY <2>2 DEF Switching
<1>2. CASE \E t \in Threads : BeginSet(t) \/ Request(t) \/ Fire(t) \/ Serve(t)
  <2>1. PICK t \in Threads : BeginSet(t) \/ Request(t) \/ Fire(t) \/ Serve(t)  BY <1>2
  <2>2. \/ BeginSet(t) \/ Talking(t) \/ Ask(t) \/ Waited(t) \/ Finish(t)
        \/ SetMaintenance(t) \/ Refresh(t)
    BY <2>1 DEF Serve, Talking
  <2> QED  BY <2>2 DEF Switching
<1> QED  BY <1>1, <1>2 DEF Next, Switching

LEMMA Together ==
  ASSUME Deployed', Types', \A t \in Threads' : ThreadInv(t)', CronStays,
         \A s \in Servers : ServerInv(s)', \A c \in Commands' : CommandInv(c)', MinutesStay
  PROVE  IInv'
BY DEF IInv, CronStays, MinutesStay

LEMMA CommandsStay ==
  ASSUME \A c \in Commands : CommandInv(c), UNCHANGED <<flag, command>>
  PROVE  \A c \in Commands' : CommandInv(c)'
BY DEF CommandInv, Commands

LEMMA Inductive ==
  ASSUME IInv, Next
  PROVE  IInv'
<1>1. /\ Timely /\ Types /\ Deployed /\ \A c \in Commands : CommandInv(c)
      /\ \A m \in Minutes : MinuteInv(m)
      /\ \A t \in Threads : CronInv(t)
  BY DEF IInv, Timely
<1>2. CASE Switching
  <2>1. Types' /\ Deployed'  BY <1>1, <1>2, SwitchSteps
  <2> QED  BY <1>1, <1>2, <2>1, SwitchKeepsTime, SwitchKeepsCron, SwitchKeepsCommands,
              SwitchKeepsMinutes, Together
<1>3. CASE Tick
  <2>1. /\ Types' /\ Deployed' /\ UNCHANGED <<thread, ledger, queued, excuse, faults>>
    BY <1>1, <1>3, TickSteps
  <2>2. CronStays  BY <1>1, <2>1 DEF CronStays, CronInv, Threads
  <2> QED  BY <1>1, <1>3, <2>1, <2>2, TickKeepsTime, TickKeepsCommands, StillKeepsMinutes, Together
<1>4. ASSUME NEW c \in Commands, Stepping(c) PROVE IInv'
  <2>1. /\ Types' /\ Deployed'
        /\ UNCHANGED <<flag, cache, due, thread, ledger, queued, excuse, switches>>
        /\ faults' \in {faults, faults + 1}
    BY <1>1, <1>4, CommandSteps
  <2>2. CronStays  BY <1>1, <2>1 DEF CronStays, CronInv, Threads
  <2> QED  BY <1>1, <1>4, <2>1, <2>2, StillKeepsTime, StepKeepsCommands, StillKeepsMinutes, Together
<1>5. ASSUME NEW t \in Threads, Talking(t) PROVE IInv'
  <2>1. Types' /\ Deployed' /\ UNCHANGED <<flag, command>>  BY <1>1, <1>5, TalkSteps
  <2> QED  BY <1>1, <1>5, <2>1, TalkKeepsTime, TalkKeepsCron, CommandsStay, TalkKeepsMinutes, Together
<1>6. ASSUME NEW t \in Threads, Ask(t) \/ Waited(t) PROVE IInv'
  <2>1. /\ Types' /\ Deployed' /\ Others(t) /\ UNCHANGED <<flag, command, ledger, queued, faults>>
    BY <1>1, <1>6, AskSteps
  <2>2. thread[t].pc \in Asking /\ cache[Home(t)].on \in BOOLEAN
    BY <1>1, <1>6, AnswerIsRecent, Homes, Typed DEF Asking
  <2>3. PICK unsure \in BOOLEAN : Told(t, cache[Home(t)].on, unsure)  BY <1>1, <1>6, AskSteps
  <2>4. CronStays  BY <1>1, <2>1, <2>2, <2>3, ToldKeepsCron
  <2>5. MinutesStay  BY <1>1, <2>1, <2>2, <2>3, ToldKeepsMinutes
  <2> QED  BY <1>1, <1>6, <2>1, <2>4, <2>5, AskKeepsTime, CommandsStay, Together
<1>7. ASSUME NEW t \in Threads, Finish(t) PROVE IInv'
  <2>1. /\ Types' /\ Deployed' /\ Others(t) /\ UNCHANGED <<flag, command, ledger, queued, faults>>
        /\ thread[t].pc = "reading" /\ Told(t, cache'[Home(t)].on, cache'[Home(t)].unsure)
    BY <1>1, <1>7, FinishSteps
  <2>2. thread[t].pc \in Asking  BY <2>1 DEF Asking
  <2>3. cache'[Home(t)].on \in BOOLEAN
    <3>1. Home(t) \in Servers  BY <1>1, Homes
    <3>2. cache'[Home(t)] \in CacheRow  BY <2>1, <3>1 DEF Types
    <3> QED  BY <3>2 DEF CacheRow
  <2>4. CronStays  BY <1>1, <2>1, <2>2, <2>3, ToldKeepsCron
  <2>5. MinutesStay  BY <1>1, <2>1, <2>2, <2>3, ToldKeepsMinutes
  <2> QED  BY <1>1, <1>7, <2>1, <2>4, <2>5, FinishKeepsTime, CommandsStay, Together
<1>8. ASSUME NEW t \in Threads, SetMaintenance(t) PROVE IInv'
  <2>1. /\ Types' /\ Deployed' /\ Others(t) /\ UNCHANGED <<flag, command>> /\ thread'[t].pc = "idle"
    BY <1>1, <1>8, SetSteps
  <2>2. CronInv(t)'  BY <2>1 DEF CronInv, Asking
  <2>3. CronStays  BY <1>1, <2>1, <2>2, OneKeepsCron
  <2> QED  BY <1>1, <1>8, <2>1, <2>3, SetKeepsTime, CommandsStay, SetKeepsMinutes, Together
<1>9. ASSUME NEW t \in Threads, Refresh(t) PROVE IInv'
  <2>1. /\ Types' /\ Deployed' /\ Others(t) /\ UNCHANGED <<flag, command>> /\ SamePlans(t)
        /\ thread[t].pc = "ask" /\ thread'[t].pc = "reading"
    BY <1>1, <1>9, RefreshSteps
  <2>2. CronInv(t)'  BY <1>1, <2>1 DEF CronInv, Asking, SamePlans
  <2>3. CronStays  BY <1>1, <2>1, <2>2, OneKeepsCron
  <2> QED  BY <1>1, <1>9, <2>1, <2>3, RefreshKeepsTime, CommandsStay, RefreshKeepsMinutes, Together
<1>10. ASSUME NEW s \in Servers, WatchMaintenance(s) PROVE IInv'
  <2> DEFINE t == <<s, "watch">>
  <2>1. /\ Types' /\ Deployed' /\ t \in Threads /\ Others(t) /\ UNCHANGED <<flag, command>>
        /\ thread'[t].pc = "ask" /\ thread'[t].then = "idle"
    BY <1>1, <1>10, PollSteps
  <2>2. CronInv(t)'  BY <2>1 DEF CronInv, Asking
  <2>3. CronStays  BY <1>1, <2>1, <2>2, OneKeepsCron
  <2> QED  BY <1>1, <1>10, <2>1, <2>3, PollKeepsTime, CommandsStay, PollKeepsMinutes, Together
<1>11. ASSUME NEW s \in Servers, Crash(s) PROVE IInv'
  <2>1. Types' /\ Deployed' /\ UNCHANGED <<flag, command>>  BY <1>1, <1>11, CrashSteps
  <2> QED  BY <1>1, <1>11, <2>1, CrashKeepsTime, CrashKeepsCron, CommandsStay, CrashKeepsMinutes, Together
<1> QED  BY <1>2, <1>3, <1>4, <1>5, <1>6, <1>7, <1>8, <1>9, <1>10, <1>11, Steps

LEMMA Unmoved ==
  ASSUME IInv, UNCHANGED vars
  PROVE  IInv'
<1>1. /\ UNCHANGED <<flag, cache, due, thread, command, ledger, queued, excuse, switches, faults>>
      /\ Threads' = Threads /\ Commands' = Commands
  BY DEF vars, Threads, Commands
<1>2. /\ Timely /\ Types /\ Deployed /\ \A c \in Commands : CommandInv(c)
      /\ \A m \in Minutes : MinuteInv(m)
  BY DEF IInv, Timely
<1>3. Types' /\ Deployed'  BY <1>1, <1>2 DEF Types, Deployed
<1>4. CronStays  BY <1>1, <1>2 DEF Timely, CronStays, CronInv
<1> QED  BY <1>1, <1>2, <1>3, <1>4, StillKeepsTime, CommandsStay, StillKeepsMinutes, Together

\* Time, threads, caches, commands and minutes stay in step whatever happens.
THEOREM Invariance == Spec => []IInv
<1>1. IInv /\ [Next]_vars => IInv'  BY Inductive, Unmoved
<1> QED  BY <1>1, Initially, PTL DEF Spec

-----------------------------------------------------------------------------
(* What it is for.                                                         *)

LEMMA TypeHolds ==
  ASSUME IInv
  PROVE  TypeOK
<1>1. /\ Types /\ Deployed /\ \A s \in Servers : ServerInv(s)
      /\ \A t \in Threads : ThreadInv(t)
  BY DEF IInv
<1>2. flag.on \in BOOLEAN /\ flag.age \in 0..(2 * TTL + 1)  BY <1>1 DEF Types
<1>3. \A t \in Threads : thread[t] \in ThreadState  BY <1>1 DEF Types
<1>4. ASSUME NEW s \in Servers
      PROVE  /\ cache[s].age \in 0..(TTL + 1) /\ due[s] \in 0..TTL
             /\ {cache[s].on, cache[s].known, cache[s].overtaken, cache[s].unsure} \subseteq BOOLEAN
             /\ {t \in Threads : Home(t) = s /\ thread[t].pc = "reading"} = {cache[s].refreshing} \ {None}
  <2>1. cache[s] \in CacheRow /\ due[s] \in 0..TTL  BY <1>1 DEF Types
  <2>2. \A t \in Threads : (Home(t) = s /\ thread[t].pc = "reading")
          => t = cache[s].refreshing /\ t # None
    BY <1>1, Homes DEF ThreadInv, ReadInv
  <2>3. cache[s].refreshing # None
          => /\ cache[s].refreshing \in Threads /\ Home(cache[s].refreshing) = s
             /\ thread[cache[s].refreshing].pc = "reading"
    BY <1>1 DEF ServerInv, RefreshInv
  <2>4. {t \in Threads : Home(t) = s /\ thread[t].pc = "reading"} = {cache[s].refreshing} \ {None}
    BY <2>2, <2>3
  <2> QED  BY <2>1, <2>4 DEF CacheRow
<1>5. \A c \in Commands : /\ command[c].pc \in {"idle", "open", "sleep", "run"}
                          /\ command[c].left \in 0..Grace
  <2>1. \A c \in Commands : command[c] \in CommandRow  BY <1>1 DEF Types
  <2> QED  BY <2>1 DEF CommandRow
<1>6. ledger \subseteq Minutes /\ excuse \subseteq Minutes /\ faults \in 0..MaxFaults
  BY <1>1 DEF Types
<1> QED  BY <1>2, <1>3, <1>4, <1>5, <1>6 DEF TypeOK

\* The state has its shape, and a server has one refresh out at most.
THEOREM TypeCorrect == Spec => []TypeOK
BY Invariance, TypeHolds, PTL

LEMMA WindowFollows ==
  ASSUME IInv
  PROVE  WindowHolds
<1>1. SUFFICES ASSUME NEW c \in Commands, command[c].pc = "run", command[c].own, ~command[c].disturbed,
                      NEW t \in Threads, thread[t].pc = "write", ~thread[t].unsure
               PROVE  FALSE
  BY DEF WindowHolds
<1>2. flag.on /\ flag.age > TTL  BY <1>1 DEF IInv, CommandInv
<1>3. ~flag.on \/ flag.age <= TTL  BY <1>1 DEF IInv, ThreadInv, WriteInv
<1>4. flag.age \in Nat /\ TTL \in Nat  BY Typed DEF IInv
<1> QED  BY <1>2, <1>3, <1>4

\* A command that opened its window, and whose pause nobody lifted, runs while
\* no write is let through, a failed read or an answer given while another
\* reads aside: the grace outlasts every answer (backup.go, maintenance.go).
THEOREM WindowHoldsAlways == Spec => []WindowHolds
BY Invariance, WindowFollows, PTL

LEMMA OneRunFollows ==
  ASSUME IInv
  PROVE  OneRunPerMinute
<1>1. SUFFICES ASSUME NEW m \in Minutes
               PROVE  queued[m] <= 1 + faults /\ ((Fired(m) /\ m \notin excuse) => queued[m] > 0)
  BY DEF OneRunPerMinute
<1>2. Types /\ Deployed /\ MinuteInv(m) /\ \A t \in Threads : CronInv(t)  BY DEF IInv
<1>3. queued[m] \in Nat /\ faults \in Nat  BY <1>2, Typed
<1>4. IsFiniteSet(Carriers(m)) /\ Count(m) \in Nat  BY <1>2, CarriersAre
<1>5. Count(m) + queued[m] <= (IF m \in ledger THEN 1 ELSE 0) + faults  BY <1>2 DEF MinuteInv, Count
<1>6. queued[m] <= 1 + faults  BY <1>3, <1>4, <1>5
<1>7. ASSUME Fired(m), m \notin excuse PROVE queued[m] > 0
  <2>1. PICK s \in Of("cron") : TRUE  BY <1>7 DEF Fired
  <2>2. \A q \in Servers : <<q, "cron">> \in Threads =>
          LET t == thread[<<q, "cron">>] IN t.minute > m \/ (t.minute = m /\ t.pc = "idle")
    BY <1>7 DEF Fired, Of
  <2>3. <<s, "cron">> \in Threads /\ s \in Servers  BY <2>1 DEF Of
  <2>4. <<s, "cron">>[2] = "cron"  OBVIOUS
  <2>5. Past(<<s, "cron">>, m)  BY <2>2, <2>3, <2>4 DEF Past
  <2>6. queued[m] > 0 \/ Carriers(m) # {}  BY <1>2, <1>7, <2>3, <2>5 DEF MinuteInv
  <2>7. ASSUME NEW t \in Threads, Carries(t, m) PROVE FALSE
    <3>1. t[2] = "cron" /\ thread[t].pc # "idle" /\ thread[t].minute = m
      BY <1>2, <2>7 DEF Carries, CronInv, Asking
    <3>2. t = <<Home(t), "cron">> /\ Home(t) \in Servers  BY <1>2, <3>1, Homes
    <3>3. thread[t].minute > m  BY <2>2, <3>1, <3>2
    <3>4. m \in Nat  BY DEF Minutes
    <3> QED  BY <3>1, <3>3, <3>4
  <2>8. Carriers(m) = {}  BY <2>7 DEF Carriers
  <2> QED  BY <2>6, <2>8
<1> QED  BY <1>6, <1>7

\* A minute's run is queued once for all the servers, ledgers that could not
\* be written aside, and at all once every server is done with the minute, unless
\* the one that claimed it was paused, crashed or failed in Enqueue (claimTick).
THEOREM OneRunPerMinuteHolds == Spec => []OneRunPerMinute
BY Invariance, OneRunFollows, PTL

\* Who gets an answer asks, waits, or has read it himself.
LEMMA WhoIsAnswered ==
  ASSUME IInv, [Next]_vars, NEW t \in Threads, Answered(t)
  PROVE  Ask(t) \/ Waited(t) \/ Finish(t)
<1>1. Timely /\ Types /\ Deployed /\ \A u \in Threads : CronInv(u)  BY DEF IInv, Timely
<1>2. thread[t].pc \in Asking /\ thread'[t].pc \notin Asking /\ thread'[t] # thread[t]
  BY DEF Answered, Asking
<1>3. CASE UNCHANGED vars  BY <1>2, <1>3 DEF vars
<1>4. CASE Switching
  BY <1>1, <1>2, <1>4, SwitchSteps DEF Asking
<1>5. CASE Tick  BY <1>2, <1>5 DEF Tick
<1>6. ASSUME NEW c \in Commands, Stepping(c) PROVE FALSE
  BY <1>1, <1>2, <1>6, CommandSteps
<1>7. ASSUME NEW u \in Threads, Talking(u) PROVE FALSE
  <2>1. Others(u) /\ Talks(u)  BY <1>1, <1>7, TalkSteps
  <2>2. u = t  BY <1>2, <2>1 DEF Others
  <2> QED
    BY <1>2, <2>1, <2>2 DEF Talks, Requests, Fires, Loads, Writes, Waits, Claims, Enqueues, Asking
<1>8. ASSUME NEW u \in Threads, Ask(u) \/ Waited(u) PROVE Ask(t) \/ Waited(t)
  <2>1. Others(u)  BY <1>1, <1>8, AskSteps
  <2> QED  BY <1>2, <1>8, <2>1 DEF Others
<1>9. ASSUME NEW u \in Threads, Finish(u) PROVE Finish(t)
  <2>1. Others(u)  BY <1>1, <1>9, FinishSteps
  <2> QED  BY <1>2, <1>9, <2>1 DEF Others
<1>10. ASSUME NEW u \in Threads, SetMaintenance(u) PROVE FALSE
  <2>1. Others(u) /\ thread[u].pc = "store"  BY <1>1, <1>10, SetSteps
  <2> QED  BY <1>2, <2>1 DEF Others, Asking
<1>11. ASSUME NEW u \in Threads, Refresh(u) PROVE FALSE
  <2>1. Others(u) /\ thread'[u].pc = "reading"  BY <1>1, <1>11, RefreshSteps
  <2> QED  BY <1>2, <2>1 DEF Others, Asking
<1>12. ASSUME NEW s \in Servers, WatchMaintenance(s) PROVE FALSE
  <2>1. Others(<<s, "watch">>) /\ thread[<<s, "watch">>].pc = "idle"  BY <1>1, <1>12, PollSteps
  <2> QED  BY <1>2, <2>1 DEF Others, Asking
<1>13. ASSUME NEW s \in Servers, Crash(s) PROVE FALSE
  <2>1. /\ cache'[s] = NoCache
        /\ \A u \in Threads : IF Home(u) = s
             THEN thread'[u].pc = "idle" /\ thread'[u].minute = thread[u].minute
             ELSE thread'[u] = thread[u]
    BY <1>1, <1>13, CrashSteps
  <2>2. Home(t) = s  BY <1>2, <2>1
  <2> QED  BY <2>1, <2>2 DEF Answered
<1> QED
  BY <1>3, <1>4, <1>5, <1>6, <1>7, <1>8, <1>9, <1>10, <1>11, <1>12, <1>13, Steps

LEMMA FreshStep ==
  ASSUME IInv, [Next]_vars, NEW t \in Threads, Outdated(t)
  PROVE  \/ flag.age <= TTL
         \/ /\ cache[Home(t)].refreshing \notin {None, t}
            /\ flag.age <= 2 * TTL \/ <<Home(t), "watch">> \notin Threads
<1> DEFINE s == Home(t)
<1>5. Answered(t) /\ ~cache'[s].unsure /\ cache'[s].on # flag.on  BY DEF Outdated
<1>1. Timely /\ Types /\ Deployed /\ CronInv(t)  BY DEF IInv, Timely
<1>2. s \in Servers /\ ServerInv(s) /\ flag.age \in Nat /\ TTL \in Nat  BY <1>1, Homes, Typed DEF Timely
<1>3. CASE Finish(t)
  <2>1. (Stale(s)' => flag.age = 0) /\ flag' = flag  BY <1>1, <1>3, FinishIsRecent
  <2>2. Stale(s)'  BY <1>5, <2>1 DEF Stale
  <2> QED  BY <1>2, <2>1, <2>2
<1>4. CASE Ask(t) \/ Waited(t)
  <2>1. cache' = cache  BY <1>1, <1>4, AskSteps
  <2>2. Stale(s)  BY <1>5, <2>1 DEF Stale
  <2>3. CASE flag.age <= TTL  BY <2>3
  <2>4. CASE cache[s].refreshing # None /\ cache[s].known /\ thread[t].pc = "ask"
    <3>1. cache[s].refreshing \notin {None, t}
      <4>1. thread[cache[s].refreshing].pc = "reading"  BY <1>2, <2>4 DEF ServerInv, RefreshInv
      <4> QED  BY <2>4, <4>1
    <3>2. Busy(s)  BY <2>4 DEF Busy
    <3>3. <<s, "watch">> \in Threads => flag.age <= 2 * TTL
      BY <1>2, <2>2, <2>4, <3>2 DEF ServerInv, StaleInv
    <3> QED  BY <3>1, <3>3
  <2> QED  BY <1>1, <1>4, <2>2, <2>3, <2>4, AnswerIsRecent
<1> QED  BY <1>3, <1>4, <1>5, WhoIsAnswered

\* An answer that disagrees with the database is given within TTL of the change;
\* while another caller reads, within twice TTL in a server that polls, and at
\* any time in one that does not (maintenance.go:62, 67).
THEOREM AnswersAreFreshHolds == Spec => AnswersAreFresh
<1>1. ASSUME IInv, [Next]_vars
      PROVE  [\A t \in Threads : Outdated(t) =>
                \/ flag.age <= TTL
                \/ /\ cache[Home(t)].refreshing \notin {None, t}
                   /\ flag.age <= 2 * TTL \/ <<Home(t), "watch">> \notin Threads]_vars
  BY <1>1, FreshStep
<1> QED  BY <1>1, Invariance, PTL DEF Spec, AnswersAreFresh

LEMMA NoOldStep ==
  ASSUME IInv, [Next]_vars, NEW s \in Servers, cache'[s].seen < cache[s].seen
  PROVE  cache'[s] = NoCache \/ \E t \in Threads : Home(t) = s /\ thread[t].pc = "store"
<1>1. Timely /\ Types /\ Deployed /\ \A u \in Threads : CronInv(u)  BY DEF IInv, Timely
<1>2. cache[s].seen \in Nat  BY <1>1, Typed
<1>3. cache'[s].seen # cache[s].seen /\ cache'[s] # cache[s]
  <2>1. ~(cache[s].seen < cache[s].seen)  BY <1>2
  <2> QED  BY <2>1
<1>4. CASE UNCHANGED vars  BY <1>3, <1>4 DEF vars
<1>5. CASE Switching  BY <1>1, <1>3, <1>5, SwitchSteps
<1>6. CASE Tick  BY <1>1, <1>3, <1>6, TickSteps
<1>7. ASSUME NEW c \in Commands, Stepping(c) PROVE FALSE  BY <1>1, <1>3, <1>7, CommandSteps
<1>8. ASSUME NEW u \in Threads, Talking(u) PROVE FALSE  BY <1>1, <1>3, <1>8, TalkSteps
<1>9. ASSUME NEW u \in Threads, Ask(u) \/ Waited(u) PROVE FALSE  BY <1>1, <1>3, <1>9, AskSteps
<1>10. ASSUME NEW u \in Threads, Finish(u) PROVE FALSE
  <2>1. OneCache(Home(u)) /\ Types'  BY <1>1, <1>10, FinishSteps
  <2>2. Home(u) = s  BY <1>3, <2>1 DEF OneCache
  <2>3. cache[s].seen <= cache'[s].seen  BY <1>1, <1>10, <2>2, FinishIsRecent
  <2>4. cache'[s].seen \in Nat
    <3>1. cache'[s] \in CacheRow  BY <2>1 DEF Types
    <3> QED  BY <3>1 DEF CacheRow
  <2> QED  BY <1>2, <2>3, <2>4
<1>11. ASSUME NEW u \in Threads, SetMaintenance(u) PROVE Home(u) = s /\ thread[u].pc = "store"
  <2>1. OneCache(Home(u)) /\ thread[u].pc = "store"  BY <1>1, <1>11, SetSteps
  <2> QED  BY <1>3, <2>1 DEF OneCache
<1>12. ASSUME NEW u \in Threads, Refresh(u) PROVE FALSE
  <2>1. OneCache(Home(u)) /\ cache'[Home(u)].seen = cache[Home(u)].seen
    BY <1>1, <1>12, RefreshSteps
  <2> QED  BY <1>3, <2>1 DEF OneCache
<1>13. ASSUME NEW q \in Servers, WatchMaintenance(q) PROVE FALSE  BY <1>1, <1>3, <1>13, PollSteps
<1>14. ASSUME NEW q \in Servers, Crash(q) PROVE cache'[s] = NoCache
  <2>1. OneCache(q) /\ cache'[q] = NoCache  BY <1>1, <1>14, CrashSteps
  <2> QED  BY <1>3, <2>1 DEF OneCache
<1> QED
  BY <1>4, <1>5, <1>6, <1>7, <1>8, <1>9, <1>10, <1>11, <1>12, <1>13, <1>14, Steps

\* Only SetMaintenance, with what it read back itself, and a process that
\* starts anew replace an answer with an older one; a refresh never does
\* (maintenance.go, m.read != started).
THEOREM NoOldAnswerPutBackHolds == Spec => NoOldAnswerPutBack
<1>1. ASSUME IInv, [Next]_vars
      PROVE  [\A s \in Servers : cache'[s].seen < cache[s].seen
                => cache'[s] = NoCache
                   \/ \E t \in Threads : Home(t) = s /\ thread[t].pc = "store"]_vars
  BY <1>1, NoOldStep
<1> QED  BY <1>1, Invariance, PTL DEF Spec, NoOldAnswerPutBack
===============================================================================

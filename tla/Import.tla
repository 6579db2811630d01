-------------------------------- MODULE Import --------------------------------
(***************************************************************************)
(* Loading an export directory into a site (internal/engine/import_run.go,  *)
(* import_batch.go, import_order.go): the order of the DocTypes, batches    *)
(* whose cursor and ledger rows commit with the documents, a failed batch   *)
(* replayed record by record, runs paused, stopped and resumed, by several  *)
(* processes at once, on a site whose users go on working.                  *)
(*                                                                         *)
(* A DocType is a number, in the order of the names.  Each file has Length  *)
(* lines, of one document each; a link of one DocType to another is, in     *)
(* every document of the first, a link to the last document of the second.  *)
(***************************************************************************)
EXTENDS Naturals, Sequences, FiniteSets, SequencesExt

CONSTANTS
  D,            \* how many DocTypes the export holds
  Length,       \* lines in each file
  Batch,        \* lines one transaction carries
  MaxBatches,   \* --max-batches, 0 for none
  Loaders,      \* processes that import
  Runs,         \* ids of runs
  Exports,      \* each its links, the pairs of DocTypes that have one; its bad
                \* lines, whose document cannot be loaded; those present, whose
                \* document the site already holds, as exported; and the
                \* loaders and the runs there are to load it
  MaxFaults,    \* bound: stops, transactions that fail, and documents that users
                \* of the site insert and delete
  None

Doctypes == 1..D
Lines == Doctypes \X (1..Length)

ASSUME ImportAssumption ==
  /\ D \in Nat \ {0} /\ Length \in Nat \ {0} /\ Batch \in Nat \ {0} /\ MaxBatches \in Nat
  /\ Exports \subseteq [links: SUBSET (Doctypes \X Doctypes), bad: SUBSET Lines, present: SUBSET Lines,
                        loaders: SUBSET Loaders, runs: SUBSET Runs]

VARIABLES
  plan,      \* the export, the order of its DocTypes, the links left for the end
  site,      \* what the site holds under each line's id
  ledger,    \* ddcore_import_record: lines settled
  errors,    \* ddcore_import_error
  run,       \* ddcore_import_run
  loader,    \* the call of Import each process makes
  inserted,  \* history: how often each line's document was written
  touched,   \* history: lines whose document a user wrote or deleted
  faults

vars == <<plan, site, ledger, errors, run, loader, inserted, touched, faults>>

-----------------------------------------------------------------------------
(* The order (import_order.go).                                            *)

Deps(links, d) == {t \in Doctypes : <<d, t>> \in links} \ {d}

\* Of those that wait on one another, the one that waits on the fewest.
fewestDeps(links, placed) ==
  LET left == Doctypes \ placed
      waits(d) == Cardinality(Deps(links, d) \ placed)
      best == {d \in left : \A e \in left : waits(d) <= waits(e)}
  IN  CHOOSE d \in best : \A e \in best : d <= e

\* A round's, all that wait on nobody.
Ready(links, placed) ==
  LET free == {d \in Doctypes \ placed : Deps(links, d) \subseteq placed}
  IN  IF free = {} /\ placed # Doctypes THEN {fewestDeps(links, placed)} ELSE free

Sorted(S) == [i \in 1..Cardinality(S) |-> CHOOSE d \in S : Cardinality({e \in S : e < d}) = i - 1]

\* The order after each round; after D of them there is nothing left.
Placed(links) ==
  LET after[n \in 0..D] ==
        IF n = 0 THEN <<>> ELSE after[n - 1] \o Sorted(Ready(links, ToSet(after[n - 1])))
  IN  after

ImportOrder(links) == Placed(links)[D]

\* Mutant: only the links to the DocType itself.
MutDeferred(links, order) == {f \in links : f[1] = f[2]}

\* A link to the DocType itself, or to one loaded later, is checked at the end.
\* The order is looked at as a whole: a cycle may have been broken before it.
Deferred(links, order) ==
  {f \in links : \/ f[1] = f[2]
                 \/ \E i, j \in Doctypes : i < j /\ order[i] = f[1] /\ order[j] = f[2]}

-----------------------------------------------------------------------------
(* Runs and calls.                                                         *)

Target(t) == <<t, Length>>
Finished == {"completed", "completed_with_errors"}

NoRun == [status |-> "none", cursor |-> [d \in Doctypes |-> 0], erred |-> FALSE,
          unsaved |-> FALSE, lost |-> FALSE]

\* cursor and erred are the run as the call holds it in memory; k the stage, i
\* the record of the batch; docs and marks what its transaction has written,
\* bad the errors of the batch.
Idle == [pc |-> "idle", run |-> None, cursor |-> [d \in Doctypes |-> 0], erred |-> FALSE, k |-> 1,
         i |-> 1, batches |-> 0, careful |-> FALSE, known |-> FALSE, docs |-> {}, marks |-> {},
         bad |-> FALSE, status |-> "running"]

Init ==
  /\ \E export \in Exports :
       LET order == ImportOrder(export.links)
       IN  /\ plan = [links |-> export.links, bad |-> export.bad, order |-> order,
                      deferred |-> Deferred(export.links, order)]
           /\ run = [r \in export.runs |-> NoRun]
           /\ loader = [l \in export.loaders |-> Idle]
           /\ site = [x \in Lines |-> IF x \in export.present THEN "same" ELSE "absent"]
  /\ ledger = {} /\ errors = {}
  /\ inserted = [x \in Lines |-> 0]
  /\ touched = {} /\ faults = 0

Fault == faults < MaxFaults /\ faults' = faults + 1
Set(l, c) == loader' = [loader EXCEPT ![l] = c]

\* A new run has its row, committed, before the first batch.
Begin(l, r) ==
  /\ loader[l].pc = "idle" /\ run[r].status = "none"
  /\ run' = [run EXCEPT ![r].status = "running"]
  /\ Set(l, [Idle EXCEPT !.pc = "batch", !.run = r])
  /\ UNCHANGED <<plan, site, ledger, errors, inserted, touched, faults>>

\* Mutant: a resumed run starts from the first line.
MutResume(l, r) ==
  /\ loader[l].pc = "idle" /\ run[r].status # "none"
  /\ Set(l, [Idle EXCEPT !.pc = "batch", !.run = r, !.erred = run[r].erred])
  /\ run' = [run EXCEPT ![r].lost = @ \/ run[r].unsaved]
  /\ UNCHANGED <<plan, site, ledger, errors, inserted, touched, faults>>

\* --resume reads the row back, whatever became of the call that wrote it, whether
\* or not another call is at it, and even if it has finished.
openImportRun(l, r) ==
  /\ loader[l].pc = "idle" /\ run[r].status # "none"
  /\ Set(l, [Idle EXCEPT !.pc = "batch", !.run = r, !.cursor = run[r].cursor, !.erred = run[r].erred])
  /\ run' = [run EXCEPT ![r].lost = @ \/ run[r].unsaved]
  /\ UNCHANGED <<plan, site, ledger, errors, inserted, touched, faults>>

Stage(c) == plan.order[c.k]
FirstLine(c) == c.cursor[Stage(c)] + 1
LastLine(c) == IF FirstLine(c) + Batch - 1 < Length THEN FirstLine(c) + Batch - 1 ELSE Length
Record(c) == <<Stage(c), FirstLine(c) + c.i - 1>>

\* The last stage is done: the links left for the end are verified.
verifyDeferredLinks ==
  \A f \in plan.deferred : \A n \in 1..Length : site[<<f[1], n>>] # "absent" => site[Target(f[2])] # "absent"

\* The next lines of the file, until there are none: reading none counts as a
\* batch too.
importBatch(l) ==
  LET c == loader[l]
  IN  /\ c.pc = "batch"
      /\ Set(l, CASE c.k > D -> [c EXCEPT !.pc = "save", !.status = IF c.erred \/ ~verifyDeferredLinks
                                                                   THEN "completed_with_errors" ELSE "completed"]
                  [] c.k <= D /\ MaxBatches > 0 /\ c.batches >= MaxBatches -> [c EXCEPT !.pc = "save", !.status = "paused"]
                  [] c.k <= D /\ (MaxBatches > 0 => c.batches < MaxBatches) /\ FirstLine(c) > Length ->
                       [c EXCEPT !.k = @ + 1, !.batches = IF MaxBatches > 0 THEN @ + 1 ELSE 0]
                  [] OTHER -> [c EXCEPT !.pc = "look", !.i = 1, !.careful = FALSE])
      /\ UNCHANGED <<plan, site, ledger, errors, run, inserted, touched, faults>>

\* The transaction is gone: the batch is replayed with a savepoint for each
\* record, or the call fails.
Rolled(c) ==
  IF c.careful THEN [c EXCEPT !.pc = "save", !.status = "failed", !.docs = {}, !.marks = {}, !.bad = FALSE]
  ELSE [c EXCEPT !.pc = "look", !.i = 1, !.careful = TRUE, !.docs = {}, !.marks = {}, !.bad = FALSE]

Next1(c) == [c EXCEPT !.pc = IF Record(c)[2] = LastLine(c) THEN "commit" ELSE "look", !.i = @ + 1, !.known = FALSE]

\* Mutant: the reason is written inside the savepoint that is rolled back.
MutFail(l, cause) ==
  /\ Set(l, IF loader[l].careful THEN [Next1(loader[l]) EXCEPT !.bad = TRUE] ELSE Rolled(loader[l]))
  /\ UNCHANGED errors

\* A record that does not load ends the first attempt; a careful one keeps
\* the reason, on a connection of its own, and goes on.
Fail(l, cause) ==
  LET c == loader[l]
  IN  IF c.careful
      THEN /\ errors' = errors \cup {[run |-> c.run, line |-> Record(c), cause |-> cause]}
           /\ Set(l, [Next1(c) EXCEPT !.bad = TRUE])
      ELSE Set(l, Rolled(c)) /\ UNCHANGED errors

\* importOne asks whether the ledger has the line, and the site the document.
Look(l) ==
  LET c == loader[l]  x == Record(c)
  IN  /\ c.pc = "look"
      /\ \/ /\ x \in ledger \cup c.marks
            /\ Set(l, Next1(c)) /\ UNCHANGED errors
         \/ /\ x \notin ledger \cup c.marks /\ site[x] = "differs"
            /\ Fail(l, "duplicate")
         \/ /\ x \notin ledger \cup c.marks /\ site[x] # "differs"
            /\ Set(l, [c EXCEPT !.pc = "write", !.known = site[x] = "same"]) /\ UNCHANGED errors
      /\ UNCHANGED <<plan, site, ledger, run, inserted, touched, faults>>

Held(l, x) == \E m \in DOMAIN loader \ {l} : x \in loader[m].docs \cup loader[m].marks

LinksResolve(c, d) ==
  \A f \in plan.links \ plan.deferred :
    f[1] = d => site[Target(f[2])] # "absent" \/ Target(f[2]) \in c.docs

\* Then it writes the document, unless it is there, and the ledger row.  A key
\* another transaction has written waits for it to end.
importOne(l) ==
  LET c == loader[l]  x == Record(c)
  IN  /\ c.pc = "write"
      /\ \/ /\ ~c.known /\ x \in plan.bad /\ Fail(l, "invalid")
         \/ /\ ~c.known /\ x \notin plan.bad /\ ~LinksResolve(c, x[1]) /\ Fail(l, "link")
         \/ /\ ~c.known => x \notin plan.bad /\ LinksResolve(c, x[1])
            /\ ~Held(l, x)
            /\ x \in ledger \/ (~c.known /\ site[x] # "absent")
            /\ Fail(l, "duplicate")
         \/ /\ ~c.known => x \notin plan.bad /\ LinksResolve(c, x[1]) /\ site[x] = "absent"
            /\ ~Held(l, x) /\ x \notin ledger
            /\ Set(l, [Next1(c) EXCEPT !.docs = IF c.known THEN @ ELSE @ \cup {x}, !.marks = @ \cup {x}])
            /\ UNCHANGED errors
      /\ UNCHANGED <<plan, site, ledger, run, inserted, touched, faults>>

\* The documents, the ledger rows and the cursor commit as one.
Commits(c) ==
  /\ site' = [x \in Lines |-> IF x \in c.docs THEN "same" ELSE site[x]]
  /\ inserted' = [x \in Lines |-> IF x \in c.docs THEN inserted[x] + 1 ELSE inserted[x]]
  /\ ledger' = ledger \cup c.marks
  /\ run' = [run EXCEPT ![c.run].cursor = [c.cursor EXCEPT ![Stage(c)] = LastLine(c)], ![c.run].unsaved = TRUE]

\* Mutant: the errors of the batch are not counted.
MutCounted(c) ==
  [c EXCEPT !.pc = "batch", !.docs = {}, !.marks = {}, !.bad = FALSE, !.careful = FALSE, !.i = 1,
            !.cursor[Stage(c)] = LastLine(c), !.batches = IF MaxBatches > 0 THEN @ + 1 ELSE 0]

\* The batch as the call counts it.
Counted(c) ==
  [c EXCEPT !.pc = "batch", !.docs = {}, !.marks = {}, !.bad = FALSE, !.careful = FALSE, !.i = 1,
            !.erred = @ \/ c.bad, !.cursor[Stage(c)] = LastLine(c),
            !.batches = IF MaxBatches > 0 THEN @ + 1 ELSE 0]

\* Mutant: the documents are committed before the ledger rows and the cursor.
MutCommit(l) ==
  LET c == loader[l]
  IN  /\ c.pc = "commit"
      /\ site' = [x \in Lines |-> IF x \in c.docs THEN "same" ELSE site[x]]
      /\ inserted' = [x \in Lines |-> IF x \in c.docs THEN inserted[x] + 1 ELSE inserted[x]]
      /\ IF c.docs # {} THEN Set(l, [c EXCEPT !.docs = {}]) /\ UNCHANGED <<ledger, run>>
         ELSE Commits(c) /\ Set(l, Counted(c))
      /\ UNCHANGED <<plan, errors, touched, faults>>

Commit(l) ==
  LET c == loader[l]
  IN  /\ c.pc = "commit"
      /\ Commits(c) /\ Set(l, Counted(c))
      /\ UNCHANGED <<plan, errors, touched, faults>>

\* The transaction committed and the call never heard, or it did not commit.
Broken(l) ==
  LET c == loader[l]
  IN  /\ c.pc \in {"look", "write", "commit"} /\ Fault
      /\ \/ c.pc = "commit" /\ Commits(c)
         \/ UNCHANGED <<site, ledger, run, inserted>>
      /\ Set(l, Rolled(c))
      /\ UNCHANGED <<plan, errors, touched>>

\* The end of a call that finished, paused or failed.
saveImportRun(l) ==
  LET c == loader[l]
  IN  /\ c.pc = "save"
      /\ run' = [run EXCEPT ![c.run].status = c.status, ![c.run].cursor = c.cursor,
                            ![c.run].erred = c.erred, ![c.run].unsaved = FALSE]
      /\ Set(l, Idle)
      /\ UNCHANGED <<plan, site, ledger, errors, inserted, touched, faults>>

\* The process dies, or is interrupted: a context that was cancelled fails
\* the batch, its replay and the save.
Stop(l) ==
  /\ loader[l].pc # "idle" /\ Fault
  /\ Set(l, Idle)
  /\ UNCHANGED <<plan, site, ledger, errors, run, inserted, touched>>

\* A user of the site writes a document under an id of the export, or deletes
\* one that is there.
User(x) ==
  /\ Fault
  /\ \A l \in DOMAIN loader : x \notin loader[l].docs
  /\ site' = [site EXCEPT ![x] = IF @ = "absent" THEN "differs" ELSE "absent"]
  /\ touched' = touched \cup {x}
  /\ UNCHANGED <<plan, ledger, errors, run, loader, inserted>>

Step(l) == importBatch(l) \/ Look(l) \/ importOne(l) \/ Commit(l) \/ saveImportRun(l)

Next ==
  \/ \E l \in DOMAIN loader : \/ Step(l) \/ Broken(l) \/ Stop(l)
                            \/ \E r \in DOMAIN run : Begin(l, r) \/ openImportRun(l, r)
  \/ \E x \in Lines : User(x)

Spec == Init /\ [][Next]_vars

\* A call goes on to its end, and a run that is not finished is resumed,
\* whatever else the processes are asked to do in between.
FairSpec ==
  /\ Spec
  /\ \A l \in Loaders : WF_vars(l \in DOMAIN loader /\ Step(l))
  /\ \A r \in Runs : SF_vars(r \in DOMAIN run /\ run[r].status \notin Finished /\ \E l \in DOMAIN loader : openImportRun(l, r))

-----------------------------------------------------------------------------
(* Properties.                                                             *)

TypeOK ==
  /\ ToSet(plan.order) = Doctypes /\ Len(plan.order) = D
  /\ site \in [Lines -> {"absent", "same", "differs"}]
  /\ ledger \subseteq Lines /\ touched \subseteq Lines
  /\ \A r \in DOMAIN run : /\ run[r].status \in {"none", "running", "paused", "failed", "completed", "completed_with_errors"}
                     /\ run[r].cursor \in [Doctypes -> 0..Length]
  /\ \A l \in DOMAIN loader : /\ loader[l].pc \in {"idle", "batch", "look", "write", "commit", "save"}
                        /\ loader[l].pc \in {"look", "write"} => Record(loader[l]) \in Lines
                        /\ loader[l].docs \subseteq loader[l].marks
                        /\ loader[l].marks \subseteq Lines

\* No document is written twice, by however many runs and resumes, stopped
\* wherever they may: not even one that was deleted since ("It loads once",
\* docs/agent/import.md:19).
LoadedOnce == \A x \in Lines : inserted[x] <= 1 /\ (inserted[x] = 1 => x \in ledger)

\* Every line behind a run's cursor is settled: it is in the ledger, or the
\* run has the reason why it is not (import_run.go:7, "never before it, never
\* after").
NothingPassedOver ==
  \A r \in DOMAIN run : \A d \in Doctypes : \A n \in 1..run[r].cursor[d] :
    \/ <<d, n>> \in ledger
    \/ \E e \in errors : e.run = r /\ e.line = <<d, n>>

\* A record is refused for a link only when what it links to was refused
\* itself, or a user had a hand in it: the order never puts a link before its
\* target (import_order.go).
OrderServes ==
  \A e \in errors : e.cause = "link" =>
    \E f \in plan.links : f[1] = e.line[1] /\ \/ Target(f[2]) \in touched
                                              \/ \E g \in errors : g.line = Target(f[2])

\* A run that says it completed loaded every line, unless a call ended before
\* it could save what it had counted.
CompletedIsLoaded ==
  \A r \in DOMAIN run : run[r].status = "completed" /\ ~run[r].lost => ledger = Lines

\* The same of every run.  docs/superpowers/plans/2026-09-22-resumable-import.md
\* asks that "resume after a forced stop at batch k gives identical counts".
CompletedMeansLoaded == \A r \in DOMAIN run : run[r].status = "completed" => ledger = Lines

\* A run that is resumed until it finishes does finish.
Finishes ==
  \A r \in Runs : (r \in DOMAIN run /\ run[r].status # "none") ~> (r \in DOMAIN run /\ run[r].status \in Finished)
=============================================================================

----------------------------- MODULE MCJobQueue -----------------------------
(* Model-checking definitions for JobQueue.                                *)
EXTENDS JobQueue, TLC

\* Workers are interchangeable, and so are request handlers.
Symmetry == Permutations(Worker) \cup Permutations(Admin)
=============================================================================

---------------------------- MODULE MCCacheSync ----------------------------
(* Model-checking definitions for CacheSync.                               *)
EXTENDS CacheSync, TLC

\* Roles, scopes and shares: SetAt, dropped at the statement or after the
\* commit, and read on the transaction in hand.
Rights == [guarded |-> TRUE, ttl |-> FALSE, late |-> {TRUE, FALSE}, own |-> TRUE]

Roles == [Rights EXCEPT !.late = {FALSE}]

\* Sessions and API keys: Set and a TTL, read on the pool.
Session == [guarded |-> FALSE, ttl |-> TRUE, late |-> {FALSE}, own |-> FALSE]

EveryEntry == {Rights, Session}
OnlyRoles == {Roles}
OnlySessions == {Session}

Symmetry == Permutations(Proc) \cup Permutations(Load)
=============================================================================

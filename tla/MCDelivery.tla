----------------------------- MODULE MCDelivery -----------------------------
(* Model-checking definitions for Delivery.                                 *)
EXTENDS Delivery, TLC

\* Workers are interchangeable.
Symmetry == Permutations(Runner)
=============================================================================

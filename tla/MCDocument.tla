----------------------------- MODULE MCDocument -----------------------------
(* Model-checking definitions for Document: a workflow with an approval, a  *)
(* rejection back to the draft, and a withdrawal straight to cancelled.     *)
EXTENDS Document, TLC

Workflow ==
  [Draft |-> 0, Pending |-> 0, Approved |-> 1, Void |-> 2]

WorkflowState == DOMAIN Workflow

Transitions ==
  {<<"Draft", "Pending">>, <<"Pending", "Draft">>, <<"Pending", "Approved">>,
   <<"Pending", "Void">>, <<"Approved", "Void">>}

\* The app's own code reopens a document, submits it in a state that is not
\* submitted, and cancels it.
OwnWrites == {<<0, "Draft">>, <<1, "Pending">>, <<2, "Void">>}

\* Transactions are interchangeable.
Symmetry == Permutations(Tx)
=============================================================================

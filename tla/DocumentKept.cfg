SPECIFICATION Spec
CONSTANTS
  Tx = {t1, t2}
  Governed = {TRUE, FALSE}
  State <- WorkflowState
  Initial = "Draft"
  StatusOf <- Workflow
  Move <- Transitions
  Own <- OwnWrites
  Editable = {"Draft"}
  PerMs = 2
  MaxTime = 5
SYMMETRY Symmetry
INVARIANTS
  TrailExplainsState
PROPERTIES
  NothingLost
  ForwardOnly
CHECK_DEADLOCK FALSE

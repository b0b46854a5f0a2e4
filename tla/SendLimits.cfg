SPECIFICATION Spec
CONSTANTS
  Requests = {r1, r2}
  Ops <- MCOps
  Inbox = {"lid"}
  Twin <- MCTwin
  Settings <- Budgets
  Minute = 2
  Day = 2
  MaxNow = 3
  MaxSends = 3
  MaxFault = 1
  MaxSet = 1
INVARIANTS ExactUsage BudgetsHeld
SYMMETRY Symmetry
CHECK_DEADLOCK FALSE

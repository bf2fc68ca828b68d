\* Two delegations side by side on one task.
SPECIFICATION Spec
CONSTANTS
  Ids = {t1}
  None = None
  Quotable = {"PASSED"}
  LongIds = {}
  Clipped <- MCClipped
  Workers = {w1, w2}
  TodoLists <- MCTodoLists
  LedgerTools = {"write_todos"}
  PanelAttached = FALSE
  GateKey = GateKey
  NoEvidence = NoEvidence
  AgentTypes = {"planner", "coder"}
  Mentions = {t1}
  MaxAttempts = 2
  HardCap = 0
  CountCeiling = 1
SYMMETRY ThreadSymmetry
PROPERTIES CompletedNeedsEvidence

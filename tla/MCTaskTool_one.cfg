\* One delegation at a time, every role and the classifier; a text may be cut inside an id.
SPECIFICATION Spec
CONSTANTS
  Ids = {t1, t12}
  None = None
  Quotable = {}
  LongIds = {t12}
  Clipped <- MCClipped
  Workers = {w1}
  TodoLists <- MCTodoLists
  LedgerTools = {"write_todos"}
  PanelAttached = FALSE
  GateKey = GateKey
  NoEvidence = NoEvidence
  AgentTypes = {"auto"}
  Mentions = {t12}
  MaxAttempts = 2
  HardCap = 1
  CountCeiling = 2
INVARIANTS TypeOK CoderSettlesRow CapStopsDirectFixers
PROPERTIES DelegationsReturn

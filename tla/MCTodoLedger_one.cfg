\* One thread at a time: an AIMessage with a single tool call.
SPECIFICATION Spec
CONSTANTS
  Ids = {t1, t2}
  None = None
  Workers = {w1}
  TodoLists <- MCTodoLists
  LedgerTools = {"write_todos", "update_todo"}
  PanelAttached = TRUE
INVARIANTS TypeOK WellFormed PanelShowsLedger
PROPERTIES RefinesAtomicLedger PanelCatchesUp

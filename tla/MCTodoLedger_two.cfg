\* Two tool calls of one AIMessage, or of two web sessions, side by side.
SPECIFICATION Spec
CONSTANTS
  Ids = {t1, t2}
  None = None
  Workers = {w1, w2}
  TodoLists <- MCTodoLists
  LedgerTools = {"write_todos", "update_todo"}
  PanelAttached = TRUE
PROPERTIES TerminalRowsKept AdvanceNeverRevives

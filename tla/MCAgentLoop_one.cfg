\* One pinned conversation: nudges, errors, the gate.
SPECIFICATION Spec
CONSTANTS
  Sessions = {s1}
  None = None
  Pinned = {s1}
  Replies <- MCReplies
  Failures = {"MODEL_TIMEOUT", "BAD_TOOL_CALL"}
  Plans <- MCPlans
  Targets = {"fixer"}
  SufficiencyOn = FALSE
  HighTodo = 90
  LowTodo = 50
  MaxIterations = 6
  MaxErrors = 3
  MaxStuck = 3
  MaxSufficiency = 1
INVARIANTS TypeOK EndsSettledOrStuck
PROPERTIES ErrorStreakStops

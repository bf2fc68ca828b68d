\* One pinned conversation with the sufficiency loop, over many turns.
SPECIFICATION Spec
CONSTANTS
  Sessions = {s1}
  None = None
  Pinned = {s1}
  Replies <- WorkReplies
  Failures = {"MODEL_TIMEOUT"}
  Plans <- SmallPlans
  Targets = {}
  SufficiencyOn = TRUE
  HighTodo = 90
  LowTodo = 50
  MaxIterations = 4
  MaxErrors = 2
  MaxStuck = 1
  MaxSufficiency = 2
INVARIANTS SufficiencyRetriesBounded
PROPERTIES EscalationIsFinal TurnsEnd

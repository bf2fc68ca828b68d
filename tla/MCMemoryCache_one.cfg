\* Two sessions of one project.
SPECIFICATION Spec
CONSTANTS
  Sessions = {s1, s2}
  Projects = {p1}
  Topics = {t1, t2}
  NoTopic = NoTopic
  Unread = Unread
  MaxWrites = 1
  MaxRecords = 2
  MaxFaults = 1
INVARIANTS TypeOK StaleIsMarked TurnSeesItsExtraction
CHECK_DEADLOCK FALSE
SYMMETRY Symmetry

\* Two sessions of two projects in one server.
SPECIFICATION Spec
CONSTANTS
  Sessions = {s1, s2}
  Projects = {p1, p2}
  Topics = {t1, t2}
  NoTopic = NoTopic
  Unread = Unread
  MaxWrites = 1
  MaxRecords = 2
  MaxFaults = 1
INVARIANTS ShowsOwnProject
CHECK_DEADLOCK FALSE
SYMMETRY Symmetry

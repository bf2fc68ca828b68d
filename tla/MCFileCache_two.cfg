\* Two threads and the commands of a third party on one file.
SPECIFICATION Spec
CONSTANTS
  Workers = {w1, w2}
  Files = {f1}
  NoFile = NoFile
  MaxSize = 4
  MaxWrites = 3
  MaxClock = 2
INVARIANTS TypeOK QueryIsFresh
SYMMETRY Symmetry
CHECK_DEADLOCK FALSE

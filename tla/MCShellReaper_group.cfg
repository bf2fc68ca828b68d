\* A shell and two more processes of any kind, in every order of forks and deaths.
SPECIFICATION Spec
CONSTANTS
  Procs = {sh, p1, p2}
  Leader = sh
INVARIANTS TypeOK LeaderIsReaped TimeoutSparesStrangers
PROPERTIES ExecuteReturns TimedOutGroupDies
CHECK_DEADLOCK FALSE

CONSTANTS
  t1 = t1
  t2 = t2
  Turn = {t1, t2}
  Nobody = Nobody
  MaxEntries = 4
  MaxFaults = 2
SPECIFICATION Spec
INVARIANTS
  LogIsTrue
PROPERTIES
  OpensOnlyHistory
CHECK_DEADLOCK FALSE

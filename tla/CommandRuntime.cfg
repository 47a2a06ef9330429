SPECIFICATION Spec
CONSTANTS
  Callers = {c1, c2, c3}
  Tasks = {t1, t2}
  Stoppers = {s1}
  None = None
INVARIANTS
  OneOwner
PROPERTIES
  QueuedServed
  SerialSpec
CHECK_DEADLOCK FALSE

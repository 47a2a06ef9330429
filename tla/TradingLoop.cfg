SPECIFICATION Spec
CONSTANTS
  MaxCandles = 5
  Warm = 1
  Cooldown = 1
  FetchLimit = 3
  StaleMultiple = 2
  Failures = TRUE
  Breaks = TRUE
  MaxBack = 1
  MaxCorrections = 1
  MaxStops = 1
CHECK_DEADLOCK FALSE
INVARIANTS
  TypeOK
  InStep
  CrossMemory
  HeldAboveSlow
PROPERTIES
  JudgedOnce
  CooldownKept
  PausedNeverBuys
  CheckpointKept

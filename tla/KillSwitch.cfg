SPECIFICATION Spec
CONSTANTS
  Updates = {u1}
  Runs = {soak, script}
  BotBeside = TRUE
  None = None
INVARIANTS
  OncePerUpdate
PROPERTIES
  LatchSpec

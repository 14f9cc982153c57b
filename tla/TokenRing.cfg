SPECIFICATION Spec
CONSTANTS
  N = 6
  Laps = 20
  First = 2
INVARIANTS InStep

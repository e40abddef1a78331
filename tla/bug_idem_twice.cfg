SPECIFICATION Spec
CONSTANTS
  Keys = {k1}
  Bodies = {b1, b2}
  Workers = {w1, w2}
  Backend = "memory"
  MaxEffects = 3
  Unbound = Unbound
  Idle = Idle
INVARIANTS
  OneAnswer

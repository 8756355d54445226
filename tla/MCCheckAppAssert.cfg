SPECIFICATION Spec
CONSTANTS
  InsIds = {i1, i2}
  Steady = {}
  Endpoints = {e1}
  None = None
  Callers = {c1}
  Timer = Timer
  MaxChanges = 1
  MaxGen = 3
INVARIANTS NoLogicError

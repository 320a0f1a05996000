\* A refusal unlocks tc_lock inside a handler's decrement_tc.
SPECIFICATION Spec
CONSTANTS
  c1 = c1
  c2 = c2
  c3 = c3
  Conns = {c1, c2, c3}
  Manager = Manager
  NoOne = NoOne
  Limits = {2}
  Passwords <- OnePassword
  Inputs <- Session
  MAX_CMD_LEN = 6
  Modulus = 8
SYMMETRY Symmetry
INVARIANT CountExact

CONSTANTS
  Clients = {a, b}
  Chars = {x}
  Keys = {k}
  Ignored = {}
  NoRoot = NoRoot
  MaxSaves = 2
  MaxBroken = 0
SPECIFICATION Spec
SYMMETRY Symmetry
PROPERTY NoFalseDelete
CHECK_DEADLOCK FALSE

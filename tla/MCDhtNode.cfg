SPECIFICATION NodeSpec
CONSTANTS
  Control = ctl
  Agents = {a1, a2}
  MayServe = {a1}
  Callers = {c1, c2}
  MaxPuts = 3
INVARIANTS
  NodeTypeOK
  
  FallbackForgets

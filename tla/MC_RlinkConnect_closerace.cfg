CONSTANTS
  f1 = f1
  f2 = f2
  srv = srv
  Fg = {f1, f2}
  Srv = srv
  NoThread = NoThread
  Clist <- TwoCallers
  AttnBits = {1}
  MaxOps = 2
  MaxPkts = 2
  MaxStarts = 1
SPECIFICATION Spec
INVARIANT
  PortInUseOpen

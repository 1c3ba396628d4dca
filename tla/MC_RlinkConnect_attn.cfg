CONSTANTS
  f1 = f1
  f2 = f2
  srv = srv
  Fg = {f1}
  Srv = srv
  NoThread = NoThread
  Clist <- OneReader
  AttnBits = {1, 2}
  MaxOps = 2
  MaxPkts = 2
  MaxStarts = 1
SPECIFICATION Spec
INVARIANTS
  AttnNotLost

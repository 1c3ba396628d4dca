CONSTANTS
  Disks = {d1, d2}
  Tapes = {t1}
  TypeArgs = {"off", "rp04", "rm03", "rk05"}
  CapArgs = {1, 2}
  None = None
SPECIFICATION Spec
INVARIANTS
  TypeOK
  AttachedConfigStable

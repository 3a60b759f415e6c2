SPECIFICATION Spec
CONSTANTS
  anonymous = anonymous
  pro = pro
  Procs = {p1, p2}
  Reqs = {r1, r2, r3}
  Tiers = {anonymous, pro}
  Burst <- MCBurst
  FallbackRpm = 1
  Window = 2
  MaxTime = 3
  MaxFaults = 2
SYMMETRY Interchangeable
INVARIANTS
  TypeOK
  WindowLimit
  FallbackLimit
  WaitingHelps
CHECK_DEADLOCK FALSE

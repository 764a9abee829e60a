SPECIFICATION Spec
CONSTANTS
  u1 = u1  t1 = t1  t2 = t2  r1 = r1  r2 = r2  r3 = r3
  Users = {u1}
  Threads = {t1, t2}
  Runs = {r1, r2, r3}
  Workers = {w1}
  Owner <- MCOwner
  ThreadOf <- TwoThreads
  Days = {0, 1}
  DailyLimit = 2
  AcceptWindow = 1
  RecoveryWindow = 1
  MaxCopies = 1
SYMMETRY Symmetry
INVARIANTS
  TypeOK
  OneActiveRun
  QuotaIsExact

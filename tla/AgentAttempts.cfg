SPECIFICATION FairSpec
CONSTANTS
  u1 = u1  t1 = t1  t2 = t2  r1 = r1  r2 = r2  r3 = r3
  Users = {u1}
  Threads = {t1}
  Runs = {r1, r2}
  Workers = {w1, w2}
  Owner <- MCOwner
  ThreadOf <- OneThread
  Days = {0}
  DailyLimit = 2
  AcceptWindow = 2
  RecoveryWindow = 2
  MaxCopies = 2
INVARIANTS
  AnswerOfLastAttempt
PROPERTIES
  OutcomeIsFinal
  AnswerWindowIsFixed
  AnswerNotCutShort
  EventuallyEnds
  ImplementsLifecycle

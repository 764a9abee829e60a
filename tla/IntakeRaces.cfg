SPECIFICATION Spec
CONSTANTS
  a1 = a1  a2 = a2  w1 = w1  w2 = w2
  Urls = {"u", "v"}
  Ids = {1, 2}
  Acquirers = {a1, a2}
  Workers = {w1, w2}
  Copies = {1}
  BatchSize = 2
  MaxReceives = 2
SYMMETRY Symmetry
INVARIANTS
  TypeOK
  AckedIsSettled
  RemovedIsStored
  AnnouncedOnce
PROPERTIES
  FirstDecisionWins

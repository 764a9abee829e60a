SPECIFICATION Spec
CONSTANTS
  a1 = a1  a2 = a2  w1 = w1  w2 = w2
  Urls = {"u"}
  Ids = {1}
  Acquirers = {a1}
  Workers = {w1}
  Copies = {1}
  BatchSize = 1
  MaxReceives = 1
INVARIANTS
  PendingIsNotStored

SPECIFICATION FairSpec
CONSTANTS
  a1 = a1  a2 = a2  w1 = w1  w2 = w2
  Urls = {"u"}
  Ids = {1}
  Acquirers = {a1, a2}
  Workers = {w1, w2}
  Copies = {1, 2}
  BatchSize = 1
  MaxReceives = 2
PROPERTIES
  RowsEventuallySettled

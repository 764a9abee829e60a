SPECIFICATION FairSpec
CONSTANTS
  Articles = {1}
  Workers = {w1, w2}
  Copies = {1}
  MaxReceives = 3
CHECK_DEADLOCK FALSE
INVARIANTS
  TypeOK
  OneVerdict
  KeptIsAnnouncedOnce
  AckedIsDecided
PROPERTIES
  ImplementsFunnel
  EveryArticleEnds

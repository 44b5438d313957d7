CONSTANTS
  Servers = {s1, s2}
  Tickets = {t1, t2, t3}
  QueriesFail = TRUE
SPECIFICATION FairSpec
PROPERTY SerialAddsKeepAcyclic
PROPERTY SearchEnds

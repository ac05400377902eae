\* One pool thread, no kill: does every agreement get a reply?
CONSTANTS
  c1 = c1
  c2 = c2
  k1 = k1
  k2 = k2
  junk = junk
  Workers = {w1}
  Requests = {r1, r2, r3}
  Clients = {c1, c2}
  Keys = {k1, k2, junk}
  GoodKeys = {k1, k2}
  Messages <- WellFormed
  Exclusive = TRUE
  MaxRestarts = 0
  NoFile = NoFile
  Empty = Empty
  Nil = Nil
SPECIFICATION FairSpec
PROPERTY AgreementAnswered
CHECK_DEADLOCK FALSE

\* One agreement at a time per client id: three requests, two ids, a restart; fair threads.
CONSTANTS
  c1 = c1
  c2 = c2
  k1 = k1
  k2 = k2
  junk = junk
  Workers = {w1, w2}
  Requests = {r1, r2, r3}
  Clients = {c1, c2}
  Keys = {k1, k2}
  GoodKeys = {k1, k2}
  Messages <- TwoClients
  Exclusive = TRUE
  MaxRestarts = 1
  NoFile = NoFile
  Empty = Empty
  Nil = Nil
SPECIFICATION FairSpec
INVARIANT AgreedIsRegistered
PROPERTIES ImplementsRegistry PostedIsSettled
CHECK_DEADLOCK FALSE

\* Two agreements of one client at once: is a registered key safe?
CONSTANTS
  c1 = c1
  c2 = c2
  k1 = k1
  k2 = k2
  junk = junk
  Workers = {w1, w2}
  Requests = {r1, r2}
  Clients = {c1, c2}
  Keys = {k1, k2, junk}
  GoodKeys = {k1, k2}
  Messages <- OneClient
  Exclusive = FALSE
  MaxRestarts = 0
  NoFile = NoFile
  Empty = Empty
  Nil = Nil
SPECIFICATION Spec
INVARIANT ExistingKeyRefuses
CHECK_DEADLOCK FALSE

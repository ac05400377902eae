\* Any messages, at once: two pool threads, three messages, one client id.
CONSTANTS
  c1 = c1
  c2 = c2
  k1 = k1
  k2 = k2
  junk = junk
  Workers = {w1, w2}
  Requests = {r1, r2, r3}
  Clients = {c1}
  Keys = {k1, k2, junk}
  GoodKeys = {k1, k2}
  Messages <- WithOthers
  Exclusive = FALSE
  MaxRestarts = 1
  NoFile = NoFile
  Empty = Empty
  Nil = Nil
SYMMETRY Symmetry
SPECIFICATION Spec
INVARIANTS TypeOK StoredKeyVerified FileInv
CHECK_DEADLOCK FALSE

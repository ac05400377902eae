\* Starts, kills and lost files; two clients, two pool threads.
CONSTANTS
  Pairs = {p1, p2, p3}
  NoFile = NoFile
  Empty = Empty
  Clients = {c1, c2}
  Workers = {w1, w2}
  MaxMessages = 1
  MaxCalls = 2
  Nobody = Nobody
SYMMETRY Symmetry
SPECIFICATION Spec
INVARIANTS TypeOK KeysBelongTogether ServesWithKeys HandlersHaveConnection
CHECK_DEADLOCK FALSE

CONSTANTS
  MaxConnects = 3
  Threads = {w1, w2, w3}
  Tasks = {t1, t2, t3}
  Nobody = nobody
  Names = {n1}
  Objects = {o1, o2}
  Ids = {0, 1}
  MaxNodes = 2
  Segments = {s1, s2}
  None = none
  MaxSize = 4
  KeyObjects = {k1, k2}
  KeyPairs = {p1, p2}
  Blank = blank
  Freed = freed
  MaxMade = 5
  Texts <- MCTexts
  Holders = {p1, p2}
  NoText = noText
  MaxText = 2
  Messages = {m1, m2}
  RequestInfos <- MCRequestInfos
  RespondInfos <- MCRespondInfos
  RequestTexts <- MCRequestTexts
  RespondTexts <- MCRespondTexts
  Empty = e
  a = a
  b = b
  e = e
  MaxInt = 3
  Strings = {a, b, e}
  Subjects = {"client", "pool", "shm", "keys", "hash", "codec"}
SPECIFICATION Spec
INVARIANTS
  TypeOK
  HandlersHaveObject NothingLeft
  TakesATask EachTaskOnce WorkConserved
  FindsFirst ArrayBacked NameHasMaker
  PointersValid HalvesMatch DefinedUnlessRefused
  AcceptsTheSigned
  DecodedIsSent NothingFromBefore SizesAgree
PROPERTIES CallsEnd StopReturns
CHECK_DEADLOCK FALSE

\* Every operation, three threads, spurious wake-ups; fair threads and mutexes.
CONSTANTS
  main = main
  io = io
  other = other
  Threads = {main, io, other}
  Calls <- AllCalls
  Items = {a, b, c}
  Nobody = Nobody
SPECIFICATION FairSpec
INVARIANTS TypeOK PopFindsItem
PROPERTIES ImplementsDeque CallsReturn

\* Update(n, true): is a thread in wait() woken for an item that is there?
CONSTANTS
  main = main
  io = io
  other = other
  Threads = {main, io}
  Calls <- WaitingCalls
  Items = {a, b}
  Nobody = Nobody
SPECIFICATION FairSpec
PROPERTY WaitersAreWoken

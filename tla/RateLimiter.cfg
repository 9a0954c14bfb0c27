SPECIFICATION LimiterSpec
CONSTANTS
  None = None
  Keys = {k, m}
  Threads = {a, b}
  MaxRequests = 2
  Window = 4
  MaxDelay = 1
PROPERTIES KeepsPromise AskingGetsIn

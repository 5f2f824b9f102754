SPECIFICATION Spec
CONSTANTS
  Retries = 3
  Runtimes = {"py38", "py311"}
INVARIANTS
  SharedFuture
  SocketsLeakExactlyOnSilence
PROPERTIES
  ExchangeEnds
  IsOneShot

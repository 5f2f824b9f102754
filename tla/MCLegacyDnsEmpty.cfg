SPECIFICATION Spec
CONSTANTS
  com = com
  ns = ns
  web = web
  cdn = cdn
  rs = rs
  root = root
  rootA = rootA
  stub = stub
  ip1 = ip1
  ip2 = ip2
  nsip = nsip
  None = None
  Tasks = {t1, t2}
  Names <- MCNames
  Addrs <- MCAddrs
  Suffixes <- MCSuffixes
  RootAddr = root
  StubAddr = stub
  Replies <- MCReplies
  Failures = {"exception", "cancelled"}
  Seed <- MCSeed
  Floor = 1
  MaxDepth = 6
  MaxAge = 4
  Domains = {web}
  Recursive = {FALSE}
  MayRestart = {}
INVARIANTS
  AnswerHasAddress

SPECIFICATION Spec
CONSTANTS
  com = com
  ns = ns
  web = web
  cdn = cdn
  rs = rs
  root = root
  rootA = rootA
  stub = stub
  ip1 = ip1
  ip2 = ip2
  nsip = nsip
  None = None
  Tasks = {t1}
  Names <- MCNames
  Addrs <- MCAddrs
  Suffixes <- MCSuffixes
  RootAddr = root
  StubAddr = stub
  Replies <- BrokenReplies
  Failures = {"exception"}
  Seed <- RootSeed
  Floor = 1
  MaxDepth = 6
  MaxAge = 3
  Domains = {web, rs}
  Recursive = {TRUE, FALSE}
  MayRestart = {FALSE}
INVARIANTS
  TypeOK
  NoticeIsNews
  AnswerHasAddress
  RoundsAreBounded
PROPERTIES
  OnlyRepliesRenew
  RequestsEnd

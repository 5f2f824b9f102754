SPECIFICATION Spec
CONSTANTS
  web = web
  cdn = cdn
  stub = stub
  ip1 = ip1
  ip2 = ip2
  bench1 = bench1
  hello1 = hello1
  hello2 = hello2
  noise = noise
  alien = alien
  scrap = scrap
  None = None
  ServeTask = serve
  Tasks = {serve}
  Names <- MCNames
  Addrs <- MCAddrs
  Suffixes <- MCSuffixes
  RootAddr = stub
  StubAddr = stub
  Replies <- MCReplies
  Failures = {"exception", "cancelled"}
  Seed <- MCSeed
  Floor = 1
  MaxDepth = 4
  MaxAge = 3
  Packets <- MCPackets
  Kind <- MCKind
  ServerName <- MCServerName
  Buffer = 2
  Benchmarks = {TRUE, FALSE}
  BenchAddrs = {bench1}
PROPERTIES
  RouteIsValid
  IsPipe
  PacketsAreServed

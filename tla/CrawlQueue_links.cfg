\* Two pages of one domain that link to each other, one worker, two levels.
CONSTANTS
  Node = {a, b}
  NoNode = NoNode
  Host = {"h"}
  HostOf <- OneHost
  User = {"u"}
  Owner <- OneUser
  Operator = "u"
  Links <- LinkBoth
  Worker = {w1}
  Cli = {}
  Request = {}
  MaxDepth = 2
  MaxPending = 1
  RetryLimit = 0
  RobotsRetry = 1
  RetryOverflow = 1
  ReviveBatch = 1
SYMMETRY Pages
SPECIFICATION Spec
INVARIANTS TypeOK BlacklistCovers
PROPERTY DepthOnlyShrinks

\* One page that robots.txt refuses, one worker, the revive sweeper.
CONSTANTS
  Node = {"a"}
  NoNode = NoNode
  Host = {"h"}
  HostOf <- OneHost
  User = {"u"}
  Owner <- OneUser
  Operator = "u"
  Links <- NoLinks
  Worker = {w1}
  Cli = {}
  Request = {}
  MaxDepth = 1
  MaxPending = 1
  RetryLimit = 1
  RobotsRetry = 2
  RetryOverflow = 2
  ReviveBatch = 1
SPECIFICATION Spec
PROPERTY RefusedUntouched

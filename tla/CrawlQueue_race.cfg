\* One row, everything that can race for it: two workers, a requeue, the
\* command-line crawler, sweepers, blacklist, deletion, restart.
CONSTANTS
  Node = {"a"}
  NoNode = NoNode
  Host = {"h"}
  HostOf <- OneHost
  User = {"u"}
  Owner <- OneUser
  Operator = "u"
  Links <- NoLinks
  Worker = {w1, w2}
  Cli = {c1}
  Request = {r1}
  MaxDepth = 1
  MaxPending = 1
  RetryLimit = 1
  RobotsRetry = 2
  RetryOverflow = 2
  ReviveBatch = 1
SPECIFICATION FairSpec
INVARIANTS BlockedHasReason CrawlingHasStart
PROPERTIES BlockedSticky CrawlingEnds FailedRevived

\* The deletion sweeper against a late cancellation.
CONSTANTS
  Sid = {s1}
  Handler = {r1}
  MaxSets = 1
CHECK_DEADLOCK FALSE
SPECIFICATION Spec
PROPERTY CancelHolds

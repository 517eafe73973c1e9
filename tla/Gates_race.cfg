SPECIFICATION FairGatesSpec
CONSTANTS
\* A window of three units and two ticks, and a table with room for one account.
  Key = {"u1", "u2", "root"}
  Req = {"r1", "r2"}
  Of <- BothOfU1
  Admin = {"root"}
  Limit = 3
  Window = 2
  MaxBuckets = 1
  MaxBatch = 2
  Followed = "u1"
\* Two addresses, two requests, counts over two ticks, one fault.
  Email = {"e1", "e2"}
  Client = {"c1", "c2"}
  AdminEmail <- OneEach
  Address = "e1"
  Cap = 1
  Span = 2
  Holdback = 2
  MaxFaults = 1
\* Two pages on two domains with their own locks, two sessions, one account.
  Node = {"a", "b"}
  Host = {"a", "b"}
  HostOf <- HostEach
  User = {"u"}
  Owner <- OneUser
  LockKey = {"a", "b"}
  KeyOf <- KeyEach
  Tx = {t1, t2}
  Free = Free
  MaxPending = 1
INVARIANTS TableBounded BurstBounded AnswerAddsUp AtMostOneAdmin AttemptsBounded RoomStaysRoom
PROPERTIES RefusedForCause WindowEnds LockoutEnds AtomicAdmission TxEnds

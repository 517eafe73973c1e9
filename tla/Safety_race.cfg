CONSTANTS
\* Two sessions, two concurrent requests, a password or version change.
  Sid = {s1, s2}
  Handler = {p1, p2}
  MaxSets = 1
\* Two requests, two enrolments, three time steps.
  Caller = {p1, p2}
  RecoveryCodeCount = 2
  TOTPSkew = 1
  MaxSecrets = 2
  MaxNow = 3
\* Two workers, two hosts, a cache for one, long enough to forget a host.
  Host = {h1, h2}
  Worker = {p1, p2}
  Base = 1
  MaxDelay = 2
  KeepFor = 2
  TTL = 2
  MaxSize = 1
  Advertised = {7}
  Overflow = 5
  MaxTime = 3
CHECK_DEADLOCK FALSE
SPECIFICATION SafetySpec
SYMMETRY Alike
INVARIANTS
  ResetSticks AcceptedProvedCurrent ServedWasGood
  OncePerEnrolment WayBackIn
  WaitBounded CacheBounded
PROPERTIES DeadStaysDead SlotsApart

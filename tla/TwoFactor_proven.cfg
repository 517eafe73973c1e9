\* A second enrolment started while the first is being confirmed.
CONSTANTS
  Caller = {r1, r2}
  RecoveryCodeCount = 1
  TOTPSkew = 1
  MaxSecrets = 2
  MaxNow = 2
CHECK_DEADLOCK FALSE
SPECIFICATION TwoFactorSpec
INVARIANT EnabledIsProven

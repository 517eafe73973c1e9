------------------------------ MODULE TwoFactor -----------------------------
(***************************************************************************)
(* The second factor of one account: enrolment, the challenge at sign-in   *)
(* (and before deleting data), recovery codes and disabling.  Every        *)
(* handler reads the configuration in one statement, checks the code       *)
(* against what it read and writes in another statement.                   *)
(*                                                                         *)
(* Secrets and batches of recovery codes are numbered in the order they    *)
(* are made.  A one-time code is a secret and the 30-second step it is     *)
(* for; the codes of different secrets or steps are taken to differ.       *)
(***************************************************************************)
EXTENDS Naturals

CONSTANTS
  Caller,            \* request handlers that may be inside an operation
  RecoveryCodeCount, \* recovery codes of one batch
  TOTPSkew,          \* steps before and after now that are accepted
  MaxSecrets,        \* bound of the model on secrets made
  MaxNow             \* bound of the model on time

ASSUME TwoFactorAssumption ==
  /\ RecoveryCodeCount \in Nat \ {0} /\ TOTPSkew \in Nat
  /\ MaxSecrets \in Nat /\ MaxNow \in Nat

Secret == 1 .. MaxSecrets
Step == 1 .. MaxNow + TOTPSkew
RecoveryCode == 1 .. RecoveryCodeCount

VARIABLES
  secret,     \* totp_secret, 0 for NULL
  enabled,    \* totp_enabled, "yes" or "no"
  lastStep,   \* totp_last_step
  batch,      \* the batch in recovery_codes, 0 if there is none
  recovery,   \* each code of that batch: "unused" or "used"
  now,        \* the current step
  made, given, \* secrets made and batches stored so far
  stage,      \* what each handler does
  purpose,    \* why it asks for the second factor: "login" or "disable"
  seen, step, \* the secret that a handler has read, the step its code is for
  shown,      \* ghost: the batch that the last successful enrolment returned
  proven,     \* ghost: the secret whose code enabled the second factor
  uses        \* ghost: acceptances of each step since the enrolment changed

rowVars == <<secret, enabled, lastStep, batch, recovery>>
localVars == <<purpose, seen, step>>
enrolGhosts == <<shown, proven, uses>>
twoFactorVars == <<secret, enabled, lastStep, batch, recovery, now, made, given, stage,
                   purpose, seen, step, shown, proven, uses>>

Stage == {"idle", "enrolling", "confirming", "challenged", "consuming", "disabling"}

TwoFactorInit ==
  /\ secret = 0 /\ enabled = "no" /\ lastStep = 0
  /\ batch = 0 /\ recovery = [c \in RecoveryCode |-> "used"]
  /\ now = 1 /\ made = 0 /\ given = 0
  /\ stage = [r \in Caller |-> "idle"] /\ purpose = [r \in Caller |-> "login"]
  /\ seen = [r \in Caller |-> 0] /\ step = [r \in Caller |-> 0]
  /\ shown = 0 /\ proven = 0
  /\ uses = [x \in Step |-> 0]

Advance(r, from, to) == stage[r] = from /\ stage' = [stage EXCEPT ![r] = to]

\* A handler returns, and what it has read is gone.
Return(r, from) ==
  /\ Advance(r, from, "idle")
  /\ purpose' = [purpose EXCEPT ![r] = "login"]
  /\ seen' = [seen EXCEPT ![r] = 0]
  /\ step' = [step EXCEPT ![r] = 0]

\* ValidateTOTP: the steps whose codes are accepted at this moment.
Window == {x \in Step : x <= now + TOTPSkew /\ now <= x + TOTPSkew}

-----------------------------------------------------------------------------
(* Enrolment                                                               *)

\* handleTOTPSetup
StageTOTPSecret ==
  /\ enabled = "no" /\ made < MaxSecrets
  /\ made' = made + 1
  /\ secret' = made + 1
  /\ UNCHANGED <<enabled, lastStep, batch, recovery, now, given, stage, localVars,
                 enrolGhosts>>

\* handleTOTPConfirm reads the configuration, and goes on only if a secret is
\* staged and not yet enabled.
ConfirmRead(r) ==
  /\ enabled = "no" /\ secret # 0
  /\ Advance(r, "idle", "enrolling")
  /\ seen' = [seen EXCEPT ![r] = secret]
  /\ UNCHANGED <<rowVars, now, made, given, purpose, step, enrolGhosts>>

ConfirmValidate(r) ==
  /\ Advance(r, "enrolling", "confirming")
  /\ \E x \in Window : step' = [step EXCEPT ![r] = x]
  /\ UNCHANGED <<rowVars, now, made, given, purpose, seen, enrolGhosts>>

\* Faulty variant: the recovery codes are replaced whether or not the update
\* found an enrolment to confirm.
ConfirmTOTPUnguarded(r) ==
  /\ Return(r, "confirming")
  /\ given' = given + 1
  /\ batch' = given + 1
  /\ recovery' = [c \in RecoveryCode |-> "unused"]
  /\ IF enabled = "no" /\ secret # 0
     THEN /\ enabled' = "yes" /\ lastStep' = step[r]
          /\ shown' = given + 1 /\ proven' = seen[r]
          /\ uses' = [x \in Step |-> IF x = step[r] THEN 1 ELSE 0]
     ELSE UNCHANGED <<enabled, lastStep, enrolGhosts>>
  /\ UNCHANGED <<secret, now, made>>

\* ConfirmTOTP: enabled and the codes replaced in one transaction, or neither.
ConfirmTOTP(r) ==
  /\ Return(r, "confirming")
  /\ IF enabled = "no" /\ secret # 0
     THEN /\ enabled' = "yes" /\ lastStep' = step[r]
          /\ given' = given + 1 /\ batch' = given + 1
          /\ recovery' = [c \in RecoveryCode |-> "unused"]
          /\ shown' = given + 1 /\ proven' = seen[r]
          /\ uses' = [x \in Step |-> IF x = step[r] THEN 1 ELSE 0]
     ELSE UNCHANGED <<enabled, lastStep, batch, recovery, given, enrolGhosts>>
  /\ UNCHANGED <<secret, now, made>>

-----------------------------------------------------------------------------
(* The challenge: verifySecondFactor, as called by handleLogin,            *)
(* reauthenticate and handleTOTPDisable                                    *)

\* GetTOTPState.  An account without second factor is not challenged.
Challenge(r) ==
  /\ enabled = "yes"
  /\ Advance(r, "idle", "challenged")
  /\ seen' = [seen EXCEPT ![r] = secret]
  /\ \E p \in {"login", "disable"} : purpose' = [purpose EXCEPT ![r] = p]
  /\ UNCHANGED <<rowVars, now, made, given, step, enrolGhosts>>

ValidateTOTP(r) ==
  /\ Advance(r, "challenged", "consuming")
  /\ \E x \in Window : step' = [step EXCEPT ![r] = x]
  /\ UNCHANGED <<rowVars, now, made, given, purpose, seen, enrolGhosts>>

\* A caller that is accepted signs in, or goes on to disable the factor.
Accept(r, from) ==
  IF purpose[r] = "login"
  THEN Return(r, from)
  ELSE Advance(r, from, "disabling") /\ UNCHANGED localVars

\* Faulty variant: the step is compared in one statement and recorded in
\* another, so that any handler that got this far is accepted.
ConsumeTOTPStepUnchecked(r) ==
  /\ Accept(r, "consuming")
  /\ lastStep' = step[r]
  /\ uses' = [uses EXCEPT ![step[r]] = @ + 1]
  /\ UNCHANGED <<secret, enabled, batch, recovery, now, made, given, shown, proven>>

\* ConsumeTOTPStep: compared and recorded in one statement.
ConsumeTOTPStep(r) ==
  /\ lastStep < step[r]
  /\ Accept(r, "consuming")
  /\ lastStep' = step[r]
  /\ uses' = [uses EXCEPT ![step[r]] = @ + 1]
  /\ UNCHANGED <<secret, enabled, batch, recovery, now, made, given, shown, proven>>

\* ConsumeRecoveryCode
ConsumeRecoveryCode(r) ==
  /\ batch # 0
  /\ Accept(r, "challenged")
  /\ \E c \in RecoveryCode :
       /\ recovery[c] = "unused"
       /\ recovery' = [recovery EXCEPT ![c] = "used"]
  /\ UNCHANGED <<secret, enabled, lastStep, batch, now, made, given, enrolGhosts>>

\* ErrTOTPReplay, a wrong code or a database error, in any handler.
Refuse(r) ==
  /\ \/ Return(r, "enrolling") \/ Return(r, "confirming")
     \/ Return(r, "challenged") \/ Return(r, "consuming") \/ Return(r, "disabling")
  /\ UNCHANGED <<rowVars, now, made, given, enrolGhosts>>

DisableTOTP(r) ==
  /\ Return(r, "disabling")
  /\ secret' = 0 /\ enabled' = "no" /\ lastStep' = 0 /\ batch' = 0
  /\ recovery' = [c \in RecoveryCode |-> "used"]
  /\ uses' = [x \in Step |-> 0]
  /\ UNCHANGED <<now, made, given, shown, proven>>

\* Thirty seconds pass.
Tick ==
  /\ now < MaxNow
  /\ now' = now + 1
  /\ UNCHANGED <<rowVars, made, given, stage, localVars, enrolGhosts>>

CallerStep(r) ==
  \/ ConfirmRead(r) \/ ConfirmValidate(r) \/ ConfirmTOTP(r)
  \/ Challenge(r) \/ ValidateTOTP(r) \/ ConsumeTOTPStep(r) \/ ConsumeRecoveryCode(r)
  \/ Refuse(r) \/ DisableTOTP(r)

TwoFactorNext == StageTOTPSecret \/ Tick \/ \E r \in Caller : CallerStep(r)

TwoFactorSpec == TwoFactorInit /\ [][TwoFactorNext]_twoFactorVars

-----------------------------------------------------------------------------
TwoFactorTypeOK ==
  /\ secret \in Nat /\ enabled \in {"yes", "no"} /\ lastStep \in Nat
  /\ batch \in Nat /\ recovery \in [RecoveryCode -> {"unused", "used"}]
  /\ now \in Nat /\ made \in Nat /\ given \in Nat
  /\ stage \in [Caller -> Stage] /\ purpose \in [Caller -> {"login", "disable"}]
  /\ seen \in [Caller -> Nat] /\ step \in [Caller -> Nat]
  /\ shown \in Nat /\ proven \in Nat
  /\ uses \in [Step -> Nat]

\* Within one enrolment a step is accepted once: two handlers that validated the
\* same code, the confirming one included, do not both get through.
OncePerEnrolment == \A x \in Step : uses[x] <= 1

\* An enrolled account holds exactly the recovery codes its owner was shown,
\* whatever other confirmations and disablings were under way.
WayBackIn == enabled = "yes" => batch # 0 /\ batch = shown

-----------------------------------------------------------------------------
(* What comments of the code say and the code does not do                  *)

\* The second factor is never enforced with a secret of which no code was seen.
EnabledIsProven == enabled = "yes" => secret = proven
=============================================================================

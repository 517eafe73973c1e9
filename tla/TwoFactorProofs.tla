--------------------------- MODULE TwoFactorProofs --------------------------
(***************************************************************************)
(* Proofs about TwoFactor, for any number of handlers, secrets, recovery   *)
(* codes and any clock skew.                                               *)
(***************************************************************************)
EXTENDS TwoFactor, TLAPS

\* What handlers hold is a secret that was made and a step of the clock.
HeldValues ==
  /\ made \in 0 .. MaxSecrets /\ secret \in 0 .. made
  /\ enabled = "yes" => secret # 0
  /\ \A r \in Caller : stage[r] # "idle" => seen[r] \in Secret
  /\ \A r \in Caller : stage[r] \in {"confirming", "consuming"} => step[r] \in Step

\* totp_last_step is at or after every step accepted in this enrolment: the
\* comparison against it is what makes a step single-use.
UsedAreOld == \A x \in Step : uses[x] <= 1 /\ (uses[x] = 1 => x <= lastStep)

Inv == TwoFactorTypeOK /\ HeldValues /\ UsedAreOld /\ WayBackIn

LEMMA InitInv == TwoFactorInit => Inv
  BY TwoFactorAssumption
  DEF TwoFactorInit, Inv, TwoFactorTypeOK, HeldValues, UsedAreOld, WayBackIn, Stage,
      Step, Secret

LEMMA AcceptType ==
  ASSUME TwoFactorTypeOK, NEW r \in Caller, NEW from, Accept(r, from)
  PROVE  /\ stage' \in [Caller -> Stage] /\ purpose' \in [Caller -> {"login", "disable"}]
         /\ seen' \in [Caller -> Nat] /\ step' \in [Caller -> Nat]
<1>1. CASE purpose[r] = "login"
  BY <1>1 DEF Accept, Return, Advance, TwoFactorTypeOK, Stage
<1>2. CASE purpose[r] # "login"
  BY <1>2 DEF Accept, Advance, TwoFactorTypeOK, Stage, localVars
<1> QED BY <1>1, <1>2

LEMMA StepInv == Inv /\ [TwoFactorNext]_twoFactorVars => Inv'
<1> SUFFICES ASSUME Inv, [TwoFactorNext]_twoFactorVars PROVE Inv'
  OBVIOUS
<1> USE TwoFactorAssumption
    DEF Inv, TwoFactorTypeOK, HeldValues, UsedAreOld, WayBackIn, Stage, Advance,
        Return, rowVars,
        localVars, enrolGhosts, Secret
<1>s. Step \subseteq Nat
  BY DEF Step
<1>1. CASE UNCHANGED twoFactorVars
  BY <1>1 DEF twoFactorVars
<1>2. CASE StageTOTPSecret
  BY <1>2 DEF StageTOTPSecret
<1>3. CASE Tick
  BY <1>3 DEF Tick
<1>4. ASSUME NEW r \in Caller, CallerStep(r) PROVE Inv'
  <2>1. CASE ConfirmRead(r)
    BY <2>1 DEF ConfirmRead
  <2>2. CASE ConfirmValidate(r)
    BY <2>2, <1>s DEF ConfirmValidate, Window
  <2>3. CASE ConfirmTOTP(r)
    <3>1. seen[r] \in Secret /\ step[r] \in Step
      BY <2>3 DEF ConfirmTOTP
    <3>3. CASE enabled = "no" /\ secret # 0
      <4>0. /\ uses' = [x \in Step |-> IF x = step[r] THEN 1 ELSE 0]
            /\ lastStep' = step[r] /\ step[r] \in Nat
        BY <2>3, <3>1, <3>3, <1>s DEF ConfirmTOTP
      <4>1. UsedAreOld' /\ uses' \in [Step -> Nat]
        <5> HIDE DEF Inv
        <5> QED BY <4>0, <1>s
      <4>2. recovery' \in [RecoveryCode -> {"unused", "used"}] /\ WayBackIn'
        BY <2>3, <3>3 DEF ConfirmTOTP
      <4>3. HeldValues'
        BY <2>3, <3>1, <3>3 DEF ConfirmTOTP
      <4> HIDE DEF HeldValues, UsedAreOld, WayBackIn
      <4>4. /\ secret' \in Nat /\ enabled' \in {"yes", "no"} /\ lastStep' \in Nat
            /\ batch' \in Nat /\ now' \in Nat /\ made' \in Nat /\ given' \in Nat
            /\ shown' \in Nat /\ proven' \in Nat
        BY <2>3, <3>1, <3>3, <1>s DEF ConfirmTOTP
      <4>5. /\ stage' \in [Caller -> Stage] /\ purpose' \in [Caller -> {"login", "disable"}]
            /\ seen' \in [Caller -> Nat] /\ step' \in [Caller -> Nat]
        BY <2>3 DEF ConfirmTOTP
      <4> QED BY <4>1, <4>2, <4>3, <4>4, <4>5
    <3>4. CASE ~(enabled = "no" /\ secret # 0)
      BY <2>3, <3>4 DEF ConfirmTOTP
    <3> QED BY <3>3, <3>4
  <2>4. CASE Challenge(r)
    BY <2>4 DEF Challenge
  <2>5. CASE ValidateTOTP(r)
    BY <2>5, <1>s DEF ValidateTOTP, Window
  <2>6. CASE ConsumeTOTPStep(r)
    <3>1. seen[r] \in Secret /\ step[r] \in Step /\ step[r] \in Nat /\ lastStep < step[r]
      BY <2>6, <1>s DEF ConsumeTOTPStep, Accept
    <3>3. uses[step[r]] = 0
      BY <3>1
    <3>4. UsedAreOld' /\ uses' \in [Step -> Nat]
      BY <2>6, <1>s, <3>1, <3>3 DEF ConsumeTOTPStep
    <3>5. HeldValues'
      BY <2>6, <3>1 DEF ConsumeTOTPStep, Accept
    <3>6. /\ stage' \in [Caller -> Stage] /\ purpose' \in [Caller -> {"login", "disable"}]
          /\ seen' \in [Caller -> Nat] /\ step' \in [Caller -> Nat]
      BY <2>6, AcceptType DEF ConsumeTOTPStep
    <3>7. WayBackIn' /\ lastStep' \in Nat
      BY <2>6, <3>1 DEF ConsumeTOTPStep
    <3>8. UNCHANGED <<secret, enabled, batch, recovery, now, made, given, shown, proven>>
      BY <2>6 DEF ConsumeTOTPStep
    <3> HIDE DEF HeldValues, UsedAreOld, WayBackIn
    <3> QED BY <3>4, <3>5, <3>6, <3>7, <3>8
  <2>7. CASE ConsumeRecoveryCode(r)
    <3>1. HeldValues'
      BY <2>7 DEF ConsumeRecoveryCode, Accept
    <3>2. /\ stage' \in [Caller -> Stage] /\ purpose' \in [Caller -> {"login", "disable"}]
          /\ seen' \in [Caller -> Nat] /\ step' \in [Caller -> Nat]
      BY <2>7, AcceptType DEF ConsumeRecoveryCode
    <3>3. recovery' \in [RecoveryCode -> {"unused", "used"}]
      BY <2>7 DEF ConsumeRecoveryCode
    <3>4. UsedAreOld' /\ WayBackIn'
      BY <2>7 DEF ConsumeRecoveryCode
    <3>5. UNCHANGED <<secret, enabled, lastStep, batch, now, made, given, enrolGhosts>>
      BY <2>7 DEF ConsumeRecoveryCode
    <3> HIDE DEF HeldValues, UsedAreOld, WayBackIn
    <3> QED BY <3>1, <3>2, <3>3, <3>4, <3>5
  <2>8. CASE Refuse(r)
    <3>1. PICK from \in Stage : Return(r, from)
      BY <2>8 DEF Refuse
    <3>2. UNCHANGED <<rowVars, now, made, given, enrolGhosts>>
      BY <2>8 DEF Refuse
    <3>3. HeldValues'
      BY <3>1, <3>2
    <3>4. UsedAreOld' /\ WayBackIn'
      BY <3>2
    <3> HIDE DEF HeldValues, UsedAreOld, WayBackIn
    <3> QED BY <3>1, <3>2, <3>3, <3>4
  <2>9. CASE DisableTOTP(r)
    BY <2>9 DEF DisableTOTP
  <2> QED BY <1>4, <2>1, <2>2, <2>3, <2>4, <2>5, <2>6, <2>7, <2>8, <2>9 DEF CallerStep
<1> QED BY <1>1, <1>2, <1>3, <1>4 DEF TwoFactorNext

LEMMA Invariant == TwoFactorSpec => []Inv
<1>1. TwoFactorInit => Inv
  BY InitInv
<1>2. Inv /\ [TwoFactorNext]_twoFactorVars => Inv'
  BY StepInv
<1> QED BY <1>1, <1>2, PTL DEF TwoFactorSpec

\* Every variable keeps its type.
THEOREM TypeCorrect == TwoFactorSpec => []TwoFactorTypeOK
  BY Invariant, PTL DEF Inv

\* ConsumeTOTPStep and ConfirmTOTP accept a step once in an enrolment, however
\* many requests present its code at the same time.
THEOREM StepsAreSingleUse == TwoFactorSpec => []OncePerEnrolment
<1>1. Inv => OncePerEnrolment
  BY DEF Inv, UsedAreOld, OncePerEnrolment
<1> QED BY <1>1, Invariant, PTL

\* ConfirmTOTP never leaves an account enrolled with recovery codes other than
\* the ones it returned.
THEOREM RecoveryCodesMatch == TwoFactorSpec => []WayBackIn
  BY Invariant, PTL DEF Inv
=============================================================================

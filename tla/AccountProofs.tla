---------------------------- MODULE AccountProofs ---------------------------
(***************************************************************************)
(* Proofs about Account, for any number of sessions and handlers.          *)
(*                                                                         *)
(* What is asked of tokens is not inductive: it depends on what the logins *)
(* still under way have read (LoginsCurrent), on each login owning the     *)
(* handle it stored (HandlesOwned), and on no token being out for a handle *)
(* that has no session row (StoredFirst).                                  *)
(***************************************************************************)
EXTENDS Account, TLAPS

InLogin == {"verified", "storing", "created"}

\* A login under way has read a version no newer than the present one, and
\* if it is the present one, it has proved the present password.
LoginsCurrent ==
  \A r \in Handler : pc[r] \in InLogin =>
    readVersion[r] <= version /\ (readVersion[r] = version => tried[r] = lastSet)

\* The same of the tokens that are out.
TokensCurrent ==
  \A s \in Sid : token[s] <= version /\ (token[s] = version => proved[s] = lastSet)

\* No token before its session row.
StoredFirst == \A s \in Sid : session[s] = "none" => token[s] = 0

\* Between CreateSession and GenerateToken a login alone owns its handle.
HandlesOwned ==
  /\ \A r \in Handler : pc[r] = "created" =>
       session[sid[r]] # "none" /\ token[sid[r]] = 0 /\ proved[sid[r]] = tried[r]
  /\ \A r, q \in Handler : pc[r] = "created" /\ pc[q] = "created" /\ sid[r] = sid[q] => r = q

\* A request whose token was dead on arrival is refused by the first check or,
\* if not, will be by the second.
DeadRefused ==
  \A r \in Handler : arrived[r] = "dead" =>
    /\ pc[r] # "served"
    /\ pc[r] = "version" => token[sid[r]] # 0 /\ ~Accepted(sid[r])
    /\ pc[r] = "active" => session[sid[r]] \notin {"none", "live"}

Inv == /\ TypeOK /\ ResetSticks /\ LoginsCurrent /\ TokensCurrent /\ StoredFirst
       /\ HandlesOwned /\ DeadRefused

LEMMA InitInv == Init => Inv
  BY DEF Init, Inv, TypeOK, ResetSticks, LoginsCurrent, TokensCurrent, StoredFirst,
         HandlesOwned, DeadRefused, InLogin, PC, Accepted

LEMMA TypeNext == TypeOK /\ [Next]_vars => TypeOK'
<1> SUFFICES ASSUME TypeOK, [Next]_vars PROVE TypeOK'
  OBVIOUS
<1> USE DEF TypeOK, PC, Goto, Finish, Forget, loginVars, ghostVars
<1>1. CASE UNCHANGED vars
  BY <1>1 DEF vars
<1>2. ASSUME NEW r \in Handler, HandlerStep(r) PROVE TypeOK'
  <2>1. CASE LoginRead(r)
    BY <2>1 DEF LoginRead
  <2>2. CASE UpgradePasswordHash(r) \/ UpgradeFails(r)
    BY <2>2 DEF UpgradePasswordHash, UpgradeFails
  <2>3. CASE CreateSession(r)
    BY <2>3 DEF CreateSession
  <2>4. CASE LoginFails(r) \/ GenerateToken(r)
    BY <2>4 DEF LoginFails, GenerateToken
  <2>5. CASE Arrive(r)
    BY <2>5 DEF Arrive
  <2>6. CASE GetUserAuthInfo(r) \/ SessionActive(r) \/ AuthCheckFails(r) \/ Served(r)
    BY <2>6 DEF GetUserAuthInfo, SessionActive, AuthCheckFails, Served
  <2>7. CASE RevokeSession(r) \/ BumpTokenVersion(r) \/ RevokeAllSessions(r)
               \/ RevokeAllFails(r)
    BY <2>7 DEF RevokeSession, BumpTokenVersion, RevokeAllSessions, RevokeAllFails
  <2>8. CASE RequestAccountDeletion(r) \/ CancelAccountDeletion(r)
    BY <2>8 DEF RequestAccountDeletion, CancelAccountDeletion
  <2> QED BY <1>2, <2>1, <2>2, <2>3, <2>4, <2>5, <2>6, <2>7, <2>8 DEF HandlerStep
<1>3. CASE \E s \in Sid : SessionExpires(s)
  BY <1>3 DEF SessionExpires
<1>4. CASE SetResetToken \/ ResetPassword \/ ResetExpires
  BY <1>4 DEF SetResetToken, ResetPassword, ResetExpires
<1>5. CASE GracePasses \/ DueAccountDeletions \/ DeleteAccount \/ DeleteAccountFails
  BY <1>5 DEF GracePasses, DueAccountDeletions, DeleteAccount, DeleteAccountFails
<1> QED BY <1>1, <1>2, <1>3, <1>4, <1>5 DEF Next

LEMMA StepInv == Inv /\ [Next]_vars => Inv'
<1> SUFFICES ASSUME Inv, [Next]_vars PROVE Inv'
  OBVIOUS
<1>t. TypeOK'
  BY TypeNext DEF Inv
<1> DEFINE Rest == /\ ResetSticks /\ LoginsCurrent /\ TokensCurrent /\ StoredFirst
                   /\ HandlesOwned /\ DeadRefused
<1> SUFFICES Rest'
  BY <1>t DEF Inv
<1> USE DEF Inv, TypeOK, PC, Goto, Finish, Forget, loginVars, ghostVars, Accepted, InLogin,
            ResetSticks, LoginsCurrent, TokensCurrent, StoredFirst, HandlesOwned, DeadRefused
<1>1. CASE UNCHANGED vars
  BY <1>1 DEF vars
<1>2. ASSUME NEW r \in Handler, HandlerStep(r) PROVE Rest'
  <2>1. CASE LoginRead(r)
    BY <2>1 DEF LoginRead
  <2>2. CASE UpgradePasswordHash(r)
    BY <2>2 DEF UpgradePasswordHash
  <2>3. CASE UpgradeFails(r)
    BY <2>3 DEF UpgradeFails
  <2>4. CASE CreateSession(r)
    BY <2>4 DEF CreateSession
  <2>5. CASE LoginFails(r)
    BY <2>5 DEF LoginFails
  <2>6. CASE GenerateToken(r)
    BY <2>6 DEF GenerateToken
  <2>7. CASE Arrive(r)
    BY <2>7 DEF Arrive
  <2>8. CASE GetUserAuthInfo(r)
    BY <2>8 DEF GetUserAuthInfo
  <2>9. CASE SessionActive(r)
    BY <2>9 DEF SessionActive
  <2>10. CASE AuthCheckFails(r)
    BY <2>10 DEF AuthCheckFails
  <2>11. CASE Served(r)
    BY <2>11 DEF Served
  <2>12. CASE RevokeSession(r)
    BY <2>12 DEF RevokeSession
  <2>13. CASE BumpTokenVersion(r)
    BY <2>13 DEF BumpTokenVersion
  <2>14. CASE RevokeAllSessions(r)
    BY <2>14 DEF RevokeAllSessions
  <2>15. CASE RevokeAllFails(r)
    BY <2>15 DEF RevokeAllFails
  <2>16. CASE RequestAccountDeletion(r)
    BY <2>16 DEF RequestAccountDeletion
  <2>17. CASE CancelAccountDeletion(r)
    BY <2>17 DEF CancelAccountDeletion
  <2> HIDE DEF Rest
  <2> QED BY <1>2, <2>1, <2>2, <2>3, <2>4, <2>5, <2>6, <2>7, <2>8, <2>9, <2>10, <2>11,
             <2>12, <2>13, <2>14, <2>15, <2>16, <2>17 DEF HandlerStep
<1>3. ASSUME NEW s \in Sid, SessionExpires(s) PROVE Rest'
  BY <1>3 DEF SessionExpires
<1>4. CASE SetResetToken \/ ResetExpires
  BY <1>4 DEF SetResetToken, ResetExpires
<1>5. CASE ResetPassword
  BY <1>5 DEF ResetPassword
<1>6. CASE GracePasses \/ DueAccountDeletions \/ DeleteAccountFails
  BY <1>6 DEF GracePasses, DueAccountDeletions, DeleteAccountFails
<1>7. CASE DeleteAccount
  BY <1>7 DEF DeleteAccount
<1> HIDE DEF Rest
<1> QED BY <1>1, <1>2, <1>3, <1>4, <1>5, <1>6, <1>7 DEF Next

LEMMA Invariant == Spec => []Inv
<1>1. Init => Inv
  BY InitInv
<1>2. Inv /\ [Next]_vars => Inv'
  BY StepInv
<1> QED BY <1>1, <1>2, PTL DEF Spec

\* Every variable keeps its type.
THEOREM TypeCorrect == Spec => []TypeOK
  BY Invariant, PTL DEF Inv

\* The re-hash of a login never undoes a password reset.
THEOREM ResetsStick == Spec => []ResetSticks
  BY Invariant, PTL DEF Inv

\* A password reset ends every sign-in made with an older password, also the
\* ones that read the user row before the reset and finish after it.
THEOREM OldPasswordsEnd == Spec => []AcceptedProvedCurrent
<1>1. Inv => AcceptedProvedCurrent
  BY DEF Inv, AcceptedProvedCurrent, TokensCurrent, Accepted
<1> QED BY <1>1, Invariant, PTL

\* The two queries of the middleware amount to one check at arrival.
THEOREM ServedOnlyGood == Spec => []ServedWasGood
<1>1. Inv => ServedWasGood
  BY DEF Inv, ServedWasGood, DeadRefused, TypeOK
<1> QED BY <1>1, Invariant, PTL

\* Nothing brings a refused token back.
THEOREM DeadTokensStayDead == Spec => DeadStaysDead
<1>1. ASSUME Inv, [Next]_vars, NEW s \in Sid, token[s] # 0, ~Accepted(s)
      PROVE  ~Accepted(s)'
  <2> USE <1>1 DEF Inv, TypeOK, Goto, Finish, ghostVars, Accepted, TokensCurrent,
                   StoredFirst, HandlesOwned
  <2>1. CASE UNCHANGED vars
    BY <2>1 DEF vars
  <2>2. ASSUME NEW r \in Handler, HandlerStep(r) PROVE ~Accepted(s)'
    <3>1. CASE CreateSession(r)
      BY <3>1 DEF CreateSession
    <3>2. CASE GenerateToken(r)
      BY <3>2 DEF GenerateToken
    <3>3. CASE RevokeSession(r) \/ RevokeAllSessions(r)
      BY <3>3 DEF RevokeSession, RevokeAllSessions
    <3>4. CASE BumpTokenVersion(r)
      BY <3>4 DEF BumpTokenVersion
    <3>5. CASE LoginRead(r) \/ UpgradePasswordHash(r) \/ UpgradeFails(r) \/ LoginFails(r)
      BY <3>5 DEF LoginRead, UpgradePasswordHash, UpgradeFails, LoginFails
    <3>6. CASE Arrive(r) \/ GetUserAuthInfo(r) \/ SessionActive(r) \/ AuthCheckFails(r)
                 \/ Served(r) \/ RevokeAllFails(r)
      BY <3>6 DEF Arrive, GetUserAuthInfo, SessionActive, AuthCheckFails, Served,
                  RevokeAllFails
    <3>7. CASE RequestAccountDeletion(r) \/ CancelAccountDeletion(r)
      BY <3>7 DEF RequestAccountDeletion, CancelAccountDeletion
    <3> QED BY <2>2, <3>1, <3>2, <3>3, <3>4, <3>5, <3>6, <3>7 DEF HandlerStep
  <2>3. CASE \E t \in Sid : SessionExpires(t)
    BY <2>3 DEF SessionExpires
  <2>4. CASE SetResetToken \/ ResetPassword \/ ResetExpires
    BY <2>4 DEF SetResetToken, ResetPassword, ResetExpires
  <2>5. CASE GracePasses \/ DueAccountDeletions \/ DeleteAccount \/ DeleteAccountFails
    BY <2>5 DEF GracePasses, DueAccountDeletions, DeleteAccount, DeleteAccountFails
  <2> QED BY <2>1, <2>2, <2>3, <2>4, <2>5 DEF Next
<1>2. Inv /\ [Next]_vars =>
        [\A s \in Sid : token[s] # 0 /\ ~Accepted(s) => ~Accepted(s)']_vars
  BY <1>1
<1> QED BY <1>2, Invariant, PTL DEF Spec, DeadStaysDead
=============================================================================

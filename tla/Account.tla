------------------------------- MODULE Account ------------------------------
(***************************************************************************)
(* One account: signing in, the sessions and tokens this creates, what     *)
(* revokes them, password reset, and scheduled deletion.  A handler that   *)
(* reads in one statement and writes in another is several actions.        *)
(*                                                                         *)
(* A token carries the handle of its session and the token_version of the  *)
(* user row that its login read.  Passwords are numbered in the order the  *)
(* owner sets them.                                                        *)
(***************************************************************************)
EXTENDS Naturals

CONSTANTS
  Sid,     \* session handles (NewSessionID never returns the same twice)
  Handler, \* request handlers that may be inside an operation
  MaxSets  \* bound of the model on password resets and logouts everywhere

ASSUME AccountAssumption == MaxSets \in Nat

VARIABLES
  row,      \* "here" or "gone": the users row
  stored,   \* the password that password_hash verifies
  format,   \* "bcrypt" or "argon2id": how it is hashed
  version,  \* token_version
  resetFor, \* "none", "mailed" (a valid reset token is out) or "expired"
  deletion, \* "none", "scheduled" or "due"
  session,  \* each session row: "none", "live", "revoked" or "expired"
  token,    \* the version in the token of each session, 0 before it is issued
  pc, sid,  \* what each handler does, and for which session
  tried, readFormat, readVersion, \* what a login has been given and has read
  sweeping, \* "yes" while the deletion sweeper is about to delete the account
  lastSet,  \* ghost: the last password the owner set
  proved,   \* ghost: the password that the login of each session proved
  arrived,  \* ghost: was the token of a request good when the request arrived?
  kept      \* ghost: the owner has been told that a deletion is cancelled

loginVars == <<tried, readFormat, readVersion>>
ghostVars == <<lastSet, proved, arrived, kept>>
vars == <<row, stored, format, version, resetFor, deletion, session, token, pc, sid,
          tried, readFormat, readVersion, sweeping, lastSet, proved, arrived, kept>>

PC == {"idle", "verified", "storing", "created", "version", "active", "served", "bumped"}

Init ==
  /\ row = "here" /\ stored = 0 /\ format = "bcrypt" /\ version = 1
  /\ resetFor = "none" /\ deletion = "none"
  /\ session = [s \in Sid |-> "none"] /\ token = [s \in Sid |-> 0]
  /\ pc = [r \in Handler |-> "idle"]
  /\ sid \in [Handler -> Sid]
  /\ tried = [r \in Handler |-> 0]
  /\ readFormat = [r \in Handler |-> "bcrypt"]
  /\ readVersion = [r \in Handler |-> 0]
  /\ sweeping = "no"
  /\ lastSet = 0 /\ proved = [s \in Sid |-> 0]
  /\ arrived = [r \in Handler |-> "good"] /\ kept = "no"

Goto(r, from, to) == pc[r] = from /\ pc' = [pc EXCEPT ![r] = to]

\* A login ends, and with it what it has read.
Forget(r) ==
  /\ tried' = [tried EXCEPT ![r] = 0]
  /\ readFormat' = [readFormat EXCEPT ![r] = "bcrypt"]
  /\ readVersion' = [readVersion EXCEPT ![r] = 0]

\* An authenticated request ends.
Finish(r, from) == Goto(r, from, "idle") /\ arrived' = [arrived EXCEPT ![r] = "good"]

\* What JWTMiddleware and LoadDBRole together accept: the user exists, the
\* version is current and the session is live.
Accepted(s) == row = "here" /\ token[s] = version /\ session[s] = "live"

-----------------------------------------------------------------------------
(* handleLogin                                                             *)

\* GetUserByEmail, and the password checked against what it returned
LoginRead(r) ==
  /\ row = "here"
  /\ Goto(r, "idle", "verified")
  /\ tried' = [tried EXCEPT ![r] = stored]
  /\ readFormat' = [readFormat EXCEPT ![r] = format]
  /\ readVersion' = [readVersion EXCEPT ![r] = version]
  /\ UNCHANGED <<row, stored, format, version, resetFor, deletion, session, token, sid,
                 sweeping, ghostVars>>

\* Faulty variant: the new hash is written whatever is stored by now.
UpgradeAlways(r) ==
  /\ Goto(r, "verified", "storing")
  /\ IF row = "here" /\ readFormat[r] = "bcrypt"
     THEN stored' = tried[r] /\ format' = "argon2id"
     ELSE UNCHANGED <<stored, format>>
  /\ UNCHANGED <<row, version, resetFor, deletion, session, token, sid, loginVars,
                 sweeping, ghostVars>>

\* NeedsRehash, and UpgradePasswordHash guarded by the hash that was read
UpgradePasswordHash(r) ==
  /\ Goto(r, "verified", "storing")
  /\ IF row = "here" /\ readFormat[r] = "bcrypt" /\ stored = tried[r] /\ format = "bcrypt"
     THEN format' = "argon2id"
     ELSE UNCHANGED format
  /\ UNCHANGED <<row, stored, version, resetFor, deletion, session, token, sid, loginVars,
                 sweeping, ghostVars>>

\* The upgrade fails: logged and ignored.
UpgradeFails(r) ==
  /\ readFormat[r] = "bcrypt"
  /\ Goto(r, "verified", "storing")
  /\ UNCHANGED <<row, stored, format, version, resetFor, deletion, session, token, sid,
                 loginVars, sweeping, ghostVars>>

\* Faulty variant: the handle of a revoked session may be stored again.
CreateSessionReusing(r) ==
  /\ row = "here"
  /\ Goto(r, "storing", "created")
  /\ \E s \in Sid :
       /\ session[s] \in {"none", "revoked"}
       /\ session' = [session EXCEPT ![s] = "live"]
       /\ sid' = [sid EXCEPT ![r] = s]
       /\ proved' = [proved EXCEPT ![s] = tried[r]]
  /\ UNCHANGED <<row, stored, format, version, resetFor, deletion, token, loginVars,
                 sweeping, lastSet, arrived, kept>>

CreateSession(r) ==
  /\ row = "here"
  /\ Goto(r, "storing", "created")
  /\ \E s \in Sid :
       /\ session[s] = "none"
       /\ session' = [session EXCEPT ![s] = "live"]
       /\ sid' = [sid EXCEPT ![r] = s]
       /\ proved' = [proved EXCEPT ![s] = tried[r]]
  /\ UNCHANGED <<row, stored, format, version, resetFor, deletion, token, loginVars,
                 sweeping, lastSet, arrived, kept>>

\* The insert fails (a database error, or the account has gone), or signing the
\* token does: the caller gets an error, and a session that was stored stays.
LoginFails(r) ==
  /\ Goto(r, "storing", "idle") \/ Goto(r, "created", "idle")
  /\ Forget(r)
  /\ UNCHANGED <<row, stored, format, version, resetFor, deletion, session, token, sid,
                 sweeping, ghostVars>>

\* Faulty variant: the version is read again for the token.
GenerateTokenRereading(r) ==
  /\ Goto(r, "created", "idle")
  /\ token' = [token EXCEPT ![sid[r]] = version]
  /\ Forget(r)
  /\ UNCHANGED <<row, stored, format, version, resetFor, deletion, session, sid, sweeping,
                 ghostVars>>

GenerateToken(r) ==
  /\ Goto(r, "created", "idle")
  /\ token' = [token EXCEPT ![sid[r]] = readVersion[r]]
  /\ Forget(r)
  /\ UNCHANGED <<row, stored, format, version, resetFor, deletion, session, sid, sweeping,
                 ghostVars>>

-----------------------------------------------------------------------------
(* Authenticated requests: LoadDBRole looks at the user row, then at the   *)
(* session row, then the handler runs.                                     *)

Arrive(r) ==
  /\ Goto(r, "idle", "version")
  /\ \E s \in Sid :
       /\ token[s] # 0
       /\ sid' = [sid EXCEPT ![r] = s]
       /\ arrived' = [arrived EXCEPT ![r] = IF Accepted(s) THEN "good" ELSE "dead"]
  /\ UNCHANGED <<row, stored, format, version, resetFor, deletion, session, token,
                 loginVars, sweeping, lastSet, proved, kept>>

GetUserAuthInfo(r) ==
  /\ IF row = "here" /\ token[sid[r]] = version
     THEN Goto(r, "version", "active") /\ UNCHANGED arrived
     ELSE Finish(r, "version")
  /\ UNCHANGED <<row, stored, format, version, resetFor, deletion, session, token, sid,
                 loginVars, sweeping, lastSet, proved, kept>>

\* Faulty variant: a revoked session row still counts.
SessionActiveIfPresent(r) ==
  /\ IF session[sid[r]] \in {"live", "revoked"}
     THEN Goto(r, "active", "served") /\ UNCHANGED arrived
     ELSE Finish(r, "active")
  /\ UNCHANGED <<row, stored, format, version, resetFor, deletion, session, token, sid,
                 loginVars, sweeping, lastSet, proved, kept>>

SessionActive(r) ==
  /\ IF session[sid[r]] = "live"
     THEN Goto(r, "active", "served") /\ UNCHANGED arrived
     ELSE Finish(r, "active")
  /\ UNCHANGED <<row, stored, format, version, resetFor, deletion, session, token, sid,
                 loginVars, sweeping, lastSet, proved, kept>>

\* Either query fails: the request is refused with an internal error.
AuthCheckFails(r) ==
  /\ Finish(r, "version") \/ Finish(r, "active")
  /\ UNCHANGED <<row, stored, format, version, resetFor, deletion, session, token, sid,
                 loginVars, sweeping, lastSet, proved, kept>>

\* The handler is one that changes nothing here.
Served(r) ==
  /\ Finish(r, "served")
  /\ UNCHANGED <<row, stored, format, version, resetFor, deletion, session, token, sid,
                 loginVars, sweeping, lastSet, proved, kept>>

\* handleLogout (the caller's own session) and handleRevokeSession (any of the
\* account's): revoke one live session.
RevokeSession(r) ==
  /\ Finish(r, "served")
  /\ \E s \in Sid :
       /\ session[s] = "live"
       /\ session' = [session EXCEPT ![s] = "revoked"]
  /\ UNCHANGED <<row, stored, format, version, resetFor, deletion, token, sid, loginVars,
                 sweeping, lastSet, proved, kept>>

\* handleLogoutAll: BumpTokenVersion ...
BumpTokenVersion(r) ==
  /\ version <= MaxSets
  /\ Goto(r, "served", "bumped")
  /\ version' = IF row = "here" THEN version + 1 ELSE version
  /\ UNCHANGED <<row, stored, format, resetFor, deletion, session, token, sid, loginVars,
                 sweeping, ghostVars>>

\* ... then RevokeAllSessions
RevokeAllSessions(r) ==
  /\ Finish(r, "bumped")
  /\ session' = [s \in Sid |-> IF session[s] = "live" THEN "revoked" ELSE session[s]]
  /\ UNCHANGED <<row, stored, format, version, resetFor, deletion, token, sid, loginVars,
                 sweeping, lastSet, proved, kept>>

\* ... which may fail: logged and ignored.
RevokeAllFails(r) ==
  /\ Finish(r, "bumped")
  /\ UNCHANGED <<row, stored, format, version, resetFor, deletion, session, token, sid,
                 loginVars, sweeping, lastSet, proved, kept>>

\* handleAccountDeleteRequest: refused while one is pending.
RequestAccountDeletion(r) ==
  /\ row = "here" /\ deletion = "none"
  /\ Finish(r, "served")
  /\ deletion' = "scheduled"
  /\ kept' = "no"
  /\ UNCHANGED <<row, stored, format, version, resetFor, session, token, sid, loginVars,
                 sweeping, lastSet, proved>>

\* handleAccountDeleteCancel, when one is pending
CancelAccountDeletion(r) ==
  /\ row = "here" /\ deletion # "none"
  /\ Finish(r, "served")
  /\ deletion' = "none"
  /\ kept' = "yes"
  /\ UNCHANGED <<row, stored, format, version, resetFor, session, token, sid, loginVars,
                 sweeping, lastSet, proved>>

-----------------------------------------------------------------------------
(* Password reset, sweepers, time                                          *)

SetResetToken ==
  /\ row = "here" /\ resetFor # "mailed"
  /\ resetFor' = "mailed"
  /\ UNCHANGED <<row, stored, format, version, deletion, session, token, pc, sid, loginVars,
                 sweeping, ghostVars>>

\* The owner follows the mailed link and sets a new password.
ResetPassword ==
  /\ row = "here" /\ resetFor = "mailed" /\ version <= MaxSets
  /\ stored' = lastSet + 1 /\ lastSet' = lastSet + 1 /\ format' = "argon2id"
  /\ resetFor' = "none"
  /\ version' = version + 1
  /\ UNCHANGED <<row, deletion, session, token, pc, sid, loginVars, sweeping, proved,
                 arrived, kept>>

\* expires_at passes; DeleteExpiredSessions then only removes dead rows.
SessionExpires(s) ==
  /\ session[s] \in {"live", "revoked"}
  /\ session' = [session EXCEPT ![s] = "expired"]
  /\ UNCHANGED <<row, stored, format, version, resetFor, deletion, token, pc, sid,
                 loginVars, sweeping, ghostVars>>

ResetExpires ==
  /\ resetFor = "mailed"
  /\ resetFor' = "expired"
  /\ UNCHANGED <<row, stored, format, version, deletion, session, token, pc, sid, loginVars,
                 sweeping, ghostVars>>

GracePasses ==
  /\ row = "here" /\ deletion = "scheduled"
  /\ deletion' = "due"
  /\ UNCHANGED <<row, stored, format, version, resetFor, session, token, pc, sid, loginVars,
                 sweeping, ghostVars>>

\* The deletion sweeper lists the accounts that are due ...
DueAccountDeletions ==
  /\ row = "here" /\ deletion = "due" /\ sweeping = "no"
  /\ sweeping' = "yes"
  /\ UNCHANGED <<row, stored, format, version, resetFor, deletion, session, token, pc, sid,
                 loginVars, ghostVars>>

\* ... and deletes each by id, with the cascade to its sessions.
DeleteAccount ==
  /\ sweeping = "yes"
  /\ row' = "gone"
  /\ sweeping' = "no"
  /\ session' = [s \in Sid |-> IF session[s] = "none" THEN "none" ELSE "expired"]
  /\ UNCHANGED <<stored, format, version, resetFor, deletion, token, pc, sid, loginVars,
                 ghostVars>>

\* The transaction fails: logged, the next run tries again.
DeleteAccountFails ==
  /\ sweeping = "yes"
  /\ sweeping' = "no"
  /\ UNCHANGED <<row, stored, format, version, resetFor, deletion, session, token, pc, sid,
                 loginVars, ghostVars>>

-----------------------------------------------------------------------------
HandlerStep(r) ==
  \/ LoginRead(r) \/ UpgradePasswordHash(r) \/ UpgradeFails(r)
  \/ CreateSession(r) \/ LoginFails(r) \/ GenerateToken(r)
  \/ Arrive(r) \/ GetUserAuthInfo(r) \/ SessionActive(r) \/ AuthCheckFails(r) \/ Served(r)
  \/ RevokeSession(r) \/ BumpTokenVersion(r) \/ RevokeAllSessions(r) \/ RevokeAllFails(r)
  \/ RequestAccountDeletion(r) \/ CancelAccountDeletion(r)

Next ==
  \/ \E r \in Handler : HandlerStep(r)
  \/ \E s \in Sid : SessionExpires(s)
  \/ SetResetToken \/ ResetPassword \/ ResetExpires
  \/ GracePasses \/ DueAccountDeletions \/ DeleteAccount \/ DeleteAccountFails

Spec == Init /\ [][Next]_vars

-----------------------------------------------------------------------------
TypeOK ==
  /\ row \in {"here", "gone"} /\ stored \in Nat /\ format \in {"bcrypt", "argon2id"}
  /\ version \in Nat \ {0}
  /\ resetFor \in {"none", "mailed", "expired"}
  /\ deletion \in {"none", "scheduled", "due"}
  /\ session \in [Sid -> {"none", "live", "revoked", "expired"}] /\ token \in [Sid -> Nat]
  /\ pc \in [Handler -> PC] /\ sid \in [Handler -> Sid] /\ tried \in [Handler -> Nat]
  /\ readFormat \in [Handler -> {"bcrypt", "argon2id"}] /\ readVersion \in [Handler -> Nat]
  /\ sweeping \in {"yes", "no"}
  /\ lastSet \in Nat /\ proved \in [Sid -> Nat]
  /\ arrived \in [Handler -> {"good", "dead"}] /\ kept \in {"yes", "no"}

\* A reset sticks: a login that proved the old password and re-hashes it after
\* the reset does not bring the old password back.
ResetSticks == stored = lastSet

\* A password change ends every sign-in made with an older password, those
\* still under way included: whoever is accepted has proved the current one.
AcceptedProvedCurrent == \A s \in Sid : Accepted(s) => proved[s] = lastSet

\* A request is served only if its token was good when it arrived, although the
\* user row and the session row are read at different moments.
ServedWasGood == \A r \in Handler : pc[r] = "served" => arrived[r] = "good"

\* A token that has been issued and is refused is never accepted again.
DeadStaysDead ==
  [][\A s \in Sid : token[s] # 0 /\ ~Accepted(s) => ~Accepted(s)']_vars

-----------------------------------------------------------------------------
(* What comments of the code say and the code does not do                  *)

\* An account whose deletion was cancelled is not deleted.
CancelHolds == [][row = "here" /\ row' = "gone" => kept = "no"]_vars
=============================================================================

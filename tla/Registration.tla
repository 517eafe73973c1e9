---------------------------- MODULE Registration ----------------------------
(***************************************************************************)
(* Registration, and the controls that count rows of auth_audit: the       *)
(* lockout of handleLogin and the caps on reset and verification mail.     *)
(* Each of them counts first, acts, and writes the row that will be        *)
(* counted last, in three statements of which the last may be lost.  One   *)
(* address and one kind of event are followed (every count is about one of *)
(* each); the controls per network address come first and are the subject  *)
(* of RateLimiter, whose names this module does not use, so that module    *)
(* LimitProofs can extend both.                                            *)
(***************************************************************************)
EXTENDS Naturals, FiniteSets, Functions

CONSTANTS
  Email,
  Client,      \* requests
  AdminEmail,  \* the administrator's address in the instance that serves each
  Address,     \* the address whose events are followed
  Cap,         \* 5 failures, 3 mails
  Span,        \* how far a count looks back, in ticks
  Holdback,    \* how long PurgeAuthAudit leaves these events alone
  MaxFaults    \* bound: statements about auth_audit that fail

ASSUME RegistrationAssumption ==
  /\ IsFiniteSet(Email) /\ IsFiniteSet(Client)
  /\ "free" \notin Client /\ Address \in Email
  /\ {Cap, Span} \subseteq Nat \ {0} /\ MaxFaults \in Nat
  /\ Holdback \in Nat /\ Holdback >= Span

VARIABLES
  role,         \* of the account of each address
  lock,         \* who holds bootstrapAdminLock
  at,           \* where each request is
  email, grade, \* the address a registration is for, and the role it has decided on
  kind,         \* the event that is followed
  log,          \* its rows in auth_audit about Address, by age in ticks
  done,         \* ghost: what was done that such a row stands for, by age
  faults

requestVars == <<at, email, grade>>
auditVars == <<kind, log, done, faults>>
registerVars == <<role, lock, at, email, grade, kind, log, done, faults>>

Kind == {"login_fail", "reset_request", "register_ok"}
Role == {"none", "user", "admin"}
PC == {"idle", "decide", "insert", "act", "log"}
AuditAges == 0 .. Holdback
Nothing == [a \in 0 .. Span - 1 |-> 0]

RegisterInit ==
  /\ role = [e \in Email |-> "none"] /\ lock = "free"
  /\ at = [r \in Client |-> "idle"]
  /\ email = [r \in Client |-> Address] /\ grade = [r \in Client |-> "user"]
  /\ kind \in Kind
  /\ log = [a \in AuditAges |-> 0] /\ done = Nothing /\ faults = 0

Goto(r, from, to) == at[r] = from /\ at' = [at EXCEPT ![r] = to]

\* What a count over the window sees.
Recent(counts) == SumFunctionOnSet(counts, 0 .. Span - 1)
CountRecentAuthEvents == Recent(log)

Fault == faults < MaxFaults /\ faults' = faults + 1

\* The count is below the cap; an error of the count is taken for that.
BelowCap ==
  \/ CountRecentAuthEvents < Cap /\ UNCHANGED faults
  \/ Fault

\* What the row of auth_audit will stand for happens now.
Act == done' = [done EXCEPT ![0] = @ + 1]

-----------------------------------------------------------------------------
(* Registration                                                            *)

Capped(e) == e = Address /\ kind = "register_ok"

\* handleRegister up to the transaction.
handleRegister(r, e) ==
  /\ Goto(r, "idle", "decide")
  /\ email' = [email EXCEPT ![r] = e]
  /\ IF Capped(e) THEN BelowCap ELSE UNCHANGED faults
  /\ UNCHANGED <<role, lock, grade, kind, log, done>>

HasAdmin == \E e \in Email : role[e] = "admin"
Grade(r) == IF email[r] = AdminEmail[r] /\ ~HasAdmin THEN "admin" ELSE "user"

\* Faulty variant: the role is decided outside the lock.
DecideRoleUnlocked(r) ==
  /\ Goto(r, "decide", "insert")
  /\ grade' = [grade EXCEPT ![r] = Grade(r)]
  /\ UNCHANGED <<role, lock, email, auditVars>>

\* CreateRegisteredUser waits for the lock and decides on the role.
DecideRole(r) ==
  /\ Goto(r, "decide", "insert")
  /\ lock = "free" /\ lock' = r
  /\ grade' = [grade EXCEPT ![r] = Grade(r)]
  /\ UNCHANGED <<role, email, auditVars>>

\* The transaction is over, and what it decided with it.
Forget(r) ==
  /\ email' = [email EXCEPT ![r] = Address] /\ grade' = [grade EXCEPT ![r] = "user"]

\* It inserts the account and commits, which releases the lock.
InsertUser(r) ==
  /\ at[r] = "insert" /\ role[email[r]] = "none"
  /\ lock' = "free" /\ Forget(r)
  /\ role' = [role EXCEPT ![email[r]] = grade[r]]
  /\ IF Capped(email[r])
       THEN at' = [at EXCEPT ![r] = "log"] /\ Act
       ELSE at' = [at EXCEPT ![r] = "idle"] /\ UNCHANGED done
  /\ UNCHANGED <<kind, log, faults>>

\* The address is in use, or a statement fails: the transaction is rolled back
\* and a register_fail is logged, which nothing counts.
RegisterFails(r) ==
  /\ at[r] \in {"decide", "insert"}
  /\ at' = [at EXCEPT ![r] = "idle"]
  /\ lock' = (IF lock = r THEN "free" ELSE lock) /\ Forget(r)
  /\ UNCHANGED <<role, auditVars>>

\* DeleteAccount, once the grace period is over.
DeleteAccount(e) ==
  /\ role[e] # "none"
  /\ role' = [role EXCEPT ![e] = "none"]
  /\ IF e = Address
       THEN log' = [a \in AuditAges |-> 0] /\ done' = Nothing
       ELSE UNCHANGED <<log, done>>
  /\ UNCHANGED <<lock, requestVars, kind, faults>>

-----------------------------------------------------------------------------
(* Sign-in and password reset                                              *)

\* handleLogin or handleForgotPassword finds the count below the cap.
Begin(r) ==
  /\ kind # "register_ok"
  /\ Goto(r, "idle", "act")
  /\ BelowCap
  /\ UNCHANGED <<role, lock, email, grade, kind, log, done>>

\* Faulty variant: an attempt at a locked account is one more failure.
TurnAwayRecorded(r) ==
  /\ at[r] = "idle" /\ CountRecentAuthEvents >= Cap
  /\ log' = [log EXCEPT ![0] = IF @ < Cap THEN @ + 1 ELSE @]
  /\ UNCHANGED <<role, lock, requestVars, kind, done, faults>>

\* The cap is reached: at most a login_locked is logged, which nothing counts.
TurnAway(r) ==
  /\ at[r] = "idle" /\ CountRecentAuthEvents >= Cap
  /\ UNCHANGED registerVars

\* The password or the second factor is wrong, whether or not there is an account;
\* or SetResetToken replaces the token of the account there is.
DoFollowed(r) ==
  /\ Goto(r, "act", "log")
  /\ kind = "reset_request" => role[Address] # "none"
  /\ Act
  /\ UNCHANGED <<role, lock, email, grade, kind, log, faults>>

\* The password is right, there is no account to reset, or the database fails.
DoOther(r) ==
  /\ Goto(r, "act", "idle")
  /\ UNCHANGED <<role, lock, email, grade, auditVars>>

LogAuthEvent(r) ==
  /\ Goto(r, "log", "idle")
  /\ log' = [log EXCEPT ![0] = @ + 1]
  /\ UNCHANGED <<role, lock, email, grade, kind, done, faults>>

\* The row is not written: the insertion fails, or the process dies before it.
LogLost(r) ==
  /\ Goto(r, "log", "idle")
  /\ Fault
  /\ UNCHANGED <<role, lock, email, grade, kind, log, done>>

-----------------------------------------------------------------------------
(* Time and the purges                                                     *)

Older(counts) == [a \in DOMAIN counts |-> IF a = 0 THEN 0 ELSE counts[a - 1]]

\* A row past the last age is of no interest; PurgeOldAuditLogs deletes it later.
RegisterTick ==
  /\ log' = Older(log) /\ done' = Older(done)
  /\ UNCHANGED <<role, lock, requestVars, kind, faults>>

\* Faulty variant: the account's history goes wholesale.
PurgeAuthAuditWholly ==
  /\ log' = [a \in AuditAges |-> 0]
  /\ UNCHANGED <<role, lock, requestVars, kind, done, faults>>

\* The account clears its history, at any time and as often as it likes.
PurgeAuthAudit ==
  /\ log' = [a \in AuditAges |-> IF a < Holdback THEN log[a] ELSE 0]
  /\ UNCHANGED <<role, lock, requestVars, kind, done, faults>>

-----------------------------------------------------------------------------
RegisterNext ==
  \/ \E r \in Client :
       \/ \E e \in Email : handleRegister(r, e)
       \/ DecideRole(r) \/ InsertUser(r) \/ RegisterFails(r)
       \/ Begin(r) \/ TurnAway(r) \/ DoFollowed(r) \/ DoOther(r)
       \/ LogAuthEvent(r) \/ LogLost(r)
  \/ \E e \in Email : DeleteAccount(e)
  \/ RegisterTick \/ PurgeAuthAudit

RegisterSpec == RegisterInit /\ [][RegisterNext]_registerVars

\* Only the clock has to go on.
FairRegisterSpec == RegisterSpec /\ WF_registerVars(RegisterTick)

-----------------------------------------------------------------------------
TypeOK ==
  /\ role \in [Email -> Role] /\ lock \in Client \cup {"free"}
  /\ at \in [Client -> PC] /\ email \in [Client -> Email] /\ grade \in [Client -> Role \ {"none"}]
  /\ kind \in Kind /\ log \in [AuditAges -> Nat] /\ done \in [0 .. Span - 1 -> Nat] /\ faults \in Nat

\* However many instances register however many configured addresses at the same
\* time, there is never a second administrator.
AtMostOneAdmin ==
  \A e, f \in Email : role[e] = "admin" /\ role[f] = "admin" => e = f

\* Wrong passwords at one account's sign-in, or mails to one address, in any window:
\* Cap, one more for every other request that counted at the same time, and one
\* for every fault.  Clearing the history between two attempts gains nothing.
AttemptsBounded == Recent(done) <= Cap + (Cardinality(Client) - 1) + faults

\* A locked account opens again, also when the attempts do not stop.
LockoutEnds == []<>(CountRecentAuthEvents < Cap)
=============================================================================

---------------------------- MODULE DomainLocks -----------------------------
(***************************************************************************)
(* The transactions of EnqueueURL, SaveEdge, AddBlacklist and              *)
(* DeleteBlacklist, statement by statement, under READ COMMITTED: each     *)
(* reads what others have committed, and its own writes show at commit.    *)
(* They exclude each other with an advisory lock on the hash of the domain *)
(* and, for EnqueueURL, a second one on the account.                       *)
(***************************************************************************)
EXTENDS Admission, FiniteSets

CONSTANTS
  User, Owner,  \* accounts, and the account of each node
  LockKey, KeyOf, \* advisory lock keys, and hashtext of each domain (may collide)
  Tx,           \* database sessions running these transactions
  Free,         \* the holder of a free lock
  MaxPending    \* cap of EnqueueURL on an account's pending rows; 0 disables it

ASSUME LockAssumption ==
  /\ Owner \in [Node -> User]
  /\ KeyOf \in [Host -> LockKey]
  /\ Free \notin Tx
  /\ MaxPending \in Nat
  /\ IsFiniteSet(Node)

VARIABLES
  phase,    \* where each transaction is
  op,       \* "enqueue", "link", "block" or "unblock"
  node,     \* the node of an enqueue or a link
  host,     \* the domain of the transaction
  seen,     \* the rows an UPDATE has locked and will change at commit
  domLock,  \* holder of each advisory domain lock
  userLock, \* holder of each account's quota lock
  crowded   \* ghost: pending rows came from elsewhere since the transaction counted

lockVars == <<domLock, userLock>>
txVars == <<phase, op, node, host, seen>>
lockingVars == <<status, blacklist, hostless, phase, op, node, host, seen,
                 domLock, userLock, crowded>>

Phase == {"idle", "lock", "read", "quota", "count", "commit"}
Op == {"enqueue", "link", "block", "unblock"}

PendingOf(u) == {n \in Node : Owner[n] = u /\ status[n] = "pending"}

LocksInit ==
  /\ AdmissionInit
  /\ phase = [t \in Tx |-> "idle"]
  /\ op = [t \in Tx |-> "enqueue"]
  /\ \E n \in Node : /\ n = CHOOSE x \in Node : TRUE
                     /\ node = [t \in Tx |-> n] /\ host = [t \in Tx |-> HostOf[n]]
  /\ seen = [t \in Tx |-> {}]
  /\ domLock = [k \in LockKey |-> Free]
  /\ userLock = [u \in User |-> Free]
  /\ crowded = [t \in Tx |-> "no"]

-----------------------------------------------------------------------------
\* The submissions that have counted the rows of account u.
Counted(u) ==
  {t \in Tx : phase[t] = "commit" /\ op[t] = "enqueue" /\ Owner[node[t]] = u}

\* Rows that come to the queue of an account by another way than a submission end
\* the guarantee of those who have counted.
Crowd(T) ==
  crowded' = [t \in Tx |-> IF phase'[t] # "commit" THEN "no"
                           ELSE IF t \in T THEN "yes" ELSE crowded[t]]

\* A session between two transactions remembers nothing of the last.
Cleared(t) ==
  /\ phase' = [phase EXCEPT ![t] = "idle"]
  /\ seen' = [seen EXCEPT ![t] = {}]
  /\ op' = [op EXCEPT ![t] = "enqueue"]
  /\ \E n \in Node : /\ n = CHOOSE x \in Node : TRUE
                     /\ node' = [node EXCEPT ![t] = n]
                     /\ host' = [host EXCEPT ![t] = HostOf[n]]

\* Faulty variant: session-scoped locks, which outlive their transaction.
EndKeepingLocks(t) == Cleared(t) /\ UNCHANGED <<domLock, userLock>>

\* COMMIT and ROLLBACK release the transaction-scoped advisory locks.
End(t) ==
  /\ Cleared(t)
  /\ domLock' = [k \in LockKey |-> IF domLock[k] = t THEN Free ELSE domLock[k]]
  /\ userLock' = [u \in User |-> IF userLock[u] = t THEN Free ELSE userLock[u]]

Proceed(t, from, to) ==
  /\ phase[t] = from
  /\ phase' = [phase EXCEPT ![t] = to]

BeginTx(t) ==
  /\ Proceed(t, "idle", "lock")
  /\ \E n \in Node, o \in Op :
       /\ op' = [op EXCEPT ![t] = o]
       /\ node' = [node EXCEPT ![t] = n]
       /\ host' = [host EXCEPT ![t] = HostOf[n]]
  /\ UNCHANGED <<admissionVars, seen, lockVars, crowded>>

\* Faulty variant: the blacklist is read without the domain's lock.
LockDomainSkipped(t) ==
  /\ Proceed(t, "lock", "read")
  /\ UNCHANGED <<admissionVars, op, node, host, seen, lockVars, crowded>>

\* lockOnionDomain
LockDomain(t) ==
  /\ Proceed(t, "lock", "read")
  /\ domLock[KeyOf[host[t]]] = Free
  /\ domLock' = [domLock EXCEPT ![KeyOf[host[t]]] = t]
  /\ UNCHANGED <<admissionVars, op, node, host, seen, userLock, crowded>>

\* domainBlacklistedTx of an enqueue or a link on a domain that is not listed
ReadBlacklist(t) ==
  /\ op[t] \in {"enqueue", "link"}
  /\ host[t] \notin blacklist
  /\ Proceed(t, "read", IF op[t] = "enqueue" /\ MaxPending > 0 THEN "quota" ELSE "commit")
  /\ UNCHANGED <<admissionVars, op, node, host, seen, lockVars, crowded>>

\* ... and on a listed one: ErrBlacklisted, or an edge without a node.
RefuseListed(t) ==
  /\ phase[t] = "read"
  /\ op[t] \in {"enqueue", "link"}
  /\ host[t] \in blacklist
  /\ End(t)
  /\ UNCHANGED <<admissionVars, crowded>>

\* Faulty variant: the count is taken without the account's lock.
LockQuotaSkipped(t) ==
  /\ Proceed(t, "quota", "count")
  /\ UNCHANGED <<admissionVars, op, node, host, seen, lockVars, crowded>>

\* lockUserQuota
LockQuota(t) ==
  /\ Proceed(t, "quota", "count")
  /\ userLock[Owner[node[t]]] = Free
  /\ userLock' = [userLock EXCEPT ![Owner[node[t]]] = t]
  /\ UNCHANGED <<admissionVars, op, node, host, seen, domLock, crowded>>

\* SELECT COUNT(*) of the account's pending rows leaves room ...
CountPending(t) ==
  /\ Proceed(t, "count", "commit")
  /\ Cardinality(PendingOf(Owner[node[t]])) < MaxPending
  /\ UNCHANGED <<admissionVars, op, node, host, seen, lockVars, crowded>>

\* ... or not: ErrQueueQuotaExceeded.
RefuseFull(t) ==
  /\ phase[t] = "count"
  /\ Cardinality(PendingOf(Owner[node[t]])) >= MaxPending
  /\ End(t)
  /\ UNCHANGED <<admissionVars, crowded>>

\* INSERT ... ON CONFLICT and COMMIT
CommitInsert(t) ==
  /\ phase[t] = "commit"
  /\ op[t] \in {"enqueue", "link"}
  /\ status' = IF status[node[t]] = "absent"
               THEN Setting({node[t]}, "pending") ELSE status
  /\ End(t)
  /\ Crowd(IF op[t] = "link" THEN Counted(Owner[node[t]]) ELSE {})
  /\ UNCHANGED <<blacklist, hostless>>

\* AddBlacklist: the UPDATE locks the rows it will change.
BlockRows(t) ==
  /\ op[t] = "block"
  /\ Proceed(t, "read", "commit")
  /\ seen' = [seen EXCEPT ![t] = Unblocked(host[t])]
  /\ UNCHANGED <<admissionVars, op, node, host, lockVars, crowded>>

CommitBlock(t) ==
  /\ phase[t] = "commit"
  /\ op[t] = "block"
  /\ blacklist' = blacklist \cup {host[t]}
  /\ status' = Setting(seen[t], "blocked")
  /\ End(t)
  /\ UNCHANGED <<hostless, crowded>>

\* DeleteBlacklist: nothing to do on an unlisted domain, else the same way back.
NotListed(t) ==
  /\ phase[t] = "read"
  /\ op[t] = "unblock"
  /\ host[t] \notin blacklist
  /\ End(t)
  /\ UNCHANGED <<admissionVars, crowded>>

UnblockRows(t) ==
  /\ op[t] = "unblock"
  /\ host[t] \in blacklist
  /\ Proceed(t, "read", "commit")
  /\ seen' = [seen EXCEPT ![t] = BlockedOn(host[t])]
  /\ UNCHANGED <<admissionVars, op, node, host, lockVars, crowded>>

CommitUnblock(t) ==
  /\ phase[t] = "commit"
  /\ op[t] = "unblock"
  /\ blacklist' = blacklist \ {host[t]}
  /\ status' = Setting(seen[t], "pending")
  /\ End(t)
  /\ Crowd(UNION {Counted(u) : u \in User})
  /\ UNCHANGED hostless

\* A statement fails or the connection is lost: deferred Rollback.
Abort(t) ==
  /\ phase[t] # "idle"
  /\ End(t) /\ Crowd({})
  /\ UNCHANGED admissionVars

-----------------------------------------------------------------------------
\* The rest of the system waits for rows that an UPDATE has locked.
Unlocked(n) == \A t \in Tx : n \notin seen[t]

Crawl(n) ==
  /\ Unlocked(n)
  /\ UNCHANGED <<txVars, lockVars>>
  /\ \/ Work(n) /\ UNCHANGED crowded
     \/ Return(n) /\ Crowd(Counted(Owner[n]))
     \/ (Recreate(n) \/ Delete(n)) /\ UNCHANGED crowded

TxStep(t) ==
  \/ LockDomain(t) \/ ReadBlacklist(t) \/ RefuseListed(t) \/ LockQuota(t)
  \/ CountPending(t) \/ RefuseFull(t) \/ CommitInsert(t)
  \/ BlockRows(t) \/ CommitBlock(t)
  \/ NotListed(t) \/ UnblockRows(t) \/ CommitUnblock(t)

LocksNext ==
  \/ \E t \in Tx : BeginTx(t) \/ TxStep(t) \/ Abort(t)
  \/ \E n \in Node : Crawl(n)

LocksSpec == LocksInit /\ [][LocksNext]_lockingVars

\* Sessions run, and PostgreSQL hands a released lock to whoever waits.
FairSpec == LocksSpec /\ \A t \in Tx : SF_lockingVars(TxStep(t))

-----------------------------------------------------------------------------
LocksTypeOK ==
  /\ status \in [Node -> {"absent", "pending", "busy", "blocked"}]
  /\ blacklist \subseteq Host /\ hostless \subseteq Node
  /\ phase \in [Tx -> Phase]
  /\ op \in [Tx -> Op]
  /\ node \in [Tx -> Node]
  /\ host \in [Tx -> Host]
  /\ seen \in [Tx -> SUBSET Node]
  /\ domLock \in [LockKey -> Tx \cup {Free}]
  /\ userLock \in [User -> Tx \cup {Free}]
  /\ crowded \in [Tx -> {"yes", "no"}]

\* A submission that has found room still has it when it commits, however many
\* other submissions run at the same time for other domains: the count is not
\* stale, unless rows came to the queue by another way than submission.
RoomStaysRoom ==
  \A t \in Tx :
    phase[t] = "commit" /\ op[t] = "enqueue" /\ MaxPending > 0 /\ crowded[t] = "no"
    => Cardinality(PendingOf(Owner[node[t]])) < MaxPending

\* The transactions implement the atomic operations of Admission: no submission
\* or link slips past a domain being listed, and none is lost.
AtomicAdmission == AdmissionSpec

\* Every transaction ends: the locks are always taken domain first, account
\* second, so waiting for them never closes a circle.
TxEnds == \A t \in Tx : phase[t] # "idle" ~> phase[t] = "idle"
=============================================================================

-------------------------- MODULE DomainLocksProofs -------------------------
(***************************************************************************)
(* The advisory locks make the queue's transactions atomic, for any number *)
(* of sessions, nodes, domains and accounts and however domains hash.      *)
(***************************************************************************)
EXTENDS DomainLocks, FiniteSetTheorems, TLAPS

USE HostAssumption, LockAssumption

\* Who is past the lock statement holds the domain's lock, and a counted
\* submission the account's.
LocksHeld ==
  \A t \in Tx :
    /\ host[t] = HostOf[node[t]]
    /\ phase[t] \in {"read", "quota", "count", "commit"} => domLock[KeyOf[host[t]]] = t
    /\ phase[t] \in {"quota", "count"} => op[t] = "enqueue" /\ MaxPending > 0
    /\ phase[t] \in {"count", "commit"} /\ op[t] = "enqueue" /\ MaxPending > 0
         => userLock[Owner[node[t]]] = t
    /\ phase[t] # "commit" => seen[t] = {}

\* A row is 'blocked' only while its domain is listed.
BlockedListed == \A n \in Node : status[n] = "blocked" => HostOf[n] \in blacklist

\* What a transaction has read is still so while it holds the lock, but for rows
\* that come back from 'blocked' while their domain is being listed again.
ReadsValid ==
  \A t \in Tx :
    /\ phase[t] \in {"quota", "count", "commit"} /\ op[t] \in {"enqueue", "link"}
         => host[t] \notin blacklist
    /\ phase[t] = "commit" /\ op[t] = "block"
         => /\ seen[t] \subseteq Unblocked(host[t])
            /\ host[t] \notin blacklist => seen[t] = Unblocked(host[t])
    /\ phase[t] = "commit" /\ op[t] = "unblock"
         => host[t] \in blacklist /\ seen[t] = BlockedOn(host[t])
    /\ phase[t] = "commit" /\ op[t] \in {"enqueue", "link"} => seen[t] = {}

LEMMA TypeInit == LocksInit => LocksTypeOK
<1> SUFFICES ASSUME LocksInit PROVE LocksTypeOK
  OBVIOUS
<1>1. PICK n \in Node : node = [t \in Tx |-> n] /\ host = [t \in Tx |-> HostOf[n]]
  BY DEF LocksInit
<1> QED
  BY <1>1 DEF LocksInit, AdmissionInit, LocksTypeOK, Phase, Op

LEMMA TypeStep == LocksTypeOK /\ [LocksNext]_lockingVars => LocksTypeOK'
<1> SUFFICES ASSUME LocksTypeOK, [LocksNext]_lockingVars PROVE LocksTypeOK'
  OBVIOUS
<1> USE DEF LocksTypeOK, Phase, Op, Proceed, lockVars, txVars, admissionVars, Setting, Crowd, Counted
<1>0. ASSUME NEW t \in Tx, End(t)
      PROVE  /\ phase' \in [Tx -> Phase] /\ seen' \in [Tx -> SUBSET Node]
             /\ domLock' \in [LockKey -> Tx \cup {Free}]
             /\ userLock' \in [User -> Tx \cup {Free}]
             /\ op' \in [Tx -> Op] /\ node' \in [Tx -> Node] /\ host' \in [Tx -> Host]
  BY <1>0 DEF End, Cleared
<1>1. ASSUME NEW t \in Tx, BeginTx(t) PROVE LocksTypeOK'
  BY <1>1 DEF BeginTx
<1>2. ASSUME NEW t \in Tx, LockDomain(t) PROVE LocksTypeOK'
  BY <1>2 DEF LockDomain
<1>3. ASSUME NEW t \in Tx, ReadBlacklist(t) PROVE LocksTypeOK'
  BY <1>3 DEF ReadBlacklist
<1>4. ASSUME NEW t \in Tx, RefuseListed(t) \/ RefuseFull(t) \/ NotListed(t) \/ Abort(t)
      PROVE LocksTypeOK'
  BY <1>0, <1>4 DEF RefuseListed, RefuseFull, NotListed, Abort
<1>5. ASSUME NEW t \in Tx, LockQuota(t) PROVE LocksTypeOK'
  BY <1>5 DEF LockQuota
<1>6. ASSUME NEW t \in Tx, CountPending(t) PROVE LocksTypeOK'
  BY <1>6 DEF CountPending
<1>7. ASSUME NEW t \in Tx, CommitInsert(t) PROVE LocksTypeOK'
  BY <1>0, <1>7 DEF CommitInsert
<1>8. ASSUME NEW t \in Tx, BlockRows(t) \/ UnblockRows(t) PROVE LocksTypeOK'
  <2>1. Unblocked(host[t]) \in SUBSET Node /\ BlockedOn(host[t]) \in SUBSET Node
    BY DEF Unblocked, BlockedOn
  <2>2. \E S \in SUBSET Node : seen' = [seen EXCEPT ![t] = S]
    BY <1>8, <2>1 DEF BlockRows, UnblockRows
  <2>3. seen' \in [Tx -> SUBSET Node]
    BY <2>2
  <2> QED
    BY <1>8, <2>3 DEF BlockRows, UnblockRows
<1>9. ASSUME NEW t \in Tx, CommitBlock(t) \/ CommitUnblock(t) PROVE LocksTypeOK'
  BY <1>0, <1>9 DEF CommitBlock, CommitUnblock
<1>10. ASSUME NEW n \in Node, Crawl(n) PROVE LocksTypeOK'
  BY <1>10 DEF Crawl, Work, Return, Recreate, Delete
<1>11. CASE UNCHANGED lockingVars
  BY <1>11 DEF lockingVars
<1> QED
  BY <1>1, <1>2, <1>3, <1>4, <1>5, <1>6, <1>7, <1>8, <1>9, <1>10, <1>11
  DEF LocksNext, TxStep

THEOREM TypeCorrect == LocksSpec => []LocksTypeOK
  BY TypeInit, TypeStep, PTL DEF LocksSpec

-----------------------------------------------------------------------------
LEMMA LocksStep == LocksTypeOK /\ LocksHeld /\ [LocksNext]_lockingVars => LocksHeld'
<1> SUFFICES ASSUME LocksTypeOK, LocksHeld, [LocksNext]_lockingVars PROVE LocksHeld'
  OBVIOUS
<1> USE DEF LocksTypeOK, Phase, Op, Proceed, lockVars, txVars, admissionVars, LocksHeld
<1>0. ASSUME NEW t \in Tx, End(t) PROVE LocksHeld'
  BY <1>0 DEF End, Cleared
<1>1. ASSUME NEW t \in Tx, BeginTx(t) PROVE LocksHeld'
  BY <1>1 DEF BeginTx
<1>2. ASSUME NEW t \in Tx, LockDomain(t) PROVE LocksHeld'
  BY <1>2 DEF LockDomain
<1>3. ASSUME NEW t \in Tx, ReadBlacklist(t) PROVE LocksHeld'
  BY <1>3 DEF ReadBlacklist
<1>4. ASSUME NEW t \in Tx, LockQuota(t) PROVE LocksHeld'
  BY <1>4 DEF LockQuota
<1>5. ASSUME NEW t \in Tx, CountPending(t) PROVE LocksHeld'
  BY <1>5 DEF CountPending
<1>6. ASSUME NEW t \in Tx, BlockRows(t) \/ UnblockRows(t) PROVE LocksHeld'
  BY <1>6 DEF BlockRows, UnblockRows
<1>7. ASSUME NEW n \in Node, Crawl(n) PROVE LocksHeld'
  BY <1>7 DEF Crawl
<1>8. CASE UNCHANGED lockingVars
  BY <1>8 DEF lockingVars
<1>9. ASSUME NEW t \in Tx,
             \/ RefuseListed(t) \/ RefuseFull(t) \/ NotListed(t) \/ Abort(t)
             \/ CommitInsert(t) \/ CommitBlock(t) \/ CommitUnblock(t)
      PROVE LocksHeld'
  <2>1. End(t)
    BY <1>9 DEF RefuseListed, RefuseFull, NotListed, Abort, CommitInsert, CommitBlock,
                CommitUnblock
  <2> QED
    BY <1>0, <2>1
<1> QED
  BY <1>1, <1>2, <1>3, <1>4, <1>5, <1>6, <1>7, <1>8, <1>9 DEF LocksNext, TxStep

\* Listing blocks under the lock of the domain, unlisting frees every blocked row.
LEMMA BlockedStep ==
  ASSUME LocksTypeOK, LocksHeld, ReadsValid, BlockedListed, [LocksNext]_lockingVars
  PROVE  BlockedListed'
<1> USE DEF LocksTypeOK, admissionVars, BlockedListed, Setting
<1>1. ASSUME NEW t \in Tx, CommitInsert(t) PROVE BlockedListed'
  BY <1>1 DEF CommitInsert
<1>2. ASSUME NEW t \in Tx, CommitBlock(t) PROVE BlockedListed'
  BY <1>2 DEF CommitBlock, ReadsValid, Unblocked
<1>3. ASSUME NEW t \in Tx, CommitUnblock(t) PROVE BlockedListed'
  BY <1>3 DEF CommitUnblock, ReadsValid, BlockedOn
<1>4. ASSUME NEW n \in Node, Crawl(n) PROVE BlockedListed'
  BY <1>4 DEF Crawl, Work, Return, Recreate, Delete
<1>5. ASSUME NEW t \in Tx,
             \/ BeginTx(t) \/ LockDomain(t) \/ ReadBlacklist(t) \/ RefuseListed(t)
             \/ LockQuota(t) \/ CountPending(t) \/ RefuseFull(t) \/ BlockRows(t)
             \/ NotListed(t) \/ UnblockRows(t) \/ Abort(t)
      PROVE BlockedListed'
  BY <1>5 DEF BeginTx, LockDomain, ReadBlacklist, RefuseListed, LockQuota, CountPending,
              RefuseFull, BlockRows, NotListed, UnblockRows, Abort
<1>6. CASE UNCHANGED lockingVars
  BY <1>6 DEF lockingVars
<1> QED
  BY <1>1, <1>2, <1>3, <1>4, <1>5, <1>6 DEF LocksNext, TxStep

LEMMA ReadsStep ==
  ASSUME LocksTypeOK, LocksHeld, ReadsValid, BlockedListed, [LocksNext]_lockingVars
  PROVE  ReadsValid'
<1> USE DEF LocksTypeOK, Phase, Op, Proceed, lockVars, txVars, admissionVars,
            ReadsValid, Unblocked, BlockedOn
<1>1. ASSUME NEW t \in Tx, BeginTx(t) \/ LockDomain(t) \/ LockQuota(t) \/ CountPending(t)
      PROVE ReadsValid'
  BY <1>1 DEF BeginTx, LockDomain, LockQuota, CountPending, LocksHeld
<1>2. ASSUME NEW t \in Tx, ReadBlacklist(t) PROVE ReadsValid'
  BY <1>2 DEF ReadBlacklist, LocksHeld
<1>3. ASSUME NEW t \in Tx, RefuseListed(t) \/ RefuseFull(t) \/ NotListed(t) \/ Abort(t)
      PROVE ReadsValid'
  BY <1>3 DEF RefuseListed, RefuseFull, NotListed, Abort, End, Cleared, Crowd
<1>4. ASSUME NEW t \in Tx, BlockRows(t) \/ UnblockRows(t) PROVE ReadsValid'
  BY <1>4 DEF BlockRows, UnblockRows
\* Two transactions past the lock statement work on different domains.
<1>5. ASSUME NEW t \in Tx, NEW x \in Tx, x # t, phase[t] = "commit",
             phase[x] \in {"read", "quota", "count", "commit"}
      PROVE host[x] # host[t]
  BY <1>5 DEF LocksHeld
<1>6. ASSUME NEW t \in Tx, CommitInsert(t) PROVE ReadsValid'
  BY <1>5, <1>6 DEF CommitInsert, End, Cleared, Setting, LocksHeld
<1>7. ASSUME NEW t \in Tx, CommitBlock(t) PROVE ReadsValid'
  BY <1>5, <1>7 DEF CommitBlock, End, Cleared, Setting, LocksHeld
<1>8. ASSUME NEW t \in Tx, CommitUnblock(t) PROVE ReadsValid'
  BY <1>5, <1>8 DEF CommitUnblock, End, Cleared, Setting, LocksHeld
<1>9. ASSUME NEW n \in Node, Crawl(n) PROVE ReadsValid'
  BY <1>9 DEF Crawl, Unlocked, Work, Return, Recreate, Delete, Setting, LocksHeld,
              BlockedListed
<1>10. CASE UNCHANGED lockingVars
  BY <1>10 DEF lockingVars
<1> QED
  BY <1>1, <1>2, <1>3, <1>4, <1>6, <1>7, <1>8, <1>9, <1>10 DEF LocksNext, TxStep

LEMMA ReadsInit == LocksInit => LocksHeld /\ ReadsValid /\ BlockedListed
<1> SUFFICES ASSUME LocksInit PROVE LocksHeld /\ ReadsValid /\ BlockedListed
  OBVIOUS
<1>1. PICK n \in Node : node = [t \in Tx |-> n] /\ host = [t \in Tx |-> HostOf[n]]
  BY DEF LocksInit
<1> QED
  BY <1>1 DEF LocksInit, AdmissionInit, LocksHeld, ReadsValid, BlockedListed

Inv == LocksTypeOK /\ LocksHeld /\ ReadsValid /\ BlockedListed

\* Locks are held while their transaction uses what it read under them.
THEOREM LocksCorrect == LocksSpec => []Inv
<1>1. LocksInit => Inv
  BY TypeInit, ReadsInit DEF Inv
<1>2. Inv /\ [LocksNext]_lockingVars => Inv'
  BY TypeStep, LocksStep, ReadsStep, BlockedStep DEF Inv
<1> QED
  BY <1>1, <1>2, PTL DEF LocksSpec

-----------------------------------------------------------------------------
\* The transactions of EnqueueURL, SaveEdge, AddBlacklist and DeleteBlacklist
\* implement the atomic operations of Admission: each takes effect at commit.
THEOREM LocksImplementAdmission == LocksSpec => AtomicAdmission
<1>1. LocksInit => AdmissionInit
  BY DEF LocksInit
<1>2. Inv /\ [LocksNext]_lockingVars => [AdmissionNext]_admissionVars
  <2> SUFFICES ASSUME Inv, [LocksNext]_lockingVars PROVE [AdmissionNext]_admissionVars
    OBVIOUS
  <2> USE DEF Inv, LocksTypeOK, admissionVars
  <2>1. ASSUME NEW t \in Tx, CommitInsert(t)
        PROVE Admit(node[t]) \/ UNCHANGED admissionVars
    BY <2>1 DEF CommitInsert, Admit, LocksHeld, ReadsValid
  <2>2. ASSUME NEW t \in Tx, CommitBlock(t) PROVE Block(host[t])
    BY <2>2 DEF CommitBlock, Block, ReadsValid
  <2>3. ASSUME NEW t \in Tx, CommitUnblock(t) PROVE Unblock(host[t])
    BY <2>3 DEF CommitUnblock, Unblock, ReadsValid
  <2>4. ASSUME NEW n \in Node, Crawl(n)
        PROVE Work(n) \/ Return(n) \/ Recreate(n) \/ Delete(n)
    BY <2>4 DEF Crawl
  <2>5. ASSUME NEW t \in Tx,
               \/ BeginTx(t) \/ LockDomain(t) \/ ReadBlacklist(t) \/ RefuseListed(t)
               \/ LockQuota(t) \/ CountPending(t) \/ RefuseFull(t) \/ BlockRows(t)
               \/ NotListed(t) \/ UnblockRows(t) \/ Abort(t)
        PROVE UNCHANGED admissionVars
    BY <2>5 DEF BeginTx, LockDomain, ReadBlacklist, RefuseListed, LockQuota, CountPending,
                RefuseFull, BlockRows, NotListed, UnblockRows, Abort
  <2>6. CASE UNCHANGED lockingVars
    BY <2>6 DEF lockingVars
  <2> QED
    BY <2>1, <2>2, <2>3, <2>4, <2>5, <2>6 DEF LocksNext, TxStep, AdmissionNext
<1> QED
  BY <1>1, <1>2, LocksCorrect, PTL DEF LocksSpec, AtomicAdmission, AdmissionSpec

-----------------------------------------------------------------------------
LEMMA FewerPending ==
  ASSUME NEW S, NEW T, T \subseteq S, IsFiniteSet(S), Cardinality(S) < MaxPending
  PROVE  Cardinality(T) < MaxPending
<1>1. Cardinality(T) <= Cardinality(S) /\ IsFiniteSet(T)
  BY FS_Subset
<1>2. Cardinality(T) \in Nat /\ Cardinality(S) \in Nat
  BY <1>1, FS_CardinalityType
<1> QED
  BY <1>1, <1>2

LEMMA PendingFinite == \A u : IsFiniteSet(PendingOf(u))
<1> TAKE u
<1>1. PendingOf(u) \subseteq Node
  BY DEF PendingOf
<1> QED
  BY <1>1, FS_Subset

\* What one step does to a submission that has counted: either the account has
\* gained no pending row, or the ghost records that one came another way.
LEMMA RoomStep == Inv /\ RoomStaysRoom /\ [LocksNext]_lockingVars => RoomStaysRoom'
<1> SUFFICES ASSUME Inv, RoomStaysRoom, [LocksNext]_lockingVars, NEW x \in Tx,
                    phase'[x] = "commit", op'[x] = "enqueue", MaxPending > 0,
                    crowded'[x] = "no"
             PROVE  Cardinality({n \in Node : /\ Owner[n] = Owner[node'[x]]
                                              /\ status'[n] = "pending"}) < MaxPending
  BY DEF RoomStaysRoom, PendingOf
<1> DEFINE Mine == {n \in Node : Owner[n] = Owner[node'[x]] /\ status'[n] = "pending"}
           Kept == /\ phase[x] = "commit" /\ op[x] = "enqueue" /\ crowded[x] = "no"
                   /\ Mine \subseteq PendingOf(Owner[node[x]])
<1>1. CASE Kept
  <2>1. Cardinality(PendingOf(Owner[node[x]])) < MaxPending
    BY <1>1 DEF RoomStaysRoom
  <2> QED
    BY <1>1, <2>1, FewerPending, PendingFinite
<1>2. CASE CountPending(x)
  <2>1. Mine = PendingOf(Owner[node[x]])
    BY <1>2 DEF CountPending, PendingOf, admissionVars
  <2> QED
    BY <1>2, <2>1 DEF CountPending
<1>3. Kept \/ CountPending(x)
  <2> USE DEF Inv, LocksTypeOK, Phase, Op, Proceed, lockVars, txVars, admissionVars,
              PendingOf
  <2>1. ASSUME NEW t \in Tx,
               BeginTx(t) \/ LockDomain(t) \/ LockQuota(t) \/ BlockRows(t) \/ UnblockRows(t)
        PROVE Kept
    BY <2>1 DEF BeginTx, LockDomain, LockQuota, BlockRows, UnblockRows
  <2>2. ASSUME NEW t \in Tx, ReadBlacklist(t) PROVE Kept
    BY <2>2 DEF ReadBlacklist
  <2>3. ASSUME NEW t \in Tx, CountPending(t), t # x PROVE Kept
    BY <2>3 DEF CountPending
  <2>4. ASSUME NEW t \in Tx, RefuseListed(t) \/ RefuseFull(t) \/ NotListed(t) \/ Abort(t)
        PROVE Kept
    BY <2>4 DEF RefuseListed, RefuseFull, NotListed, Abort, End, Cleared, Crowd
  \* Another submission of the account would hold the account's lock.
  <2>5. ASSUME NEW t \in Tx, CommitInsert(t) PROVE Kept
    BY <2>5 DEF CommitInsert, End, Cleared, Setting, Crowd, Counted, LocksHeld
  <2>6. ASSUME NEW t \in Tx, CommitBlock(t) PROVE Kept
    BY <2>6 DEF CommitBlock, End, Cleared, Setting
  <2>7. ASSUME NEW t \in Tx, CommitUnblock(t) PROVE FALSE
    <3>1. x # t /\ phase[x] = "commit" /\ op[x] = "enqueue"
      BY <2>7 DEF CommitUnblock, End, Cleared
    <3>2. x \in Counted(Owner[node[x]]) /\ Owner[node[x]] \in User
      BY <3>1 DEF Counted
    <3>3. x \in UNION {Counted(u) : u \in User}
      BY <3>2
    <3>4. crowded'[x] = "yes"
      BY <2>7, <3>3 DEF CommitUnblock, Crowd
    <3> QED
      BY <3>4
  <2>8. ASSUME NEW n \in Node, Crawl(n) PROVE Kept
    BY <2>8 DEF Crawl, Work, Return, Recreate, Delete, Setting, Crowd, Counted
  <2>9. CASE UNCHANGED lockingVars
    BY <2>9 DEF lockingVars
  <2> QED
    BY <2>1, <2>2, <2>3, <2>4, <2>5, <2>6, <2>7, <2>8, <2>9 DEF LocksNext, TxStep
<1> QED
  BY <1>1, <1>2, <1>3

\* lockUserQuota keeps EnqueueURL's count valid until its insert commits,
\* whatever submissions for other domains run at the same time.
THEOREM QuotaCorrect == LocksSpec => []RoomStaysRoom
<1>1. LocksInit => RoomStaysRoom
  BY DEF LocksInit, RoomStaysRoom
<1> QED
  BY <1>1, RoomStep, LocksCorrect, PTL DEF LocksSpec
=============================================================================

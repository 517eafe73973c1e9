-------------------------- MODULE CrawlQueueProofs --------------------------
(***************************************************************************)
(* Theorems about CrawlQueue, for every set of nodes, hosts, accounts,     *)
(* workers and requests and every value of the limits.                     *)
(***************************************************************************)
EXTENDS CrawlQueue, TLAPS

USE QueueAssumption

\* The statements that touch a single row, and the reset of InitDB, turn rows
\* into rows.
LEMMA RowUpdates ==
  ASSUME TypeOK, NEW n \in Node
  PROVE  /\ FailNodeWithRetry(n) => row' \in [Node -> Row]
         /\ MarkRobotsBlocked(n) => row' \in [Node -> Row]
         /\ \A k \in {"upsert", "update"} : SaveNodeWrite(n, k) => row' \in [Node -> Row]
         /\ \A d \in 0..MaxDepth : LinkTarget(n, d) => row' \in [Node -> Row]
<1> USE DEF TypeOK, Row, Status, RetryCap, Put, Stamp, Saved, AtDepth
<1>1. FailNodeWithRetry(n) => row' \in [Node -> Row]
  BY DEF FailNodeWithRetry, Backoff
<1>2. MarkRobotsBlocked(n) => row' \in [Node -> Row]
  BY DEF MarkRobotsBlocked, Refused
<1>3. \A k \in {"upsert", "update"} : SaveNodeWrite(n, k) => row' \in [Node -> Row]
  BY DEF SaveNodeWrite, Exists
<1>4. \A d \in 0..MaxDepth : LinkTarget(n, d) => row' \in [Node -> Row]
  BY DEF LinkTarget, Fresh, NoRow, Exists
<1> QED BY <1>1, <1>2, <1>3, <1>4

LEMMA ResetIsRow == TypeOK /\ ResetCrawling => row' \in [Node -> Row]
  BY DEF ResetCrawling, TypeOK, Row, Status, Put

\* Deleting rows leaves rows, and edges between nodes.
LEMMA DeleteIsRow ==
  ASSUME TypeOK, NEW S, DeleteRows(S)
  PROVE  /\ row' \in [Node -> Row]
         /\ edges' \subseteq Node \X Node
         /\ raced' \subseteq Node
<1>1. row' \in [Node -> Row]
  BY DEF DeleteRows, NoRow, TypeOK, Row, Status, RetryCap
<1> QED BY <1>1 DEF DeleteRows, TypeOK

\* Type correctness, action by action.
LEMMA TypeStep == TypeOK /\ [Next]_vars => TypeOK'
<1> SUFFICES ASSUME TypeOK, [Next]_vars PROVE TypeOK'
  OBVIOUS
<1> USE DEF TypeOK, Job
<1>1. ASSUME NEW w \in Worker, GetNextPendingNode(w) PROVE TypeOK'
  BY <1>1 DEF GetNextPendingNode, Row, Status, Stamp, Claimed, Rows, Proc
<1>2. ASSUME NEW w \in Worker, Refuse(w) PROVE TypeOK'
  BY <1>2, RowUpdates DEF Refuse, Idle, Proc
<1>3. ASSUME NEW w \in Worker, ScrapeFails(w) PROVE TypeOK'
  BY <1>3, RowUpdates DEF ScrapeFails, Idle, Proc
<1>4. ASSUME NEW w \in Worker, OutcomeLost(w) PROVE TypeOK'
  BY <1>4 DEF OutcomeLost, Idle, Proc
<1>5. ASSUME NEW p \in Proc, ReadOldHash(p) PROVE TypeOK'
  BY <1>5 DEF ReadOldHash, At
<1>6. ASSUME NEW p \in Proc, SaveNode(p) PROVE TypeOK'
  <2>1. row' \in [Node -> Row]
    BY <1>6, RowUpdates DEF SaveNode
  <2> QED BY <1>6, <2>1 DEF SaveNode, Discovered, At
<1>7. ASSUME NEW p \in Proc, SaveNodeFails(p) PROVE TypeOK'
  <2>1. row' \in [Node -> Row]
    BY <1>7, RowUpdates DEF SaveNodeFails
  <2> QED BY <1>7, <2>1 DEF SaveNodeFails, Discovered, At
<1>8. ASSUME NEW p \in Proc, SaveEdge(p) PROVE TypeOK'
  <2>1. PICK t \in proc[p].todo :
          /\ proc' = [proc EXCEPT ![p] = At(proc[p], "linking", proc[p].todo \ {t})]
          /\ IF Exists(proc[p].job)
             THEN /\ LinkTarget(t, proc[p].depth + 1)
                  /\ edges' = edges \cup {<<proc[p].job, t>>}
             ELSE UNCHANGED <<row, edges>>
    BY <1>8 DEF SaveEdge
  <2>2. t \in Node /\ proc[p].depth + 1 \in 0..MaxDepth /\ proc[p].job \in Node
    BY <1>8, <2>1 DEF SaveEdge
  <2>3. row' \in [Node -> Row] /\ edges' \subseteq Node \X Node
    BY <2>1, <2>2, RowUpdates
  <2> QED BY <1>8, <2>1, <2>2, <2>3 DEF SaveEdge, At
<1>9. ASSUME NEW p \in Proc, Rest(p) PROVE TypeOK'
  BY <1>9 DEF Rest, Idle
<1>10. ASSUME NEW c \in Cli, CliStart(c) PROVE TypeOK'
  BY <1>10, ResetIsRow DEF CliStart, Claimed, Proc
<1>11. ASSUME NEW c \in Cli, CliFetchFails(c) PROVE TypeOK'
  BY <1>11 DEF CliFetchFails, Idle, Proc
<1>12. ASSUME NEW n \in Node, EnqueueURL(n) PROVE TypeOK'
  BY <1>12 DEF EnqueueURL, Fresh, Row, Status, RetryCap
<1>13. ASSUME NEW r \in Request, RequeueCheck(r) PROVE TypeOK'
  BY <1>13 DEF RequeueCheck
<1>14. ASSUME NEW r \in Request, RequeueWrite(r) PROVE TypeOK'
  BY <1>14 DEF RequeueWrite, Put, Row, Status
<1>15. ASSUME NEW h \in Host, AddBlacklist(h) PROVE TypeOK'
  BY <1>15 DEF AddBlacklist, Put, Row, Status
<1>16. ASSUME NEW h \in Host, DeleteBlacklist(h) PROVE TypeOK'
  BY <1>16 DEF DeleteBlacklist, Put, Row, Status, RetryCap
<1>17. ASSUME NEW u \in User, DeleteCrawlHistory(u) PROVE TypeOK'
  BY <1>17, DeleteIsRow DEF DeleteCrawlHistory
<1>18. CASE ResetStuckCrawling
  BY <1>18 DEF ResetStuckCrawling, Stamp, Row, Status
<1>19. CASE ReviveSelect
  BY <1>19 DEF ReviveSelect, Revivable, Rows
<1>20. CASE ReviveWrite
  BY <1>20 DEF ReviveWrite, Put, Row, Status, RetryCap
<1>21. CASE RetentionSelect
  BY <1>21 DEF RetentionSelect, OwnedBy
<1>22. CASE RetentionWrite
  BY <1>22, DeleteIsRow DEF RetentionWrite
<1>23. CASE Restart
  BY <1>23, ResetIsRow DEF Restart, Idle
<1>24. ASSUME NEW n \in Node, CrawlTimePasses(n) PROVE TypeOK'
  BY <1>24 DEF CrawlTimePasses, Put, Row, Status
<1>25. ASSUME NEW n \in Node, StuckLimitPasses(n) PROVE TypeOK'
  BY <1>25 DEF StuckLimitPasses, Stamp, Row, Status
<1>26. ASSUME NEW u \in User, PurgeStoredContent(u) PROVE TypeOK'
  BY <1>26 DEF PurgeStoredContent, Unhashed, Row, Status
<1>27. CASE UNCHANGED vars
  BY <1>27 DEF vars
<1> QED
  BY <1>1, <1>2, <1>3, <1>4, <1>5, <1>6, <1>7, <1>8, <1>9, <1>10, <1>11, <1>12,
     <1>13, <1>14, <1>15, <1>16, <1>17, <1>18, <1>19, <1>20, <1>21, <1>22, <1>23,
     <1>24, <1>25, <1>26, <1>27
  DEF Next, WorkerStep, SavingStep, CliStep, Sweep

LEMMA TypeInit == Init => TypeOK
  BY DEF Init, TypeOK, Row, Job, NoRow, Idle, Status, RetryCap

\* Spec keeps every variable in its type: no crawl goes deeper than MaxDepth,
\* whatever order claims, links, resubmissions and restarts come in.
THEOREM TypeCorrect == Spec => []TypeOK
  BY TypeInit, TypeStep, PTL DEF Spec

-----------------------------------------------------------------------------
\* A missing row has no host: what SaveNode's upsert brings back to life is a
\* row without one, which the host match of AddBlacklist cannot see.
AbsentIsEmpty == \A n \in Node : row[n].st = "absent" => row[n].host = "null"

\* The inductive invariant.  The two halves about the blacklist are stated
\* together with AbsentIsEmpty, which the case of a row that SaveNode creates
\* needs.
IInv == BlacklistCovers /\ BlockedHasReason /\ CrawlingHasStart /\ AbsentIsEmpty

\* A step that is quiet on a row: it neither blocks nor unblocks it, keeps its
\* host, creates it only without a host or on a domain that is not blacklisted,
\* and has it crawled only with a start time.
QuietOn(n) ==
  /\ row[n].st = "blocked" <=> row'[n].st = "blocked"
  /\ row[n].st # "absent" => row'[n].st # "absent" /\ row'[n].host = row[n].host
  /\ row[n].st = "absent" => \/ row'[n].host = "null"
                             \/ row'[n].st # "absent" /\ HostOf[n] \notin blacklist
  /\ row'[n].st = "crawling"
       => row'[n].started # "null" \/ (row[n].st = "crawling" /\ row'[n].started = row[n].started)

LEMMA QuietStep ==
  ASSUME IInv, UNCHANGED <<blacklist, raced>>, \A n \in Node : QuietOn(n)
  PROVE  IInv'
  BY DEF IInv, BlacklistCovers, BlockedHasReason, CrawlingHasStart, AbsentIsEmpty, QuietOn

\* The statements on one row, and the reset of InitDB, are quiet on every row.
LEMMA QuietStatements ==
  ASSUME TypeOK, AbsentIsEmpty, NEW n \in Node, NEW m \in Node
  PROVE  /\ FailNodeWithRetry(n) => QuietOn(m)
         /\ MarkRobotsBlocked(n) => QuietOn(m)
         /\ \A k \in {"upsert", "update"} : SaveNodeWrite(n, k) => QuietOn(m)
         /\ \A d \in Nat : LinkTarget(n, d) => QuietOn(m)
         /\ ResetCrawling => QuietOn(m)
         /\ UNCHANGED row => QuietOn(m)
<1> USE DEF TypeOK, AbsentIsEmpty, QuietOn, Put, Row
<1>1. FailNodeWithRetry(n) => QuietOn(m)
  BY DEF FailNodeWithRetry, Backoff
<1>2. MarkRobotsBlocked(n) => QuietOn(m)
  BY DEF MarkRobotsBlocked, Refused
<1>3. \A k \in {"upsert", "update"} : SaveNodeWrite(n, k) => QuietOn(m)
  BY DEF SaveNodeWrite, Saved, Exists
<1>4. \A d \in Nat : LinkTarget(n, d) => QuietOn(m)
  BY DEF LinkTarget, Fresh, AtDepth, Exists
<1>5. ResetCrawling => QuietOn(m)
  BY DEF ResetCrawling
<1>6. UNCHANGED row => QuietOn(m)
  OBVIOUS
<1> QED BY <1>1, <1>2, <1>3, <1>4, <1>5, <1>6

\* Deleted rows are empty, so deleting preserves the invariant.
LEMMA DeleteStep ==
  ASSUME IInv, NEW S, DeleteRows(S), UNCHANGED blacklist
  PROVE  IInv'
  BY DEF IInv, DeleteRows, NoRow, BlacklistCovers, BlockedHasReason,
         CrawlingHasStart, AbsentIsEmpty

LEMMA InvStep == TypeOK /\ IInv /\ [Next]_vars => IInv'
<1> SUFFICES ASSUME TypeOK, IInv, [Next]_vars PROVE IInv'
  OBVIOUS
<1> USE DEF TypeOK, Row
<1>a. AbsentIsEmpty
  BY DEF IInv
<1>1. ASSUME NEW w \in Worker, GetNextPendingNode(w) PROVE IInv'
  <2>1. \A n \in Node : QuietOn(n)
    BY <1>1 DEF GetNextPendingNode, Rows, Stamp, QuietOn, IInv, AbsentIsEmpty
  <2> QED BY <1>1, <2>1, QuietStep DEF GetNextPendingNode
<1>2. ASSUME NEW w \in Worker, Refuse(w) PROVE IInv'
  <2>1. proc[w].job \in Node
    BY <1>2 DEF Refuse, Proc
  <2> QED BY <1>2, <1>a, <2>1, QuietStatements, QuietStep DEF Refuse
<1>3. ASSUME NEW w \in Worker, ScrapeFails(w) PROVE IInv'
  <2>1. proc[w].job \in Node
    BY <1>3 DEF ScrapeFails, Proc
  <2> QED BY <1>3, <1>a, <2>1, QuietStatements, QuietStep DEF ScrapeFails
<1>4. ASSUME NEW p \in Proc, SaveNode(p) PROVE IInv'
  <2>1. proc[p].job \in Node /\ proc[p].pc \in {"upsert", "update"}
    BY <1>4 DEF SaveNode
  <2> QED BY <1>4, <1>a, <2>1, QuietStatements, QuietStep DEF SaveNode
<1>5. ASSUME NEW p \in Proc, SaveNodeFails(p) PROVE IInv'
  <2>1. proc[p].job \in Node
    BY <1>5 DEF SaveNodeFails
  <2> QED BY <1>5, <1>a, <2>1, QuietStatements, QuietStep DEF SaveNodeFails
<1>6. ASSUME NEW p \in Proc, SaveEdge(p) PROVE IInv'
  <2>1. PICK t \in proc[p].todo :
          IF Exists(proc[p].job) THEN LinkTarget(t, proc[p].depth + 1) ELSE UNCHANGED row
    BY <1>6 DEF SaveEdge
  <2>2. t \in Node /\ proc[p].depth + 1 \in Nat
    BY <2>1 DEF Job
  <2>3. \A m \in Node : QuietOn(m)
    BY <1>a, <2>1, <2>2, QuietStatements
  <2> QED BY <1>6, <2>3, QuietStep DEF SaveEdge
<1>7. ASSUME NEW c \in Cli, CliStart(c) PROVE IInv'
  BY <1>7, <1>a, QuietStatements, QuietStep DEF CliStart
<1>8. ASSUME NEW n \in Node, EnqueueURL(n) PROVE IInv'
  <2>1. \A m \in Node : QuietOn(m)
    BY <1>8 DEF EnqueueURL, Fresh, Exists, QuietOn, IInv, AbsentIsEmpty
  <2> QED BY <1>8, <2>1, QuietStep DEF EnqueueURL
<1>9. ASSUME NEW r \in Request, RequeueWrite(r) PROVE IInv'
  BY <1>9 DEF RequeueWrite, Put, Exists, IInv, BlacklistCovers, BlockedHasReason,
              CrawlingHasStart, AbsentIsEmpty
<1>10. ASSUME NEW h \in Host, AddBlacklist(h) PROVE IInv'
  BY <1>10 DEF AddBlacklist, OnHost, Put, IInv, BlacklistCovers, BlockedHasReason,
               CrawlingHasStart, AbsentIsEmpty
<1>11. ASSUME NEW h \in Host, DeleteBlacklist(h) PROVE IInv'
  BY <1>11 DEF DeleteBlacklist, OnHost, Put, IInv, BlacklistCovers, BlockedHasReason,
               CrawlingHasStart, AbsentIsEmpty
<1>12. ASSUME NEW u \in User, DeleteCrawlHistory(u) PROVE IInv'
  BY <1>12, DeleteStep DEF DeleteCrawlHistory
<1>13. CASE ResetStuckCrawling
  <2>1. \A n \in Node : QuietOn(n)
    BY <1>13 DEF ResetStuckCrawling, Rows, Stamp, QuietOn, IInv, AbsentIsEmpty
  <2> QED BY <1>13, <2>1, QuietStep DEF ResetStuckCrawling
<1>14. CASE ReviveWrite
  BY <1>14 DEF ReviveWrite, Rows, Put, Exists, IInv, BlacklistCovers,
               BlockedHasReason, CrawlingHasStart, AbsentIsEmpty
<1>15. CASE RetentionWrite
  BY <1>15, DeleteStep DEF RetentionWrite
<1>16. CASE Restart
  BY <1>16, <1>a, QuietStatements, QuietStep DEF Restart
<1>17. ASSUME NEW n \in Node, CrawlTimePasses(n) PROVE IInv'
  <2>1. \A m \in Node : QuietOn(m)
    BY <1>17 DEF CrawlTimePasses, Exists, Put, QuietOn, IInv, AbsentIsEmpty
  <2> QED BY <1>17, <2>1, QuietStep DEF CrawlTimePasses
<1>18. ASSUME NEW n \in Node, StuckLimitPasses(n) PROVE IInv'
  <2>1. \A m \in Node : QuietOn(m)
    BY <1>18 DEF StuckLimitPasses, Stamp, QuietOn, IInv, AbsentIsEmpty
  <2> QED BY <1>18, <2>1, QuietStep DEF StuckLimitPasses
<1>19. ASSUME NEW u \in User, PurgeStoredContent(u) PROVE IInv'
  <2>1. \A m \in Node : QuietOn(m)
    BY <1>19 DEF PurgeStoredContent, Unhashed, QuietOn, IInv, AbsentIsEmpty
  <2> QED BY <1>19, <2>1, QuietStep DEF PurgeStoredContent
<1>20. CASE UNCHANGED <<row, blacklist, raced>>
  BY <1>20, <1>a, QuietStatements, QuietStep
<1> QED
  BY <1>1, <1>2, <1>3, <1>4, <1>5, <1>6, <1>7, <1>8, <1>9, <1>10, <1>11, <1>12,
     <1>13, <1>14, <1>15, <1>16, <1>17, <1>18, <1>19, <1>20
  DEF Next, vars, WorkerStep, SavingStep, CliStep, Sweep, OutcomeLost, ReadOldHash,
      Rest, CliFetchFails, RequeueCheck, ReviveSelect, RetentionSelect

LEMMA InvInit == Init => IInv
  BY DEF Init, IInv, NoRow, BlacklistCovers, BlockedHasReason, CrawlingHasStart,
         AbsentIsEmpty

THEOREM InvCorrect == Spec => []IInv
  BY InvInit, InvStep, TypeCorrect, PTL DEF Spec

\* The blacklist reaches every row whose host is recorded, unless a status
\* check made before the block was acted on after it.
THEOREM BlacklistReachesQueue == Spec => []BlacklistCovers
  BY InvCorrect, PTL DEF IInv

\* Whatever is blocked can be found again when its domain is unblocked.
THEOREM NothingStranded == Spec => []BlockedHasReason
  BY InvCorrect, PTL DEF IInv

\* The stuck sweeper can see every row that is being crawled.
THEOREM SweeperSeesAll == Spec => []CrawlingHasStart
  BY InvCorrect, PTL DEF IInv

\* A step that takes a row out of 'blocked' has one of the three reasons that
\* BlockedSticky names.
ReleasedFor(n) ==
  row[n].st = "blocked" /\ row'[n].st \notin {"blocked", "absent"}
  => \/ HostOf[n] \in blacklist /\ HostOf[n] \notin blacklist'
     \/ \E r \in Request : req[r] = n /\ req'[r] = NoNode
     \/ n \in revive /\ revive' = {}

LEMMA StickyStep ==
  ASSUME TypeOK, IInv, Next, NEW n \in Node
  PROVE  ReleasedFor(n)
<1> USE DEF TypeOK, Row
<1>a. AbsentIsEmpty
  BY DEF IInv
<1>b. QuietOn(n) => ReleasedFor(n)
  BY DEF QuietOn, ReleasedFor
<1>1. ASSUME NEW w \in Worker, GetNextPendingNode(w) PROVE ReleasedFor(n)
  BY <1>1 DEF GetNextPendingNode, Rows, Stamp, ReleasedFor
<1>2. ASSUME NEW w \in Worker, Refuse(w) \/ ScrapeFails(w) PROVE ReleasedFor(n)
  <2>1. proc[w].job \in Node
    BY <1>2 DEF Refuse, ScrapeFails, Proc
  <2> QED BY <1>2, <1>a, <1>b, <2>1, QuietStatements DEF Refuse, ScrapeFails
<1>3. ASSUME NEW p \in Proc, SaveNode(p) \/ SaveNodeFails(p) PROVE ReleasedFor(n)
  <2>1. proc[p].job \in Node /\ proc[p].pc \in {"upsert", "update"}
    BY <1>3 DEF SaveNode, SaveNodeFails
  <2> QED BY <1>3, <1>a, <1>b, <2>1, QuietStatements DEF SaveNode, SaveNodeFails
<1>4. ASSUME NEW p \in Proc, SaveEdge(p) PROVE ReleasedFor(n)
  <2>1. PICK t \in proc[p].todo :
          IF Exists(proc[p].job) THEN LinkTarget(t, proc[p].depth + 1) ELSE UNCHANGED row
    BY <1>4 DEF SaveEdge
  <2>2. t \in Node /\ proc[p].depth + 1 \in Nat
    BY <2>1 DEF Job
  <2> QED BY <1>a, <1>b, <2>1, <2>2, QuietStatements
<1>5. ASSUME ResetCrawling PROVE ReleasedFor(n)
  BY <1>5, <1>a, <1>b, QuietStatements
<1>6. ASSUME NEW m \in Node, EnqueueURL(m) \/ CrawlTimePasses(m) \/ StuckLimitPasses(m)
      PROVE ReleasedFor(n)
  BY <1>6 DEF EnqueueURL, CrawlTimePasses, StuckLimitPasses, Fresh, Exists, Put, Stamp,
              ReleasedFor
<1>7. ASSUME NEW r \in Request, RequeueWrite(r) PROVE ReleasedFor(n)
  BY <1>7 DEF RequeueWrite, Put, ReleasedFor
<1>8. ASSUME NEW h \in Host, AddBlacklist(h) PROVE ReleasedFor(n)
  BY <1>8 DEF AddBlacklist, Put, ReleasedFor
<1>9. ASSUME NEW h \in Host, DeleteBlacklist(h) PROVE ReleasedFor(n)
  BY <1>9 DEF DeleteBlacklist, OnHost, Put, ReleasedFor
<1>10. ASSUME NEW S, DeleteRows(S) PROVE ReleasedFor(n)
  BY <1>10 DEF DeleteRows, NoRow, ReleasedFor
<1>11. CASE ResetStuckCrawling
  BY <1>11 DEF ResetStuckCrawling, Rows, Stamp, ReleasedFor
<1>12. CASE ReviveWrite
  BY <1>12 DEF ReviveWrite, Put, ReleasedFor
<1>13. ASSUME NEW u \in User, PurgeStoredContent(u) PROVE ReleasedFor(n)
  BY <1>13 DEF PurgeStoredContent, Unhashed, ReleasedFor
<1>14. CASE UNCHANGED row
  BY <1>14 DEF ReleasedFor
<1> QED
  BY <1>1, <1>2, <1>3, <1>4, <1>5, <1>6, <1>7, <1>8, <1>9, <1>10, <1>11, <1>12, <1>13,
     <1>14
  DEF Next, WorkerStep, SavingStep, CliStep, Sweep, OutcomeLost, ReadOldHash, Rest,
      CliStart, CliFetchFails, RequeueCheck, ReviveSelect, RetentionSelect,
      DeleteCrawlHistory, RetentionWrite, Restart

\* No late crawl result, reset, link or retry takes a row out of 'blocked'.
THEOREM BlockedIsSticky == Spec => BlockedSticky
<1>1. TypeOK /\ IInv /\ [Next]_vars => [\A n \in Node : ReleasedFor(n)]_vars
  BY StickyStep
<1>2. Spec => [][\A n \in Node : ReleasedFor(n)]_vars
  BY <1>1, TypeCorrect, InvCorrect, PTL DEF Spec
<1> QED BY <1>2 DEF BlockedSticky, ReleasedFor

-----------------------------------------------------------------------------
\* What a step may do to the depth of one row: the body of DepthOnlyShrinks.
NotDeeper(n) ==
  row[n].st # "absent" /\ row'[n].st # "absent" => row'[n].depth <= row[n].depth

\* The statements that several actions share: a failure, a refusal and a saved
\* result keep the depth, and a link found again only takes a smaller one.
LEMMA ShallowStatements ==
  ASSUME TypeOK, NEW n \in Node, NEW m \in Node
  PROVE  /\ FailNodeWithRetry(m) => NotDeeper(n)
         /\ MarkRobotsBlocked(m) => NotDeeper(n)
         /\ \A kind : SaveNodeWrite(m, kind) => NotDeeper(n)
         /\ \A d \in Nat : LinkTarget(m, d) => NotDeeper(n)
         /\ ResetCrawling => NotDeeper(n)
<1> USE DEF TypeOK, Row, NotDeeper
<1>1. FailNodeWithRetry(m) => NotDeeper(n)
  BY DEF FailNodeWithRetry, Backoff, Put
<1>2. MarkRobotsBlocked(m) => NotDeeper(n)
  BY DEF MarkRobotsBlocked, Refused
<1>3. \A kind : SaveNodeWrite(m, kind) => NotDeeper(n)
  BY DEF SaveNodeWrite, Saved
<1>4. \A d \in Nat : LinkTarget(m, d) => NotDeeper(n)
  BY DEF LinkTarget, Exists, Fresh, AtDepth
<1>5. ResetCrawling => NotDeeper(n)
  BY DEF ResetCrawling, Put
<1> QED BY <1>1, <1>2, <1>3, <1>4, <1>5

\* No action pushes a row that exists further away.
LEMMA DepthStep ==
  ASSUME TypeOK, Next, NEW n \in Node
  PROVE  NotDeeper(n)
<1> USE DEF TypeOK, Row
<1>1. ASSUME NEW w \in Worker, GetNextPendingNode(w) PROVE NotDeeper(n)
  BY <1>1 DEF GetNextPendingNode, Rows, Stamp, NotDeeper
<1>2. ASSUME NEW w \in Worker, Refuse(w) \/ ScrapeFails(w) PROVE NotDeeper(n)
  <2>1. proc[w].job \in Node
    BY <1>2 DEF Refuse, ScrapeFails, Proc
  <2> QED BY <1>2, <2>1, ShallowStatements DEF Refuse, ScrapeFails
<1>3. ASSUME NEW p \in Proc, SaveNode(p) \/ SaveNodeFails(p) PROVE NotDeeper(n)
  <2>1. proc[p].job \in Node
    BY <1>3 DEF SaveNode, SaveNodeFails
  <2>2. UNCHANGED row => NotDeeper(n)
    BY DEF NotDeeper
  <2> QED BY <1>3, <2>1, <2>2, ShallowStatements DEF SaveNode, SaveNodeFails
<1>4. ASSUME NEW p \in Proc, SaveEdge(p) PROVE NotDeeper(n)
  <2>1. PICK t \in proc[p].todo :
          IF Exists(proc[p].job) THEN LinkTarget(t, proc[p].depth + 1) ELSE UNCHANGED row
    BY <1>4 DEF SaveEdge
  <2>2. t \in Node /\ proc[p].depth + 1 \in Nat
    BY <2>1 DEF Job
  <2>3. UNCHANGED row => NotDeeper(n)
    BY DEF NotDeeper
  <2> QED BY <2>1, <2>2, <2>3, ShallowStatements
<1>5. ASSUME ResetCrawling PROVE NotDeeper(n)
  BY <1>5, ShallowStatements
<1>6. ASSUME NEW m \in Node, EnqueueURL(m) \/ CrawlTimePasses(m) \/ StuckLimitPasses(m)
      PROVE NotDeeper(n)
  BY <1>6 DEF EnqueueURL, CrawlTimePasses, StuckLimitPasses, Fresh, Exists, Put, Stamp,
              NotDeeper
<1>7. ASSUME NEW r \in Request, RequeueWrite(r) PROVE NotDeeper(n)
  BY <1>7 DEF RequeueWrite, Put, NotDeeper
<1>8. ASSUME NEW h \in Host, AddBlacklist(h) \/ DeleteBlacklist(h) PROVE NotDeeper(n)
  BY <1>8 DEF AddBlacklist, DeleteBlacklist, Put, NotDeeper
<1>9. ASSUME NEW S, DeleteRows(S) PROVE NotDeeper(n)
  BY <1>9 DEF DeleteRows, NoRow, NotDeeper
<1>10. CASE ResetStuckCrawling
  BY <1>10 DEF ResetStuckCrawling, Rows, Stamp, NotDeeper
<1>11. CASE ReviveWrite
  BY <1>11 DEF ReviveWrite, Put, NotDeeper
<1>12. ASSUME NEW u \in User, PurgeStoredContent(u) PROVE NotDeeper(n)
  BY <1>12 DEF PurgeStoredContent, Unhashed, NotDeeper
<1>13. CASE UNCHANGED row
  BY <1>13 DEF NotDeeper
<1> QED
  BY <1>1, <1>2, <1>3, <1>4, <1>5, <1>6, <1>7, <1>8, <1>9, <1>10, <1>11, <1>12, <1>13
  DEF Next, WorkerStep, SavingStep, CliStep, Sweep, OutcomeLost, ReadOldHash, Rest,
      CliStart, CliFetchFails, RequeueCheck, ReviveSelect, RetentionSelect,
      DeleteCrawlHistory, RetentionWrite, Restart

\* A row keeps or lowers its depth for as long as it lives: a longer path, a
\* second submission, a late result or a restart never pushes it further away.
THEOREM DepthNeverGrows == Spec => DepthOnlyShrinks
<1>1. TypeOK /\ [Next]_vars => [\A n \in Node : NotDeeper(n)]_vars
  BY DepthStep
<1>2. Spec => [][\A n \in Node : NotDeeper(n)]_vars
  BY <1>1, TypeCorrect, PTL DEF Spec
<1> QED BY <1>2 DEF DepthOnlyShrinks, NotDeeper, Exists
=============================================================================

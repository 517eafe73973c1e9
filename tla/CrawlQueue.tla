----------------------------- MODULE CrawlQueue -----------------------------
(***************************************************************************)
(* The crawl queue: the nodes table of PostgreSQL, the blacklist, the edge *)
(* table, and everything that writes them concurrently: the engine's       *)
(* workers, the one-shot command-line crawler, request handlers, the       *)
(* background sweepers, and the process being killed and started again.    *)
(*                                                                         *)
(* A node is one (url, user_id) key.  Each action is one SQL statement or  *)
(* one transaction, so handlers that read in one statement and write in a  *)
(* later one are two actions.  The transactions of EnqueueURL, SaveEdge,   *)
(* AddBlacklist and DeleteBlacklist are single actions here; module        *)
(* DomainLocks takes them apart and shows that their locks justify it.     *)
(*                                                                         *)
(* Time is abstract: next_crawl_at is in the future, due, or overdue (past *)
(* by more than the revive age), and crawl_started_at is NULL, fresh, or   *)
(* stale (older than the stuck limit).  What a row that is not 'crawling'  *)
(* has in crawl_started_at is read by nothing, and counts as NULL.         *)
(***************************************************************************)
EXTENDS Naturals, FiniteSets

CONSTANTS
  Node,          \* (url, user_id) keys
  NoNode,        \* "no node": the job of an idle process
  Host, HostOf,  \* onion domains, and the domain of each node's URL
  User, Owner,   \* accounts, and the account of each node
  Operator,      \* the account the command-line crawler writes to (user 1)
  Links,         \* Links[n]: the same-account nodes a crawl of n may discover
  Worker,        \* workers of the API process's engine
  Cli,           \* concurrent runs of the command-line crawler
  Request,       \* request handlers that may be inside RequeueForCrawl
  MaxDepth,      \* engine depth limit
  MaxPending,    \* per-account cap on pending submissions; 0 disables it
  RetryLimit,    \* retry_count from which a failure is final (4)
  RobotsRetry,   \* retry_count written by MarkRobotsBlocked (10)
  RetryOverflow, \* retry_count at which the back-off interval overflows (34)
  ReviveBatch    \* LIMIT of the revive sweeper

ASSUME QueueAssumption ==
  /\ NoNode \notin Node
  /\ Worker \cap Cli = {}
  /\ HostOf \in [Node -> Host]
  /\ Owner \in [Node -> User]
  /\ Links \in [Node -> SUBSET Node]
  /\ MaxDepth \in Nat \ {0}
  /\ MaxPending \in Nat
  /\ RetryLimit \in Nat
  /\ RobotsRetry \in Nat
  /\ RetryOverflow \in Nat
  /\ ReviveBatch \in Nat \ {0}

VARIABLES
  row,       \* the nodes table
  edges,     \* the edges table
  blacklist, \* the blacklist table
  proc,      \* what each worker or command-line run is doing
  req,       \* the node each RequeueForCrawl has checked and will write
  revive,    \* the rows the running ReviveFailedNodes statement selected
  retain,    \* the rows the running ApplyRetention statement selected
  raced      \* ghost: rows taken out of 'blocked' by a check that came too early

vars == <<row, edges, blacklist, proc, req, revive, retain, raced>>

Proc == Worker \cup Cli
Status == {"absent", "pending", "crawling", "completed", "failed", "blocked"}
RetryCap == IF RobotsRetry > RetryOverflow THEN RobotsRetry ELSE RetryOverflow

\* refused is a ghost: the row is 'failed' because crawling it was refused.
Row == [st: Status, retry: 0..RetryCap, depth: 0..MaxDepth,
        when: {"future", "due", "overdue"}, started: {"null", "fresh", "stale"},
        host: {"null", "set"}, hash: {"null", "set"}, refused: {"no", "yes"}]

NoRow == [st |-> "absent", retry |-> 0, depth |-> 0, when |-> "due",
          started |-> "null", host |-> "null", hash |-> "null", refused |-> "no"]

Job == [pc: {"idle", "claimed", "upsert", "update", "linking"},
        job: Node \cup {NoNode}, depth: 0..MaxDepth, todo: SUBSET Node]

Idle == [pc |-> "idle", job |-> NoNode, depth |-> 0, todo |-> {}]
Claimed(n, d) == [pc |-> "claimed", job |-> n, depth |-> d, todo |-> {}]
At(j, pc, todo) == [pc |-> pc, job |-> j.job, depth |-> j.depth, todo |-> todo]

Exists(n) == row[n].st # "absent"
Rows(st) == {n \in Node : row[n].st = st}
OnHost(h) == {n \in Node : row[n].host = "set" /\ HostOf[n] = h}
OwnedBy(u) == {n \in Node : Owner[n] = u /\ Exists(n)}

Init ==
  /\ row = [n \in Node |-> NoRow]
  /\ edges = {}
  /\ blacklist = {}
  /\ proc = [p \in Proc |-> Idle]
  /\ req = [r \in Request |-> NoNode]
  /\ revive = {}
  /\ retain = {}
  /\ raced = {}

-----------------------------------------------------------------------------
(* Row updates: the SET clauses of the statements, on one row.             *)

\* INSERT of a submitted or discovered URL: host is filled in, the rest defaults.
Fresh(d) == [st |-> "pending", retry |-> 0, depth |-> d, when |-> "due",
             started |-> "null", host |-> "set", hash |-> "null", refused |-> "no"]

\* The columns that most UPDATEs set; the others keep their values.
Put(r, st, retry, when) ==
  [st |-> st, retry |-> retry, depth |-> r.depth, when |-> when,
   started |-> IF st = "crawling" THEN r.started ELSE "null",
   host |-> r.host, hash |-> r.hash,
   refused |-> IF st = "failed" THEN r.refused ELSE "no"]

\* Claims and resets: the status together with crawl_started_at.
Stamp(r, st, started) ==
  [st |-> st, retry |-> r.retry, depth |-> r.depth, when |-> r.when,
   started |-> started, host |-> r.host, hash |-> r.hash, refused |-> "no"]

\* A saved crawl result: the upsert also stores the digest of the page.
Saved(r, kind) ==
  [st |-> "completed", retry |-> r.retry, depth |-> r.depth, when |-> "future",
   started |-> "null", host |-> r.host,
   hash |-> IF kind = "upsert" THEN "set" ELSE r.hash, refused |-> "no"]

\* A pending row found again at depth d.
AtDepth(r, d) ==
  [st |-> r.st, retry |-> r.retry, depth |-> d, when |-> r.when,
   started |-> r.started, host |-> r.host, hash |-> r.hash, refused |-> r.refused]

\* A row whose stored page is dropped loses the digest too.
Unhashed(r) ==
  [st |-> r.st, retry |-> r.retry, depth |-> r.depth, when |-> r.when,
   started |-> r.started, host |-> r.host, hash |-> "null", refused |-> r.refused]

\* A URL that robots.txt refuses, with a retry count no back-off reaches.
Refused(r) ==
  [st |-> "failed", retry |-> RobotsRetry, depth |-> r.depth, when |-> "future",
   started |-> "null", host |-> r.host, hash |-> r.hash, refused |-> "yes"]

\* FailNodeWithRetry: count the failure, give up at RetryLimit, back off.
Backoff(r) ==
  Put(r, IF r.retry >= RetryLimit THEN "failed" ELSE "pending",
      r.retry + 1, "future")

\* FailNodeWithRetry on node n.  The row is left alone when it is gone or
\* blocked, and when 10 * 2^retry minutes is out of the range of an INTERVAL:
\* PostgreSQL then rejects the statement before LEAST can cap it.
FailNodeWithRetry(n) ==
  row' = IF /\ row[n].st \notin {"absent", "blocked"}
            /\ row[n].retry < RetryOverflow
         THEN [row EXCEPT ![n] = Backoff(row[n])]
         ELSE row

\* MarkRobotsBlocked on node n: 'failed', and not 'blocked'.
MarkRobotsBlocked(n) ==
  row' = IF row[n].st \notin {"absent", "blocked"}
         THEN [row EXCEPT ![n] = Refused(row[n])]
         ELSE row

\* Faulty variant: a late result also overwrites a blocked row.
SaveNodeWriteBlocked(n, kind) ==
  row' = IF kind = "update" /\ ~Exists(n)
         THEN row
         ELSE [row EXCEPT ![n] = Saved(row[n], kind)]

\* SaveNode's write.  The upsert recreates a row that has gone meanwhile,
\* without host and depth; the minimal update leaves a missing row missing.
SaveNodeWrite(n, kind) ==
  row' = IF row[n].st = "blocked" \/ (kind = "update" /\ ~Exists(n))
         THEN row
         ELSE [row EXCEPT ![n] = Saved(row[n], kind)]

\* The crash recovery of InitDB; when it fails, InitDB warns and goes on.
ResetCrawling ==
  row' = [n \in Node |-> IF row[n].st = "crawling"
                         THEN Put(row[n], "pending", row[n].retry, row[n].when)
                         ELSE row[n]]

\* DELETE of a set of rows, with the cascade to the edges they are source of.
DeleteRows(S) ==
  /\ row' = [n \in Node |-> IF n \in S THEN NoRow ELSE row[n]]
  /\ edges' = {e \in edges : e[1] \notin S}
  /\ raced' = raced \ S

-----------------------------------------------------------------------------
(* Engine.worker                                                           *)

\* Faulty variant: the claim does not stamp crawl_started_at.
ClaimUnstamped(w) ==
  /\ proc[w].pc = "idle"
  /\ \E n \in Rows("pending") \cup Rows("completed") :
       /\ row[n].when # "future"
       /\ row' = [row EXCEPT ![n] = Stamp(row[n], "crawling", row[n].started)]
       /\ proc' = [proc EXCEPT ![w] = Claimed(n, row[n].depth)]
  /\ UNCHANGED <<edges, blacklist, req, revive, retain, raced>>

\* Any claimable row may be taken: SKIP LOCKED passes over rows that other
\* transactions hold, so the ORDER BY promises nothing under contention.
GetNextPendingNode(w) ==
  /\ proc[w].pc = "idle"
  /\ \E n \in Rows("pending") \cup Rows("completed") :
       /\ row[n].when # "future"
       /\ row' = [row EXCEPT ![n] = Stamp(row[n], "crawling", "fresh")]
       /\ proc' = [proc EXCEPT ![w] = Claimed(n, row[n].depth)]
  /\ UNCHANGED <<edges, blacklist, req, revive, retain, raced>>

\* Not a v3 onion URL, or refused by robots.txt.
Refuse(w) ==
  /\ proc[w].pc = "claimed"
  /\ MarkRobotsBlocked(proc[w].job)
  /\ proc' = [proc EXCEPT ![w] = Idle]
  /\ UNCHANGED <<edges, blacklist, req, revive, retain, raced>>

ScrapeFails(w) ==
  /\ proc[w].pc = "claimed"
  /\ FailNodeWithRetry(proc[w].job)
  /\ proc' = [proc EXCEPT ![w] = Idle]
  /\ UNCHANGED <<edges, blacklist, req, revive, retain, raced>>

\* The statement of Refuse or ScrapeFails fails: it is logged, and the worker
\* goes on to its next URL with the row still 'crawling'.
OutcomeLost(w) ==
  /\ proc[w].pc = "claimed"
  /\ proc' = [proc EXCEPT ![w] = Idle]
  /\ UNCHANGED <<row, edges, blacklist, req, revive, retain, raced>>

\* The page was fetched and SaveNode has read the stored digest: without one
\* the write is an upsert, with one it depends on whether the page changed.
ReadOldHash(p) ==
  /\ proc[p].pc = "claimed"
  /\ \E kind \in {"upsert", "update"} :
       /\ row[proc[p].job].hash = "null" => kind = "upsert"
       /\ proc' = [proc EXCEPT ![p] = At(proc[p], kind, {})]
  /\ UNCHANGED <<row, edges, blacklist, req, revive, retain, raced>>

\* Faulty variant: off by one at the depth limit.
DiscoveredAtLimit(p) == IF proc[p].depth <= MaxDepth
                        THEN SUBSET Links[proc[p].job]
                        ELSE {{}}

\* The links a crawl hands on to SaveEdge; none at the depth limit.
Discovered(p) == IF proc[p].depth < MaxDepth
                 THEN SUBSET Links[proc[p].job]
                 ELSE {{}}

SaveNode(p) ==
  /\ proc[p].pc \in {"upsert", "update"}
  /\ SaveNodeWrite(proc[p].job, proc[p].pc)
  /\ \E found \in Discovered(p) :
       proc' = [proc EXCEPT ![p] = At(proc[p], "linking", found)]
  /\ UNCHANGED <<edges, blacklist, req, revive, retain, raced>>

\* SaveNode's write fails: a worker records a failed crawl, which may fail too, the
\* command-line crawler only logs; both still hand on the links.
SaveNodeFails(p) ==
  /\ proc[p].pc \in {"upsert", "update"}
  /\ (p \in Worker /\ FailNodeWithRetry(proc[p].job)) \/ UNCHANGED row
  /\ \E found \in Discovered(p) :
       proc' = [proc EXCEPT ![p] = At(proc[p], "linking", found)]
  /\ UNCHANGED <<edges, blacklist, req, revive, retain, raced>>

\* Faulty variant: any other depth replaces the stored one.
LinkTargetAnyDepth(t, d) ==
  row' = IF HostOf[t] \in blacklist THEN row
         ELSE IF ~Exists(t) THEN [row EXCEPT ![t] = Fresh(d)]
         ELSE IF row[t].st = "pending" THEN [row EXCEPT ![t] = AtDepth(row[t], d)]
         ELSE row

\* What SaveEdge does to the target: nothing on a blacklisted domain, insert
\* when new, and take the smaller depth while still pending.
LinkTarget(t, d) ==
  row' = IF HostOf[t] \in blacklist THEN row
         ELSE IF ~Exists(t) THEN [row EXCEPT ![t] = Fresh(d)]
         ELSE IF row[t].st = "pending" /\ row[t].depth > d
              THEN [row EXCEPT ![t] = AtDepth(row[t], d)]
         ELSE row

\* One SaveEdge transaction; the foreign key on the source rolls it all back
\* when the crawled row was deleted meanwhile.
SaveEdge(p) ==
  /\ proc[p].pc = "linking"
  /\ \E t \in proc[p].todo :
       /\ proc' = [proc EXCEPT ![p] = At(proc[p], "linking", proc[p].todo \ {t})]
       /\ IF Exists(proc[p].job)
          THEN /\ LinkTarget(t, proc[p].depth + 1)
               /\ edges' = edges \cup {<<proc[p].job, t>>}
          ELSE UNCHANGED <<row, edges>>
  /\ UNCHANGED <<blacklist, req, revive, retain, raced>>

Rest(p) ==
  /\ proc[p].pc = "linking"
  /\ proc[p].todo = {}
  /\ proc' = [proc EXCEPT ![p] = Idle]
  /\ UNCHANGED <<row, edges, blacklist, req, revive, retain, raced>>

-----------------------------------------------------------------------------
(* cmd/crawler: runs InitDB against the live database, fetches one URL for *)
(* account Operator without claiming it, then saves like a worker.         *)

CliStart(c) ==
  /\ proc[c].pc = "idle"
  /\ ResetCrawling \/ UNCHANGED row
  /\ \E n \in Node :
       /\ Owner[n] = Operator
       /\ proc' = [proc EXCEPT ![c] = Claimed(n, 0)]
  /\ UNCHANGED <<edges, blacklist, req, revive, retain, raced>>

CliFetchFails(c) ==
  /\ proc[c].pc = "claimed"
  /\ proc' = [proc EXCEPT ![c] = Idle]
  /\ UNCHANGED <<row, edges, blacklist, req, revive, retain, raced>>

-----------------------------------------------------------------------------
(* Request handlers                                                        *)

PendingOf(u) == {n \in Node : Owner[n] = u /\ row[n].st = "pending"}

\* handleCrawl and handleCrawlBulk: AddToQueue calls EnqueueURL at depth 0.
EnqueueURL(n) ==
  /\ HostOf[n] \notin blacklist
  /\ MaxPending = 0 \/ Cardinality(PendingOf(Owner[n])) < MaxPending
  /\ ~Exists(n)
  /\ row' = [row EXCEPT ![n] = Fresh(0)]
  /\ UNCHANGED <<edges, blacklist, proc, req, revive, retain, raced>>

\* RequeueForCrawl reads the status ...
RequeueCheck(r) ==
  /\ req[r] = NoNode
  /\ \E n \in Node :
       /\ row[n].st \notin {"absent", "crawling", "blocked"}
       /\ req' = [req EXCEPT ![r] = n]
  /\ UNCHANGED <<row, edges, blacklist, proc, revive, retain, raced>>

\* ... and then writes without looking at it again.
RequeueWrite(r) ==
  /\ req[r] # NoNode
  /\ LET n == req[r] IN
       /\ row' = IF Exists(n)
                 THEN [row EXCEPT ![n] = Put(row[n], "pending", row[n].retry, "due")]
                 ELSE row
       /\ raced' = IF row[n].st = "blocked" THEN raced \cup {n} ELSE raced
  /\ req' = [req EXCEPT ![r] = NoNode]
  /\ UNCHANGED <<edges, blacklist, proc, revive, retain>>

\* Faulty variant: a row in flight is not blocked.
AddBlacklistIdleRows(h) ==
  /\ blacklist' = blacklist \cup {h}
  /\ row' = [n \in Node |-> IF n \in OnHost(h) \ Rows("crawling")
                            THEN Put(row[n], "blocked", row[n].retry, row[n].when)
                            ELSE row[n]]
  /\ raced' = raced \ OnHost(h)
  /\ UNCHANGED <<edges, proc, req, revive, retain>>

AddBlacklist(h) ==
  /\ blacklist' = blacklist \cup {h}
  /\ row' = [n \in Node |-> IF n \in OnHost(h)
                            THEN Put(row[n], "blocked", row[n].retry, row[n].when)
                            ELSE row[n]]
  /\ raced' = raced \ OnHost(h)
  /\ UNCHANGED <<edges, proc, req, revive, retain>>

\* Faulty variant: the domain is unlisted and its rows are forgotten.
DeleteBlacklistOnlyList(h) ==
  /\ h \in blacklist
  /\ blacklist' = blacklist \ {h}
  /\ UNCHANGED <<row, edges, proc, req, revive, retain, raced>>

DeleteBlacklist(h) ==
  /\ h \in blacklist
  /\ blacklist' = blacklist \ {h}
  /\ row' = [n \in Node |-> IF n \in OnHost(h) /\ row[n].st = "blocked"
                            THEN Put(row[n], "pending", 0, "due")
                            ELSE row[n]]
  /\ raced' = raced \ OnHost(h)
  /\ UNCHANGED <<edges, proc, req, revive, retain>>

DeleteCrawlHistory(u) ==
  /\ OwnedBy(u) # {}
  /\ DeleteRows(OwnedBy(u))
  /\ UNCHANGED <<blacklist, proc, req, revive, retain>>

\* Rows fetched while the account stored no pages have no text and keep their
\* digest, so any of the account's rows may be spared.
PurgeStoredContent(u) ==
  /\ \E S \in SUBSET {n \in OwnedBy(u) : row[n].hash = "set"} :
       /\ S # {}
       /\ row' = [n \in Node |-> IF n \in S THEN Unhashed(row[n]) ELSE row[n]]
  /\ UNCHANGED <<edges, blacklist, proc, req, revive, retain, raced>>

-----------------------------------------------------------------------------
(* Sweepers of cmd/api.  An UPDATE or DELETE whose WHERE is an IN over a   *)
(* sub-select picks its rows in the statement's snapshot; under READ       *)
(* COMMITTED the outer write then follows each row to its newest version   *)
(* without evaluating the sub-select's conditions again.                   *)

\* Faulty variant: the comparison with the stuck limit is the wrong way round.
ResetFreshCrawling ==
  LET fresh == {n \in Rows("crawling") : row[n].started = "fresh"} IN
  /\ fresh # {}
  /\ row' = [n \in Node |-> IF n \in fresh
                            THEN Stamp(row[n], "pending", "null")
                            ELSE row[n]]
  /\ UNCHANGED <<edges, blacklist, proc, req, revive, retain, raced>>

ResetStuckCrawling ==
  LET stuck == {n \in Rows("crawling") : row[n].started = "stale"} IN
  /\ stuck # {}
  /\ row' = [n \in Node |-> IF n \in stuck
                            THEN Stamp(row[n], "pending", "null")
                            ELSE row[n]]
  /\ UNCHANGED <<edges, blacklist, proc, req, revive, retain, raced>>

\* Faulty variant: rows that have used up their retries are never revived.
RevivableInBudget ==
  {n \in Rows("failed") : row[n].when = "overdue" /\ row[n].retry <= RetryLimit}

Revivable == {n \in Rows("failed") : row[n].when = "overdue"}

ReviveSelect ==
  /\ revive = {}
  /\ \E S \in SUBSET Revivable :
       /\ S # {}
       /\ Cardinality(S) <= ReviveBatch
       /\ S = Revivable \/ Cardinality(S) = ReviveBatch
       /\ revive' = S
  /\ UNCHANGED <<row, edges, blacklist, proc, req, retain, raced>>

ReviveWrite ==
  LET S == {n \in revive : Exists(n)} IN
  /\ revive # {}
  /\ row' = [n \in Node |-> IF n \in S
                            THEN Put(row[n], "pending", 0, "due")
                            ELSE row[n]]
  /\ raced' = raced \cup (S \cap Rows("blocked"))
  /\ revive' = {}
  /\ UNCHANGED <<edges, blacklist, proc, req, retain>>

\* Which rows have outlived their account's window, and which are annotated or
\* watched, is left open; rows in flight are excluded.
RetentionSelect ==
  /\ retain = {}
  /\ \E u \in User : \E S \in SUBSET (OwnedBy(u) \ Rows("crawling")) :
       /\ S # {}
       /\ retain' = S
  /\ UNCHANGED <<row, edges, blacklist, proc, req, revive, raced>>

RetentionWrite ==
  /\ retain # {}
  /\ DeleteRows(retain)
  /\ retain' = {}
  /\ UNCHANGED <<blacklist, proc, req, revive>>

-----------------------------------------------------------------------------
(* The API process is stopped or killed at any point and started again;    *)
(* InitDB runs before the engine.                                          *)
Restart ==
  /\ ResetCrawling \/ UNCHANGED row
  /\ proc' = [p \in Proc |-> IF p \in Worker THEN Idle ELSE proc[p]]
  /\ req' = [r \in Request |-> NoNode]
  /\ revive' = {}
  /\ retain' = {}
  /\ UNCHANGED <<edges, blacklist, raced>>

\* The clock passes next_crawl_at (or StartWatch pulls it forward) and, for a
\* failed row, the revive age; no other row is told apart by being overdue.
CrawlTimePasses(n) ==
  /\ Exists(n)
  /\ row[n].when = "future" \/ (row[n].when = "due" /\ row[n].st = "failed")
  /\ row' = [row EXCEPT ![n] = Put(row[n], row[n].st, row[n].retry,
                                   IF row[n].when = "future" THEN "due" ELSE "overdue")]
  /\ UNCHANGED <<edges, blacklist, proc, req, revive, retain, raced>>

\* The clock passes the stuck limit of a crawl.
StuckLimitPasses(n) ==
  /\ row[n].st = "crawling"
  /\ row[n].started = "fresh"
  /\ row' = [row EXCEPT ![n] = Stamp(row[n], "crawling", "stale")]
  /\ UNCHANGED <<edges, blacklist, proc, req, revive, retain, raced>>

-----------------------------------------------------------------------------
WorkerStep(w) ==
  GetNextPendingNode(w) \/ Refuse(w) \/ ScrapeFails(w) \/ OutcomeLost(w)

SavingStep(p) ==
  ReadOldHash(p) \/ SaveNode(p) \/ SaveNodeFails(p) \/ SaveEdge(p) \/ Rest(p)

CliStep(c) == CliStart(c) \/ CliFetchFails(c)

Sweep == \/ ResetStuckCrawling \/ ReviveSelect \/ ReviveWrite
         \/ RetentionSelect \/ RetentionWrite

Next ==
  \/ \E w \in Worker : WorkerStep(w)
  \/ \E p \in Proc : SavingStep(p)
  \/ \E c \in Cli : CliStep(c)
  \/ \E n \in Node : EnqueueURL(n)
  \/ \E r \in Request : RequeueCheck(r) \/ RequeueWrite(r)
  \/ \E h \in Host : AddBlacklist(h) \/ DeleteBlacklist(h)
  \/ \E u \in User : DeleteCrawlHistory(u) \/ PurgeStoredContent(u)
  \/ Sweep
  \/ Restart
  \/ \E n \in Node : CrawlTimePasses(n) \/ StuckLimitPasses(n)

Spec == Init /\ [][Next]_vars

\* The sweepers run on tickers and the clock does not stop.  Nothing is asked
\* of the workers.  ReviveWrite is the second half of one statement: restarts
\* may interrupt it, but not every time.
Fairness ==
  /\ WF_vars(ResetStuckCrawling)
  /\ WF_vars(ReviveSelect)
  /\ SF_vars(ReviveWrite)
  /\ \A n \in Node : WF_vars(CrawlTimePasses(n)) /\ WF_vars(StuckLimitPasses(n))

FairSpec == Spec /\ Fairness

-----------------------------------------------------------------------------
(* Properties                                                              *)

\* Every variable keeps its type: in particular no row or job is ever deeper
\* than MaxDepth, and no retry counter passes RetryCap.
TypeOK ==
  /\ row \in [Node -> Row]
  /\ edges \subseteq Node \X Node
  /\ blacklist \subseteq Host
  /\ proc \in [Proc -> Job]
  /\ \A p \in Proc : /\ proc[p].pc # "idle" => proc[p].job \in Node
                     /\ proc[p].todo # {} => proc[p].depth < MaxDepth
  /\ req \in [Request -> Node \cup {NoNode}]
  /\ revive \subseteq Node /\ retain \subseteq Node
  /\ raced \subseteq Node

\* The blacklist reaches the queue: a row with its host recorded, on a
\* blacklisted domain, is blocked - whatever late results, retries, resets,
\* revivals and links arrive after AddBlacklist - except where a status check
\* made before the block was acted on after it.
BlacklistCovers ==
  \A n \in Node :
    /\ row[n].st \notin {"absent", "blocked"}
    /\ row[n].host = "set"
    /\ HostOf[n] \in blacklist
    => n \in raced

\* No row is stranded: whatever is blocked is found again by the host match of
\* DeleteBlacklist, because its host is recorded and still blacklisted.
BlockedHasReason ==
  \A n \in Node :
    row[n].st = "blocked" => row[n].host = "set" /\ HostOf[n] \in blacklist

\* Every row in 'crawling' carries the start time without which the stuck
\* sweeper would pass it over for ever.
CrawlingHasStart ==
  \A n \in Node : row[n].st = "crawling" => row[n].started # "null"

\* A blocked row leaves that state only by being unblocked or deleted, or by
\* the two writes that do not look at the status again; never by a crawl
\* result that arrives late, a reset or a discovered link.
BlockedSticky ==
  [][\A n \in Node :
       row[n].st = "blocked" /\ row'[n].st \notin {"blocked", "absent"}
       => \/ HostOf[n] \in blacklist /\ HostOf[n] \notin blacklist'
          \/ \E r \in Request : req[r] = n /\ req'[r] = NoNode
          \/ n \in revive /\ revive' = {}]_vars

\* A node is never pushed further away: as long as its row lives, finding it
\* again over a longer path or submitting it again does not raise its depth.
DepthOnlyShrinks ==
  [][\A n \in Node :
       Exists(n) /\ row'[n].st # "absent" => row'[n].depth <= row[n].depth]_vars

\* No row stays in 'crawling', even when every worker hangs or loses its
\* outcome: the stuck sweeper gets it back.
CrawlingEnds == \A n \in Node : row[n].st = "crawling" ~> row[n].st # "crawling"

\* No row whose crawls failed stays 'failed': an outage longer than the retry
\* budget does not drain the queue for good.
FailedRevived ==
  \A n \in Node : row[n].st = "failed" /\ row[n].refused = "no"
                    ~> row[n].st # "failed" \/ row[n].refused = "yes"

-----------------------------------------------------------------------------
(* What comments of the code say and the code does not do                  *)

\* ReviveFailedNodes leaves alone what robots.txt refused: it was refused on
\* purpose, not by failure.
RefusedUntouched ==
  [][\A n \in Node : row[n].refused = "yes" /\ ReviveWrite => row'[n] = row[n]]_vars
=============================================================================

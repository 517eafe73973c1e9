---------------------------- MODULE RateLimiter ----------------------------
(***************************************************************************)
(* The fixed-window rate limiter of the API and the handlers that spend    *)
(* from it to put URLs in the crawl queue.  A call of the limiter is       *)
(* atomic (its mutex); a bulk request calls it twice and then the queue    *)
(* once per URL, and anything may happen in between.  What the queue does  *)
(* with a URL is the subject of Admission: here it accepts, refuses or is  *)
(* full.                                                                   *)
(***************************************************************************)
EXTENDS Naturals, FiniteSets, Functions

CONSTANTS
  Key,         \* accounts, the RequestKey of whoever has signed in
  Req,         \* bulk requests
  Of,          \* the account of each
  Admin,       \* accounts that are not limited
  Limit,       \* units per window
  Window,      \* length of a window, in ticks
  MaxBuckets,  \* cap on the bucket table
  MaxBatch,    \* URLs in a bulk request
  Followed     \* the account whose submissions are recorded

ASSUME LimiterAssumption ==
  /\ IsFiniteSet(Key) /\ Of \in [Req -> Key]
  /\ {Limit, Window, MaxBuckets, MaxBatch} \subseteq Nat \ {0}

VARIABLES
  table,    \* accounts that have a bucket
  count,    \* the units charged to each bucket
  left,     \* ticks until now.After(resetAt)
  pc,       \* where each bulk request is
  size, added, skipped,
  letIn     \* ghost: URLs of Followed let in, by their age in ticks

limiterVars == <<table, count, left>>
batchVars == <<pc, size, added, skipped>>
vars == <<table, count, left, pc, size, added, skipped, letIn>>

Ages == 0 .. Window - 1

Init ==
  /\ table = {} /\ count = [k \in Key |-> 0] /\ left = [k \in Key |-> 0]
  /\ pc = [r \in Req |-> "idle"] /\ size = [r \in Req |-> 0]
  /\ added = [r \in Req |-> 0] /\ skipped = [r \in Req |-> 0]
  /\ letIn = [a \in Ages |-> 0]

-----------------------------------------------------------------------------
(* CrawlLimiter                                                            *)

Live == {k \in table : left[k] > 0}

\* Faulty variant: buckets whose window has ended are not evicted.
SweptNever(k) == table

\* A caller without a bucket who finds the table full has the ended windows evicted.
Swept(k) == IF k \notin table /\ Cardinality(table) >= MaxBuckets THEN Live ELSE table

\* Faulty variant: the table is not looked at again after the eviction.
HasRoomAfterSweep(k) == TRUE

HasRoom(k) == k \in table \/ Cardinality(Swept(k)) < MaxBuckets

\* AllowN returns true.
Fits(k, n) == IF k \in Live THEN count[k] + n <= Limit ELSE n <= Limit /\ HasRoom(k)

\* Only buckets count: what a deleted one held is forgotten.
Buckets(T, c, l) ==
  /\ table' = T
  /\ count' = [k \in Key |-> IF k \in T THEN c[k] ELSE 0]
  /\ left' = [k \in Key |-> IF k \in T THEN l[k] ELSE 0]

\* AllowN grants n units to k, all or nothing, in its window or in a new one.
Charge(k, n) ==
  /\ Fits(k, n)
  /\ IF k \in Live
       THEN Buckets(table, [count EXCEPT ![k] = @ + n], left)
       ELSE Buckets(Swept(k) \cup {k}, [count EXCEPT ![k] = n], [left EXCEPT ![k] = Window])

\* Faulty variant: a caller who does not stop asking has its window start again.
RefuseRenews(k, n) ==
  /\ ~Fits(k, n)
  /\ Buckets(table, count, [left EXCEPT ![k] = IF k \in Live THEN Window ELSE @])

\* AllowN refuses; the eviction it may have made stays.
Refuse(k, n) ==
  /\ ~Fits(k, n)
  /\ Buckets(IF k \notin Live /\ n <= Limit THEN Swept(k) ELSE table, count, left)

\* The goroutine of NewCrawlLimiter, every ten minutes.
CollectEnded ==
  /\ table # Live
  /\ Buckets(Live, count, left)
  /\ UNCHANGED <<batchVars, letIn>>

Tick ==
  /\ left' = [k \in Key |-> IF left[k] > 0 THEN left[k] - 1 ELSE 0]
  /\ letIn' = [a \in Ages |-> IF a = 0 THEN 0 ELSE letIn[a - 1]]
  /\ UNCHANGED <<table, count, batchVars>>

-----------------------------------------------------------------------------
(* The handlers                                                            *)

\* !IsAdmin(r) && !Allow(...): an administrator is not charged.
Admitted(k, n) == IF k \in Admin THEN UNCHANGED limiterVars ELSE Charge(k, n)
TurnedAway(k, n) == k \notin Admin /\ Refuse(k, n)

\* n URLs of k go to the queue.
Submitted(k, n) == letIn' = IF k = Followed THEN [letIn EXCEPT ![0] = @ + n] ELSE letIn

\* handleCrawl and handleRecrawl: one unit, one URL, whether or not it is valid.
\* An account may send any number of them, also while a bulk request is under way.
handleCrawl(k) ==
  /\ \/ Admitted(k, 1) /\ Submitted(k, 1)
     \/ TurnedAway(k, 1) /\ UNCHANGED letIn
  /\ UNCHANGED batchVars

\* handleCrawlBulk is charged as a request before its body is read.
handleCrawlBulk(r) ==
  /\ pc[r] = "idle"
  /\ \/ Admitted(Of[r], 1) /\ pc' = [pc EXCEPT ![r] = "body"]
     \/ TurnedAway(Of[r], 1) /\ UNCHANGED pc
  /\ UNCHANGED <<size, added, skipped, letIn>>

\* Not JSON, no URL or too many.
BadBody(r) ==
  /\ pc[r] = "body" /\ pc' = [pc EXCEPT ![r] = "idle"]
  /\ UNCHANGED <<limiterVars, size, added, skipped, letIn>>

\* Faulty variant: the URLs ride on the unit of the request.
ChargeBatchNothing(r, n) ==
  /\ pc[r] = "body" /\ pc' = [pc EXCEPT ![r] = "adding"]
  /\ size' = [size EXCEPT ![r] = n]
  /\ Submitted(Of[r], n)
  /\ UNCHANGED <<limiterVars, added, skipped>>

\* Then it is charged for each of its n URLs.
ChargeBatch(r, n) ==
  /\ pc[r] = "body"
  /\ \/ /\ Admitted(Of[r], n) /\ Submitted(Of[r], n)
        /\ pc' = [pc EXCEPT ![r] = "adding"] /\ size' = [size EXCEPT ![r] = n]
     \/ /\ TurnedAway(Of[r], n)
        /\ pc' = [pc EXCEPT ![r] = "idle"]
        /\ UNCHANGED <<size, letIn>>
  /\ UNCHANGED <<added, skipped>>

Adding(r) == pc[r] = "adding" /\ added[r] + skipped[r] < size[r]

\* AddToQueue accepts the URL.
AddURL(r) ==
  /\ Adding(r)
  /\ added' = [added EXCEPT ![r] = @ + 1]
  /\ UNCHANGED <<limiterVars, pc, size, skipped, letIn>>

\* It is not an onion URL, or AddToQueue refuses it.
SkipURL(r) ==
  /\ Adding(r)
  /\ skipped' = [skipped EXCEPT ![r] = @ + 1]
  /\ UNCHANGED <<limiterVars, pc, size, added, letIn>>

\* Faulty variant: the URLs skipped before are counted again.
QueueFullRecounts(r) ==
  /\ Adding(r)
  /\ skipped' = [skipped EXCEPT ![r] = @ + size[r] - added[r]]
  /\ pc' = [pc EXCEPT ![r] = "answer"]
  /\ UNCHANGED <<limiterVars, size, added, letIn>>

\* The account's quota is reached: the rest of the batch is skipped.
QueueFull(r) ==
  /\ Adding(r)
  /\ skipped' = [skipped EXCEPT ![r] = @ + size[r] - added[r] - skipped[r]]
  /\ pc' = [pc EXCEPT ![r] = "answer"]
  /\ UNCHANGED <<limiterVars, size, added, letIn>>

BatchDone(r) ==
  /\ pc[r] = "adding" /\ ~Adding(r)
  /\ pc' = [pc EXCEPT ![r] = "answer"]
  /\ UNCHANGED <<limiterVars, size, added, skipped, letIn>>

Answer(r) ==
  /\ pc[r] = "answer" /\ pc' = [pc EXCEPT ![r] = "idle"]
  /\ size' = [size EXCEPT ![r] = 0]
  /\ added' = [added EXCEPT ![r] = 0] /\ skipped' = [skipped EXCEPT ![r] = 0]
  /\ UNCHANGED <<limiterVars, letIn>>

-----------------------------------------------------------------------------
Next ==
  \/ \E r \in Req :
       \/ handleCrawlBulk(r) \/ BadBody(r)
       \/ \E n \in 1 .. MaxBatch : ChargeBatch(r, n)
       \/ AddURL(r) \/ SkipURL(r) \/ QueueFull(r) \/ BatchDone(r) \/ Answer(r)
  \/ \E k \in Key : handleCrawl(k)
  \/ CollectEnded \/ Tick

\* Only the clock has to go on.
Spec == Init /\ [][Next]_vars /\ WF_vars(Tick)

-----------------------------------------------------------------------------
\* The table never outgrows its cap, whoever asks.
TableBounded == Cardinality(table) <= MaxBuckets

\* An account that is not an administrator gets fewer than twice Limit URLs into
\* any Window ticks, however it mixes single and bulk requests and whatever
\* eviction and collection do to the table meanwhile.
BurstBounded == Followed \notin Admin => SumFunction(letIn) < 2 * Limit

\* The answer accounts for every URL of the batch, also when the quota ends it early.
AnswerAddsUp == \A r \in Req : pc[r] = "answer" => added[r] + skipped[r] = size[r]

\* Who is turned away has spent its own window, asks for more than a window holds,
\* or comes when MaxBuckets others are in theirs: ended windows crowd nobody out.
RefusedForCause ==
  [][\A k \in Key, n \in 1 .. MaxBatch :
       TurnedAway(k, n) => \/ count[k] + n > Limit
                           \/ Cardinality(Live \ {k}) >= MaxBuckets]_vars

\* Asking on during a window does not prolong it: every window ends.  (Administrators
\* have none.)
WindowEnds == \A k \in Key \ Admin : k \in Live ~> k \notin Live
=============================================================================

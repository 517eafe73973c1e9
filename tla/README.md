# Onion Spider: TLA+ models, checks and proofs

Onion Spider is a crawler of Tor hidden services with a multi-user web API. A Go
process (`backend/cmd/api`) runs the HTTP API, a pool of crawl workers and half a
dozen background sweepers; a second program (`backend/cmd/crawler`) crawls one URL
from the command line. All shared state of any importance lives in PostgreSQL, and
almost every operation is a handful of SQL statements under READ COMMITTED. What is
hard about this system is therefore not the algorithms but what happens between two
statements: a status read in one and acted on in the next, a sweeper's snapshot, a
result that arrives after the row was blocked, deleted or claimed by someone else.

The models keep that control structure, one action per statement or transaction, and
reduce the data (pages, titles, hashes, tokens, times) to what the properties tell
apart.

## Inventory

| Part | State | Operations | What is hard about it | What makes it correct |
|---|---|---|---|---|
| Crawl queue (`database/db.go`, `crawler/engine.go`, sweepers of `cmd/api/main.go`, `cmd/crawler`) | `nodes`, `edges`, `blacklist` tables; the job each worker holds | claim, fail with back-off, refuse, save, link, submit, requeue, blacklist and unlist, delete history, stuck / revive / retention sweeps, startup reset | late results; sweepers against workers; check-then-write; crash and restart; a second program on the live database; lost writes | blacklisted domains are not crawled; nothing is stranded; nothing is stuck; depth never grows |
| Admission transactions (`EnqueueURL`, `SaveEdge`, `AddBlacklist`, `DeleteBlacklist`) | advisory locks | lock domain, lock account, check, count, write | count-then-insert; two locks; hash collisions of lock keys | the transactions are atomic; the quota holds; no deadlock |
| Politeness (`crawler/robots.go`, `waitForDomain`) | robots cache, table of last accesses, sleeping workers | look up, fetch, evict, reserve, sleep, clean up | concurrent fetches and stores; oversleeping; cancellation; forgetting hosts; conversion of delays | slots keep the gap; waits and cache are bounded |
| Accounts and sessions (`api/auth_handlers.go`, `api/middleware.go`, `database/sessions.go`, `database/privacy.go`) | users row, session rows, tokens | login, re-hash, logout, revoke, logout everywhere, forgot / reset, schedule / cancel / sweep deletion | a login that straddles a reset; a check in two queries; a sweeper acting on a stale list | old passwords and revoked sessions are dead at once and for good |
| Second factor (`api/totp_handlers.go`, `database/totp.go`, `auth/totp.go`) | secret, last step, recovery codes | stage, confirm, challenge, consume, disable | two requests with one code; setup against confirm; disable against sign-in | codes are single-use; recovery codes are the ones shown |
| Watches and change feed (`database/annotations.go`) | watches, watch_events | watch, record observation, mark seen | observation and page digest are written by different transactions | one event per transition, no change lost |
| Tags and notes (`database/annotations.go`, `api/annotation_handlers.go`) | node_tags, node_notes | add, remove, set | cap counted without a lock; deletion during an addition | a site has no more tags than the cap; nothing outlives its site |
| Rate limiters, bulk submission (`api/ratelimit.go`, `api/crawl_handlers.go`) | buckets per identity | allow, allow n, collect | window ends, table at its cap, two charges per batch | bounded bursts; ended windows crowd nobody out |
| Exports (`api/export_handlers.go`, `api/privacy_handlers.go`) | semaphores, the document written so far | acquire two, release two, read in many statements | partial acquisition; failure half way; writes during the export | caps hold, no slot leaks; a document without an error holds what was stored throughout |
| Circuit renewal (`proxy/tor_controller.go`) | last renewal, failure count | renew under a lock | slow control port, cooldown | at most one renewal per cooldown |
| Registration, verification, lockout (`api/auth_handlers.go`, `api/audit.go`) | users, auth_audit | register, verify, count failures | bootstrap of the administrator; count-then-act; lost audit rows; purge of the counters | one administrator; lockout bounds attempts, and ends |
| Retention settings, purge, retention sweep (`database/privacy.go`) | settings, stored content | set, purge, sweep, dry run | deletion against crawling and annotating | annotated sites and those in flight are spared; a purge leaves nothing |
| Text: robots.txt groups, sitemap, extraction, categories, onion addresses | none | parse, normalise, score | edge cases of formats | agree with a reference definition |
| The rest: CSRF, CORS, cookies, client address, e-mail, logging, metrics, read-only endpoints, migrations, frontend, deployment | none of their own | | | |

Components interact through the database (queue, admission, accounts, watches), through
mutex-protected maps of the process (politeness, rate limiters, renewal) and through
calls: a worker claims from the queue, asks politeness, scrapes, saves the node, reports
to the watches, and hands discovered links to the admission transactions.

## Modules

| Module | Stands for | Status |
|---|---|---|
| `CrawlQueue` | the queue and everyone who writes it | modelled |
| `CrawlQueueProofs` | its theorems | proved |
| `Admission` | abstract specification: submitting, linking, listing, unlisting are atomic | modelled |
| `DomainLocks` | the four transactions with their advisory locks; implements `Admission` | modelled |
| `DomainLocksProofs` | its theorems, the implementation of `Admission` included | proved |
| `Politeness`, `PolitenessProofs` | robots cache, host slots | modelled, proved |
| `Account`, `AccountProofs` | sign-in, sessions, reset, deletion | partly, proved |
| `TwoFactor`, `TwoFactorProofs` | TOTP and recovery codes | modelled, proved |
| `Watch`, `WatchProofs` | observations of a watched site and the change feed | partly, proved |
| `PersonalData`, `PersonalDataProofs` | tags, notes, watches, exports, purge and retention of an account | modelled, proved |
| `SlotPool` | abstract specification: a pool of exports; implemented by `PersonalData` | modelled |
| `RateLimiter` | fixed windows, the bucket table, single and bulk submission | modelled, proved |
| `Registration` | bootstrap administrator, lockout, caps on mail | partly, proved |
| `LimitProofs` | totals over ages, and the theorems of `RateLimiter` and `Registration` | proved |
| `MCCrawlQueue`, `MCPersonalData` | instances of those modules for TLC | |
| `MCSafety` | instances of `Account`, `TwoFactor` and `Politeness` for TLC | |
| `MCGates` | instances of `RateLimiter`, `Registration` and `DomainLocks` for TLC | |

`PersonalData` implements `SlotPool` under the mapping `running <- GlobalHolders` (the requests
between taking and giving back the global slot): `ImplementsSlotPool`. `DomainLocks` extends `Admission` and shares its variables, so the refinement mapping is
the identity on `status`, `blacklist` and `hostless`. `CrawlQueue` relies on what `Admission`
promises: there the four transactions are single actions.

### CrawlQueue

`row[n]` is the row of `nodes` for one (url, user_id) key: `processing_status`
("absent" when there is none), `retry_count`, `depth`, `next_crawl_at` reduced to
future / due / overdue, `crawl_started_at` reduced to NULL / fresh / stale (and counted as
NULL while the row is not 'crawling', when nothing reads it), whether `host` and
`content_hash` are NULL, and a ghost, `refused`: the row is 'failed' because robots.txt
refused it, which the table does not tell. `proc[p]` is what a worker or a command-line run is
doing: *claimed* (scraping), *upsert* or *update* (SaveNode has read the stored digest
and chosen its statement), *linking* (links still to be saved). `req`, `revive` and
`retain` hold what a check or a sub-select has found and a later write will act on.

| Code | Actions |
|---|---|
| `Engine.worker` | `GetNextPendingNode`, `Refuse`, `ScrapeFails`, `OutcomeLost`, `ReadOldHash`, `SaveNode`, `SaveNodeFails`, `SaveEdge`, `Rest` |
| `cmd/crawler` | `CliStart`, `CliFetchFails`, and the saving actions of a worker |
| handlers | `EnqueueURL`, `RequeueCheck` + `RequeueWrite`, `AddBlacklist`, `DeleteBlacklist`, `DeleteCrawlHistory`, `PurgeStoredContent` |
| sweepers | `ResetStuckCrawling`, `ReviveSelect` + `ReviveWrite`, `RetentionSelect` + `RetentionWrite` |
| process | `Restart` (kill or stop, then `InitDB`, whose reset may fail with a warning) |
| clock | `CrawlTimePasses`, `StuckLimitPasses` |

Two assumptions about PostgreSQL carry weight. First, `UPDATE ... WHERE id IN (SELECT
... )` under READ COMMITTED evaluates the sub-select in the statement's snapshot, and when
a target row was changed meanwhile re-checks the outer qualification only; so the two sweeps
written this way are a select and a write. Second, `INTERVAL '1 minute' * x` raises an
error when the result is out of range, which for `10 * 2^retry` minutes happens at
`retry_count` 34, before `LEAST` is applied.

`raced` is a ghost: the rows taken out of 'blocked' by the two writes that act on an older
check (`RequeueWrite`, `ReviveWrite`). `BlacklistCovers` holds for all other rows; that the
exception cannot be dropped is visible in `BlockedSticky`, which names the two writes. Both
are proved for any number of requests; TLC checks the first without requeues and the second
with them.

### Admission and DomainLocks

A transaction `t` goes through *lock, read, quota, count, commit*; reads see what is
committed, writes show at commit, and `End` releases its advisory locks. The key of a
domain lock is a hash, so `KeyOf` may map two domains to one key. Everything else that
changes rows is summarised by `Work`, `Return`, `Recreate` and `Delete`, which wait for rows an
UPDATE has locked. `Return` makes rows pending without asking the quota, as the code does for
links, retries, requeues and revivals, the last two even from 'blocked'; `crowded` records it, and
`RoomStaysRoom` speaks about the submissions it does not affect. `Recreate` is `SaveNode` on a
deleted row, which comes back without its host (`hostless`) and is passed over by a listing.
Two multi-row statements can also wait for each other's rows; PostgreSQL aborts one of them,
which is `Abort`, and the waiting itself is left out.

### Politeness

Time is in ticks. `cache` is the robots cache with the time each entry was fetched, `last`
and `known` the table of last accesses, `slot[w]` the moment a worker will fetch its page.
`IsAllowed` and `CrawlDelay` look the cache up separately, and each miss releases the lock,
fetches and stores. A Crawl-delay of `Overflow` or more does not fit a `time.Duration`; Go
leaves the result of that conversion to the machine, hence a choice in `Parsed`.

### Account

One account. A token carries a session handle and the `token_version` its login read.
`handleLogin` is `LoginRead` (user row read, password checked), `UpgradePasswordHash`,
`CreateSession`, `GenerateToken`; a protected request is `Arrive`, `GetUserAuthInfo`,
`SessionActive`, then the handler's own effect. `lastSet`, `proved`, `arrived` and `kept`
are ghosts that remember what the owner set, what each session proved, whether a token was
good when its request arrived, and whether a deletion was called off. An attempt with a
wrong password, or refused for lack of verification or second factor, changes nothing here.

### TwoFactor

One account again. A one-time code is a secret and a step of 30 seconds. `uses` counts
acceptances of a step within one enrolment; `shown` and `proven` remember what the last
enrolment returned and which secret it validated.

### Watch

One watched site of one account. `hash` is the node's `content_hash`, `lastHash` and `lastUp`
the watermark of the watch. A crawl is `ReadOldHash` (or `ScrapeFails`), `SaveNode` (or
`SaveNodeFails`), `Snapshot`, `RecordWatchObservation`; `Abandon` loses it at any point. The
last two are one transaction: its SELECT takes the digest from its snapshot, and then may wait
for the lock of the watch, whose newest version it reads (`FOR UPDATE OF w` under READ
COMMITTED re-reads the locked row only). The feed itself is kept as what a reader concludes
from it: `told`, the page it was last told of, and `believed`, whether the site is up.
`blanked` remembers that an observation has replaced a digest in `last_hash` by NULL.

### PersonalData and SlotPool

One site of one account (`row`, and in `marks` its rows in `node_tags`, `node_notes` and
`watches`), any number of requests, of that account and of others. `AddTag` is two actions, the
count and the `INSERT`; a deletion in between turns the second into `InsertRefused`, because the
foreign key no longer finds the row, even when the site has got a new one (`Erase`). An export is
`TakeUserSlot`, `TakeGlobalSlot` (or, refused, `GiveUserSlotBack`), its statements (`Lookup`,
`ExportNodes`, `ExportAnnotations` for the personal data, `ExportRows` for the crawl data, each of
which may fail), `ReleaseGlobal`, `ReleaseUser`. `kept[r]` is a ghost: at most one item, chosen when
the export begins, for as long as it stays stored; choosing every item in turn says the same of all
of them and keeps the state space small. `Held` is everything stored, `Found` what the statements
of an export select of it. `ApplyRetention` is a select in the snapshot of its statement and a
delete, as in `CrawlQueue`; "missed" says that the selected row is gone and any later one is another
row. A dry run writes nothing. A restart ends every request with its semaphores and has no action.

### RateLimiter

`table`, `count`, `left` are the buckets: who has one, what it has spent, and the ticks until its
window ends. `Charge` and `Refuse` are the two answers of `AllowN`, eviction included;
`CollectEnded` is the collector goroutine. A single submission is one action, a bulk request is
`handleCrawlBulk` (first charge), `BadBody` or `ChargeBatch` (second), `AddURL` / `SkipURL` /
`QueueFull` per URL, `BatchDone`, `Answer`. `letIn` is a ghost: the URLs of one account that were
let in, by age. An account's other requests go on between any two of these. The anonymous limiters
are two tables of the same kind; searches and sensitive operations have tables of their own.

### Registration

`role` is the account of each address, `lock` the advisory lock. A registration is `handleRegister`,
`DecideRole` (which waits for the lock), `InsertUser` or `RegisterFails`. `AdminEmail` gives each request
the administrator's address of the instance that serves it, since the lock is there for instances that
disagree. The counting controls are alike, so one of the three kinds of event is followed, chosen
in `Init`: `Begin` or `TurnAway` (count), `DoFollowed` or `DoOther` (act), `LogAuthEvent` or `LogLost`
(record). `log` and `done` hold rows and deeds by age; the window (`Span`) is the code's 15 or 60 minutes, `Holdback`
the two hours that `PurgeAuthAudit` leaves alone. Deleting an account deletes its rows, and the
deeds they stand for are forgotten with it.

## Runs

Passing runs:

| Run | Instance | Checks | Shows |
|---|---|---|---|
| `queue_race` | one row; two workers, a command-line run, a requeue, all sweepers, restarts; fair sweepers and clock | `BlockedHasReason`, `CrawlingHasStart`, `BlockedSticky`, `CrawlingEnds`, `FailedRevived` | whatever races for a row, blocking holds and is reversible, no crawl is invisible to the stuck sweeper, and no row is stuck even if every worker hangs or a start-up reset fails |
| `queue_links` | two pages that link to each other, two levels | `TypeOK`, `BlacklistCovers`, `DepthOnlyShrinks` | links respect the depth limit and the blacklist when source or target vanish |
| `safety_race`, `Account` | two sessions, two requests, a version change | `ResetSticks`, `AcceptedProvedCurrent`, `ServedWasGood`, `DeadStaysDead` | resets and revocations are final, for requests in flight too |
| `safety_race`, `TwoFactor` | two requests, two secrets, three steps | `OncePerEnrolment`, `WayBackIn` | a code gets one of two racing requests in; the recovery codes are those shown |
| `safety_race`, `Politeness` | two workers, two hosts, a cache for one, time enough for entries to expire and the cleanup to forget a host | `WaitBounded`, `CacheBounded`, `SlotsApart` | slots keep their gap, a wait is at most a gap per sleeper, overlapping fetches do not outgrow the cache |
| `gates_race`, `RateLimiter` | two accounts and an administrator, one bucket, two bulk requests; fair clock | `TableBounded`, `BurstBounded`, `AnswerAddsUp`, `RefusedForCause`, `WindowEnds` | fewer than twice the limit in any window, however requests are mixed; nobody is refused because of ended windows |
| `gates_race`, `Registration` | two addresses, two requests, two configurations, one fault; fair clock | `AtMostOneAdmin`, `AttemptsBounded`, `LockoutEnds` | one administrator; attempts in parallel, lost rows and purges gain a bounded number of tries; no attempt prolongs a lockout |
| `gates_race`, `DomainLocks` | two sessions, two domains, one account; fair sessions | `RoomStaysRoom`, `AtomicAdmission`, `TxEnds` | quota counts do not go stale; the transactions implement `Admission`; no deadlock over the two kinds of lock |
| `data_race` | three requests of two accounts, one site, two tags with room for one, one global slot; fair exports | `SlotsConserved`, `WritingExported`, `NothingLeftBehind`, `ImplementsSlotPool`, `SlotsReturn` | no path through an export leaks a slot or waits for ever; what the account wrote is in its document; deletion leaves nothing |
| `watch_race` | two workers on one site, two pages, purge, deletion, lost observations; fair crawls | `FeedTellsPage`, `NewsIsNew`, `CatchesUp` | overlapping or lost observations swallow no change, repeat no outage, and are made up for |

`safety_race` and `gates_race` each check three modules that share no variable. A behaviour moves
one of them, which `part` names from the start, and leaves the others in their initial states:
interleaving them could show nothing more, and would multiply their states.

Runs in which TLC finds that the code does not do what a comment, a test or a message of the
repository says (each is quoted under "findings" in `PROJECT.json`):

| Run | Property | What happens |
|---|---|---|
| `queue_robots` | `RefusedUntouched` | a page that robots.txt refuses is stored as 'failed', and the revive sweeper puts it back in the queue, although what was refused on purpose is to be left untouched; the next crawl asks robots.txt again |
| `account_cancel` | `CancelHolds` | a deletion cancelled after the sweeper listed it still happens |
| `totp_proven` | `EnabledIsProven` | a setup between a confirmation's read and write is enabled unproved |
| `data_tags` | `TagCap` | two additions of a tag count before either commits and both take the last place; counting in the transaction does not keep them apart, because READ COMMITTED takes no lock for it |
| `data_retention` | `RetentionExcludes` | a site annotated or claimed after the snapshot of the retention statement is deleted by it, annotation included |
| `data_export` | `ExportComplete` | a site that is not 'completed' throughout an export of the personal data is held and not exported |

The passing properties next to them say what does hold: `FailedRevived` that everything that failed, and
was not refused, comes back; `WritingExported` that what the account itself wrote is in the document;
`NothingLeftBehind` that retention and purge leave nothing half deleted. How far the cap on tags can be
overrun is a theorem (`TagOverrunBounded`): by less than the number of the account's requests.

Smaller deviations are in the models, and the properties above are stated so that they
hold in spite of them; none has a run of its own:

- `RequeueForCrawl` checks the status in one statement and writes in another
  (`RequeueCheck`, `RequeueWrite`): it also resets a row claimed or blocked in between.
- The command-line crawler runs `InitDB` on the live database (`CliStart`): rows that the
  API's workers are crawling become pending.
- A worker that reserves behind others waits one gap for each, so the cap on the
  delay does not cap the wait (`WaitBounded` says what does).
- robots.txt is requested outside the slots; `SlotsApart` is about page fetches.
- A Crawl-delay beyond the range of `time.Duration` may come out negative (`Parsed`); the
  gap is then the default one.
- After a password reset the session rows stay, and `ListSessions` shows them, although
  their tokens are dead.
- `AddBlacklist` blocks rows by host, and a row recreated by `SaveNode` has none: it is passed over,
  although the comment speaks of all the domain's nodes (`OnHost`).
- From `retry_count` 34 the back-off overflows before it is capped, the UPDATE fails and the failure
  is not recorded (`OutcomeLost`); the stuck sweeper gets the row back.
- A purge of stored pages between a crawl's save and its observation sets the watermark of a watch to
  NULL, and the next change is not told (`blanked`).
- A batch is charged one unit more than it has URLs, so that the 20 URLs the handler's message allows
  never fit the 20 units of a non-administrator's window, and 19 fit only in an unspent one.
- `ApplyRetention` goes by a policy listed at the start of the pass, which may have been changed since.
- Exports in XLSX and PDF stop at a number of rows without a sign.
- The caps on mail count before they act, like the lockout: requests in parallel may exceed the "at most
  3 reset emails per hour" of a comment in `handleForgotPassword`. `AttemptsBounded` says by how much.
- The lockout counts failures in a window whether or not a success lies between them. An error of
  the count lets the attempt pass (`BelowCap`).
- The cap on `register_ok` is reached only if the account is deleted in between, which deletes the
  rows it counts; and an address whose verification has expired can be neither verified nor
  registered again.
- Disabling the second factor sets `totp_last_step` to 0: a sign-in challenged before can
  present a used step again. `OncePerEnrolment` is therefore per enrolment.

### Bounds

One row is enough for the races of `queue_race`: rows interact only through links, quota and
the cascade of edges, which `queue_links` has with two. Two workers allow a stale owner
beside a new one, which is the most any property distinguishes. `RetryLimit`, `RobotsRetry`
and `RetryOverflow` are scaled down; `MaxDepth` 2 lets a page be found at either level.

In `safety_race`, `MaxTime` is long enough for a host to be forgotten and reserved anew;
`KeepFor` at its smallest legal value is the hardest case, and the advertised delay is one that
overflows, so that the gap may be the default or the cap. `MaxSets` bounds password and version
changes (one: before and after is what the properties compare), `MaxSecrets` enrolments, `MaxNow` the
clock. The safety properties of this run and the next are also proved for every value of these constants.

In `gates_race` the window is as long as a batch, so that windows end between the two charges of a
bulk request and during its URLs; one place in the table makes every newcomer meet a full one. The bulk
requests are those of one account, so the branch of the bulk handler for administrators is not taken
there; single requests of an administrator are. For the lockout two requests are what the lock and the
overrun need, `Holdback` equals `Span`, the least `PurgeAuthAudit` needs, and `MaxFaults` bounds the audit
statements that fail. The two domains have keys of their own, the case with most concurrency: domains
that share a key are covered by the proofs, for safety only.

In `data_race` one global slot for two accounts makes every refusal happen; two tags with room
for one let two additions overrun the cap. In `watch_race` two pages make a change, and a change back;
two workers are the owner the stuck sweeper gave up on and its successor.

Symmetry is used where handlers, sessions, workers (`safety_race`) or pages (`queue_links`) are
interchangeable, in runs without temporal properties other than action properties. Deadlock checking is
off in `safety_race`, `account_cancel` and `totp_proven`, where the bounded clock or counters, or an account
that has been deleted, let the model come to rest; it is on in all others.

### Fairness

`FairSpec` of `CrawlQueue` asks nothing of workers, handlers or the command-line crawler. The
sweepers run on tickers for the life of the process and the clock advances, so their actions
are weakly fair. `ReviveWrite` is strongly fair: it is the rest of a statement that a restart
can interrupt, and restarts do not hit every run of it. `FairSpec` of `DomainLocks` is strongly
fair in each session's step: PostgreSQL queues lock waiters and grants a released lock to
one that waits, so a session that can run again and again eventually does. `FairWatchSpec`
is weakly fair in crawling (a watched site becomes due on its interval, and the stuck sweeper
returns what a worker lost), which assumes that the site goes on being crawled: `CatchesUp` says nothing
of one that is blocked or refused for good. It is strongly fair in the steps of a crawl, which a failing statement
or a restart may cut short, but not each time. `FairSpec` of `PersonalData` is weakly fair in the
steps of a running export: neither semaphore is waited for, and a statement ends at the latest when
the write deadline or a disconnected client cancels it. `RateLimiter` and `Registration` only ask the
clock to go on; no request has to. `FairGatesSpec` is the fairness of `RateLimiter`, `Registration` and
`DomainLocks`, each in the behaviours that move it.

## Proofs

All theorems hold for every value of the constants that satisfies the named assumptions,
which are only what the code guarantees: sets are disjoint where they must be, functions are
total, limits are natural numbers; finiteness is assumed of nodes, hosts, workers, accounts,
addresses and requests where they are counted.

| Module | Theorems | Inductive invariant |
|---|---|---|
| `CrawlQueueProofs` | `TypeCorrect`, `BlacklistReachesQueue`, `NothingStranded`, `SweeperSeesAll`, `BlockedIsSticky`, `DepthNeverGrows` | `TypeOK` with the three invariants together: blocked rows have a recorded, listed host, so a result or reset that spares blocked rows also keeps `BlacklistCovers`; `TypeOK` itself needs that jobs with links left are above the depth limit |
| `DomainLocksProofs` | `TypeCorrect`, `LocksCorrect`, `QuotaCorrect`, `LocksImplementAdmission` | `LocksHeld` (who is past the lock statement holds the lock) and `ReadsValid` (what was read under it is still so); `BlockedListed` (the domain of a blocked row is listed), because a row may come back from 'blocked' without an unlisting; the quota adds that no second counted submission of the account exists |
| `PolitenessProofs` | `TypeCorrect`, `SlotsKeepDistance`, `CacheStaysBounded`, `WaitsStayBounded` | the table agrees with the last slot given, or the host was forgotten and that slot is more than `KeepFor` ago; `Queued`, while the engine runs: a sleeper's slot is within one delay of now or of the slot of an earlier sleeper on the host (`Chained`), and what was reserved last is past or still slept for (`LastIsSlept`) |
| `AccountProofs` | `TypeCorrect`, `ResetsStick`, `OldPasswordsEnd`, `ServedOnlyGood`, `DeadTokensStayDead` | logins under way and tokens that are out have read a version no newer than the present one, and if equal have proved the present password (`LoginsCurrent`, `TokensCurrent`); a login alone owns the handle it stored (`HandlesOwned`); a request dead on arrival is caught by one of the two checks (`DeadRefused`) |
| `TwoFactorProofs` | `TypeCorrect`, `StepsAreSingleUse`, `RecoveryCodesMatch` | every step accepted in this enrolment is at or below `totp_last_step` (`UsedAreOld`) |
| `WatchProofs` | `TypeCorrect`, `ChangesAreTold`, `TransitionsOnly` | `InStep`: the reader knows the site's state the watch recorded last and, until a digest is blanked, its page too; a watch never observed has no digest |
| `PersonalDataProofs` | `TypeCorrect`, `SlotsAlwaysConserved`, `SlotsImplementPool`, `NothingIsLeftBehind`, `WritingIsExported`, `TagOverrunBounded` | `SlotInv`: types, `SlotsConserved` and `Alone` (no account has two requests between the slots) carry each other, and every step maps to one of `SlotPool` or to none; `Tidy`: a request about to insert has a row to insert for; `Written`: a section that has been passed has written what was kept of the account's writing; `Reserved`: tags and insertions under way together stay below the cap plus the requests |
| `LimitProofs`, `RateLimiter` | `TableStaysBounded`, `RefusalsHaveCause`, `AnswersAddUp`, `BurstsStayBounded` | `LimiterTyped` (types, and no open window charged beyond `Limit`); `Batches` (what a batch under way has added and skipped fits its size, and is its size when the answer is due); `PaidFor` (below) |
| `LimitProofs`, `Registration` | `OneAdministrator`, `AttemptsStayBounded` | `DecidedUnderLock`: who has decided on a role holds the lock, and if it is administrator there is none yet; `Accounted` and `Budgeted` (below) |

Three of these arguments are less direct than the others.

*Waits* (`WaitsStayBounded`). `Chained` alone is not kept by a reservation: the new slot follows the
last one given, and the chain needs a sleeper there. `LastIsSlept` says that there is one, or that the
slot is past. It is broken by a sleeper that is cancelled, which leaves its reservation behind; in the code that
happens only when the engine stops, hence the condition on `stopping`. From the chain the bound
follows by counting (`ChainedBound`): if a sleeper were further ahead than one delay per sleeper on its
host, each earlier link would be the same with one sleeper fewer.

*Bursts* (`BurstsStayBounded`). The sum over the ages `0 .. Window - 1` may reach into two windows.
`PaidFor` splits it at the tick in which the open one began: what was let in since was charged to its
count, at most `Limit`, and what is younger than that first tick falls short of the count by the unit
charged there (`OpenWindow`). The rest is from one earlier window that has ended, so that its own first
tick is out of the sum: it is less than `Limit`, and so is what is left between two windows
(`NoWindow`). Eviction and collection take only ended windows, so no count that still matters is lost.

*Attempts* (`AttemptsStayBounded`). The count is read before the deed and the row is written after
it. `Accounted` says, at every age and not only over the whole window, that what was done and is
not in the log is about to be written or was lost to a fault: at every age, because ticks move both tables
by one and a purge empties the oldest. `Budgeted` adds the requests that have passed the count to the deeds. A request
that passes saw fewer than `Cap` rows, and those at work with it are at most the others.

`LimitProofs` extends both `RateLimiter` and `Registration`, because their windows are sums over ages of the
same kind; the two share no constant, variable or definition, and no theorem about one uses the assumption of the other.

The sums, `SumFunction` and `SumFunctionOnSet` of the community modules, are folds over sets. What the proofs need of them
(`TotalEmpty`, `TotalStep`, `TotalAdd`, `TotalSame`) is proved from the definition by induction, which is stated with
sets instead of predicates: a set that contains 0 and the successor of each of its numbers contains `Nat`
(`CountUp`), likewise for finite sets (`SetInduction`), both from the well-foundedness of `<`.

The invariants of these three arguments were also checked by TLC, on instances like those of the runs.

Only model-checked: the liveness properties (`CrawlingEnds`, `FailedRevived`, `TxEnds`, `CatchesUp`,
`SlotsReturn`, `WindowEnds`, `LockoutEnds`), which need fairness and ENABLED, out of the provers' reach. Every
invariant and every action property of the passing runs is also a theorem.

## Not modelled, and the plan

Next, in this order:

1. `CircuitRenewal`: the mutex held across control-port I/O, the cooldown, the workers' count of
   failures, and the start and stop of the engine. Its state is read by nobody else and its worst
   case is a delay.
2. Verification of addresses and the privacy settings, each a single guarded UPDATE; the interval of
   a watch and marking events as seen.
3. Pure algorithms as operators: the group rules of `parseRobots`, against a reference.

Left out for good: page scraping and text scoring, cryptography, e-mail, logging, metrics,
read-only endpoints, HTTP plumbing, the frontend and deployment. They hold no shared state
of their own or are I/O; where the models depend on them, their result is a choice.

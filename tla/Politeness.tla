----------------------------- MODULE Politeness -----------------------------
(***************************************************************************)
(* How the engine's workers spare the hosts they crawl: the shared cache   *)
(* of robots.txt rules (IsAllowed, CrawlDelay) and the table of last       *)
(* accesses in which waitForDomain reserves a slot for each page fetch.    *)
(* A host is url.Host, with its port.  Time is counted in ticks.           *)
(***************************************************************************)
EXTENDS Integers, FiniteSets

CONSTANTS
  Host,
  Worker,
  Base,       \* defaultDomainDelay
  MaxDelay,   \* maxDomainDelay
  KeepFor,    \* age from which the cleanup forgets a last access (10 minutes)
  TTL,        \* robotsTTL
  MaxSize,    \* capacity of the robots cache
  Advertised, \* Crawl-delay values sites advertise
  Overflow,   \* the first Crawl-delay that does not fit a time.Duration
  MaxTime     \* bound of the model on the clock

ASSUME PolitenessAssumption ==
  /\ Base \in Nat \ {0}
  /\ MaxDelay \in Nat /\ Base <= MaxDelay
  /\ KeepFor \in Nat /\ MaxDelay <= KeepFor
  /\ TTL \in Nat
  /\ MaxSize \in Nat \ {0}
  /\ Advertised \subseteq Nat
  /\ Overflow \in Nat
  /\ MaxTime \in Nat
  /\ IsFiniteSet(Host) /\ IsFiniteSet(Worker)

VARIABLES
  clock,
  stopping, \* "yes" once Engine.Stop has cancelled the context
  cache,    \* the robots entry of each host
  last,     \* domainLastAccess: the last slot given on each host
  known,    \* "yes" for the hosts that domainLastAccess has an entry for
  task, host, \* what each worker does, and on which host
  since,    \* when a worker that waits for robots.txt has asked for it
  own,      \* the Crawl-delay a worker goes by when it reserves
  slot,     \* when a worker will fetch its page
  final     \* ghost: the last slot ever given on each host

politeVars == <<clock, stopping, cache, last, known, task, host, since, own, slot, final>>
tableVars == <<last, known, slot, final>>
cacheVars == <<cache, since, own>>

Task == {"idle", "robots", "delay", "robotsAgain", "reserve", "sleep", "fetch", "stopped"}
LongAgo == 0 - MaxDelay

Entry == [rule: {"none", "allow", "deny"}, delay: Int, at: Int]
NoEntry == [rule |-> "none", delay |-> 0, at |-> 0]
Cached(c) == {h \in Host : c[h].rule # "none"}

PoliteInit ==
  /\ clock = 0 /\ stopping = "no"
  /\ cache = [h \in Host |-> NoEntry]
  /\ last = [h \in Host |-> LongAgo] /\ known = [h \in Host |-> "no"]
  /\ task = [w \in Worker |-> "idle"]
  /\ host \in [Worker -> Host]
  /\ since = [w \in Worker |-> LongAgo]
  /\ own = [w \in Worker |-> 0]
  /\ slot = [w \in Worker |-> LongAgo]
  /\ final = [h \in Host |-> LongAgo]

Shift(w, from, to) == task[w] = from /\ task' = [task EXCEPT ![w] = to]

-----------------------------------------------------------------------------
(* The robots cache                                                        *)

Hit(h) == cache[h].rule # "none" /\ clock - cache[h].at <= TTL

\* parseRobots converts seconds with time.Duration(secs * 1e9): out of range
\* the result is the smallest integer (amd64) or the largest (arm64).
Parsed(s) == IF s < Overflow THEN {s} ELSE {0 - s, s}

\* What fetchRobots may come back with: rules, or none when the request fails.
Answer(w) == {[rule |-> "allow", delay |-> 0, at |-> since[w]]} \cup
  UNION {{[rule |-> r, delay |-> d, at |-> since[w]] :
             r \in {"allow", "deny"}, d \in Parsed(s)} : s \in Advertised}

Oldest(c) == {h \in Cached(c) : \A k \in Cached(c) : c[h].at <= c[k].at}

\* Faulty variant: the new entry is stored without making room.
StoreWithoutEviction(h, e) == cache' = [cache EXCEPT ![h] = e]

\* At capacity the oldest entry goes, then the new one is stored.
Store(h, e) ==
  IF Cardinality(Cached(cache)) >= MaxSize
  THEN \E old \in Oldest(cache) :
         cache' = [k \in Host |-> IF k = h THEN e
                                  ELSE IF k = old THEN NoEntry ELSE cache[k]]
  ELSE cache' = [cache EXCEPT ![h] = e]

\* A lookup that misses drops an expired entry and requests robots.txt.
Request(w, h) ==
  /\ cache' = [cache EXCEPT ![h] = NoEntry]
  /\ since' = [since EXCEPT ![w] = clock]

\* A worker has claimed a URL on h and calls IsAllowed.  A refused URL is
\* marked, and the worker goes on to the next.
IsAllowedHit(w, h) ==
  /\ stopping = "no"
  /\ Hit(h)
  /\ Shift(w, "idle", IF cache[h].rule = "deny" THEN "idle" ELSE "delay")
  /\ host' = [host EXCEPT ![w] = h]
  /\ UNCHANGED <<clock, stopping, cacheVars, tableVars>>

IsAllowedMiss(w, h) ==
  /\ stopping = "no"
  /\ ~Hit(h)
  /\ Shift(w, "idle", "robots")
  /\ host' = [host EXCEPT ![w] = h]
  /\ Request(w, h)
  /\ UNCHANGED <<clock, stopping, own, tableVars>>

IsAllowedFetched(w) ==
  /\ \E e \in Answer(w) :
       /\ Shift(w, "robots", IF e.rule = "deny" THEN "idle" ELSE "delay")
       /\ Store(host[w], e)
  /\ since' = [since EXCEPT ![w] = LongAgo]
  /\ UNCHANGED <<clock, stopping, host, own, tableVars>>

\* CrawlDelay looks the entry up again.
CrawlDelayHit(w) ==
  /\ Shift(w, "delay", "reserve")
  /\ Hit(host[w])
  /\ own' = [own EXCEPT ![w] = cache[host[w]].delay]
  /\ UNCHANGED <<clock, stopping, cache, since, host, tableVars>>

CrawlDelayMiss(w) ==
  /\ Shift(w, "delay", "robotsAgain")
  /\ ~Hit(host[w])
  /\ Request(w, host[w])
  /\ UNCHANGED <<clock, stopping, own, host, tableVars>>

CrawlDelayFetched(w) ==
  /\ Shift(w, "robotsAgain", "reserve")
  /\ \E e \in Answer(w) :
       /\ Store(host[w], e)
       /\ own' = [own EXCEPT ![w] = e.delay]
  /\ since' = [since EXCEPT ![w] = LongAgo]
  /\ UNCHANGED <<clock, stopping, host, tableVars>>

-----------------------------------------------------------------------------
(* waitForDomain                                                           *)

\* max(defaultDomainDelay, Crawl-delay), capped
Gap(d) == IF d <= Base THEN Base ELSE IF d > MaxDelay THEN MaxDelay ELSE d

\* Give worker w the slot t on its host.
Take(w, t) ==
  /\ slot' = [slot EXCEPT ![w] = t]
  /\ last' = [last EXCEPT ![host[w]] = t]
  /\ known' = [known EXCEPT ![host[w]] = "yes"]
  /\ final' = [final EXCEPT ![host[w]] = t]

\* Faulty variant: a worker that need not wait books the slot after its own.
ReserveAhead(w) ==
  LET free == last[host[w]] + Gap(own[w]) IN
  /\ IF known[host[w]] = "yes" /\ clock < free
     THEN Shift(w, "reserve", "sleep") /\ Take(w, free)
     ELSE Shift(w, "reserve", "fetch") /\ Take(w, clock + Gap(own[w]))
  /\ own' = [own EXCEPT ![w] = 0]
  /\ UNCHANGED <<clock, stopping, cache, since, host>>

\* Under domainMu: when the last slot is less than the gap ago (or in the
\* future), the next one is reserved before the lock is released.
Reserve(w) ==
  LET free == last[host[w]] + Gap(own[w]) IN
  /\ IF known[host[w]] = "yes" /\ clock < free
     THEN Shift(w, "reserve", "sleep") /\ Take(w, free)
     ELSE Shift(w, "reserve", "fetch") /\ Take(w, clock)
  /\ own' = [own EXCEPT ![w] = 0]
  /\ UNCHANGED <<clock, stopping, cache, since, host>>

\* Faulty variant: waking up overwrites later reservations.
WakeAndWrite(w) ==
  /\ Shift(w, "sleep", "fetch")
  /\ clock >= slot[w]
  /\ last' = [last EXCEPT ![host[w]] = clock]
  /\ UNCHANGED <<clock, stopping, cacheVars, known, slot, final, host>>

Wake(w) ==
  /\ Shift(w, "sleep", "fetch")
  /\ clock >= slot[w]
  /\ UNCHANGED <<clock, stopping, cacheVars, tableVars, host>>

\* The context is cancelled while waiting; the reservation stays.
Cancelled(w) ==
  /\ stopping = "yes"
  /\ task[w] \in {"idle", "sleep"}
  /\ task' = [task EXCEPT ![w] = "stopped"]
  /\ UNCHANGED <<clock, stopping, cacheVars, tableVars, host>>

\* ScrapePage, whatever comes of it
ScrapePage(w) ==
  /\ Shift(w, "fetch", "idle")
  /\ slot' = [slot EXCEPT ![w] = LongAgo]
  /\ UNCHANGED <<clock, stopping, cacheVars, last, known, final, host>>

\* The cleanup goroutine of Engine.Start
Cleanup ==
  /\ \E h \in Host : known[h] = "yes" /\ last[h] < clock - KeepFor
  /\ known' = [h \in Host |-> IF last[h] < clock - KeepFor THEN "no" ELSE known[h]]
  /\ UNCHANGED <<clock, stopping, cacheVars, last, slot, final, task, host>>

Stop ==
  /\ stopping = "no"
  /\ stopping' = "yes"
  /\ UNCHANGED <<clock, cacheVars, tableVars, task, host>>

ClockTick ==
  /\ clock < MaxTime
  /\ clock' = clock + 1
  /\ UNCHANGED <<stopping, cacheVars, tableVars, task, host>>

WorkerStep(w) ==
  \/ \E h \in Host : IsAllowedHit(w, h) \/ IsAllowedMiss(w, h)
  \/ IsAllowedFetched(w) \/ CrawlDelayHit(w) \/ CrawlDelayMiss(w) \/ CrawlDelayFetched(w)
  \/ Reserve(w) \/ Wake(w) \/ Cancelled(w) \/ ScrapePage(w)

PoliteNext == (\E w \in Worker : WorkerStep(w)) \/ Cleanup \/ Stop \/ ClockTick

PoliteSpec == PoliteInit /\ [][PoliteNext]_politeVars

-----------------------------------------------------------------------------
PoliteTypeOK ==
  /\ clock \in Nat /\ stopping \in {"yes", "no"}
  /\ cache \in [Host -> Entry]
  /\ last \in [Host -> Int] /\ known \in [Host -> {"yes", "no"}]
  /\ task \in [Worker -> Task] /\ host \in [Worker -> Host]
  /\ since \in [Worker -> Int] /\ own \in [Worker -> Int] /\ slot \in [Worker -> Int]
  /\ final \in [Host -> Int]

\* Two page fetches of one host are never scheduled closer than the gap of the
\* later one, whoever sleeps, wakes late or is cancelled in between, and
\* although the cleanup forgets hosts.
SlotsApart ==
  [][\A w \in Worker :
       Reserve(w) => slot'[w] >= final[host[w]] + Gap(own[w])]_politeVars

\* Workers queue up behind each other and behind nothing else: while the engine
\* runs, a wait is at most one gap per worker sleeping on the host.
WaitBounded ==
  stopping = "no" =>
    \A w \in Worker : task[w] = "sleep" =>
      slot[w] - clock <=
        MaxDelay * Cardinality({v \in Worker : task[v] = "sleep" /\ host[v] = host[w]})

\* The cache never outgrows its capacity, although several workers may fetch
\* the same host at once and store their answers after checking the size.
CacheBounded == Cardinality(Cached(cache)) <= MaxSize
=============================================================================

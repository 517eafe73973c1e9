-------------------------- MODULE PolitenessProofs --------------------------
(***************************************************************************)
(* Slots on a host keep their distance and the robots cache its size, for  *)
(* any number of workers and hosts and all delays; a worker that has to    *)
(* wait does so behind other workers only.                                 *)
(***************************************************************************)
EXTENDS Politeness, FiniteSetTheorems, WellFoundedInduction, TLAPS

USE PolitenessAssumption

LEMMA TypeInit == PoliteInit => PoliteTypeOK
  BY DEF PoliteInit, PoliteTypeOK, NoEntry, Entry, LongAgo, Task

LEMMA AnswerType ==
  ASSUME PoliteTypeOK, NEW w \in Worker PROVE Answer(w) \subseteq Entry
<1>1. since[w] \in Int
  BY DEF PoliteTypeOK
<1>2. \A s \in Advertised : Parsed(s) \subseteq Int
  BY DEF Parsed
<1> QED
  BY <1>1, <1>2 DEF Answer, Entry

LEMMA StoreType ==
  ASSUME cache \in [Host -> Entry], NEW h \in Host, NEW e \in Entry, Store(h, e)
  PROVE  cache' \in [Host -> Entry]
<1>1. NoEntry \in Entry
  BY DEF NoEntry, Entry
<1> QED
  BY <1>1 DEF Store

LEMMA TypeStep == PoliteTypeOK /\ [PoliteNext]_politeVars => PoliteTypeOK'
<1> SUFFICES ASSUME PoliteTypeOK, [PoliteNext]_politeVars PROVE PoliteTypeOK'
  OBVIOUS
<1>0. NoEntry \in Entry /\ LongAgo \in Int
  BY DEF NoEntry, Entry, LongAgo
<1> USE DEF PoliteTypeOK, Task, Shift, tableVars, cacheVars
<1>1. ASSUME NEW w \in Worker, NEW h \in Host, IsAllowedHit(w, h) PROVE PoliteTypeOK'
  BY <1>1 DEF IsAllowedHit
<1>2. ASSUME NEW w \in Worker, NEW h \in Host, IsAllowedMiss(w, h) PROVE PoliteTypeOK'
  BY <1>0, <1>2 DEF IsAllowedMiss, Request
<1>3. ASSUME NEW w \in Worker, IsAllowedFetched(w) PROVE PoliteTypeOK'
  <2>1. cache' \in [Host -> Entry]
    BY <1>3, AnswerType, StoreType DEF IsAllowedFetched
  <2> QED
    BY <1>0, <1>3, <2>1 DEF IsAllowedFetched
<1>4. ASSUME NEW w \in Worker, CrawlDelayHit(w) PROVE PoliteTypeOK'
  <2>1. cache[host[w]].delay \in Int
    BY DEF Entry
  <2> QED
    BY <1>4, <2>1 DEF CrawlDelayHit
<1>5. ASSUME NEW w \in Worker, CrawlDelayMiss(w) PROVE PoliteTypeOK'
  BY <1>0, <1>5 DEF CrawlDelayMiss, Request
<1>6. ASSUME NEW w \in Worker, CrawlDelayFetched(w) PROVE PoliteTypeOK'
  <2>1. cache' \in [Host -> Entry]
    BY <1>6, AnswerType, StoreType DEF CrawlDelayFetched
  <2>2. own' \in [Worker -> Int]
    <3>1. PICK e \in Answer(w) : own' = [own EXCEPT ![w] = e.delay]
      BY <1>6 DEF CrawlDelayFetched
    <3>2. e.delay \in Int
      BY AnswerType DEF Entry
    <3> QED
      BY <3>1, <3>2
  <2> QED
    BY <1>0, <1>6, <2>1, <2>2 DEF CrawlDelayFetched
<1>7. ASSUME NEW w \in Worker, Reserve(w) PROVE PoliteTypeOK'
  <2>1. last[host[w]] + Gap(own[w]) \in Int
    BY DEF Gap
  <2> QED
    BY <1>0, <1>7, <2>1 DEF Reserve, Take
<1>8. ASSUME NEW w \in Worker, Wake(w) \/ Cancelled(w) \/ ScrapePage(w) PROVE PoliteTypeOK'
  BY <1>0, <1>8 DEF Wake, Cancelled, ScrapePage
<1>9. CASE Cleanup \/ Stop \/ ClockTick
  BY <1>9 DEF Cleanup, Stop, ClockTick
<1>10. CASE UNCHANGED politeVars
  BY <1>10 DEF politeVars
<1> QED
  BY <1>1, <1>2, <1>3, <1>4, <1>5, <1>6, <1>7, <1>8, <1>9, <1>10 DEF PoliteNext, WorkerStep

\* Every variable keeps its type, the parsed delays included.
THEOREM TypeCorrect == PoliteSpec => []PoliteTypeOK
  BY TypeInit, TypeStep, PTL DEF PoliteSpec

-----------------------------------------------------------------------------
(* Slots.  An entry of domainLastAccess is the last slot given on its      *)
(* host; where there is none, that slot is out of reach of every gap.      *)

Table ==
  \A h \in Host : IF known[h] = "yes" THEN last[h] = final[h]
                                      ELSE final[h] <= clock - MaxDelay

LEMMA GapBounds ==
  ASSUME NEW d \in Int PROVE Gap(d) \in Int /\ Base <= Gap(d) /\ Gap(d) <= MaxDelay
  BY DEF Gap

LEMMA TableInit == PoliteInit => Table
  BY DEF PoliteInit, Table, LongAgo

LEMMA TableStep == PoliteTypeOK /\ Table /\ [PoliteNext]_politeVars => Table'
<1> SUFFICES ASSUME PoliteTypeOK, Table, [PoliteNext]_politeVars PROVE Table'
  OBVIOUS
<1> USE DEF PoliteTypeOK, Table, tableVars
<1>1. ASSUME NEW w \in Worker, Reserve(w) PROVE Table'
  BY <1>1 DEF Reserve, Take
<1>2. CASE Cleanup
  BY <1>2 DEF Cleanup
<1>3. CASE ClockTick
  BY <1>3 DEF ClockTick
<1>4. CASE UNCHANGED <<clock, last, known, final>>
  BY <1>4
<1>5. ASSUME NEW w \in Worker, NEW h \in Host, IsAllowedHit(w, h) \/ IsAllowedMiss(w, h)
      PROVE UNCHANGED <<clock, last, known, final>>
  BY <1>5 DEF IsAllowedHit, IsAllowedMiss
<1>6. ASSUME NEW w \in Worker,
             \/ IsAllowedFetched(w) \/ CrawlDelayHit(w) \/ CrawlDelayMiss(w)
             \/ CrawlDelayFetched(w) \/ Wake(w) \/ Cancelled(w) \/ ScrapePage(w)
      PROVE UNCHANGED <<clock, last, known, final>>
  BY <1>6 DEF IsAllowedFetched, CrawlDelayHit, CrawlDelayMiss, CrawlDelayFetched, Wake,
              Cancelled, ScrapePage
<1>7. Stop \/ UNCHANGED politeVars => UNCHANGED <<clock, last, known, final>>
  BY DEF Stop, politeVars
<1> QED
  BY <1>1, <1>2, <1>3, <1>4, <1>5, <1>6, <1>7 DEF PoliteNext, WorkerStep

\* waitForDomain never schedules two fetches of a host closer than the gap,
\* whatever sleeping, late waking, cancelling and forgetting goes on.
THEOREM SlotsKeepDistance == PoliteSpec => SlotsApart
<1>1. ASSUME PoliteTypeOK, Table, NEW w \in Worker, Reserve(w)
      PROVE slot'[w] >= final[host[w]] + Gap(own[w])
  <2>1. own[w] \in Int
    BY <1>1 DEF PoliteTypeOK
  <2>2. /\ Gap(own[w]) \in Int /\ Gap(own[w]) <= MaxDelay
    BY <2>1, GapBounds
  <2> QED
    BY <1>1, <2>2 DEF Reserve, Take, PoliteTypeOK, Table
<1>2. PoliteTypeOK /\ Table /\ [PoliteNext]_politeVars
      => [\A w \in Worker :
            Reserve(w) => slot'[w] >= final[host[w]] + Gap(own[w])]_politeVars
  BY <1>1
<1> QED
  BY <1>2, TypeInit, TypeStep, TableInit, TableStep, PTL DEF PoliteSpec, SlotsApart

-----------------------------------------------------------------------------
(* The robots cache.                                                       *)

LEMMA CachedFinite == \A c : IsFiniteSet(Cached(c)) /\ Cardinality(Cached(c)) \in Nat
<1> TAKE c
<1>1. Cached(c) \subseteq Host
  BY DEF Cached
<1> QED
  BY <1>1, FS_Subset, FS_CardinalityType

LEMMA OneMore ==
  ASSUME NEW S, IsFiniteSet(S), NEW x
  PROVE  IsFiniteSet(S \cup {x}) /\ Cardinality(S \cup {x}) <= Cardinality(S) + 1
<1>1. /\ IsFiniteSet(S \cup {x})
      /\ Cardinality(S \cup {x}) = IF x \in S THEN Cardinality(S) ELSE Cardinality(S) + 1
  BY FS_AddElement
<1>2. Cardinality(S) \in Nat
  BY FS_CardinalityType
<1> QED
  BY <1>1, <1>2

\* Storing keeps the bound: one more entry fits, or one has just gone.
LEMMA StoreBound ==
  ASSUME cache \in [Host -> Entry], NEW h \in Host, NEW e, Store(h, e),
         Cardinality(Cached(cache)) <= MaxSize
  PROVE  Cardinality(Cached(cache')) <= MaxSize
<1> DEFINE C == Cached(cache)
           D == Cached(cache')
<1>0. IsFiniteSet(C) /\ Cardinality(C) \in Nat /\ IsFiniteSet(D) /\ Cardinality(D) \in Nat
  BY CachedFinite
<1>1. CASE Cardinality(C) >= MaxSize
  <2>1. PICK old \in Oldest(cache) :
          cache' = [k \in Host |-> IF k = h THEN e
                                   ELSE IF k = old THEN NoEntry ELSE cache[k]]
    BY <1>1 DEF Store
  <2>2. old \in C
    BY <2>1 DEF Oldest
  <2>3. D \subseteq (C \ {old}) \cup {h}
    BY <2>1 DEF Cached, NoEntry
  <2>4. IsFiniteSet(C \ {old}) /\ Cardinality(C \ {old}) = Cardinality(C) - 1
    BY <1>0, <2>2, FS_RemoveElement
  <2>5. /\ IsFiniteSet((C \ {old}) \cup {h})
        /\ Cardinality((C \ {old}) \cup {h}) <= Cardinality(C \ {old}) + 1
    BY <2>4, OneMore
  <2>6. Cardinality(D) <= Cardinality((C \ {old}) \cup {h})
    BY <2>3, <2>5, FS_Subset
  <2>7. Cardinality((C \ {old}) \cup {h}) \in Nat
    BY <2>5, FS_CardinalityType
  <2> HIDE DEF C, D
  <2>8. Cardinality(D) <= Cardinality(C)
    BY <1>0, <2>4, <2>5, <2>6, <2>7
  <2>9. Cardinality(C) <= MaxSize
    BY DEF C
  <2> QED
    BY <1>0, <2>8, <2>9 DEF D
<1>2. CASE Cardinality(C) < MaxSize
  <2>1. D \subseteq C \cup {h}
    BY <1>0, <1>2 DEF Store, Cached
  <2>2. IsFiniteSet(C \cup {h}) /\ Cardinality(C \cup {h}) <= Cardinality(C) + 1
    BY <1>0, OneMore
  <2>3. Cardinality(D) <= Cardinality(C \cup {h})
    BY <2>1, <2>2, FS_Subset
  <2>4. Cardinality(C \cup {h}) \in Nat
    BY <2>2, FS_CardinalityType
  <2> HIDE DEF C, D
  <2>5. Cardinality(D) <= MaxSize
    BY <1>0, <1>2, <2>2, <2>3, <2>4
  <2> QED
    BY <2>5 DEF D
<1> QED
  BY <1>0, <1>1, <1>2

LEMMA RequestBound ==
  ASSUME cache \in [Host -> Entry], NEW w \in Worker, NEW h \in Host, Request(w, h),
         Cardinality(Cached(cache)) <= MaxSize
  PROVE  Cardinality(Cached(cache')) <= MaxSize
<1>1. Cached(cache') \subseteq Cached(cache)
  BY DEF Request, Cached, NoEntry
<1> QED
  BY <1>1, CachedFinite, FS_Subset

LEMMA CacheStep == PoliteTypeOK /\ CacheBounded /\ [PoliteNext]_politeVars => CacheBounded'
<1> SUFFICES ASSUME PoliteTypeOK, CacheBounded, [PoliteNext]_politeVars PROVE CacheBounded'
  OBVIOUS
<1> USE DEF PoliteTypeOK, CacheBounded, cacheVars
<1>1. ASSUME NEW w \in Worker, IsAllowedFetched(w) \/ CrawlDelayFetched(w)
      PROVE CacheBounded'
  BY <1>1, StoreBound DEF IsAllowedFetched, CrawlDelayFetched
<1>2. ASSUME NEW w \in Worker, NEW h \in Host, IsAllowedMiss(w, h) PROVE CacheBounded'
  BY <1>2, RequestBound DEF IsAllowedMiss
<1>3. ASSUME NEW w \in Worker, CrawlDelayMiss(w) PROVE CacheBounded'
  BY <1>3, RequestBound DEF CrawlDelayMiss
<1>4. ASSUME NEW w \in Worker, NEW h \in Host, IsAllowedHit(w, h) PROVE CacheBounded'
  BY <1>4 DEF IsAllowedHit
<1>5. ASSUME NEW w \in Worker,
             CrawlDelayHit(w) \/ Reserve(w) \/ Wake(w) \/ Cancelled(w) \/ ScrapePage(w)
      PROVE CacheBounded'
  BY <1>5 DEF CrawlDelayHit, Reserve, Wake, Cancelled, ScrapePage
<1>6. CASE Cleanup \/ Stop \/ ClockTick \/ UNCHANGED politeVars
  BY <1>6 DEF Cleanup, Stop, ClockTick, politeVars
<1> QED
  BY <1>1, <1>2, <1>3, <1>4, <1>5, <1>6 DEF PoliteNext, WorkerStep

\* The eviction of IsAllowed and CrawlDelay keeps the cache within maxSize.
THEOREM CacheStaysBounded == PoliteSpec => []CacheBounded
<1>1. PoliteInit => CacheBounded
  <2>1. PoliteInit => Cached(cache) = {}
    BY DEF PoliteInit, Cached, NoEntry
  <2> QED
    BY <2>1, FS_EmptySet DEF CacheBounded
<1> QED
  BY <1>1, CacheStep, TypeCorrect, TypeInit, TypeStep, PTL DEF PoliteSpec

-----------------------------------------------------------------------------
(* Waiting.  A sleeper's slot is within one gap of now or of the slot of a *)
(* sleeper before it, and so on down the line of those sleeping on the     *)
(* host: what was reserved last is in the past or still slept for.         *)

Chained ==
  \A w \in Worker : task[w] = "sleep" =>
    \/ slot[w] <= clock + MaxDelay
    \/ \E v \in Worker : /\ task[v] = "sleep" /\ host[v] = host[w]
                         /\ slot[v] < slot[w] /\ slot[w] <= slot[v] + MaxDelay

LastIsSlept ==
  \A h \in Host : known[h] = "yes" =>
    last[h] <= clock \/ \E v \in Worker : task[v] = "sleep" /\ host[v] = h /\ slot[v] = last[h]

Queued == stopping = "no" => Chained /\ LastIsSlept

LEMMA QueuedInit == PoliteInit => Queued
  BY DEF PoliteInit, Queued, Chained, LastIsSlept

\* A worker that does not sleep before or after a step may do as it likes.
LEMMA AwakeStep ==
  ASSUME PoliteTypeOK, Queued, NEW w \in Worker, task[w] # "sleep", task'[w] # "sleep",
         \A v \in Worker : v # w => task'[v] = task[v] /\ host'[v] = host[v] /\ slot'[v] = slot[v],
         UNCHANGED <<clock, stopping, last, known>>
  PROVE  Queued'
<1>1. \A v \in Worker : \A h : task[v] = "sleep" /\ host[v] = h =>
        v # w /\ task'[v] = "sleep" /\ host'[v] = h /\ slot'[v] = slot[v]
  OBVIOUS
<1>2. \A v \in Worker : task'[v] = "sleep" => v # w /\ task[v] = "sleep"
  OBVIOUS
<1> SUFFICES ASSUME stopping = "no" PROVE Chained' /\ LastIsSlept'
  BY DEF Queued
<1>3. Chained'
  <2> SUFFICES ASSUME NEW v \in Worker, task'[v] = "sleep"
               PROVE  \/ slot'[v] <= clock + MaxDelay
                      \/ \E u \in Worker : /\ (task'[u] = "sleep" /\ host'[u] = host'[v])
                                           /\ slot'[u] < slot'[v] /\ slot'[v] <= slot'[u] + MaxDelay
    BY DEF Chained
  <2>1. v # w /\ task[v] = "sleep" /\ host'[v] = host[v] /\ slot'[v] = slot[v]
    BY <1>2
  <2> QED BY <1>1, <2>1 DEF Queued, Chained
<1>4. LastIsSlept'
  BY <1>1 DEF Queued, LastIsSlept
<1> QED BY <1>3, <1>4

LEMMA ReserveQueued ==
  ASSUME PoliteTypeOK, Queued, NEW w \in Worker, Reserve(w)
  PROVE  Queued'
<1> DEFINE g == Gap(own[w])
           h == host[w]
<1>1. own[w] \in Int
  BY DEF PoliteTypeOK
<1>2. g \in Int /\ Base <= g /\ g <= MaxDelay /\ h \in Host /\ last[h] \in Int /\ clock \in Int
  BY <1>1, GapBounds DEF PoliteTypeOK
<1>3. UNCHANGED <<clock, stopping, host>> /\ task[w] = "reserve"
  BY DEF Reserve, Shift
<1> SUFFICES ASSUME stopping = "no" PROVE Chained' /\ LastIsSlept'
  BY <1>3 DEF Queued
<1>4. PICK t \in Int, to \in {"sleep", "fetch"} :
        /\ task' = [task EXCEPT ![w] = to] /\ slot' = [slot EXCEPT ![w] = t]
        /\ last' = [last EXCEPT ![h] = t] /\ known' = [known EXCEPT ![h] = "yes"]
        /\ to = "sleep" => known[h] = "yes" /\ clock < last[h] + g /\ t = last[h] + g
        /\ to = "fetch" => t = clock
  BY <1>2 DEF Reserve, Take, Shift
<1>5. /\ task'[w] = to /\ slot'[w] = t /\ last'[h] = t
      /\ \A v \in Worker : v # w => task'[v] = task[v] /\ slot'[v] = slot[v]
      /\ \A k \in Host : k # h => last'[k] = last[k] /\ known'[k] = known[k]
  BY <1>2, <1>4 DEF PoliteTypeOK
<1> HIDE DEF g, h
<1>6. \A v \in Worker : \A k : task[v] = "sleep" /\ host[v] = k =>
        v # w /\ task'[v] = "sleep" /\ host'[v] = k /\ slot'[v] = slot[v]
  BY <1>3, <1>5
<1>7. ASSUME NEW v \in Worker, task'[v] = "sleep"
      PROVE  \/ slot'[v] <= clock + MaxDelay
             \/ \E u \in Worker : /\ (task'[u] = "sleep" /\ host'[u] = host[v])
                                  /\ slot'[u] < slot'[v] /\ slot'[v] <= slot'[u] + MaxDelay
  <2>1. CASE v # w
    <3>1. task[v] = "sleep" /\ slot'[v] = slot[v]
      BY <1>5, <1>7, <2>1
    <3> QED BY <1>6, <3>1 DEF Queued, Chained
  <2>2. CASE v = w
    <3>1. known[h] = "yes" /\ t = last[h] + g /\ slot'[v] = t
      BY <1>4, <1>5, <1>7, <2>2
    <3>2. CASE last[h] <= clock
      BY <1>2, <3>1, <3>2
    <3>3. CASE ~(last[h] <= clock)
      <4>1. PICK u \in Worker : (task[u] = "sleep" /\ host[u] = h) /\ slot[u] = last[h]
        BY <1>2, <3>1, <3>3 DEF Queued, LastIsSlept
      <4>2. (task'[u] = "sleep" /\ host'[u] = h) /\ slot'[u] = last[h]
        BY <1>6, <4>1
      <4>3. slot'[u] < slot'[v] /\ slot'[v] <= slot'[u] + MaxDelay
        BY <1>2, <3>1, <4>2
      <4> QED BY <2>2, <4>2, <4>3 DEF h
    <3> QED BY <3>2, <3>3
  <2> QED BY <2>1, <2>2
<1>8. Chained'
  BY <1>3, <1>7 DEF Chained
<1>9. ASSUME NEW k \in Host, known'[k] = "yes"
      PROVE  \/ last'[k] <= clock
             \/ \E v \in Worker : task'[v] = "sleep" /\ host'[v] = k /\ slot'[v] = last'[k]
  <2>1. CASE k # h
    BY <1>5, <1>6, <1>9, <2>1 DEF Queued, LastIsSlept
  <2>2. CASE k = h /\ to = "fetch"
    BY <1>2, <1>4, <1>5, <2>2
  <2>3. CASE k = h /\ to = "sleep"
    <3>1. (task'[w] = "sleep" /\ host'[w] = k)
      BY <1>3, <1>5, <2>3 DEF h
    <3> QED BY <1>5, <2>3, <3>1
  <2> QED BY <2>1, <2>2, <2>3
<1>10. LastIsSlept'
  BY <1>3, <1>9 DEF LastIsSlept
<1> QED BY <1>8, <1>10

\* Who wakes had a slot that has come: those behind it are within a gap of now.
LEMMA WakeQueued ==
  ASSUME PoliteTypeOK, Queued, NEW w \in Worker, Wake(w)
  PROVE  Queued'
<1>1. /\ task[w] = "sleep" /\ task' = [task EXCEPT ![w] = "fetch"] /\ slot[w] <= clock
      /\ UNCHANGED <<clock, stopping, host, slot, last, known>>
  BY DEF Wake, Shift, tableVars, PoliteTypeOK
<1>2. task'[w] = "fetch" /\ \A v \in Worker : v # w => task'[v] = task[v]
  BY <1>1 DEF PoliteTypeOK
<1>3. clock \in Int /\ \A v \in Worker : slot[v] \in Int
  BY DEF PoliteTypeOK
<1> SUFFICES ASSUME stopping = "no" PROVE Chained' /\ LastIsSlept'
  BY <1>1 DEF Queued
<1>4. \A v \in Worker : \A k : task[v] = "sleep" /\ host[v] = k =>
        slot[v] <= clock \/ (task'[v] = "sleep" /\ host'[v] = k)
  BY <1>1, <1>2
<1>5. ASSUME NEW v \in Worker, task'[v] = "sleep"
      PROVE  \/ slot[v] <= clock + MaxDelay
             \/ \E u \in Worker : /\ (task'[u] = "sleep" /\ host'[u] = host[v])
                                  /\ slot[u] < slot[v] /\ slot[v] <= slot[u] + MaxDelay
  <2>1. task[v] = "sleep"
    BY <1>2, <1>5
  <2>2. CASE slot[v] <= clock + MaxDelay
    BY <2>2
  <2>3. CASE ~(slot[v] <= clock + MaxDelay)
    <3>1. PICK u \in Worker : /\ (task[u] = "sleep" /\ host[u] = host[v])
                              /\ slot[u] < slot[v] /\ slot[v] <= slot[u] + MaxDelay
      BY <2>1, <2>3 DEF Queued, Chained
    <3>2. ~(slot[u] <= clock)
      BY <1>3, <2>3, <3>1
    <3> QED BY <1>4, <3>1, <3>2
  <2> QED BY <2>2, <2>3
<1>6. Chained'
  BY <1>1, <1>5 DEF Chained
<1>7. LastIsSlept'
  BY <1>1, <1>4 DEF Queued, LastIsSlept
<1> QED BY <1>6, <1>7

LEMMA TickQueued ==
  ASSUME PoliteTypeOK, Queued, ClockTick
  PROVE  Queued'
<1>1. clock' = clock + 1 /\ clock \in Int /\ UNCHANGED <<stopping, host, slot, last, known, task>>
  BY DEF ClockTick, tableVars, PoliteTypeOK
<1>2. /\ \A v \in Worker : \A k :
           (task'[v] = "sleep" /\ host'[v] = k) = (task[v] = "sleep" /\ host[v] = k)
      /\ \A v \in Worker :
           slot[v] \in Int /\ (slot[v] <= clock + MaxDelay => slot[v] <= (clock + 1) + MaxDelay)
      /\ \A k \in Host : last[k] \in Int /\ (last[k] <= clock => last[k] <= clock + 1)
  BY <1>1 DEF PoliteTypeOK
<1>3. Chained => Chained'
  BY <1>1, <1>2 DEF Chained
<1>4. LastIsSlept => LastIsSlept'
  BY <1>1, <1>2 DEF LastIsSlept
<1> QED BY <1>1, <1>3, <1>4 DEF Queued

LEMMA QueuedStep == PoliteTypeOK /\ Queued /\ [PoliteNext]_politeVars => Queued'
<1> SUFFICES ASSUME PoliteTypeOK, Queued, [PoliteNext]_politeVars PROVE Queued'
  OBVIOUS
<1> USE DEF Shift, cacheVars, tableVars
<1>1. ASSUME NEW w \in Worker, NEW h \in Host, IsAllowedHit(w, h) \/ IsAllowedMiss(w, h)
      PROVE Queued'
  <2>1. /\ task[w] # "sleep" /\ task'[w] # "sleep" /\ UNCHANGED <<clock, stopping, last, known>>
        /\ \A v \in Worker : v # w => task'[v] = task[v] /\ host'[v] = host[v] /\ slot'[v] = slot[v]
    BY <1>1 DEF IsAllowedHit, IsAllowedMiss, PoliteTypeOK
  <2> QED BY <2>1, AwakeStep
<1>2. ASSUME NEW w \in Worker,
             \/ IsAllowedFetched(w) \/ CrawlDelayHit(w) \/ CrawlDelayMiss(w)
             \/ CrawlDelayFetched(w) \/ ScrapePage(w)
      PROVE Queued'
  <2>1. /\ task[w] # "sleep" /\ task'[w] # "sleep" /\ UNCHANGED <<clock, stopping, last, known>>
        /\ \A v \in Worker : v # w => task'[v] = task[v] /\ host'[v] = host[v] /\ slot'[v] = slot[v]
    BY <1>2 DEF IsAllowedFetched, CrawlDelayHit, CrawlDelayMiss, CrawlDelayFetched, ScrapePage,
                PoliteTypeOK
  <2> QED BY <2>1, AwakeStep
<1>3. ASSUME NEW w \in Worker, Reserve(w) \/ Wake(w) PROVE Queued'
  BY <1>3, ReserveQueued, WakeQueued
<1>4. ASSUME NEW w \in Worker, Cancelled(w) PROVE Queued'
  BY <1>4 DEF Cancelled, Queued
<1>5. CASE Cleanup
  <2>1. /\ UNCHANGED <<clock, stopping, task, host, slot, last>>
        /\ \A h \in Host : known'[h] = "yes" => known[h] = "yes"
    BY <1>5 DEF Cleanup, PoliteTypeOK
  <2> QED BY <2>1 DEF Queued, Chained, LastIsSlept
<1>6. CASE Stop
  BY <1>6 DEF Stop, Queued
<1>7. CASE UNCHANGED politeVars
  BY <1>7 DEF politeVars, Queued, Chained, LastIsSlept
<1> QED
  BY <1>1, <1>2, <1>3, <1>4, <1>5, <1>6, <1>7, TickQueued DEF PoliteNext, WorkerStep

\* Induction over the natural numbers, for a set.
LEMMA CountUp ==
  ASSUME NEW B, 0 \in B, \A n \in Nat : n \in B => n + 1 \in B
  PROVE  Nat \subseteq B
<1> DEFINE T == Nat \ B
<1> SUFFICES ASSUME T # {} PROVE FALSE
  OBVIOUS
<1>1. \E R : IsWellFoundedOn(R, Nat) /\ \A x, y \in Nat : <<y, x>> \in R <=> y < x
  <2>1. \A x, y \in Nat : <<y, x>> \in OpToRel(<, Nat) <=> y < x
    BY DEF OpToRel
  <2> QED BY <2>1, NatLessThanWellFounded, Zenon
<1>2. PICK R : IsWellFoundedOn(R, Nat) /\ \A x, y \in Nat : <<y, x>> \in R <=> y < x
  BY <1>1
<1>3. PICK n \in T : \A m \in T : ~(<<m, n>> \in R)
  BY <1>2, WFMin
<1>4. \A m \in T : ~(m < n)
  BY <1>2, <1>3, Zenon
<1>5. n # 0 /\ n - 1 \in Nat /\ n - 1 \in B
  BY <1>3, <1>4
<1> QED BY <1>3, <1>5

\* Down the line of sleepers, the wait shrinks by at most a gap per sleeper.
LEMMA ChainedBound ==
  ASSUME PoliteTypeOK, Chained
  PROVE  \A w \in Worker : task[w] = "sleep" =>
           slot[w] - clock <=
             MaxDelay * Cardinality({v \in Worker : task[v] = "sleep" /\ host[v] = host[w]})
<1> DEFINE Line(w) == {v \in Worker : task[v] = "sleep" /\ host[v] = host[w]}
           Ahead(w) == {v \in Line(w) : slot[v] <= slot[w]}
           B == {n \in Nat : \A w \in Worker :
                   task[w] = "sleep" /\ Cardinality(Ahead(w)) <= n => slot[w] - clock <= MaxDelay * n}
<1>0. clock \in Int /\ MaxDelay \in Nat /\ \A w \in Worker : slot[w] \in Int
  BY DEF PoliteTypeOK
<1>1. \A w \in Worker : /\ IsFiniteSet(Line(w)) /\ Cardinality(Line(w)) \in Nat
                        /\ IsFiniteSet(Ahead(w)) /\ Cardinality(Ahead(w)) \in Nat
                        /\ Cardinality(Ahead(w)) <= Cardinality(Line(w))
  <2> TAKE w \in Worker
  <2>1. Line(w) \subseteq Worker /\ Ahead(w) \subseteq Line(w)
    OBVIOUS
  <2>2. IsFiniteSet(Line(w))
    BY <2>1, FS_Subset
  <2> QED BY <2>1, <2>2, FS_Subset, FS_CardinalityType
<1>2. 0 \in B
  <2> SUFFICES ASSUME NEW w \in Worker, task[w] = "sleep", Cardinality(Ahead(w)) <= 0
               PROVE  FALSE
    OBVIOUS
  <2>1. w \in Ahead(w)
    BY <1>0
  <2> HIDE DEF Ahead, Line
  <2>2. Cardinality(Ahead(w)) = 0
    BY <1>1
  <2>3. Ahead(w) = {}
    BY <1>1, <2>2, FS_EmptySet
  <2> QED BY <2>1, <2>3
<1>3. ASSUME NEW n \in Nat, n \in B PROVE n + 1 \in B
  <2> SUFFICES ASSUME NEW w \in Worker, task[w] = "sleep", Cardinality(Ahead(w)) <= n + 1
               PROVE  slot[w] - clock <= MaxDelay * (n + 1)
    OBVIOUS
  <2>1. MaxDelay * (n + 1) = MaxDelay * n + MaxDelay /\ MaxDelay * n \in Nat
    OBVIOUS
  <2>2. CASE slot[w] <= clock + MaxDelay
    BY <1>0, <2>1, <2>2
  <2>3. ASSUME NEW v \in Worker, task[v] = "sleep" /\ host[v] = host[w],
               slot[v] < slot[w], slot[w] <= slot[v] + MaxDelay
        PROVE  slot[w] - clock <= MaxDelay * (n + 1)
    <3>1. Ahead(v) \subseteq Ahead(w) \ {w} /\ w \in Ahead(w)
      BY <1>0, <2>3
    <3>2. /\ Cardinality(Ahead(w) \ {w}) = Cardinality(Ahead(w)) - 1
          /\ IsFiniteSet(Ahead(w) \ {w})
      BY <1>1, <3>1, FS_RemoveElement
    <3>3. Cardinality(Ahead(v)) <= Cardinality(Ahead(w) \ {w})
      BY <3>1, <3>2, FS_Subset
    <3> HIDE DEF Ahead, Line
    <3>4. Cardinality(Ahead(v)) <= n
      BY <1>1, <3>2, <3>3
    <3>5. slot[v] - clock <= MaxDelay * n
      BY <1>3, <2>3, <3>4
    <3> QED BY <1>0, <2>1, <2>3, <3>5
  <2> QED BY <2>2, <2>3 DEF Chained
<1> HIDE DEF B
<1>4. Nat \subseteq B
  BY <1>2, <1>3, CountUp
<1> QED BY <1>1, <1>4 DEF B

\* waitForDomain: whoever sleeps before a fetch waits one gap at most for every
\* worker asleep on that host, however late the others wake and whatever delays the
\* sites ask for.
THEOREM WaitsStayBounded == PoliteSpec => []WaitBounded
<1>1. PoliteTypeOK /\ Queued => WaitBounded
  BY ChainedBound DEF Queued, WaitBounded
<1> QED BY <1>1, TypeInit, TypeStep, QueuedInit, QueuedStep, PTL DEF PoliteSpec
=============================================================================

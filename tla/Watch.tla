-------------------------------- MODULE Watch -------------------------------
(***************************************************************************)
(* The change feed of one watched site of one account.  A crawl stores the *)
(* page's digest in the node's row (SaveNode) and then, in a transaction   *)
(* of its own, folds its result into the watch (RecordWatchObservation),   *)
(* which keeps a watermark of the digest it reported last.  Two workers    *)
(* may be busy with one site: the stuck sweeper hands a slow one's row on. *)
(*                                                                         *)
(* Pages stand for their digests.  The feed is represented by what its     *)
(* reader concludes from it, the ghosts told and believed.                 *)
(***************************************************************************)
EXTENDS Naturals

CONSTANTS
  Page,   \* what the site may say
  None,   \* NULL
  Worker

ASSUME WatchAssumption == None \notin Page

VARIABLES
  node, hash,       \* the row ("there" or "gone") and its content_hash
  watch,            \* "on" or "off"
  lastHash, lastUp, \* last_hash and last_reachable ("null", "up" or "down")
  doing,            \* what each worker does
  page, up,         \* the page a worker has fetched, and whether the site answers
  read,             \* the content_hash its observation has read
  told, believed,   \* ghosts: the page and the state the feed's reader knows of
  blanked           \* ghost: "yes" once NULL has replaced a digest in last_hash

nodeVars == <<node, hash>>
watchVars == <<watch, lastHash, lastUp, told, believed, blanked>>
workVars == <<page, up, read>>
feedVars == <<node, hash, watch, lastHash, lastUp, doing, page, up, read, told,
              believed, blanked>>

Digest == Page \cup {None}
Doing == {"idle", "upsert", "update", "observe", "locking"}

\* A watch that has never been observed.
NewWatch ==
  /\ lastHash' = None /\ lastUp' = "null"
  /\ told' = None /\ believed' = "null" /\ blanked' = "no"

WatchInit ==
  /\ node = "there" /\ hash = None
  /\ watch = "off" /\ lastHash = None /\ lastUp = "null"
  /\ doing = [w \in Worker |-> "idle"]
  /\ page = [w \in Worker |-> None]
  /\ up = [w \in Worker |-> "down"]
  /\ read = [w \in Worker |-> None]
  /\ told = None /\ believed = "null" /\ blanked = "no"

Turn(w, from, to) == doing[w] = from /\ doing' = [doing EXCEPT ![w] = to]

\* The worker turns to its next URL.
Rest(w) ==
  /\ doing' = [doing EXCEPT ![w] = "idle"]
  /\ page' = [page EXCEPT ![w] = None]
  /\ up' = [up EXCEPT ![w] = "down"]
  /\ read' = [read EXCEPT ![w] = None]

-----------------------------------------------------------------------------
(* A crawl                                                                 *)

\* A page was fetched and SaveNode has read the stored digest; the row may have
\* been deleted since it was claimed.  A status of 400 or more is stored like any
\* other and counts as not answering.
ReadOldHash(w) ==
  \E p \in Page, u \in {"up", "down"} :
    /\ Turn(w, "idle", IF hash = p THEN "update" ELSE "upsert")
    /\ page' = [page EXCEPT ![w] = p]
    /\ up' = [up EXCEPT ![w] = u]
    /\ UNCHANGED <<nodeVars, watchVars, read>>

\* Faulty variant: a crawl that found nothing new does not report to the watch.
SaveNodeSkipping(w) ==
  /\ doing[w] \in {"upsert", "update"}
  /\ IF doing[w] = "upsert"
     THEN /\ doing' = [doing EXCEPT ![w] = "observe"]
          /\ node' = "there" /\ hash' = page[w]
          /\ UNCHANGED workVars
     ELSE Rest(w) /\ UNCHANGED nodeVars
  /\ UNCHANGED watchVars

\* SaveNode's write: the upsert recreates a row that has gone, the minimal
\* update touches neither the row's existence nor its digest.
SaveNode(w) ==
  /\ doing[w] \in {"upsert", "update"}
  /\ doing' = [doing EXCEPT ![w] = "observe"]
  /\ IF doing[w] = "upsert"
     THEN node' = "there" /\ hash' = page[w]
     ELSE UNCHANGED nodeVars
  /\ UNCHANGED <<watchVars, workVars>>

\* The write fails, or spares a row that has been blocked; the observation is
\* recorded all the same.
SaveNodeFails(w) ==
  /\ doing[w] \in {"upsert", "update"}
  /\ doing' = [doing EXCEPT ![w] = "observe"]
  /\ UNCHANGED <<nodeVars, watchVars, workVars>>

ScrapeFails(w) ==
  /\ Turn(w, "idle", "observe")
  /\ UNCHANGED <<nodeVars, watchVars, workVars>>

\* The SELECT of RecordWatchObservation takes its snapshot.  The row of nodes is
\* read in it; the row of watches is locked and read in its newest version.
Snapshot(w) ==
  /\ doing[w] = "observe"
  /\ IF watch = "on"
     THEN /\ doing' = [doing EXCEPT ![w] = "locking"]
          /\ read' = [read EXCEPT ![w] = hash]
          /\ UNCHANGED <<page, up>>
     ELSE Rest(w)
  /\ UNCHANGED <<nodeVars, watchVars>>

\* Faulty variant: one observation is worth one event at most.
KindsFirstOnly(w) ==
  IF lastUp = "up" /\ up[w] = "down" THEN {"unreachable"}
  ELSE IF lastUp = "down" /\ up[w] = "up" THEN {"recovered"}
  ELSE IF /\ lastUp # "null" /\ up[w] = "up"
          /\ lastHash # None /\ read[w] # None /\ lastHash # read[w]
       THEN {"content_changed"} ELSE {}

\* The events of an observation; the first one reports nothing.
Kinds(w) ==
  (IF lastUp = "up" /\ up[w] = "down" THEN {"unreachable"} ELSE {}) \cup
  (IF lastUp = "down" /\ up[w] = "up" THEN {"recovered"} ELSE {}) \cup
  (IF /\ lastUp # "null" /\ up[w] = "up"
      /\ lastHash # None /\ read[w] # None /\ lastHash # read[w]
   THEN {"content_changed"} ELSE {})

\* What the reader knows after an observation.  The first digest and the first
\* state are what the feed starts from; later ones come by events.
Tell(w, kinds) ==
  /\ told' = IF \/ "content_changed" \in kinds
                \/ told = None /\ up[w] = "up"
             THEN read[w] ELSE told
  /\ believed' = IF "unreachable" \in kinds THEN "down"
                 ELSE IF "recovered" \in kinds THEN "up"
                 ELSE IF believed = "null" THEN up[w]
                 ELSE believed
  /\ blanked' = IF up[w] = "up" /\ read[w] = None /\ lastHash # None
                THEN "yes" ELSE blanked

\* Faulty variant: last_reachable is only advanced together with last_hash.
RecordOnlyReachable(w) ==
  /\ lastHash' = IF up[w] = "up" THEN read[w] ELSE lastHash
  /\ lastUp' = IF up[w] = "up" THEN "up" ELSE lastUp

\* The UPDATEs of the watch: a failed crawl leaves the digest alone.
Record(w) ==
  /\ lastHash' = IF up[w] = "up" THEN read[w] ELSE lastHash
  /\ lastUp' = up[w]

\* The rest of the transaction, under the lock of the watch.
RecordWatchObservation(w) ==
  /\ doing[w] = "locking"
  /\ Tell(w, Kinds(w))
  /\ Record(w)
  /\ Rest(w)
  /\ UNCHANGED <<nodeVars, watch>>

\* The worker is killed, or the observation fails and is logged.
Abandon(w) ==
  /\ doing[w] # "idle"
  /\ Rest(w)
  /\ UNCHANGED <<nodeVars, watchVars>>

-----------------------------------------------------------------------------
(* The account's requests.  Starting a watch that runs only changes its    *)
(* interval.  An observation that waits for the lock of a watch that is    *)
(* deleted finds no row and ends.                                          *)

EnqueueAgain ==
  /\ node = "gone"
  /\ node' = "there"
  /\ UNCHANGED <<hash, watchVars, doing, workVars>>

StartWatch ==
  /\ node = "there" /\ watch = "off"
  /\ watch' = "on"
  /\ NewWatch
  /\ UNCHANGED <<nodeVars, doing, workVars>>

EndWatch ==
  /\ watch' = "off"
  /\ NewWatch
  /\ doing' = [w \in Worker |-> IF doing[w] = "locking" THEN "idle" ELSE doing[w]]
  /\ page' = [w \in Worker |-> IF doing[w] = "locking" THEN None ELSE page[w]]
  /\ up' = [w \in Worker |-> IF doing[w] = "locking" THEN "down" ELSE up[w]]
  /\ read' = [w \in Worker |-> None]

StopWatch ==
  /\ watch = "on"
  /\ EndWatch
  /\ UNCHANGED nodeVars

DeleteWatchedHistory ==
  /\ node = "there"
  /\ node' = "gone" /\ hash' = None
  /\ EndWatch

\* Stored pages are dropped, and their digests with them.
PurgeStoredContent ==
  /\ hash # None
  /\ hash' = None
  /\ UNCHANGED <<node, watchVars, doing, workVars>>

-----------------------------------------------------------------------------
Crawl(w) == ReadOldHash(w) \/ ScrapeFails(w)
Save(w) == SaveNode(w) \/ SaveNodeFails(w)

WorkerStep(w) ==
  Crawl(w) \/ Save(w) \/ Snapshot(w) \/ RecordWatchObservation(w) \/ Abandon(w)

WatchNext ==
  \/ \E w \in Worker : WorkerStep(w)
  \/ EnqueueAgain \/ StartWatch \/ StopWatch \/ DeleteWatchedHistory \/ PurgeStoredContent

WatchSpec == WatchInit /\ [][WatchNext]_feedVars

\* A site that is watched becomes due again and again, and workers take what is
\* due; failures and restarts may hit any crawl, but not all of them.
Fairness ==
  \A w \in Worker : /\ WF_feedVars(Crawl(w))
                    /\ SF_feedVars(Save(w))
                    /\ SF_feedVars(Snapshot(w))
                    /\ SF_feedVars(RecordWatchObservation(w))

FairWatchSpec == WatchSpec /\ Fairness

-----------------------------------------------------------------------------
WatchTypeOK ==
  /\ node \in {"there", "gone"} /\ hash \in Digest
  /\ watch \in {"on", "off"}
  /\ lastHash \in Digest /\ lastUp \in {"null", "up", "down"}
  /\ doing \in [Worker -> Doing] /\ page \in [Worker -> Digest]
  /\ up \in [Worker -> {"up", "down"}] /\ read \in [Worker -> Digest]
  /\ told \in Digest /\ believed \in {"null", "up", "down"} /\ blanked \in {"yes", "no"}

\* No change is swallowed: as long as the watermark has not been overwritten with
\* NULL, the page it stands for is the one the feed told of last, although
\* observations overlap, get lost, find the site down or read an old digest.
FeedTellsPage ==
  blanked = "no" /\ lastHash # None => told = lastHash

\* A site that stays down, or stays up, is reported once: who recomputes the
\* site's state from the feed never reads what is known already.
NewsIsNew ==
  [][\A w \in Worker : RecordWatchObservation(w) =>
       /\ "unreachable" \in Kinds(w) => believed = "up"
       /\ "recovered" \in Kinds(w) => believed = "down"]_feedVars

\* A page that stays is noticed, whatever observations were lost before: the
\* watch catches up with it unless the site stops answering.
CatchesUp ==
  \A p \in Page :
    <>[](watch = "on" /\ hash = p) => <>[](lastHash = p \/ lastUp = "down")
=============================================================================

----------------------------- MODULE WatchProofs ----------------------------
(***************************************************************************)
(* Proofs about Watch, for any number of workers and pages.                *)
(***************************************************************************)
EXTENDS Watch, TLAPS

\* The feed and the watch agree: the reader's page is the watermark (which is
\* NULL until a page was seen), and the reader's state is last_reachable.
InStep ==
  /\ blanked = "no" => told = lastHash
  /\ lastUp = "null" => lastHash = None
  /\ believed = lastUp

Inv == WatchTypeOK /\ InStep

LEMMA InitInv == WatchInit => Inv
  BY DEF WatchInit, Inv, InStep, WatchTypeOK, Digest, Doing

LEMMA RestType ==
  ASSUME WatchTypeOK, NEW w \in Worker, Rest(w)
  PROVE  /\ doing' \in [Worker -> Doing] /\ page' \in [Worker -> Digest]
         /\ up' \in [Worker -> {"up", "down"}] /\ read' \in [Worker -> Digest]
  BY DEF WatchTypeOK, Rest, Doing, Digest

LEMMA EndWatchInv ==
  ASSUME Inv, EndWatch, node' \in {"there", "gone"}, hash' \in Digest
  PROVE  Inv'
<1>1. InStep'
  BY DEF EndWatch, NewWatch, InStep
<1>2. /\ doing' \in [Worker -> Doing] /\ page' \in [Worker -> Digest]
      /\ up' \in [Worker -> {"up", "down"}] /\ read' \in [Worker -> Digest]
  BY DEF EndWatch, Inv, WatchTypeOK, Doing, Digest
<1>3. /\ watch' = "off" /\ lastHash' = None /\ lastUp' = "null"
      /\ told' = None /\ believed' = "null" /\ blanked' = "no"
  BY DEF EndWatch, NewWatch
<1> QED BY <1>1, <1>2, <1>3 DEF Inv, WatchTypeOK, Digest

\* One observation keeps feed and watch in step: a digest that replaces another
\* is reported, and so is every change of reachability after the first.
LEMMA ObservationInStep ==
  ASSUME Inv, NEW w \in Worker, RecordWatchObservation(w)
  PROVE  /\ InStep'
         /\ lastHash' \in Digest /\ lastUp' \in {"null", "up", "down"}
         /\ told' \in Digest /\ believed' \in {"null", "up", "down"}
         /\ blanked' \in {"yes", "no"}
<1> USE DEF Inv, WatchTypeOK, RecordWatchObservation, Record, Tell
<1>1. up[w] \in {"up", "down"} /\ read[w] \in Digest
  OBVIOUS
<1>2. CASE up[w] = "down"
  <2>1. "content_changed" \notin Kinds(w) /\ "recovered" \notin Kinds(w)
    BY <1>2 DEF Kinds
  <2>2. "unreachable" \in Kinds(w) <=> lastUp = "up"
    BY <1>2 DEF Kinds
  <2>3. told' = told /\ lastHash' = lastHash /\ blanked' = blanked /\ lastUp' = "down"
    BY <1>2, <2>1
  <2>4. believed' = "down"
    BY <1>2, <2>1, <2>2 DEF InStep
  <2> QED BY <2>3, <2>4 DEF InStep
<1>3. CASE up[w] = "up"
  <2>1. "unreachable" \notin Kinds(w)
    BY <1>3 DEF Kinds
  <2>2. "recovered" \in Kinds(w) <=> lastUp = "down"
    BY <1>3 DEF Kinds
  <2>3. "content_changed" \in Kinds(w) <=>
          lastUp # "null" /\ lastHash # None /\ read[w] # None /\ lastHash # read[w]
    BY <1>3 DEF Kinds
  <2>4. lastHash' = read[w] /\ lastUp' = "up"
    BY <1>3
  <2>5. believed' = "up"
    BY <1>3, <2>1, <2>2 DEF InStep
  <2>6. told' \in Digest /\ blanked' \in {"yes", "no"}
    BY <1>1
  <2>7. ASSUME blanked' = "no" PROVE told' = read[w]
    <3>1. blanked = "no" /\ (read[w] = None => lastHash = None)
      BY <2>7, <1>3
    <3>2. told = lastHash
      BY <3>1 DEF InStep
    <3>3. CASE lastHash = None
      BY <3>2, <3>3, <1>3
    <3>4. CASE lastHash # None
      BY <3>1, <3>2, <3>4, <2>3 DEF InStep
    <3> QED BY <3>3, <3>4
  <2> QED BY <1>1, <2>4, <2>5, <2>6, <2>7 DEF InStep
<1> QED BY <1>1, <1>2, <1>3

LEMMA StepInv == Inv /\ [WatchNext]_feedVars => Inv'
<1> SUFFICES ASSUME Inv, [WatchNext]_feedVars PROVE Inv'
  OBVIOUS
<1> USE DEF nodeVars, watchVars, workVars, Turn
<1>1. CASE UNCHANGED feedVars
  BY <1>1 DEF feedVars, Inv, WatchTypeOK, InStep
<1>2. ASSUME NEW w \in Worker, WorkerStep(w) PROVE Inv'
  <2>1. CASE ReadOldHash(w)
    BY <2>1 DEF ReadOldHash, Inv, WatchTypeOK, InStep, Digest, Doing
  <2>2. CASE ScrapeFails(w)
    BY <2>2 DEF ScrapeFails, Inv, WatchTypeOK, InStep, Doing
  <2>3. CASE SaveNode(w)
    <3>1. node' \in {"there", "gone"} /\ hash' \in Digest
      BY <2>3 DEF SaveNode, Inv, WatchTypeOK
    <3>2. doing' \in [Worker -> Doing] /\ UNCHANGED <<watchVars, workVars>>
      BY <2>3 DEF SaveNode, Inv, WatchTypeOK, Doing
    <3> QED BY <3>1, <3>2 DEF Inv, WatchTypeOK, InStep
  <2>4. CASE SaveNodeFails(w)
    BY <2>4 DEF SaveNodeFails, Inv, WatchTypeOK, InStep, Doing
  <2>5. CASE Snapshot(w)
    <3>1. CASE watch = "on"
      BY <2>5, <3>1 DEF Snapshot, Inv, WatchTypeOK, InStep, Doing
    <3>2. CASE watch # "on"
      BY <2>5, <3>2, RestType DEF Snapshot, Inv, WatchTypeOK, InStep
    <3> QED BY <3>1, <3>2
  <2>6. CASE RecordWatchObservation(w)
    <3>1. Rest(w) /\ UNCHANGED <<nodeVars, watch>>
      BY <2>6 DEF RecordWatchObservation
    <3>2. /\ doing' \in [Worker -> Doing] /\ page' \in [Worker -> Digest]
          /\ up' \in [Worker -> {"up", "down"}] /\ read' \in [Worker -> Digest]
      BY <3>1, RestType DEF Inv
    <3> QED BY <2>6, <3>1, <3>2, ObservationInStep DEF Inv, WatchTypeOK
  <2>7. CASE Abandon(w)
    BY <2>7, RestType DEF Abandon, Inv, WatchTypeOK, InStep
  <2> QED BY <1>2, <2>1, <2>2, <2>3, <2>4, <2>5, <2>6, <2>7 DEF WorkerStep, Crawl, Save
<1>3. CASE EnqueueAgain
  BY <1>3 DEF EnqueueAgain, Inv, WatchTypeOK, InStep
<1>4. CASE StartWatch
  BY <1>4 DEF StartWatch, NewWatch, Inv, WatchTypeOK, InStep, Digest
<1>5. CASE StopWatch
  BY <1>5, EndWatchInv DEF StopWatch, Inv, WatchTypeOK
<1>6. CASE DeleteWatchedHistory
  BY <1>6, EndWatchInv DEF DeleteWatchedHistory, Digest
<1>7. CASE PurgeStoredContent
  BY <1>7 DEF PurgeStoredContent, Inv, WatchTypeOK, InStep, Digest
<1> QED BY <1>1, <1>2, <1>3, <1>4, <1>5, <1>6, <1>7 DEF WatchNext

LEMMA Invariant == WatchSpec => []Inv
<1>1. WatchInit => Inv
  BY InitInv
<1>2. Inv /\ [WatchNext]_feedVars => Inv'
  BY StepInv
<1> QED BY <1>1, <1>2, PTL DEF WatchSpec

\* Every variable keeps its type.
THEOREM TypeCorrect == WatchSpec => []WatchTypeOK
  BY Invariant, PTL DEF Inv

\* RecordWatchObservation never advances the watermark past a page without an
\* event, as long as it has not stored NULL over a digest.
THEOREM ChangesAreTold == WatchSpec => []FeedTellsPage
<1>1. Inv => FeedTellsPage
  BY DEF Inv, InStep, FeedTellsPage
<1> QED BY <1>1, Invariant, PTL

\* RecordWatchObservation reports reachability only when it changes, however
\* many workers crawl the site at once.
THEOREM TransitionsOnly == WatchSpec => NewsIsNew
<1> DEFINE New == \A w \in Worker : RecordWatchObservation(w) =>
                    /\ "unreachable" \in Kinds(w) => believed = "up"
                    /\ "recovered" \in Kinds(w) => believed = "down"
<1>1. Inv => New
  BY DEF Inv, InStep, Kinds
<1>2. Inv /\ [WatchNext]_feedVars => [New]_feedVars
  BY <1>1
<1> QED BY <1>2, Invariant, PTL DEF WatchSpec, NewsIsNew
=============================================================================

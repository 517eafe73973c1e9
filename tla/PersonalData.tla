---------------------------- MODULE PersonalData ----------------------------
(***************************************************************************)
(* What an account attaches to a site (tags, a note, a watch), and the     *)
(* three things that touch all of it: the exports, which are rationed by   *)
(* slots and read the database in several statements, the purge of the     *)
(* crawl history, and the retention sweeper.  One account's annotations of *)
(* one site are followed (every query is keyed by account and site); the   *)
(* export slots are shared by all accounts.                                *)
(*                                                                         *)
(* A statement of the database is atomic; the transactions are READ        *)
(* COMMITTED, so that each statement sees what is committed when it starts *)
(* and the last write of a transaction is visible with its commit.         *)
(***************************************************************************)
EXTENDS Naturals, FiniteSets

CONSTANTS
  Req,      \* requests
  Of,       \* the account of each
  Owner,    \* the account whose site is followed
  Tag,
  MaxTags,  \* MaxTagsPerNode
  Global    \* capacity of exportGlobalSem

ASSUME DataAssumption ==
  /\ IsFiniteSet(Req) /\ IsFiniteSet(Tag)
  /\ Tag \cap {"none", "note", "watch", "site"} = {}
  /\ MaxTags \in Nat \ {0} /\ Global \in Nat \ {0}

VARIABLES
  row,        \* the site's row in nodes: "gone", "crawling", "completed", or "pending",
              \* which stands for every other processing_status
  marks,      \* its rows in node_tags, node_notes and watches
  old,        \* "yes" when discovery and last crawl are before the cutoff
  pass,       \* the retention sweeper: "idle", or it has selected the row ("doomed"),
              \* which somebody else may delete first ("missed")
  pc, job,    \* what each request does, and the annotation it is about
  userSem, globalSem,
  doc,        \* what a running export has written
  kept        \* ghost: an item that has been stored ever since a personal-data export began

dataVars == <<row, marks, kept>>
sweepVars == <<old, pass>>
slotVars == <<userSem, globalSem>>
vars == <<row, marks, old, pass, pc, job, userSem, globalSem, doc, kept>>

Mark == Tag \cup {"note", "watch"}
Item == Mark \cup {"site"}

\* Requests that export, which hold both slots.
Exporting == {"lookup", "nodes", "annotations", "rows", "freeGlobal"}
PC == {"idle", "insert", "orphan", "global", "undo", "freeUser"} \cup Exporting

Init ==
  /\ row = "pending" /\ marks = {}
  /\ old = "no" /\ pass = "idle"
  /\ pc = [r \in Req |-> "idle"] /\ job = [r \in Req |-> "none"]
  /\ userSem = [u \in {Of[r] : r \in Req} |-> 0] /\ globalSem = 0
  /\ doc = [r \in Req |-> {}] /\ kept = [r \in Req |-> {}]

Goto(r, from, to) == pc[r] = from /\ pc' = [pc EXCEPT ![r] = to]

\* What the service holds about the site, whatever the status of its row.
Held(s, m) == m \cup (IF s = "gone" THEN {} ELSE {"site"})

\* What a statement of an export finds: ExportNodes selects 'completed' rows only.
Found == marks \cup (IF row = "completed" THEN {"site"} ELSE {})

\* A statement leaves the site's row in state s with the annotations m.
Store(s, m) ==
  /\ row' = s /\ marks' = m
  /\ kept' = [r \in Req |-> kept[r] \cap Held(s, m)]

\* Faulty variant: no foreign key, an insertion under way is not refused.
EraseLoosely ==
  /\ row' = "gone" /\ marks' = {} /\ old' = "no"
  /\ kept' = [r \in Req |-> {}]
  /\ UNCHANGED <<pc, job>>

\* The row is deleted, and by cascade everything that refers to it.  Who has read
\* its id will not find it, even when the site gets a new row.
Erase ==
  /\ row' = "gone" /\ marks' = {} /\ old' = "no"
  /\ kept' = [r \in Req |-> {}]
  /\ pc' = [r \in Req |-> IF pc[r] = "insert" THEN "orphan" ELSE pc[r]]
  /\ job' = [r \in Req |-> "none"]

-----------------------------------------------------------------------------
(* Annotations                                                             *)

\* The row of a site its account has; otherwise the request is told 404.
nodeIDFor(r) == Of[r] = Owner /\ pc[r] = "idle" /\ row # "gone"

\* AddTag finds the row and counts the tags that are committed; ErrTooManyTags
\* when there is no room.
AddTag(r, t) ==
  /\ nodeIDFor(r)
  /\ Cardinality(marks \cap Tag) < MaxTags
  /\ pc' = [pc EXCEPT ![r] = "insert"] /\ job' = [job EXCEPT ![r] = t]
  /\ UNCHANGED <<dataVars, sweepVars, slotVars, doc>>

\* Its INSERT ... ON CONFLICT DO NOTHING, and the commit.
InsertTag(r) ==
  /\ Goto(r, "insert", "idle")
  /\ job' = [job EXCEPT ![r] = "none"]
  /\ Store(row, marks \cup {job[r]})
  /\ UNCHANGED <<sweepVars, slotVars, doc>>

\* Its INSERT when the row has been deleted since: the foreign key refuses it.
InsertRefused(r) ==
  /\ Goto(r, "orphan", "idle")
  /\ UNCHANGED <<job, dataVars, sweepVars, slotVars, doc>>

\* The other annotations are one statement each; the lookup before it changes
\* nothing, and when the row has gone in between neither does the statement.
Put(r, m) ==
  /\ nodeIDFor(r)
  /\ Store(row, marks \cup {m})
  /\ UNCHANGED <<pc, job, sweepVars, slotVars, doc>>

Remove(r, m) ==
  /\ nodeIDFor(r)
  /\ m \in marks
  /\ Store(row, marks \ {m})
  /\ UNCHANGED <<pc, job, sweepVars, slotVars, doc>>

RemoveTag(r) == \E t \in Tag : Remove(r, t)
SetNote(r) == Put(r, "note") \/ Remove(r, "note")
handleWatch(r) == Put(r, "watch") \/ Remove(r, "watch")

-----------------------------------------------------------------------------
(* Exports                                                                 *)

\* acquireExportSlot; an account that exports already is told 429.
TakeUserSlot(r) ==
  /\ userSem[Of[r]] < 1
  /\ Goto(r, "idle", "global")
  /\ userSem' = [userSem EXCEPT ![Of[r]] = @ + 1]
  /\ UNCHANGED <<globalSem, job, dataVars, sweepVars, doc>>

\* An export of the personal data of the account is asked about what it holds; the
\* export of the crawl data (GET /export) is followed for its slots only.
Followed(r, phase) ==
  IF Of[r] = Owner /\ phase = "lookup" THEN Held(row, marks) ELSE {}

\* Faulty variant: one export more than there are slots.
BeginOneMore(r, phase) ==
  /\ globalSem <= Global
  /\ Goto(r, "global", phase)
  /\ globalSem' = globalSem + 1
  /\ \E i \in {{}} \cup {{x} : x \in Followed(r, phase)} :
       kept' = [kept EXCEPT ![r] = i]
  /\ UNCHANGED <<userSem, doc, job, row, marks, sweepVars>>

\* The export of the personal data looks up what is small before it writes a
\* byte; the export of the crawl data starts with its rows.
Begin(r, phase) ==
  /\ globalSem < Global
  /\ Goto(r, "global", phase)
  /\ globalSem' = globalSem + 1
  /\ \E i \in {{}} \cup {{x} : x \in Followed(r, phase)} :
       kept' = [kept EXCEPT ![r] = i]
  /\ UNCHANGED <<userSem, doc, job, row, marks, sweepVars>>

\* Faulty variant: an export waits for a global slot instead of being refused.
TakeGlobalSlotWaits(r) == \E phase \in {"lookup", "rows"} : Begin(r, phase)

TakeGlobalSlot(r) ==
  \/ \E phase \in {"lookup", "rows"} : Begin(r, phase)
  \/ /\ globalSem >= Global
     /\ Goto(r, "global", "undo")
     /\ UNCHANGED <<slotVars, doc, job, dataVars, sweepVars>>

\* Faulty variant: the refused export keeps the account's slot.
GiveUserSlotBackNever(r) ==
  /\ Goto(r, "undo", "idle")
  /\ UNCHANGED <<slotVars, doc, job, dataVars, sweepVars>>

\* The refused export gives the account's slot back.
GiveUserSlotBack(r) ==
  /\ Goto(r, "undo", "idle")
  /\ userSem' = [userSem EXCEPT ![Of[r]] = @ - 1]
  /\ UNCHANGED <<globalSem, doc, job, dataVars, sweepVars>>

\* A statement of the export writes the items in S that it finds; only the item
\* that is followed is recorded.
Section(r, from, to, S) ==
  /\ Goto(r, from, to)
  /\ doc' = [doc EXCEPT ![r] = @ \cup (Found \cap kept[r] \cap S)]
  /\ UNCHANGED <<slotVars, job, dataVars, sweepVars>>

\* Faulty variant: the lookups before the body forget the watches.
LookupNoWatches(r) == Section(r, "lookup", "nodes", {})

Lookup(r) == Section(r, "lookup", "nodes", {"watch"})
ExportNodes(r) == Section(r, "nodes", "annotations", {"site"})

\* The links come last, as they do in GraphML; no item is about them.
ExportAnnotations(r) == Section(r, "annotations", "freeGlobal", Tag \cup {"note"})
ExportRows(r) == Section(r, "rows", "freeGlobal", {"site"})

\* A lookup that fails ends the request with a 500.  Once the body has begun an
\* error is logged and the next section follows, or a panic ends the request; XLSX
\* and PDF stop at a number of rows.  Nothing can be asked of the document then.
SectionFails(r) ==
  /\ \/ pc[r] \in Exporting \ {"freeGlobal"} /\ pc' = [pc EXCEPT ![r] = "freeGlobal"]
     \/ Goto(r, "nodes", "annotations")
  /\ kept' = [kept EXCEPT ![r] = {}]
  /\ UNCHANGED <<doc, slotVars, job, row, marks, sweepVars>>

\* The deferred release: first the global slot, then the account's.
ReleaseGlobal(r) ==
  /\ Goto(r, "freeGlobal", "freeUser")
  /\ globalSem' = globalSem - 1
  /\ doc' = [doc EXCEPT ![r] = {}]
  /\ kept' = [kept EXCEPT ![r] = {}]
  /\ UNCHANGED <<userSem, job, row, marks, sweepVars>>

ReleaseUser(r) ==
  /\ Goto(r, "freeUser", "idle")
  /\ userSem' = [userSem EXCEPT ![Of[r]] = @ - 1]
  /\ UNCHANGED <<globalSem, doc, job, dataVars, sweepVars>>

-----------------------------------------------------------------------------
(* The row's life: crawls, purge and retention                             *)

rowUnchanged == <<pc, job, slotVars, doc>>

\* A row that has just been stored is recent; when it is a new one, a sweep that
\* has missed its predecessor is over for all it matters.
Recent ==
  /\ old' = "no"
  /\ pass' = IF pass = "missed" THEN "idle" ELSE pass

EnqueueURL ==
  /\ row = "gone"
  /\ Store("pending", marks) /\ Recent
  /\ UNCHANGED rowUnchanged

\* A worker claims the row, at once or after a requeue.
Claim ==
  /\ row \in {"pending", "completed"}
  /\ Store("crawling", marks)
  /\ UNCHANGED <<sweepVars, rowUnchanged>>

\* SaveNode stores the result, whatever has become of the row: the command-line
\* crawler claims nothing, a claim may have been swept, and a row that has been
\* deleted meanwhile is inserted again.  Or MarkFailed gives the row back.
Crawled ==
  /\ \/ Store("completed", marks) /\ Recent
     \/ row = "crawling" /\ Store("pending", marks) /\ UNCHANGED sweepVars
  /\ UNCHANGED rowUnchanged

Age ==
  /\ row # "gone" /\ old = "no" /\ old' = "yes"
  /\ UNCHANGED <<dataVars, pass, rowUnchanged>>

\* handlePrivacyPurge, scope crawl_history.
DeleteCrawlHistory ==
  /\ row # "gone"
  /\ Erase
  /\ pass' = IF pass = "doomed" THEN "missed" ELSE pass
  /\ UNCHANGED <<slotVars, doc>>

Reapable == row \in {"pending", "completed"} /\ old = "yes" /\ marks = {}

\* ApplyRetention has listed the account's policy, which may have been changed
\* since; the DELETE takes its snapshot and evaluates the subselect in it.
RetentionSelect ==
  /\ pass = "idle" /\ Reapable
  /\ pass' = "doomed"
  /\ UNCHANGED <<row, marks, kept, old, rowUnchanged>>

\* It deletes the row it has selected.  A newer version of the row is checked
\* against the outer WHERE only (its id), and annotations leave no new version.
RetentionDelete ==
  /\ pass = "doomed"
  /\ Erase
  /\ pass' = "idle"
  /\ UNCHANGED <<slotVars, doc>>

\* Or it finds the row gone, fails, or runs into its timeout; the next pass starts
\* over.
RetentionFails ==
  /\ pass # "idle" /\ pass' = "idle"
  /\ UNCHANGED <<dataVars, old, rowUnchanged>>

-----------------------------------------------------------------------------
Annotate(r) ==
  \/ \E t \in Tag : AddTag(r, t)
  \/ InsertTag(r) \/ InsertRefused(r)
  \/ RemoveTag(r) \/ SetNote(r) \/ handleWatch(r)

\* The steps of an export that is under way.
ExportStep(r) ==
  \/ TakeGlobalSlot(r) \/ GiveUserSlotBack(r)
  \/ Lookup(r) \/ ExportNodes(r) \/ ExportAnnotations(r)
  \/ ExportRows(r) \/ SectionFails(r)
  \/ ReleaseGlobal(r) \/ ReleaseUser(r)

Retention == RetentionSelect \/ RetentionDelete \/ RetentionFails

Next ==
  \/ \E r \in Req : Annotate(r) \/ TakeUserSlot(r) \/ ExportStep(r)
  \/ EnqueueURL \/ Claim \/ Crawled \/ Age
  \/ DeleteCrawlHistory \/ Retention

Spec == Init /\ [][Next]_vars

\* A handler that runs goes on: its statements end, with an error at the latest
\* when the write deadline or the client's disconnection cancels them.
FairSpec == Spec /\ \A r \in Req : WF_vars(ExportStep(r))

-----------------------------------------------------------------------------
TypeOK ==
  /\ row \in {"gone", "pending", "crawling", "completed"} /\ marks \in SUBSET Mark
  /\ old \in {"yes", "no"} /\ pass \in {"idle", "doomed", "missed"}
  /\ pc \in [Req -> PC] /\ job \in [Req -> Tag \cup {"none"}]
  /\ userSem \in [{Of[r] : r \in Req} -> Nat] /\ globalSem \in Nat
  /\ doc \in [Req -> SUBSET Item] /\ kept \in [Req -> SUBSET Item]

\* Requests that hold the global slot, and those of u that hold their account's.
GlobalHolders == {r \in Req : pc[r] \in Exporting}
UserHolders(u) ==
  {r \in Req : Of[r] = u /\ pc[r] \in Exporting \cup {"global", "undo", "freeUser"}}

\* No slot is leaked and none is given back twice, on any path through an export:
\* refused half way, failed, cut short or finished.
SlotsConserved ==
  /\ globalSem = Cardinality(GlobalHolders)
  /\ \A u \in DOMAIN userSem : userSem[u] = Cardinality(UserHolders(u))

Pool == INSTANCE SlotPool WITH running <- GlobalHolders

\* Seen from outside, the two semaphores taken and released one after the other
\* are one pool: at most one export per account, at most Global in all.
ImplementsSlotPool == Pool!Spec

\* An account's slot is always given back: its export ends, and none waits for
\* another account's.
SlotsReturn == \A u \in {Of[r] : r \in Req} : userSem[u] > 0 ~> userSem[u] = 0

\* handlePrivacyExport "streams everything this service holds about the account":
\* a document that no error has cut short holds what was stored from the beginning
\* to the end of the export.
ExportComplete ==
  \A r \in Req : pc[r] = "freeGlobal" => kept[r] \subseteq doc[r]

\* The account's own writing (tags, notes, watches) that is stored from beginning
\* to end of a personal-data export is in its document, unless an error has cut it
\* short: each section is a statement of its own, and the account goes on writing
\* while the site is crawled, purged and swept.
WritingExported ==
  \A r \in Req : pc[r] = "freeGlobal" => kept[r] \cap Mark \subseteq doc[r]

\* AddTag counts "inside the transaction so two simultaneous additions cannot both
\* see room for the last slot": a site never has more tags than the cap.
TagCap == Cardinality(marks \cap Tag) <= MaxTags

\* Additions that count at the same time may overrun the cap on tags, by the
\* number of the account's requests less one and no more.
TagsBounded ==
  Cardinality(marks \cap Tag) < MaxTags + Cardinality({r \in Req : Of[r] = Owner})

\* Deleting the crawl history, by hand or by the sweeper, leaves no writing of the
\* account behind, not even one that was being saved at that moment.
NothingLeftBehind == row = "gone" => marks = {}

\* ApplyRetention: "rows being crawled right now are excluded", and "so are rows the
\* account has annotated or is watching".
RetentionExcludes == [][RetentionDelete => marks = {} /\ row # "crawling"]_vars
=============================================================================

------------------------- MODULE PersonalDataProofs -------------------------
(***************************************************************************)
(* Proofs about PersonalData, for any number of requests, accounts, tags   *)
(* and slots.                                                              *)
(***************************************************************************)
EXTENDS PersonalData, FiniteSetTheorems, TLAPS

Accounts == {Of[r] : r \in Req}
RowState == {"gone", "pending", "crawling", "completed"}

DataTyped ==
  /\ row \in RowState /\ marks \in SUBSET Mark
  /\ kept \in [Req -> SUBSET Item]
RestTyped ==
  /\ old \in {"yes", "no"} /\ pass \in {"idle", "doomed", "missed"}
  /\ userSem \in [Accounts -> Nat] /\ globalSem \in Nat
  /\ doc \in [Req -> SUBSET Item]
\* An addition under way knows its tag, which TypeOK does not say.
StepsTyped ==
  /\ pc \in [Req -> PC] /\ job \in [Req -> Tag \cup {"none"}]
  /\ \A r \in Req : pc[r] = "insert" => job[r] \in Tag

Typed == DataTyped /\ RestTyped /\ StepsTyped

LEMMA TypedIsTypeOK == Typed => TypeOK
  BY DEF Typed, TypeOK, DataTyped, RestTyped, StepsTyped, RowState, Accounts

LEMMA InitTyped == Init => Typed
  BY DEF Init, Typed, DataTyped, RestTyped, StepsTyped, RowState, PC, Accounts, Item, Mark

LEMMA StoreTyped ==
  ASSUME DataTyped, NEW s \in RowState, NEW m \in SUBSET Mark, Store(s, m)
  PROVE  DataTyped'
  BY DEF DataTyped, Store

LEMMA EraseTyped ==
  ASSUME DataTyped, StepsTyped, Erase
  PROVE  DataTyped' /\ StepsTyped' /\ old' = "no"
<1>1. DataTyped'
  BY DEF DataTyped, Erase, RowState
<1>2. pc' \in [Req -> PC] /\ \A r \in Req : pc'[r] # "insert"
  BY DEF StepsTyped, Erase, PC
<1>3. job' \in [Req -> Tag \cup {"none"}] /\ old' = "no"
  BY DEF Erase
<1> QED BY <1>1, <1>2, <1>3 DEF StepsTyped

\* A request that goes on without adding a tag.
LEMMA StepTyped ==
  ASSUME StepsTyped, NEW r \in Req, NEW to \in PC \ {"insert"},
         pc' = [pc EXCEPT ![r] = to], UNCHANGED job
  PROVE  StepsTyped'
  BY DEF StepsTyped

LEMMA AnnotateTyped ==
  ASSUME Typed, NEW r \in Req, Annotate(r)
  PROVE  Typed'
<1> USE DEF Typed
<1>1. ASSUME NEW t \in Tag, AddTag(r, t) PROVE Typed'
  <2>1. StepsTyped'
    BY <1>1 DEF AddTag, StepsTyped, PC
  <2>2. DataTyped' /\ RestTyped'
    BY <1>1 DEF AddTag, DataTyped, RestTyped, dataVars, sweepVars, slotVars
  <2> QED BY <2>1, <2>2
<1>2. ASSUME NEW m \in Mark, Put(r, m) \/ Remove(r, m) PROVE Typed'
  <2>1. row \in RowState /\ marks \cup {m} \in SUBSET Mark /\ marks \ {m} \in SUBSET Mark
    BY DEF DataTyped
  <2>2. DataTyped'
    BY <1>2, <2>1, StoreTyped DEF Put, Remove
  <2>3. StepsTyped' /\ RestTyped'
    BY <1>2 DEF Put, Remove, StepsTyped, RestTyped, sweepVars, slotVars
  <2> QED BY <2>2, <2>3
<1>3. CASE InsertTag(r)
  <2>1. StepsTyped'
    BY <1>3 DEF InsertTag, Goto, StepsTyped, PC
  <2>2. RestTyped'
    BY <1>3 DEF InsertTag, RestTyped, sweepVars, slotVars
  <2>3. row \in RowState /\ marks \cup {job[r]} \in SUBSET Mark
    BY <1>3 DEF InsertTag, Goto, DataTyped, StepsTyped, Mark
  <2>4. DataTyped'
    BY <1>3, <2>3, StoreTyped DEF InsertTag
  <2> QED BY <2>1, <2>2, <2>4
<1>4. CASE InsertRefused(r)
  <2>1. StepsTyped'
    BY <1>4, StepTyped DEF InsertRefused, Goto, PC
  <2>2. DataTyped' /\ RestTyped'
    BY <1>4 DEF InsertRefused, DataTyped, RestTyped, dataVars, sweepVars, slotVars
  <2> QED BY <2>1, <2>2
<1> QED
  BY <1>1, <1>2, <1>3, <1>4 DEF Annotate, RemoveTag, SetNote, handleWatch, Mark

LEMMA BeginTyped ==
  ASSUME Typed, NEW r \in Req, NEW phase \in {"lookup", "rows"}, Begin(r, phase)
  PROVE  Typed'
<1> USE DEF Typed
<1>1. StepsTyped'
  BY StepTyped DEF Begin, Goto, PC, Exporting
<1>2. \A x \in Followed(r, phase) : x \in Item
  BY DEF Followed, Held, DataTyped, Item
<1>3. kept' \in [Req -> SUBSET Item]
  <2>1. PICK i \in {{}} \cup {{x} : x \in Followed(r, phase)} :
          kept' = [kept EXCEPT ![r] = i]
    BY DEF Begin
  <2>2. i \in SUBSET Item
    BY <1>2
  <2> QED BY <2>1, <2>2 DEF DataTyped
<1>4. DataTyped'
  BY <1>3 DEF Begin, DataTyped
<1>5. RestTyped'
  BY DEF Begin, RestTyped, sweepVars
<1> QED BY <1>1, <1>4, <1>5

-----------------------------------------------------------------------------
(* The slots                                                               *)

UserSlot == Exporting \cup {"global", "undo", "freeUser"}

LEMMA HoldersFinite ==
  /\ IsFiniteSet(GlobalHolders) /\ Cardinality(GlobalHolders) \in Nat
  /\ \A u : IsFiniteSet(UserHolders(u)) /\ Cardinality(UserHolders(u)) \in Nat
<1>1. GlobalHolders \subseteq Req /\ \A u : UserHolders(u) \subseteq Req
  BY DEF GlobalHolders, UserHolders
<1> QED BY <1>1, DataAssumption, FS_Subset, FS_CardinalityType DEF DataAssumption

\* Nobody takes a slot or gives one back.
LEMMA HoldersKept ==
  ASSUME SlotsConserved, UNCHANGED <<userSem, globalSem>>,
         \A q \in Req : /\ pc'[q] \in Exporting <=> pc[q] \in Exporting
                        /\ pc'[q] \in UserSlot <=> pc[q] \in UserSlot
  PROVE  SlotsConserved' /\ GlobalHolders' = GlobalHolders
<1>1. GlobalHolders' = GlobalHolders /\ \A u : UserHolders(u)' = UserHolders(u)
  BY DEF GlobalHolders, UserHolders, UserSlot
<1> QED BY <1>1 DEF SlotsConserved

\* A request goes from one step to another that holds the same slots.
LEMMA SlotsKept ==
  ASSUME SlotsConserved, StepsTyped, UNCHANGED <<userSem, globalSem>>,
         NEW r \in Req, NEW to,
         pc' = [pc EXCEPT ![r] = to],
         pc[r] \in Exporting <=> to \in Exporting, pc[r] \in UserSlot <=> to \in UserSlot
  PROVE  SlotsConserved' /\ GlobalHolders' = GlobalHolders
  BY HoldersKept DEF StepsTyped

LEMMA UserSlotTaken ==
  ASSUME SlotsConserved, Typed, NEW r \in Req, TakeUserSlot(r)
  PROVE  SlotsConserved' /\ GlobalHolders' = GlobalHolders
<1>1. /\ pc[r] = "idle" /\ pc' = [pc EXCEPT ![r] = "global"]
      /\ userSem' = [userSem EXCEPT ![Of[r]] = @ + 1] /\ globalSem' = globalSem
  BY DEF TakeUserSlot, Goto
<1>2. pc \in [Req -> PC] /\ userSem \in [Accounts -> Nat] /\ Of[r] \in Accounts
  BY DEF Typed, StepsTyped, RestTyped, Accounts
<1>3. GlobalHolders' = GlobalHolders
  BY <1>1, <1>2 DEF GlobalHolders, Exporting
<1>4. UserHolders(Of[r])' = UserHolders(Of[r]) \cup {r} /\ r \notin UserHolders(Of[r])
  BY <1>1, <1>2 DEF UserHolders, Exporting
<1>5. \A u : u # Of[r] => UserHolders(u)' = UserHolders(u)
  BY <1>1, <1>2 DEF UserHolders
<1>6. Cardinality(UserHolders(Of[r])') = Cardinality(UserHolders(Of[r])) + 1
  BY <1>4, HoldersFinite, FS_AddElement
<1>7. userSem'[Of[r]] = Cardinality(UserHolders(Of[r])')
  BY <1>1, <1>2, <1>6 DEF SlotsConserved
<1>8. \A u \in Accounts : u # Of[r] => userSem'[u] = Cardinality(UserHolders(u)')
  BY <1>1, <1>2, <1>5 DEF SlotsConserved
<1>9. \A u \in DOMAIN userSem' : userSem'[u] = Cardinality(UserHolders(u)')
  BY <1>1, <1>2, <1>7, <1>8
<1> QED BY <1>1, <1>3, <1>9 DEF SlotsConserved

LEMMA UserSlotGivenBack ==
  ASSUME SlotsConserved, Typed, NEW r \in Req, GiveUserSlotBack(r) \/ ReleaseUser(r)
  PROVE  SlotsConserved' /\ GlobalHolders' = GlobalHolders /\ userSem' \in [Accounts -> Nat]
<1>1. /\ pc[r] \in {"undo", "freeUser"} /\ pc' = [pc EXCEPT ![r] = "idle"]
      /\ userSem' = [userSem EXCEPT ![Of[r]] = @ - 1] /\ globalSem' = globalSem
  BY DEF GiveUserSlotBack, ReleaseUser, Goto
<1>2. pc \in [Req -> PC] /\ userSem \in [Accounts -> Nat] /\ Of[r] \in Accounts
  BY DEF Typed, StepsTyped, RestTyped, Accounts
<1>3. GlobalHolders' = GlobalHolders
  BY <1>1, <1>2 DEF GlobalHolders, Exporting
<1>4. UserHolders(Of[r])' = UserHolders(Of[r]) \ {r} /\ r \in UserHolders(Of[r])
  BY <1>1, <1>2 DEF UserHolders, Exporting
<1>5. \A u : u # Of[r] => UserHolders(u)' = UserHolders(u)
  BY <1>1, <1>2 DEF UserHolders
<1>6. /\ Cardinality(UserHolders(Of[r])') = Cardinality(UserHolders(Of[r])) - 1
      /\ Cardinality(UserHolders(Of[r])') \in Nat
  <2>1. IsFiniteSet(UserHolders(Of[r]) \ {r})
    BY HoldersFinite, FS_RemoveElement
  <2> QED BY <1>4, <2>1, HoldersFinite, FS_RemoveElement, FS_CardinalityType
<1>7. userSem'[Of[r]] = Cardinality(UserHolders(Of[r])') /\ userSem'[Of[r]] \in Nat
  BY <1>1, <1>2, <1>6 DEF SlotsConserved
<1>8. \A u \in Accounts : u # Of[r] =>
        userSem'[u] = Cardinality(UserHolders(u)') /\ userSem'[u] \in Nat
  BY <1>1, <1>2, <1>5 DEF SlotsConserved
<1>9. \A u \in DOMAIN userSem' : userSem'[u] = Cardinality(UserHolders(u)')
  BY <1>1, <1>2, <1>7, <1>8
<1>10. userSem' \in [Accounts -> Nat]
  BY <1>1, <1>2, <1>7, <1>8
<1> QED BY <1>1, <1>3, <1>9, <1>10 DEF SlotsConserved

\* Both kinds of export start: the request joins those that run.
LEMMA GlobalSlotTaken ==
  ASSUME SlotsConserved, Typed, NEW r \in Req, NEW phase \in {"lookup", "rows"},
         Begin(r, phase)
  PROVE  /\ SlotsConserved'
         /\ r \notin GlobalHolders /\ GlobalHolders' = GlobalHolders \cup {r}
         /\ Cardinality(GlobalHolders) < Global
<1>1. /\ pc[r] = "global" /\ pc' = [pc EXCEPT ![r] = phase] /\ globalSem < Global
      /\ globalSem' = globalSem + 1 /\ userSem' = userSem
  BY DEF Begin, Goto
<1>2. pc \in [Req -> PC]
  BY DEF Typed, StepsTyped
<1>3. GlobalHolders' = GlobalHolders \cup {r} /\ r \notin GlobalHolders
  BY <1>1, <1>2 DEF GlobalHolders, Exporting
<1>4. \A u : UserHolders(u)' = UserHolders(u)
  BY <1>1, <1>2 DEF UserHolders, Exporting
<1>5. Cardinality(GlobalHolders') = Cardinality(GlobalHolders) + 1
  BY <1>3, HoldersFinite, FS_AddElement
<1> QED BY <1>1, <1>3, <1>4, <1>5 DEF SlotsConserved

LEMMA GlobalSlotReleased ==
  ASSUME SlotsConserved, Typed, NEW r \in Req, ReleaseGlobal(r)
  PROVE  /\ SlotsConserved' /\ globalSem' \in Nat
         /\ r \in GlobalHolders /\ GlobalHolders' = GlobalHolders \ {r}
<1>1. /\ pc[r] = "freeGlobal" /\ pc' = [pc EXCEPT ![r] = "freeUser"]
      /\ globalSem' = globalSem - 1 /\ userSem' = userSem
  BY DEF ReleaseGlobal, Goto
<1>2. pc \in [Req -> PC]
  BY DEF Typed, StepsTyped
<1>3. GlobalHolders' = GlobalHolders \ {r} /\ r \in GlobalHolders
  BY <1>1, <1>2 DEF GlobalHolders, Exporting
<1>4. \A u : UserHolders(u)' = UserHolders(u)
  BY <1>1, <1>2 DEF UserHolders, Exporting
<1>5. /\ Cardinality(GlobalHolders') = Cardinality(GlobalHolders) - 1
      /\ Cardinality(GlobalHolders') \in Nat
  <2>1. IsFiniteSet(GlobalHolders \ {r})
    BY HoldersFinite, FS_RemoveElement
  <2> QED BY <1>3, <2>1, HoldersFinite, FS_RemoveElement, FS_CardinalityType
<1> QED BY <1>1, <1>3, <1>4, <1>5 DEF SlotsConserved

-----------------------------------------------------------------------------
(* The steps of an export                                                  *)

LEMMA SectionTyped ==
  ASSUME Typed, NEW r \in Req, NEW S, NEW from, NEW to \in PC \ {"insert"},
         Section(r, from, to, S)
  PROVE  Typed'
<1>1. StepsTyped'
  BY StepTyped DEF Section, Goto, Typed
<1>2. DataTyped'
  BY DEF Section, Typed, DataTyped, dataVars
<1>3. doc' \in [Req -> SUBSET Item]
  BY DEF Section, Typed, DataTyped, RestTyped
<1>4. RestTyped'
  BY <1>3 DEF Section, Typed, RestTyped, sweepVars, slotVars
<1> QED BY <1>1, <1>2, <1>4 DEF Typed

Sections(r) == Lookup(r) \/ ExportNodes(r) \/ ExportAnnotations(r) \/ ExportRows(r)

\* A section, written or failed: the slots stay where they are.
LEMMA SectionInv ==
  ASSUME Typed, SlotsConserved, NEW r \in Req, Sections(r)
  PROVE  Typed' /\ SlotsConserved' /\ GlobalHolders' = GlobalHolders
<1>1. PICK from \in Exporting, to \in Exporting, S \in SUBSET Item : Section(r, from, to, S)
  BY DEF Sections, Lookup, ExportNodes, ExportAnnotations, ExportRows, Exporting, Item, Mark
<1>2. Typed'
  BY <1>1, SectionTyped DEF PC, Exporting
<1>3. /\ pc[r] \in Exporting /\ pc' = [pc EXCEPT ![r] = to]
      /\ UNCHANGED <<userSem, globalSem>>
  BY <1>1 DEF Section, Goto, slotVars
<1>4. SlotsConserved' /\ GlobalHolders' = GlobalHolders
  BY <1>3, SlotsKept DEF Typed, UserSlot
<1> QED BY <1>2, <1>4

LEMMA SectionFailsInv ==
  ASSUME Typed, SlotsConserved, NEW r \in Req, SectionFails(r)
  PROVE  Typed' /\ SlotsConserved' /\ GlobalHolders' = GlobalHolders
<1>1. PICK to \in Exporting : pc[r] \in Exporting /\ pc' = [pc EXCEPT ![r] = to]
  BY DEF SectionFails, Goto, Exporting
<1>2. SlotsConserved' /\ GlobalHolders' = GlobalHolders
  BY <1>1, SlotsKept DEF SectionFails, slotVars, Typed, UserSlot
<1>3. StepsTyped'
  BY <1>1, StepTyped DEF SectionFails, Typed, PC, Exporting
<1>4. DataTyped' /\ RestTyped'
  BY DEF SectionFails, Typed, DataTyped, RestTyped, sweepVars, slotVars
<1> QED BY <1>2, <1>3, <1>4 DEF Typed

LEMMA TakeUserSlotInv ==
  ASSUME Typed, SlotsConserved, NEW r \in Req, TakeUserSlot(r)
  PROVE  Typed' /\ SlotsConserved' /\ GlobalHolders' = GlobalHolders
<1>1. SlotsConserved' /\ GlobalHolders' = GlobalHolders
  BY UserSlotTaken
<1>2. StepsTyped'
  BY StepTyped DEF TakeUserSlot, Goto, Typed, PC
<1>3. DataTyped'
  BY DEF TakeUserSlot, Typed, DataTyped, dataVars
<1>4. userSem' \in [Accounts -> Nat]
  <2>1. userSem' = [userSem EXCEPT ![Of[r]] = userSem[Of[r]] + 1]
    BY DEF TakeUserSlot
  <2>2. Of[r] \in Accounts /\ userSem \in [Accounts -> Nat]
    BY DEF Accounts, Typed, RestTyped
  <2> QED BY <2>1, <2>2
<1>5. RestTyped'
  BY <1>4 DEF TakeUserSlot, Typed, RestTyped, sweepVars
<1> QED BY <1>1, <1>2, <1>3, <1>5 DEF Typed

\* The global slots are all taken.
RefusedGlobal(r) ==
  /\ Goto(r, "global", "undo")
  /\ UNCHANGED <<slotVars, doc, job, dataVars, sweepVars>>

LEMMA RefusedGlobalInv ==
  ASSUME Typed, SlotsConserved, NEW r \in Req, RefusedGlobal(r)
  PROVE  Typed' /\ SlotsConserved' /\ GlobalHolders' = GlobalHolders
<1>1. /\ pc[r] = "global" /\ pc' = [pc EXCEPT ![r] = "undo"]
      /\ UNCHANGED <<userSem, globalSem, job>>
  BY DEF RefusedGlobal, Goto, slotVars
<1>2. SlotsConserved' /\ GlobalHolders' = GlobalHolders
  BY <1>1, SlotsKept DEF Typed, UserSlot, Exporting
<1>3. StepsTyped'
  BY <1>1, StepTyped DEF Typed, PC
<1>4. DataTyped' /\ RestTyped'
  BY DEF RefusedGlobal, Typed, DataTyped, RestTyped, dataVars, sweepVars, slotVars
<1> QED BY <1>2, <1>3, <1>4 DEF Typed

LEMMA GiveBackInv ==
  ASSUME Typed, SlotsConserved, NEW r \in Req, GiveUserSlotBack(r) \/ ReleaseUser(r)
  PROVE  Typed' /\ SlotsConserved' /\ GlobalHolders' = GlobalHolders
<1>1. /\ SlotsConserved' /\ GlobalHolders' = GlobalHolders
      /\ userSem' \in [Accounts -> Nat]
  BY UserSlotGivenBack
<1>2. StepsTyped'
  BY StepTyped DEF GiveUserSlotBack, ReleaseUser, Goto, Typed, PC
<1>3. DataTyped'
  BY DEF GiveUserSlotBack, ReleaseUser, Typed, DataTyped, dataVars
<1>4. RestTyped'
  BY <1>1 DEF GiveUserSlotBack, ReleaseUser, Typed, RestTyped, sweepVars
<1> QED BY <1>1, <1>2, <1>3, <1>4 DEF Typed

LEMMA ReleaseGlobalInv ==
  ASSUME Typed, SlotsConserved, NEW r \in Req, ReleaseGlobal(r)
  PROVE  Typed' /\ SlotsConserved'
<1>1. SlotsConserved' /\ globalSem' \in Nat
  BY GlobalSlotReleased
<1>2. StepsTyped'
  BY StepTyped DEF ReleaseGlobal, Goto, Typed, PC
<1>3. DataTyped'
  BY DEF ReleaseGlobal, Typed, DataTyped
<1>4. RestTyped'
  BY <1>1 DEF ReleaseGlobal, Typed, RestTyped, sweepVars
<1> QED BY <1>1, <1>2, <1>3, <1>4 DEF Typed

-----------------------------------------------------------------------------
(* Everything else leaves the slots alone                                  *)

LEMMA AnnotateInv ==
  ASSUME Typed, SlotsConserved, NEW r \in Req, Annotate(r)
  PROVE  /\ Typed' /\ SlotsConserved' /\ GlobalHolders' = GlobalHolders
         /\ pc'[r] \notin UserSlot /\ \A q \in Req : q # r => pc'[q] = pc[q]
<1>1. Typed'
  BY AnnotateTyped
<1>2. PICK to \in {"insert", "idle"} :
        /\ pc[r] \in {"idle", "insert", "orphan"} /\ pc' = [pc EXCEPT ![r] = to]
        /\ UNCHANGED <<userSem, globalSem>>
  <2>1. ASSUME NEW t \in Tag, AddTag(r, t)
        PROVE  pc[r] = "idle" /\ pc' = [pc EXCEPT ![r] = "insert"] /\ UNCHANGED slotVars
    BY <2>1 DEF AddTag, nodeIDFor
  <2>2. ASSUME InsertTag(r) \/ InsertRefused(r)
        PROVE  /\ pc[r] \in {"insert", "orphan"} /\ pc' = [pc EXCEPT ![r] = "idle"]
               /\ UNCHANGED slotVars
    BY <2>2 DEF InsertTag, InsertRefused, Goto
  <2>3. ASSUME NEW m, Put(r, m) \/ Remove(r, m)
        PROVE  pc[r] = "idle" /\ pc' = [pc EXCEPT ![r] = "idle"] /\ UNCHANGED slotVars
    BY <2>3 DEF Put, Remove, nodeIDFor, Typed, StepsTyped
  <2> QED
    BY <2>1, <2>2, <2>3 DEF Annotate, RemoveTag, SetNote, handleWatch, slotVars
<1>3. SlotsConserved' /\ GlobalHolders' = GlobalHolders
  BY <1>2, SlotsKept DEF Typed, UserSlot, Exporting
<1>4. pc'[r] \notin UserSlot /\ \A q \in Req : q # r => pc'[q] = pc[q]
  BY <1>2 DEF Typed, StepsTyped, UserSlot, Exporting
<1> QED BY <1>1, <1>3, <1>4

LEMMA EraseInv ==
  ASSUME Typed, SlotsConserved, Erase, UNCHANGED <<slotVars, doc>>,
         pass' \in {"idle", "doomed", "missed"}
  PROVE  /\ Typed' /\ SlotsConserved' /\ GlobalHolders' = GlobalHolders
         /\ \A r \in Req : pc'[r] \in UserSlot => pc'[r] = pc[r]
<1>1. DataTyped' /\ StepsTyped' /\ old' = "no"
  BY EraseTyped DEF Typed
<1>2. RestTyped'
  BY <1>1 DEF Typed, RestTyped, slotVars
<1>3. pc' = [r \in Req |-> IF pc[r] = "insert" THEN "orphan" ELSE pc[r]]
  BY DEF Erase
<1>4. SlotsConserved' /\ GlobalHolders' = GlobalHolders
  BY <1>3, HoldersKept DEF UserSlot, Exporting, slotVars
<1>5. \A r \in Req : pc'[r] \in UserSlot => pc'[r] = pc[r]
  BY <1>3 DEF UserSlot, Exporting
<1> QED BY <1>1, <1>2, <1>4, <1>5 DEF Typed

RowStep ==
  \/ EnqueueURL \/ Claim \/ Crawled \/ Age \/ RetentionSelect \/ RetentionFails

LEMMA RowStepInv ==
  ASSUME Typed, SlotsConserved, RowStep
  PROVE  Typed' /\ SlotsConserved' /\ GlobalHolders' = GlobalHolders /\ pc' = pc
<1>1. UNCHANGED <<pc, job, userSem, globalSem, doc>>
  BY DEF RowStep, EnqueueURL, Claim, Crawled, Age, RetentionSelect, RetentionFails,
         rowUnchanged, slotVars
<1>2. SlotsConserved' /\ GlobalHolders' = GlobalHolders
  BY <1>1, HoldersKept
<1>3. StepsTyped'
  BY <1>1 DEF Typed, StepsTyped
<1>4. old' \in {"yes", "no"} /\ pass' \in {"idle", "doomed", "missed"}
  BY DEF RowStep, EnqueueURL, Claim, Crawled, Recent, Age, RetentionSelect, RetentionFails,
         Typed, RestTyped, sweepVars
<1>5. RestTyped'
  BY <1>1, <1>4 DEF Typed, RestTyped
<1>6. DataTyped'
  <2>1. CASE EnqueueURL \/ Claim \/ Crawled
    BY <2>1, StoreTyped DEF EnqueueURL, Claim, Crawled, Typed, DataTyped, RowState
  <2>2. CASE Age
    BY <2>2 DEF Age, Typed, DataTyped, dataVars
  <2>3. CASE RetentionSelect \/ RetentionFails
    BY <2>3 DEF RetentionSelect, RetentionFails, Typed, DataTyped, dataVars
  <2> QED BY <2>1, <2>2, <2>3 DEF RowStep
<1> QED BY <1>1, <1>2, <1>3, <1>5, <1>6 DEF Typed

-----------------------------------------------------------------------------
(* The slots as a whole                                                    *)

\* Two requests that hold the slot of one account are the same request.
Alone ==
  \A q, r \in Req : pc[q] \in UserSlot /\ pc[r] \in UserSlot /\ Of[q] = Of[r] => q = r

SlotInv == Typed /\ SlotsConserved /\ Alone

\* A request that has gone on holding, or holding no longer, its account's slot.
LEMMA AloneKept ==
  ASSUME Alone, \A r \in Req : pc'[r] \in UserSlot => pc[r] \in UserSlot
  PROVE  Alone'
  BY DEF Alone

LEMMA TakeUserSlotAlone ==
  ASSUME SlotInv, NEW r \in Req, TakeUserSlot(r)
  PROVE  Alone'
<1>1. userSem[Of[r]] < 1 /\ pc' = [pc EXCEPT ![r] = "global"]
  BY DEF TakeUserSlot, Goto
<1>2. userSem \in [Accounts -> Nat] /\ Of[r] \in Accounts /\ pc \in [Req -> PC]
  BY DEF SlotInv, Typed, RestTyped, StepsTyped, Accounts
<1>3. Cardinality(UserHolders(Of[r])) = 0
  BY <1>1, <1>2 DEF SlotInv, SlotsConserved
<1>4. UserHolders(Of[r]) = {}
  BY <1>3, HoldersFinite, FS_EmptySet
<1>5. \A q \in Req : Of[q] = Of[r] => pc[q] \notin UserSlot
  BY <1>4 DEF UserHolders, UserSlot
<1> QED BY <1>1, <1>2, <1>5 DEF SlotInv, Alone

\* What a step does to the slots, and what it looks like from the pool.
SlotStep == SlotInv' /\ [Pool!Next]_GlobalHolders

LEMMA UnseenStep ==
  ASSUME SlotInv, Typed', SlotsConserved', GlobalHolders' = GlobalHolders,
         \A r \in Req : pc'[r] \in UserSlot => pc[r] \in UserSlot
  PROVE  SlotStep
  BY AloneKept DEF SlotInv, SlotStep

\* SlotPool extends FiniteSets in its own right.
LEMMA PoolCounts == \A S : Pool!Cardinality(S) = Cardinality(S)
  BY Zenon DEF Pool!Cardinality, Cardinality

LEMMA BeginStep ==
  ASSUME SlotInv, NEW r \in Req, NEW phase \in {"lookup", "rows"}, Begin(r, phase)
  PROVE  SlotStep
<1>1. Typed'
  BY BeginTyped DEF SlotInv
<1>2. /\ SlotsConserved'
      /\ r \notin GlobalHolders /\ GlobalHolders' = GlobalHolders \cup {r}
      /\ Cardinality(GlobalHolders) < Global
  BY GlobalSlotTaken DEF SlotInv
<1>3. pc[r] = "global" /\ pc' = [pc EXCEPT ![r] = phase] /\ pc \in [Req -> PC]
  BY DEF Begin, Goto, SlotInv, Typed, StepsTyped
<1>4. Alone'
  <2>1. \A q \in Req : pc'[q] \in UserSlot => pc[q] \in UserSlot
    BY <1>3 DEF UserSlot
  <2> QED BY <2>1, AloneKept DEF SlotInv
<1>5. \A q \in GlobalHolders : Of[q] # Of[r]
  BY <1>2, <1>3 DEF GlobalHolders, SlotInv, Alone, UserSlot
<1>6. Pool!Start(r)
  BY <1>2, <1>5, PoolCounts DEF Pool!Start
<1> QED BY <1>1, <1>2, <1>4, <1>6 DEF SlotStep, SlotInv, Pool!Next

LEMMA ReleaseGlobalStep ==
  ASSUME SlotInv, NEW r \in Req, ReleaseGlobal(r)
  PROVE  SlotStep
<1>1. Typed' /\ SlotsConserved'
  BY ReleaseGlobalInv DEF SlotInv
<1>2. r \in GlobalHolders /\ GlobalHolders' = GlobalHolders \ {r}
  BY GlobalSlotReleased DEF SlotInv
<1>3. \A q \in Req : pc'[q] \in UserSlot => pc[q] \in UserSlot
  BY DEF ReleaseGlobal, Goto, SlotInv, Typed, StepsTyped, UserSlot, Exporting
<1>4. Alone'
  BY <1>3, AloneKept DEF SlotInv
<1>5. Pool!Finish(r)
  BY <1>2 DEF Pool!Finish
<1> QED BY <1>1, <1>4, <1>5 DEF SlotStep, SlotInv, Pool!Next

LEMMA ExportStepSlots ==
  ASSUME SlotInv, NEW r \in Req, TakeUserSlot(r) \/ ExportStep(r)
  PROVE  SlotStep
<1>0. Typed /\ SlotsConserved /\ Alone /\ pc \in [Req -> PC]
  BY DEF SlotInv, Typed, StepsTyped
<1>1. CASE TakeUserSlot(r)
  BY <1>0, <1>1, TakeUserSlotInv, TakeUserSlotAlone DEF SlotStep, SlotInv
<1>2. ASSUME NEW phase \in {"lookup", "rows"}, Begin(r, phase) PROVE SlotStep
  BY <1>2, BeginStep
<1>3. CASE RefusedGlobal(r)
  <2>1. \A q \in Req : pc'[q] \in UserSlot => pc[q] \in UserSlot
    BY <1>0, <1>3 DEF RefusedGlobal, Goto, UserSlot
  <2> QED BY <1>0, <1>3, <2>1, RefusedGlobalInv, UnseenStep
<1>4. CASE GiveUserSlotBack(r) \/ ReleaseUser(r)
  <2>1. \A q \in Req : pc'[q] \in UserSlot => pc[q] \in UserSlot
    BY <1>0, <1>4 DEF GiveUserSlotBack, ReleaseUser, Goto, UserSlot, Exporting
  <2> QED BY <1>0, <1>4, <2>1, GiveBackInv, UnseenStep
<1>5. CASE Sections(r)
  <2>1. \A q \in Req : pc'[q] \in UserSlot => pc[q] \in UserSlot
    BY <1>0, <1>5 DEF Sections, Lookup, ExportNodes, ExportAnnotations, ExportRows,
                      Section, Goto, UserSlot, Exporting
  <2> QED BY <1>0, <1>5, <2>1, SectionInv, UnseenStep
<1>6. CASE SectionFails(r)
  <2>1. \A q \in Req : pc'[q] \in UserSlot => pc[q] \in UserSlot
    BY <1>0, <1>6 DEF SectionFails, Goto, UserSlot, Exporting
  <2> QED BY <1>0, <1>6, <2>1, SectionFailsInv, UnseenStep
<1>7. CASE ReleaseGlobal(r)
  BY <1>7, ReleaseGlobalStep
<1> QED
  BY <1>1, <1>2, <1>3, <1>4, <1>5, <1>6, <1>7
  DEF ExportStep, TakeGlobalSlot, RefusedGlobal, Sections

LEMMA NextSlots ==
  ASSUME SlotInv, [Next]_vars
  PROVE  SlotStep
<1>0. Typed /\ SlotsConserved /\ Alone /\ pc \in [Req -> PC]
  BY DEF SlotInv, Typed, StepsTyped
<1>1. ASSUME NEW r \in Req, Annotate(r) PROVE SlotStep
  <2>1. /\ Typed' /\ SlotsConserved' /\ GlobalHolders' = GlobalHolders
        /\ pc'[r] \notin UserSlot /\ \A q \in Req : q # r => pc'[q] = pc[q]
    BY <1>0, <1>1, AnnotateInv
  <2> QED BY <2>1, UnseenStep
<1>2. ASSUME NEW r \in Req, TakeUserSlot(r) \/ ExportStep(r) PROVE SlotStep
  BY <1>2, ExportStepSlots
<1>3. CASE RowStep
  BY <1>0, <1>3, RowStepInv, UnseenStep
<1>4. CASE DeleteCrawlHistory \/ RetentionDelete
  <2>1. /\ Erase /\ UNCHANGED <<slotVars, doc>>
        /\ pass' \in {"idle", "doomed", "missed"}
    BY <1>0, <1>4 DEF DeleteCrawlHistory, RetentionDelete, Typed, RestTyped
  <2>2. /\ Typed' /\ SlotsConserved' /\ GlobalHolders' = GlobalHolders
        /\ \A r \in Req : pc'[r] \in UserSlot => pc'[r] = pc[r]
    BY <1>0, <2>1, EraseInv
  <2> QED BY <2>2, UnseenStep
<1>5. CASE UNCHANGED vars
  <2>1. Typed' /\ pc' = pc
    BY <1>0, <1>5 DEF vars, Typed, DataTyped, RestTyped, StepsTyped
  <2>2. SlotsConserved' /\ GlobalHolders' = GlobalHolders
    BY <1>0, <1>5, HoldersKept DEF vars
  <2> QED BY <2>1, <2>2, UnseenStep
<1> QED BY <1>1, <1>2, <1>3, <1>4, <1>5 DEF Next, RowStep, Retention

LEMMA InitSlots == Init => SlotInv /\ Pool!Init
<1> SUFFICES ASSUME Init PROVE SlotInv /\ Pool!Init
  OBVIOUS
<1>1. Typed
  BY InitTyped
<1>2. GlobalHolders = {} /\ \A u : UserHolders(u) = {}
  BY DEF Init, GlobalHolders, UserHolders, Exporting
<1>3. SlotsConserved
  BY <1>2, FS_EmptySet DEF Init, SlotsConserved
<1>4. Alone
  BY DEF Init, Alone, UserSlot, Exporting
<1> QED BY <1>1, <1>2, <1>3, <1>4 DEF SlotInv, Pool!Init

\* acquireExportSlot: no path through an export leaks a slot or returns it twice.
THEOREM SlotsAlwaysConserved == Spec => []SlotsConserved
<1>1. SlotInv => SlotsConserved
  BY DEF SlotInv
<1>2. SlotInv /\ [Next]_vars => SlotInv'
  BY NextSlots DEF SlotStep
<1> QED BY <1>1, <1>2, InitSlots, PTL DEF Spec

\* Requests, rows and documents keep their shape; neither semaphore goes below
\* zero when acquireExportSlot's release gives it back.
THEOREM TypeCorrect == Spec => []TypeOK
<1>1. SlotInv => TypeOK
  BY TypedIsTypeOK DEF SlotInv
<1>2. SlotInv /\ [Next]_vars => SlotInv'
  BY NextSlots DEF SlotStep
<1> QED BY <1>1, <1>2, InitSlots, PTL DEF Spec

\* The two semaphores of the export handlers implement one pool, with at most one
\* export of each account and at most Global exports.
THEOREM SlotsImplementPool == Spec => ImplementsSlotPool
<1>1. SlotInv /\ [Next]_vars => SlotInv' /\ [Pool!Next]_GlobalHolders
  BY NextSlots DEF SlotStep
<1> QED BY <1>1, InitSlots, PTL DEF Spec, ImplementsSlotPool, Pool!Spec

-----------------------------------------------------------------------------
(* What the deletions leave                                                *)

\* A deleted row has no annotations and no insertion that could still find it.
Tidy == row = "gone" => marks = {} /\ \A r \in Req : pc[r] # "insert"

\* The steps of an export touch neither the row nor the insertions.
LEMMA ExportLeavesData ==
  ASSUME Typed, NEW r \in Req, TakeUserSlot(r) \/ ExportStep(r)
  PROVE  /\ UNCHANGED <<row, marks, pass>>
         /\ pc[r] # "insert" /\ pc'[r] # "insert"
         /\ \A q \in Req : q # r => pc'[q] = pc[q]
<1>0. pc \in [Req -> PC]
  BY DEF Typed, StepsTyped
<1>1. CASE TakeUserSlot(r) \/ GiveUserSlotBack(r) \/ ReleaseUser(r) \/ ReleaseGlobal(r)
  BY <1>0, <1>1
  DEF TakeUserSlot, GiveUserSlotBack, ReleaseUser, ReleaseGlobal, Goto, dataVars, sweepVars
<1>2. CASE TakeGlobalSlot(r)
  BY <1>0, <1>2 DEF TakeGlobalSlot, Begin, Goto, dataVars, sweepVars
<1>3. CASE Sections(r)
  BY <1>0, <1>3 DEF Sections, Lookup, ExportNodes, ExportAnnotations, ExportRows,
                    Section, Goto, dataVars, sweepVars
<1>4. CASE SectionFails(r)
  BY <1>0, <1>4 DEF SectionFails, Goto, Exporting, sweepVars
<1> QED BY <1>1, <1>2, <1>3, <1>4 DEF ExportStep, Sections

LEMMA TidyNext ==
  ASSUME Typed, Tidy, [Next]_vars
  PROVE  Tidy'
<1>0. pc \in [Req -> PC]
  BY DEF Typed, StepsTyped
<1>1. ASSUME NEW r \in Req, NEW t \in Tag, AddTag(r, t) PROVE Tidy'
  BY <1>0, <1>1 DEF AddTag, nodeIDFor, Tidy, dataVars, sweepVars
<1>2. ASSUME NEW r \in Req, NEW m, Put(r, m) \/ Remove(r, m) PROVE Tidy'
  <2>1. row # "gone" /\ row' = row
    BY <1>2 DEF Put, Remove, nodeIDFor, Store
  <2> QED BY <2>1 DEF Tidy
<1>3. ASSUME NEW r \in Req, InsertTag(r) PROVE Tidy'
  <2>1. row # "gone"
    BY <1>3 DEF InsertTag, Goto, Tidy
  <2>2. row' = row
    BY <1>3 DEF InsertTag, Store
  <2> QED BY <2>1, <2>2 DEF Tidy
<1>4. ASSUME NEW r \in Req, InsertRefused(r) PROVE Tidy'
  BY <1>0, <1>4 DEF InsertRefused, Goto, Tidy, dataVars, sweepVars
<1>5. ASSUME NEW r \in Req, Annotate(r) PROVE Tidy'
  BY <1>1, <1>2, <1>3, <1>4, <1>5 DEF Annotate, RemoveTag, SetNote, handleWatch
<1>6. ASSUME NEW r \in Req, TakeUserSlot(r) \/ ExportStep(r) PROVE Tidy'
  BY <1>6, ExportLeavesData DEF Tidy
<1>7. CASE EnqueueURL \/ Claim \/ Crawled
  <2>1. row' # "gone"
    BY <1>7 DEF EnqueueURL, Claim, Crawled, Store
  <2> QED BY <2>1 DEF Tidy
<1>8. CASE Age \/ RetentionSelect \/ RetentionFails
  BY <1>8 DEF Age, RetentionSelect, RetentionFails, Tidy, dataVars, rowUnchanged
<1>9. CASE DeleteCrawlHistory \/ RetentionDelete
  <2>1. Erase
    BY <1>9 DEF DeleteCrawlHistory, RetentionDelete
  <2>2. \A r \in Req : pc'[r] # "insert"
    BY <2>1 DEF Erase
  <2> QED BY <2>1, <2>2 DEF Erase, Tidy
<1>10. CASE UNCHANGED vars
  BY <1>10 DEF vars, Tidy
<1> QED
  BY <1>5, <1>6, <1>7, <1>8, <1>9, <1>10 DEF Next, Retention

LEMMA InitTidy == Init => Tidy
  BY DEF Init, Tidy

TidyInv == SlotInv /\ Tidy

LEMMA TidyInvNext == TidyInv /\ [Next]_vars => TidyInv'
  BY NextSlots, TidyNext DEF TidyInv, SlotInv, SlotStep

LEMMA InitTidyInv == Init => TidyInv
  BY InitSlots, InitTidy DEF TidyInv

\* DeleteCrawlHistory and ApplyRetention: the cascade and the foreign key leave no
\* annotation without its row.
THEOREM NothingIsLeftBehind == Spec => []NothingLeftBehind
<1>1. TidyInv => NothingLeftBehind
  BY DEF TidyInv, Tidy, NothingLeftBehind
<1> QED BY <1>1, InitTidyInv, TidyInvNext, PTL DEF Spec

-----------------------------------------------------------------------------
(* The documents                                                           *)

\* The item that is followed is still stored; a watch is written by the lookups, a
\* tag or a note by the section that comes last.
Written ==
  \A r \in Req :
    /\ kept[r] \subseteq Held(row, marks)
    /\ pc[r] \in {"nodes", "annotations"} => kept[r] \cap {"watch"} \subseteq doc[r]
    /\ pc[r] = "rows" => kept[r] = {}
    /\ pc[r] = "freeGlobal" => kept[r] \cap Mark \subseteq doc[r]

\* A step that writes no document: what it deletes is not followed any more.
LEMMA WrittenShrinks ==
  ASSUME Written, doc' = doc,
         \A r \in Req : /\ kept'[r] \subseteq kept[r] /\ kept'[r] \subseteq Held(row, marks)'
                        /\ pc'[r] \in Exporting => pc'[r] = pc[r]
  PROVE  Written'
  BY DEF Written, Exporting

LEMMA StoreWritten ==
  ASSUME Written, NEW s, NEW m, Store(s, m), doc' = doc,
         \A r \in Req : pc'[r] \in Exporting => pc'[r] = pc[r]
  PROVE  Written'
<1>1. \A r \in Req : kept'[r] = kept[r] \cap Held(s, m)
  BY DEF Store
<1>2. Held(row, marks)' = Held(s, m)
  BY DEF Store, Held
<1> QED BY <1>1, <1>2, WrittenShrinks

LEMMA SectionWritten ==
  ASSUME Typed, Written, NEW r \in Req, Sections(r)
  PROVE  Written'
<1>0. /\ pc \in [Req -> PC] /\ doc \in [Req -> SUBSET Item]
      /\ kept[r] \in SUBSET Item /\ kept[r] \subseteq Held(row, marks)
  BY DEF Typed, StepsTyped, RestTyped, DataTyped, Written
<1>1. /\ UNCHANGED <<row, marks, kept>>
      /\ \A q \in Req : q # r => pc'[q] = pc[q] /\ doc'[q] = doc[q]
  BY <1>0 DEF Sections, Lookup, ExportNodes, ExportAnnotations, ExportRows, Section,
              Goto, dataVars
<1>2. kept[r] \cap Mark \subseteq Found
  BY <1>0, DataAssumption DEF Found, Held, Mark, DataAssumption
<1>3. CASE Lookup(r)
  <2>1. pc'[r] = "nodes" /\ kept[r] \cap {"watch"} \subseteq doc'[r]
    BY <1>0, <1>2, <1>3 DEF Lookup, Section, Goto, Mark
  <2> QED BY <1>1, <2>1 DEF Written, Held
<1>4. CASE ExportNodes(r)
  <2>1. pc'[r] = "annotations" /\ kept[r] \cap {"watch"} \subseteq doc'[r]
    BY <1>0, <1>4 DEF ExportNodes, Section, Goto, Written
  <2> QED BY <1>1, <2>1 DEF Written, Held
<1>5. CASE ExportAnnotations(r)
  <2>1. pc'[r] = "freeGlobal" /\ kept[r] \cap Mark \subseteq doc'[r]
    BY <1>0, <1>2, <1>5 DEF ExportAnnotations, Section, Goto, Written, Mark
  <2> QED BY <1>1, <2>1 DEF Written, Held
<1>6. CASE ExportRows(r)
  <2>1. pc'[r] = "freeGlobal" /\ kept[r] = {}
    BY <1>0, <1>6 DEF ExportRows, Section, Goto, Written
  <2> QED BY <1>1, <2>1 DEF Written, Held
<1> QED BY <1>3, <1>4, <1>5, <1>6 DEF Sections

LEMMA BeginWritten ==
  ASSUME Typed, Written, NEW r \in Req, NEW phase \in {"lookup", "rows"}, Begin(r, phase)
  PROVE  Written'
<1>0. pc \in [Req -> PC] /\ kept \in [Req -> SUBSET Item]
  BY DEF Typed, StepsTyped, DataTyped
<1>1. PICK i \in {{}} \cup {{x} : x \in Followed(r, phase)} :
        kept' = [kept EXCEPT ![r] = i]
  BY DEF Begin
<1>2. i \subseteq Held(row, marks) /\ (phase = "rows" => i = {})
  BY DEF Followed
<1>3. UNCHANGED <<row, marks, doc>> /\ pc' = [pc EXCEPT ![r] = phase]
  BY DEF Begin, Goto
<1>4. kept'[r] = i /\ pc'[r] = phase
  BY <1>0, <1>1, <1>3
<1>5. \A q \in Req : q # r => kept'[q] = kept[q] /\ pc'[q] = pc[q]
  BY <1>0, <1>1, <1>3
<1> QED BY <1>2, <1>3, <1>4, <1>5 DEF Written, Held

LEMMA WrittenNext ==
  ASSUME Typed, Written, [Next]_vars
  PROVE  Written'
<1>0. pc \in [Req -> PC] /\ kept \in [Req -> SUBSET Item]
  BY DEF Typed, StepsTyped, DataTyped
<1>1. ASSUME NEW r \in Req, NEW m, Put(r, m) \/ Remove(r, m) PROVE Written'
  <2>1. PICK m2 : Store(row, m2)
    BY <1>1 DEF Put, Remove
  <2>2. pc' = pc /\ doc' = doc
    BY <1>1 DEF Put, Remove
  <2> QED BY <2>1, <2>2, StoreWritten
<1>2. ASSUME NEW r \in Req, InsertTag(r) PROVE Written'
  <2>1. Store(row, marks \cup {job[r]}) /\ doc' = doc /\ pc' = [pc EXCEPT ![r] = "idle"]
    BY <1>2 DEF InsertTag, Goto
  <2>2. \A q \in Req : pc'[q] \in Exporting => pc'[q] = pc[q]
    BY <1>0, <2>1 DEF Exporting
  <2> QED BY <2>1, <2>2, StoreWritten
<1>3. ASSUME UNCHANGED <<row, marks, kept, doc>>,
             \A q \in Req : pc'[q] \in Exporting => pc'[q] = pc[q]
      PROVE  Written'
  BY <1>3, WrittenShrinks DEF Written, Held
<1>4. ASSUME NEW r \in Req, InsertRefused(r) \/ \E t \in Tag : AddTag(r, t) PROVE Written'
  <2>1. UNCHANGED <<row, marks, kept, doc>>
    BY <1>4 DEF InsertRefused, AddTag, dataVars
  <2>2. \A q \in Req : pc'[q] \in Exporting => pc'[q] = pc[q]
    BY <1>0, <1>4 DEF InsertRefused, AddTag, Goto, Exporting
  <2> QED BY <1>3, <2>1, <2>2
<1>5. ASSUME NEW r \in Req, Annotate(r) PROVE Written'
  BY <1>1, <1>2, <1>4, <1>5 DEF Annotate, RemoveTag, SetNote, handleWatch
<1>6. ASSUME NEW r \in Req,
             TakeUserSlot(r) \/ RefusedGlobal(r) \/ GiveUserSlotBack(r) \/ ReleaseUser(r)
      PROVE  Written'
  <2>1. UNCHANGED <<row, marks, kept, doc>>
    BY <1>6 DEF TakeUserSlot, RefusedGlobal, GiveUserSlotBack, ReleaseUser, dataVars
  <2>2. \A q \in Req : pc'[q] \in Exporting => pc'[q] = pc[q]
    BY <1>0, <1>6 DEF TakeUserSlot, RefusedGlobal, GiveUserSlotBack, ReleaseUser, Goto,
                      Exporting
  <2> QED BY <1>3, <2>1, <2>2
<1>7. ASSUME NEW r \in Req, SectionFails(r) \/ ReleaseGlobal(r) PROVE Written'
  <2>1. UNCHANGED <<row, marks>> /\ kept' = [kept EXCEPT ![r] = {}]
    BY <1>7 DEF SectionFails, ReleaseGlobal
  <2>2. kept'[r] = {}
    BY <1>0, <2>1
  <2>3. \A q \in Req : q # r => pc'[q] = pc[q] /\ kept'[q] = kept[q] /\ doc'[q] = doc[q]
    BY <1>0, <1>7 DEF SectionFails, ReleaseGlobal, Goto, Typed, RestTyped
  <2> QED BY <2>1, <2>2, <2>3 DEF Written, Held
<1>8. ASSUME NEW r \in Req, TakeUserSlot(r) \/ ExportStep(r) PROVE Written'
  BY <1>6, <1>7, <1>8, BeginWritten, SectionWritten
  DEF ExportStep, TakeGlobalSlot, RefusedGlobal, Sections
<1>9. CASE EnqueueURL \/ Claim \/ Crawled
  <2>1. PICK s : Store(s, marks)
    BY <1>9 DEF EnqueueURL, Claim, Crawled
  <2>2. pc' = pc /\ doc' = doc
    BY <1>9 DEF EnqueueURL, Claim, Crawled, rowUnchanged
  <2> QED BY <2>1, <2>2, StoreWritten
<1>10. CASE Age \/ RetentionSelect \/ RetentionFails
  BY <1>3, <1>10 DEF Age, RetentionSelect, RetentionFails, dataVars, rowUnchanged
<1>11. CASE DeleteCrawlHistory \/ RetentionDelete
  <2>1. Erase /\ doc' = doc
    BY <1>11 DEF DeleteCrawlHistory, RetentionDelete
  <2>2. \A r \in Req : kept'[r] = {} /\ (pc'[r] \in Exporting => pc'[r] = pc[r])
    BY <2>1 DEF Erase, Exporting
  <2> QED BY <2>1, <2>2, WrittenShrinks
<1>12. CASE UNCHANGED vars
  BY <1>3, <1>12 DEF vars
<1> QED
  BY <1>5, <1>8, <1>9, <1>10, <1>11, <1>12 DEF Next, Retention

LEMMA InitWritten == Init => Written
  BY DEF Init, Written

\* handlePrivacyExport: the tags, the note and the watch that were stored from
\* beginning to end are in the document.
THEOREM WritingIsExported == Spec => []WritingExported
<1>1. SlotInv /\ Written => WritingExported
  BY DEF Written, WritingExported
<1>2. SlotInv /\ Written /\ [Next]_vars => (SlotInv /\ Written)'
  BY NextSlots, WrittenNext DEF SlotInv, SlotStep
<1>3. Init => SlotInv /\ Written
  BY InitSlots, InitWritten
<1> QED BY <1>1, <1>2, <1>3, PTL DEF Spec

-----------------------------------------------------------------------------
(* The cap on tags                                                         *)

OwnerReq == {r \in Req : Of[r] = Owner}
Inserting == {r \in Req : pc[r] = "insert"}
Tags == marks \cap Tag

\* Every addition under way has reserved the place of a tag beyond the cap.
Reserved ==
  /\ Inserting \subseteq OwnerReq
  /\ Cardinality(Tags) + Cardinality(Inserting) < MaxTags + Cardinality(OwnerReq)

LEMMA TagsFinite ==
  /\ IsFiniteSet(Tags) /\ Cardinality(Tags) \in Nat
  /\ IsFiniteSet(Inserting) /\ Cardinality(Inserting) \in Nat
  /\ IsFiniteSet(OwnerReq) /\ Cardinality(OwnerReq) \in Nat
<1>1. Tags \subseteq Tag /\ Inserting \subseteq Req /\ OwnerReq \subseteq Req
  BY DEF Tags, Inserting, OwnerReq
<1> QED BY <1>1, DataAssumption, FS_Subset, FS_CardinalityType DEF DataAssumption

\* Fewer tags, and no addition begun.
LEMMA ReservedShrinks ==
  ASSUME Reserved, Tags' \subseteq Tags, Inserting' \subseteq Inserting
  PROVE  Reserved'
<1>1. /\ Cardinality(Tags') <= Cardinality(Tags) /\ Cardinality(Tags') \in Nat
      /\ Cardinality(Inserting') <= Cardinality(Inserting) /\ Cardinality(Inserting') \in Nat
  BY TagsFinite, FS_Subset, FS_CardinalityType
<1>2. OwnerReq' = OwnerReq
  BY DEF OwnerReq
<1> QED
  BY <1>1, <1>2, TagsFinite, DataAssumption DEF Reserved, DataAssumption

LEMMA AddTagReserved ==
  ASSUME Typed, Reserved, NEW r \in Req, NEW t \in Tag, AddTag(r, t)
  PROVE  Reserved'
<1>1. Cardinality(Tags) < MaxTags /\ Tags' = Tags /\ OwnerReq' = OwnerReq
  BY DEF AddTag, Tags, OwnerReq, dataVars
<1>2. Inserting' \subseteq OwnerReq
  BY DEF AddTag, nodeIDFor, Inserting, OwnerReq, Reserved, Typed, StepsTyped
<1>3. Cardinality(Inserting') <= Cardinality(OwnerReq) /\ Cardinality(Inserting') \in Nat
  BY <1>2, TagsFinite, FS_Subset, FS_CardinalityType
<1> QED
  BY <1>1, <1>2, <1>3, TagsFinite, DataAssumption DEF Reserved, DataAssumption

LEMMA InsertTagReserved ==
  ASSUME Typed, Reserved, NEW r \in Req, InsertTag(r)
  PROVE  Reserved'
<1>1. Tags' \subseteq Tags \cup {job[r]}
  BY DEF InsertTag, Store, Tags
<1>2. Inserting' = Inserting \ {r} /\ r \in Inserting /\ OwnerReq' = OwnerReq
  BY DEF InsertTag, Goto, Inserting, OwnerReq, Typed, StepsTyped
<1>3. /\ Cardinality(Inserting') = Cardinality(Inserting) - 1
      /\ Cardinality(Inserting') \in Nat
  <2>1. IsFiniteSet(Inserting \ {r})
    BY TagsFinite, FS_RemoveElement
  <2> QED BY <1>2, <2>1, TagsFinite, FS_RemoveElement, FS_CardinalityType
<1>4. /\ Cardinality(Tags') <= Cardinality(Tags) + 1
      /\ Cardinality(Tags') \in Nat
  <2>1. /\ IsFiniteSet(Tags \cup {job[r]})
        /\ Cardinality(Tags \cup {job[r]}) <= Cardinality(Tags) + 1
    <3>1. CASE job[r] \in Tags
      <4>1. Tags \cup {job[r]} = Tags
        BY <3>1
      <4>2. /\ Cardinality(Tags \cup {job[r]}) = Cardinality(Tags)
            /\ IsFiniteSet(Tags \cup {job[r]}) = IsFiniteSet(Tags)
        BY <4>1, Zenon
      <4> QED BY <4>2, TagsFinite
    <3>2. CASE job[r] \notin Tags
      <4>1. Cardinality(Tags \cup {job[r]}) = Cardinality(Tags) + 1
        BY <3>2, TagsFinite, FS_AddElement
      <4>2. IsFiniteSet(Tags \cup {job[r]})
        BY TagsFinite, FS_AddElement
      <4> QED BY <4>1, <4>2, TagsFinite
    <3> QED BY <3>1, <3>2
  <2>2. /\ IsFiniteSet(Tags')
        /\ Cardinality(Tags') <= Cardinality(Tags \cup {job[r]})
    BY <1>1, <2>1, FS_Subset
  <2>3. Cardinality(Tags') \in Nat /\ Cardinality(Tags \cup {job[r]}) \in Nat
    BY <2>1, <2>2, FS_CardinalityType
  <2> QED BY <2>1, <2>2, <2>3, TagsFinite
<1> QED
  BY <1>2, <1>3, <1>4, TagsFinite, DataAssumption DEF Reserved, DataAssumption

LEMMA ReservedNext ==
  ASSUME Typed, Reserved, [Next]_vars
  PROVE  Reserved'
<1>0. pc \in [Req -> PC]
  BY DEF Typed, StepsTyped
<1>1. ASSUME NEW r \in Req, NEW m \in Tag \cup {"note", "watch"},
             Remove(r, m) \/ (m \notin Tag /\ Put(r, m))
      PROVE  Reserved'
  <2>1. Tags' \subseteq Tags
    BY <1>1 DEF Remove, Put, Store, Tags
  <2>2. Inserting' = Inserting
    BY <1>1 DEF Remove, Put, Inserting
  <2> QED BY <2>1, <2>2, ReservedShrinks
<1>2. ASSUME NEW r \in Req, InsertRefused(r) PROVE Reserved'
  <2>1. Tags' = Tags /\ Inserting' \subseteq Inserting
    BY <1>0, <1>2 DEF InsertRefused, Goto, Tags, Inserting, dataVars
  <2> QED BY <2>1, ReservedShrinks
<1>3. "note" \notin Tag /\ "watch" \notin Tag
  BY DataAssumption DEF DataAssumption
<1>4. ASSUME NEW r \in Req, Annotate(r) PROVE Reserved'
  BY <1>1, <1>2, <1>3, <1>4, AddTagReserved, InsertTagReserved
  DEF Annotate, RemoveTag, SetNote, handleWatch
<1>5. ASSUME NEW r \in Req, TakeUserSlot(r) \/ ExportStep(r) PROVE Reserved'
  <2>1. Tags' = Tags /\ Inserting' = Inserting
    BY <1>5, ExportLeavesData DEF Tags, Inserting
  <2> QED BY <2>1, ReservedShrinks
<1>6. CASE RowStep
  <2>1. pc' = pc /\ marks' = marks
    BY <1>6 DEF RowStep, EnqueueURL, Claim, Crawled, Age, RetentionSelect,
                RetentionFails, Store, rowUnchanged, dataVars
  <2> QED BY <2>1, ReservedShrinks DEF Tags, Inserting
<1>7. CASE DeleteCrawlHistory \/ RetentionDelete
  <2>1. Tags' \subseteq Tags /\ Inserting' \subseteq Inserting
    BY <1>7 DEF DeleteCrawlHistory, RetentionDelete, Erase, Tags, Inserting
  <2> QED BY <2>1, ReservedShrinks
<1>8. CASE UNCHANGED vars
  <2>1. Tags' = Tags /\ Inserting' = Inserting
    BY <1>8 DEF vars, Tags, Inserting
  <2> QED BY <2>1, ReservedShrinks
<1> QED
  BY <1>4, <1>5, <1>6, <1>7, <1>8 DEF Next, Retention, RowStep

LEMMA InitReserved == Init => Reserved
<1> SUFFICES ASSUME Init PROVE Reserved
  OBVIOUS
<1>1. Tags = {} /\ Inserting = {}
  BY DEF Init, Tags, Inserting
<1> QED BY <1>1, TagsFinite, FS_EmptySet, DataAssumption DEF Reserved, DataAssumption

\* AddTag: the count and the insertion are not one step, and still the overrun is
\* bounded by the number of the account's requests.
THEOREM TagOverrunBounded == Spec => []TagsBounded
<1>1. SlotInv /\ Reserved => TagsBounded
  BY TagsFinite, DataAssumption DEF Reserved, TagsBounded, Tags, OwnerReq, DataAssumption
<1>2. SlotInv /\ Reserved /\ [Next]_vars => (SlotInv /\ Reserved)'
  BY NextSlots, ReservedNext DEF SlotInv, SlotStep
<1>3. Init => SlotInv /\ Reserved
  BY InitSlots, InitReserved
<1> QED BY <1>1, <1>2, <1>3, PTL DEF Spec
=============================================================================

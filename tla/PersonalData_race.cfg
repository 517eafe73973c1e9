\* Two requests of one account and one of another; a site may have one of two tags.
SPECIFICATION FairSpec
CONSTANTS
  Req = {"r1", "r2", "r3"}
  Of <- TwoAndOne
  Owner = "u1"
  Tag = {"t1", "t2"}
  MaxTags = 1
  Global = 1
INVARIANTS SlotsConserved WritingExported NothingLeftBehind
PROPERTIES ImplementsSlotPool SlotsReturn

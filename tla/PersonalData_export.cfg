\* A personal-data export of a site that has not been crawled.
SPECIFICATION Spec
CONSTANTS
  Req = {"r1", "r2"}
  Of <- BothOwn
  Owner = "u1"
  Tag = {"t1", "t2"}
  MaxTags = 1
  Global = 1
INVARIANT ExportComplete

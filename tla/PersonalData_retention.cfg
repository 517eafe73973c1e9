\* An annotation or a crawl that begins after the sweeper has taken its snapshot.
SPECIFICATION Spec
CONSTANTS
  Req = {"r1", "r2"}
  Of <- BothOwn
  Owner = "u1"
  Tag = {"t1", "t2"}
  MaxTags = 1
  Global = 1
PROPERTY RetentionExcludes

\* Two additions of the last tag at once.
SPECIFICATION Spec
CONSTANTS
  Req = {"r1", "r2"}
  Of <- BothOwn
  Owner = "u1"
  Tag = {"t1", "t2"}
  MaxTags = 1
  Global = 1
INVARIANT TagCap

\* Two workers on one site that says one of two things.
SPECIFICATION FairWatchSpec
CONSTANTS
  Page = {p, q}
  None = None
  Worker = {w1, w2}
INVARIANT FeedTellsPage
PROPERTIES NewsIsNew CatchesUp

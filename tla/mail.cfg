SPECIFICATION FairSpec
CONSTANTS
  img = img  pdf = pdf  other = other
  Syncs = {scan, manual}
  Scheduler = scan
  N = 3
  Limit = 2
  Documents = {img, pdf, other}
  NoDocument = NoDocument
  Attached <- MCAttached3
  Number <- MCNumber
  Pdf = {pdf, other}
  Budget = 3
INVARIANTS TypeOK CursorCovered NothingUnfiltered OneCopy ConfirmedSurvives
PROPERTIES Collected
CHECK_DEADLOCK FALSE

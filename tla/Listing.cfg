SPECIFICATION Spec
CONSTANTS
  Keys <- MCKeys
  Buckets <- MCBuckets
  Requests <- MCRequests
  MaxChanges <- MCChanges
  MaxPages = 9
INVARIANTS PagesRight NothingMissed VersionsListed
\* a listing ends
CHECK_DEADLOCK FALSE

\* An upload and a submitted list, checked again.
CONSTANTS
  SubmitIds = {j1}
  UploadIds = {u1}
  Checks = {c1, c2}
  CheckIds = {j1, u1}
  Polls = {}
  Streams = {}
  Workers = {w1, w2}
  Snapshotters = {}
  Counts = {}
  Contents <- UpOrJunk
  Accepted <- OneContent
  Parsable <- OneContent
  SortedIn <- UpSorted
  NoId = NoId
  NoList = NoList
  Env = {}
  MaxResends = 0
  MaxTime = 0
  TTL = 1
  CleanAge = 1
  PresignTTL = 3
  ActivityMax = 1
  up = up
  down = down
  junk = junk
SPECIFICATION Spec
INVARIANTS NothingLeftPending EveryVerdictIsRight
CHECK_DEADLOCK FALSE

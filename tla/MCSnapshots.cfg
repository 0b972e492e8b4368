\* One job; two workers that both take snapshots, a page that asks again and again;
\* nothing fails.
CONSTANTS
  SubmitIds = {j1}
  UploadIds = {}
  Checks = {}
  CheckIds = {}
  Polls = {}
  Streams = {}
  Workers = {w1, w2}
  Snapshotters = {w1, w2}
  Counts = {c1}
  Contents <- OneContent
  Accepted <- OneContent
  Parsable <- OneContent
  SortedIn <- UpSorted
  NoId = NoId
  NoList = NoList
  Env = {}
  MaxResends = 0
  MaxTime = 0
  TTL = 1
  CleanAge = 1
  PresignTTL = 3
  ActivityMax = 1
  up = up
  down = down
  junk = junk
SPECIFICATION FairSpec
PROPERTIES CountsMoveForward SnapshotCatchesUp CountsCatchUp
CHECK_DEADLOCK FALSE

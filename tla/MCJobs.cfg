\* Three submitted lists, two workers, a polling client, nothing fails.
CONSTANTS
  SubmitIds = {j1, j2, j3}
  UploadIds = {}
  Checks = {}
  CheckIds = {}
  Polls = {p1}
  Streams = {}
  Workers = {w1, w2}
  Snapshotters = {}
  Counts = {}
  Contents <- OneContent
  Accepted <- OneContent
  Parsable <- OneContent
  SortedIn <- UpSorted
  NoId = NoId
  NoList = NoList
  Env = {}
  MaxResends = 0
  MaxTime = 0
  TTL = 1
  CleanAge = 1
  PresignTTL = 3
  ActivityMax = 2
  up = up
  down = down
  junk = junk
SPECIFICATION Spec
INVARIANTS CountersAgree FeedIsTrimmed
PROPERTIES PollMovesForward
CHECK_DEADLOCK FALSE

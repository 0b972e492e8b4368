\* One submitted list, a stream and two workers; any Redis command may fail or take effect twice,
\* any worker or request may die.
CONSTANTS
  SubmitIds = {j1}
  UploadIds = {}
  Checks = {}
  CheckIds = {}
  Polls = {}
  Streams = {s1}
  Workers = {w1, w2}
  Snapshotters = {}
  Counts = {}
  Contents <- OneContent
  Accepted <- OneContent
  Parsable <- OneContent
  SortedIn <- UpSorted
  NoId = NoId
  NoList = NoList
  Env = {"redis", "crash"}
  MaxResends = 1
  MaxTime = 0
  TTL = 1
  CleanAge = 1
  PresignTTL = 3
  ActivityMax = 1
  up = up
  down = down
  junk = junk
SYMMETRY Alike
SPECIFICATION Spec
INVARIANTS EveryVerdictIsRight JobInOnePlace TotalCoversVerdicts
PROPERTIES StreamMovesForward StatusMovesForward
CHECK_DEADLOCK FALSE

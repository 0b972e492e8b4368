\* One job and a stream; Redis and the bucket may fail, a subscription may come late or break, the
\* 30 seconds may pass; keys expire and the clean-up runs.  Crashes are in MCFaults.
CONSTANTS
  SubmitIds = {j1}
  UploadIds = {}
  Checks = {}
  CheckIds = {}
  Polls = {}
  Streams = {s1}
  Workers = {w1}
  Snapshotters = {}
  Counts = {}
  Contents <- UpOrJunk
  Accepted <- OneContent
  Parsable <- OneContent
  SortedIn <- UpSorted
  NoId = NoId
  NoList = NoList
  Env = {"redis", "s3"}
  MaxResends = 0
  MaxTime = 1
  TTL = 1
  CleanAge = 1
  PresignTTL = 3
  ActivityMax = 1
  up = up
  down = down
  junk = junk
SPECIFICATION Spec
INVARIANTS TypeOK EveryVerdictIsRight
PROPERTIES StreamsAreAsRelayed StreamMovesForward StatusMovesForward CleanupSparesFresh
CHECK_DEADLOCK FALSE

\* Two submitted lists, each may have lines that do not parse; two workers; a stream on either;
\* nothing fails.
CONSTANTS
  SubmitIds = {j1, j2}
  UploadIds = {}
  Checks = {}
  CheckIds = {}
  Polls = {}
  Streams = {s1}
  Workers = {w1, w2}
  Snapshotters = {}
  Counts = {}
  Contents <- UpOrJunk
  Accepted <- UpOrJunk
  Parsable <- OneContent
  SortedIn <- UpSorted
  NoId = NoId
  NoList = NoList
  Env = {}
  MaxResends = 0
  MaxTime = 0
  TTL = 1
  CleanAge = 1
  PresignTTL = 3
  ActivityMax = 1
  up = up
  down = down
  junk = junk
SPECIFICATION FairSpec
INVARIANTS NoMissedCompletion CountedBeforeTold
PROPERTIES KeepsPromise StreamDelivers StreamEnds
CHECK_DEADLOCK FALSE

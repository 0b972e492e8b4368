\* The documented verdict against the two reads of GET /jobs/{id}.
CONSTANTS
  SubmitIds = {j1}
  UploadIds = {}
  Checks = {}
  CheckIds = {}
  Polls = {p1}
  Streams = {}
  Workers = {w1}
  Snapshotters = {}
  Counts = {}
  Contents <- MCContents
  Accepted <- MCParsable
  Parsable <- MCParsable
  SortedIn <- MCSortedIn
  NoId = NoId
  NoList = NoList
  Env = {}
  MaxResends = 0
  MaxTime = 0
  TTL = 1
  CleanAge = 1
  PresignTTL = 3
  ActivityMax = 1
  up = up
  down = down
  junk = junk
SPECIFICATION Spec
INVARIANTS PollVerdictIsRight
CHECK_DEADLOCK FALSE

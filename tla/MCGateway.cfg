\* A job service that may be down, slow or failing, a stream that may break off, a client
\* that may leave, both formats.
CONSTANTS
  Modes = {"json", "html"}
  Env = {"down", "cut", "leave", "slow", "fail"}
  MaxStatus = 2
  Timeout = 2
  Submissions <- MCSubmissions
  Values <- MCValues
  MaxBody = 25
SPECIFICATION SpecGateway
INVARIANTS TypeOK RelayIsPrefix EveryStreamConcludes CloseIsTerminal ResultIsRelayed AcceptedIsWhatWasSent ClientIsToldTheTruth
PROPERTIES EveryRequestEnds
CHECK_DEADLOCK FALSE

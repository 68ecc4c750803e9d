SPECIFICATION Spec
CONSTANTS
  Requests <- MCRequests
  SessionId = 7
  Files <- MCFiles
  WindowSize = 34
  Limit = 5
  MarkMod = 256
INVARIANTS
  TypeOK
  CseqEchoed
  DescribeOwnPath
  SdpOfTheFile
CHECK_DEADLOCK FALSE

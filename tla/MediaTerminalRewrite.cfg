CONSTANTS
  v1 = v1
  v2 = v2
  l1 = l1
  l2 = l2
  s1 = s1
  s2 = s2
  Owner <- MCOwner
  NoSession = NoSession
  NoCode = NoCode
  LeaseTTL = 2
  ChunkAge = 2
  Cooldown = 1
  AgentFailure = {"CAPTURE_FAILED"}
  Session = {s1}
  Lease = {}
  Viewer = {v1}
  Policies <- Recording
SPECIFICATION Spec
PROPERTY TerminalNeverChanges
CHECK_DEADLOCK FALSE

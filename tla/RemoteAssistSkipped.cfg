CONSTANTS
  s1 = s1
  s2 = s2
  Session = {s1, s2}
  NoSession = NoSession
  Actions = 2
  BatchLimit = 1
SPECIFICATION Spec
INVARIANT NothingSkipped

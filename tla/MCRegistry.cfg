CONSTANTS
  s1 = s1
  s2 = s2
  c1 = c1
  c2 = c2
  Session <- TwoMounts
  Client <- OneCommand
  Crashable <- TwoMounts
  NoSession = NoSession
SYMMETRY SomeMounts
SPECIFICATION Spec
INVARIANTS RecordCoversGuest StoppedIsStopped IInv
PROPERTIES StopHeeded Implements
CHECK_DEADLOCK FALSE

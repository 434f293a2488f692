SPECIFICATION Spec
CONSTANTS
  a = a
  b = b
  c = c
  Mounts = {a, b, c}
  First = 1
  MaxPort = 4
  Need <- MCNeed
  Foreign = {2}
  Nobody = Nobody
  Stranger = Stranger
INVARIANTS IInv SearchIsRight NotAllLost
CHECK_DEADLOCK FALSE

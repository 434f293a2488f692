CONSTANTS
  g1 = g1
  g2 = g2
  Guest <- TwoGuests
  Errand <- Errands
SYMMETRY AnyOrder
SPECIFICATION Spec
INVARIANTS TypeOK  DiskReleased
CHECK_DEADLOCK FALSE

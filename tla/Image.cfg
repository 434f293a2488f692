SPECIFICATION Spec
CONSTANTS
  Makers = {m1, m2}
  Users = {u1}
  Files = {f1, f2, f3, f4}
  NoFile = NoFile
INVARIANTS
  NothingHalfMade
  SparesOthers
PROPERTIES
  DoneMeansThere
CHECK_DEADLOCK FALSE

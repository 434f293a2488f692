CONSTANTS
  Proc = {p1, p2}
  MaxFile = 3
  Nobody = Nobody
SPECIFICATION DownloadSpec
INVARIANTS VerifiedInPlace StartsOver
CHECK_DEADLOCK FALSE

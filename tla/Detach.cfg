SPECIFICATION Spec
CONSTANTS
  Backends = {"smb", "ftp", "sftp"}
  BootTimeout = 2
  SetupTimeout = 1
INVARIANTS TypeOK RightSecret ReportIsTrue LateMeansSlow
PROPERTIES NobodyWaits
CHECK_DEADLOCK FALSE

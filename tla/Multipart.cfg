SPECIFICATION Spec
CONSTANTS
  Parts = {1, 2}
  MaxContents = 2
  MaxDirs = 2
  MaxFaults = 1
  u1 = u1
  u2 = u2
  Uploaders <- MCUploaders
  OTmpfile <- MCOTmpfile
  Patient <- MCPatient
  Options <- MCOptions
  Small = {2}
  Foreign = Foreign
INVARIANTS ObjectAsAsked  UploadKept
\* the bounds end a behaviour
CHECK_DEADLOCK FALSE

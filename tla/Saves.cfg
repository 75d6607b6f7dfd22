CONSTANTS
  None = None
  n1 = n1  n2 = n2  n3 = n3
  r1 = r1  r2 = r2
  i1 = i1  i2 = i2  i3 = i3
  Name <- TwoNames
  Request <- Two
  Inode <- ThreeInodes
  SaveMayFail = TRUE
SPECIFICATION HistSpec
VIEW Remembered
SYMMETRY Interchangeable
INVARIANTS TypeOK CorruptionReported AloneNeverCorrupt AlonePullsRemembered AloneRemovalsStick
PROPERTIES AloneDurable

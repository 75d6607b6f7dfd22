CONSTANTS
  None = None
  r1 = r1  r2 = r2  r3 = r3
  n1 = n1  n2 = n2
  i1 = i1  i2 = i2  i3 = i3
  m1 = m1  m2 = m2  m3 = m3
  Request <- Three
  Name <- OneName
  Model <- ThreeModels
  MemoryFootprintBytes <- ThreeSizes
  Instance <- ThreeInstances
  TotalBytes = 4
  Word = 16
  UnloadMayFail = TRUE
  MaxRemoves = 2
SYMMETRY Interchangeable
SPECIFICATION Spec
INVARIANT NothingDangling

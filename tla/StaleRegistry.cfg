CONSTANTS
  None = None
  Missing = Missing  Unreadable = Unreadable  Mistyped = Mistyped
  c1 = c1  c2 = c2
  s1 = s1  s2 = s2
  n1 = n1  n2 = n2
  here = here  there = there
  Command <- TwoCommands
  Verb <- Changes
  Server <- TwoServers
  ByHand <- TwoServers
  Name <- TwoNames
  Capacity = 1
  DiskMayFail = FALSE
  Addr <- TwoAddrs
  DefaultAddr = here
  Version <- NoVersion
  MaxEdits = 0
  MaxTurns = 0
SPECIFICATION Spec
SYMMETRY AllInterchangeable
CHECK_DEADLOCK FALSE
INVARIANT PullsKept

CONSTANTS
  None = None
  Missing = Missing  Unreadable = Unreadable  Mistyped = Mistyped
  c1 = c1  c2 = c2
  s1 = s1  s2 = s2
  n1 = n1  n2 = n2
  here = here  there = there
  Command <- TwoCommands
  Verb <- Starts
  Server <- TwoServers
  ByHand <- SecondServer
  Name <- OneName
  Capacity = 1
  DiskMayFail = FALSE
  Addr <- TwoAddrs
  DefaultAddr = here
  Version <- Versions
  MaxEdits = 1
  MaxTurns = 2
SPECIFICATION FairSpec
CHECK_DEADLOCK FALSE
INVARIANTS TypeOK StartedIsPolled
PROPERTIES FileIsKept CommandsSettle ServersSettle

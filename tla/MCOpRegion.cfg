CONSTANTS
  u1 = u1
  m1 = m1
  Threads = {u1, m1}
  Users = {u1}
  NoThread = NoThread
  MaxHeld = 3
  MaxFaults = 1
  Devices <- MCDevices
  Regions <- MCRegions
  HasReg = {"dev"}
  Offers <- MCOffers
  MaxCalls = 3
  Ids = {1, 2}
SPECIFICATION OpSpec
INVARIANTS HandlersExact CallsPaired LockOrder Exclusive

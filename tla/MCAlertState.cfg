CONSTANTS
  m1 = m1
  a1 = a1
  a2 = a2
  Modules = {m1}
  Alerts = {a1, a2}
  ModuleOf <- AlertModules
  Caller = {c1, c2}
  MaxCalls = 2
  MaxChanges = 3
  MaxFaults = 1
SPECIFICATION FairSpec
INVARIANT SlotAccounted
PROPERTY AnnouncedOnce
PROPERTY MonitorConverges

\* Two devices that come and go while scans run, two listeners, one command.
SPECIFICATION FairSpec
CONSTANTS
  d1 = d1
  d2 = d2
  l1 = l1
  l2 = l2
  m1 = m1
  version = version
  c1 = c1
  Devices = {d1, d2}
  MaxDevices = 2
  NoDevice = NoDevice
  BuiltIns = {version}
  Commands = {m1}
  Listeners = {l1, l2}
  Callers = {c1}
  NoMethod = NoMethod
  NoListener = NoListener
  MaxChanges = 2
INVARIANTS
  TypeOK
  ScanIsSound
  EventsTellTheList
  HandlersKeepTheirEntry
PROPERTIES
  EveryEventIsNews
  ScanEnds
  FiniReturns

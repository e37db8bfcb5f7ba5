CONSTANTS
  c1 = c1
  c2 = c2
  a1 = a1
  a2 = a2
  d1 = d1
  d2 = d2
  d3 = d3
  Clients = {c1, c2}
  Names = {a1, a2}
  Disks = {d1, d2}
  Width = 1
  MaxRaids = 2
  Full = 1
  Ops = {"create", "stop", "start rebuild", "update progress", "examine", "detail", "list", "run"}
  Spdk = Spdk
  Nobody = Nobody
  NoName = NoName
  NoDisk = NoDisk
SPECIFICATION FairSpec
INVARIANTS
  WorksOnItsArray
  OneRecordPerName
PROPERTIES
  NoStandstill

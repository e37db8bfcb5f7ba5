CONSTANTS
  c1 = c1
  c2 = c2
  a1 = a1
  a2 = a2
  d1 = d1
  d2 = d2
  d3 = d3
  Clients = {c1}
  Names = {a1}
  Disks = {d1, d2, d3}
  Width = 2
  MaxRaids = 1
  Full = 1
  Ops = {"create", "assemble", "get progress", "add spare", "fail disk", "rebuild", "start rebuild", "stop rebuild", "replace disk", "set faulty", "set normal", "update progress", "remove spare", "stop"}
  Spdk = Spdk
  Nobody = Nobody
  NoName = NoName
  NoDisk = NoDisk
SPECIFICATION Spec
SYMMETRY Symmetry
INVARIANTS
  TypeOK
  FailuresAreReported
  
  FailedCountIsExact

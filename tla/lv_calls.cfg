CONSTANTS
  c1 = c1
  c2 = c2
  d1 = d1
  Clients = {c1, c2}
  Devices = {d1}
  Removable = {d1}
  Arguments <- MCArguments
  Symbols = {"p", "q", "v", "w", "x", "/"}
  NameSize = 5
  Mega = 2
  Word = 8
  Nobody = Nobody
  NoRequest = NoRequest
SPECIFICATION FairSpec
INVARIANTS
  TypeOK
  CallbackHasItsFrames
PROPERTIES
  CallReturns
  CallsAreAtomic

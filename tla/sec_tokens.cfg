CONSTANTS
  u1 = u1
  u2 = u2
  u3 = u3
  p1 = p1
  v1 = v1
  v2 = v2
  v3 = v3
  c1 = c1
  c2 = c2
  Users = {u1, u2, u3}
  Volumes = {v1, v2, v3}
  UserField <- LongUser
  VolField <- LongVolume
  Clients = {c1, c2}
  Slots = {1, 2}
  VolSlots = {1, 2, 3}
  Lifetimes = {1}
  MaxTokens = 3
  MaxEpochs = 1
  MaxTime = 2
  Passwords = {p1}
  Wrong = Wrong
  NoUser = NoUser
  NoToken = NoToken
  NoVolume = NoVolume
SYMMETRY Symmetry
SPECIFICATION MCSpec
INVARIANTS
  TablesAreSound
  TokenModeTokens
PROPERTIES
  ValidTokensLast

CONSTANTS
  c1 = c1
  c2 = c2
  zeroes = zeroes
  data = data
  Clients = {c1}
  Values = {zeroes, data}
  Zeroes = zeroes
  Ops = {"read"}
  Alignments = {TRUE}
  MaxRetries = 1
  MaxFd = 1
  MaxIo = 2
  MaxCalls = 2
  Nobody = Nobody
  NoValue = NoValue
  NoIo = NoIo
SPECIFICATION Spec
INVARIANT SuccessMeansMoved

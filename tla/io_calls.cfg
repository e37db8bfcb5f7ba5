CONSTANTS
  c1 = c1
  c2 = c2
  zeroes = zeroes
  data = data
  Clients = {c1, c2}
  Values = {zeroes, data}
  Zeroes = zeroes
  Ops = {"read", "write", "readv", "writev", "flush", "unmap", "reset", "read_retry", "write_retry"}
  Alignments = {TRUE, FALSE}
  MaxRetries = 1
  MaxFd = 1
  MaxIo = 2
  MaxCalls = 2
  Nobody = Nobody
  NoValue = NoValue
  NoIo = NoIo
SPECIFICATION FairSpec
INVARIANTS
  TypeOK
  OutcomeIsOwn
  BounceOutlivesIo
PROPERTIES
  RetryOnlyAfterFailure
  CallReturns

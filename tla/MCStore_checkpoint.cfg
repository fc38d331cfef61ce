SPECIFICATION Spec
CONSTANTS
  m1 = m1  m2 = m2  m3 = m3
  n0 = n0  a0 = a0  a1 = a1  p0 = p0  p1 = p1
  MsgId = {m1}
  Nil = Nil
  Null = Null
  ChannelName = {n0}
  ChannelArgs = {a0}
  NilChannel <- MCNilChannel
  Payload = {p0, p1}
  NewJobs <- LastAttemptJobs
  Lags = {0}
  Subscriptions <- MCAll
  BatchSizes = {1}
  Durations = {}
  Checkpoints <- KeepAliveOnly
  ClearSets <- MCNone
  MaxTime = 5
  MaxGranted = 3
  Reviving = TRUE
INVARIANTS AttemptsWithinGrant

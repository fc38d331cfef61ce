SPECIFICATION Spec
CONSTANTS
  m1 = m1  m2 = m2  m3 = m3
  n0 = n0  a0 = a0  a1 = a1  p0 = p0  p1 = p1
  MsgId = {m1, m2, m3}
  Nil = Nil
  Null = Null
  ChannelName = {n0}
  ChannelArgs = {a0, a1}
  NilChannel <- MCNilChannel
  Payload = {p0, p1}
  NewJobs <- AllJobs
  Lags = {0, 1}
  Subscriptions <- MCAll
  BatchSizes = {2}
  Durations = {1}
  Checkpoints <- AllCheckpoints
  ClearSets <- AllClears
  MaxTime = 2
  MaxGranted = 2
  Reviving = FALSE
SYMMETRY Ids
INVARIANTS TypeOK TablesAgree ChainInv InsertNeverConflicts DeleteNeverConflicts CommitRestoresSchedule AttemptsLeftAreScheduled AttemptsWithinGrant
PROPERTIES PollsInOrder WakeupOnUnblock LeaseNeverShortened

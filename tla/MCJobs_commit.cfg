SPECIFICATION JobsSpec
CONSTANTS
  m1 = m1  m2 = m2  r1 = r1  r2 = r2
  n0 = n0  a0 = a0  p0 = p0
  MsgId = {m1}
  Runner = {r1, r2}
  Nil = Nil
  Null = Null
  ChannelName = {n0}
  ChannelArgs = {a0}
  NilChannel <- MCNilChannel
  Payload = {p0}
  NewJobs <- TwoPhaseJobs
  Lags = {0}
  Subscriptions <- MCAll
  BatchSizes = {2}
  Durations = {3}
  Checkpoints = {}
  ClearSets <- MCNone
  MaxTime = 3
  MaxGranted = 3
  Reviving = FALSE
  PromptHolders = TRUE
  PromptProducers = FALSE
SYMMETRY Ids
INVARIANTS CommitIsFinal
CHECK_DEADLOCK FALSE

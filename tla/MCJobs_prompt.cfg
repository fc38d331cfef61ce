SPECIFICATION JobsSpec
CONSTANTS
  m1 = m1  m2 = m2  r1 = r1  r2 = r2
  n0 = n0  a0 = a0  p0 = p0
  MsgId = {m1, m2}
  Runner = {r1, r2}
  Nil = Nil
  Null = Null
  ChannelName = {n0}
  ChannelArgs = {a0}
  NilChannel <- MCNilChannel
  Payload = {p0}
  NewJobs <- TwoPhaseJobs
  Lags = {0}
  Subscriptions <- MCAll
  BatchSizes = {2}
  Durations = {3}
  Checkpoints <- MCCheckpoints
  ClearSets = {{n0}}
  MaxTime = 3
  MaxGranted = 3
  Reviving = FALSE
  PromptHolders = TRUE
  PromptProducers = TRUE
SYMMETRY Ids
INVARIANTS JobsTypeOK OneHandlePerMessage ExactlyOnce
PROPERTIES EffectsInOrder ImplementsQueue
CHECK_DEADLOCK FALSE

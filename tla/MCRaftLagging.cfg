SPECIFICATION LaggingSpec
CONSTANTS
  s1 = s1
  s2 = s2
  s3 = s3
  v1 = v1
  None = None
  Server = {s1, s2, s3}
  InitialVoters = {s1, s2, s3}
  Values = {v1}
  Links <- S3ToS2
  Elections <- HubOnly
  ConfChanges = {}
  MaxBatch = 3
  MaxInflight = 3
  PreVote = FALSE
  SnapshotEvery = 1
  MaxIndex = 3
  MaxReads = 0
  MaxRestarts = 1
  MaxHeartbeats = 2
INVARIANT IndexesLineUp
INVARIANT MatchedIsHeld
PROPERTY CommittedStays
CHECK_DEADLOCK FALSE

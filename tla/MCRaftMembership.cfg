SPECIFICATION SettledSpec
CONSTANTS
  s1 = s1
  s2 = s2
  s3 = s3
  v1 = v1
  None = None
  Server = {s1, s2, s3}
  InitialVoters = {s1, s3}
  Values = {v1}
  Links <- Star
  Elections <- EndSecond
  ConfChanges <- Members
  MaxBatch = 2
  MaxInflight = 3
  PreVote = FALSE
  SnapshotEvery = 1
  MaxIndex = 2
  MaxReads = 0
  MaxRestarts = 1
  MaxHeartbeats = 0
INVARIANT SnapshotFaithful
INVARIANT LeaderIsMember
CHECK_DEADLOCK FALSE

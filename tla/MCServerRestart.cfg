SPECIFICATION RewritingSpec
CONSTANTS
  s1 = s1
  s2 = s2
  s3 = s3
  k = k
  v1 = v1
  v2 = v2
  None = None
  Absent = None
  Me = s2
  Server = {s1, s2, s3}
  InitialVoters = {s1, s2, s3}
  Commands <- Session
  Links <- S1AndMe
  Elections <- MeTwice
  MaxBatch = 1
  MaxInflight = 1
  PreVote = FALSE
  SnapshotEvery = 3
  Budget = 3
  MaxWrites = 2
  MaxReads = 0
  MaxRestarts = 0
  MaxHeartbeats = 1
INVARIANT RestartFindsLog
CHECK_DEADLOCK FALSE

SPECIFICATION Spec
CONSTANTS
  s1 = s1
  s2 = s2
  s3 = s3
  v1 = v1
  None = None
  Server = {s1, s2, s3}
  InitialVoters = {s1, s2, s3}
  Values = {v1}
  Links <- Line
  Elections <- HubSecond
  ConfChanges = {}
  MaxBatch = 2
  MaxInflight = 1
  PreVote = TRUE
  SnapshotEvery = 9
  MaxIndex = 1
  MaxReads = 0
  MaxRestarts = 0
  MaxHeartbeats = 0
PROPERTY LeaderRefusesPreVotes
CHECK_DEADLOCK FALSE

SPECIFICATION SplitSpec
CONSTANTS
  s1 = s1
  s2 = s2
  s3 = s3
  v1 = v1
  None = None
  Server = {s1, s2, s3}
  InitialVoters = {s1, s2, s3}
  Values = {v1}
  Links <- Line
  Elections <- EndsInTurn
  ConfChanges = {}
  MaxBatch = 1
  MaxInflight = 1
  PreVote = FALSE
  SnapshotEvery = 9
  MaxIndex = 1
  MaxReads = 0
  MaxRestarts = 0
  MaxHeartbeats = 1
INVARIANT LogMatching
INVARIANT StateMachineSafety
INVARIANT LeaderCompleteness
INVARIANT CommittedNeverOverwritten
CHECK_DEADLOCK FALSE

SPECIFICATION ReplicationSpec
CONSTANTS
  s1 = s1
  s2 = s2
  s3 = s3
  v1 = v1
  None = None
  Server = {s1, s2, s3}
  InitialVoters = {s1, s2, s3}
  Lead = s1
  Follow = s2
  Values = {v1}
  MaxBatch = 1
  MaxInflight = 1
  PreVote = FALSE
  PeerQueue = 2
  MaxIndex = 2
  MaxFaults = 1
PROPERTY CatchesUp

CONSTANT Candidate = {c1, c2}
SPECIFICATION FairSpec
INVARIANTS
  TypeOK
  OneLiveLeader
  LeaderIsFirst
PROPERTY SuccessorTakesOver
CHECK_DEADLOCK FALSE

CONSTANT Candidate = {c1}
SPECIFICATION FairSpec
PROPERTY LeaderlessOnlyForAWhile
CHECK_DEADLOCK FALSE

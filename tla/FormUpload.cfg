CONSTANTS
  Token = {"b1", "b2", "hd", "dd", "cr", "lf", "x"}
  Third = 6
  Files <- MCFiles
SPECIFICATION FairForm
INVARIANTS TypeOK DoneMeansWhole
PROPERTY AnsweredUnlessSplit
CHECK_DEADLOCK FALSE

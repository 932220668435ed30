SPECIFICATION FairSpec
CONSTANTS
  s1 = s1  s2 = s2  s3 = s3
  Sols = {s1, s2, s3}
  Score <- MCScore
  Configs <- MCConfigs
  KickMax = 2
  OptEffort = 2
  MaxRecovery = 2
  Unknown = Unknown
INVARIANTS BooksMatch FileIsBest EarlyStopNeverFires
PROPERTIES LocalBestSoFar GlobalBestSoFar SearchEnds
CHECK_DEADLOCK FALSE

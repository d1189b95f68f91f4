SPECIFICATION Spec
CONSTANTS
  Width = 80
  Dist1 = 30
  Dist2 = 20
  Reload1 = 17
  Reload2 = 19
  Spare = 3
  ModeDist = 39
  Mode1At = 98
  Mode2At = 200
  WinAt = 300
  StackBase = 2560
  Word = 4096
  Scores <- GameScores
INVARIANTS
  DigitsOnly
  ScoreReadsBack
  ReturnsAsOneStep
CHECK_DEADLOCK FALSE

SPECIFICATION FairSpec
CONSTANTS
  Programs <- Explore
  MinDel = 4
  lcd_sz = 1
  lcd_period = 3
  CheckPeriod = 4
CHECK_DEADLOCK FALSE
INVARIANTS
  AbortsOnlyInLcd
  Converged
  NothingSpurious
  MergedAreEquivalent
  NothingForgotten
PROPERTY
  Terminates

CONSTANTS
  Key = {A, B}
  Check = {1, 2}
SPECIFICATION FairSpec
INVARIANTS TypeOK WarningsAreJustified
PROPERTIES OverdueAreWarned

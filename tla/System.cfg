CONSTANTS
  TickMod = 12
  MaxWait = 2
  SyncTicks = 3
  PressTicks = 2
SPECIFICATION FairSpec
INVARIANTS WebOnlyInSession HeldKeyStays
PROPERTIES SessionEndsForAReason KeyMeansHeld AlwaysDecides QuitIsGranted

SPECIFICATION FairSpec
CONSTANTS
  MaxPdus = 5
  Size <- MixedSize
  HeaderLen = 2
  Cap = 4
  Duplex = TRUE
  Early = TRUE
INVARIANTS TypeOK StreamIntact WakeupPending
PROPERTIES ImplementsChan
CHECK_DEADLOCK FALSE

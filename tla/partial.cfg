SPECIFICATION SelectSpec
CONSTANTS
  MaxPdus = 6
  Size = 3
  Cap = 4
  Partial = TRUE
  Early = FALSE
PROPERTIES AllArrive
CHECK_DEADLOCK FALSE

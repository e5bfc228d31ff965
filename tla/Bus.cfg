SPECIFICATION Spec
CONSTANTS
  Size = 65487
  Peripherals = {"mac", "gpio", "timer", "uart"}
  Length <- BoardLength
  Attachments <- Crowded
  Addresses = {1, 65486, 65487, 65492}
  Values = {0, 5}
  MaxLog = 2
INVARIANTS MappedWholly LogIsTrue
CHECK_DEADLOCK FALSE

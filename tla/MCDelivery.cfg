CONSTANTS
  MaxRecords = 2
  BatchSize = 2
  DenyAt = 2
  Slots = {c1, c2}
  MaxFaults = 2
  None = None
SPECIFICATION Spec
INVARIANT OnlyHonestStops
PROPERTIES Settles DeliveryIsLog
CHECK_DEADLOCK FALSE

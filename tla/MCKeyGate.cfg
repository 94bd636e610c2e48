CONSTANTS
  LastYear = 2405
  Keys = {1, 2, 3, 4, 5, 6, 7, 8, 9, 10}
  ExpiryYear <- Dates
SPECIFICATION Spec
INVARIANTS
  CalendarAgrees
  GoodUntilExpiry
CHECK_DEADLOCK FALSE

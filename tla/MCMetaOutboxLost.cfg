CONSTANTS
  Events = {placed, delivered}
  Shops = {s1}
  Repeated = {delivered}
  BatchSize = 1
  MaxAttempts = 3
SPECIFICATION Spec
INVARIANTS NoConversionLost
CHECK_DEADLOCK FALSE

\* What rest.h says of rest_get, against the code.
SPECIFICATION Spec
CONSTANTS
  Counts = {1, 2, 3}
  Codes = {200, 500}
  MaxBody = 5
  IntMax = 7
  MaxRequests = 3
  None = None
INVARIANT
  TriedUntilSuccess

SPECIFICATION Spec
CONSTANTS
  MaxArrivals = 5
  Ids = {5, 6}
INVARIANT
  LostAreCounted

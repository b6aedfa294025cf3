CONSTANTS
  Limits = {2, 3, 5}
  Sizes = {1, 3}
SPECIFICATION Spec
INVARIANTS
  LogBounded
  LogEndsWithNewest

SPECIFICATION Spec
CONSTANTS
  Weights = {1, 2, 5}
  Caps = {1, 4}
  Lengths = {2, 6}
  MaxTopics = 3
INVARIANT LengthExact

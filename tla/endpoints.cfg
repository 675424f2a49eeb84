SPECIFICATION Spec
CONSTANTS
  main = main
  w1 = w1
  w2 = w2
  Thread <- Workers
  Main <- main
  N = 2
  Threshold = 1
  Interval = 2
  Lag = 1
SYMMETRY Symmetry
INVARIANTS
  TypeOK
  ServedWhenUp
  TriedOnce
PROPERTIES
  ClaimsSpaced

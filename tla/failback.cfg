SPECIFICATION FairSpec
CONSTANTS
  main = main
  w1 = w1
  w2 = w2
  Thread <- OneWorker
  Main <- main
  N = 2
  Threshold = 2
  Interval = 2
  Lag = 1
PROPERTIES
  FailsBack
  RequestsEnd

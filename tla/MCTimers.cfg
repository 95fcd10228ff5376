SPECIFICATION Spec
CONSTANTS
  Modulus = 8
  Epochs = 2
  MinTimeout = 2
  StoppedTimeout = 3
  NumTimers = 2
  Relative = {1}
  Scale = 2
  Delays = {0, 4}
  SlowDelays = {0, 6}
  MaxAge = 3
  Slack = 1
  Latest = 2
INVARIANTS
  ClocksAgree
  NeverLate
PROPERTY
  NeverEarly
VIEW MCView

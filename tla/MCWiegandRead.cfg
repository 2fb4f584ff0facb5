\* The same with reads of w<N>_data and not of w<N>_noise; frames of one bit,
\* and pulses that may be longer than the interval after them.
CONSTANTS
  MaxBits = 1
  WidthMin = {0}
  WidthMax = {0, 1}
  IntervalMin = {0}
  IntervalMax = {0}
  Reads = {"data"}
  MaxPend = 1
  MaxAge = 2
SPECIFICATION Spec
VIEW ReadView
INVARIANTS PollerInformed TimestampTells

\* One interface; every wave on two lines, every order of stores; frames of
\* two bits.  w<N>_noise is read, w<N>_data is not.
CONSTANTS
  MaxBits = 2
  WidthMin = {1}
  WidthMax = {1}
  IntervalMin = {2}
  IntervalMax = {2}
  Reads = {"noise"}
  MaxPend = 2
  MaxAge = 3
SPECIFICATION Spec
INVARIANTS TypeOK NoiseReported DisabledQuiet DecodedRight

SPECIFICATION Spec
CONSTANTS
  k1 = k1  k2 = k2  v1 = v1  v2 = v2
  Keys = {k1, k2}
  Values = {v1}
  NoValue = NoValue
  NoMeta = NoMeta
  Garbled = Garbled
  ReadError = ReadError
  KeySize <- KeySizes
  ValSize <- ValSizes
  HeaderSize = 2
  MaxFileSize = 8
  Faults = {"tear", "shortWrite", "powerLoss", "rotateReopen", "rotateCreate"}
  MaxFaults = 2
  MaxLsn = 4
SYMMETRY Symmetry
INVARIANTS ServesCommitted Recoverable ScanLoopAgrees
PROPERTIES NothingForgotten ImplementsLog

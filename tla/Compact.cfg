SPECIFICATION CompactSpec
CONSTANTS
  k1 = k1  k2 = k2  v1 = v1  v2 = v2
  Keys = {k1, k2}
  Values = {v1, v2}
  NoValue = NoValue
  NoMeta = NoMeta
  Garbled = Garbled
  ReadError = ReadError
  KeySize <- KeySizes
  ValSize <- ValSizes
  HeaderSize = 2
  MaxFileSize = 8
  Faults = {"rotateCreate", "tear"}
  MaxFaults = 1
  NoFile = NoFile
  CompactFaults = {"create", "write", "remove", "readDir", "rename", "reopen"}
  MaxLsn = 3
SYMMETRY Symmetry
INVARIANTS SomeCopyComplete CompactTransparent
PROPERTIES CompactLeavesNoGarbage

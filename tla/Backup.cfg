SPECIFICATION BackupSpec
CONSTANTS
  k1 = k1  k2 = k2  v1 = v1  v2 = v2
  Keys = {k1, k2}
  Values = {v1}
  NoValue = NoValue
  NoMeta = NoMeta
  Garbled = Garbled
  ReadError = ReadError
  KeySize <- KeySizes
  ValSize <- ValSizes
  HeaderSize = 2
  MaxFileSize = 8
  Faults = {}
  MaxFaults = 1
  MaxLsn = 3
  RestoreFaults = {"open", "close", "remove", "extract", "reload", "crash"}
  MaxBackups = 2
  MaxRestores = 1
SYMMETRY Symmetry
PROPERTIES BackupIsPointInTime RestoreGivesArchive RejectedRestoreKeepsData

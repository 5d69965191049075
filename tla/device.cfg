SPECIFICATION Spec
CONSTANTS
  ConfigSize = 4
  Value = {0, 1}
  Default = 0
  Logged = {1, 2}
  LogRecords = 3
  MaxFailures = 2
  Caller = {c1, c2}
  Request = {1, 2}
  HeapWords = 9
  Process = {p1, p2}
  ServiceSignals = {g1, g2}
  ServiceWord = 3
  ServiceTimeout = {1}
  TreeWord = 16
  Keys = {14, 15, 0, 1}
  Data <- KeyData
  Inserter = {i1, i2}
  MaxWeight = 4
  AesKeys <- AesKeySet
  AesBlocks <- AesBlockSet
  KuznKeys <- KuznKeySet
  KuznBlocks <- KuznBlockSet
  MagmaKeys <- MagmaKeySet
  MagmaBlocks <- MagmaBlockSet
  StribogC <- StribogTable
  StribogInputs <- StribogInputSet
  CmacPieces = {1, 3, 5, 8, 9, 16}
  Md5Pieces = {1, 9, 55, 56, 63, 64, 65, 130}
  MaxCmac = 26
  MaxMd5 = 140
  StribogBits = {0, 1, 7, 8, 9, 503, 504, 505, 511, 512, 513, 519, 520, 1016, 1023, 1024, 1030}
  CrcMessages <- Messages
  AdlerStart <- AdlerStarts
  Example <- Examples
SYMMETRY DeviceSymmetry
INVARIANTS LoadRestores NothingInvented HeapTiled SignalsOnce TreeHolds InverseRestores FastAgrees DigestOfWhole
CHECK_DEADLOCK FALSE

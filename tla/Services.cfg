SPECIFICATION ServicesSpec
CONSTANTS
  MaxThreads = 3
  Callers = {1, 2, 3}
  NetCallers = {1, 2, 3}
  None = None
  Nobody = Nobody
  FirstFile = 1
  FirstSocket = 3
  FirstPort = 1
  MaxSockets = 2
  MaxLength = 3
  MaxInputs = 4
  Counts = {1}
  Buffers = {0, 1}
  DialogModes = {1, 2}
  Programs <- MCPrograms
  Spellings <- MCSpellings
  OpenFlags <- MCOpenFlags
  InitialDisk <- MCInitialDisk
  Modes <- MCModes
  Offsets <- MCOffsets
  SaveNames <- MCSaveNames
  Keys <- MCKeys
  Formats <- MCFormats
  Volumes <- MCVolumes
  Samples <- MCSamples
  LibCallers = {1, 2}
  BufferSizes = {0, 1, 4}
  Named = {1, 4}
  IntBits = 8
  LongBits = 10
  Absent = Absent
  Silent = Silent
  PrintFormats <- MCPrintFormats
  Texts <- MCTexts
  Strings <- MCStrings
  Codes <- MCCodes
  CodePages = {28671, 28672, 28927, 28928}
  SystemCalls = {1, 4, 5, 6, 20, 99}
  MaxCrossings = 2
INVARIANTS
  BytesStayInTheirFile
  EchoesInOrder
  
  JoinsWaitOnce
  
  

  
\* Guest threads may wait for each other, and the program may end.
CHECK_DEADLOCK FALSE

SPECIFICATION FairStreamSpec
CONSTANTS
  LenSpan = 64
  MaxMarker = 8
  MaxRegs = 4
  Decoders <- MCDecoders
  first = first
  named = named
  Buffers <- MCBuffers
  Calls <- MCCalls
  Packets3 <- MCPackets3
  MaxCalls <- MCMaxCalls
  MaxBuilds = 1
  d1 = d1
  d2 = d2
  MayDecode <- MCMayDecode
  MaxDepth = 1
  MaxSubmits = 2
INVARIANTS
  PacketsKeepTheirShape
  ReservedSpaceSuffices

  
\* The guest stops when it has made its submissions.
CHECK_DEADLOCK FALSE

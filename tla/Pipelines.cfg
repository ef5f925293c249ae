SPECIFICATION GraphicsSpec
CONSTANTS
  Threads = {t1, t2}
  k1 = k1
  k2 = k2
  Keys <- MCKeys
  ShapeOf <- MCShape
  VsAddr <- MCVs
  FsAddr <- MCFs
  CsAddrs <- MCCs
  Codes = {c1, c2}
  None = None
  MaxDraws = 3
  MaxRewrites = 1
  MaxExits = 1
  Offers <- MCOffers
  Window <- MCWindow
  Frames = 2
  JobInputs <- MCJobInputs
  Streams <- MCStreams
  OutputSizes = {0, 2, 3, 6}
  Magic <- MCMagic
  Pad = 4
  Group = 2
  Word = 2
  MaxJobs = 2
  MaxFaults = 1
SYMMETRY Symmetric
INVARIANTS
  DrawsMatchTheGuest
  
  ContextFitsHost
  
  JobsGiveTheirBytes
\* The guest stops after its last draw.
CHECK_DEADLOCK FALSE

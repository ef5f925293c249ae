SPECIFICATION Spec
CONSTANTS
  f1 = f1 f2 = f2 f3 = f3 f4 = f4
  m0 = m0 t1 = t1 t2 = t2
  None = None
  Threads <- MCThreads
  Main = m0
  Games <- MCGames
  Executable <- Exe
  Builtin = {}
  StubFiles <- MCStubs
  Ampr <- MCAmpr
  Written <- MCWritten
  Generated <- MCGenerated
  Blank = {}
  Noop = Noop
  StubSlots = 2
  StackDepth = 5
  HostPage = 4
  GuestPage = 16
  Megabyte = 64
  GuestLow = 64
  GuestHigh = 4096
  Sizes = {0, 60}
  Growths = {80}
  Wrap = 100
  MaxCalls = 3
  MaxRefusals = 2
SYMMETRY Symmetry
INVARIANTS
  ParsedAsLinked
  ImportsReachTheirTarget
  LibrariesLoadOnce
  MemoryIsKept
\* The process may end, stay idle or run out of calls.
CHECK_DEADLOCK FALSE

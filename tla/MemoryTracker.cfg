SPECIFICATION Spec
CONSTANTS
  p1 = p1
  p2 = p2
  Pages = {p1, p2}
  Guests = {g1, g2}
  Ranges <- BothPages
  MaxRegistrations = 2
  MaxWrites = 2
  Main = main
  Free = free
SYMMETRY Symmetry
INVARIANTS
  FaultsAreHandled
  QuietWritesAreReported
\* Behaviours end where a handler reads freed memory.
CHECK_DEADLOCK FALSE

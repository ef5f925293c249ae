SPECIFICATION Spec
CONSTANTS
  Workloads <- MCWorkloads
  LabelGap = 1000
INVARIANTS
  
  PathsAreKept
  EmittedCodeIsOrdered
\* A translation ends, and the last one ends the run.
CHECK_DEADLOCK FALSE

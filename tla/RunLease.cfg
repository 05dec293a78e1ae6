CONSTANTS
  Worker = {w1, w2}
  MaxRuns = 3
  PageCount = 3
  Slot = {s1}
  MaxPages = 2
  StaleAfter = 1
  Horizon = 2
  OperatorResumes = FALSE
SPECIFICATION Spec
SYMMETRY Symmetry
INVARIANTS TypeOK LeaseExclusive CheckpointCovered CompletedIsWhole
PROPERTIES ImplementsFencedSource Fenced TerminalIsFinal OnlySilentReclaimed

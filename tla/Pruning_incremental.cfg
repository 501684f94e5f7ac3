CONSTANTS
  f1 = f1
  f2 = f2
  File = {f1, f2}
  MaxBackup = 3
  Cast <- IncrementalOverlaps
SPECIFICATION Spec
SYMMETRY Symmetry
INVARIANT ChainsIntact

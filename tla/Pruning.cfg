CONSTANTS
  f1 = f1
  f2 = f2
  File = {f1, f2}
  MaxBackup = 3
  Cast <- UsersAndRuns
SPECIFICATION Spec
SYMMETRY Symmetry
INVARIANT ShieldedReaderFinishes HoldSticks ChainsIntact CommittedIsWhole
PROPERTY SparesCompletedRuns

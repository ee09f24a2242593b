CONSTANTS
  EraSize = 3
  EraStep = 3
  LastBlock = 10
  MaxHeights = {7, 8, 20}
  MaxQueue = 2
  MaxFaults = 2
SPECIFICATION Spec
INVARIANTS TypeOK FilesFollowOn IndexedUnlessInterrupted
PROPERTY EventuallyImported

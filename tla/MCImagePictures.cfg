SPECIFICATION Spec
CONSTANTS
  i1 = i1
  i2 = i2
  Images = {i1, i2}
  Zero = Zero
  SlotCount = 3
  PartCount = 2
SYMMETRY Symmetry
CONSTRAINT PicturesOnly
INVARIANTS
  LatestComplete
  SentIsCaptured
PROPERTIES
  SharedObjectsStable
  KeepsPromise

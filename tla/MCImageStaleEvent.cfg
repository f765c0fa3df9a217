SPECIFICATION Spec
CONSTANTS
  i1 = i1
  i2 = i2
  Images = {i1}
  Zero = Zero
  SlotCount = 3
  PartCount = 2
PROPERTIES
  ReceptionKeepsStaging

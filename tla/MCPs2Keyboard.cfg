SPECIFICATION Spec
CONSTANTS
  Size = 4
  Code = {"j", "up"}
  Extended = {"up"}
  MaxWire = 3
INVARIANT TypeOK
PROPERTIES
  ReleasesAreSkipped
  KeyQueueSpec

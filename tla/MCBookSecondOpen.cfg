SPECIFICATION Spec
CONSTANTS
  Opens = 2
  Foreign = FALSE
  MaxActive = 1
  MaxCrashes = 0
PROPERTIES SecondOpenWaits

SPECIFICATION Spec
CONSTANTS
  TargetCount = 3
  DefaultSectors = 4095
  Kilo = 128
  Capacity = 8000
  FirstSector = 1
  Starts <- MCStarts
  Edited = {1, 2}
  Budget = 1
  EditCost = 2
PROPERTY SavesFromDevice

CONSTANTS
  Devices <- MCDevices
  NoDev = NoDev
  MaxCalls = 4
  RadixArgs = {8, 10}
  LevelArgs = {0, 1}
  TimeoutArgs = {0, 5}
SPECIFICATION Spec
PROPERTIES
  LinkLifeRefined

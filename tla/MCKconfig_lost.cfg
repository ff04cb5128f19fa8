CONSTANTS
  None = None
  NoFile = NoFile
  Kconfigs <- MCKconfigs
  Files <- MCFiles
  Orders <- MCOrders
  Numbers = {2, 3, 4}
  Alternate = "alt"
  MaxKeys = 2
  Disks <- MCDisks
  Symbols = {"DEVICE", "MBASE"}
  Bools = {"DEVICE"}
  Values <- MCValues
  Objects = {"bare"}
  Uses <- MCUses
  MaxCrashes = 1
  Lists <- MCLists
  Hot <- MCHot
  Heights = {2, 4}
  ListHeight = 3
  Texts <- MCTexts
  BoxHeight = 3
  MaxScroll = 2
  Chars = {"a", "b"}
  MaxLen = 4
  Width = 3
  Initial <- MCInitial
SPECIFICATION Spec
INVARIANTS NothingIsLost
CHECK_DEADLOCK FALSE

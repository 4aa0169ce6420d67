CONSTANTS
  W = 8
  ExeEnd = 19
  Forced = {0}
  MaxSearch = 6
  Overlay = {19, 20, 21, 22, 23, 24, 25, 26}
  Bios = 80
  Halt = 90
  Kuseg <- LowAddresses
  Games <- UnalignedGames
  MaxGuard = 24
  MaxDepth = 6
SPECIFICATION Spec
PROPERTIES ComputesTheProgram

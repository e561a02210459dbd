CONSTANTS
  AddressBytes <- MCAddressBytes
  NoAddress = NoAddress
  Star = Star
  WatFiles = {"a.wat"}
  OtherFiles = {"a.zip"}
  ReservedKeys = {"ELRONDreward"}
  RewardKey = "ELRONDreward"
  StorageKey = "s"
  SystemAccount = "systemSC"
  SystemModule = SystemModule
  FileSystems <- MCFileSystems
  TestLists <- MCTestLists
  Descriptions <- MCDescriptions
  MaxSteps = 1
SPECIFICATION Spec
CHECK_DEADLOCK FALSE
PROPERTY
  QueriesChangeNothing

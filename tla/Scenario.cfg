CONSTANTS
  AddressBytes <- MCAddressBytes
  NoAddress = NoAddress
  Star = Star
  WatFiles = {"a.wat"}
  OtherFiles = {"a.zip"}
  ReservedKeys = {"ELRONDreward"}
  RewardKey = "ELRONDreward"
  StorageKey = "s"
  SystemAccount = "systemSC"
  SystemModule = SystemModule
  FileSystems <- MCFileSystems
  TestLists <- MCTestLists
  Descriptions <- MCDescriptions
  MaxSteps = 2
SPECIFICATION Spec
INVARIANTS
  TypeOK
  SetStateChecksBack
  ChecksAreExact
  ChecksAreForgotten
  ExpectationsConcernTheirTransaction
PROPERTIES
  FollowsScenario
  ScenariosEnd
  EgldIsAccounted
CHECK_DEADLOCK FALSE

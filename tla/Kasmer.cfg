CONSTANTS
  Address <- MCAddress
  NoAddress = NoAddress
  Root = "k"
  TestSc = "k-test"
  NoAccount = NoAccount
  Paths = {"c.wasm"}
  TestWasm = "test.wasm"
  Role = {"ESDTRoleLocalMint"}
  Abis <- MCAbis
  SupportedTypes = {"BigUint", "u32", "u64"}
  ContractImports = {"assertBool", "assumeBool", "setESDTRole"}
  NewAccounts <- MCNewAccounts
  Registrations <- MCRegistrations
  Deployments <- MCDeployments
  Targets = {"c"}
  Amounts <- MCAmounts
  StorageValues = {3}
  Pranks = {"k"}
  Callees = {"c"}
  MaxCalls = 4
  MaxDepth = 2
  MaxExamples = 1
SPECIFICATION Spec
INVARIANTS
  TypeOK
  ExitCodeSound
  ContractsComeFromInit
  ImpersonationIsVisible
  FailuresInTestsAreCaught
  
  FailedTestsAreRolledBack
PROPERTY
  KasmerEnds
CHECK_DEADLOCK FALSE

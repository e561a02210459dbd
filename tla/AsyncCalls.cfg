CONSTANTS
  NoAddress = "none"
  Address <- MCAddress
  Token = {"t"}
  Amount = {0, 1}
  FunctionName <- MCFunctionName
  Exports <- MCExports
  Senders = {"u"}
  Calls <- AsyncCalls
  Callbacks <- AsyncCallbacks
  Fees = {0}
  InitialWorlds <- MCInitialWorlds
  MaxHostCalls = 3
  MaxTx = 1
SPECIFICATION Spec
INVARIANTS
  StacksMatchCommands
  CallsInProgress
  CallbackAnswersParentCall
  NoMultilevelAsync
  CodeSeesTxHash
  BalancesNonNegative
PROPERTIES
  TransactionsAreAtomic
  TransactionsEnd

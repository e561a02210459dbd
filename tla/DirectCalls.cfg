CONSTANTS
  NoAddress = "none"
  Address <- MCAddress
  Token = {"t"}
  Amount = {0, 1}
  FunctionName <- MCFunctionName
  Exports <- MCExports
  Senders = {"u"}
  Calls <- DirectCalls
  Callbacks = {}
  Fees = {0, 1}
  InitialWorlds <- MCInitialWorlds
  MaxHostCalls = 2
  MaxTx = 2
SPECIFICATION Spec
INVARIANTS
  TypeOK
  StacksMatchCommands
  ExceptionIsCaught
  SupplyConserved
  DebitsAreCovered
PROPERTIES
  TransactionsAreAtomic
  TransactionsEnd

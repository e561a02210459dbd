CONSTANTS
  NoAddress = "none"
  Address <- MCAddress
  Token = {"t"}
  Amount = {0, 1}
  FunctionName <- MCFunctionName
  Exports <- MCExports
  Senders = {"u"}
  Calls <- BuiltinThenAsync
  Callbacks <- NoCallbacks
  Fees = {0}
  InitialWorlds <- MCInitialWorlds
  MaxHostCalls = 2
  MaxTx = 1
SPECIFICATION Spec
INVARIANTS
  NoMultilevelAsync

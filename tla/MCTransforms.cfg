SPECIFICATION Spec
CONSTANTS
  Inputs <- MCInputs
  Chains <- MCChains
  StoreData <- MCStoreData
  Mask = Mask
  MaxExact = 8
  Spacings = {1, 2, 4, 8, 16}
  Printed <- MCPrinted
INVARIANTS KeptIfNoFilterRefuses LastWriterWins MaskedFieldsHidden OtherFieldsKept
CHECK_DEADLOCK FALSE

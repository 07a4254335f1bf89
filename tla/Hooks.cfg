CONSTANTS
    Operations = {"beforeCash", "beforeUpdate", "beforeBurn"}
    Nothing = nothing
    Burn = "beforeBurn"
    Cells = {1, 2, 3}
    Selector <- MCSelector
    WordCells = 2
    MaxCalls = 2
SPECIFICATION Spec
INVARIANTS TypeOK InStep FeeAsNamed

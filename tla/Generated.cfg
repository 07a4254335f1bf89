CONSTANTS
    Bytes32Max = 3
    AddressMax = 2
    ValueType = "address"
    MapKeyType = "address"
    MapValueType = "uint256"
    WordBits = 6
    Lengths = {1, 2, 4}
    KeyBits = 3
    ValueBits = 1
    FirstBlock = 2
    MaxBlock = 8
    Values = {1, 2}
    LastKey = 5
    LargestValue = 1
SPECIFICATION MockSpec
INVARIANTS MockTypeOK Indexed AbsentIsZero RecordsAgree SteadyMembersSeen CastsExact KeysIncrease SearchSound LookupsRight
PROPERTIES IsASet IsAMap IsAHistory PastFixed AllLookupsReturn

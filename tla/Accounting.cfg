CONSTANTS
    payer = payer
    hook = hook
    Users = {payer}
    Contracts = {hook}
    Registrar = registrar
    Zero = zero
    Tokens = {token}
    Endowment <- MCEndowment
    MaxUint = 3
    MaxDepth = 2
    MaxNotas = 2
    FeeDenominator = 2
    MaxProtocolFee = 1
    NewOwner = hook
    Functions = {"write", "fund", "cash", "burn", "update", "approve",
                 "transferFrom", "safeTransferFrom"}
    Payees = {payer}
    Approvees = {zero}
    Operators = {}
    Governors = {}
    Amounts = {0, 1, 2}
    Withdrawals = {1, 2}
    Fees = {0, 1, 3}
    FeeRates = {1, 2}
SPECIFICATION Spec
INVARIANTS TypeOK NothingStranded ProtocolShareBounded OneGuarded SnapshotFresh

CONSTANTS
    payer = payer
    hook = hook
    Users = {payer}
    Contracts = {hook}
    Registrar = registrar
    Zero = zero
    Tokens = {token}
    Endowment <- MCEndowment
    MaxUint = 3
    MaxDepth = 2
    MaxNotas = 1
    FeeDenominator = 2
    MaxProtocolFee = 1
    NewOwner = hook
    Functions = {"fund", "cash", "burn", "write", "update", "approve",
                 "transferFrom", "safeTransferFrom"}
    Payees = {payer, hook, registrar}
    Approvees = {zero}
    Operators = {}
    Governors = {payer, zero}
    Amounts = {0, 1, 2}
    Withdrawals = {2}
    Fees = {0, 1, 3}
    FeeRates = {1, 2}
SPECIFICATION Spec
CHECK_DEADLOCK FALSE
INVARIANTS Solvent
PROPERTY IsALedger

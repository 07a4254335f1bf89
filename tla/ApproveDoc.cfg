CONSTANTS
    Users = {alice}
    Contracts = {wallet, hook}
    Registrar = registrar
    Zero = zero
    Tokens = {token}
    Endowment <- MCEndowment
    MaxUint = 3
    MaxDepth = 2
    MaxNotas = 1
    NewOwner = alice
    FeeDenominator = 2
    MaxProtocolFee = 1
    Functions = {"write", "approve", "transferFrom", "safeTransferFrom", "burn"}
    Payees = {alice, wallet}
    Approvees = {wallet, zero}
    Operators = {hook}
    Governors = {}
    Amounts = {0}
    Withdrawals = {}
    Fees = {0}
    FeeRates = {}
SPECIFICATION Spec
INVARIANTS ApprovedMayApprove

CONSTANTS
    payer = payer
    Users = {payer}
    Contracts = {hook, other}
    Registrar = registrar
    Zero = zero
    Tokens = {gold, silver}
    Endowment <- MCEndowment
    MaxUint = 3
    MaxDepth = 2
    MaxNotas = 2
    NewOwner = payer
    FeeDenominator = 1
    MaxProtocolFee = 1
    Functions = {"write", "cash", "burn", "update"}
    Payees = {payer}
    Approvees = {}
    Operators = {}
    Governors = {}
    Amounts = {0, 1}
    Withdrawals = {1}
    Fees = {0, 1}
    FeeRates = {}
    GasLimit = 8
SPECIFICATION GasSpec
INVARIANTS NothingStranded
PROPERTIES HookEarningsKept NotaChangedByItsCall GuardFreed

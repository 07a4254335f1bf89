CONSTANTS
    Users = {alice}
    Contracts = {deployer, wallet}
    Zero = zero
    Failed = failed
    Nonces = {n}
    Codes = {registrar}
    MaxDepth = 3
SPECIFICATION Spec
INVARIANTS TypeOK Recorded
PROPERTIES NeverRebuilt OwnSalts

CONSTANTS
    Users = {alice}
    Contracts = {deployer}
    Zero = zero
    Failed = failed
    Nonces = {n}
    Codes = {registrar}
    MaxDepth = 3
SPECIFICATION Spec

PROPERTIES NullIfExists

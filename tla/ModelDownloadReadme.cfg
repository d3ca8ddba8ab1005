SPECIFICATION Spec
CONSTANTS
    Downloads = {d1, d2}
    Size = 2
PROPERTY MovesOnlyVerified

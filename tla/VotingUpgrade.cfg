CONSTANTS
    Users = {u1, u2}
    Types <- DelegationType
    ZERO = ZERO
    InitialBalances <- NoBalances
    Amounts = {1, 2}
    MAX_SUPPLY = 2
    MAX_BLOCK = 3
SYMMETRY MCSymmetry
SPECIFICATION SpecUpgrade
INVARIANTS PowerIsDelegatedBalance
PROPERTIES VotingKeepsPromise

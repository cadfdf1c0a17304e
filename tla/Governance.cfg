CONSTANTS
    Users = {u1, u2, u3}
    Types <- VotingOnly
    ZERO = ZERO
    InitialBalances <- NoBalances
    Amounts = {1, 2}
    MAX_SUPPLY = 2
    MAX_BLOCK = 5
    LONG_BLOCK = 4
SYMMETRY MCSymmetry
CONSTRAINT MCBound
SPECIFICATION Spec
INVARIANTS TypeOK SnapshotsOrdered
PROPERTIES KeepsPromise

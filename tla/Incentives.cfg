CONSTANTS
    Users = {u1, u2}
    dai = dai
    weth = weth
    PoolTokens <- MCTokens
    Strangers = {other}
    EXTRA_PSM_REWARD = 50
    Scale = 1
    DISTRIBUTION_END = 3
    GENESIS = 1
    MAX_BALANCE = 1
    ClaimLists <- MCLists
    ClaimAmounts = {1, 9}
    Emissions = {3}
    Quotes = {2}
    StrangerBalances = {1}
    VaultFunds = 4
    MAX_TIME = 5
    SHORT_TIME = 3
SYMMETRY MCSymmetry
CONSTRAINT MCBound
SPECIFICATION Spec
INVARIANTS TypeOK Solvent NeverReverts PaymentsAddUp
PROPERTIES RewardsOnlyMoveByClaim

CONSTANTS
    Users = {u1, u2}
    SELF = SELF
    REWARDS_VAULT = REWARDS_VAULT
    STAKED_TOKEN = bpt
    REWARD_TOKEN = aave
    Scale = 1
    DISTRIBUTION_END = 3
    COOLDOWN_SECONDS = 0
    UNSTAKE_WINDOW = 1
    MAX_UINT = 100
    GENESIS = 2
    Recipients = {SELF}
    Amounts = {1, 2}
    Emissions = {0}
    Quotes = {0}
    UserFunds = 1
    VaultFunds = 0
    MAX_TIME = 4
    Types <- VotingOnly
    ZERO = ZERO
SYMMETRY MCSymmetry
SPECIFICATION SpecWithPower
INVARIANT HookNeverLocksIn
PROPERTIES StakeKeepsPromise

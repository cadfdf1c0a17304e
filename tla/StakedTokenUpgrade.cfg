CONSTANTS
    u1 = u1
    u2 = u2
    Users <- MCUsers
    SELF = SELF
    REWARDS_VAULT = REWARDS_VAULT
    STAKED_TOKEN = aave
    REWARD_TOKEN = aave
    Scale = 3
    DISTRIBUTION_END = 4
    LAST_PERIOD_END = 4
    NEW_DISTRIBUTION_END = 5
    COOLDOWN_SECONDS = 0
    UNSTAKE_WINDOW = 1
    MAX_UINT = 100
    GENESIS = 3
    Recipients <- MCRecipients
    Amounts = {1}
    Emissions = {5}
    Quotes = {2}
    UserFunds = 1
    VaultFunds = 1
    MAX_TIME = 6
SYMMETRY MCSymmetry
SPECIFICATION SpecUpgrade
INVARIANTS UpgradeSolvent UpgradeNeverLocksIn
PROPERTIES GapIsPaid

CONSTANTS
    u1 = u1
    u2 = u2
    Users <- MCUsers
    SELF = SELF
    REWARDS_VAULT = REWARDS_VAULT
    STAKED_TOKEN = aave
    REWARD_TOKEN = aave
    Scale = 2
    DISTRIBUTION_END = 8
    COOLDOWN_SECONDS = 1
    UNSTAKE_WINDOW = 3
    MAX_UINT = 100
    GENESIS = 5
    Recipients <- MCUsers
    Amounts = {1, 2}
    Emissions = {1}
    Quotes = {0, 1, 2}
    UserFunds = 2
    VaultFunds = 3
    MAX_TIME = 20
    top10stkAaveHolders <- MCTop10stkAaveHolders
    TURNS = 3
    ROUNDS = 3
    MAX_DELAY = 1
    FORKED_BY = 6
SPECIFICATION SpecRounds
INVARIANT TurnsReachTheWindow
PROPERTY TurnCompounds
CHECK_DEADLOCK FALSE

CONSTANTS
    u1 = u1
    u2 = u2
    Users <- MCUsers
    SELF = SELF
    REWARDS_VAULT = REWARDS_VAULT
    STAKED_TOKEN = aave
    REWARD_TOKEN = aave
    Scale = 3
    DISTRIBUTION_END = 7
    COOLDOWN_SECONDS = 1
    UNSTAKE_WINDOW = 2
    MAX_UINT = 100
    GENESIS = 4
    Recipients <- MCRecipients
    Amounts = {1, 3}
    Emissions = {1}
    Quotes = {0, 1, 2}
    UserFunds = 3
    VaultFunds = 2
    MAX_TIME = 9
SYMMETRY MCSymmetry
CONSTRAINT MCBound
SPECIFICATION MCSpec
INVARIANTS TypeOK Backed Solvent NeverLockedIn CooldownImpliesBalance CooldownIsOwn
PROPERTIES RewardsOnlyMoveByClaim RedeemAfterOwnCooldown WaitNotCreated

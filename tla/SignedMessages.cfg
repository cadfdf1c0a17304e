CONSTANTS
    owner = owner
    other = other
    Users = {owner, other}
    Types <- VotingOnly
    ZERO = ZERO
    InitialBalances <- MCBalances
    Amounts = {1}
    MAX_SUPPLY = 2
    MAX_BLOCK = 3
    Spenders = {other}
    Permits <- MCPermits
    Delegations <- MCDelegations
    MAX_GRANTED = 1
SPECIFICATION SpecSigned
INVARIANTS SignedTypeOK InOrderOfNonces SpentWithinGrants MessagesStayGood
PROPERTIES SignedKeepsPromise

CONSTANTS
    alice = alice  bob = bob  carol = carol  id0 = id0  id1 = id1  id2 = id2
    Addr = {alice, bob, carol}
    Public = Public
    None = None
    Ids = {id0}
    DefaultId <- OneDefaultIdTwice
    MaxU32 = 2
    Expirations <- OnlyNever
    RequestTypes <- NoTypes
    Granters = {}
    Granted = {}
    MaxPerms = 99
    MaxHeight = 1
    MaxTime = 0
    MintIds = {None, id0}
    MintChoices <- AnyMint
    Admins = {alice}
    MinterSets = {}
    Statuses = {0}
    BurnIsEnabled = TRUE
    OwnerIsPublic = FALSE
    Prices = {1, 14}
    RoyaltyInfos <- SingleRoyalties
    DecFrac = 100
    MaxPowDigits = 2
    MaxU256Digits = 4
    MaxTreasury = 2
    Donations = {1}
    ZeroSendFails = TRUE
SPECIFICATION Spec
INVARIANTS ForSaleIsListed PriceDecides
PROPERTIES SaleSplit ImplementsExchange FreshStart
CHECK_DEADLOCK FALSE

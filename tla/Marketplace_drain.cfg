CONSTANTS
    alice = alice  bob = bob  carol = carol  id0 = id0  id1 = id1  id2 = id2
    Addr = {alice, bob, carol}
    Public = Public
    None = None
    Ids = {id0}
    DefaultId <- OneDefaultId
    MaxU32 = 1
    Expirations <- OnlyNever
    RequestTypes <- NoTypes
    Granters = {}
    Granted = {}
    MaxPerms = 99
    MaxHeight = 0
    MaxTime = 0
    MintIds = {None, id0}
    MintChoices <- Transferable
    Admins = {alice}
    MinterSets = {}
    Statuses = {0}
    BurnIsEnabled = FALSE
    OwnerIsPublic = FALSE
    Prices = {10}
    RoyaltyInfos <- TwoRoyalties
    DecFrac = 100
    MaxPowDigits = 2
    MaxU256Digits = 4
    MaxTreasury = 9
    Donations = {8}
    ZeroSendFails = TRUE
SPECIFICATION Spec
PROPERTY SalesNeverDrain
CHECK_DEADLOCK FALSE

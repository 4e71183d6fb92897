CONSTANTS
    alice = alice  bob = bob  carol = carol  id0 = id0  id1 = id1
    Public = Public
    None = None
    Addr = {alice, bob, carol}
    Ids = {id0, id1}
    DefaultId <- TwoDefaultIds
    MaxU32 = 2
    Expirations <- OnlyNever
    RequestTypes <- TransferType
    MintIds = {None, id0}
    MintChoices <- ForAliceOrBob
    MaxHeight = 1
    MaxTime = 0
    Granters = {alice}
    Granted = {bob}
    MaxPerms = 99
    Admins = {alice}
    MinterSets = {}
    Statuses = {0}
    BurnIsEnabled = TRUE
    OwnerIsPublic = FALSE
    PageSize = 2
    MaxTxs = 4
    MaxPages = 3
SPECIFICATION HistorySpec
INVARIANTS ListsExact CustodyChain ReadingIsComplete
CHECK_DEADLOCK FALSE

CONSTANTS
    alice = alice  shop = shop  vault = vault  id0 = id0  id1 = id1
    Public = Public
    None = None
    Addr = {alice, shop, vault}
    SendTo = {vault, alice}
    Ids = {id0, id1}
    DefaultId <- TwoDefaultIds
    MaxU32 = 2
    Expirations <- OnlyNever
    MaxHeight = 0
    MaxTime = 0
    Admins = {alice}
    MinterSets = {}
    Statuses = {0}
    BurnIsEnabled = FALSE
    OwnerIsPublic = FALSE
    RunIds = {}
    Serials <- NoSerial
    RequestTypes <- TransferType
    MintIds = {None, id0, id1}
    MintChoices <- ForAliceOrShop
    Granters = {alice}
    Granted = {shop}
    MaxPerms = 99
    MaxBatch = 1
    MaxSend = 4
    MaxCalls = 1
    Supplied <- MaybeSupplied
    Registered <- OneKind
SPECIFICATION SendsSpec
INVARIANT SettledStoresExact
PROPERTIES SentIsTold TellsInOrder
CHECK_DEADLOCK FALSE

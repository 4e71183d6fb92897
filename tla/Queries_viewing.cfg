CONSTANTS
    alice = alice  bob = bob  carol = carol  id0 = id0  id1 = id1  id2 = id2  card = card  back = back
    Addr = {alice, bob}
    Public = Public
    None = None
    Ids = {id0, id1}
    DefaultId <- TwoDefaultIds
    MaxU32 = 2
    Expirations <- NeverOrHeight
    RequestTypes <- OneOrTwoTypes
    MintIds = {None}
    MintChoices <- ForAlice
    MaxTime = 0
    Granters = {alice}
    Granted = {bob}
    MaxPerms = 2
    MaxHeight = 1
    Admins = {alice}
    MinterSets = {}
    Statuses = {}
    BurnIsEnabled = TRUE
    OwnerIsPublic = TRUE
    Metas = {card, back}
    TwoFieldMetas = {}
    MintMetas <- BothMetas
    MetaConfigs <- NeverSealed
    SupplyIsPublic = FALSE
    Lists <- Pairs
SPECIFICATION MetaSpec
INVARIANTS AuthListExact CheckIsExact QueriesNotStricter CountsAgree PublicFlagsExact
INVARIANTS OwnerSeesApprovals BatchIsSingle
CHECK_DEADLOCK FALSE

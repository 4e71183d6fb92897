CONSTANTS
    alice = alice  bob = bob  carol = carol  id0 = id0  id1 = id1  id2 = id2  card = card  back = back
    Addr = {alice, bob}
    Public = Public
    None = None
    Ids = {id0, id1, id2}
    DefaultId <- ThreeDefaultIds
    MaxU32 = 3
    Expirations <- NeverOrTime
    RequestTypes <- TransferType
    MintIds = {None}
    MintChoices <- ForAlice
    MaxTime = 1
    Granters = {alice, bob}
    Granted = {bob}
    MaxPerms = 99
    MaxHeight = 1
    Admins = {alice}
    MinterSets = {}
    Statuses = {0}
    BurnIsEnabled = FALSE
    OwnerIsPublic = FALSE
    Metas = {}
    TwoFieldMetas = {}
    MintMetas <- NoMetas
    MetaConfigs <- NeverSealed
    SupplyIsPublic = FALSE
    Lists <- Pairs
SPECIFICATION MetaSpec
INVARIANTS NoDoubleGrant VerifyIsExact
PROPERTIES OneTokenOrAll ApprovalTakesEffect
CHECK_DEADLOCK FALSE

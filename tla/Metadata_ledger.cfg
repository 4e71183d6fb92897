CONSTANTS
    alice = alice  bob = bob  id0 = id0  id1 = id1  card = card  back = back  both = both
    Addr = {alice, bob}
    Public = Public
    None = None
    Ids = {id0, id1}
    DefaultId <- TwoDefaultIds
    MaxU32 = 2
    Expirations <- OnlyNever
    RequestTypes <- ViewMeta
    MintIds = {None, id0, id1}
    MintChoices <- Transferable
    MaxTime = 0
    Granters = {alice}
    Granted = {bob}
    MaxPerms = 99
    MaxHeight = 0
    Admins = {alice}
    MinterSets = {{alice}}
    Statuses = {}
    BurnIsEnabled = TRUE
    OwnerIsPublic = FALSE
    Metas = {card, both}
    TwoFieldMetas = {both}
    MintMetas <- AnyMetas
    MetaConfigs <- ThreeConfigs
SPECIFICATION MetaSpec
INVARIANTS TypeOK IdsExact InventoryExact SupplyExact SealedIsIntact SecretSurvives NothingLeft
PROPERTY NewOwnerDecides
CHECK_DEADLOCK FALSE

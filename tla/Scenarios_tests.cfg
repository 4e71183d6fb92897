CONSTANTS
    Addr = {"alice", "bob", "charlie", "david", "edmund", "frank", "admin", "zoe"}
    Public = Public
    None = None
    Ids = {"MyNFT", "MyNFT2", "MyNFT3", "NFT1", "NFT2", "NFT3", "NFT4", "SNIP20", "0", "1", "2", "3"}
    DefaultId <- FirstNumbers
    MaxU32 = 4
    Expirations <- TestExpirations
    RequestTypes = {}
    MintIds = {}
    MintChoices = {}
    MaxTime = 0
    Granters = {}
    Granted = {"bob"}
    MaxPerms = 99
    MaxHeight = 0
    Admins = {"admin"}
    MinterSets = {}
    Statuses = {0, 1, 3}
    BurnIsEnabled = TRUE
    OwnerIsPublic = FALSE
    Metas <- TestMetas
    TwoFieldMetas = {"both"}
    MintMetas = {}
    MetaConfigs <- TestConfigs
    Scripts <- TestScripts
    Strangers = {"zoe"}
SPECIFICATION ReplaySpec
INVARIANT Conforms
CHECK_DEADLOCK FALSE

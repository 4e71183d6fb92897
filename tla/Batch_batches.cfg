CONSTANTS
    alice = alice  bob = bob  carol = carol  id0 = id0  id1 = id1  id2 = id2
    Public = Public
    None = None
    Addr = {alice, bob}
    Ids = {id0, id1, id2}
    DefaultId <- ThreeDefaultIds
    MaxU32 = 3
    Expirations <- OnlyNever
    RequestTypes <- TransferType
    MintIds = {None, id0, id1, id2}
    MintChoices <- ForAlice
    MaxHeight = 0
    MaxTime = 0
    Granters = {alice}
    Granted = {bob}
    MaxPerms = 99
    Admins = {alice}
    MinterSets = {}
    Statuses = {0}
    BurnIsEnabled = TRUE
    OwnerIsPublic = FALSE
    MaxBatch = 3
    MaxSend = 0
    RunIds = {run}
    Serials <- NoSerial
SPECIFICATION BatchSpec
INVARIANTS StoresExact DefaultIdFree
PROPERTIES ListIsOneByOne ClonesNumbered
CHECK_DEADLOCK FALSE

------------------------------- MODULE Snip721 -------------------------------
(***************************************************************************)
(* The token ledger of the contract: which token exists, who owns it, who  *)
(* may see or move it.  One action is one successful transaction of a      *)
(* HandleMsg; a transaction that returns an error is rolled back by the    *)
(* chain, so it is no step here.  Marketplace.tla adds sales to this.      *)
(***************************************************************************)
EXTENDS Naturals, FiniteSets

CONSTANTS
    Addr,           \* canonical addresses
    Public,         \* the pseudo address b"public" of a global approval
    Ids,            \* token id strings
    DefaultId,      \* Idx -> Ids: the decimal string of a mint index
    None,           \* Rust's Option::None
    MaxU32,         \* u32::MAX, where the mint counter stops
    Expirations,    \* the expirations a message may carry
    RequestTypes,   \* bound: the sets of permission types a request may mention
    Granters,       \* bound: senders of approval messages
    Granted,        \* bound: addresses they approve
    MaxPerms,       \* bound: permissions recorded at the same time
    MaxHeight,      \* bound: blocks of a run
    MaxTime,        \* bound: seconds that pass in a run
    MintIds,        \* bound: ids that mint messages name, None for no id
    MintChoices,    \* bound: owner and transferable flag of mint messages
    Admins,         \* bound: addresses the admin role is given to
    MinterSets,     \* bound: minter lists the admin's messages carry
    Statuses,       \* bound: status levels the admin sets
    BurnIsEnabled,  \* Config.burn_is_enabled
    OwnerIsPublic   \* Config.owner_is_public

Idx == 0 .. MaxU32 - 1
PermTypes == {"ViewOwner", "ViewMetadata", "Transfer"}
Grantee == Addr \cup {Public}
AccessLevel == {"ApproveToken", "RevokeToken", "All", "None"}
Never == [kind |-> "Never", at |-> 0]

ASSUME SnipAssumption ==
    /\ MaxU32 \in Nat /\ MaxHeight \in Nat /\ MaxTime \in Nat
    /\ Public \notin Addr
    /\ DefaultId \in [Idx -> Ids]
    /\ Expirations \subseteq [kind : {"AtHeight", "AtTime", "Never"}, at : Nat]
    /\ Never \in Expirations
    /\ None \notin Idx /\ None \notin Ids /\ None \notin Addr /\ None \notin Expirations
    /\ None \notin [owner : Addr, transferable : BOOLEAN]
    /\ RequestTypes \subseteq SUBSET PermTypes
    /\ MintIds \subseteq Ids \cup {None}
    /\ MintChoices \subseteq [owner : Addr, transferable : BOOLEAN]
    /\ Granters \subseteq Addr /\ Granted \subseteq Addr
    /\ MaxPerms \in Nat
    /\ Admins \subseteq Addr /\ MinterSets \subseteq SUBSET Addr
    /\ Statuses \subseteq 0 .. 3
    /\ BurnIsEnabled \in BOOLEAN /\ OwnerIsPublic \in BOOLEAN

VARIABLES
    status, admin, minters,             \* Config, MINTERS_KEY
    mintCnt, tokenCnt,                  \* Config.mint_cnt, Config.token_cnt
    idxOf, idOf,                        \* PREFIX_MAP_TO_INDEX, PREFIX_MAP_TO_ID
    token,                              \* PREFIX_INFOS, without the permissions
    creator,                            \* PREFIX_MINT_RUN: token_creator
    inventory,                          \* Inventory: indices held by an owner
    tokPerm,                            \* Token.permissions
    allPerm,                            \* PREFIX_ALL_PERMISSIONS
    authList,                           \* PREFIX_AUTHLIST
    ownerPriv,                          \* PREFIX_OWNER_PRIV: owners gone private
    block, savedBlock                   \* the chain's block, BLOCK_KEY

configVars == <<status, admin, minters>>
ledgerVars == <<mintCnt, tokenCnt, idxOf, idOf, token, creator, inventory>>
permVars == <<tokPerm, allPerm, authList>>
snipVars == <<configVars, ledgerVars, permVars, ownerPriv, block, savedBlock>>

-----------------------------------------------------------------------------
(* Expirations and the permission check.                                    *)

IsExpired(e, b) ==
    \/ e.kind = "AtHeight" /\ b.height >= e.at
    \/ e.kind = "AtTime" /\ b.time >= e.at

Live(perm, b) == perm # None /\ ~IsExpired(perm, b)
Lapsed(perm, b) == perm # None /\ IsExpired(perm, b)

Exists(t) == t \in Idx /\ token[t] # None
Owner(t) == token[t].owner

NoPerms == [p \in PermTypes |-> None]
NoGrants == [g \in Grantee |-> NoPerms]

\* mutant of CheckPermCore: leaves as soon as either permission has lapsed
MutEitherLapsed(s, t, p, b) ==
    \/ s = Owner(t)
    \/ \E g \in {s, Public} : Live(tokPerm[t][g][p], b)
    \/ /\ ~ \E g \in {s, Public} : Lapsed(tokPerm[t][g][p], b)
       /\ \E g \in {s, Public} : Live(allPerm[Owner(t)][g][p], b)

(***************************************************************************)
(* Whether s passes the check for permission p on t; s = Public stands for *)
(* a caller without an address.  When the token permissions of both s and  *)
(* Public have lapsed the code returns before it looks at the ALL list.    *)
(***************************************************************************)
CheckPermCore(s, t, p, b) ==
    \/ s = Owner(t)
    \/ \E g \in {s, Public} : Live(tokPerm[t][g][p], b)
    \/ /\ ~ \A g \in {s, Public} : Lapsed(tokPerm[t][g][p], b)
       /\ \E g \in {s, Public} : Live(allPerm[Owner(t)][g][p], b)

OwnershipIsOpen(o) == OwnerIsPublic /\ o \notin ownerPriv

CheckPermission(s, t, p, b) ==
    \/ p = "ViewOwner" /\ OwnershipIsOpen(Owner(t))
    \/ CheckPermCore(s, t, p, b)

-----------------------------------------------------------------------------
(* Contract status.  A handler runs while the status is at most its level.  *)

Normal == 0
StopTransactions == 1
WithdrawFunds == 2
StopAll == 3

CheckStatus(priority) == status <= priority

\* mutant of Handled: the queries are given a block that is yet to come
MutBlockAhead == savedBlock' = [block EXCEPT !.height = @ + 1] /\ UNCHANGED block

\* every handler starts by storing the block for the queries to come
Handled == savedBlock' = block /\ UNCHANGED block

-----------------------------------------------------------------------------
(* Mint, transfer, burn.                                                    *)

\* mutant of MayMint: a minter may name an id that is already mapped
MutReuseId(s, id) == s \in minters

MayMint(s, id) == s \in minters /\ idxOf[id] = None

\* checked_add on both counters
BelowLimit == mintCnt < MaxU32 /\ tokenCnt < MaxU32

\* mutant of NextIdx: the index is the number of tokens
MutSupplyIdx == tokenCnt

\* mutant of NextIdx: the counter is incremented before it is read
MutNextCount == mintCnt + 1

\* the index of the next token: a burned token's is not used again
NextIdx == mintCnt

\* mutant of MintId: the id counts the tokens that are left
MutSupplyId(given) == IF given = None THEN DefaultId[tokenCnt] ELSE given

\* the id of a mint: the one given, else the mint counter's
MintId(given) == IF given = None THEN DefaultId[mintCnt] ELSE given

MintEffect(s, id, new) ==
    /\ mintCnt' = mintCnt + 1
    /\ tokenCnt' = tokenCnt + 1
    /\ idxOf' = [idxOf EXCEPT ![id] = NextIdx]
    /\ idOf' = [idOf EXCEPT ![NextIdx] = id]
    /\ token' = [token EXCEPT ![NextIdx] = new]
    /\ creator' = [creator EXCEPT ![NextIdx] = s]
    /\ inventory' = [inventory EXCEPT ![new.owner] = @ \cup {NextIdx}]
    /\ tokPerm' = [tokPerm EXCEPT ![NextIdx] = NoGrants]
    /\ UNCHANGED <<configVars, allPerm, authList, ownerPriv>>
    /\ Handled

Mint(s, given, new) ==
    /\ CheckStatus(Normal)
    /\ BelowLimit
    /\ MayMint(s, MintId(given))
    /\ MintEffect(s, MintId(given), new)

\* the AuthLists once o has lost token t
DropToken(o, t) ==
    [authList EXCEPT ![o] = [g \in Grantee |-> [p \in PermTypes |-> @[g][p] \ {t}]]]

\* mutant of MovedPerms: the permissions move with the token
MutMovedPerms(t) == tokPerm

MovedPerms(t) == [tokPerm EXCEPT ![t] = NoGrants]

\* mutant of MovedInventory: the old owner's inventory keeps the token
MutKeepInventory(t, to) == [inventory EXCEPT ![to] = @ \cup {t}]

MovedInventory(t, to) ==
    [inventory EXCEPT ![to] = @ \cup {t}, ![Owner(t)] = @ \ {t}]

MayMove(s, t, to) ==
    /\ CheckPermission(s, t, "Transfer", block)
    /\ token[t].transferable
    /\ Owner(t) # to

\* transfer_impl and the inventory update that ends send_list
TransferEffect(t, to) ==
    /\ token' = [token EXCEPT ![t] = [owner |-> to, transferable |-> @.transferable]]
    /\ tokPerm' = MovedPerms(t)
    /\ inventory' = MovedInventory(t, to)
    /\ authList' = DropToken(Owner(t), t)
    /\ UNCHANGED <<configVars, mintCnt, tokenCnt, idxOf, idOf, creator, allPerm, ownerPriv>>

TransferNft(s, id, to) ==
    LET t == idxOf[id] IN
    /\ CheckStatus(Normal)
    /\ Exists(t)
    /\ MayMove(s, t, to)
    /\ TransferEffect(t, to)
    /\ Handled

BurnedIds(id) == [idxOf EXCEPT ![id] = None]

\* mutant of BurnedCount: the supply is not decremented
MutKeepCount == tokenCnt

\* saturating_sub
BurnedCount == IF tokenCnt = 0 THEN 0 ELSE tokenCnt - 1

BurnEffect(t, id) ==
    /\ tokenCnt' = BurnedCount
    /\ idxOf' = BurnedIds(id)
    /\ idOf' = [idOf EXCEPT ![t] = None]
    /\ token' = [token EXCEPT ![t] = None]
    /\ tokPerm' = [tokPerm EXCEPT ![t] = NoGrants]
    /\ creator' = [creator EXCEPT ![t] = None]
    /\ inventory' = [inventory EXCEPT ![Owner(t)] = @ \ {t}]
    /\ authList' = DropToken(Owner(t), t)
    /\ UNCHANGED <<configVars, mintCnt, allPerm, ownerPriv>>

BurnNft(s, id) ==
    LET t == idxOf[id] IN
    /\ CheckStatus(Normal)
    /\ Exists(t)
    /\ CheckPermission(s, t, "Transfer", block)
    /\ BurnIsEnabled \/ ~token[t].transferable
    /\ BurnEffect(t, id)
    /\ Handled

-----------------------------------------------------------------------------
(***************************************************************************)
(* Approvals.  process_accesses changes what owner o lets grantee g do; x  *)
(* is the token named in the message (None if none is), acc the access     *)
(* level asked for per permission type ("Unset" where the message is       *)
(* silent), e the expiration, oper whether an operator of o is asking.     *)
(* The code walks the types and fills tables of what to alter; here each   *)
(* table is an operator of the type p.                                     *)
(***************************************************************************)
Requests == {acc \in [PermTypes -> AccessLevel \cup {"Unset"}] :
                {p \in PermTypes : acc[p] # "Unset"} \in RequestTypes}

OneToken(acc, p) == acc[p] \in {"ApproveToken", "RevokeToken"}
Wholesale(acc, p) == acc[p] \in {"All", "None"}

HasLiveAll(o, g, p) == Live(allPerm[o][g][p], block)

\* mutant of Skips: a revocation is skipped too
MutSkipsRevoke(o, g, acc, p, e, oper) ==
    OneToken(acc, p) /\ HasLiveAll(o, g, p) /\ (oper \/ allPerm[o][g][p] = e)

\* g already has ALL with this expiration, or an operator approves an operator
Skips(o, g, acc, p, e, oper) ==
    /\ acc[p] = "ApproveToken"
    /\ HasLiveAll(o, g, p)
    /\ oper \/ allPerm[o][g][p] = e

Alters(o, g, acc, p, e, oper) == OneToken(acc, p) /\ ~Skips(o, g, acc, p, e, oper)

\* mutant of Expands: the operator's other tokens are forgotten
MutNeverExpands(o, g, acc, p, e, oper) == FALSE

\* a live ALL is turned into permissions on every other token of o
Expands(o, g, acc, p, e, oper) ==
    Alters(o, g, acc, p, e, oper) /\ HasLiveAll(o, g, p)

\* the other tokens whose permissions are loaded and altered
LoadList(o, g, x, acc, e, oper) ==
    IF \E p \in PermTypes : Expands(o, g, acc, p, e, oper)
    THEN inventory[o] \ {x}
    ELSE (UNION {authList[o][g][p] : p \in {q \in PermTypes : Wholesale(acc, q)}}) \ {x}

\* mutant of NewAll: a lapsed ALL stays when a single token is approved
MutKeepLapsedAll(o, g, acc, p, e, oper) ==
    IF acc[p] = "All" THEN e
    ELSE IF acc[p] = "None" \/ Expands(o, g, acc, p, e, oper) THEN None
    ELSE allPerm[o][g][p]

NewAll(o, g, acc, p, e, oper) ==
    IF acc[p] = "All" THEN e
    ELSE IF acc[p] = "None" \/ Alters(o, g, acc, p, e, oper) THEN None
    ELSE allPerm[o][g][p]

\* the permission of the token named in the message
NewNamed(o, g, x, acc, p, e, oper) ==
    IF Wholesale(acc, p) \/ acc[p] = "RevokeToken" THEN None
    ELSE IF Alters(o, g, acc, p, e, oper) THEN e
    ELSE tokPerm[x][g][p]

\* the permission of a loaded token; ALL's expiration is handed down
NewLoaded(o, g, t, acc, p, e, oper) ==
    IF Wholesale(acc, p) THEN None
    ELSE IF Expands(o, g, acc, p, e, oper) THEN allPerm[o][g][p]
    ELSE tokPerm[t][g][p]

NewTokPerm(o, g, x, acc, e, oper, t, p) ==
    IF t = x THEN NewNamed(o, g, x, acc, p, e, oper)
    ELSE IF t \in LoadList(o, g, x, acc, e, oper) /\ Exists(t) /\ Owner(t) = o
         THEN NewLoaded(o, g, t, acc, p, e, oper)
    ELSE tokPerm[t][g][p]

\* mutant of NewAuth: expanding an ALL forgets the token being approved
MutForgetNamed(o, g, x, acc, p, e, oper) ==
    IF Wholesale(acc, p) THEN {}
    ELSE IF Expands(o, g, acc, p, e, oper) THEN LoadList(o, g, x, acc, e, oper)
    ELSE IF Alters(o, g, acc, p, e, oper)
         THEN IF acc[p] = "ApproveToken" THEN authList[o][g][p] \cup {x}
                                         ELSE authList[o][g][p] \ {x}
    ELSE authList[o][g][p]

NewAuth(o, g, x, acc, p, e, oper) ==
    LET rest == IF Expands(o, g, acc, p, e, oper)
                THEN LoadList(o, g, x, acc, e, oper)
                ELSE authList[o][g][p] \ {x}
    IN  IF Wholesale(acc, p) THEN {}
        ELSE IF Alters(o, g, acc, p, e, oper)
             THEN IF acc[p] = "ApproveToken" THEN rest \cup {x} ELSE rest
        ELSE authList[o][g][p]

ProcessAccesses(o, g, x, acc, e, oper) ==
    /\ x = None => \A p \in PermTypes : ~OneToken(acc, p)
    /\ oper => ~ \E p \in PermTypes : acc[p] = "RevokeToken" /\ HasLiveAll(o, g, p)
    /\ allPerm' = [allPerm EXCEPT ![o] = [h \in Grantee |-> IF h # g THEN @[h]
           ELSE [p \in PermTypes |-> NewAll(o, g, acc, p, e, oper)]]]
    /\ tokPerm' = [t \in Idx |-> [h \in Grantee |-> IF h # g THEN tokPerm[t][h]
           ELSE [p \in PermTypes |-> NewTokPerm(o, g, x, acc, e, oper, t, p)]]]
    /\ authList' = [authList EXCEPT ![o] = [h \in Grantee |-> IF h # g THEN @[h]
           ELSE [p \in PermTypes |-> NewAuth(o, g, x, acc, p, e, oper)]]]
    /\ UNCHANGED <<configVars, ledgerVars, ownerPriv>>

TransferOnly(level) ==
    [p \in PermTypes |-> IF p = "Transfer" THEN level ELSE "Unset"]

\* the owner, or somebody with a live ALL permission to transfer
IsOperator(s, o) == s # o /\ Live(allPerm[o][s]["Transfer"], block)

ApproveRevoke(s, g, id, e, level) ==
    LET t == idxOf[id] IN
    /\ CheckStatus(StopTransactions)
    /\ Exists(t)
    /\ s = Owner(t) \/ IsOperator(s, Owner(t))
    /\ ProcessAccesses(Owner(t), g, t, TransferOnly(level), e, s # Owner(t))
    /\ Handled

Approve(s, g, id, e) == ApproveRevoke(s, g, id, e, "ApproveToken")
Revoke(s, g, id) == ApproveRevoke(s, g, id, Never, "RevokeToken")

\* the token of a message that may name one, owned by s if it does
NamedToken(id) == IF id = None THEN None ELSE idxOf[id]
OwnsNamed(s, id) == id # None => Exists(idxOf[id]) /\ Owner(idxOf[id]) = s

\* also ApproveAll and RevokeAll, which ask for Transfer All or None, no token
SetWhitelistedApproval(s, g, id, acc, e) ==
    /\ CheckStatus(StopTransactions)
    /\ OwnsNamed(s, id)
    /\ ProcessAccesses(s, g, NamedToken(id), acc, e, FALSE)
    /\ Handled

\* SetGlobalApproval has no field for transfers
ViewingOnly(acc) == acc["Transfer"] = "Unset"

SetGlobalApproval(s, id, acc, e) ==
    /\ CheckStatus(StopTransactions)
    /\ ViewingOnly(acc)
    /\ OwnsNamed(s, id)
    /\ ProcessAccesses(s, Public, NamedToken(id), acc, e, FALSE)
    /\ Handled

MakeOwnershipPrivate(s) ==
    /\ CheckStatus(StopTransactions)
    /\ ownerPriv' = IF OwnerIsPublic THEN ownerPriv \cup {s} ELSE ownerPriv
    /\ UNCHANGED <<configVars, ledgerVars, permVars>>
    /\ Handled

-----------------------------------------------------------------------------
(* Administration.                                                          *)

AdminVarsOnly == UNCHANGED <<ledgerVars, permVars, ownerPriv>>

AddMinters(s, new) ==
    /\ CheckStatus(StopTransactions)
    /\ s = admin
    /\ minters' = minters \cup new
    /\ UNCHANGED <<status, admin>> /\ AdminVarsOnly /\ Handled

RemoveMinters(s, old) ==
    /\ CheckStatus(StopTransactions)
    /\ s = admin
    /\ minters' = minters \ old
    /\ UNCHANGED <<status, admin>> /\ AdminVarsOnly /\ Handled

SetMinters(s, new) ==
    /\ CheckStatus(StopTransactions)
    /\ s = admin
    /\ minters' = new
    /\ UNCHANGED <<status, admin>> /\ AdminVarsOnly /\ Handled

ChangeAdmin(s, a) ==
    /\ CheckStatus(StopTransactions)
    /\ s = admin
    /\ admin' = a
    /\ UNCHANGED <<status, minters>> /\ AdminVarsOnly /\ Handled

\* the one handler besides RevokePermit that no status stops
SetContractStatus(s, level) ==
    /\ s = admin
    /\ status' = level
    /\ UNCHANGED <<admin, minters>> /\ AdminVarsOnly /\ Handled

\* the chain (external): blocks follow each other, time does not go back
NewBlock ==
    /\ block.height < MaxHeight
    /\ \E passed \in 0 .. MaxTime - block.time :
           block' = [height |-> block.height + 1, time |-> block.time + passed]
    /\ UNCHANGED <<configVars, ledgerVars, permVars, ownerPriv, savedBlock>>

-----------------------------------------------------------------------------
SnipInit ==
    /\ status = Normal
    /\ admin \in Admins
    /\ minters = {admin}
    /\ mintCnt = 0 /\ tokenCnt = 0
    /\ idxOf = [id \in Ids |-> None]
    /\ idOf = [t \in Idx |-> None]
    /\ token = [t \in Idx |-> None]
    /\ creator = [t \in Idx |-> None]
    /\ inventory = [a \in Addr |-> {}]
    /\ tokPerm = [t \in Idx |-> NoGrants]
    /\ allPerm = [o \in Addr |-> NoGrants]
    /\ authList = [o \in Addr |-> [g \in Grantee |-> [p \in PermTypes |-> {}]]]
    /\ ownerPriv = {}
    /\ block = [height |-> 0, time |-> 0]
    /\ savedBlock = block

MaybeId == Ids \cup {None}

LedgerNext == \E s \in Addr :
    \/ \E given \in MintIds, new \in MintChoices : Mint(s, given, new)
    \/ \E id \in Ids, to \in Addr : TransferNft(s, id, to)
    \/ \E id \in Ids : BurnNft(s, id)

\* permissions on tokens and on all that an owner has
RecordedPerms ==
    Cardinality({x \in Idx \X Grantee \X PermTypes : tokPerm[x[1]][x[2]][x[3]] # None})
    + Cardinality({x \in Addr \X Grantee \X PermTypes : allPerm[x[1]][x[2]][x[3]] # None})

ApprovalNext == \E s \in Granters :
    \/ \E g \in Granted, id \in Ids, e \in Expirations :
           "Transfer" \in UNION RequestTypes /\ (Approve(s, g, id, e) \/ Revoke(s, g, id))
           /\ RecordedPerms' <= MaxPerms
    \/ \E id \in MaybeId, acc \in Requests, e \in Expirations :
           /\ \/ \E g \in Granted : SetWhitelistedApproval(s, g, id, acc, e)
              \/ SetGlobalApproval(s, id, acc, e)
           /\ RecordedPerms' <= MaxPerms
    \/ MakeOwnershipPrivate(s)

AdminNext == \E s \in Addr :
    \/ \E some \in MinterSets :
           AddMinters(s, some) \/ RemoveMinters(s, some) \/ SetMinters(s, some)
    \/ \E a \in Admins : ChangeAdmin(s, a)
    \/ \E level \in Statuses : SetContractStatus(s, level)

SnipNext == LedgerNext \/ ApprovalNext \/ AdminNext \/ NewBlock

SnipSpec == SnipInit /\ [][SnipNext]_snipVars

-----------------------------------------------------------------------------
(* Properties.                                                              *)

PermSet == Expirations \cup {None}
BlockInfo == [height : Nat, time : Nat]

\* Every variable holds a value of its kind; indices stay below the counter.
TypeOK ==
    /\ status \in Normal .. StopAll /\ admin \in Addr /\ minters \subseteq Addr
    /\ mintCnt \in 0 .. MaxU32 /\ tokenCnt \in 0 .. MaxU32
    /\ idxOf \in [Ids -> Idx \cup {None}]
    /\ idOf \in [Idx -> Ids \cup {None}]
    /\ token \in [Idx -> [owner : Addr, transferable : BOOLEAN] \cup {None}]
    /\ creator \in [Idx -> Addr \cup {None}]
    /\ inventory \in [Addr -> SUBSET Idx]
    /\ tokPerm \in [Idx -> [Grantee -> [PermTypes -> PermSet]]]
    /\ allPerm \in [Addr -> [Grantee -> [PermTypes -> PermSet]]]
    /\ authList \in [Addr -> [Grantee -> [PermTypes -> SUBSET Idx]]]
    /\ ownerPriv \subseteq Addr
    /\ block \in BlockInfo /\ savedBlock \in BlockInfo

(***************************************************************************)
(* The two id maps are inverse to each other on the tokens that exist, an  *)
(* index at or past the mint counter has never been used, and a token has  *)
(* its mint record: through re-minting a burned id included.               *)
(***************************************************************************)
IdsExact ==
    /\ \A id \in Ids, t \in Idx : idxOf[id] = t <=> idOf[t] = id
    /\ \A t \in Idx : /\ Exists(t) <=> idOf[t] # None
                      /\ Exists(t) <=> creator[t] # None
                      /\ Exists(t) => t < mintCnt

(***************************************************************************)
(* A token is in exactly one inventory, its owner's; burned ones in none.  *)
(***************************************************************************)
InventoryExact ==
    \A a \in Addr, t \in Idx : t \in inventory[a] <=> Exists(t) /\ Owner(t) = a

\* num_tokens reports how many tokens there are.
SupplyExact == tokenCnt = Cardinality({t \in Idx : Exists(t)})

(***************************************************************************)
(* The AuthList of an owner, which process_accesses trusts to find what it *)
(* must revoke, lists exactly the owner's tokens with that permission.     *)
(***************************************************************************)
AuthListExact ==
    \A o \in Addr, g \in Grantee, p \in PermTypes, t \in Idx :
        t \in authList[o][g][p] <=>
            Exists(t) /\ Owner(t) = o /\ tokPerm[t][g][p] # None

(***************************************************************************)
(* Nobody holds a permission both on a token and on all of its owner's     *)
(* tokens: the early exit of check_perm_core counts on it, and revoking    *)
(* one of the two would leave the other.                                   *)
(***************************************************************************)
NoDoubleGrant ==
    \A t \in Idx, g \in Grantee, p \in PermTypes :
        Exists(t) /\ tokPerm[t][g][p] # None => allPerm[Owner(t)][g][p] = None

(***************************************************************************)
(* The check lets s through exactly when s is the owner or a permission    *)
(* given to s or to the public, on this token or on all, has not expired.  *)
(***************************************************************************)
MayAccess(s, t, p, b) ==
    \/ s = Owner(t)
    \/ \E g \in {s, Public} :
           Live(tokPerm[t][g][p], b) \/ Live(allPerm[Owner(t)][g][p], b)

CheckIsExact ==
    \A t \in Idx, s \in Grantee, p \in PermTypes :
        Exists(t) => (CheckPermCore(s, t, p, block) <=> MayAccess(s, t, p, block))

(***************************************************************************)
(* Queries judge expirations by the block of the last handled message.     *)
(* That block is never ahead of the chain, so whoever may act on a token   *)
(* now is never refused by a query.                                        *)
(***************************************************************************)
QueriesNotStricter ==
    \A t \in Idx, s \in Grantee, p \in PermTypes :
        Exists(t) /\ CheckPermission(s, t, p, block)
            => CheckPermission(s, t, p, savedBlock)

\* who may access what by a live permission of their own, on the token or on all
Grants ==
    {c \in Grantee \X Idx \X PermTypes :
        LET g == c[1]
            t == c[2]
            p == c[3]
        IN  Exists(t) /\ (\/ Live(tokPerm[t][g][p], block)
                          \/ Live(allPerm[Owner(t)][g][p], block))}

(***************************************************************************)
(* An approval message touches one owner's tokens and one grantee, and for *)
(* each permission type either one token or all the owner has: turning an  *)
(* ALL into per-token permissions neither adds nor drops another token.    *)
(***************************************************************************)
OneTokenOrAll ==
    [][ token' = token /\ block' = block =>
        LET before == Grants
            after == Grants'
        IN  \A c, d \in (before \ after) \cup (after \ before) :
              /\ c[1] = d[1] /\ Owner(c[2]) = Owner(d[2])
              /\ c[2] # d[2] /\ c[3] = d[3] =>
                   LET all == {<<c[1], t, c[3]>> : t \in inventory[Owner(c[2])]}
                   IN  all \subseteq after \/ all \cap after = {}
      ]_snipVars

(***************************************************************************)
(* Once an Approve has succeeded with an expiration that has not passed,   *)
(* the spender may move the token; once a Revoke has succeeded it may not, *)
(* whatever ALL permission it held.  The handler answers Success in both   *)
(* cases even where process_accesses decides that nothing needs to be done.*)
(***************************************************************************)
ApprovalTakesEffect ==
    [][ ledgerVars' = ledgerVars =>
        \A s \in Granters, g \in Granted, id \in Ids :
          LET t == idxOf[id] IN
          /\ \A e \in Expirations : Approve(s, g, id, e) /\ ~IsExpired(e, block)
                => CheckPermission(g, t, "Transfer", block)'
          /\ Revoke(s, g, id) /\ g # Owner(t)
                => ~CheckPermission(g, t, "Transfer", block)'
      ]_snipVars
=============================================================================

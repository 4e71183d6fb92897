------------------------------- MODULE Queries -------------------------------
(***************************************************************************)
(* What the contract answers about tokens, owners and approvals, as        *)
(* operators of its stores.  A querier s is the address a viewing key or a *)
(* permit proves (Access.tla), or Public if the query proves none.  The    *)
(* answers are judged by the saved block: the module adds no variable.     *)
(***************************************************************************)
EXTENDS Metadata, Sequences

CONSTANTS
    SupplyIsPublic,     \* Config.token_supply_is_public
    Lists               \* bound: the lists of token ids a batch query names

ASSUME QueryAssumption ==
    /\ SupplyIsPublic \in BOOLEAN
    /\ Lists \subseteq Seq(Ids)
    /\ None \notin Nat

Passes(s, t, p) == CheckPermission(s, t, p, savedBlock)
PassesCore(s, t, p) == CheckPermCore(s, t, p, savedBlock)
Shown(perm, inclExpired) == perm # None /\ (inclExpired \/ ~IsExpired(perm, savedBlock))

-----------------------------------------------------------------------------
(* OwnerOf, ApprovedForAll.                                                 *)

\* mutant of Approvals721: expired approvals are listed as well
MutApprovals721(perms, inclExpired) == {g \in Addr : perms[g]["Transfer"] # None}

\* gen_cw721_approvals: the public address is left out
Approvals721(perms, inclExpired) ==
    {g \in Addr : Shown(perms[g]["Transfer"], inclExpired)}

Spenders(t, inclExpired) == Approvals721(tokPerm[t], inclExpired)
Operators(o, inclExpired) == Approvals721(allPerm[o], inclExpired)

\* process_cw721_owner_of: only the owner is shown who may transfer
OwnerOf(s, t, inclExpired) ==
    [owner |-> IF Passes(s, t, "ViewOwner") THEN Owner(t) ELSE None,
     spenders |-> IF s = Owner(t) THEN Spenders(t, inclExpired) ELSE {},
     operators |-> IF s = Owner(t) THEN Operators(s, inclExpired) ELSE {}]

\* query_approved_for_all, for the owner who proves to be it
ApprovedForAll(o, inclExpired) == Operators(o, inclExpired)

-----------------------------------------------------------------------------
(* TokenApprovals, InventoryApprovals.                                      *)

\* gen_snip721_approvals: who has what, expired permissions left out on demand
Approvals(perms, inclExpired) ==
    {[address |-> g, expirations |-> [p \in PermTypes |->
          IF Shown(perms[g][p], inclExpired) THEN perms[g][p] ELSE None]] :
        g \in {a \in Addr : \E p \in PermTypes : Shown(perms[a][p], inclExpired)}}

\* mutant of PublicExp: an expired global permission counts
MutPublicExp(perms, p) == perms[Public][p]

\* the expiration of a live permission of the public, None if there is none
PublicExp(perms, p) ==
    IF Live(perms[Public][p], savedBlock) THEN perms[Public][p] ELSE None

PublicOwnershipExp(t) ==
    IF OwnershipIsOpen(Owner(t)) THEN Never
    ELSE IF PublicExp(tokPerm[t], "ViewOwner") # None THEN PublicExp(tokPerm[t], "ViewOwner")
    ELSE PublicExp(allPerm[Owner(t)], "ViewOwner")

PublicMetadataExp(t) ==
    IF PublicExp(tokPerm[t], "ViewMetadata") # None THEN PublicExp(tokPerm[t], "ViewMetadata")
    ELSE PublicExp(allPerm[Owner(t)], "ViewMetadata")

\* for the owner who proves to be it
TokenApprovals(t, inclExpired) ==
    [owner_is_public |-> PublicOwnershipExp(t) # None,
     public_ownership_expiration |-> PublicOwnershipExp(t),
     private_metadata_is_public |-> PublicMetadataExp(t) # None,
     private_metadata_is_public_expiration |-> PublicMetadataExp(t),
     token_approvals |-> Approvals(tokPerm[t], inclExpired)]

InventoryApprovals(o, inclExpired) ==
    [public_ownership_expiration |->
         IF OwnershipIsOpen(o) THEN Never ELSE PublicExp(allPerm[o], "ViewOwner"),
     private_metadata_is_public_expiration |-> PublicExp(allPerm[o], "ViewMetadata"),
     inventory_approvals |-> Approvals(allPerm[o], inclExpired)]

-----------------------------------------------------------------------------
(* Tokens, NumTokensOfOwner.                                                *)

KnownPass(o, s) == s = o \/ OwnershipIsOpen(o)

\* check_perm_core passes by an ALL permission and remembers the owner
FoundOperator(s, t, p) ==
    /\ s # Owner(t)
    /\ ~ \E g \in {s, Public} : Live(tokPerm[t][g][p], savedBlock)
    /\ PassesCore(s, t, p)

\* whether Tokens lists t of o's inventory, having gone through the others before
ListsToken(o, s, t, before) ==
    \/ KnownPass(o, s)
    \/ \E u \in before : FoundOperator(s, u, "ViewOwner")
    \/ PassesCore(s, t, "ViewOwner")

HoldsAll(o, s) == \E g \in {s, Public} : Live(allPerm[o][g]["ViewOwner"], savedBlock)

\* mutant of CountedTokens: a listed token counts though its permission expired
MutCountedTokens(o, s) == UNION {authList[o][g]["ViewOwner"] : g \in {s, Public}}

CountedTokens(o, s) ==
    {t \in UNION {authList[o][g]["ViewOwner"] : g \in {s, Public}} :
        /\ Exists(t)
        /\ \E g \in {s, Public} : Live(tokPerm[t][g]["ViewOwner"], savedBlock)}

NumTokensOfOwner(o, s) ==
    IF KnownPass(o, s) \/ HoldsAll(o, s)
    THEN Cardinality(inventory[o])
    ELSE Cardinality(CountedTokens(o, s))

-----------------------------------------------------------------------------
(* VerifyTransferApproval, NftDossier, BatchNftDossier.                     *)

\* mutant of RemembersFor: an owner that is public for one token is for all
MutRemembersFor(s, t, p) == Passes(s, t, p) /\ s # Owner(t)

\* mutant of RemembersFor: one list of operators for all permission types
MutRemembersAny(s, t, p) == \E q \in PermTypes : FoundOperator(s, t, q)

RemembersFor(s, t, p) == FoundOperator(s, t, p)

\* owners for which s is known as operator before the n-th token of the list
OperFor(s, ids, n, p) ==
    {Owner(idxOf[ids[i]]) :
        i \in {j \in 1 .. n - 1 : Exists(idxOf[ids[j]]) /\ RemembersFor(s, idxOf[ids[j]], p)}}

\* the check of the n-th token of a list, with what is remembered
PassesNth(s, ids, n, p) ==
    LET t == idxOf[ids[n]] IN Owner(t) \in OperFor(s, ids, n, p) \/ PassesCore(s, t, p)

FirstUnapproved(s, ids) ==
    LET bad == {n \in DOMAIN ids : ~(/\ Exists(idxOf[ids[n]])
                                     /\ PassesNth(s, ids, n, "Transfer")
                                     /\ token[idxOf[ids[n]]].transferable)}
    IN  IF bad = {} THEN None ELSE CHOOSE n \in bad : \A m \in bad : n <= m

\* what the dossier of t says of approvals: lists for the owner, flags for all
DossierApprovals(s, t, inclExpired) ==
    [owner_is_public |-> PublicOwnershipExp(t) # None,
     public_ownership_expiration |-> PublicOwnershipExp(t),
     private_metadata_is_public |-> PublicMetadataExp(t) # None,
     private_metadata_is_public_expiration |-> PublicMetadataExp(t),
     token_approvals |-> IF s = Owner(t) THEN Approvals(tokPerm[t], inclExpired) ELSE None,
     inventory_approvals |->
         IF s = Owner(t) THEN Approvals(allPerm[Owner(t)], inclExpired) ELSE None]

\* dossier_list: the n-th element; hide_addr goes with a token's royalties
Dossier(s, ids, n, inclExpired) ==
    LET t == idxOf[ids[n]]
        seesMeta == PassesNth(s, ids, n, "ViewMetadata") /\ unwrapped[t]
    IN  [owner |-> IF OwnershipIsOpen(Owner(t)) \/ PassesNth(s, ids, n, "ViewOwner")
                   THEN Owner(t) ELSE None,
         public_metadata |-> pubMeta[t],
         private_metadata |-> IF seesMeta THEN privMeta[t] ELSE None,
         display_private_metadata_error |-> ~seesMeta,
         hide_addr |-> ~PassesNth(s, ids, n, "Transfer"),
         token_creator |-> creator[t],
         transferable |-> token[t].transferable,
         unwrapped |-> unwrapped[t],
         approvals |-> DossierApprovals(s, t, inclExpired)]

\* an unknown id fails the whole batch
BatchNftDossier(s, ids, inclExpired) ==
    IF \E n \in DOMAIN ids : ~Exists(idxOf[ids[n]]) THEN None
    ELSE [n \in DOMAIN ids |-> Dossier(s, ids, n, inclExpired)]

NftDossier(s, id, inclExpired) ==
    IF Exists(idxOf[id]) THEN BatchNftDossier(s, <<id>>, inclExpired)[1] ELSE None

-----------------------------------------------------------------------------
(* The token supply.                                                        *)

MayViewSupply(s) == SupplyIsPublic \/ s \in minters

NumTokens(s) == IF MayViewSupply(s) THEN tokenCnt ELSE None

\* tokens from index i that have an id, up to the mint counter
Upcoming(i) == {t \in Idx : t >= i /\ t < mintCnt /\ idOf[t] # None}

AllTokensPage(i, limit) ==
    {t \in Upcoming(i) : Cardinality({u \in Upcoming(i) : u <= t}) <= limit}

StartAfter(id) == IF id = None THEN 0 ELSE idxOf[id] + 1

-----------------------------------------------------------------------------
(* Properties.                                                              *)

(***************************************************************************)
(* The number of tokens of an owner is the number that Tokens lists to the *)
(* same querier, whatever the order of the inventory: one is counted from  *)
(* the AuthLists, the other found by checking each token, with ALL         *)
(* permissions remembered.  And whoever may view the supply is told the    *)
(* number of tokens that AllTokens lists, in which, whatever was burned,   *)
(* every token follows the beginning or exactly one other token.           *)
(***************************************************************************)
SupplyAgrees ==
    \A s \in Grantee : MayViewSupply(s) =>
        /\ NumTokens(s) = Cardinality({id \in Ids : Exists(idxOf[id])})
        /\ \A t \in Idx : Exists(t) =>
              Cardinality({after \in {None} \cup {id \in Ids : Exists(idxOf[id])} :
                               AllTokensPage(StartAfter(after), 1) = {t}}) = 1

CountsAgree ==
    /\ SupplyAgrees
    /\ \A o \in Addr, s \in Grantee :
          /\ \A t \in inventory[o] : \A before \in SUBSET (inventory[o] \ {t}) :
                ListsToken(o, s, t, before) <=> Passes(s, t, "ViewOwner")
          /\ NumTokensOfOwner(o, s) =
                Cardinality({t \in inventory[o] : Passes(s, t, "ViewOwner")})

(***************************************************************************)
(* A token's public flags and expirations tell the truth: as long as       *)
(* nothing is approved or revoked, in every block to come a querier        *)
(* without an address sees the owner (passes the check for the private     *)
(* metadata) exactly until the expiration that is shown.  TokenApprovals   *)
(* and InventoryApprovals show them as the dossiers do.                    *)
(***************************************************************************)
PublicFlagsExact ==
    \A t \in Idx : Exists(t) =>
        LET answer == TokenApprovals(t, FALSE)
            ofOwner == InventoryApprovals(Owner(t), FALSE)
        IN
        /\ answer.owner_is_public <=> Passes(Public, t, "ViewOwner")
        /\ answer.private_metadata_is_public <=> PassesCore(Public, t, "ViewMetadata")
        /\ ofOwner.public_ownership_expiration # None => answer.owner_is_public
        /\ \A h \in savedBlock.height .. MaxHeight + 1 :
            LET b == [savedBlock EXCEPT !.height = h]
                Holds(exp) == exp # None /\ ~IsExpired(exp, b)
            IN  /\ CheckPermission(Public, t, "ViewOwner", b) <=>
                      Holds(answer.public_ownership_expiration)
                /\ CheckPermCore(Public, t, "ViewMetadata", b) <=>
                      Holds(answer.private_metadata_is_public_expiration)

(***************************************************************************)
(* OwnerOf shows the owner every other address that passes the transfer    *)
(* check, and no one else, each once: as spender or as operator.  And the  *)
(* approvals of token and inventory together name every address that       *)
(* passes a check otherwise than by what everybody may.                    *)
(***************************************************************************)
OwnerSeesApprovals ==
    \A t \in Idx : Exists(t) =>
        LET answer == OwnerOf(Owner(t), t, FALSE) IN
        /\ answer.owner = Owner(t)
        /\ answer.spenders \cap answer.operators = {}
        /\ answer.operators = ApprovedForAll(Owner(t), FALSE)
        /\ \A a \in Addr \ {Owner(t)}, p \in PermTypes :
              (PassesCore(a, t, p) /\ ~PassesCore(Public, t, p)) =>
                  \E entry \in TokenApprovals(t, FALSE).token_approvals
                              \cup InventoryApprovals(Owner(t), FALSE).inventory_approvals :
                      entry.address = a /\ entry.expirations[p] # None
        /\ \A a \in Addr \ {Owner(t)} :
              a \in answer.spenders \cup answer.operators <=> PassesCore(a, t, "Transfer")

(***************************************************************************)
(* VerifyTransferApproval says yes to a list exactly if a TransferNft of   *)
(* each of its tokens would be allowed in the saved block, and otherwise   *)
(* names the first that would not: what it remembers of earlier tokens     *)
(* lets no other token pass.                                               *)
(***************************************************************************)
VerifyIsExact ==
    \A s \in Addr, ids \in Lists :
        LET Movable(n) ==
                LET t == idxOf[ids[n]] IN
                Exists(t) /\ MayAccess(s, t, "Transfer", savedBlock) /\ token[t].transferable
            first == FirstUnapproved(s, ids)
        IN  IF first = None THEN \A n \in DOMAIN ids : Movable(n)
            ELSE ~Movable(first) /\ \A n \in 1 .. first - 1 : Movable(n)

(***************************************************************************)
(* BatchNftDossier shows of each token what NftDossier shows of it alone,  *)
(* and what the queries for its owner and metadata show; the addresses in  *)
(* its royalties go to who may transfer it.  The operators it remembers    *)
(* for owner, metadata and transfers are kept apart.                       *)
(***************************************************************************)
BatchIsSingle ==
    \A s \in Grantee, ids \in Lists :
        LET batch == BatchNftDossier(s, ids, FALSE) IN
        batch # None => \A n \in DOMAIN ids :
            LET t == idxOf[ids[n]] IN
            /\ batch[n] = NftDossier(s, ids[n], FALSE)
            /\ batch[n].owner = OwnerOf(s, t, FALSE).owner
            /\ batch[n].public_metadata = NftInfo(ids[n])
            /\ batch[n].private_metadata = PrivateMetadata(s, t)
            /\ batch[n].hide_addr <=> ~PassesCore(s, t, "Transfer")
=============================================================================

---------------------------- MODULE Snip721Proofs ----------------------------
(***************************************************************************)
(* Proofs about the token ledger: for any number of addresses, ids, tokens *)
(* and blocks, and any inputs.                                             *)
(***************************************************************************)
EXTENDS Snip721, FiniteSetTheorems, TLAPS

PermMap == [Grantee -> [PermTypes -> PermSet]]
AuthMap == [Grantee -> [PermTypes -> SUBSET Idx]]
TokenInfo == [owner : Addr, transferable : BOOLEAN]

\* No permission is a permission map.
LEMMA GrantTypes ==
    /\ NoPerms \in [PermTypes -> PermSet]
    /\ NoGrants \in PermMap
BY DEF NoPerms, NoGrants, PermMap, PermSet

\* A token that exists has an owner.
LEMMA OwnerType ==
    ASSUME TypeOK, NEW t, Exists(t)
    PROVE  t \in Idx /\ token[t] \in TokenInfo /\ Owner(t) \in Addr
BY DEF TypeOK, Exists, Owner, TokenInfo

\* The contract starts with values of the right kinds.
LEMMA InitType == SnipInit => TypeOK
<1> SUFFICES ASSUME SnipInit PROVE TypeOK
    OBVIOUS
<1>1. tokPerm \in [Idx -> PermMap] /\ allPerm \in [Addr -> PermMap]
    BY GrantTypes DEF SnipInit
<1>2. authList \in [Addr -> AuthMap]
    BY DEF SnipInit, AuthMap
<1>3. block \in BlockInfo /\ savedBlock \in BlockInfo
    BY DEF SnipInit, BlockInfo
<1> QED
    BY <1>1, <1>2, <1>3, SnipAssumption
    DEF SnipInit, TypeOK, PermMap, AuthMap, Normal, StopAll

\* The AuthLists of an owner who loses a token stay lists of tokens.
LEMMA DropTokenType ==
    ASSUME TypeOK, NEW o \in Addr, NEW t
    PROVE  DropToken(o, t) \in [Addr -> AuthMap]
<1>1. \A g \in Grantee, p \in PermTypes : authList[o][g][p] \ {t} \in SUBSET Idx
    BY DEF TypeOK
<1>2. [g \in Grantee |-> [p \in PermTypes |-> authList[o][g][p] \ {t}]] \in AuthMap
    BY <1>1 DEF AuthMap
<1> QED
    BY <1>2 DEF DropToken, TypeOK, AuthMap

\* Minting, for a minter who stays below the limit, keeps the types.
LEMMA MintType ==
    ASSUME TypeOK, NEW s \in Addr, NEW id \in Ids, NEW new \in MintChoices,
           BelowLimit, MintEffect(s, id, new)
    PROVE  TypeOK'
<1>1. mintCnt \in Idx /\ mintCnt + 1 \in 0 .. MaxU32 /\ tokenCnt + 1 \in 0 .. MaxU32
    BY SnipAssumption DEF TypeOK, BelowLimit, Idx
<1>2. new \in TokenInfo
    BY SnipAssumption DEF TokenInfo
<1>3. mintCnt' \in 0 .. MaxU32 /\ tokenCnt' \in 0 .. MaxU32
    BY <1>1 DEF MintEffect
<1>4. /\ idxOf' \in [Ids -> Idx \cup {None}]
      /\ idOf' \in [Idx -> Ids \cup {None}]
      /\ token' \in [Idx -> TokenInfo \cup {None}]
      /\ creator' \in [Idx -> Addr \cup {None}]
    BY <1>1, <1>2 DEF MintEffect, NextIdx, TypeOK, TokenInfo
<1>5. inventory' \in [Addr -> SUBSET Idx]
    BY <1>1, <1>2 DEF MintEffect, NextIdx, TypeOK, TokenInfo
<1>6. tokPerm' \in [Idx -> PermMap]
    BY <1>1, GrantTypes DEF MintEffect, NextIdx, TypeOK, PermMap
<1> QED
    BY <1>3, <1>4, <1>5, <1>6
    DEF MintEffect, TypeOK, configVars, Handled, TokenInfo, PermMap

\* Transferring a token keeps the types.
LEMMA TransferType ==
    ASSUME TypeOK, NEW t, Exists(t), NEW to \in Addr, TransferEffect(t, to),
           block' \in BlockInfo, savedBlock' \in BlockInfo
    PROVE  TypeOK'
<1>1. t \in Idx /\ token[t] \in TokenInfo /\ Owner(t) \in Addr
    BY OwnerType
<1>2. token' \in [Idx -> TokenInfo \cup {None}]
    BY <1>1 DEF TransferEffect, TypeOK, TokenInfo
<1>3. inventory' \in [Addr -> SUBSET Idx]
    BY <1>1 DEF TransferEffect, MovedInventory, TypeOK
<1>4. tokPerm' \in [Idx -> PermMap]
    BY <1>1, GrantTypes DEF TransferEffect, MovedPerms, TypeOK, PermMap
<1>5. authList' \in [Addr -> AuthMap]
    BY <1>1, DropTokenType DEF TransferEffect
<1> QED
    BY <1>2, <1>3, <1>4, <1>5
    DEF TransferEffect, TypeOK, configVars, TokenInfo, PermMap, AuthMap

\* Burning a token keeps the types.
LEMMA BurnType ==
    ASSUME TypeOK, NEW id \in Ids, NEW t, Exists(t), BurnEffect(t, id),
           block' \in BlockInfo, savedBlock' \in BlockInfo
    PROVE  TypeOK'
<1>1. t \in Idx /\ Owner(t) \in Addr
    BY OwnerType
<1>2. tokenCnt' \in 0 .. MaxU32
    BY SnipAssumption DEF BurnEffect, BurnedCount, TypeOK
<1>3. /\ idxOf' \in [Ids -> Idx \cup {None}]
      /\ idOf' \in [Idx -> Ids \cup {None}]
      /\ token' \in [Idx -> TokenInfo \cup {None}]
      /\ creator' \in [Idx -> Addr \cup {None}]
    BY <1>1 DEF BurnEffect, BurnedIds, TypeOK, TokenInfo
<1>4. inventory' \in [Addr -> SUBSET Idx]
    BY <1>1 DEF BurnEffect, TypeOK
<1>5. tokPerm' \in [Idx -> PermMap]
    BY <1>1, GrantTypes DEF BurnEffect, TypeOK, PermMap
<1>6. authList' \in [Addr -> AuthMap]
    BY <1>1, DropTokenType DEF BurnEffect
<1> QED
    BY <1>2, <1>3, <1>4, <1>5, <1>6
    DEF BurnEffect, TypeOK, configVars, TokenInfo, PermMap, AuthMap

\* The tokens loaded by process_accesses are tokens.
LEMMA LoadListType ==
    ASSUME TypeOK, NEW o \in Addr, NEW g \in Grantee, NEW x,
           NEW acc, NEW e, NEW oper
    PROVE  LoadList(o, g, x, acc, e, oper) \subseteq Idx
<1>1. inventory[o] \subseteq Idx
    BY DEF TypeOK
<1>2. \A p \in PermTypes : authList[o][g][p] \subseteq Idx
    BY DEF TypeOK
<1> QED
    BY <1>1, <1>2 DEF LoadList

\* A permission process_accesses leaves on a token or on all is a permission.
LEMMA NewPermType ==
    ASSUME TypeOK, NEW o \in Addr, NEW g \in Grantee, NEW x, NEW acc,
           NEW e \in Expirations, NEW oper, NEW t \in Idx, NEW p \in PermTypes
    PROVE  /\ NewAll(o, g, acc, p, e, oper) \in PermSet
           /\ NewTokPerm(o, g, x, acc, e, oper, t, p) \in PermSet
<1>1. /\ allPerm[o][g][p] \in PermSet /\ tokPerm[t][g][p] \in PermSet
      /\ e \in PermSet /\ None \in PermSet
    BY DEF TypeOK, PermSet
<1> QED
    BY <1>1 DEF NewAll, NewTokPerm, NewNamed, NewLoaded

\* An AuthList process_accesses leaves is a set of tokens.
LEMMA NewAuthType ==
    ASSUME TypeOK, NEW o \in Addr, NEW g \in Grantee, NEW x, NEW acc, NEW e,
           NEW oper, NEW p \in PermTypes, x \in Idx \/ ~OneToken(acc, p)
    PROVE  NewAuth(o, g, x, acc, p, e, oper) \in SUBSET Idx
<1>1. authList[o][g][p] \subseteq Idx
    BY DEF TypeOK
<1>2. LoadList(o, g, x, acc, e, oper) \subseteq Idx
    BY LoadListType
<1>3. acc[p] = "ApproveToken" => x \in Idx
    BY DEF OneToken
<1> QED
    BY <1>1, <1>2, <1>3 DEF NewAuth

\* Changing approvals keeps the types.
LEMMA ProcessAccessesType ==
    ASSUME TypeOK, NEW o \in Addr, NEW g \in Grantee, NEW x \in Idx \cup {None},
           NEW acc, NEW e \in Expirations, NEW oper,
           ProcessAccesses(o, g, x, acc, e, oper),
           block' \in BlockInfo, savedBlock' \in BlockInfo
    PROVE  TypeOK'
<1>1. allPerm' \in [Addr -> PermMap]
    <2>1. \A p \in PermTypes : NewAll(o, g, acc, p, e, oper) \in PermSet
        <3> SUFFICES ASSUME NEW p \in PermTypes
                     PROVE  NewAll(o, g, acc, p, e, oper) \in PermSet
            OBVIOUS
        <3>1. allPerm[o][g][p] \in PermSet /\ e \in PermSet /\ None \in PermSet
            BY DEF TypeOK, PermSet
        <3> QED
            BY <3>1 DEF NewAll
    <2>2. [h \in Grantee |-> IF h # g THEN allPerm[o][h]
             ELSE [p \in PermTypes |-> NewAll(o, g, acc, p, e, oper)]] \in PermMap
        BY <2>1 DEF PermMap, TypeOK
    <2> QED
        BY <2>2 DEF ProcessAccesses, TypeOK, PermMap
<1>2. tokPerm' \in [Idx -> PermMap]
    <2>1. \A t \in Idx, p \in PermTypes :
              NewTokPerm(o, g, x, acc, e, oper, t, p) \in PermSet
        BY NewPermType
    <2>2. \A t \in Idx :
              [h \in Grantee |-> IF h # g THEN tokPerm[t][h]
                 ELSE [p \in PermTypes |-> NewTokPerm(o, g, x, acc, e, oper, t, p)]]
                    \in PermMap
        BY <2>1 DEF PermMap, TypeOK
    <2> QED
        BY <2>2 DEF ProcessAccesses
<1>3. authList' \in [Addr -> AuthMap]
    <2>1. \A p \in PermTypes : NewAuth(o, g, x, acc, p, e, oper) \in SUBSET Idx
        BY NewAuthType DEF ProcessAccesses
    <2>2. [h \in Grantee |-> IF h # g THEN authList[o][h]
             ELSE [p \in PermTypes |-> NewAuth(o, g, x, acc, p, e, oper)]] \in AuthMap
        BY <2>1 DEF AuthMap, TypeOK
    <2> QED
        BY <2>2 DEF ProcessAccesses, TypeOK, AuthMap
<1> QED
    BY <1>1, <1>2, <1>3
    DEF ProcessAccesses, TypeOK, configVars, ledgerVars, PermMap, AuthMap

\* Storing the block for the queries keeps both blocks blocks.
LEMMA HandledType == TypeOK /\ Handled => block' \in BlockInfo /\ savedBlock' \in BlockInfo
BY DEF TypeOK, Handled

\* The token a message names is a token, if there is one.
LEMMA NamedTokenType ==
    ASSUME TypeOK, NEW id \in MaybeId
    PROVE  NamedToken(id) \in Idx \cup {None}
BY DEF TypeOK, MaybeId, NamedToken

\* An approval message keeps the types.
LEMMA ApprovalType == TypeOK /\ ApprovalNext => TypeOK'
<1> SUFFICES ASSUME TypeOK, ApprovalNext PROVE TypeOK'
    OBVIOUS
<1>1. ASSUME NEW s, NEW g \in Granted, NEW id \in Ids, NEW e \in Expirations, NEW level,
             ApproveRevoke(s, g, id, e, level)
      PROVE  TypeOK'
    <2>1. idxOf[id] \in Idx /\ Owner(idxOf[id]) \in Addr
        BY <1>1, OwnerType DEF ApproveRevoke
    <2>2. g \in Grantee
        BY SnipAssumption DEF Grantee
    <2>3. block' \in BlockInfo /\ savedBlock' \in BlockInfo
        BY <1>1, HandledType DEF ApproveRevoke
    <2> QED
        BY <1>1, <2>1, <2>2, <2>3, ProcessAccessesType DEF ApproveRevoke
<1>2. ASSUME NEW s \in Granters, NEW id \in MaybeId, NEW acc, NEW e \in Expirations,
             NEW g \in Granted, SetWhitelistedApproval(s, g, id, acc, e)
      PROVE  TypeOK'
    <2>1. g \in Grantee /\ s \in Addr
        BY SnipAssumption DEF Grantee
    <2>2. block' \in BlockInfo /\ savedBlock' \in BlockInfo
        BY <1>2, HandledType DEF SetWhitelistedApproval
    <2> QED
        BY <1>2, <2>1, <2>2, NamedTokenType, ProcessAccessesType DEF SetWhitelistedApproval
<1>3. ASSUME NEW s \in Granters, NEW id \in MaybeId, NEW acc, NEW e \in Expirations,
             SetGlobalApproval(s, id, acc, e)
      PROVE  TypeOK'
    <2>1. Public \in Grantee /\ s \in Addr
        BY SnipAssumption DEF Grantee
    <2>2. block' \in BlockInfo /\ savedBlock' \in BlockInfo
        BY <1>3, HandledType DEF SetGlobalApproval
    <2> QED
        BY <1>3, <2>1, <2>2, NamedTokenType, ProcessAccessesType DEF SetGlobalApproval
<1>4. ASSUME NEW s \in Granters, MakeOwnershipPrivate(s)
      PROVE  TypeOK'
    <2>1. ownerPriv' \subseteq Addr
        BY <1>4, SnipAssumption DEF MakeOwnershipPrivate, TypeOK
    <2> QED
        BY <1>4, <2>1, HandledType
        DEF MakeOwnershipPrivate, TypeOK, configVars, ledgerVars, permVars
<1>5. Never \in Expirations
    BY SnipAssumption
<1> QED
    BY <1>1, <1>2, <1>3, <1>4, <1>5 DEF ApprovalNext, Approve, Revoke

\* An administration message keeps the types.
LEMMA AdminType == TypeOK /\ AdminNext => TypeOK'
<1> SUFFICES ASSUME TypeOK, AdminNext PROVE TypeOK'
    OBVIOUS
<1> DEFINE Choices == Admins \subseteq Addr /\ (\A some \in MinterSets : some \subseteq Addr)
                      /\ Statuses \subseteq Normal .. StopAll
<1>1. Choices
    BY SnipAssumption DEF Normal, StopAll
<1>2. status \in Normal .. StopAll /\ admin \in Addr /\ minters \subseteq Addr
    BY DEF TypeOK
<1>3. status' \in Normal .. StopAll /\ admin' \in Addr /\ minters' \subseteq Addr
    BY <1>1, <1>2
    DEF AdminNext, AddMinters, RemoveMinters, SetMinters, ChangeAdmin, SetContractStatus
<1>4. UNCHANGED <<ledgerVars, permVars, ownerPriv>> /\ Handled
    BY DEF AdminNext, AddMinters, RemoveMinters, SetMinters, ChangeAdmin,
        SetContractStatus, AdminVarsOnly
<1> QED
    BY <1>3, <1>4, HandledType DEF TypeOK, ledgerVars, permVars

\* A message that mints, moves or burns a token keeps the types.
LEMMA LedgerType == TypeOK /\ LedgerNext => TypeOK'
<1> SUFFICES ASSUME TypeOK, LedgerNext PROVE TypeOK'
    OBVIOUS
<1>1. ASSUME NEW s \in Addr, NEW given \in MintIds, NEW new \in MintChoices,
             Mint(s, given, new)
      PROVE  TypeOK'
    <2>1. MintId(given) \in Ids
        BY <1>1, SnipAssumption DEF Mint, BelowLimit, MintId, TypeOK, Idx
    <2> QED
        BY <1>1, <2>1, MintType DEF Mint
<1>2. ASSUME NEW s \in Addr, NEW id \in Ids, NEW to \in Addr, TransferNft(s, id, to)
      PROVE  TypeOK'
    BY <1>2, TransferType, HandledType DEF TransferNft
<1>3. ASSUME NEW s \in Addr, NEW id \in Ids, BurnNft(s, id)
      PROVE  TypeOK'
    BY <1>3, BurnType, HandledType DEF BurnNft
<1> QED
    BY <1>1, <1>2, <1>3 DEF LedgerNext

\* Every step of the ledger keeps the types.
LEMMA NextType == TypeOK /\ [SnipNext]_snipVars => TypeOK'
<1> SUFFICES ASSUME TypeOK, [SnipNext]_snipVars PROVE TypeOK'
    OBVIOUS
<1>1. CASE NewBlock
    <2>1. \A passed \in 0 .. MaxTime - block.time : block.time + passed \in Nat
        BY SnipAssumption DEF TypeOK, BlockInfo
    <2>2. block' \in BlockInfo
        BY <1>1, <2>1 DEF NewBlock, TypeOK, BlockInfo
    <2> QED
        BY <1>1, <2>2 DEF NewBlock, TypeOK, configVars, ledgerVars, permVars
<1>2. CASE UNCHANGED snipVars
    BY <1>2 DEF snipVars, configVars, ledgerVars, permVars, TypeOK
<1> QED
    BY <1>1, <1>2, LedgerType, ApprovalType, AdminType DEF SnipNext

(***************************************************************************)
(* Whatever the messages, every stored value keeps its kind; in particular *)
(* both counters stay within u32 and indices stay below the mint counter's *)
(* limit.                                                                  *)
(***************************************************************************)
THEOREM TypeCorrect == SnipSpec => []TypeOK
BY InitType, NextType, PTL DEF SnipSpec

-----------------------------------------------------------------------------
(* The ledger's safety invariants, proved together: each of them needs others *)
(* of them to hold before the step.                                          *)

\* IInv is the inductive invariant.
IInv ==
    /\ TypeOK
    /\ IdsExact
    /\ InventoryExact
    /\ AuthListExact
    /\ NoDoubleGrant

\* The contract starts without tokens.
LEMMA InitInv == SnipInit => IInv
<1> SUFFICES ASSUME SnipInit PROVE IInv
    OBVIOUS
<1>1. TypeOK
    BY InitType
<1>2. IdsExact
    BY SnipAssumption DEF SnipInit, IdsExact, Exists
<1>3. InventoryExact
    BY DEF SnipInit, InventoryExact, Exists
<1>4. AuthListExact /\ NoDoubleGrant
    BY DEF SnipInit, AuthListExact, NoDoubleGrant, Exists
<1> QED
    BY <1>1, <1>2, <1>3, <1>4 DEF IInv

\* What a mint leaves: a fresh index with a fresh id.
LEMMA MintInv ==
    ASSUME IInv, NEW s \in Addr, NEW id \in Ids, NEW new \in MintChoices,
           NEW n, n = mintCnt, BelowLimit, MayMint(s, id), MintEffect(s, id, new)
    PROVE  IInv'
<1>1. TypeOK'
    BY MintType DEF IInv
<1>2. /\ n \in Idx /\ ~Exists(n) /\ idOf[n] = None
      /\ idxOf[id] = None /\ new \in TokenInfo /\ s \in Addr
    BY SnipAssumption
    DEF IInv, TypeOK, IdsExact, BelowLimit, MayMint, Idx, TokenInfo, Exists
<1>3. \A t \in Idx : /\ t # n => (Exists(t)' <=> Exists(t)) /\ token'[t] = token[t]
                     /\ token'[n] = new /\ Exists(n)'
    BY <1>2, SnipAssumption DEF MintEffect, NextIdx, Exists, IInv, TypeOK, TokenInfo
<1>4. IdsExact'
    <2>1. \A i \in Ids : idxOf'[i] = IF i = id THEN n ELSE idxOf[i]
        BY <1>2 DEF MintEffect, NextIdx, IInv, TypeOK
    <2>2. \A t \in Idx : /\ idOf'[t] = IF t = n THEN id ELSE idOf[t]
                         /\ creator'[t] = IF t = n THEN s ELSE creator[t]
        BY <1>2 DEF MintEffect, NextIdx, IInv, TypeOK
    <2>3. \A t \in Idx : /\ Exists(t)' <=> idOf'[t] # None
                         /\ Exists(t)' <=> creator'[t] # None
        BY <1>2, <1>3, <2>2, SnipAssumption DEF IInv, IdsExact
    <2>4. \A t \in Idx : t = n \/ t < n => t < mintCnt + 1
        BY <1>2, SnipAssumption DEF Idx
    <2>5. \A t \in Idx : Exists(t)' => t < mintCnt'
        BY <1>3, <2>4 DEF MintEffect, IInv, IdsExact
    <2>6. \A i \in Ids, t \in Idx : idxOf'[i] = t <=> idOf'[t] = i
        BY <1>2, <2>1, <2>2, SnipAssumption DEF IInv, IdsExact
    <2> QED
        BY <2>3, <2>5, <2>6 DEF IdsExact
<1>5. InventoryExact'
    <2>1. \A a \in Addr, t \in Idx :
              t \in inventory'[a] <=> t \in inventory[a] \/ (t = n /\ a = new.owner)
        BY <1>2 DEF MintEffect, NextIdx, IInv, TypeOK, TokenInfo
    <2>2. \A t \in Idx : Owner(t)' = IF t = n THEN new.owner ELSE Owner(t)
        BY <1>3 DEF Owner
    <2> QED
        BY <1>2, <1>3, <2>1, <2>2 DEF IInv, InventoryExact
<1>6. AuthListExact' /\ NoDoubleGrant'
    <2>1. \A t \in Idx, g \in Grantee, p \in PermTypes :
              tokPerm'[t][g][p] = IF t = n THEN None ELSE tokPerm[t][g][p]
        BY <1>2 DEF MintEffect, NextIdx, IInv, TypeOK, NoGrants, NoPerms
    <2>2. \A t \in Idx : t # n => Owner(t)' = Owner(t)
        BY <1>3 DEF Owner
    <2>3. authList' = authList /\ allPerm' = allPerm
        BY DEF MintEffect
    <2> QED
        BY <1>2, <1>3, <2>1, <2>2, <2>3 DEF IInv, AuthListExact, NoDoubleGrant
<1> QED
    BY <1>1, <1>4, <1>5, <1>6 DEF IInv

\* What losing a token does to the AuthLists, entry by entry.
LEMMA DropTokenEntries ==
    ASSUME TypeOK, NEW o \in Addr, NEW t,
           NEW a \in Addr, NEW g \in Grantee, NEW p \in PermTypes
    PROVE  \A u : u \in DropToken(o, t)[a][g][p] <=>
                      u \in authList[a][g][p] /\ ~(u = t /\ a = o)
BY DEF DropToken, TypeOK

\* A transferred token leaves its permissions and list entries behind.
LEMMA TransferInv ==
    ASSUME IInv, NEW n, Exists(n), NEW to \in Addr, Owner(n) # to,
           TransferEffect(n, to), block' \in BlockInfo, savedBlock' \in BlockInfo
    PROVE  IInv'
<1>1. TypeOK'
    BY TransferType DEF IInv
<1>2. n \in Idx /\ token[n] \in TokenInfo /\ Owner(n) \in Addr
    BY OwnerType DEF IInv
<1>3. \A t \in Idx : /\ Exists(t)' <=> Exists(t)
                     /\ Owner(t)' = IF t = n THEN to ELSE Owner(t)
    BY <1>2, SnipAssumption DEF TransferEffect, Exists, Owner, IInv, TypeOK, TokenInfo
<1>4. IdsExact'
    BY <1>3 DEF TransferEffect, IInv, IdsExact
<1>5. InventoryExact'
    <2>1. \A a \in Addr, t \in Idx :
              t \in inventory'[a] <=> \/ t \in inventory[a] /\ ~(t = n /\ a = Owner(n))
                                      \/ t = n /\ a = to
        BY <1>2 DEF TransferEffect, MovedInventory, IInv, TypeOK
    <2> QED
        BY <1>2, <1>3, <2>1 DEF IInv, InventoryExact
<1>6. \A t \in Idx, g \in Grantee, p \in PermTypes :
          tokPerm'[t][g][p] = IF t = n THEN None ELSE tokPerm[t][g][p]
    BY <1>2 DEF TransferEffect, MovedPerms, IInv, TypeOK, NoGrants, NoPerms
<1>7. AuthListExact'
    <2>1. \A a \in Addr, g \in Grantee, p \in PermTypes, t \in Idx :
              t \in authList'[a][g][p] <=>
                  t \in authList[a][g][p] /\ ~(t = n /\ a = Owner(n))
        <3>1. \A a \in Addr, g \in Grantee, p \in PermTypes : \A u :
                  u \in DropToken(Owner(n), n)[a][g][p] <=>
                      u \in authList[a][g][p] /\ ~(u = n /\ a = Owner(n))
            BY <1>2, DropTokenEntries DEF IInv
        <3>2. authList' = DropToken(Owner(n), n)
            BY DEF TransferEffect
        <3> QED
            BY <3>1, <3>2
    <2> QED
        BY <1>2, <1>3, <1>6, <2>1 DEF IInv, AuthListExact
<1>8. NoDoubleGrant'
    BY <1>3, <1>6 DEF TransferEffect, IInv, NoDoubleGrant
<1> QED
    BY <1>1, <1>4, <1>5, <1>7, <1>8 DEF IInv

\* A burned token is gone from the maps, the inventory and the lists.
LEMMA BurnInv ==
    ASSUME IInv, NEW id \in Ids, NEW n, n = idxOf[id], Exists(n),
           BurnEffect(n, id), block' \in BlockInfo, savedBlock' \in BlockInfo
    PROVE  IInv'
<1>1. TypeOK'
    BY BurnType DEF IInv
<1>2. n \in Idx /\ Owner(n) \in Addr
    BY OwnerType DEF IInv
<1>3. \A t \in Idx : /\ Exists(t)' <=> Exists(t) /\ t # n
                     /\ t # n => Owner(t)' = Owner(t)
    BY <1>2 DEF BurnEffect, Exists, Owner, IInv, TypeOK
<1>4. IdsExact'
    <2>1. \A i \in Ids, t \in Idx : idxOf'[i] = t <=> idOf'[t] = i
        BY <1>2, SnipAssumption DEF BurnEffect, BurnedIds, IInv, TypeOK, IdsExact
    <2>2. \A t \in Idx : /\ Exists(t)' <=> idOf'[t] # None
                         /\ Exists(t)' <=> creator'[t] # None
                         /\ Exists(t)' => t < mintCnt'
        BY <1>2, <1>3 DEF BurnEffect, IInv, TypeOK, IdsExact
    <2> QED
        BY <2>1, <2>2 DEF IdsExact
<1>5. InventoryExact'
    <2>1. \A a \in Addr, t \in Idx :
              t \in inventory'[a] <=> t \in inventory[a] /\ ~(t = n /\ a = Owner(n))
        BY <1>2 DEF BurnEffect, IInv, TypeOK
    <2> QED
        BY <1>2, <1>3, <2>1 DEF IInv, InventoryExact
<1>6. \A t \in Idx, g \in Grantee, p \in PermTypes :
          tokPerm'[t][g][p] = IF t = n THEN None ELSE tokPerm[t][g][p]
    BY <1>2 DEF BurnEffect, IInv, TypeOK, NoGrants, NoPerms
<1>7. AuthListExact'
    <2>1. \A a \in Addr, g \in Grantee, p \in PermTypes, t \in Idx :
              t \in authList'[a][g][p] <=>
                  t \in authList[a][g][p] /\ ~(t = n /\ a = Owner(n))
        <3>1. \A a \in Addr, g \in Grantee, p \in PermTypes : \A u :
                  u \in DropToken(Owner(n), n)[a][g][p] <=>
                      u \in authList[a][g][p] /\ ~(u = n /\ a = Owner(n))
            BY <1>2, DropTokenEntries DEF IInv
        <3>2. authList' = DropToken(Owner(n), n)
            BY DEF BurnEffect
        <3> QED
            BY <3>1, <3>2
    <2> QED
        BY <1>2, <1>3, <1>6, <2>1 DEF IInv, AuthListExact
<1>8. NoDoubleGrant'
    BY <1>3, <1>6 DEF BurnEffect, IInv, NoDoubleGrant
<1> QED
    BY <1>1, <1>4, <1>5, <1>7, <1>8 DEF IInv

(***************************************************************************)
(* What process_accesses leaves for a token of the owner and a permission  *)
(* type: all tokens are treated alike, or a live ALL is handed down to the *)
(* tokens the message does not name, or only the named token changes and   *)
(* no live ALL is lost, or nothing changes.                                *)
(***************************************************************************)
LEMMA AccessesCases ==
    ASSUME IInv, NEW o \in Addr, NEW g \in Grantee, NEW x \in Idx \cup {None},
           NEW acc, NEW e, NEW oper, NEW p \in PermTypes,
           NEW t \in Idx, Exists(t), Owner(t) = o
    PROVE  LET all == allPerm[o][g][p]
               kept == tokPerm[t][g][p]
               named == IF acc[p] = "ApproveToken" THEN e ELSE None
               perm == NewTokPerm(o, g, x, acc, e, oper, t, p)
               new == NewAll(o, g, acc, p, e, oper)
               auth == NewAuth(o, g, x, acc, p, e, oper)
           IN
           \/ /\ Wholesale(acc, p) /\ perm = None /\ t \notin auth
              /\ new = IF acc[p] = "All" THEN e ELSE None
           \/ /\ OneToken(acc, p) /\ HasLiveAll(o, g, p) /\ new = None
              /\ perm = IF t = x THEN named ELSE all
              /\ t \in auth <=> t # x \/ acc[p] = "ApproveToken"
           \/ /\ OneToken(acc, p) /\ ~HasLiveAll(o, g, p) /\ new = None
              /\ perm = IF t = x THEN named ELSE kept
              /\ t \in auth <=> IF t = x THEN acc[p] = "ApproveToken" ELSE kept # None
           \/ /\ ~Wholesale(acc, p) /\ acc[p] # "RevokeToken"
              /\ acc[p] = "ApproveToken" => HasLiveAll(o, g, p)
              /\ new = all /\ perm = kept /\ (t \in auth <=> kept # None)
<1> DEFINE all == allPerm[o][g][p]
           kept == tokPerm[t][g][p]
           named == IF acc[p] = "ApproveToken" THEN e ELSE None
           perm == NewTokPerm(o, g, x, acc, e, oper, t, p)
           new == NewAll(o, g, acc, p, e, oper)
           auth == NewAuth(o, g, x, acc, p, e, oper)
           load == LoadList(o, g, x, acc, e, oper)
           list == authList[o][g][p]
<1>1. /\ t \in inventory[o]
      /\ t \in list <=> kept # None
    BY DEF IInv, InventoryExact, AuthListExact
<1>2. CASE Wholesale(acc, p)
    <2>1. t # x /\ t \notin load => kept = None
        <3> DEFINE expanding == \E q \in PermTypes : Expands(o, g, acc, q, e, oper)
        <3>1. expanding /\ t # x => t \in load
            BY <1>1 DEF LoadList
        <3> DEFINE lists == {authList[o][g][q] : q \in {r \in PermTypes : Wholesale(acc, r)}}
        <3>2. list \in lists
            BY <1>2
        <3>3. t \in list => t \in UNION lists
            BY <3>2, Zenon
        <3>4. ~expanding => load = (UNION lists) \ {x}
            BY Zenon DEF LoadList
        <3> HIDE DEF lists, load
        <3> QED
            BY <1>1, <3>1, <3>3, <3>4
    <2>2. perm = None
        BY <1>2, <2>1 DEF NewTokPerm, NewNamed, NewLoaded
    <2>3. auth = {}
        BY <1>2 DEF NewAuth
    <2>4. ~Alters(o, g, acc, p, e, oper) /\ ~Expands(o, g, acc, p, e, oper)
        BY <1>2 DEF Alters, Expands, OneToken, Wholesale
    <2> QED
        BY <1>2, <2>2, <2>3, <2>4 DEF NewAll, Wholesale
<1>3. CASE Expands(o, g, acc, p, e, oper)
    <2>1. /\ Alters(o, g, acc, p, e, oper) /\ ~Wholesale(acc, p)
          /\ OneToken(acc, p) /\ HasLiveAll(o, g, p)
        BY <1>3 DEF Expands, Alters, OneToken, Wholesale
    <2>2. load = inventory[o] \ {x}
        BY <1>3 DEF LoadList
    <2>3. new = None
        BY <2>1 DEF NewAll, Wholesale, OneToken
    <2>4. auth = IF acc[p] = "ApproveToken" THEN load \cup {x} ELSE load
        BY <1>3, <2>1 DEF NewAuth
    <2>5. perm = IF t = x THEN named ELSE all
        BY <1>1, <1>3, <2>1, <2>2 DEF NewTokPerm, NewNamed, NewLoaded, OneToken
    <2> QED
        BY <1>1, <2>1, <2>2, <2>3, <2>4, <2>5
<1>4. CASE Alters(o, g, acc, p, e, oper) /\ ~Expands(o, g, acc, p, e, oper)
    <2>1. ~Wholesale(acc, p) /\ OneToken(acc, p) /\ ~HasLiveAll(o, g, p)
        BY <1>4 DEF Alters, Expands, OneToken, Wholesale
    <2>2. new = None
        BY <1>4, <2>1 DEF NewAll, Wholesale
    <2>3. auth = IF acc[p] = "ApproveToken" THEN (list \ {x}) \cup {x} ELSE list \ {x}
        BY <1>4, <2>1 DEF NewAuth
    <2>4. perm = IF t = x THEN named ELSE kept
        BY <1>4, <2>1 DEF NewTokPerm, NewNamed, NewLoaded, OneToken
    <2> QED
        BY <1>1, <2>1, <2>2, <2>3, <2>4
<1>5. CASE ~Wholesale(acc, p) /\ ~Alters(o, g, acc, p, e, oper)
    <2>1. /\ ~Expands(o, g, acc, p, e, oper)
          /\ acc[p] # "RevokeToken" /\ acc[p] # "All" /\ acc[p] # "None"
          /\ acc[p] = "ApproveToken" => HasLiveAll(o, g, p)
        BY <1>5 DEF Expands, Alters, Skips, OneToken, Wholesale
    <2>2. new = all
        BY <1>5, <2>1 DEF NewAll
    <2>3. auth = list
        BY <1>5, <2>1 DEF NewAuth
    <2>4. perm = kept
        BY <1>5, <2>1 DEF NewTokPerm, NewNamed, NewLoaded
    <2> QED
        BY <1>1, <1>5, <2>1, <2>2, <2>3, <2>4
<1> QED
    BY <1>2, <1>3, <1>4, <1>5

(***************************************************************************)
(* The heart of process_accesses: the new AuthList lists a token of the    *)
(* owner exactly if it is left with a permission, and then the grantee is  *)
(* left without ALL.                                                       *)
(***************************************************************************)
LEMMA AccessesExact ==
    ASSUME IInv, NEW o \in Addr, NEW g \in Grantee, NEW x \in Idx \cup {None},
           NEW acc, NEW e \in Expirations, NEW oper, NEW p \in PermTypes,
           NEW t \in Idx, Exists(t), Owner(t) = o
    PROVE  /\ t \in NewAuth(o, g, x, acc, p, e, oper)
                 <=> NewTokPerm(o, g, x, acc, e, oper, t, p) # None
           /\ NewTokPerm(o, g, x, acc, e, oper, t, p) # None
                 => NewAll(o, g, acc, p, e, oper) = None
<1>1. tokPerm[t][g][p] # None => allPerm[o][g][p] = None
    BY DEF IInv, NoDoubleGrant
<1>2. e # None
    BY SnipAssumption
<1>3. HasLiveAll(o, g, p) => allPerm[o][g][p] # None
    BY DEF HasLiveAll, Live
<1> QED
    BY <1>1, <1>2, <1>3, AccessesCases DEF OneToken

\* A list process_accesses leaves holds tokens of the owner only.
LEMMA AccessesOwn ==
    ASSUME IInv, NEW o \in Addr, NEW g \in Grantee, NEW x \in Idx \cup {None},
           x # None => Exists(x) /\ Owner(x) = o,
           NEW acc, NEW e, NEW oper, NEW p \in PermTypes,
           x = None => ~OneToken(acc, p),
           NEW t \in NewAuth(o, g, x, acc, p, e, oper)
    PROVE  t \in Idx /\ Exists(t) /\ Owner(t) = o
<1>1. \A u \in Idx : u \in inventory[o] => Exists(u) /\ Owner(u) = o
    BY DEF IInv, InventoryExact
<1>2. \A u \in Idx, q \in PermTypes :
          u \in authList[o][g][q] => Exists(u) /\ Owner(u) = o
    BY DEF IInv, AuthListExact
<1>3. /\ inventory[o] \subseteq Idx
      /\ \A q \in PermTypes : authList[o][g][q] \subseteq Idx
    BY DEF IInv, TypeOK
<1>4. \A u \in LoadList(o, g, x, acc, e, oper) : u \in Idx /\ Exists(u) /\ Owner(u) = o
    BY <1>1, <1>2, <1>3 DEF LoadList
<1>5. acc[p] = "ApproveToken" => x \in Idx /\ Exists(x) /\ Owner(x) = o
    BY DEF OneToken
<1> QED
    BY <1>2, <1>3, <1>4, <1>5 DEF NewAuth

\* A token of another owner keeps its permissions.
LEMMA OthersKeep ==
    ASSUME NEW o, NEW g, NEW x, x # None => Owner(x) = o, NEW acc, NEW e, NEW oper,
           NEW t, t # None, Owner(t) # o, NEW p
    PROVE  NewTokPerm(o, g, x, acc, e, oper, t, p) = tokPerm[t][g][p]
BY DEF NewTokPerm

\* Changing approvals keeps the ledger's invariants.
LEMMA ProcessAccessesInv ==
    ASSUME IInv, NEW o \in Addr, NEW g \in Grantee, NEW x \in Idx \cup {None},
           x # None => Exists(x) /\ Owner(x) = o,
           NEW acc, NEW e \in Expirations, NEW oper,
           ProcessAccesses(o, g, x, acc, e, oper),
           block' \in BlockInfo, savedBlock' \in BlockInfo
    PROVE  IInv'
<1>1. TypeOK'
    BY ProcessAccessesType DEF IInv
<1>2. UNCHANGED <<token, idxOf, idOf, creator, mintCnt, inventory>>
    BY DEF ProcessAccesses, ledgerVars
<1>3. \A t \in Idx : (Exists(t)' <=> Exists(t)) /\ Owner(t)' = Owner(t)
    BY <1>2 DEF Exists, Owner
<1>4. IdsExact' /\ InventoryExact'
    BY <1>2, <1>3 DEF IInv, IdsExact, InventoryExact
<1>5. x = None => \A p \in PermTypes : ~OneToken(acc, p)
    BY DEF ProcessAccesses
<1>6. \A t \in Idx, h \in Grantee, p \in PermTypes :
          tokPerm'[t][h][p] = IF h = g THEN NewTokPerm(o, g, x, acc, e, oper, t, p)
                              ELSE tokPerm[t][h][p]
    BY DEF ProcessAccesses
<1>7. \A a \in Addr, h \in Grantee, p \in PermTypes :
          allPerm'[a][h][p] = IF a = o /\ h = g THEN NewAll(o, g, acc, p, e, oper)
                              ELSE allPerm[a][h][p]
    BY DEF ProcessAccesses, IInv, TypeOK
<1>8. \A a \in Addr, h \in Grantee, p \in PermTypes :
          authList'[a][h][p] = IF a = o /\ h = g THEN NewAuth(o, g, x, acc, p, e, oper)
                               ELSE authList[a][h][p]
    BY DEF ProcessAccesses, IInv, TypeOK
<1>9. \A t \in Idx : Exists(t) => Owner(t) \in Addr
    BY OwnerType DEF IInv
<1>10. AuthListExact'
    <2> SUFFICES ASSUME NEW a \in Addr, NEW h \in Grantee, NEW p \in PermTypes,
                        NEW t \in Idx
                 PROVE  t \in authList'[a][h][p] <=>
                            Exists(t) /\ Owner(t) = a /\ tokPerm'[t][h][p] # None
        BY <1>3 DEF AuthListExact
    <2>1. CASE h # g
        BY <1>6, <1>8, <2>1 DEF IInv, AuthListExact
    <2>2. CASE h = g /\ a = o
        <3>1. CASE Exists(t) /\ Owner(t) = o
            BY <1>5, <1>6, <1>8, <2>2, <3>1, AccessesExact
        <3>2. CASE ~(Exists(t) /\ Owner(t) = o)
            BY <1>5, <1>8, <2>2, <3>2, AccessesOwn
        <3> QED
            BY <3>1, <3>2
    <2>3. CASE h = g /\ a # o
        <3>1. CASE Exists(t) /\ Owner(t) = a
            <4>1. NewTokPerm(o, g, x, acc, e, oper, t, p) = tokPerm[t][g][p]
                BY <2>3, <3>1, OthersKeep, SnipAssumption
            <4> QED
                BY <1>6, <1>8, <2>3, <3>1, <4>1 DEF IInv, AuthListExact
        <3>2. CASE ~(Exists(t) /\ Owner(t) = a)
            BY <1>8, <2>3, <3>2 DEF IInv, AuthListExact
        <3> QED
            BY <3>1, <3>2
    <2> QED
        BY <2>1, <2>2, <2>3
<1>11. NoDoubleGrant'
    <2> SUFFICES ASSUME NEW t \in Idx, NEW h \in Grantee, NEW p \in PermTypes,
                        Exists(t), tokPerm'[t][h][p] # None
                 PROVE  allPerm'[Owner(t)][h][p] = None
        BY <1>3 DEF NoDoubleGrant
    <2>1. CASE h # g
        BY <1>6, <1>7, <1>9, <2>1 DEF IInv, NoDoubleGrant
    <2>2. CASE h = g /\ Owner(t) = o
        BY <1>5, <1>6, <1>7, <2>2, AccessesExact
    <2>3. CASE h = g /\ Owner(t) # o
        <3>1. NewTokPerm(o, g, x, acc, e, oper, t, p) = tokPerm[t][g][p]
            BY <2>3, OthersKeep, SnipAssumption
        <3> QED
            BY <1>6, <1>7, <1>9, <2>3, <3>1 DEF IInv, NoDoubleGrant
    <2> QED
        BY <2>1, <2>2, <2>3
<1> QED
    BY <1>1, <1>4, <1>10, <1>11 DEF IInv

\* The owner of a token a message names has approved its change.
LEMMA ApprovalInv == IInv /\ ApprovalNext => IInv'
<1> SUFFICES ASSUME IInv, ApprovalNext PROVE IInv'
    OBVIOUS
<1>1. ASSUME NEW s, NEW g \in Granted, NEW id \in Ids, NEW e \in Expirations, NEW level,
             ApproveRevoke(s, g, id, e, level)
      PROVE  IInv'
    <2> DEFINE t == idxOf[id]
    <2>1. t \in Idx /\ Exists(t) /\ Owner(t) \in Addr
        BY <1>1, OwnerType DEF ApproveRevoke, IInv
    <2>2. g \in Grantee
        BY SnipAssumption DEF Grantee
    <2>3. block' \in BlockInfo /\ savedBlock' \in BlockInfo
        BY <1>1, HandledType DEF ApproveRevoke, IInv
    <2>4. ProcessAccesses(Owner(t), g, t, TransferOnly(level), e, s # Owner(t))
        BY <1>1 DEF ApproveRevoke
    <2> QED
        BY <2>1, <2>2, <2>3, <2>4, ProcessAccessesInv
<1>2. ASSUME NEW s \in Granters, NEW id \in MaybeId, NEW acc, NEW e \in Expirations,
             NEW g \in Grantee, OwnsNamed(s, id), Handled,
             ProcessAccesses(s, g, NamedToken(id), acc, e, FALSE)
      PROVE  IInv'
    <2>1. s \in Addr
        BY SnipAssumption
    <2>2. block' \in BlockInfo /\ savedBlock' \in BlockInfo
        BY <1>2, HandledType DEF IInv
    <2>3. NamedToken(id) \in Idx \cup {None}
        BY NamedTokenType DEF IInv
    <2>4. NamedToken(id) # None => Exists(NamedToken(id)) /\ Owner(NamedToken(id)) = s
        BY <1>2 DEF NamedToken, OwnsNamed
    <2> QED
        BY <1>2, <2>1, <2>2, <2>3, <2>4, ProcessAccessesInv
<1>3. ASSUME NEW s \in Granters, NEW id \in MaybeId, NEW acc, NEW e \in Expirations,
             NEW g \in Granted, SetWhitelistedApproval(s, g, id, acc, e)
      PROVE  IInv'
    <2>1. g \in Grantee
        BY SnipAssumption DEF Grantee
    <2> QED
        BY <1>2, <1>3, <2>1 DEF SetWhitelistedApproval
<1>4. ASSUME NEW s \in Granters, NEW id \in MaybeId, NEW acc, NEW e \in Expirations,
             SetGlobalApproval(s, id, acc, e)
      PROVE  IInv'
    <2>1. Public \in Grantee
        BY DEF Grantee
    <2> QED
        BY <1>2, <1>4, <2>1 DEF SetGlobalApproval
<1>5. ASSUME NEW s \in Granters, MakeOwnershipPrivate(s)
      PROVE  IInv'
    <2>1. TypeOK'
        BY ApprovalType DEF IInv
    <2>2. UNCHANGED <<ledgerVars, permVars>>
        BY <1>5 DEF MakeOwnershipPrivate
    <2> QED
        BY <2>1, <2>2
        DEF IInv, IdsExact, InventoryExact, AuthListExact, NoDoubleGrant,
            ledgerVars, permVars, Exists, Owner
<1>6. Never \in Expirations
    BY SnipAssumption
<1> QED
    BY <1>1, <1>3, <1>4, <1>5, <1>6 DEF ApprovalNext, Approve, Revoke

\* A message of the ledger keeps its invariants.
LEMMA LedgerInv == IInv /\ LedgerNext => IInv'
<1> SUFFICES ASSUME IInv, LedgerNext PROVE IInv'
    OBVIOUS
<1>1. ASSUME NEW s \in Addr, NEW given \in MintIds, NEW new \in MintChoices,
             Mint(s, given, new)
      PROVE  IInv'
    <2>1. MintId(given) \in Ids
        BY <1>1, SnipAssumption DEF Mint, BelowLimit, MintId, IInv, TypeOK, Idx
    <2> QED
        BY <1>1, <2>1, MintInv DEF Mint
<1>2. ASSUME NEW s \in Addr, NEW id \in Ids, NEW to \in Addr, TransferNft(s, id, to)
      PROVE  IInv'
    <2>1. block' \in BlockInfo /\ savedBlock' \in BlockInfo
        BY <1>2, HandledType DEF TransferNft, IInv
    <2> QED
        BY <1>2, <2>1, TransferInv DEF TransferNft, MayMove
<1>3. ASSUME NEW s \in Addr, NEW id \in Ids, BurnNft(s, id)
      PROVE  IInv'
    <2>1. block' \in BlockInfo /\ savedBlock' \in BlockInfo
        BY <1>3, HandledType DEF BurnNft, IInv
    <2> QED
        BY <1>3, <2>1, BurnInv DEF BurnNft
<1> QED
    BY <1>1, <1>2, <1>3 DEF LedgerNext

\* Every step keeps the ledger's invariants.
LEMMA NextInv == IInv /\ [SnipNext]_snipVars => IInv'
<1> SUFFICES ASSUME IInv, [SnipNext]_snipVars PROVE IInv'
    OBVIOUS
<1>1. TypeOK'
    BY NextType DEF IInv
<1>2. CASE AdminNext \/ NewBlock \/ UNCHANGED snipVars
    <2>1. UNCHANGED <<ledgerVars, permVars>>
        BY <1>2
        DEF AdminNext, AddMinters, RemoveMinters, SetMinters, ChangeAdmin,
            SetContractStatus, AdminVarsOnly, NewBlock, snipVars
    <2> QED
        BY <1>1, <2>1
        DEF IInv, IdsExact, InventoryExact, AuthListExact, NoDoubleGrant,
            ledgerVars, permVars, Exists, Owner
<1> QED
    BY <1>2, ApprovalInv, LedgerInv DEF SnipNext

\* IInv holds in every reachable state.
LEMMA InvCorrect == SnipSpec => []IInv
BY InitInv, NextInv, PTL DEF SnipSpec

(***************************************************************************)
(* The two id maps stay inverse to each other on the tokens that exist and *)
(* no index is used twice, however tokens are minted, burned and re-minted.*)
(***************************************************************************)
THEOREM IdsCorrect == SnipSpec => []IdsExact
<1>1. IInv => IdsExact
    BY DEF IInv
<1> QED
    BY <1>1, InvCorrect, PTL

(***************************************************************************)
(* Every token is in its owner's inventory and in no other one.            *)
(***************************************************************************)
THEOREM InventoryCorrect == SnipSpec => []InventoryExact
<1>1. IInv => InventoryExact
    BY DEF IInv
<1> QED
    BY <1>1, InvCorrect, PTL

(***************************************************************************)
(* The AuthLists process_accesses uses as an index into the tokens'        *)
(* permissions are never stale.                                            *)
(***************************************************************************)
THEOREM AuthListCorrect == SnipSpec => []AuthListExact
<1>1. IInv => AuthListExact
    BY DEF IInv
<1> QED
    BY <1>1, InvCorrect, PTL

(***************************************************************************)
(* Nobody holds a permission on a token and on all of its owner's tokens.  *)
(***************************************************************************)
THEOREM GrantsCorrect == SnipSpec => []NoDoubleGrant
<1>1. IInv => NoDoubleGrant
    BY DEF IInv
<1> QED
    BY <1>1, InvCorrect, PTL

\* At whatever block, the check finds the permissions there are.
LEMMA CoreIsAccess ==
    ASSUME IInv, NEW t \in Idx, Exists(t), NEW s \in Grantee, NEW p \in PermTypes, NEW b
    PROVE  CheckPermCore(s, t, p, b) <=> MayAccess(s, t, p, b)
<1>1. Public \in Grantee
    BY DEF Grantee
<1>2. ASSUME NEW g \in {s, Public}, Lapsed(tokPerm[t][g][p], b)
      PROVE  ~Live(allPerm[Owner(t)][g][p], b)
    <2>1. allPerm[Owner(t)][g][p] = None
        BY <1>1, <1>2 DEF Lapsed, IInv, NoDoubleGrant
    <2> QED
        BY <2>1 DEF Live
<1> QED
    BY <1>2 DEF CheckPermCore, MayAccess

(***************************************************************************)
(* The early exit of check_perm_core never refuses an access somebody has: *)
(* when both token permissions have lapsed there is no ALL permission to   *)
(* find, because nobody holds both.                                        *)
(***************************************************************************)
THEOREM CheckCorrect == SnipSpec => []CheckIsExact
<1>1. IInv => CheckIsExact
    BY CoreIsAccess DEF CheckIsExact
<1> QED
    BY <1>1, InvCorrect, PTL

-----------------------------------------------------------------------------
(* What the ledger's counter, its stored block and its approval messages get *)
(* right: results that follow step by step from the invariant.               *)

\* Changing approvals does nothing to the tokens.
LEMMA AccessesFrame ==
    ASSUME NEW o, NEW g, NEW x, NEW acc, NEW e, NEW oper,
           ProcessAccesses(o, g, x, acc, e, oper)
    PROVE  UNCHANGED <<configVars, ledgerVars, ownerPriv>>
BY DEF ProcessAccesses

\* An approval message does nothing to the tokens.
LEMMA ApprovalFrame == ApprovalNext => UNCHANGED <<configVars, ledgerVars>> /\ Handled
<1>1. \A s, g, id, e, level :
          ApproveRevoke(s, g, id, e, level)
              => UNCHANGED <<configVars, ledgerVars>> /\ Handled
    BY AccessesFrame DEF ApproveRevoke
<1>2. \A s, g, id, acc, e :
          SetWhitelistedApproval(s, g, id, acc, e)
              => UNCHANGED <<configVars, ledgerVars>> /\ Handled
    BY AccessesFrame DEF SetWhitelistedApproval
<1>3. \A s, id, acc, e :
          SetGlobalApproval(s, id, acc, e)
              => UNCHANGED <<configVars, ledgerVars>> /\ Handled
    BY AccessesFrame DEF SetGlobalApproval
<1>4. \A s : MakeOwnershipPrivate(s) => UNCHANGED <<configVars, ledgerVars>> /\ Handled
    BY DEF MakeOwnershipPrivate
<1> QED
    BY <1>1, <1>2, <1>3, <1>4 DEF ApprovalNext, Approve, Revoke

\* An administration message does nothing to tokens and permissions.
LEMMA AdminFrame == AdminNext => UNCHANGED <<ledgerVars, permVars, ownerPriv>> /\ Handled
BY DEF AdminNext, AddMinters, RemoveMinters, SetMinters, ChangeAdmin,
    SetContractStatus, AdminVarsOnly

\* A message that only stores the block keeps the invariant.
LEMMA QuietInv ==
    IInv /\ UNCHANGED <<configVars, ledgerVars, permVars, ownerPriv>> /\ Handled => IInv'
<1> SUFFICES ASSUME IInv, UNCHANGED <<configVars, ledgerVars, permVars, ownerPriv>>, Handled
             PROVE  IInv'
    OBVIOUS
<1>1. TypeOK'
    BY DEF IInv, TypeOK, configVars, ledgerVars, permVars, Handled
<1> QED
    BY <1>1 DEF IInv, IdsExact, InventoryExact, AuthListExact, NoDoubleGrant,
        ledgerVars, permVars, Exists, Owner

\* A mint adds the token at the mint counter and nothing else.
LEMMA MintTokens ==
    ASSUME IInv, NEW s, NEW given, NEW new \in MintChoices, NEW n, n = mintCnt,
           Mint(s, given, new), NEW t \in Idx
    PROVE  /\ n \in Idx /\ ~Exists(n) /\ Exists(n)'
           /\ token'[n] = new /\ tokPerm'[n] = NoGrants
           /\ t # n => token'[t] = token[t] /\ tokPerm'[t] = tokPerm[t]
<1>1. n \in Idx /\ ~Exists(n) /\ new # None
    BY SnipAssumption DEF Mint, BelowLimit, IInv, TypeOK, IdsExact, Idx
<1> QED
    BY <1>1 DEF Mint, MintEffect, NextIdx, Exists, IInv, TypeOK

\* A transfer gives the token to its new owner without permissions.
LEMMA TransferTokens ==
    ASSUME IInv, NEW n, Exists(n), NEW to \in Addr, TransferEffect(n, to), NEW t \in Idx
    PROVE  /\ n \in Idx /\ (Exists(t)' <=> Exists(t))
           /\ t # n => token'[t] = token[t] /\ tokPerm'[t] = tokPerm[t]
           /\ t = n => /\ Owner(t)' = to /\ tokPerm'[t] = NoGrants
                       /\ token'[t].transferable = token[t].transferable
<1>1. n \in Idx /\ token[n] \in TokenInfo
    BY OwnerType DEF IInv
<1> QED
    BY <1>1, SnipAssumption
    DEF TransferEffect, MovedPerms, Exists, Owner, IInv, TypeOK, TokenInfo

\* A burn removes the token and nothing else.
LEMMA BurnTokens ==
    ASSUME IInv, NEW n, NEW id, Exists(n), BurnEffect(n, id), NEW t \in Idx
    PROVE  /\ n \in Idx /\ ~Exists(n)'
           /\ t # n => token'[t] = token[t] /\ tokPerm'[t] = tokPerm[t]
BY DEF BurnEffect, Exists, IInv, TypeOK

\* A token that is new, or new to its owner, carries no permissions.
LEMMA FreshPerms ==
    ASSUME IInv, [SnipNext]_snipVars, NEW t \in Idx,
           Exists(t)', ~Exists(t) \/ Owner(t)' # Owner(t)
    PROVE  tokPerm'[t] = NoGrants
<1>1. UNCHANGED token => FALSE
    BY DEF Exists, Owner
<1>2. CASE LedgerNext
    <2>1. ASSUME NEW s \in Addr, NEW given \in MintIds, NEW new \in MintChoices,
                 Mint(s, given, new)
          PROVE  tokPerm'[t] = NoGrants
        <3>1. PICK n : n = mintCnt
            OBVIOUS
        <3>2. t # n => token'[t] = token[t]
            BY <2>1, <3>1, MintTokens
        <3>3. t = n
            BY <3>2 DEF Exists, Owner
        <3> QED
            BY <2>1, <3>1, <3>3, MintTokens
    <2>2. ASSUME NEW s \in Addr, NEW id \in Ids, NEW to \in Addr, TransferNft(s, id, to)
          PROVE  tokPerm'[t] = NoGrants
        <3>1. Exists(idxOf[id]) /\ TransferEffect(idxOf[id], to)
            BY <2>2 DEF TransferNft
        <3>2. t # idxOf[id] => token'[t] = token[t]
            BY <3>1, TransferTokens
        <3>3. t = idxOf[id]
            BY <3>2 DEF Exists, Owner
        <3> QED
            BY <3>1, <3>3, TransferTokens
    <2>3. ASSUME NEW s \in Addr, NEW id \in Ids, BurnNft(s, id)
          PROVE  tokPerm'[t] = NoGrants
        <3>1. PICK n : n = idxOf[id]
            OBVIOUS
        <3>2. Exists(n) /\ BurnEffect(n, id)
            BY <2>3, <3>1 DEF BurnNft
        <3>3. ~Exists(n)' /\ (t # n => token'[t] = token[t])
            BY <3>2, BurnTokens
        <3>4. t # n
            BY <3>3
        <3> QED
            BY <3>3, <3>4 DEF Exists, Owner
    <2> QED
        BY <1>2, <2>1, <2>2, <2>3 DEF LedgerNext
<1> QED
    BY <1>1, <1>2, ApprovalFrame, AdminFrame DEF SnipNext, NewBlock, snipVars, ledgerVars

-----------------------------------------------------------------------------
(* The number of tokens.                                                    *)

Tokens == {t \in Idx : Exists(t)}

\* There are finitely many tokens.
LEMMA TokensFinite == IsFiniteSet(Tokens) /\ Cardinality(Tokens) \in Nat
<1>1. 0 \in Int /\ MaxU32 - 1 \in Int
    BY SnipAssumption
<1>2. IsFiniteSet(Idx)
    BY <1>1, FS_Interval DEF Idx
<1>3. Tokens \in SUBSET Idx
    BY DEF Tokens
<1>4. IsFiniteSet(Tokens)
    BY <1>2, <1>3, FS_Subset
<1> QED
    BY <1>4, FS_CardinalityType

\* Every step that mints or burns counts it.
LEMMA SupplyStep == IInv /\ SupplyExact /\ [SnipNext]_snipVars => SupplyExact'
<1> SUFFICES ASSUME IInv, SupplyExact, [SnipNext]_snipVars PROVE SupplyExact'
    OBVIOUS
<1>1. SupplyExact <=> tokenCnt = Cardinality(Tokens)
    BY DEF SupplyExact, Tokens
<1>2. SupplyExact' <=> tokenCnt' = Cardinality(Tokens')
    BY DEF SupplyExact, Tokens
<1>3. ASSUME NEW s \in Addr, NEW given \in MintIds, NEW new \in MintChoices,
             Mint(s, given, new)
      PROVE  SupplyExact'
    <2> DEFINE n == mintCnt
    <2>1. n \in Idx /\ ~Exists(n) /\ new # None
        BY <1>3, SnipAssumption DEF Mint, BelowLimit, IInv, TypeOK, IdsExact, Idx
    <2>2. token' = [token EXCEPT ![n] = new] /\ tokenCnt' = tokenCnt + 1
        BY <1>3 DEF Mint, MintEffect, NextIdx
    <2>3. Tokens' = Tokens \cup {n}
        BY <2>1, <2>2 DEF Tokens, Exists, IInv, TypeOK
    <2>4. n \notin Tokens
        BY <2>1 DEF Tokens
    <2>5. Cardinality(Tokens \cup {n}) = Cardinality(Tokens) + 1
        BY <2>4, TokensFinite, FS_AddElement
    <2> QED
        BY <1>1, <1>2, <2>2, <2>3, <2>5
<1>4. ASSUME NEW s \in Addr, NEW id \in Ids, BurnNft(s, id)
      PROVE  SupplyExact'
    <2> DEFINE n == idxOf[id]
    <2>1. n \in Tokens
        BY <1>4 DEF BurnNft, Tokens, Exists
    <2>2. token' = [token EXCEPT ![n] = None] /\ tokenCnt' = BurnedCount
        BY <1>4 DEF BurnNft, BurnEffect
    <2>3. Tokens' = Tokens \ {n}
        BY <2>2 DEF Tokens, Exists, IInv, TypeOK
    <2>4. Cardinality(Tokens \ {n}) = Cardinality(Tokens) - 1
        BY <2>1, TokensFinite, FS_RemoveElement
    <2>5. Cardinality(Tokens) # 0
        BY <2>1, TokensFinite, FS_EmptySet
    <2> QED
        BY <1>1, <1>2, <2>2, <2>3, <2>4, <2>5, TokensFinite DEF BurnedCount
<1>5. ASSUME tokenCnt' = tokenCnt, \A t \in Idx : Exists(t)' <=> Exists(t)
      PROVE  SupplyExact'
    BY <1>1, <1>2, <1>5 DEF Tokens
<1>6. ASSUME NEW s \in Addr, NEW id \in Ids, NEW to \in Addr, TransferNft(s, id, to)
      PROVE  SupplyExact'
    <2>1. Exists(idxOf[id]) /\ TransferEffect(idxOf[id], to)
        BY <1>6 DEF TransferNft
    <2>2. \A t \in Idx : Exists(t)' <=> Exists(t)
        BY <2>1, TransferTokens
    <2>3. tokenCnt' = tokenCnt
        BY <2>1 DEF TransferEffect
    <2> QED
        BY <1>5, <2>2, <2>3
<1>7. ASSUME ApprovalNext \/ AdminNext \/ NewBlock \/ UNCHANGED snipVars
      PROVE  SupplyExact'
    <2>1. UNCHANGED ledgerVars
        BY <1>7, ApprovalFrame, AdminFrame DEF NewBlock, snipVars
    <2> QED
        BY <1>5, <2>1 DEF ledgerVars, Exists
<1> QED
    BY <1>3, <1>4, <1>6, <1>7 DEF SnipNext, LedgerNext

(***************************************************************************)
(* num_tokens reports how many tokens there are, and the saturating        *)
(* subtraction of a burn never saturates.                                  *)
(***************************************************************************)
THEOREM SupplyCorrect == SnipSpec => []SupplyExact
<1>1. SnipInit => SupplyExact
    <2> SUFFICES ASSUME SnipInit PROVE SupplyExact
        OBVIOUS
    <2>1. {t \in Idx : Exists(t)} = {}
        BY DEF SnipInit, Exists
    <2> QED
        BY <2>1, FS_EmptySet DEF SnipInit, SupplyExact
<1> QED
    BY <1>1, SupplyStep, InvCorrect, PTL DEF SnipSpec

-----------------------------------------------------------------------------
(* The block the queries judge by.                                          *)

\* The stored block is not ahead of the chain.
BlockOrder ==
    savedBlock.height <= block.height /\ savedBlock.time <= block.time

\* A message stores the chain's block, and the chain's block only moves on.
LEMMA BlockStep == TypeOK /\ BlockOrder /\ [SnipNext]_snipVars => BlockOrder'
<1> SUFFICES ASSUME TypeOK, BlockOrder, [SnipNext]_snipVars PROVE BlockOrder'
    OBVIOUS
<1>1. /\ block.height \in Nat /\ block.time \in Nat
      /\ savedBlock.height \in Nat /\ savedBlock.time \in Nat
    BY DEF TypeOK, BlockInfo
<1>2. ASSUME Handled PROVE BlockOrder'
    BY <1>1, <1>2 DEF Handled, BlockOrder
<1>3. LedgerNext => Handled
    BY DEF LedgerNext, Mint, MintEffect, TransferNft, BurnNft
<1>4. CASE NewBlock
    <2>1. PICK passed \in 0 .. MaxTime - block.time :
              block' = [height |-> block.height + 1, time |-> block.time + passed]
        BY <1>4 DEF NewBlock
    <2>2. passed >= 0 /\ passed \in Int
        BY <1>1, SnipAssumption
    <2>3. savedBlock' = savedBlock
        BY <1>4 DEF NewBlock
    <2> QED
        BY <1>1, <2>1, <2>2, <2>3 DEF BlockOrder
<1>5. CASE UNCHANGED snipVars
    BY <1>5 DEF snipVars, BlockOrder
<1> QED
    BY <1>2, <1>3, <1>4, <1>5, ApprovalFrame, AdminFrame DEF SnipNext

\* What has not expired now had not expired before.
LEMMA LiveEarlier ==
    ASSUME NEW perm \in PermSet, NEW b \in BlockInfo, NEW c \in BlockInfo,
           c.height <= b.height, c.time <= b.time
    PROVE  /\ Live(perm, b) => Live(perm, c)
           /\ Lapsed(perm, c) => Lapsed(perm, b)
<1>1. perm # None => perm.at \in Nat
    BY SnipAssumption DEF PermSet
<1>2. b.height \in Nat /\ b.time \in Nat /\ c.height \in Nat /\ c.time \in Nat
    BY DEF BlockInfo
<1>3. perm # None /\ IsExpired(perm, c) => IsExpired(perm, b)
    BY <1>1, <1>2 DEF IsExpired
<1> QED
    BY <1>3 DEF Live, Lapsed

\* Whoever passes the check at a block passes it at an earlier one.
LEMMA CheckEarlier ==
    ASSUME TypeOK, NEW t \in Idx, Exists(t), NEW s \in Grantee, NEW p \in PermTypes,
           NEW b \in BlockInfo, NEW c \in BlockInfo,
           c.height <= b.height, c.time <= b.time, CheckPermCore(s, t, p, b)
    PROVE  CheckPermCore(s, t, p, c)
<1> DEFINE Tok(g) == tokPerm[t][g][p]
           All(g) == allPerm[Owner(t)][g][p]
<1>1. \A g \in {s, Public} : Tok(g) \in PermSet /\ All(g) \in PermSet
    <2>1. Owner(t) \in Addr /\ {s, Public} \subseteq Grantee
        BY OwnerType DEF Grantee
    <2> QED
        BY <2>1 DEF TypeOK
<1>2. \A g \in {s, Public} : /\ Live(Tok(g), b) => Live(Tok(g), c)
                             /\ Live(All(g), b) => Live(All(g), c)
                             /\ Lapsed(Tok(g), c) => Lapsed(Tok(g), b)
    BY <1>1, LiveEarlier
<1> QED
    BY <1>2 DEF CheckPermCore

(***************************************************************************)
(* The block the queries judge expirations by, which only a handled        *)
(* message stores, never refuses a query what the chain's own block would  *)
(* allow.                                                                  *)
(***************************************************************************)
THEOREM QueriesNotStricterCorrect == SnipSpec => []QueriesNotStricter
<1>1. SnipInit => BlockOrder
    BY DEF SnipInit, BlockOrder
<1>2. TypeOK /\ BlockOrder => QueriesNotStricter
    <2> SUFFICES ASSUME TypeOK, BlockOrder,
                        NEW t \in Idx, NEW s \in Grantee, NEW p \in PermTypes,
                        Exists(t), CheckPermission(s, t, p, block)
                 PROVE  CheckPermission(s, t, p, savedBlock)
        BY DEF QueriesNotStricter
    <2>1. block \in BlockInfo /\ savedBlock \in BlockInfo
        BY DEF TypeOK
    <2>2. CheckPermCore(s, t, p, block) => CheckPermCore(s, t, p, savedBlock)
        BY <2>1, CheckEarlier DEF BlockOrder
    <2> QED
        BY <2>2 DEF CheckPermission
<1> QED
    BY <1>1, <1>2, BlockStep, TypeCorrect, PTL DEF SnipSpec

-----------------------------------------------------------------------------
(* Approvals.                                                               *)

\* Nobody can give the public a permission to transfer.
NoPublicTransfer ==
    /\ \A t \in Idx : tokPerm[t][Public]["Transfer"] = None
    /\ \A o \in Addr : allPerm[o][Public]["Transfer"] = None

\* What an approval message leaves, entry by entry.
LEMMA AccessesEntries ==
    ASSUME TypeOK, NEW o \in Addr, NEW g \in Grantee, NEW x, NEW acc, NEW e, NEW oper,
           ProcessAccesses(o, g, x, acc, e, oper),
           NEW h \in Grantee, NEW p \in PermTypes
    PROVE  /\ \A t \in Idx : tokPerm'[t][h][p] =
                  IF h = g THEN NewTokPerm(o, g, x, acc, e, oper, t, p) ELSE tokPerm[t][h][p]
           /\ \A a \in Addr : allPerm'[a][h][p] =
                  IF a = o /\ h = g THEN NewAll(o, g, acc, p, e, oper) ELSE allPerm[a][h][p]
BY DEF ProcessAccesses, TypeOK

\* A message that is silent about a permission type leaves it alone.
LEMMA UnsetKeeps ==
    ASSUME NEW o, NEW g, NEW x, NEW acc, NEW e, NEW oper, NEW t, NEW p, acc[p] = "Unset"
    PROVE  /\ NewTokPerm(o, g, x, acc, e, oper, t, p) = tokPerm[t][g][p]
           /\ NewAll(o, g, acc, p, e, oper) = allPerm[o][g][p]
<1>1. /\ ~Wholesale(acc, p) /\ acc[p] # "RevokeToken" /\ acc[p] # "All"  /\ acc[p] # "None"
      /\ ~Alters(o, g, acc, p, e, oper) /\ ~Expands(o, g, acc, p, e, oper)
    BY DEF Wholesale, Alters, Expands, OneToken
<1> QED
    BY <1>1 DEF NewTokPerm, NewNamed, NewLoaded, NewAll

\* Messages that approve the public say nothing about transfers.
LEMMA PublicStep == IInv /\ NoPublicTransfer /\ [SnipNext]_snipVars => NoPublicTransfer'
<1> SUFFICES ASSUME IInv, NoPublicTransfer, [SnipNext]_snipVars PROVE NoPublicTransfer'
    OBVIOUS
<1> DEFINE T == "Transfer"
<1>1. TypeOK /\ Public \in Grantee /\ T \in PermTypes /\ NoGrants[Public][T] = None
    BY DEF IInv, Grantee, PermTypes, NoGrants, NoPerms
<1>2. ASSUME NEW o \in Addr, NEW g \in Grantee, NEW x, NEW acc, NEW e, NEW oper,
             ProcessAccesses(o, g, x, acc, e, oper), g = Public => acc[T] = "Unset"
      PROVE  NoPublicTransfer'
    <2>1. /\ \A t \in Idx : tokPerm'[t][Public][T] = tokPerm[t][Public][T]
          /\ \A a \in Addr : allPerm'[a][Public][T] = allPerm[a][Public][T]
        <3>1. /\ \A t \in Idx : tokPerm'[t][Public][T] =
                    IF Public = g THEN NewTokPerm(o, g, x, acc, e, oper, t, T)
                    ELSE tokPerm[t][Public][T]
              /\ \A a \in Addr : allPerm'[a][Public][T] =
                    IF a = o /\ Public = g THEN NewAll(o, g, acc, T, e, oper)
                    ELSE allPerm[a][Public][T]
            BY <1>1, <1>2, AccessesEntries
        <3>2. g = Public =>
                  /\ \A t \in Idx : NewTokPerm(o, g, x, acc, e, oper, t, T) = tokPerm[t][g][T]
                  /\ NewAll(o, g, acc, T, e, oper) = allPerm[o][g][T]
            BY <1>2, UnsetKeeps
        <3> QED
            BY <3>1, <3>2
    <2> QED
        BY <2>1 DEF NoPublicTransfer
<1>3. Granters \subseteq Addr /\ \A g \in Granted : g \in Grantee /\ g # Public
    BY SnipAssumption DEF Grantee
<1>4. CASE ApprovalNext
    <2>1. ASSUME NEW s, NEW g \in Granted, NEW id \in Ids, NEW e, NEW level,
                 ApproveRevoke(s, g, id, e, level)
          PROVE  NoPublicTransfer'
        <3>1. Owner(idxOf[id]) \in Addr
            BY <1>1, <2>1, OwnerType DEF ApproveRevoke
        <3> QED
            BY <1>2, <1>3, <2>1, <3>1 DEF ApproveRevoke
    <2>2. ASSUME NEW s \in Granters, NEW g \in Granted, NEW id, NEW acc, NEW e,
                 SetWhitelistedApproval(s, g, id, acc, e)
          PROVE  NoPublicTransfer'
        BY <1>2, <1>3, <2>2 DEF SetWhitelistedApproval
    <2>3. ASSUME NEW s \in Granters, NEW id, NEW acc, NEW e, SetGlobalApproval(s, id, acc, e)
          PROVE  NoPublicTransfer'
        BY <1>1, <1>2, <1>3, <2>3 DEF SetGlobalApproval, ViewingOnly
    <2>4. ASSUME NEW s, MakeOwnershipPrivate(s)
          PROVE  NoPublicTransfer'
        BY <2>4 DEF MakeOwnershipPrivate, permVars, NoPublicTransfer
    <2> QED
        BY <1>4, <2>1, <2>2, <2>3, <2>4 DEF ApprovalNext, Approve, Revoke
<1>5. CASE LedgerNext
    <2>1. allPerm' = allPerm /\ \E n : tokPerm' = [tokPerm EXCEPT ![n] = NoGrants]
        BY <1>5 DEF LedgerNext, Mint, MintEffect, TransferNft, TransferEffect, MovedPerms,
            BurnNft, BurnEffect
    <2>2. \A t \in Idx : tokPerm'[t] \in {tokPerm[t], NoGrants}
        BY <1>1, <2>1 DEF TypeOK
    <2> QED
        BY <1>1, <2>1, <2>2 DEF NoPublicTransfer
<1>6. CASE AdminNext \/ NewBlock \/ UNCHANGED snipVars
    <2>1. UNCHANGED permVars
        BY <1>6, AdminFrame DEF NewBlock, snipVars
    <2> QED
        BY <2>1 DEF permVars, NoPublicTransfer
<1> QED
    BY <1>4, <1>5, <1>6 DEF SnipNext

\* An Approve or a Revoke that succeeds has the effect it reports.
LEMMA ApprovalEffect ==
    ASSUME IInv, NoPublicTransfer, NEW s \in Granters, NEW g \in Granted, NEW id \in Ids,
           NEW e \in Expirations, NEW level \in {"ApproveToken", "RevokeToken"},
           ApproveRevoke(s, g, id, e, level)
    PROVE  LET t == idxOf[id] IN
           /\ level = "ApproveToken" /\ ~IsExpired(e, block)
                 => CheckPermission(g, t, "Transfer", block)'
           /\ level = "RevokeToken" /\ g # Owner(t)
                 => ~CheckPermission(g, t, "Transfer", block)'
<1> DEFINE t == idxOf[id]
           o == Owner(t)
           T == "Transfer"
           acc == TransferOnly(level)
           oper == s # o
           Tok(h) == tokPerm[t][h][T]
           All(h) == allPerm[o][h][T]
<1>1. /\ t \in Idx /\ Exists(t) /\ o \in Addr /\ T \in PermTypes
      /\ acc[T] = level
    BY OwnerType DEF ApproveRevoke, PermTypes, TransferOnly, IInv
<1>2. {g, Public} \subseteq Grantee /\ g # Public /\ e # None
    BY SnipAssumption DEF Grantee
<1>3. /\ ProcessAccesses(o, g, t, acc, e, oper)
      /\ UNCHANGED <<token, idxOf, block>>
    BY AccessesFrame DEF ApproveRevoke, Handled, ledgerVars
<1>4. t' = t /\ o' = o
    BY <1>3 DEF Owner
<1>5. /\ Tok(g)' = NewTokPerm(o, g, t, acc, e, oper, t, T)
      /\ All(g)' = NewAll(o, g, acc, T, e, oper)
      /\ Tok(Public)' = None /\ All(Public)' = None
    <2>1. Tok(Public) = None /\ All(Public) = None
        BY <1>1 DEF NoPublicTransfer
    <2> QED
        BY <1>1, <1>2, <1>3, <1>4, <2>1, AccessesEntries DEF IInv
<1>6. All(g) # None => Tok(g) = None
    BY <1>1, <1>2 DEF IInv, NoDoubleGrant
<1>7. \/ /\ Tok(g)' = IF level = "ApproveToken" THEN e ELSE None
         /\ All(g)' = None
      \/ /\ level = "ApproveToken" /\ HasLiveAll(o, g, T)
         /\ All(g)' = All(g) /\ Tok(g)' = Tok(g)
    BY <1>1, <1>2, <1>5, AccessesCases DEF Wholesale
<1>8. CheckPermission(g, t, T, block)' <=>
          \/ g = o
          \/ \E h \in {g, Public} : Live(Tok(h)', block)
          \/ /\ ~ \A h \in {g, Public} : Lapsed(Tok(h)', block)
             /\ \E h \in {g, Public} : Live(All(h)', block)
    BY <1>3, <1>4 DEF CheckPermission, CheckPermCore
<1>9. ASSUME level = "ApproveToken", ~IsExpired(e, block)
      PROVE  CheckPermission(g, t, T, block)'
    <2>1. CASE Tok(g)' = e
        BY <1>2, <1>8, <1>9, <2>1 DEF Live
    <2>2. CASE HasLiveAll(o, g, T) /\ All(g)' = All(g) /\ Tok(g)' = Tok(g)
        <3>1. Live(All(g)', block) /\ Tok(g)' = None
            BY <1>6, <2>2 DEF HasLiveAll, Live
        <3> QED
            BY <1>8, <3>1 DEF Lapsed
    <2> QED
        BY <1>7, <1>9, <2>1, <2>2
<1>10. ASSUME level = "RevokeToken", g # o
       PROVE  ~CheckPermission(g, t, T, block)'
    <2>1. \A h \in {g, Public} : Tok(h)' = None /\ All(h)' = None
        BY <1>5, <1>7, <1>10
    <2> QED
        BY <1>8, <1>10, <2>1 DEF Live
<1> QED
    BY <1>9, <1>10

(***************************************************************************)
(* An Approve that answers Success lets the spender move the token, and a  *)
(* Revoke that does stops it, even where process_accesses skips the change *)
(* because of an ALL permission.                                           *)
(***************************************************************************)
THEOREM ApprovalTakesEffectCorrect == SnipSpec => ApprovalTakesEffect
<1>1. SnipInit => NoPublicTransfer
    BY DEF SnipInit, NoPublicTransfer, NoGrants, NoPerms, Grantee, PermTypes
<1>2. Never \in Expirations
    BY SnipAssumption
<1>3. IInv /\ NoPublicTransfer => \A s \in Granters, g \in Granted, id \in Ids :
          LET t == idxOf[id] IN
          /\ \A e \in Expirations : Approve(s, g, id, e) /\ ~IsExpired(e, block)
                => CheckPermission(g, t, "Transfer", block)'
          /\ Revoke(s, g, id) /\ g # Owner(t)
                => ~CheckPermission(g, t, "Transfer", block)'
    BY <1>2, ApprovalEffect DEF Approve, Revoke
<1> QED
    BY <1>1, <1>3, PublicStep, InvCorrect, PTL DEF SnipSpec, ApprovalTakesEffect

\* Whether g may use permission p on t by a live permission of its own.
HasAccess(g, t, p) ==
    Live(tokPerm[t][g][p], block) \/ Live(allPerm[Owner(t)][g][p], block)

\* An access that changes is one of the grantee to the named token, or the
\* message gives or takes the access to all the tokens of the owner.
LEMMA AccessChange ==
    ASSUME IInv, NEW o \in Addr, NEW g \in Grantee, NEW x \in Idx \cup {None},
           x # None => Exists(x) /\ Owner(x) = o,
           NEW acc, NEW e \in Expirations, NEW oper,
           ProcessAccesses(o, g, x, acc, e, oper), block' = block,
           NEW h \in Grantee, NEW t \in Idx, NEW p \in PermTypes, Exists(t)
    PROVE  /\ \/ HasAccess(h, t, p)' <=> HasAccess(h, t, p)
              \/ h = g /\ Owner(t) = o /\ (t = x \/ Wholesale(acc, p))
           /\ h = g /\ Owner(t) = o /\ Wholesale(acc, p) =>
                  (HasAccess(h, t, p)' <=> Live(NewAll(o, g, acc, p, e, oper), block))
<1> DEFINE perm == NewTokPerm(o, g, x, acc, e, oper, t, p)
           new == NewAll(o, g, acc, p, e, oper)
           kept == tokPerm[t][g][p]
           all == allPerm[o][g][p]
<1>1. token' = token /\ Owner(t)' = Owner(t) /\ Owner(t) \in Addr
    BY AccessesFrame, OwnerType DEF ledgerVars, Owner, IInv
<1>2. /\ tokPerm'[t][h][p] = IF h = g THEN perm ELSE tokPerm[t][h][p]
      /\ allPerm'[Owner(t)][h][p] =
             IF Owner(t) = o /\ h = g THEN new ELSE allPerm[Owner(t)][h][p]
    BY <1>1, AccessesEntries DEF IInv
<1>3. CASE h # g
    BY <1>1, <1>2, <1>3 DEF HasAccess
<1>4. CASE h = g /\ Owner(t) # o
    <2>1. perm = kept
        BY <1>4, OthersKeep, SnipAssumption
    <2> QED
        BY <1>1, <1>2, <1>4, <2>1 DEF HasAccess
<1>5. CASE h = g /\ Owner(t) = o
    <2>1. /\ HasAccess(h, t, p)' <=> Live(perm, block) \/ Live(new, block)
          /\ HasAccess(h, t, p) <=> Live(kept, block) \/ Live(all, block)
        BY <1>1, <1>2, <1>5 DEF HasAccess
    <2>2. ~Live(None, block)
        BY DEF Live
    <2>3. HasLiveAll(o, g, p) <=> Live(all, block)
        BY DEF HasLiveAll
    <2>4. Wholesale(acc, p) => ~OneToken(acc, p)
        BY DEF Wholesale, OneToken
    <2>5. \/ /\ Wholesale(acc, p) /\ perm = None
          \/ /\ OneToken(acc, p) /\ HasLiveAll(o, g, p)
             /\ t # x => perm = all
          \/ /\ OneToken(acc, p) /\ ~HasLiveAll(o, g, p) /\ new = None
             /\ t # x => perm = kept
          \/ ~Wholesale(acc, p) /\ new = all /\ perm = kept
        <3> DEFINE named == IF acc[p] = "ApproveToken" THEN e ELSE None
                   auth == NewAuth(o, g, x, acc, p, e, oper)
        <3>1. \/ /\ Wholesale(acc, p) /\ perm = None /\ t \notin auth
                 /\ new = IF acc[p] = "All" THEN e ELSE None
              \/ /\ OneToken(acc, p) /\ HasLiveAll(o, g, p) /\ new = None
                 /\ perm = IF t = x THEN named ELSE all
                 /\ t \in auth <=> t # x \/ acc[p] = "ApproveToken"
              \/ /\ OneToken(acc, p) /\ ~HasLiveAll(o, g, p) /\ new = None
                 /\ perm = IF t = x THEN named ELSE kept
                 /\ t \in auth <=> IF t = x THEN acc[p] = "ApproveToken" ELSE kept # None
              \/ /\ ~Wholesale(acc, p) /\ acc[p] # "RevokeToken"
                 /\ acc[p] = "ApproveToken" => HasLiveAll(o, g, p)
                 /\ new = all /\ perm = kept /\ (t \in auth <=> kept # None)
            BY <1>5, AccessesCases
        <3> HIDE DEF perm, new, kept, all, named, auth
        <3> QED
            BY <3>1
    <2> QED
        BY <1>5, <2>1, <2>2, <2>3, <2>4, <2>5
<1> QED
    BY <1>3, <1>4, <1>5

\* What an approval message of any kind asks process_accesses to do.
LEMMA ApprovalCases ==
    IInv /\ ApprovalNext =>
        \/ UNCHANGED permVars
        \/ \E o \in Addr, g \in Grantee, x \in Idx \cup {None}, e \in Expirations :
           \E acc, oper :
               /\ x # None => Exists(x) /\ Owner(x) = o
               /\ ProcessAccesses(o, g, x, acc, e, oper)
<1> SUFFICES ASSUME IInv, ApprovalNext,
                    ~UNCHANGED permVars,
                    \A o \in Addr, g \in Grantee, x \in Idx \cup {None}, e \in Expirations :
                    \A acc, oper :
                        (x # None => Exists(x) /\ Owner(x) = o)
                            => ~ProcessAccesses(o, g, x, acc, e, oper)
             PROVE  FALSE
    OBVIOUS
<1>1. Granters \subseteq Addr /\ Granted \subseteq Grantee /\ Public \in Grantee
      /\ Never \in Expirations
    BY SnipAssumption DEF Grantee
<1>2. ASSUME NEW s, NEW g \in Granted, NEW id \in Ids, NEW e \in Expirations, NEW level,
             ApproveRevoke(s, g, id, e, level)
      PROVE  FALSE
    <2>1. idxOf[id] \in Idx /\ Exists(idxOf[id]) /\ Owner(idxOf[id]) \in Addr
        BY <1>2, OwnerType DEF ApproveRevoke, IInv
    <2> QED
        BY <1>1, <1>2, <2>1 DEF ApproveRevoke
<1>3. ASSUME NEW s \in Granters, NEW id \in MaybeId, NEW acc, NEW e \in Expirations,
             NEW g \in Grantee, OwnsNamed(s, id),
             ProcessAccesses(s, g, NamedToken(id), acc, e, FALSE)
      PROVE  FALSE
    <2>1. /\ NamedToken(id) \in Idx \cup {None}
          /\ NamedToken(id) # None => Exists(NamedToken(id)) /\ Owner(NamedToken(id)) = s
        BY <1>3, NamedTokenType DEF NamedToken, OwnsNamed, IInv
    <2> QED
        BY <1>1, <1>3, <2>1
<1>4. \A s : MakeOwnershipPrivate(s) => UNCHANGED permVars
    BY DEF MakeOwnershipPrivate
<1>5. ASSUME NEW s \in Granters, NEW id \in MaybeId, NEW acc, NEW e \in Expirations,
             NEW g \in Granted, SetWhitelistedApproval(s, g, id, acc, e)
      PROVE  FALSE
    BY <1>1, <1>3, <1>5 DEF SetWhitelistedApproval
<1>6. ASSUME NEW s \in Granters, NEW id \in MaybeId, NEW acc, NEW e \in Expirations,
             SetGlobalApproval(s, id, acc, e)
      PROVE  FALSE
    BY <1>1, <1>3, <1>6 DEF SetGlobalApproval
<1> QED
    BY <1>1, <1>2, <1>4, <1>5, <1>6 DEF ApprovalNext, Approve, Revoke

\* The accesses a step changes are one grantee's, to one token or to all.
Spread ==
    token' = token /\ block' = block =>
        LET before == Grants
            after == Grants'
        IN  \A c, d \in (before \ after) \cup (after \ before) :
              /\ c[1] = d[1] /\ Owner(c[2]) = Owner(d[2])
              /\ c[2] # d[2] /\ c[3] = d[3] =>
                   LET all == {<<c[1], t, c[3]>> : t \in inventory[Owner(c[2])]}
                   IN  all \subseteq after \/ all \cap after = {}

\* process_accesses is precise.
LEMMA AccessesSpread ==
    ASSUME IInv, NEW o \in Addr, NEW g \in Grantee, NEW x \in Idx \cup {None},
           x # None => Exists(x) /\ Owner(x) = o,
           NEW acc, NEW e \in Expirations, NEW oper,
           ProcessAccesses(o, g, x, acc, e, oper)
    PROVE  Spread
<1> SUFFICES ASSUME token' = token, block' = block,
                    NEW c \in (Grants \ Grants') \cup (Grants' \ Grants),
                    NEW d \in (Grants \ Grants') \cup (Grants' \ Grants)
             PROVE  /\ c[1] = d[1] /\ Owner(c[2]) = Owner(d[2])
                    /\ c[2] # d[2] /\ c[3] = d[3] =>
                         LET all == {<<c[1], t, c[3]>> : t \in inventory[Owner(c[2])]}
                         IN  all \subseteq Grants' \/ all \cap Grants' = {}
    BY DEF Spread
<1> DEFINE Triple == Grantee \X Idx \X PermTypes
<1>1. \A f : f \in Grants <=> f \in Triple /\ Exists(f[2]) /\ HasAccess(f[1], f[2], f[3])
    BY DEF Grants, HasAccess
<1>2. \A f : f \in Grants' <=> f \in Triple /\ Exists(f[2]) /\ HasAccess(f[1], f[2], f[3])'
    BY DEF Grants, HasAccess, Exists, Owner
<1>3. \A f \in (Grants \ Grants') \cup (Grants' \ Grants) :
          /\ f \in Triple /\ Exists(f[2]) /\ f[1] = g /\ Owner(f[2]) = o
          /\ f[2] = x \/ Wholesale(acc, f[3])
    <2> SUFFICES ASSUME NEW f \in (Grants \ Grants') \cup (Grants' \ Grants)
                 PROVE  /\ f \in Triple /\ Exists(f[2]) /\ f[1] = g /\ Owner(f[2]) = o
                        /\ f[2] = x \/ Wholesale(acc, f[3])
        OBVIOUS
    <2>1. f \in Triple /\ Exists(f[2])
        BY <1>1, <1>2
    <2>2. ~(HasAccess(f[1], f[2], f[3])' <=> HasAccess(f[1], f[2], f[3]))
        BY <1>1, <1>2, <2>1
    <2>3. f[1] \in Grantee /\ f[2] \in Idx /\ f[3] \in PermTypes
        BY <2>1
    <2> QED
        BY <2>1, <2>2, <2>3, AccessChange
<1>4. ASSUME c[2] # d[2], c[3] = d[3]
      PROVE  LET all == {<<c[1], t, c[3]>> : t \in inventory[Owner(c[2])]}
             IN  all \subseteq Grants' \/ all \cap Grants' = {}
    <2> DEFINE p == c[3]
               held == inventory[o]
    <2>1. Wholesale(acc, p) /\ p \in PermTypes
        BY <1>3, <1>4
    <2>2. \A t \in held : t \in Idx /\ Exists(t) /\ Owner(t) = o
        BY DEF IInv, TypeOK, InventoryExact
    <2>3. \A t \in held : HasAccess(g, t, p)' <=> Live(NewAll(o, g, acc, p, e, oper), block)
        <3> SUFFICES ASSUME NEW t \in held
                     PROVE  HasAccess(g, t, p)' <=> Live(NewAll(o, g, acc, p, e, oper), block)
            OBVIOUS
        <3>1. t \in Idx /\ Exists(t) /\ Owner(t) = o
            BY <2>2
        <3> QED
            BY <2>1, <3>1, AccessChange
    <2>4. \A t \in held : <<g, t, p>> \in Grants' <=> Live(NewAll(o, g, acc, p, e, oper), block)
        BY <1>2, <2>1, <2>2, <2>3
    <2>5. c[1] = g /\ Owner(c[2]) = o
        BY <1>3
    <2>6. {<<g, t, p>> : t \in held} \subseteq Grants' \/ {<<g, t, p>> : t \in held} \cap Grants' = {}
        BY <2>4
    <2> QED
        BY <2>5, <2>6
<1> QED
    BY <1>3, <1>4

(***************************************************************************)
(* An approval message touches one grantee and one owner's tokens, and for *)
(* each permission type one token or all of them: expanding an ALL into    *)
(* permissions on every token neither adds nor drops one.                  *)
(***************************************************************************)
THEOREM OneTokenOrAllCorrect == SnipSpec => OneTokenOrAll
<1>1. IInv /\ [SnipNext]_snipVars => [Spread]_snipVars
    <2> SUFFICES ASSUME IInv, SnipNext PROVE Spread
        OBVIOUS
    <2>1. CASE ApprovalNext
        <3>1. CASE UNCHANGED permVars
            <4>1. token' = token /\ block' = block => Grants' = Grants
                BY <3>1 DEF Grants, permVars, Exists, Owner
            <4> QED
                BY <4>1 DEF Spread
        <3> QED
            BY <2>1, <3>1, ApprovalCases, AccessesSpread
    <2>2. CASE AdminNext
        <3>1. UNCHANGED <<token, permVars, block>>
            BY <2>2, AdminFrame DEF ledgerVars, Handled
        <3>2. Grants' = Grants
            BY <3>1 DEF Grants, permVars, Exists, Owner
        <3> QED
            BY <3>2 DEF Spread
    <2>3. CASE LedgerNext
        <3>1. ASSUME NEW s \in Addr, NEW given \in MintIds, NEW new \in MintChoices,
                     Mint(s, given, new)
              PROVE  token' # token
            <4>1. mintCnt \in Idx
                BY <3>1, SnipAssumption DEF Mint, BelowLimit, IInv, TypeOK, Idx
            <4> QED
                BY <3>1, <4>1, MintTokens DEF Exists
        <3>2. ASSUME NEW s \in Addr, NEW id \in Ids, NEW to \in Addr, TransferNft(s, id, to)
              PROVE  token' # token
            <4>1. idxOf[id] \in Idx
                BY <3>2 DEF TransferNft, Exists
            <4> QED
                BY <3>2, <4>1, TransferTokens DEF TransferNft, MayMove, Owner
        <3>3. ASSUME NEW s \in Addr, NEW id \in Ids, BurnNft(s, id)
              PROVE  token' # token
            <4>1. idxOf[id] \in Idx
                BY <3>3 DEF BurnNft, Exists
            <4> QED
                BY <3>3, <4>1, BurnTokens DEF BurnNft, Exists
        <3> QED
            BY <2>3, <3>1, <3>2, <3>3 DEF LedgerNext, Spread
    <2>4. CASE NewBlock
        <3>1. block.height \in Nat
            BY DEF IInv, TypeOK, BlockInfo
        <3>2. block'.height = block.height + 1
            BY <2>4 DEF NewBlock
        <3>3. block' # block
            BY <3>1, <3>2
        <3> QED
            BY <3>3 DEF Spread
    <2> QED
        BY <2>1, <2>2, <2>3, <2>4 DEF SnipNext
<1> QED
    BY <1>1, InvCorrect, PTL DEF SnipSpec, OneTokenOrAll, Spread
=============================================================================

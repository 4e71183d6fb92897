-------------------------- MODULE MarketplaceProofs --------------------------
(***************************************************************************)
(* Proofs about Marketplace: what is for sale is listed, a minted id       *)
(* starts afresh, and with at most one recipient of royalties per token    *)
(* the contract implements the abstract exchange.                          *)
(***************************************************************************)
EXTENDS Marketplace, Snip721Proofs

-----------------------------------------------------------------------------
(* Sums of at most two terms, which SumFunction folds in any order.         *)

\* iter holds the sum of f over every set of indices
SumsUp(iter, f) ==
    iter = [s \in SUBSET DOMAIN f |->
               IF s = {} THEN 0
               ELSE LET x == CHOOSE y \in s : TRUE IN f[x] + iter[s \ {x}]]

\* SumFunction is what its fold computes.
LEMMA SumUnfold ==
    ASSUME NEW f
    PROVE  SumFunction(f) = (CHOOSE iter : SumsUp(iter, f))[DOMAIN f]
BY DEF SumFunction, SumFunctionOnSet, FoldFunctionOnSet, MapThenFoldSet, SumsUp

\* What every table of partial sums says of all indices is the sum.
LEMMA SumUnique ==
    ASSUME NEW f, NEW n, \E iter : SumsUp(iter, f),
           \A iter : SumsUp(iter, f) => iter[DOMAIN f] = n
    PROVE  SumFunction(f) = n
<1>1. SumsUp(CHOOSE iter : SumsUp(iter, f), f)
    OBVIOUS
<1> QED
    BY <1>1, SumUnfold

\* Nothing sums up to 0.
LEMMA SumNone == ASSUME NEW f, DOMAIN f = {} PROVE SumFunction(f) = 0
<1>1. SumsUp([s \in SUBSET DOMAIN f |-> 0], f)
    BY DEF SumsUp
<1>2. ASSUME NEW h, SumsUp(h, f) PROVE h[{}] = 0
    BY <1>2 DEF SumsUp
<1> QED
    BY <1>1, <1>2, SumUnique

\* One term is its own sum.
LEMMA SumOne ==
    ASSUME NEW f, NEW a, DOMAIN f = {a}, f[a] \in Nat
    PROVE  SumFunction(f) = f[a]
<1> DEFINE g == [s \in SUBSET {a} |-> IF s = {} THEN 0 ELSE f[a]]
<1>0. (CHOOSE x \in {a} : TRUE) = a
    OBVIOUS
<1>1. SumsUp(g, f)
    <2>1. \A s \in SUBSET {a} : s = {} \/ s = {a}
        OBVIOUS
    <2>2. g[{}] = 0
        OBVIOUS
    <2> QED
        BY <1>0, <2>1, <2>2 DEF SumsUp
<1>2. ASSUME NEW h, SumsUp(h, f) PROVE h[{a}] = f[a]
    <2>1. h[{}] = 0
        BY <1>2 DEF SumsUp
    <2>2. h[{a}] = f[a] + h[{a} \ {a}]
        BY <1>0, <1>2 DEF SumsUp
    <2> QED
        BY <2>1, <2>2
<1> HIDE DEF g
<1> QED
    BY <1>1, <1>2, SumUnique

\* Two terms, in either order.
LEMMA SumTwo ==
    ASSUME NEW f, NEW a, NEW b, a # b, DOMAIN f = {a, b}, f[a] \in Nat, f[b] \in Nat
    PROVE  SumFunction(f) = f[a] + f[b]
<1> DEFINE g == [s \in SUBSET {a, b} |->
                    (IF a \in s THEN f[a] ELSE 0) + (IF b \in s THEN f[b] ELSE 0)]
<1>0. /\ \A c : (CHOOSE x \in {c} : TRUE) = c
      /\ {a, b} \ {a} = {b} /\ {a, b} \ {b} = {a}
      /\ f[a] + f[b] = f[b] + f[a] /\ {a} \ {a} = {} /\ {b} \ {b} = {}
    OBVIOUS
<1>1. SumsUp(g, f)
    <2>1. \A s \in SUBSET {a, b} : s = {} \/ s = {a} \/ s = {b} \/ s = {a, b}
        OBVIOUS
    <2>2. g[{}] = 0 /\ g[{a}] = f[a] /\ g[{b}] = f[b] /\ g[{a, b}] = f[a] + f[b]
        OBVIOUS
    <2>3. (CHOOSE x \in {a, b} : TRUE) \in {a, b}
        OBVIOUS
    <2>4. \A s \in SUBSET {a, b} : s # {} =>
              LET x == CHOOSE y \in s : TRUE IN g[s] = f[x] + g[s \ {x}]
        <3> HIDE DEF g
        <3> SUFFICES ASSUME NEW s \in SUBSET {a, b}, s # {}, NEW x, x = CHOOSE y \in s : TRUE
                     PROVE  g[s] = f[x] + g[s \ {x}]
            OBVIOUS
        <3>1. CASE s = {a} \/ s = {b}
            <4>1. PICK c \in {a, b} : s = {c}
                BY <3>1
            <4>2. x = c /\ s \ {x} = {}
                BY <1>0, <4>1
            <4>3. g[s] = f[c] /\ f[c] \in Nat
                BY <2>2, <4>1
            <4>4. g[s \ {x}] = 0
                BY <2>2, <4>2
            <4>5. f[c] + 0 = f[c]
                BY <4>3
            <4> QED
                BY <4>2, <4>3, <4>4, <4>5
        <3>2. CASE s = {a, b}
            <4>1. x = a \/ x = b
                BY <2>3, <3>2
            <4> QED
                BY <1>0, <2>2, <3>2, <4>1
        <3> QED
            BY <2>1, <3>1, <3>2
    <2> QED
        BY <2>2, <2>4 DEF SumsUp
<1>2. ASSUME NEW h, SumsUp(h, f) PROVE h[{a, b}] = f[a] + f[b]
    <2>1. h[{}] = 0
        BY <1>2 DEF SumsUp
    <2>2. \A c \in {a, b} : h[{c}] = f[c]
        <3> TAKE c \in {a, b}
        <3>1. h[{c}] = f[c] + h[{c} \ {c}]
            BY <1>0, <1>2 DEF SumsUp
        <3> QED
        BY <2>1, <3>1
    <2>3. PICK x \in {a, b} : h[{a, b}] = f[x] + h[{a, b} \ {x}]
        BY <1>2 DEF SumsUp
    <2>4. CASE x = a
        BY <2>4, <2>3, <2>2
    <2>5. CASE x = b
        BY <1>0, <2>5, <2>3, <2>2
    <2> QED
        BY <2>4, <2>5
<1> HIDE DEF g
<1> QED
    BY <1>1, <1>2, SumUnique

-----------------------------------------------------------------------------
(* The invariant of the marketplace.                                        *)

SaleRecord == [status : {"ForSale", "NotForSale"}, price : Prices \cup {0}]
StoredInfo == {info \in MaybeInfo : RoyaltyOk(info)}

\* every store of the marketplace but the balance holds a value of its kind
SaleTypeOK ==
    /\ saleInfo \in [Idx -> SaleRecord \cup {None}]
    /\ forSale \subseteq Ids
    /\ saleNum \in [Idx -> {0, 1, None}]
    /\ royalty \in [Idx -> StoredInfo]
    /\ defaultRoy \in StoredInfo

\* an index that is yet to be given out has no sale record
UnusedUnsold == \A t \in Idx : t >= mintCnt => saleInfo[t] = None

\* Inductive: ForSaleIsListed with the ledger's invariant, which keeps ids and
\* tokens apart, and with what a burn leaves behind under an index
MarketInv ==
    /\ IInv
    /\ SaleTypeOK
    /\ UnusedUnsold
    /\ ForSaleIsListed

\* The contract starts with nothing for sale.
LEMMA MarketInitInv == Init => MarketInv
<1> SUFFICES ASSUME Init PROVE MarketInv
    OBVIOUS
<1>1. IInv
    BY InitInv DEF Init
<1>2. None \in StoredInfo /\ defaultRoy \in StoredInfo
    BY DEF Init, StoredInfo, MaybeInfo, RoyaltyOk
<1>3. SaleTypeOK
    BY <1>2 DEF Init, SaleTypeOK
<1>4. UnusedUnsold /\ ForSaleIsListed
    BY DEF Init, SnipInit, UnusedUnsold, ForSaleIsListed
<1> QED
    BY <1>1, <1>3, <1>4 DEF MarketInv

\* What the marketplace does to the ledger keeps its invariant.
LEMMA MarketLedgerInv == IInv /\ [Next]_vars => IInv'
<1> SUFFICES ASSUME IInv, [Next]_vars PROVE IInv'
    OBVIOUS
<1>1. CASE LedgerSteps
    BY <1>1, NextInv DEF LedgerSteps, MintNft, Transfer, Burn, SnipNext, LedgerNext
<1>2. CASE SaleSteps
    <2>1. ASSUME NEW s \in Addr, NEW id \in Ids, NEW paid, BuyToken(s, id, paid)
          PROVE  IInv'
        <3>1. /\ Exists(idxOf[id]) /\ Owner(idxOf[id]) # s
              /\ TransferEffect(idxOf[id], s) /\ Handled
            BY <2>1 DEF BuyToken, MayBuy
        <3>2. TypeOK
            BY DEF IInv
        <3> QED
            BY <3>1, <3>2, TransferInv, HandledType
    <2>2. ASSUME NEW s, NEW id, NEW sale, NEW price,
                 SetSaleStatus(s, id, sale, price) \/ SetPrice(s, id, price)
          PROVE  IInv'
        BY <2>2, QuietInv DEF SetSaleStatus, SetPrice
    <2> QED
        BY <1>2, <2>1, <2>2 DEF SaleSteps
<1>3. CASE MoneySteps
    BY <1>3, QuietInv DEF MoneySteps, Withdraw, SetTokenRoyalty, SetDefaultRoyalty
<1>4. CASE Others \/ NewBlock
    BY <1>4, NextInv DEF Others, SnipNext
<1>5. CASE Receive \/ UNCHANGED vars
    BY <1>5, NextInv DEF Receive, vars
<1> QED
    BY <1>1, <1>2, <1>3, <1>4, <1>5 DEF Next

\* An id stands for a token, and two ids for two tokens.
LEMMA IdsApart ==
    ASSUME IInv, NEW id \in Ids, idxOf[id] # None
    PROVE  /\ idxOf[id] \in Idx /\ Exists(idxOf[id])
           /\ \A j \in Ids : idxOf[j] = idxOf[id] => j = id
<1>1. idxOf[id] \in Idx
    BY DEF IInv, TypeOK
<1>2. \A j \in Ids : idxOf[j] = idxOf[id] <=> idOf[idxOf[id]] = j
    BY <1>1 DEF IInv, IdsExact
<1>3. idOf[idxOf[id]] # None
    BY <1>2, SnipAssumption
<1> QED
    BY <1>1, <1>2, <1>3 DEF IInv, IdsExact

\* What store_royalties stores it has accepted before.
LEMMA StoredType ==
    ASSUME SaleTypeOK, NEW info \in MaybeInfo, RoyaltyOk(info)
    PROVE  /\ info \in StoredInfo /\ Stored(info, defaultRoy) \in StoredInfo
           /\ None \in StoredInfo
BY DEF SaleTypeOK, StoredInfo, Stored, MaybeInfo, RoyaltyOk

\* The sale stores keep their types.
LEMMA SaleTypeStep == IInv /\ SaleTypeOK /\ [Next]_vars => SaleTypeOK'
<1> SUFFICES ASSUME IInv, SaleTypeOK, [Next]_vars PROVE SaleTypeOK'
    OBVIOUS
<1>1. CASE LedgerSteps
    <2>1. ASSUME NEW t \in Idx, UNCHANGED <<listVars, defaultRoy>>,
                 NEW num \in {0, 1, None}, NEW roy \in StoredInfo,
                 saleNum' = saleNum \/ saleNum' = [saleNum EXCEPT ![t] = num],
                 royalty' = royalty \/ royalty' = [royalty EXCEPT ![t] = roy]
          PROVE  SaleTypeOK'
        BY <2>1 DEF SaleTypeOK, listVars
    <2>2. ASSUME NEW s, NEW given, NEW new, NEW info \in MaybeInfo, MintNft(s, given, new, info)
          PROVE  SaleTypeOK'
        <3>1. NextIdx \in Idx
            BY <2>2, SnipAssumption DEF MintNft, Mint, BelowLimit, NextIdx, IInv, TypeOK, Idx
        <3>2. MintedRoyalty(new, info) \in StoredInfo
            <4>1. None \in StoredInfo
                BY DEF StoredInfo, MaybeInfo, RoyaltyOk
            <4>2. new.transferable => Stored(info, defaultRoy) \in StoredInfo
                BY <2>2, StoredType DEF MintNft
            <4> QED
                BY <4>1, <4>2 DEF MintedRoyalty
        <3> QED
            BY <2>1, <2>2, <3>1, <3>2 DEF MintNft
    <2>3. ASSUME NEW s, NEW id, NEW to, Transfer(s, id, to) PROVE SaleTypeOK'
        BY <2>3 DEF Transfer, SaleTypeOK, listVars, royVars
    <2>4. ASSUME NEW s, NEW id \in Ids, Burn(s, id) PROVE SaleTypeOK'
        <3>1. idxOf[id] \in Idx
            BY <2>4 DEF Burn, BurnNft, Exists
        <3>2. None \in StoredInfo
            BY DEF StoredInfo, MaybeInfo, RoyaltyOk
        <3> QED
            BY <2>1, <2>4, <3>1, <3>2 DEF Burn
    <2> QED
        BY <1>1, <2>2, <2>3, <2>4 DEF LedgerSteps
<1>2. CASE SaleSteps
    <2>1. ASSUME NEW s, NEW id \in Ids, NEW sale \in {"ForSale", "NotForSale"},
                 NEW price \in Prices \cup {0}, SetSaleStatus(s, id, sale, price)
          PROVE  SaleTypeOK'
        <3>1. price \in Nat /\ 0 \in Nat
            BY MarketAssumption
        <3>2. [status |-> sale, price |-> IF sale = "ForSale" THEN price ELSE 0] \in SaleRecord
            BY <3>1 DEF SaleRecord
        <3>3. saleInfo' \in [Idx -> SaleRecord \cup {None}]
            BY <2>1, <3>2 DEF SetSaleStatus, SaleTypeOK
        <3> QED
            BY <2>1, <3>3 DEF SetSaleStatus, DelistedIds, SaleTypeOK, royVars
    <2>2. ASSUME NEW s, NEW id \in Ids, NEW price \in Prices, SetPrice(s, id, price)
          PROVE  SaleTypeOK'
        <3>1. /\ idxOf[id] \in Idx /\ saleInfo[idxOf[id]] \in SaleRecord
              /\ price \in Nat
            BY <2>2, MarketAssumption DEF SetPrice, MayPrice, ForSale, Exists, SaleTypeOK
        <3>2. [saleInfo[idxOf[id]] EXCEPT !.price = price] \in SaleRecord
            BY <3>1 DEF SaleRecord
        <3>3. saleInfo' \in [Idx -> SaleRecord \cup {None}]
            BY <2>2, <3>2 DEF SetPrice, SaleTypeOK
        <3> QED
            BY <2>2, <3>3 DEF SetPrice, SaleTypeOK, royVars
    <2>3. ASSUME NEW s, NEW id \in Ids, NEW paid, BuyToken(s, id, paid)
          PROVE  SaleTypeOK'
        <3>1. [status |-> "NotForSale", price |-> 0] \in SaleRecord
            BY DEF SaleRecord
        <3>2. saleInfo' \in [Idx -> SaleRecord \cup {None}]
            BY <2>3, <3>1 DEF BuyToken, SoldInfo, SaleTypeOK
        <3> QED
            BY <2>3, <3>2 DEF BuyToken, DelistedIds, SaleTypeOK, royVars
    <2> QED
        BY <1>2, <2>1, <2>2, <2>3 DEF SaleSteps
<1>3. CASE MoneySteps
    <2>1. ASSUME NEW s, NEW id \in Ids, NEW info \in MaybeInfo, SetTokenRoyalty(s, id, info)
          PROVE  SaleTypeOK'
        BY <2>1, StoredType DEF SetTokenRoyalty, SaleTypeOK, listVars
    <2>2. ASSUME NEW s, NEW info \in MaybeInfo, SetDefaultRoyalty(s, info)
          PROVE  SaleTypeOK'
        BY <2>2, StoredType DEF SetDefaultRoyalty, SaleTypeOK, listVars
    <2> QED
        BY <1>3, <2>1, <2>2 DEF MoneySteps, Withdraw, SaleTypeOK, listVars, royVars
<1>4. CASE Receive \/ Others \/ (NewBlock /\ UNCHANGED saleVars) \/ UNCHANGED vars
    BY <1>4 DEF Receive, Others, SaleTypeOK, saleVars, vars, listVars, royVars
<1> QED
    BY <1>1, <1>2, <1>3, <1>4 DEF Next

\* An index that is yet to be given out stays without a sale record.
LEMMA UnusedStep == IInv /\ SaleTypeOK /\ UnusedUnsold /\ [Next]_vars => UnusedUnsold'
<1> SUFFICES ASSUME IInv, SaleTypeOK, UnusedUnsold, [Next]_vars PROVE UnusedUnsold'
    OBVIOUS
<1>1. mintCnt \in Nat
    BY SnipAssumption DEF IInv, TypeOK
<1>2. ASSUME UNCHANGED saleInfo, UNCHANGED mintCnt \/ mintCnt' = mintCnt + 1
      PROVE  UnusedUnsold'
    BY <1>1, <1>2 DEF UnusedUnsold, Idx
<1>3. ASSUME NEW t, Exists(t), UNCHANGED mintCnt,
             \A u \in Idx : u # t => saleInfo'[u] = saleInfo[u]
      PROVE  UnusedUnsold'
    <2>1. ~(t >= mintCnt)
        BY <1>1, <1>3 DEF IInv, IdsExact, Exists, Idx
    <2> QED
        BY <1>3, <2>1 DEF UnusedUnsold
<1>4. CASE LedgerSteps
    BY <1>2, <1>4
    DEF LedgerSteps, MintNft, Mint, MintEffect, Transfer, TransferNft, TransferEffect,
        Burn, BurnNft, BurnEffect, listVars
<1>5. CASE SaleSteps
    <2>1. ASSUME NEW s, NEW id, NEW sale, NEW price, SetSaleStatus(s, id, sale, price)
          PROVE  UnusedUnsold'
        <3>1. /\ Exists(idxOf[id]) /\ UNCHANGED mintCnt
              /\ \A u \in Idx : u # idxOf[id] => saleInfo'[u] = saleInfo[u]
            BY <2>1 DEF SetSaleStatus, SaleTypeOK, ledgerVars
        <3> QED
            BY <1>3, <3>1
    <2>2. ASSUME NEW s, NEW id, NEW price, SetPrice(s, id, price)
          PROVE  UnusedUnsold'
        <3>1. /\ Exists(idxOf[id]) /\ UNCHANGED mintCnt
              /\ \A u \in Idx : u # idxOf[id] => saleInfo'[u] = saleInfo[u]
            BY <2>2 DEF SetPrice, SaleTypeOK, ledgerVars
        <3> QED
            BY <1>3, <3>1
    <2>3. ASSUME NEW s, NEW id, NEW paid, BuyToken(s, id, paid)
          PROVE  UnusedUnsold'
        <3>1. /\ Exists(idxOf[id]) /\ UNCHANGED mintCnt
              /\ \A u \in Idx : u # idxOf[id] => saleInfo'[u] = saleInfo[u]
            BY <2>3 DEF BuyToken, SoldInfo, TransferEffect, SaleTypeOK
        <3> QED
            BY <1>3, <3>1
    <2> QED
        BY <1>5, <2>1, <2>2, <2>3 DEF SaleSteps
<1>6. CASE MoneySteps
    BY <1>2, <1>6
    DEF MoneySteps, Withdraw, SetTokenRoyalty, SetDefaultRoyalty, ledgerVars, listVars
<1>7. CASE Receive \/ (NewBlock /\ UNCHANGED saleVars) \/ UNCHANGED vars
    BY <1>2, <1>7
    DEF Receive, NewBlock, vars, saleVars, listVars, snipVars, ledgerVars
<1>8. CASE Others
    <2>1. UNCHANGED ledgerVars
        BY <1>8, ApprovalFrame, AdminFrame DEF Others
    <2> QED
        BY <1>2, <1>8, <2>1 DEF Others, listVars, ledgerVars
<1> QED
    BY <1>4, <1>5, <1>6, <1>7, <1>8 DEF Next

\* A step that leaves ids and sales alone, and tokens transferable.
LEMMA QuietListed ==
    ASSUME IInv, ForSaleIsListed, UNCHANGED <<idxOf, saleInfo, forSale>>,
           \A t \in Idx : Exists(t) => token'[t].transferable = token[t].transferable
    PROVE  ForSaleIsListed'
<1>1. \A id \in Ids : idxOf[id] # None => idxOf[id] \in Idx /\ Exists(idxOf[id])
    BY IdsApart
<1> QED
    BY <1>1 DEF ForSaleIsListed, ForSale

\* What happens to the sale of id concerns no other id.
LEMMA SaleListed ==
    ASSUME IInv, ForSaleIsListed, NEW id \in Ids, NEW n, n = idxOf[id], Exists(n),
           UNCHANGED idxOf,
           \A t \in Idx : Exists(t) => token'[t].transferable = token[t].transferable,
           \A t \in Idx : t # n => saleInfo'[t] = saleInfo[t],
           \A j \in Ids : j # id => (j \in forSale' <=> j \in forSale),
           saleInfo'[n] # None /\ saleInfo'[n].status = "ForSale"
               => id \in forSale' /\ token[n].transferable
    PROVE  ForSaleIsListed'
<1>1. \A j \in Ids : idxOf[j] # None => idxOf[j] \in Idx /\ Exists(idxOf[j])
    BY IdsApart
<1>2. n # None
    BY SnipAssumption DEF Exists
<1>3. \A j \in Ids : idxOf[j] = n => j = id
    BY <1>2, IdsApart
<1> QED
    BY <1>1, <1>3 DEF ForSaleIsListed, ForSale

\* A new token is not for sale, nor does it disturb another.
LEMMA MintListed ==
    ASSUME IInv, UnusedUnsold, ForSaleIsListed,
           NEW s, NEW given, NEW new \in MintChoices, NEW info, MintNft(s, given, new, info)
    PROVE  ForSaleIsListed'
<1>1. PICK n : n = mintCnt
    OBVIOUS
<1>2. \A t \in Idx : /\ n \in Idx /\ ~Exists(n)
                     /\ t # n => token'[t] = token[t]
    BY <1>1, MintTokens DEF MintNft
<1>3. saleInfo' = saleInfo /\ forSale' = forSale
    BY DEF MintNft, listVars
<1>4. n \in Idx => saleInfo[n] = None
    BY <1>1, SnipAssumption DEF UnusedUnsold, IInv, TypeOK
<1>5. \A j \in Ids : idxOf'[j] = n \/ idxOf'[j] = idxOf[j]
    BY <1>1 DEF MintNft, Mint, MintEffect, NextIdx, IInv, TypeOK
<1>6. \A j \in Ids : idxOf[j] # None => idxOf[j] \in Idx /\ Exists(idxOf[j])
    BY IdsApart
<1>7. n \in Idx
    BY <1>1, SnipAssumption DEF MintNft, Mint, BelowLimit, IInv, TypeOK, Idx
<1> SUFFICES ASSUME NEW j \in Ids, idxOf'[j] # None, ForSale(idxOf[j])'
             PROVE  j \in forSale' /\ token'[idxOf'[j]].transferable
    BY DEF ForSaleIsListed
<1>8. idxOf'[j] # n
    BY <1>3, <1>4, <1>7 DEF ForSale
<1> QED
    BY <1>2, <1>3, <1>5, <1>6, <1>8 DEF ForSaleIsListed, ForSale

\* A burned token takes its id out of use.
LEMMA BurnListed ==
    ASSUME IInv, ForSaleIsListed, NEW s, NEW id \in Ids, Burn(s, id)
    PROVE  ForSaleIsListed'
<1>1. PICK n : n = idxOf[id]
    OBVIOUS
<1>2. Exists(n) /\ BurnEffect(n, id)
    BY <1>1 DEF Burn, BurnNft
<1>3. \A t \in Idx : t # n => token'[t] = token[t]
    BY <1>2, BurnTokens
<1>4. saleInfo' = saleInfo /\ forSale' = forSale
    BY DEF Burn, listVars
<1>5. \A j \in Ids : idxOf'[j] = IF j = id THEN None ELSE idxOf[j]
    BY <1>2 DEF BurnEffect, BurnedIds, IInv, TypeOK
<1>6. \A j \in Ids : idxOf[j] # None => idxOf[j] \in Idx /\ (idxOf[j] = n => j = id)
    <2> TAKE j \in Ids
    <2>1. n # None
        BY <1>2, SnipAssumption DEF Exists
    <2> QED
        BY <1>1, <2>1, IdsApart
<1> QED
    BY <1>3, <1>4, <1>5, <1>6 DEF ForSaleIsListed, ForSale

\* A step of a seller or buyer lists what is for sale.
LEMMA SaleStepsListed == MarketInv /\ SaleSteps => ForSaleIsListed'
<1> SUFFICES ASSUME MarketInv, SaleSteps PROVE ForSaleIsListed'
    OBVIOUS
<1>1. IInv /\ SaleTypeOK /\ ForSaleIsListed
    BY DEF MarketInv
<1>2. ASSUME NEW s, NEW id \in Ids, NEW sale, NEW price, SetSaleStatus(s, id, sale, price)
      PROVE  ForSaleIsListed'
    <2>1. PICK n : n = idxOf[id]
        OBVIOUS
    <2>2. /\ Exists(n) /\ token[n].transferable /\ UNCHANGED <<idxOf, token>>
          /\ \A t \in Idx : t # n => saleInfo'[t] = saleInfo[t]
          /\ \A j \in Ids : j # id => (j \in forSale' <=> j \in forSale)
          /\ saleInfo'[n].status = "ForSale" => id \in forSale'
        BY <1>1, <1>2, <2>1
        DEF SetSaleStatus, MayList, Exists, DelistedIds, SaleTypeOK, ledgerVars
    <2> QED
        BY <1>1, <2>1, <2>2, SaleListed
<1>3. ASSUME NEW s, NEW id \in Ids, NEW price, SetPrice(s, id, price)
      PROVE  ForSaleIsListed'
    <2>1. PICK n : n = idxOf[id]
        OBVIOUS
    <2>2. /\ Exists(n) /\ ForSale(n) /\ UNCHANGED <<idxOf, token, forSale>>
          /\ \A t \in Idx : t # n => saleInfo'[t] = saleInfo[t]
        BY <1>1, <1>3, <2>1 DEF SetPrice, MayPrice, SaleTypeOK, ledgerVars
    <2>3. id \in forSale /\ token[n].transferable
        BY <1>1, <2>1, <2>2, SnipAssumption DEF ForSaleIsListed, Exists
    <2> QED
        BY <1>1, <2>1, <2>2, <2>3, SaleListed
<1>4. ASSUME NEW s \in Addr, NEW id \in Ids, NEW paid, BuyToken(s, id, paid)
      PROVE  ForSaleIsListed'
    <2>1. PICK n : n = idxOf[id]
        OBVIOUS
    <2>2. Exists(n) /\ TransferEffect(n, s)
        BY <1>4, <2>1 DEF BuyToken
    <2>3. \A t \in Idx : Exists(t) => token'[t].transferable = token[t].transferable
        BY <1>1, <2>2, TransferTokens
    <2>4. /\ UNCHANGED idxOf
          /\ \A t \in Idx : t # n => saleInfo'[t] = saleInfo[t]
          /\ \A j \in Ids : j # id => (j \in forSale' <=> j \in forSale)
          /\ saleInfo'[n].status = "NotForSale"
        BY <1>1, <1>4, <2>1, <2>2
        DEF BuyToken, SoldInfo, DelistedIds, TransferEffect, SaleTypeOK, Exists
    <2> QED
        BY <1>1, <2>1, <2>2, <2>3, <2>4, SaleListed
<1> QED
    BY <1>2, <1>3, <1>4 DEF SaleSteps

\* Every step of the contract keeps the invariant.
LEMMA MarketNextInv == MarketInv /\ [Next]_vars => MarketInv'
<1> SUFFICES ASSUME MarketInv, [Next]_vars PROVE MarketInv'
    OBVIOUS
<1>1. IInv /\ SaleTypeOK /\ UnusedUnsold /\ ForSaleIsListed
    BY DEF MarketInv
<1>2. IInv' /\ SaleTypeOK' /\ UnusedUnsold'
    BY <1>1, MarketLedgerInv, SaleTypeStep, UnusedStep
<1>3. CASE LedgerSteps
    <2>1. ASSUME NEW s, NEW id, NEW to \in Addr, Transfer(s, id, to) PROVE ForSaleIsListed'
        <3>1. /\ Exists(idxOf[id]) /\ TransferEffect(idxOf[id], to)
              /\ UNCHANGED <<idxOf, saleInfo, forSale>>
            BY <2>1 DEF Transfer, TransferNft, TransferEffect, listVars
        <3>2. \A t \in Idx : Exists(t) => token'[t].transferable = token[t].transferable
            BY <1>1, <3>1, TransferTokens
        <3> QED
            BY <1>1, <3>1, <3>2, QuietListed
    <2>2. ForSaleIsListed'
        BY <1>1, <1>3, <2>1, MintListed, BurnListed DEF LedgerSteps
    <2> QED
        BY <1>2, <2>2 DEF MarketInv
<1>4. CASE SaleSteps
    BY <1>2, <1>4, SaleStepsListed DEF MarketInv
<1>5. CASE MoneySteps \/ Receive \/ Others \/ (NewBlock /\ UNCHANGED saleVars) \/ UNCHANGED vars
    <2>1. Others => UNCHANGED ledgerVars
        BY ApprovalFrame, AdminFrame DEF Others
    <2>2. UNCHANGED <<idxOf, token, saleInfo, forSale>>
        BY <1>5, <2>1
        DEF MoneySteps, Withdraw, SetTokenRoyalty, SetDefaultRoyalty, Receive, Others,
            NewBlock, vars, snipVars, saleVars, ledgerVars, listVars
    <2> QED
        BY <1>1, <1>2, <2>2, QuietListed DEF MarketInv
<1> QED
    BY <1>3, <1>4, <1>5 DEF Next

\* MarketInv holds in every reachable state.
LEMMA MarketInvCorrect == Spec => []MarketInv
BY MarketInitInv, MarketNextInv, PTL DEF Spec

(***************************************************************************)
(* A token that is for sale is in the list TokensForSale returns and may   *)
(* be transferred, also after its id was burned and minted again.          *)
(***************************************************************************)
THEOREM ForSaleIsListedCorrect == Spec => []ForSaleIsListed
<1>1. MarketInv => ForSaleIsListed
    BY DEF MarketInv
<1> QED
    BY <1>1, MarketInvCorrect, PTL

(***************************************************************************)
(* A minted id starts afresh, whatever a burn left behind of the token     *)
(* that had the id before: not for sale, unsold and approved to nobody.    *)
(***************************************************************************)
THEOREM FreshStartCorrect == Spec => FreshStart
<1> DEFINE Fresh == \A id \in Ids, t \in Idx : idxOf[id] = None /\ idxOf'[id] = t =>
         /\ ~ForSale(t)' /\ saleNum'[t] = 0
         /\ tokPerm'[t] = NoGrants
         /\ \A o \in Addr, g \in Grantee, p \in PermTypes : t \notin authList'[o][g][p]
<1>1. MarketInv /\ [Next]_vars => [Fresh]_vars
    <2> SUFFICES ASSUME MarketInv, [Next]_vars, NEW id \in Ids, NEW t \in Idx,
                        idxOf[id] = None, idxOf'[id] = t
                 PROVE  /\ ~ForSale(t)' /\ saleNum'[t] = 0
                        /\ tokPerm'[t] = NoGrants
                        /\ \A o \in Addr, g \in Grantee, p \in PermTypes :
                               t \notin authList'[o][g][p]
        OBVIOUS
    <2>1. IInv /\ IInv' /\ SaleTypeOK /\ UnusedUnsold
        BY MarketLedgerInv DEF MarketInv
    <2>2. idxOf'[id] # idxOf[id]
        BY SnipAssumption
    <2>3. PICK s \in Addr, given \in MintIds, new \in MintChoices, info \in MaybeInfo :
              MintNft(s, given, new, info)
        <3>1. ASSUME NEW j \in Ids, NEW u, Burn(u, j) PROVE FALSE
            BY <2>1, <2>2, <3>1 DEF Burn, BurnNft, BurnEffect, BurnedIds, IInv, TypeOK
        <3>2. Others => UNCHANGED ledgerVars
            BY ApprovalFrame, AdminFrame DEF Others
        <3> QED
            BY <2>2, <3>1, <3>2
            DEF Next, LedgerSteps, Transfer, TransferNft, TransferEffect, SaleSteps,
                SetSaleStatus, SetPrice, BuyToken, MoneySteps, Withdraw, SetTokenRoyalty,
                SetDefaultRoyalty, Receive, NewBlock, vars, snipVars, ledgerVars
    <2>4. PICK n : n = mintCnt
        OBVIOUS
    <2>5. t = n
        BY <2>1, <2>2, <2>3, <2>4 DEF MintNft, Mint, MintEffect, NextIdx, IInv, TypeOK
    <2>6. tokPerm'[t] = NoGrants
        BY <2>1, <2>3, <2>4, <2>5, MintTokens DEF MintNft
    <2>7. ~ForSale(t)'
        <3>1. saleInfo[t] = None
            BY <2>1, <2>4, <2>5, SnipAssumption DEF UnusedUnsold, IInv, TypeOK
        <3> QED
            BY <2>3, <3>1 DEF MintNft, listVars, ForSale
    <2>8. saleNum'[t] = 0
        BY <2>1, <2>3, <2>4, <2>5 DEF MintNft, NextIdx, SaleTypeOK
    <2>9. \A o \in Addr, g \in Grantee, p \in PermTypes : t \notin authList'[o][g][p]
        <3> TAKE o \in Addr, g \in Grantee, p \in PermTypes
        <3>1. tokPerm'[t][g][p] = None
            BY <2>6 DEF NoGrants, NoPerms
        <3> QED
            BY <2>1, <3>1 DEF IInv, AuthListExact
    <2> QED
        BY <2>6, <2>7, <2>8, <2>9
<1> QED
    BY <1>1, MarketInvCorrect, PTL DEF Spec, FreshStart

-----------------------------------------------------------------------------
(* The price covers what a sale pays, if royalties have one recipient.      *)

\* With two recipients it does not: SalesNeverDrain is violated
OneRecipient == \A info \in RoyaltyInfos : Len(info.royalties) <= 1

\* A quotient is not larger than a factor of what is divided.
LEMMA DivBound ==
    ASSUME NEW a \in Nat, NEW b \in Nat \ {0}, NEW c \in Nat, a <= c * b
    PROVE  a \div b \in Nat /\ a \div b <= c
OBVIOUS

\* A product grows with its factor.
LEMMA TimesMonotone ==
    ASSUME NEW a \in Nat, NEW b \in Nat, NEW c \in Nat, a <= b
    PROVE  a * c \in Nat /\ a * c <= b * c
OBVIOUS

\* A seller gets no more than the price.
LEMMA FeeBound ==
    ASSUME NEW amount \in Nat
    PROVE  LessFee(amount) \in Nat /\ LessFee(amount) <= amount
BY DEF LessFee

\* A recipient gets no more than the price.
LEMMA ShareBound ==
    ASSUME NEW price \in Nat, NEW rate \in Nat, NEW decimals \in Nat,
           decimals <= MaxU256Digits, rate <= 10 ^ decimals
    PROVE  LET share == RoyaltyShare(price, rate, decimals)
           IN  share \in Nat /\ share <= price
<1> DEFINE whole == 10 ^ decimals
           part == (rate * DecFrac) \div whole
<1>1. whole \in Nat \ {0} /\ DecFrac \in Nat \ {0}
    BY MarketAssumption
<1>2. part \in Nat /\ part <= DecFrac
    <2> HIDE DEF whole
    <2>1. rate * DecFrac \in Nat /\ rate * DecFrac <= whole * DecFrac
        BY <1>1, TimesMonotone DEF whole
    <2>2. whole * DecFrac = DecFrac * whole
        BY <1>1
    <2> QED
        BY <1>1, <2>1, <2>2, DivBound
<1>3. price * part \in Nat /\ price * part <= price * DecFrac
    <2> HIDE DEF part
    <2>1. part * price \in Nat /\ part * price <= DecFrac * price
        BY <1>1, <1>2, TimesMonotone
    <2> QED
        BY <1>1, <1>2, <2>1
<1> HIDE DEF part
<1>4. (price * part) \div DecFrac \in Nat /\ (price * part) \div DecFrac <= price
    BY <1>1, <1>3, DivBound
<1> QED
    BY <1>4 DEF RoyaltyShare, part, whole

\* A sequence is a function on the numbers up to its length.
LEMMA SeqEntries ==
    ASSUME NEW S, NEW q \in Seq(S)
    PROVE  /\ Len(q) \in Nat /\ DOMAIN q = 1 .. Len(q)
           /\ \A i \in 1 .. Len(q) : q[i] \in S
OBVIOUS

\* The rate of a single royalty is at most one.
LEMMA SingleRate ==
    ASSUME OneRecipient, NEW info \in StoredInfo, info # None, NEW n, n = Len(info.royalties)
    PROVE  /\ n \in {0, 1} /\ info.royalties \in Seq([recipient : Addr, rate : Nat])
           /\ info.decimals \in Nat /\ info.decimals <= MaxU256Digits
           /\ n = 1 => /\ info.royalties[1].rate \in Nat
                       /\ info.royalties[1].rate <= 10 ^ info.decimals
<1>1. /\ info \in RoyaltyInfos /\ RoyaltyOk(info)
    BY DEF StoredInfo, MaybeInfo
<1>2. /\ info.decimals \in Nat /\ info.royalties \in Seq([recipient : Addr, rate : Nat])
    BY <1>1, MarketAssumption
<1>3. /\ n \in Nat /\ DOMAIN info.royalties = 1 .. n
      /\ \A i \in 1 .. n : info.royalties[i] \in [recipient : Addr, rate : Nat]
    BY <1>2, SeqEntries
<1>4. n \in {0, 1}
    <2>1. Len(info.royalties) <= 1
        BY <1>1 DEF OneRecipient
    <2>2. n \in Nat /\ n <= 1
        BY <1>3, <2>1
    <2>3. \A m \in Nat : m <= 1 => m \in {0, 1}
        OBVIOUS
    <2> QED
        BY <2>2, <2>3
<1>5. ASSUME n = 1
      PROVE  info.royalties[1].rate \in Nat /\ info.royalties[1].rate <= 10 ^ info.decimals
    <2> DEFINE f == [i \in DOMAIN info.royalties |-> info.royalties[i].rate]
    <2>1. DOMAIN info.royalties = {1}
        BY <1>3, <1>5
    <2>2. info.royalties[1].rate \in Nat
        BY <1>3, <1>5
    <2>3. DOMAIN f = {1} /\ f[1] = info.royalties[1].rate
        BY <2>1
    <2> HIDE DEF f
    <2>4. SumFunction(f) = info.royalties[1].rate
        BY <2>2, <2>3, SumOne
    <2> QED
        BY <1>1, <2>2, <2>4 DEF RoyaltyOk, TotalRate, f
<1> QED
    BY <1>1, <1>2, <1>4, <1>5 DEF RoyaltyOk

\* What a sale sends: the seller's payment, before it a recipient's share or
\* nothing at all when the royalties list nobody.
LEMMA SaleSendsCases ==
    ASSUME OneRecipient, SaleTypeOK, NEW t \in Idx, NEW price \in Nat, NEW seller
    PROVE  LET sends == SaleSends(t, price, seller)
               info == RoyaltiesOf(t)
               share == RoyaltyShare(price, info.royalties[1].rate, info.decimals)
           IN
           \/ /\ ~PaysRoyalties(t)
              /\ DOMAIN sends = {1} /\ sends[1] = Send(seller, LessFee(price))
           \/ /\ PaysRoyalties(t) /\ Len(info.royalties) = 0
              /\ DOMAIN sends = {}
           \/ /\ PaysRoyalties(t) /\ Len(info.royalties) = 1
              /\ info.royalties[1].rate \in Nat /\ info.decimals \in Nat
              /\ info.decimals <= MaxU256Digits
              /\ share \in Nat /\ share <= price
              /\ DOMAIN sends = {1, 2}
              /\ sends[1] = Send(info.royalties[1].recipient, share)
              /\ sends[2] = Send(seller, LessFee(price - share))
<1> DEFINE info == RoyaltiesOf(t)
           roys == info.royalties
           share == RoyaltyShare(price, roys[1].rate, info.decimals)
<1>1. CASE ~PaysRoyalties(t)
    BY <1>1 DEF SaleSends
<1>2. CASE PaysRoyalties(t)
    <2>1. SaleSends(t, price, seller) = RoyaltySends(info, price, seller)
        BY <1>2 DEF SaleSends
    <2>2. info \in StoredInfo /\ info # None
        BY <1>2 DEF PaysRoyalties, RoyaltiesOf, SaleTypeOK
    <2> HIDE DEF info
    <2>3. /\ Len(roys) \in {0, 1} /\ info.decimals \in Nat
          /\ info.decimals <= MaxU256Digits
          /\ Len(roys) = 1 => roys[1].rate \in Nat /\ roys[1].rate <= 10 ^ info.decimals
        BY <2>2, SingleRate
    <2>4. CASE Len(roys) = 0
        BY <1>2, <2>1, <2>4 DEF RoyaltySends, info
    <2>5. CASE Len(roys) = 1
        <3>1. share \in Nat /\ share <= price
            BY <2>3, <2>5, ShareBound
        <3>2. RoyaltySends(info, price, seller) = [n \in {1, 2} |->
                  IF n = 1 THEN Send(roys[1].recipient, share)
                           ELSE Send(seller, LessFee(price - share))]
            <4>1. 1 .. 2 * Len(roys) = {1, 2}
                BY <2>5
            <4>2. (1 + 1) \div 2 = 1 /\ (2 + 1) \div 2 = 1 /\ 1 % 2 = 1 /\ 2 % 2 = 0
                OBVIOUS
            <4> HIDE DEF roys
            <4> QED
                BY <4>1, <4>2 DEF RoyaltySends, roys
        <3> HIDE DEF share
        <3>3. /\ DOMAIN RoyaltySends(info, price, seller) = {1, 2}
              /\ RoyaltySends(info, price, seller)[1] = Send(roys[1].recipient, share)
              /\ RoyaltySends(info, price, seller)[2] = Send(seller, LessFee(price - share))
            BY <3>2
        <3> QED
            BY <1>2, <2>1, <2>3, <2>5, <3>1, <3>3 DEF share, info
    <2> QED
        BY <2>3, <2>4, <2>5
<1> QED
    BY <1>1, <1>2

\* The sums of none, one and two messages.
LEMMA TotalOfFew ==
    ASSUME NEW sends
    PROVE  /\ DOMAIN sends = {} => TotalSent(sends) = 0
           /\ DOMAIN sends = {1} /\ sends[1].amount \in Nat => TotalSent(sends) = sends[1].amount
           /\ DOMAIN sends = {1, 2} /\ sends[1].amount \in Nat /\ sends[2].amount \in Nat
                  => TotalSent(sends) = sends[1].amount + sends[2].amount
<1> DEFINE f == [i \in DOMAIN sends |-> sends[i].amount]
<1>1. DOMAIN f = DOMAIN sends /\ \A i \in DOMAIN sends : f[i] = sends[i].amount
    OBVIOUS
<1>2. TotalSent(sends) = SumFunction(f)
    BY DEF TotalSent
<1> HIDE DEF f
<1>3. DOMAIN sends = {} => SumFunction(f) = 0
    BY <1>1, SumNone
<1>4. DOMAIN sends = {1} /\ sends[1].amount \in Nat => SumFunction(f) = sends[1].amount
    <2> SUFFICES ASSUME DOMAIN sends = {1}, sends[1].amount \in Nat
                 PROVE  SumFunction(f) = sends[1].amount
        OBVIOUS
    <2>1. DOMAIN f = {1} /\ f[1] = sends[1].amount
        BY <1>1
    <2> QED
        BY <2>1, SumOne
<1>5. DOMAIN sends = {1, 2} /\ sends[1].amount \in Nat /\ sends[2].amount \in Nat
          => SumFunction(f) = sends[1].amount + sends[2].amount
    <2> SUFFICES ASSUME DOMAIN sends = {1, 2}, sends[1].amount \in Nat, sends[2].amount \in Nat
                 PROVE  SumFunction(f) = sends[1].amount + sends[2].amount
        OBVIOUS
    <2>1. DOMAIN f = {1, 2} /\ f[1] = sends[1].amount /\ f[2] = sends[2].amount /\ 1 # 2
        BY <1>1
    <2> QED
        BY <2>1, SumTwo
<1> QED
    BY <1>2, <1>3, <1>4, <1>5

\* What a sale sends is not more than the price.
LEMMA PriceCovers ==
    ASSUME OneRecipient, SaleTypeOK, NEW t \in Idx, NEW price \in Nat, NEW seller
    PROVE  LET total == TotalSent(SaleSends(t, price, seller))
           IN  total \in Nat /\ total <= price
<1> DEFINE sends == SaleSends(t, price, seller)
           info == RoyaltiesOf(t)
           share == RoyaltyShare(price, info.royalties[1].rate, info.decimals)
<1>1. LessFee(price) \in Nat /\ LessFee(price) <= price
    BY FeeBound
<1>2. \/ DOMAIN sends = {1} /\ sends[1] = Send(seller, LessFee(price))
      \/ DOMAIN sends = {}
      \/ /\ share \in Nat /\ share <= price /\ DOMAIN sends = {1, 2}
         /\ sends[1] = Send(info.royalties[1].recipient, share)
         /\ sends[2] = Send(seller, LessFee(price - share))
    BY SaleSendsCases
<1> HIDE DEF sends, share
<1>3. CASE DOMAIN sends = {1} /\ sends[1] = Send(seller, LessFee(price))
    <2>1. TotalSent(sends) = LessFee(price)
        BY <1>1, <1>3, TotalOfFew DEF Send
    <2> QED
        BY <1>1, <2>1 DEF sends
<1>4. CASE DOMAIN sends = {}
    BY <1>4, TotalOfFew DEF sends
<1>5. CASE /\ share \in Nat /\ share <= price /\ DOMAIN sends = {1, 2}
           /\ sends[1] = Send(info.royalties[1].recipient, share)
           /\ sends[2] = Send(seller, LessFee(price - share))
    <2>1. price - share \in Nat
        BY <1>5
    <2>2. LessFee(price - share) \in Nat /\ LessFee(price - share) <= price - share
        BY <2>1, FeeBound
    <2>3. TotalSent(sends) = share + LessFee(price - share)
        BY <1>5, <2>2, TotalOfFew DEF Send
    <2> QED
        BY <1>5, <2>1, <2>2, <2>3 DEF sends
<1> QED
    BY <1>2, <1>3, <1>4, <1>5

-----------------------------------------------------------------------------
(* The contract implements the exchange.                                    *)

\* the exchange's variables, id by id
HolderOf(id) == IF idxOf[id] = None THEN None ELSE Owner(idxOf[id])
AskOf(id) == IF idxOf[id] # None /\ ForSale(idxOf[id]) THEN saleInfo[idxOf[id]].price ELSE None

SameHolders(changed) == \A j \in Ids \ changed : HolderOf(j)' = HolderOf(j)
SameAsks(changed) == \A j \in Ids \ changed : AskOf(j)' = AskOf(j)

\* Where no id is concerned, the exchange stutters or its bank moves.
LEMMA ExchangeQuiet ==
    ASSUME SameHolders({}), SameAsks({}), UNCHANGED forSale,
           treasury' \in Nat, treasury' >= treasury \/ treasury' = 0
    PROVE  Ex!Next
<1>1. /\ UNCHANGED [j \in Ids |-> HolderOf(j)]
      /\ UNCHANGED [j \in Ids |-> AskOf(j)]
    BY DEF SameHolders, SameAsks
<1>2. Ex!Bank
    BY <1>1 DEF Ex!Bank, HolderOf, AskOf
<1> QED
    BY <1>2 DEF Ex!Next

\* The steps of the exchange in these terms.
LEMMA ExchangeSteps ==
    ASSUME NEW id \in Ids
    PROVE  /\ \A a \in Addr :
                 /\ SameHolders({id}) /\ SameAsks({}) /\ UNCHANGED <<forSale, treasury>>
                 /\ HolderOf(id) # a /\ HolderOf(id)' = a
                 => Ex!Next
           /\ /\ HolderOf(id) # None /\ HolderOf(id)' = None /\ SameHolders({id})
              /\ AskOf(id) = None \/ BurnIsEnabled
              /\ AskOf(id)' = None /\ SameAsks({id}) /\ UNCHANGED <<forSale, treasury>>
              => Ex!Next
           /\ \A price \in Prices \cup {0} :
                 /\ HolderOf(id) # None /\ SameHolders({}) /\ UNCHANGED treasury
                 /\ AskOf(id)' = price /\ SameAsks({id}) /\ forSale' = forSale \cup {id}
                 => Ex!Next
           /\ /\ HolderOf(id) # None /\ SameHolders({}) /\ UNCHANGED treasury
              /\ AskOf(id)' = None /\ SameAsks({id}) /\ forSale' = forSale \ {id}
              => Ex!Next
           /\ \A a \in Addr :
                 /\ HolderOf(id) # None /\ HolderOf(id) # a /\ id \in forSale
                 /\ AskOf(id) \in Nat \ {0}
                 /\ HolderOf(id)' = a /\ SameHolders({id})
                 /\ AskOf(id)' = None /\ SameAsks({id}) /\ forSale' = forSale \ {id}
                 /\ treasury' \in Nat /\ treasury' >= treasury
                 => Ex!Next
<1> DEFINE holder == [j \in Ids |-> HolderOf(j)]
           ask == [j \in Ids |-> AskOf(j)]
<1>1. SameHolders({}) => UNCHANGED holder
    BY DEF SameHolders
<1>2. SameAsks({}) => UNCHANGED ask
    BY DEF SameAsks
<1>3. \A a : HolderOf(id)' = a /\ SameHolders({id}) => holder' = [holder EXCEPT ![id] = a]
    BY DEF SameHolders
<1>4. \A a : AskOf(id)' = a /\ SameAsks({id}) => ask' = [ask EXCEPT ![id] = a]
    BY DEF SameAsks
<1>5. holder[id] = HolderOf(id) /\ ask[id] = AskOf(id)
    OBVIOUS
<1>8. ASSUME NEW a,
             holder[id] # a, holder' = [holder EXCEPT ![id] = a],
             UNCHANGED <<ask, forSale, treasury>>
      PROVE  Ex!Create(id, a) \/ Ex!Give(id, a)
    BY <1>8 DEF Ex!Create, Ex!Give, Ex!Held, HolderOf, AskOf
<1>9. /\ holder[id] # None /\ holder' = [holder EXCEPT ![id] = None]
      /\ ask[id] = None \/ BurnIsEnabled
      /\ ask' = [ask EXCEPT ![id] = None] /\ UNCHANGED <<forSale, treasury>>
      => Ex!Destroy(id)
    BY DEF Ex!Destroy, Ex!Held, HolderOf, AskOf
<1>10. ASSUME NEW price,
              holder[id] # None, UNCHANGED <<holder, treasury>>,
              ask' = [ask EXCEPT ![id] = price], forSale' = forSale \cup {id}
       PROVE  Ex!Offer(id, price)
    BY <1>10 DEF Ex!Offer, Ex!Held, HolderOf, AskOf
<1>11. /\ holder[id] # None /\ UNCHANGED <<holder, treasury>>
       /\ ask' = [ask EXCEPT ![id] = None] /\ forSale' = forSale \ {id}
       => Ex!Retract(id)
    BY DEF Ex!Retract, Ex!Held, HolderOf, AskOf
<1>12. ASSUME NEW a,
              holder[id] # None, holder[id] # a, id \in forSale, ask[id] \in Nat \ {0},
              holder' = [holder EXCEPT ![id] = a], ask' = [ask EXCEPT ![id] = None],
              forSale' = forSale \ {id}, treasury' \in Nat, treasury' >= treasury
       PROVE  Ex!Trade(id, a)
    BY <1>12 DEF Ex!Trade, Ex!Held, HolderOf, AskOf
<1> HIDE DEF holder, ask
<1> QED
    BY <1>1, <1>2, <1>3, <1>4, <1>5, <1>8, <1>9, <1>10, <1>11, <1>12 DEF Ex!Next

\* An id whose token is left alone keeps its holder and its ask.
LEMMA OthersSame ==
    ASSUME IInv, NEW j \in Ids, UNCHANGED idxOf[j],
           idxOf[j] \in Idx => UNCHANGED <<token[idxOf[j]], saleInfo[idxOf[j]]>>
    PROVE  HolderOf(j)' = HolderOf(j) /\ AskOf(j)' = AskOf(j)
<1>1. idxOf[j] \in Idx \cup {None}
    BY DEF IInv, TypeOK
<1> QED
    BY <1>1 DEF HolderOf, AskOf, ForSale, Owner

\* A mint creates a token that nobody asks anything for.
LEMMA MintExchange ==
    ASSUME MarketInv, NEW s \in Addr, NEW given \in MintIds, NEW new \in MintChoices, NEW info,
           MintNft(s, given, new, info)
    PROVE  Ex!Next
<1>0. IInv /\ UnusedUnsold
    BY DEF MarketInv
<1>1. PICK n : n = mintCnt
    OBVIOUS
<1>2. n \in Idx
    BY <1>0, <1>1, SnipAssumption DEF MintNft, Mint, BelowLimit, IInv, TypeOK, Idx
<1>3. PICK id \in Ids : id = MintId(given)
    BY <1>1, <1>2, SnipAssumption DEF MintId
<1>4. idxOf[id] = None /\ new.owner \in Addr
    BY <1>3, SnipAssumption DEF MintNft, Mint, MayMint
<1>5. \A t \in Idx : /\ token'[n] = new /\ ~Exists(n)
                     /\ t # n => token'[t] = token[t]
    BY <1>0, <1>1, MintTokens DEF MintNft
<1>6. /\ \A j \in Ids : idxOf'[j] = IF j = id THEN n ELSE idxOf[j]
      /\ UNCHANGED <<saleInfo, forSale, treasury>>
    BY <1>0, <1>1, <1>3
    DEF MintNft, Mint, MintEffect, NextIdx, NoMoney, listVars, IInv, TypeOK
<1>7. saleInfo[n] = None
    BY <1>0, <1>1, <1>2, SnipAssumption DEF UnusedUnsold, IInv, TypeOK
<1>8. ASSUME NEW j \in Ids \ {id} PROVE HolderOf(j)' = HolderOf(j) /\ AskOf(j)' = AskOf(j)
    <2>1. idxOf'[j] = idxOf[j] /\ idxOf[j] # n
        BY <1>0, <1>2, <1>5, <1>6, <1>8, IdsApart, SnipAssumption
    <2> QED
        BY <1>0, <1>5, <1>6, <1>8, <2>1, OthersSame
<1>9. /\ HolderOf(id) = None /\ HolderOf(id)' = new.owner
      /\ AskOf(id) = None /\ AskOf(id)' = None
    BY <1>2, <1>5, <1>6, <1>7, <1>4, SnipAssumption DEF HolderOf, AskOf, ForSale, Owner
<1>10. SameHolders({id}) /\ SameAsks({})
    BY <1>8, <1>9 DEF SameHolders, SameAsks
<1> QED
    BY <1>6, <1>9, <1>10, <1>4, SnipAssumption, ExchangeSteps

\* A transfer gives the token away, with the ask that is on it.
LEMMA TransferExchange ==
    ASSUME MarketInv, NEW s, NEW id \in Ids, NEW to \in Addr, Transfer(s, id, to)
    PROVE  Ex!Next
<1>0. IInv
    BY DEF MarketInv
<1>1. PICK n : n = idxOf[id]
    OBVIOUS
<1>2. /\ Exists(n) /\ Owner(n) # to /\ TransferEffect(n, to)
      /\ UNCHANGED <<idxOf, saleInfo, forSale, treasury>>
    BY <1>1 DEF Transfer, TransferNft, MayMove, TransferEffect, NoMoney, listVars
<1>3. n \in Idx /\ n # None
    BY <1>2, SnipAssumption DEF Exists
<1>4. Owner(n)' = to /\ \A t \in Idx : t # n => token'[t] = token[t]
    BY <1>0, <1>2, <1>3, TransferTokens
<1>5. ASSUME NEW j \in Ids \ {id} PROVE HolderOf(j)' = HolderOf(j) /\ AskOf(j)' = AskOf(j)
    <2>1. idxOf[j] # n
        BY <1>0, <1>1, <1>3, <1>5, IdsApart
    <2> QED
        BY <1>0, <1>2, <1>4, <1>5, <2>1, OthersSame
<1>6. HolderOf(id) # to /\ HolderOf(id)' = to /\ AskOf(id)' = AskOf(id)
    BY <1>1, <1>2, <1>3, <1>4 DEF HolderOf, AskOf, ForSale, Owner
<1>7. SameHolders({id}) /\ SameAsks({})
    BY <1>5, <1>6 DEF SameHolders, SameAsks
<1> QED
    BY <1>2, <1>6, <1>7, ExchangeSteps

\* What is burned was not for sale, unless burning is enabled.
LEMMA BurnExchange ==
    ASSUME MarketInv, NEW s, NEW id \in Ids, Burn(s, id)
    PROVE  Ex!Next
<1>0. IInv /\ ForSaleIsListed
    BY DEF MarketInv
<1>1. PICK n : n = idxOf[id]
    OBVIOUS
<1>2. /\ Exists(n) /\ BurnEffect(n, id) /\ (BurnIsEnabled \/ ~token[n].transferable)
      /\ UNCHANGED <<saleInfo, forSale, treasury>>
    BY <1>1 DEF Burn, BurnNft, NoMoney, listVars
<1>3. n \in Idx /\ n # None /\ Owner(n) # None
    BY <1>0, <1>2, OwnerType, SnipAssumption DEF Exists, IInv
<1>4. \A t \in Idx : t # n => token'[t] = token[t]
    BY <1>0, <1>2, <1>3, BurnTokens
<1>5. \A j \in Ids : idxOf'[j] = IF j = id THEN None ELSE idxOf[j]
    BY <1>0, <1>2 DEF BurnEffect, BurnedIds, IInv, TypeOK
<1>6. ASSUME NEW j \in Ids \ {id} PROVE HolderOf(j)' = HolderOf(j) /\ AskOf(j)' = AskOf(j)
    <2>1. idxOf[j] # n
        BY <1>0, <1>1, <1>3, <1>6, IdsApart
    <2> QED
        BY <1>0, <1>2, <1>4, <1>5, <1>6, <2>1, OthersSame
<1>7. /\ HolderOf(id) # None /\ HolderOf(id)' = None /\ AskOf(id)' = None
      /\ AskOf(id) = None \/ BurnIsEnabled
    BY <1>0, <1>1, <1>2, <1>3, <1>5 DEF HolderOf, AskOf, ForSaleIsListed
<1>8. SameHolders({id}) /\ SameAsks({id})
    BY <1>6 DEF SameHolders, SameAsks
<1> QED
    BY <1>2, <1>7, <1>8, ExchangeSteps

\* A seller offers a token, retracts it or changes its price.
LEMMA SellExchange ==
    ASSUME MarketInv, NEW s, NEW id \in Ids, NEW sale \in {"ForSale", "NotForSale"},
           NEW price \in Prices \cup {0},
           SetSaleStatus(s, id, sale, price) \/ SetPrice(s, id, price)
    PROVE  Ex!Next
<1>0. IInv /\ SaleTypeOK /\ ForSaleIsListed
    BY DEF MarketInv
<1>1. PICK n : n = idxOf[id]
    OBVIOUS
<1>2. /\ Exists(n) /\ UNCHANGED <<idxOf, token, treasury>>
      /\ \A t \in Idx : t # n => saleInfo'[t] = saleInfo[t]
    BY <1>0, <1>1 DEF SetSaleStatus, SetPrice, NoMoney, SaleTypeOK, ledgerVars
<1>3. n \in Idx /\ n # None /\ Owner(n) # None
    BY <1>0, <1>2, OwnerType, SnipAssumption DEF Exists, IInv
<1>4. ASSUME NEW j \in Ids \ {id} PROVE HolderOf(j)' = HolderOf(j) /\ AskOf(j)' = AskOf(j)
    <2>1. idxOf[j] # n
        BY <1>0, <1>1, <1>3, <1>4, IdsApart
    <2> QED
        BY <1>0, <1>2, <1>4, <2>1, OthersSame
<1>5. HolderOf(id) # None /\ HolderOf(id)' = HolderOf(id)
    BY <1>1, <1>2, <1>3 DEF HolderOf, Owner
<1>6. SameHolders({}) /\ SameAsks({id})
    BY <1>4, <1>5 DEF SameHolders, SameAsks
<1>7. CASE SetSaleStatus(s, id, sale, price)
    <2>1. saleInfo'[n] = [status |-> sale, price |-> IF sale = "ForSale" THEN price ELSE 0]
        BY <1>0, <1>1, <1>3, <1>7 DEF SetSaleStatus, SaleTypeOK
    <2>2. saleInfo'[n] # None
        <3>1. price \in Nat /\ 0 \in Nat
            BY MarketAssumption
        <3> QED
            BY <2>1, <3>1, MarketAssumption
    <2>3. AskOf(id)' = IF sale = "ForSale" THEN price ELSE None
        BY <1>1, <1>2, <1>3, <2>1, <2>2 DEF AskOf, ForSale
    <2>4. forSale' = IF sale = "ForSale" THEN forSale \cup {id} ELSE forSale \ {id}
        BY <1>7 DEF SetSaleStatus, DelistedIds
    <2> QED
        BY <1>2, <1>5, <1>6, <2>3, <2>4, ExchangeSteps
<1>8. CASE SetPrice(s, id, price)
    <2>1. /\ ForSale(n) /\ UNCHANGED forSale
          /\ saleInfo'[n] = [saleInfo[n] EXCEPT !.price = price]
        BY <1>0, <1>1, <1>3, <1>8 DEF SetPrice, MayPrice, SaleTypeOK
    <2>2. saleInfo[n] \in SaleRecord /\ price \in Nat
        BY <1>0, <1>3, <2>1, MarketAssumption DEF ForSale, SaleTypeOK
    <2>3. /\ saleInfo'[n].status = "ForSale" /\ saleInfo'[n].price = price
          /\ saleInfo'[n] \in SaleRecord
        BY <2>1, <2>2 DEF SaleRecord, ForSale
    <2>4. saleInfo'[n] # None
        BY <2>3, MarketAssumption DEF SaleRecord
    <2>5. AskOf(id)' = price
        BY <1>1, <1>2, <1>3, <2>3, <2>4 DEF AskOf, ForSale
    <2>6. forSale' = forSale \cup {id}
        BY <1>0, <1>1, <1>3, <2>1 DEF ForSaleIsListed
    <2> QED
        BY <1>2, <1>5, <1>6, <2>5, <2>6, ExchangeSteps
<1> QED
    BY <1>7, <1>8

\* The price of a sale covers all that the contract pays out for it.
LEMMA BuyCovers ==
    ASSUME OneRecipient, MarketInv, treasury \in Nat,
           NEW s \in Addr, NEW id \in Ids, NEW paid \in Prices, BuyToken(s, id, paid)
    PROVE  treasury' \in Nat /\ treasury' >= treasury
<1> DEFINE total == TotalSent(SaleSends(idxOf[id], paid, Owner(idxOf[id])))
<1>1. idxOf[id] \in Idx /\ paid \in Nat /\ SaleTypeOK
    BY MarketAssumption DEF BuyToken, Exists, MarketInv
<1>2. total \in Nat /\ total <= paid
    BY <1>1, PriceCovers
<1>3. treasury' = (treasury + paid) - total
    BY DEF BuyToken
<1> HIDE DEF total
<1> QED
    BY <1>1, <1>2, <1>3

\* A sale trades at the ask.
LEMMA BuyExchange ==
    ASSUME OneRecipient, MarketInv, treasury \in Nat,
           NEW s \in Addr, NEW id \in Ids, NEW paid \in Prices, BuyToken(s, id, paid)
    PROVE  treasury' \in Nat /\ Ex!Next
<1>0. IInv /\ SaleTypeOK /\ ForSaleIsListed
    BY DEF MarketInv
<1>1. PICK n : n = idxOf[id]
    OBVIOUS
<1>2. /\ Exists(n) /\ ForSale(n) /\ Owner(n) # s /\ TransferEffect(n, s)
      /\ saleInfo[n].price = paid /\ paid \in Nat \ {0}
      /\ saleInfo' = SoldInfo(n) /\ forSale' = forSale \ {id}
    BY <1>1, MarketAssumption DEF BuyToken, MayBuy, DelistedIds
<1>3. n \in Idx /\ n # None /\ Owner(n) # None
    BY <1>0, <1>2, OwnerType, SnipAssumption DEF Exists, IInv
<1>4. Owner(n)' = s /\ (\A t \in Idx : t # n => token'[t] = token[t]) /\ UNCHANGED idxOf
    <2>1. UNCHANGED idxOf
        BY <1>2 DEF TransferEffect
    <2> QED
        BY <1>0, <1>2, <1>3, <2>1, TransferTokens
<1>5. /\ \A t \in Idx : t # n => saleInfo'[t] = saleInfo[t]
      /\ saleInfo'[n].status = "NotForSale"
    BY <1>0, <1>2, <1>3 DEF SoldInfo, SaleTypeOK
<1>6. treasury' \in Nat /\ treasury' >= treasury
    BY BuyCovers
<1>7. ASSUME NEW j \in Ids \ {id} PROVE HolderOf(j)' = HolderOf(j) /\ AskOf(j)' = AskOf(j)
    <2>1. idxOf[j] # n
        BY <1>0, <1>1, <1>3, <1>7, IdsApart
    <2> QED
        BY <1>0, <1>4, <1>5, <1>7, <2>1, OthersSame
<1>8. /\ HolderOf(id) # None /\ HolderOf(id) # s /\ HolderOf(id)' = s
      /\ AskOf(id) \in Nat \ {0} /\ AskOf(id)' = None /\ id \in forSale
    BY <1>0, <1>1, <1>2, <1>3, <1>4, <1>5 DEF HolderOf, AskOf, ForSale, Owner, ForSaleIsListed
<1>9. SameHolders({id}) /\ SameAsks({id})
    BY <1>7 DEF SameHolders, SameAsks
<1> QED
    BY <1>2, <1>6, <1>8, <1>9, ExchangeSteps

\* A step that leaves tokens, ids and sales alone.
LEMMA QuietExchange ==
    ASSUME IInv, UNCHANGED <<idxOf, token, saleInfo, forSale>>,
           treasury' \in Nat, treasury' >= treasury \/ treasury' = 0
    PROVE  Ex!Next
<1>1. \A j \in Ids : HolderOf(j)' = HolderOf(j) /\ AskOf(j)' = AskOf(j)
    BY DEF HolderOf, AskOf, ForSale, Owner
<1> QED
    BY <1>1, ExchangeQuiet DEF SameHolders, SameAsks

\* Every step of the contract is a step of the exchange, or none.
LEMMA ExchangeStep ==
    ASSUME OneRecipient, MarketInv, treasury \in Nat, [Next]_vars
    PROVE  treasury' \in Nat /\ [Ex!Next]_Ex!vars
<1>1. IInv
    BY DEF MarketInv
<1>2. CASE LedgerSteps
    <2>1. UNCHANGED treasury
        BY <1>2 DEF LedgerSteps, MintNft, Transfer, Burn, NoMoney
    <2> QED
        BY <1>2, <2>1, MintExchange, TransferExchange, BurnExchange DEF LedgerSteps
<1>3. CASE SaleSteps
    <2>1. ASSUME NEW s, NEW id \in Ids, NEW sale \in {"ForSale", "NotForSale"},
                 NEW price \in Prices \cup {0},
                 SetSaleStatus(s, id, sale, price) \/ SetPrice(s, id, price)
          PROVE  treasury' \in Nat /\ Ex!Next
        BY <2>1, SellExchange DEF SetSaleStatus, SetPrice, NoMoney
    <2>2. ASSUME NEW s, NEW id \in Ids, NEW price \in Prices, SetPrice(s, id, price)
          PROVE  treasury' \in Nat /\ Ex!Next
        <3>1. "ForSale" \in {"ForSale", "NotForSale"} /\ price \in Prices \cup {0}
            OBVIOUS
        <3> QED
            BY <2>1, <2>2, <3>1
    <2> QED
        BY <1>3, <2>1, <2>2, BuyExchange DEF SaleSteps
<1>4. CASE MoneySteps \/ Receive
    <2>1. UNCHANGED <<idxOf, token, saleInfo, forSale>>
        BY <1>4
        DEF MoneySteps, Withdraw, SetTokenRoyalty, SetDefaultRoyalty, Receive,
            snipVars, ledgerVars, listVars
    <2>2. treasury' \in Nat /\ (treasury' >= treasury \/ treasury' = 0)
        <3>1. \A amount \in Donations : treasury + amount \in Nat /\ treasury + amount >= treasury
            BY MarketAssumption
        <3>2. treasury >= treasury /\ 0 \in Nat
            OBVIOUS
        <3> QED
            BY <1>4, <3>1, <3>2
            DEF MoneySteps, Withdraw, SetTokenRoyalty, SetDefaultRoyalty, Receive, NoMoney
    <2> QED
        BY <1>1, <2>1, <2>2, QuietExchange
<1>5. CASE Others \/ (NewBlock /\ UNCHANGED saleVars) \/ UNCHANGED vars
    <2>1. Others => UNCHANGED ledgerVars
        BY ApprovalFrame, AdminFrame DEF Others
    <2>2. UNCHANGED <<idxOf, token, saleInfo, forSale, treasury>>
        BY <1>5, <2>1
        DEF Others, NewBlock, NoMoney, vars, snipVars, saleVars, ledgerVars, listVars, moneyVars
    <2> QED
        BY <1>1, <2>2, QuietExchange
<1> QED
    BY <1>2, <1>3, <1>4, <1>5 DEF Next

\* The balance is an amount.
Solvent == treasury \in Nat

(***************************************************************************)
(* With at most one recipient of royalties per token the contract          *)
(* implements the exchange: only what is listed trades, at its ask, and no *)
(* sale takes from the contract's balance.                                 *)
(***************************************************************************)
THEOREM ExchangeCorrect == ASSUME OneRecipient PROVE Spec => ImplementsExchange
<1>1. Init => Ex!Init
    BY DEF Init, SnipInit, Ex!Init
<1>2. Init => Solvent
    BY DEF Init, Solvent
<1>3. MarketInv /\ Solvent /\ [Next]_vars => Solvent' /\ [Ex!Next]_Ex!vars
    BY ExchangeStep DEF Solvent
<1> QED
    BY <1>1, <1>2, <1>3, MarketInvCorrect, PTL DEF Spec, ImplementsExchange, Ex!Spec

(***************************************************************************)
(* With at most one recipient of royalties per token no sale leaves the    *)
(* contract with less than it had, which a second recipient can do.        *)
(***************************************************************************)
THEOREM SalesCoverCorrect == ASSUME OneRecipient PROVE Spec => SalesNeverDrain
<1> DEFINE Covers == saleInfo' # saleInfo => treasury' >= treasury
<1>1. MarketInv /\ Solvent /\ [Next]_vars => [Covers]_vars
    <2> SUFFICES ASSUME MarketInv, Solvent, [Next]_vars, saleInfo' # saleInfo
                 PROVE  treasury' >= treasury
        OBVIOUS
    <2>1. SaleSteps
        BY DEF Next, LedgerSteps, MintNft, Transfer, Burn, MoneySteps, Withdraw,
               SetTokenRoyalty, SetDefaultRoyalty, Receive, Others, vars, saleVars, listVars
    <2>2. treasury \in Nat /\ treasury >= treasury
        BY DEF Solvent
    <2>3. ASSUME NEW s \in Addr, NEW id \in Ids, NEW paid \in Prices, BuyToken(s, id, paid)
          PROVE  treasury' >= treasury
        BY <2>2, <2>3, BuyCovers
    <2> QED
        BY <2>1, <2>2, <2>3 DEF SaleSteps, SetSaleStatus, SetPrice, NoMoney
<1>2. Init => Solvent
    BY DEF Init, Solvent
<1>3. MarketInv /\ Solvent /\ [Next]_vars => Solvent'
    BY ExchangeStep DEF Solvent
<1> QED
    BY <1>1, <1>2, <1>3, MarketInvCorrect, PTL DEF Spec, SalesNeverDrain

-----------------------------------------------------------------------------
(* How a price is split.                                                    *)

\* One recipient per token, and rates that a Decimal holds exactly where
\* buy_token can compute with them at all
ExactRates ==
    \A info \in RoyaltyInfos :
        /\ Len(info.royalties) = 1
        /\ info.decimals <= MaxPowDigits => DecFrac % (10 ^ info.decimals) = 0

\* A quotient with a remainder is the quotient.
LEMMA DivUnique ==
    ASSUME NEW n \in Nat, NEW d \in Nat \ {0}, NEW q \in Nat, NEW r \in Nat,
           r < d, n = d * q + r
    PROVE  n \div d = q
OBVIOUS

\* Every number is its quotient and remainder.
LEMMA DivMod ==
    ASSUME NEW n \in Nat, NEW d \in Nat \ {0}
    PROVE  /\ n \div d \in Nat /\ n % d \in Nat /\ n % d < d
           /\ n = d * (n \div d) + (n % d)
OBVIOUS

\* A common factor cancels.
LEMMA DivCancel ==
    ASSUME NEW a \in Nat, NEW b \in Nat \ {0}, NEW k \in Nat \ {0}
    PROVE  (a * k) \div (b * k) = a \div b
<1>1. PICK q \in Nat : q = a \div b
    BY DivMod
<1>2. PICK r \in Nat : r = a % b
    BY DivMod
<1>3. a = b * q + r /\ r < b
    BY <1>1, <1>2, DivMod
<1>4. a * k = (b * q + r) * k
    BY <1>3
<1>5. (b * q + r) * k = (b * k) * q + r * k
    OBVIOUS
<1>6. r * k < b * k /\ r * k \in Nat /\ a * k \in Nat /\ b * k \in Nat \ {0}
    BY <1>3
<1>7. (a * k) \div (b * k) = q
    BY <1>4, <1>5, <1>6, DivUnique
<1> QED
    BY <1>1, <1>7

\* The two roundings of a share come to one, when the rate is exact.
LEMMA ShareIsExact ==
    ASSUME NEW price \in Nat, NEW rate \in Nat, NEW decimals \in Nat,
           decimals <= MaxU256Digits, DecFrac % (10 ^ decimals) = 0
    PROVE  RoyaltyShare(price, rate, decimals) = (price * rate) \div (10 ^ decimals)
<1>1. PICK b \in Nat \ {0} : b = 10 ^ decimals
    BY MarketAssumption
<1>2. PICK k \in Nat : k = DecFrac \div b
    BY MarketAssumption, DivMod
<1>3. DecFrac = b * k /\ k # 0
    <2>1. DecFrac \in Nat \ {0} /\ DecFrac % b = 0
        BY <1>1, MarketAssumption
    <2>2. DecFrac = b * k + 0
        BY <1>2, <2>1, DivMod
    <2> QED
        BY <2>1, <2>2
<1>4. (rate * DecFrac) \div b = rate * k
    <2>1. rate * DecFrac = b * (rate * k) + 0
        BY <1>3
    <2>2. rate * k \in Nat /\ rate * DecFrac \in Nat
        BY <1>3, MarketAssumption
    <2>3. 0 < b
        OBVIOUS
    <2> QED
        BY <2>1, <2>2, <2>3, DivUnique
<1>5. price * (rate * k) = (price * rate) * k
    OBVIOUS
<1>6. price * rate \in Nat
    OBVIOUS
<1>7. ((price * rate) * k) \div (b * k) = (price * rate) \div b
    BY <1>3, <1>6, DivCancel
<1> QED
    BY <1>1, <1>3, <1>4, <1>5, <1>7 DEF RoyaltyShare

\* What the contract keeps of an amount is two percent, rounded up.
LEMMA FeeKept ==
    ASSUME NEW amount \in Nat
    PROVE  50 * (amount - LessFee(amount)) \in amount .. amount + 49
BY DEF LessFee

\* What one of at most two messages brings a recipient.
LEMMA PaidByFew ==
    ASSUME NEW sends, NEW a, NEW x, NEW m \in Nat, sends[1] = Send(x, m)
    PROVE  /\ DOMAIN sends = {1} => PaidTo(sends, a) = IF a = x THEN m ELSE 0
           /\ \A y : \A n \in Nat : DOMAIN sends = {1, 2} /\ sends[2] = Send(y, n) =>
                 PaidTo(sends, a) = (IF a = x THEN m ELSE 0) + (IF a = y THEN n ELSE 0)
<1> DEFINE f == [i \in {j \in DOMAIN sends : sends[j].to = a} |-> sends[i].amount]
<1>1. /\ DOMAIN f = {j \in DOMAIN sends : sends[j].to = a}
      /\ \A i \in DOMAIN f : f[i] = sends[i].amount
    OBVIOUS
<1>2. PaidTo(sends, a) = SumFunction(f)
    BY DEF PaidTo
<1>3. sends[1].to = x /\ sends[1].amount = m
    BY DEF Send
<1> HIDE DEF f
<1>4. ASSUME DOMAIN sends = {1} PROVE SumFunction(f) = IF a = x THEN m ELSE 0
    <2>1. CASE a = x
        <3>1. DOMAIN f = {1} /\ f[1] = m
            BY <1>1, <1>3, <1>4, <2>1
        <3> QED
            BY <2>1, <3>1, SumOne
    <2>2. CASE a # x
        <3>1. DOMAIN f = {}
            BY <1>1, <1>3, <1>4, <2>2
        <3> QED
            BY <2>2, <3>1, SumNone
    <2> QED
        BY <2>1, <2>2
<1>5. ASSUME NEW y, NEW n \in Nat, DOMAIN sends = {1, 2}, sends[2] = Send(y, n)
      PROVE  SumFunction(f) = (IF a = x THEN m ELSE 0) + (IF a = y THEN n ELSE 0)
    <2>0. sends[2].to = y /\ sends[2].amount = n
        BY <1>5 DEF Send
    <2>1. CASE a = x /\ a = y
        <3>1. DOMAIN f = {1, 2} /\ f[1] = m /\ f[2] = n /\ 1 # 2
            BY <1>1, <1>3, <1>5, <2>0, <2>1
        <3> QED
            BY <2>1, <3>1, SumTwo
    <2>2. CASE a = x /\ a # y
        <3>1. DOMAIN f = {1} /\ f[1] = m
            BY <1>1, <1>3, <1>5, <2>0, <2>2
        <3>2. SumFunction(f) = m
            BY <3>1, SumOne
        <3> QED
            BY <2>2, <3>2
    <2>3. CASE a # x /\ a = y
        <3>1. DOMAIN f = {2} /\ f[2] = n
            BY <1>1, <1>3, <1>5, <2>0, <2>3
        <3>2. SumFunction(f) = n
            BY <3>1, SumOne
        <3> QED
            BY <2>3, <3>2
    <2>4. CASE a # x /\ a # y
        <3>1. DOMAIN f = {}
            BY <1>1, <1>3, <1>5, <2>0, <2>4
        <3> QED
            BY <2>4, <3>1, SumNone
    <2> QED
        BY <2>1, <2>2, <2>3, <2>4
<1> QED
    BY <1>2, <1>4, <1>5

\* the recipient of the royalty of a sale and its amount, as SaleSplit has them
DueOf(t, price, seller) ==
    LET info == IF royalty[t] = None THEN defaultRoy ELSE royalty[t]
    IN  IF saleNum[t] = 0 \/ info = None THEN [to |-> seller, amount |-> 0]
        ELSE [to |-> info.royalties[1].recipient,
              amount |-> (price * info.royalties[1].rate) \div (10 ^ info.decimals)]

\* Exactly one recipient is at most one.
LEMMA ExactIsOne == ExactRates => OneRecipient
<1> SUFFICES ASSUME ExactRates, NEW info \in RoyaltyInfos PROVE Len(info.royalties) <= 1
    BY DEF OneRecipient
<1>1. PICK n : n = Len(info.royalties)
    OBVIOUS
<1>2. n = 1
    BY <1>1 DEF ExactRates
<1> QED
    BY <1>1, <1>2

\* The messages of a sale that can be computed bring recipient, seller and
\* contract their parts.
LEMMA PartsOfSale ==
    ASSUME ExactRates, SaleTypeOK, NEW t \in Idx, Computable(t), saleNum[t] \in {0, 1},
           NEW price \in Nat, NEW seller,
           NEW sends, sends = SaleSends(t, price, seller),
           NEW kept, kept = price - TotalSent(sends),
           NEW due, due = DueOf(t, price, seller)
    PROVE  /\ 50 * kept \in price - due.amount .. price - due.amount + 49
           /\ PaidTo(sends, due.to) >= due.amount
           /\ due.to # seller => /\ PaidTo(sends, due.to) = due.amount
                                 /\ PaidTo(sends, seller) + due.amount + kept = price
           /\ due.to = seller => PaidTo(sends, seller) + kept = price
<1> DEFINE info == RoyaltiesOf(t)
           share == RoyaltyShare(price, info.royalties[1].rate, info.decimals)
<1>1. OneRecipient
    BY ExactIsOne
<1>2. info = IF royalty[t] = None THEN defaultRoy ELSE royalty[t]
    BY DEF RoyaltiesOf
<1>3. PaysRoyalties(t) <=> saleNum[t] # 0 /\ info # None
    BY DEF PaysRoyalties
<1>4. \/ /\ ~PaysRoyalties(t)
         /\ DOMAIN sends = {1} /\ sends[1] = Send(seller, LessFee(price))
      \/ PaysRoyalties(t) /\ Len(info.royalties) = 0
      \/ /\ PaysRoyalties(t) /\ Len(info.royalties) = 1
         /\ info.royalties[1].rate \in Nat /\ info.decimals \in Nat
         /\ info.decimals <= MaxU256Digits
         /\ share \in Nat /\ share <= price
         /\ DOMAIN sends = {1, 2}
         /\ sends[1] = Send(info.royalties[1].recipient, share)
         /\ sends[2] = Send(seller, LessFee(price - share))
    BY <1>1, SaleSendsCases
<1>5. PaysRoyalties(t) => info \in RoyaltyInfos
    BY DEF PaysRoyalties, RoyaltiesOf, SaleTypeOK, StoredInfo, MaybeInfo
<1>6. CASE ~PaysRoyalties(t)
    <2>1. due.to = seller /\ due.amount = 0
        BY <1>2, <1>3, <1>6 DEF DueOf
    <2>2. PICK fee \in Nat : fee = LessFee(price)
        BY FeeBound
    <2>3. 50 * (price - fee) \in price .. price + 49 /\ fee <= price
        BY <2>2, FeeKept, FeeBound
    <2>4. DOMAIN sends = {1} /\ sends[1] = Send(seller, fee) /\ sends[1].amount = fee
        BY <1>4, <1>6, <2>2 DEF Send
    <2>5. TotalSent(sends) = fee
        BY <2>2, <2>4, TotalOfFew
    <2>6. PaidTo(sends, seller) = fee
        BY <2>2, <2>4, PaidByFew
    <2> QED
        BY <2>1, <2>2, <2>3, <2>5, <2>6
<1>7. CASE PaysRoyalties(t)
    <2>1. Len(info.royalties) = 1 /\ DecFrac % (10 ^ info.decimals) = 0
        <3>1. /\ Len(info.royalties) = 1
              /\ info.decimals <= MaxPowDigits => DecFrac % (10 ^ info.decimals) = 0
            BY <1>5, <1>7 DEF ExactRates
        <3>2. info.royalties # <<>>
            <4>1. PICK shares : shares = info.royalties
                OBVIOUS
            <4>2. Len(shares) = 1 => shares # <<>>
                OBVIOUS
            <4> QED
                BY <3>1, <4>1, <4>2
        <3>3. info.decimals <= MaxPowDigits
            BY <1>7, <3>2 DEF Computable
        <3> QED
            BY <3>1, <3>3
    <2>2. /\ info.royalties[1].rate \in Nat /\ info.decimals \in Nat
          /\ info.decimals <= MaxU256Digits
          /\ DOMAIN sends = {1, 2} /\ share \in Nat /\ share <= price
          /\ sends[1] = Send(info.royalties[1].recipient, share)
          /\ sends[2] = Send(seller, LessFee(price - share))
        BY <1>4, <1>7, <2>1
    <2>3. share = (price * info.royalties[1].rate) \div (10 ^ info.decimals)
        BY <2>1, <2>2, ShareIsExact
    <2>4. due.to = info.royalties[1].recipient /\ due.amount = share
        BY <1>2, <1>3, <1>7, <2>3 DEF DueOf
    <2> HIDE DEF share, info
    <2>5. PICK rest \in Nat : rest = price - share
        BY <2>2
    <2>6. PICK fee \in Nat : fee = LessFee(rest)
        BY <2>5, FeeBound
    <2>7. 50 * (rest - fee) \in rest .. rest + 49
        BY <2>5, <2>6, FeeKept
    <2>8. sends[1] = Send(due.to, share) /\ sends[2] = Send(seller, fee)
        BY <2>2, <2>4, <2>5, <2>6
    <2>9. TotalSent(sends) = share + fee
        BY <2>2, <2>6, <2>8, TotalOfFew DEF Send
    <2>10. /\ PaidTo(sends, due.to) = share + (IF due.to = seller THEN fee ELSE 0)
           /\ PaidTo(sends, seller) = (IF seller = due.to THEN share ELSE 0) + fee
        BY <2>2, <2>6, <2>8, PaidByFew
    <2>11. kept = rest - fee
        BY <2>2, <2>5, <2>6, <2>9
    <2> QED
        BY <2>2, <2>4, <2>5, <2>6, <2>7, <2>10, <2>11
<1> QED
    BY <1>6, <1>7

\* A token has its sales counted from its mint on.
SaleCounted == \A t \in Idx : Exists(t) => saleNum[t] \in {0, 1}

\* Only a mint and a sale touch the count, and a mint starts it.
LEMMA CountedStep == MarketInv /\ SaleCounted /\ [Next]_vars => SaleCounted'
<1> SUFFICES ASSUME MarketInv, SaleCounted, [Next]_vars PROVE SaleCounted'
    OBVIOUS
<1>0. IInv /\ SaleTypeOK
    BY DEF MarketInv
<1>1. ASSUME UNCHANGED <<token, saleNum>> PROVE SaleCounted'
    BY <1>1 DEF SaleCounted, Exists
<1>2. ASSUME NEW s, NEW given, NEW new \in MintChoices, NEW info, MintNft(s, given, new, info)
      PROVE  SaleCounted'
    <2>1. PICK n : n = mintCnt
        OBVIOUS
    <2>2. /\ \A t \in Idx : n \in Idx /\ (t # n => token'[t] = token[t])
          /\ saleNum' = [saleNum EXCEPT ![n] = 0]
        BY <1>0, <1>2, <2>1, MintTokens DEF MintNft, NextIdx
    <2> QED
        BY <1>0, <2>2 DEF SaleCounted, Exists, SaleTypeOK
<1>3. ASSUME NEW s, NEW id, NEW to \in Addr, Transfer(s, id, to) PROVE SaleCounted'
    <2>1. PICK n : n = idxOf[id]
        OBVIOUS
    <2>2. \A t \in Idx : Exists(t)' <=> Exists(t)
        BY <1>0, <1>3, <2>1, TransferTokens DEF Transfer, TransferNft
    <2> QED
        BY <1>3, <2>2 DEF Transfer, SaleCounted
<1>4. ASSUME NEW s, NEW id, Burn(s, id) PROVE SaleCounted'
    <2>1. PICK n : n = idxOf[id]
        OBVIOUS
    <2>2. \A t \in Idx : Exists(t)' => Exists(t)
        BY <1>0, <1>4, <2>1, BurnTokens DEF Burn, BurnNft, Exists
    <2> QED
        BY <1>4, <2>2 DEF Burn, SaleCounted
<1>5. ASSUME NEW s \in Addr, NEW id, NEW paid, BuyToken(s, id, paid) PROVE SaleCounted'
    <2>1. PICK n : n = idxOf[id]
        OBVIOUS
    <2>2. /\ \A t \in Idx : Exists(t)' <=> Exists(t)
          /\ saleNum' = [saleNum EXCEPT ![n] = 1]
        BY <1>0, <1>5, <2>1, TransferTokens DEF BuyToken
    <2> QED
        BY <1>0, <2>2 DEF SaleCounted, SaleTypeOK
<1>6. CASE LedgerSteps
    BY <1>2, <1>3, <1>4, <1>6 DEF LedgerSteps
<1>7. CASE SaleSteps
    BY <1>1, <1>5, <1>7 DEF SaleSteps, SetSaleStatus, SetPrice, ledgerVars
<1>8. CASE MoneySteps \/ Receive \/ (NewBlock /\ UNCHANGED saleVars) \/ UNCHANGED vars
    BY <1>1, <1>8 DEF MoneySteps, Withdraw, SetTokenRoyalty, SetDefaultRoyalty, Receive,
        NewBlock, vars, snipVars, saleVars, ledgerVars
<1>9. CASE Others
    BY <1>1, <1>9, ApprovalFrame, AdminFrame DEF Others, ledgerVars
<1> QED
    BY <1>6, <1>7, <1>8, <1>9 DEF Next

\* A token that is for sale no more, in the hands of another, was bought.
LEMMA SoldIsBought ==
    ASSUME MarketInv, [Next]_vars, NEW t \in Idx, Sold(t)
    PROVE  \E s \in Addr, id \in Ids, paid \in Prices : t = idxOf[id] /\ BuyToken(s, id, paid)
<1>0. IInv /\ SaleTypeOK
    BY DEF MarketInv
<1>1. token'[t] # token[t] /\ saleInfo'[t] # saleInfo[t]
    BY DEF Sold, Owner, ForSale
<1>2. ASSUME UNCHANGED token \/ UNCHANGED saleInfo PROVE FALSE
    BY <1>1, <1>2
<1>3. ASSUME NEW s \in Addr, NEW id \in Ids, NEW paid \in Prices, BuyToken(s, id, paid)
      PROVE  t = idxOf[id]
    BY <1>0, <1>1, <1>3 DEF BuyToken, SoldInfo, SaleTypeOK
<1>4. ~LedgerSteps
    BY <1>2 DEF LedgerSteps, MintNft, Transfer, Burn, listVars
<1>5. CASE SaleSteps
    BY <1>2, <1>3, <1>5 DEF SaleSteps, SetSaleStatus, SetPrice, ledgerVars
<1>6. ~(MoneySteps \/ Receive \/ Others \/ (NewBlock /\ UNCHANGED saleVars) \/ UNCHANGED vars)
    BY <1>2 DEF MoneySteps, Withdraw, SetTokenRoyalty, SetDefaultRoyalty, Receive, Others,
        vars, saleVars, listVars
<1> QED
    BY <1>4, <1>5, <1>6 DEF Next

(***************************************************************************)
(* With one recipient per token and rates a Decimal holds exactly, a first *)
(* sale pays the seller 98 percent of the price, and a later one pays the  *)
(* recipient the exact rate rounded down and the seller 98 percent of what *)
(* is left, whatever happened to the token and its royalties before.       *)
(***************************************************************************)
THEOREM SaleSplitCorrect == ASSUME ExactRates PROVE Spec => SaleSplit
<1> DEFINE Parts == \A t \in Idx : Sold(t) =>
          LET price == saleInfo[t].price
              info == IF royalty[t] = None THEN defaultRoy ELSE royalty[t]
              due == IF saleNum[t] = 0 \/ info = None THEN [to |-> Owner(t), amount |-> 0]
                     ELSE [to |-> info.royalties[1].recipient,
                           amount |-> (price * info.royalties[1].rate) \div (10 ^ info.decimals)]
              kept == treasury' - treasury
          IN  /\ 50 * kept \in price - due.amount .. price - due.amount + 49
              /\ PaidTo(sent', due.to) >= due.amount
              /\ due.to # Owner(t) =>
                    /\ PaidTo(sent', due.to) = due.amount
                    /\ PaidTo(sent', Owner(t)) + due.amount + kept = price
              /\ due.to = Owner(t) => PaidTo(sent', Owner(t)) + kept = price
<1>1. MarketInv /\ SaleCounted /\ Solvent /\ [Next]_vars => [Parts]_vars
    <2> SUFFICES ASSUME MarketInv, SaleCounted, Solvent, [Next]_vars, NEW t \in Idx, Sold(t)
                 PROVE  LET price == saleInfo[t].price
                            due == DueOf(t, price, Owner(t))
                            kept == treasury' - treasury
                        IN  /\ 50 * kept \in price - due.amount .. price - due.amount + 49
                            /\ PaidTo(sent', due.to) >= due.amount
                            /\ due.to # Owner(t) =>
                                  /\ PaidTo(sent', due.to) = due.amount
                                  /\ PaidTo(sent', Owner(t)) + due.amount + kept = price
                            /\ due.to = Owner(t) => PaidTo(sent', Owner(t)) + kept = price
        BY Zenon DEF DueOf
    <2> DEFINE price == saleInfo[t].price
               kept == treasury' - treasury
    <2>1. PICK s \in Addr, id \in Ids, paid \in Prices : t = idxOf[id] /\ BuyToken(s, id, paid)
        BY SoldIsBought
    <2>2. /\ price = paid /\ price \in Nat /\ sent' = SaleSends(t, price, Owner(t))
          /\ treasury' = (treasury + price) - TotalSent(SaleSends(t, price, Owner(t)))
        BY <2>1, MarketAssumption DEF BuyToken, MayBuy
    <2>3. OneRecipient /\ SaleTypeOK /\ treasury \in Nat /\ saleNum[t] \in {0, 1}
        BY ExactIsOne DEF MarketInv, Solvent, SaleCounted, Sold
    <2>4. PICK sends : sends = SaleSends(t, price, Owner(t))
        OBVIOUS
    <2>5. PICK total \in Nat : total = TotalSent(sends)
        BY <2>2, <2>3, <2>4, PriceCovers
    <2>6. kept = price - total
        BY <2>2, <2>3, <2>4, <2>5
    <2>7. Computable(t)
        BY <2>1 DEF BuyToken
    <2> QED
        BY <2>2, <2>3, <2>4, <2>5, <2>6, <2>7, PartsOfSale
<1>2. Init => Solvent /\ SaleCounted
    BY DEF Init, SnipInit, Solvent, SaleCounted, Exists
<1>3. MarketInv /\ Solvent /\ SaleCounted /\ [Next]_vars => Solvent' /\ SaleCounted'
    BY ExactIsOne, ExchangeStep, CountedStep DEF Solvent
<1> QED
    BY <1>1, <1>2, <1>3, MarketInvCorrect, PTL DEF Spec, SaleSplit

-----------------------------------------------------------------------------
(* What is for sale can be bought.                                          *)

\* 98 percent of an amount are something from 2 on.
LEMMA FeeLeaves ==
    ASSUME NEW amount \in Nat
    PROVE  LessFee(amount) > 0 <=> amount >= 2
BY DEF LessFee

\* The price covers the messages, so only a message of nothing is refused.
LEMMA SalePayable ==
    ASSUME OneRecipient, SaleTypeOK, treasury \in Nat,
           NEW t \in Idx, saleNum[t] \in {0, 1}, NEW price \in Nat, NEW seller,
           NEW info, info = RoyaltiesOf(t),
           NEW share, share = RoyaltyShare(price, info.royalties[1].rate, info.decimals),
           NEW sends, sends = SaleSends(t, price, seller)
    PROVE  Computable(t) /\ BankAccepts(treasury + price, sends)
             <=> IF saleNum[t] = 0 \/ info = None THEN ZeroSendFails => price >= 2
                 ELSE info.royalties # <<>> =>
                        /\ info.decimals <= MaxPowDigits
                        /\ ZeroSendFails => share >= 1 /\ price - share >= 2
<1>1. TotalSent(sends) <= treasury + price
    <2>1. PICK total \in Nat : total = TotalSent(sends) /\ total <= price
        BY PriceCovers
    <2> QED
        BY <2>1
<1>2. BankAccepts(treasury + price, sends)
        <=> (ZeroSendFails => \A i \in DOMAIN sends : sends[i].amount > 0)
    BY <1>1 DEF BankAccepts
<1>3. PaysRoyalties(t) <=> ~(saleNum[t] = 0 \/ info = None)
    BY DEF PaysRoyalties
<1>4. \/ /\ ~PaysRoyalties(t)
         /\ DOMAIN sends = {1} /\ sends[1] = Send(seller, LessFee(price))
      \/ /\ PaysRoyalties(t) /\ Len(info.royalties) = 0
         /\ DOMAIN sends = {}
      \/ /\ PaysRoyalties(t) /\ Len(info.royalties) = 1
         /\ share \in Nat /\ share <= price
         /\ DOMAIN sends = {1, 2}
         /\ sends[1] = Send(info.royalties[1].recipient, share)
         /\ sends[2] = Send(seller, LessFee(price - share))
    BY SaleSendsCases
<1>5. PaysRoyalties(t) => (info.royalties = <<>> <=> Len(info.royalties) = 0)
    <2>1. PaysRoyalties(t) => info.royalties \in Seq([recipient : Addr, rate : Nat])
        BY MarketAssumption DEF PaysRoyalties, RoyaltiesOf, SaleTypeOK, StoredInfo, MaybeInfo
    <2> QED
        BY <2>1
<1>6. CASE ~PaysRoyalties(t) /\ DOMAIN sends = {1} /\ sends[1] = Send(seller, LessFee(price))
    <2>1. Computable(t)
        BY <1>6 DEF Computable
    <2>2. sends[1].amount > 0 <=> price >= 2
        BY <1>6, FeeLeaves DEF Send
    <2> QED
        BY <1>2, <1>3, <1>6, <2>1, <2>2
<1>7. CASE PaysRoyalties(t) /\ Len(info.royalties) = 0 /\ DOMAIN sends = {}
    BY <1>2, <1>3, <1>5, <1>7 DEF Computable
<1>8. CASE /\ PaysRoyalties(t) /\ Len(info.royalties) = 1
           /\ share \in Nat /\ share <= price
           /\ DOMAIN sends = {1, 2}
           /\ sends[1] = Send(info.royalties[1].recipient, share)
           /\ sends[2] = Send(seller, LessFee(price - share))
    <2>1. Computable(t) <=> info.decimals <= MaxPowDigits
        BY <1>5, <1>8 DEF Computable
    <2>2. price - share \in Nat
        BY <1>8
    <2>3. /\ sends[1].amount > 0 <=> share >= 1
          /\ sends[2].amount > 0 <=> price - share >= 2
        BY <1>8, <2>2, FeeLeaves DEF Send
    <2> QED
        BY <1>2, <1>3, <1>5, <1>8, <2>1, <2>3
<1> QED
    BY <1>4, <1>6, <1>7, <1>8

(***************************************************************************)
(* If no royalties name more than one recipient, price and royalty alone   *)
(* decide whether what is for sale can be bought for its price: no order   *)
(* of listings, sales, burns, re-mints, withdrawals and royalty changes    *)
(* makes buy_token or the bank refuse any other purchase, and those with   *)
(* a payment of nothing or a share beyond u128 are all refused.            *)
(***************************************************************************)
THEOREM PriceDecidesCorrect == ASSUME OneRecipient PROVE Spec => []PriceDecides
<1>1. MarketInv /\ SaleCounted /\ Solvent => PriceDecides
    <2> SUFFICES ASSUME MarketInv, SaleCounted, Solvent, NEW id \in Ids, NEW s \in Addr,
                        NEW t, t = idxOf[id], Exists(t), ForSale(t),
                        saleInfo[t].price # 0, s # Owner(t)
                 PROVE  LET price == saleInfo[t].price
                            info == IF royalty[t] = None THEN defaultRoy ELSE royalty[t]
                            isFree == saleNum[t] = 0 \/ info = None
                            share == RoyaltyShare(price, info.royalties[1].rate, info.decimals)
                            sends == SaleSends(t, price, Owner(t))
                            Bought == /\ MayBuy(s, t, price)
                                      /\ Computable(t)
                                      /\ BankAccepts(treasury + price, sends)
                        IN  Bought <=>
                                  IF isFree THEN ZeroSendFails => price >= 2
                                  ELSE info.royalties # <<>> =>
                                         /\ info.decimals <= MaxPowDigits
                                         /\ ZeroSendFails => share >= 1 /\ price - share >= 2
        BY Zenon DEF PriceDecides
    <2> DEFINE price == saleInfo[t].price
    <2>0. PICK info : info = RoyaltiesOf(t)
        OBVIOUS
    <2>1. t \in Idx /\ t # None /\ SaleTypeOK /\ ForSaleIsListed
        BY SnipAssumption DEF MarketInv, Exists
    <2>2. token[t].transferable
        BY <2>1 DEF ForSaleIsListed
    <2>3. price \in Nat
        <3>1. saleInfo[t] \in SaleRecord
            BY <2>1 DEF SaleTypeOK, ForSale
        <3> QED
            BY <3>1, MarketAssumption DEF SaleRecord
    <2>4. treasury \in Nat /\ saleNum[t] \in {0, 1}
        BY <2>1 DEF Solvent, SaleCounted
    <2> QED
        <3>1. MayBuy(s, t, price)
            BY <2>2 DEF MayBuy
        <3>2. info = IF royalty[t] = None THEN defaultRoy ELSE royalty[t]
            BY <2>0 DEF RoyaltiesOf
        <3>3. PICK share :
                  share = RoyaltyShare(price, info.royalties[1].rate, info.decimals)
            OBVIOUS
        <3>4. PICK sends : sends = SaleSends(t, price, Owner(t))
            OBVIOUS
        <3>5. Computable(t) /\ BankAccepts(treasury + price, sends)
                <=> IF saleNum[t] = 0 \/ info = None THEN ZeroSendFails => price >= 2
                    ELSE info.royalties # <<>> =>
                           /\ info.decimals <= MaxPowDigits
                           /\ ZeroSendFails => share >= 1 /\ price - share >= 2
            BY <2>0, <2>1, <2>3, <2>4, <3>3, <3>4, SalePayable
        <3> QED
            BY <3>1, <3>2, <3>3, <3>4, <3>5
<1>2. Init => Solvent /\ SaleCounted
    BY DEF Init, SnipInit, Solvent, SaleCounted, Exists
<1>3. MarketInv /\ Solvent /\ SaleCounted /\ [Next]_vars => Solvent' /\ SaleCounted'
    BY ExchangeStep, CountedStep DEF Solvent
<1> QED
    BY <1>1, <1>2, <1>3, MarketInvCorrect, PTL DEF Spec

-----------------------------------------------------------------------------
(* What the contract's status stops.                                        *)

(***************************************************************************)
(* What handle lets through at each level of SetContractStatus.  From      *)
(* StopTransactions on nothing is minted or burned and a token changes     *)
(* hands only by being bought; one level on no token, permission, listing, *)
(* royalty or office changes at all; at StopAll no coins leave either.     *)
(***************************************************************************)
StopsAllButSales ==
    [][ /\ status # Normal =>
              /\ UNCHANGED <<mintCnt, tokenCnt, idxOf, idOf, creator>>
              /\ \A t \in Idx : token'[t] # token[t] => Sold(t)
        /\ status > StopTransactions =>
              UNCHANGED <<ledgerVars, permVars, ownerPriv, admin, minters,
                          listVars, saleNum, royVars>>
        /\ status = StopAll => sent' \in {<<>>, sent}
      ]_vars

\* Approvals stop with WithdrawFunds.
LEMMA ApprovalStops == IInv /\ ApprovalNext => status <= StopTransactions
BY DEF ApprovalNext, Approve, Revoke, ApproveRevoke, SetWhitelistedApproval,
    SetGlobalApproval, MakeOwnershipPrivate, CheckStatus

\* Past StopTransactions the admin can change the status only.
LEMMA AdminStops ==
    AdminNext => status <= StopTransactions \/ UNCHANGED <<admin, minters>>
BY DEF AdminNext, AddMinters, RemoveMinters, SetMinters, ChangeAdmin,
    SetContractStatus, CheckStatus

\* A purchase is the sale of the token that is bought, and moves no other.
LEMMA BoughtIsSold ==
    ASSUME MarketInv, NEW s \in Addr, NEW id, NEW paid, BuyToken(s, id, paid),
           NEW t \in Idx, token'[t] # token[t]
    PROVE  Sold(t)
<1>0. IInv /\ SaleTypeOK
    BY DEF MarketInv
<1>1. PICK n : n = idxOf[id]
    OBVIOUS
<1>2. /\ Exists(n) /\ Owner(n) # s /\ ForSale(n) /\ TransferEffect(n, s)
      /\ saleInfo' = [saleInfo EXCEPT ![n] = [status |-> "NotForSale", price |-> 0]]
    BY <1>1 DEF BuyToken, MayBuy, SoldInfo
<1>3. /\ n \in Idx /\ (Exists(t)' <=> Exists(t)) /\ t = n
      /\ Owner(t)' = s
    BY <1>0, <1>2, TransferTokens
<1>4. ~ForSale(t)'
    <2>1. saleInfo'[t].status = "NotForSale"
        BY <1>0, <1>2, <1>3 DEF SaleTypeOK
    <2> QED
        BY <2>1 DEF ForSale
<1> QED
    BY <1>2, <1>3, <1>4 DEF Sold

\* One step at each level of the status.
LEMMA StopStep ==
    ASSUME MarketInv, [Next]_vars
    PROVE  /\ status # Normal =>
                 /\ UNCHANGED <<mintCnt, tokenCnt, idxOf, idOf, creator>>
                 /\ \A t \in Idx : token'[t] # token[t] => Sold(t)
           /\ status > StopTransactions =>
                 UNCHANGED <<ledgerVars, permVars, ownerPriv, admin, minters,
                             listVars, saleNum, royVars>>
           /\ status = StopAll => sent' \in {<<>>, sent}
<1>0. IInv /\ status \in 0 .. 3
    BY DEF MarketInv, IInv, TypeOK, Normal, StopAll
<1> USE DEF Normal, StopTransactions, WithdrawFunds, StopAll, CheckStatus
<1>1. CASE LedgerSteps
    <2>1. status <= 0
        BY <1>1 DEF LedgerSteps, MintNft, Mint, Transfer, TransferNft, Burn, BurnNft
    <2> QED
        BY <1>0, <2>1
<1>2. CASE SaleSteps
    <2>1. status <= 1
        BY <1>2 DEF SaleSteps, SetSaleStatus, SetPrice, BuyToken
    <2>2. UNCHANGED <<mintCnt, tokenCnt, idxOf, idOf, creator>>
        BY <1>2 DEF SaleSteps, SetSaleStatus, SetPrice, BuyToken, TransferEffect, ledgerVars
    <2>3. \A t \in Idx : token'[t] # token[t] => Sold(t)
        BY <1>2, BoughtIsSold DEF SaleSteps, SetSaleStatus, SetPrice, ledgerVars
    <2> QED
        BY <1>0, <2>1, <2>2, <2>3
<1>3. CASE MoneySteps
    <2>1. UNCHANGED <<configVars, ledgerVars, permVars, ownerPriv, listVars, saleNum>>
        BY <1>3 DEF MoneySteps, Withdraw, SetTokenRoyalty, SetDefaultRoyalty
    <2>2. status <= 1 \/ UNCHANGED royVars
        BY <1>3 DEF MoneySteps, Withdraw, SetTokenRoyalty, SetDefaultRoyalty
    <2>3. status <= 2 \/ status <= 1
        BY <1>3 DEF MoneySteps, Withdraw, SetTokenRoyalty, SetDefaultRoyalty
    <2> QED
        BY <1>0, <2>1, <2>2, <2>3 DEF configVars, ledgerVars
<1>4. CASE Others
    <2>1. UNCHANGED <<ledgerVars, listVars, saleNum, royVars>> /\ sent' = <<>>
        BY <1>4, ApprovalFrame, AdminFrame DEF Others, NoMoney
    <2>2. status > 1 => UNCHANGED <<permVars, ownerPriv, admin, minters>>
        BY <1>0, <1>4, ApprovalStops, AdminStops, AdminFrame DEF Others
    <2> QED
        BY <2>1, <2>2 DEF ledgerVars
<1>5. CASE Receive \/ (NewBlock /\ UNCHANGED saleVars) \/ UNCHANGED vars
    BY <1>5 DEF Receive, NewBlock, vars, snipVars, saleVars, configVars, ledgerVars, moneyVars
<1> QED
    BY <1>1, <1>2, <1>3, <1>4, <1>5 DEF Next

(***************************************************************************)
(* handle gives each message its level: whatever came before, what a level *)
(* stops is what StopsAllButSales says, purchases being the one way a      *)
(* token moves while transfers are stopped.                                *)
(***************************************************************************)
THEOREM StopsCorrect == Spec => StopsAllButSales
<1> DEFINE Stops ==
        /\ status # Normal =>
              /\ UNCHANGED <<mintCnt, tokenCnt, idxOf, idOf, creator>>
              /\ \A t \in Idx : token'[t] # token[t] => Sold(t)
        /\ status > StopTransactions =>
              UNCHANGED <<ledgerVars, permVars, ownerPriv, admin, minters,
                          listVars, saleNum, royVars>>
        /\ status = StopAll => sent' \in {<<>>, sent}
<1>1. MarketInv /\ [Next]_vars => [Stops]_vars
    BY StopStep
<1> QED
    BY <1>1, MarketInvCorrect, PTL DEF Spec, StopsAllButSales

(***************************************************************************)
(* Sales, royalties and withdrawals leave the ledger sound: in the whole   *)
(* contract an id names one token, inventories and AuthLists are exact,    *)
(* nobody is granted twice, and the permission check overlooks nobody.     *)
(***************************************************************************)
THEOREM MarketLedgerCorrect ==
    Spec => [](IdsExact /\ InventoryExact /\ AuthListExact /\ NoDoubleGrant /\ CheckIsExact)
<1>1. IInv => CheckIsExact
    BY CoreIsAccess DEF CheckIsExact
<1>2. MarketInv =>
          IdsExact /\ InventoryExact /\ AuthListExact /\ NoDoubleGrant /\ CheckIsExact
    BY <1>1 DEF MarketInv, IInv
<1> QED
    BY <1>2, MarketInvCorrect, PTL
=============================================================================

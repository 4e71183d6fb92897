----------------------------- MODULE Marketplace -----------------------------
(***************************************************************************)
(* The whole marketplace contract: the ledger of Snip721.tla with listing, *)
(* pricing, buying, royalties and the contract's uscrt balance.  A handler *)
(* and the bank messages it returns are one step: if a message fails, the  *)
(* chain rolls the handler back too.                                       *)
(***************************************************************************)
EXTENDS Snip721, Sequences, Functions

CONSTANTS
    Prices,         \* bound: the u32 prices sellers ask, without 0
    RoyaltyInfos,   \* bound: the RoyaltyInfo a message may carry
    DecFrac,        \* DECIMAL_FRACTIONAL of cosmwasm's Decimal, 10^18
    MaxPowDigits,   \* the largest n for which 10^n fits a u128, 38
    MaxU256Digits,  \* the largest n for which 10^n fits a U256, 77
    MaxTreasury,    \* bound: the balance from which nobody sends coins
    Donations,      \* bound: amounts sent to the contract unasked
    ZeroSendFails   \* the bank module refuses to send zero coins (external)

VARIABLES
    saleInfo,       \* PREFIX_TOKEN_SALE_INFO
    forSale,        \* FOR_SALE_KEY
    saleNum,        \* PREFIX_SALE_NUM: 0 until the first sale, then 1
    royalty,        \* PREFIX_ROYALTY_INFO
    defaultRoy,     \* DEFAULT_ROYALTY_KEY
    treasury,       \* uscrt held by the contract
    sent            \* bank messages of the last handler

listVars == <<saleInfo, forSale>>
royVars == <<royalty, defaultRoy>>
moneyVars == <<treasury, sent>>
saleVars == <<listVars, saleNum, royVars, moneyVars>>
vars == <<snipVars, saleVars>>

ASSUME MarketAssumption ==
    /\ Prices \subseteq Nat \ {0}
    /\ RoyaltyInfos \subseteq
           [decimals : Nat, royalties : Seq([recipient : Addr, rate : Nat])]
    /\ None \notin RoyaltyInfos
    /\ None \notin [status : {"ForSale", "NotForSale"}, price : Nat]
    /\ None \notin {0, 1}
    /\ DecFrac \in Nat \ {0}
    /\ MaxPowDigits \in Nat /\ MaxU256Digits \in Nat
    /\ \A n \in 0 .. MaxU256Digits : 10 ^ n \in Nat \ {0}   \* for the provers
    /\ MaxTreasury \in Nat /\ Donations \subseteq Nat
    /\ ZeroSendFails \in BOOLEAN

NoMoney == treasury' = treasury /\ sent' = <<>>

-----------------------------------------------------------------------------
(* Royalties.                                                               *)

TotalRate(info) ==
    SumFunction([i \in DOMAIN info.royalties |-> info.royalties[i].rate])

\* what store_royalties accepts
RoyaltyOk(info) ==
    info # None => /\ info.decimals <= MaxU256Digits
                   /\ TotalRate(info) <= 10 ^ info.decimals

\* what store_royalties leaves behind: the given info, else the default
Stored(info, default) == IF info = None THEN default ELSE info

\* mutant of RoyaltiesOf: the default takes precedence
MutDefaultFirst(t) == IF defaultRoy # None THEN defaultRoy ELSE royalty[t]

RoyaltiesOf(t) == IF royalty[t] # None THEN royalty[t] ELSE defaultRoy

\* original * Decimal::from_ratio(rate, 10^decimals), both divisions floored
RoyaltyShare(price, rate, decimals) ==
    (price * ((rate * DecFrac) \div (10 ^ decimals))) \div DecFrac

\* amount * Decimal::percent(98)
LessFee(amount) == (amount * 98) \div 100

-----------------------------------------------------------------------------
(* Payments of a sale.                                                      *)

Send(to, amount) == [to |-> to, amount |-> amount]

\* mutant of RoyaltySends: the seller's part ignores the royalty
MutFullPrice(info, price, seller) ==
    LET roys == info.royalties IN
    [n \in 1 .. 2 * Len(roys) |->
        LET roy == roys[(n + 1) \div 2] IN
        IF n % 2 = 1 THEN Send(roy.recipient, RoyaltyShare(price, roy.rate, info.decimals))
                     ELSE Send(seller, LessFee(price))]

\* for every royalty: the recipient's share, then what is left less the fee
RoyaltySends(info, price, seller) ==
    LET roys == info.royalties
        Share(i) == RoyaltyShare(price, roys[i].rate, info.decimals)
    IN  [n \in 1 .. 2 * Len(roys) |->
            LET i == (n + 1) \div 2 IN
            IF n % 2 = 1 THEN Send(roys[i].recipient, Share(i))
                         ELSE Send(seller, LessFee(price - Share(i)))]

\* only sales after the first pay royalties
PaysRoyalties(t) == saleNum[t] = 1 /\ RoyaltiesOf(t) # None

SaleSends(t, price, seller) ==
    IF PaysRoyalties(t) THEN RoyaltySends(RoyaltiesOf(t), price, seller)
                        ELSE <<Send(seller, LessFee(price))>>

TotalSent(sends) == SumFunction([i \in DOMAIN sends |-> sends[i].amount])

\* pow panics where store_royalties does not
Computable(t) ==
    PaysRoyalties(t) /\ RoyaltiesOf(t).royalties # <<>>
        => RoyaltiesOf(t).decimals <= MaxPowDigits

\* the bank carries out all the messages of a handler, or the handler fails
BankAccepts(balance, sends) ==
    /\ TotalSent(sends) <= balance
    /\ ZeroSendFails => \A i \in DOMAIN sends : sends[i].amount > 0

-----------------------------------------------------------------------------
(* Listing and selling.                                                     *)

ForSale(t) == saleInfo[t] # None /\ saleInfo[t].status = "ForSale"

DelistedIds(id) == forSale \ {id}

\* mutant of MayList: a non-transferable token can be listed
MutListFixed(s, t) == Owner(t) = s

MayList(s, t) == token[t].transferable /\ Owner(t) = s

\* price 0 also stands for a message without a price
SetSaleStatus(s, id, sale, price) ==
    LET t == idxOf[id] IN
    /\ CheckStatus(StopTransactions)
    /\ Exists(t)
    /\ MayList(s, t)
    /\ forSale' = IF sale = "ForSale" THEN forSale \cup {id} ELSE DelistedIds(id)
    /\ saleInfo' = [saleInfo EXCEPT ![t] =
           [status |-> sale, price |-> IF sale = "ForSale" THEN price ELSE 0]]
    /\ UNCHANGED <<configVars, ledgerVars, permVars, ownerPriv, saleNum, royVars>>
    /\ NoMoney /\ Handled

MayPrice(s, t) == Owner(t) = s /\ ForSale(t)

SetPrice(s, id, price) ==
    LET t == idxOf[id] IN
    /\ CheckStatus(StopTransactions)
    /\ price # 0
    /\ Exists(t)
    /\ MayPrice(s, t)
    /\ saleInfo' = [saleInfo EXCEPT ![t].price = price]
    /\ UNCHANGED <<configVars, ledgerVars, permVars, ownerPriv, forSale, saleNum, royVars>>
    /\ NoMoney /\ Handled

\* exactly one coin, of uscrt, worth the price
MayBuy(s, t, paid) ==
    /\ ForSale(t)
    /\ token[t].transferable
    /\ Owner(t) # s
    /\ saleInfo[t].price # 0
    /\ paid = saleInfo[t].price

\* mutant of SoldInfo: the buyer's token stays for sale
MutSoldStaysForSale(t) == saleInfo

\* revert_sale_status
SoldInfo(t) == [saleInfo EXCEPT ![t] = [status |-> "NotForSale", price |-> 0]]

BuyToken(s, id, paid) ==
    LET t == idxOf[id]
        sends == SaleSends(t, paid, Owner(t))
    IN
    /\ CheckStatus(StopTransactions)
    /\ Exists(t)
    /\ MayBuy(s, t, paid)
    /\ Computable(t)
    /\ BankAccepts(treasury + paid, sends)
    /\ TransferEffect(t, s)
    /\ saleNum' = [saleNum EXCEPT ![t] = 1]
    /\ saleInfo' = SoldInfo(t)
    /\ forSale' = DelistedIds(id)
    /\ treasury' = (treasury + paid) - TotalSent(sends)
    /\ sent' = sends
    /\ UNCHANGED royVars
    /\ Handled

-----------------------------------------------------------------------------
(* Money and royalties of the contract.                                     *)

Withdraw(s, to) ==
    LET sends == <<Send(to, treasury)>> IN
    /\ CheckStatus(WithdrawFunds)
    /\ s = admin
    /\ BankAccepts(treasury, sends)
    /\ treasury' = 0
    /\ sent' = sends
    /\ UNCHANGED <<configVars, ledgerVars, permVars, ownerPriv, listVars, saleNum, royVars>>
    /\ Handled

\* coins that reach the contract without a purchase (external)
Receive ==
    /\ \E n \in Donations : treasury + n <= MaxTreasury /\ treasury' = treasury + n
    /\ UNCHANGED <<snipVars, listVars, saleNum, royVars, sent>>

SetTokenRoyalty(s, id, info) ==
    LET t == idxOf[id] IN
    /\ CheckStatus(StopTransactions)
    /\ Exists(t)
    /\ token[t].transferable
    /\ s = creator[t] /\ s = Owner(t)
    /\ RoyaltyOk(info)
    /\ royalty' = [royalty EXCEPT ![t] = Stored(info, defaultRoy)]
    /\ UNCHANGED <<configVars, ledgerVars, permVars, ownerPriv, listVars, saleNum, defaultRoy>>
    /\ NoMoney /\ Handled

SetDefaultRoyalty(s, info) ==
    /\ CheckStatus(StopTransactions)
    /\ s \in minters
    /\ RoyaltyOk(info)
    /\ defaultRoy' = info
    /\ UNCHANGED <<configVars, ledgerVars, permVars, ownerPriv, listVars, saleNum, royalty>>
    /\ NoMoney /\ Handled

-----------------------------------------------------------------------------
(* The ledger's handlers, with what they do to sales.                       *)

MintedRoyalty(new, info) ==
    IF new.transferable THEN Stored(info, defaultRoy) ELSE None

MintNft(s, given, new, info) ==
    /\ Mint(s, given, new)
    /\ new.transferable => RoyaltyOk(info)
    /\ saleNum' = [saleNum EXCEPT ![NextIdx] = 0]
    /\ royalty' = [royalty EXCEPT ![NextIdx] = MintedRoyalty(new, info)]
    /\ UNCHANGED <<listVars, defaultRoy>> /\ NoMoney

Transfer(s, id, to) ==
    /\ TransferNft(s, id, to)
    /\ UNCHANGED <<listVars, saleNum, royVars>> /\ NoMoney

Burn(s, id) ==
    /\ BurnNft(s, id)
    /\ royalty' = [royalty EXCEPT ![idxOf[id]] = None]
    /\ UNCHANGED <<listVars, saleNum, defaultRoy>> /\ NoMoney

Others ==
    /\ ApprovalNext \/ AdminNext
    /\ UNCHANGED <<listVars, saleNum, royVars>> /\ NoMoney

-----------------------------------------------------------------------------
MaybeInfo == RoyaltyInfos \cup {None}

Init ==
    /\ SnipInit
    /\ saleInfo = [t \in Idx |-> None]
    /\ forSale = {}
    /\ saleNum = [t \in Idx |-> None]
    /\ royalty = [t \in Idx |-> None]
    /\ defaultRoy \in {info \in MaybeInfo : RoyaltyOk(info)}
    /\ treasury = 0
    /\ sent = <<>>

LedgerSteps == \E s \in Addr :
    \/ \E given \in MintIds, new \in MintChoices, info \in MaybeInfo :
           MintNft(s, given, new, info)
    \/ \E id \in Ids, to \in Addr : Transfer(s, id, to)
    \/ \E id \in Ids : Burn(s, id)

SaleSteps == \E s \in Addr :
    \/ \E id \in Ids, sale \in {"ForSale", "NotForSale"}, price \in Prices \cup {0} :
           SetSaleStatus(s, id, sale, price)
    \/ \E id \in Ids, price \in Prices : SetPrice(s, id, price)
    \/ \E id \in Ids, paid \in Prices :
           treasury < MaxTreasury /\ BuyToken(s, id, paid)

MoneySteps == \E s \in Addr :
    \/ \E to \in Addr : Withdraw(s, to)
    \/ \E id \in Ids, info \in MaybeInfo : SetTokenRoyalty(s, id, info)
    \/ \E info \in MaybeInfo : SetDefaultRoyalty(s, info)

Next ==
    \/ LedgerSteps
    \/ SaleSteps
    \/ MoneySteps
    \/ Receive
    \/ Others
    \/ NewBlock /\ UNCHANGED saleVars

Spec == Init /\ [][Next]_vars

-----------------------------------------------------------------------------
(* Properties.                                                              *)

(***************************************************************************)
(* A token that is for sale is in the list TokensForSale returns and may   *)
(* be transferred: for burned and re-minted ids too.                       *)
(***************************************************************************)
ForSaleIsListed ==
    \A id \in Ids : idxOf[id] # None /\ ForSale(idxOf[id]) =>
        id \in forSale /\ token[idxOf[id]].transferable

\* TokensForSale returns only tokens that exist and are for sale (README).
ListedIsForSale ==
    \A id \in forSale : idxOf[id] # None /\ ForSale(idxOf[id])

(***************************************************************************)
(* A minted id starts afresh: not for sale, unsold and approved to nobody, *)
(* although a burn leaves the sale record, the sale count and the entry in *)
(* the list of the token that had the id before.                           *)
(***************************************************************************)
FreshStart ==
    [][\A id \in Ids, t \in Idx : idxOf[id] = None /\ idxOf'[id] = t =>
         /\ ~ForSale(t)' /\ saleNum'[t] = 0
         /\ tokPerm'[t] = NoGrants
         /\ \A o \in Addr, g \in Grantee, p \in PermTypes : t \notin authList'[o][g][p]
      ]_vars

\* the coming step is a sale of t
Sold(t) ==
    /\ Exists(t) /\ Exists(t)' /\ Owner(t)' # Owner(t)
    /\ ForSale(t) /\ ~ForSale(t)'

PaidTo(sends, a) ==
    SumFunction([i \in {j \in DOMAIN sends : sends[j].to = a} |-> sends[i].amount])

(***************************************************************************)
(* A first sale, and a sale without royalties, pays the seller 98 percent  *)
(* of the price.  A later sale of a token with one royalty, its own if it  *)
(* has one and the default otherwise, pays the recipient the exact rate    *)
(* rounded down and the seller 98 percent of what is left of the price.    *)
(***************************************************************************)
SaleSplit ==
    [][ \A t \in Idx : Sold(t) =>
          LET price == saleInfo[t].price
              info == IF royalty[t] = None THEN defaultRoy ELSE royalty[t]
              due == IF saleNum[t] = 0 \/ info = None THEN [to |-> Owner(t), amount |-> 0]
                     ELSE [to |-> info.royalties[1].recipient,
                           amount |-> (price * info.royalties[1].rate) \div (10 ^ info.decimals)]
              kept == treasury' - treasury
          IN  /\ 50 * kept \in price - due.amount .. price - due.amount + 49
              /\ PaidTo(sent', due.to) >= due.amount
              /\ due.to # Owner(t) =>
                    /\ PaidTo(sent', due.to) = due.amount
                    /\ PaidTo(sent', Owner(t)) + due.amount + kept = price
              /\ due.to = Owner(t) => PaidTo(sent', Owner(t)) + kept = price
      ]_vars

(***************************************************************************)
(* Whether what is for sale can be bought for its price is decided by the  *)
(* price and the royalty due alone: not by who buys, the balance, or how   *)
(* listings, sales, burns and re-mints led there.  With at most one        *)
(* recipient the purchase fails exactly where buy_token cannot compute the *)
(* share, or the bank refuses a payment that rounds to nothing: a price of *)
(* 1, a share of nothing, or one that leaves the seller less than 2.       *)
(***************************************************************************)
PriceDecides ==
    \A id \in Ids, s \in Addr :
        LET t == idxOf[id]
            price == saleInfo[t].price
            info == IF royalty[t] = None THEN defaultRoy ELSE royalty[t]
            isFree == saleNum[t] = 0 \/ info = None
            share == RoyaltyShare(price, info.royalties[1].rate, info.decimals)
            sends == SaleSends(t, price, Owner(t))
            Bought == /\ MayBuy(s, t, price)
                      /\ Computable(t)
                      /\ BankAccepts(treasury + price, sends)
        IN  /\ Exists(t) /\ ForSale(t) /\ price # 0 /\ s # Owner(t)
            /\ isFree \/ Len(info.royalties) <= 1
            => (Bought <=> IF isFree THEN ZeroSendFails => price >= 2
                           ELSE info.royalties # <<>> =>
                                  /\ info.decimals <= MaxPowDigits
                                  /\ ZeroSendFails => share >= 1 /\ price - share >= 2)

(***************************************************************************)
(* The contract implements the abstract exchange: an ask belongs to a      *)
(* token for sale, only what is listed trades, what is for sale is burned  *)
(* only if burning is enabled, no sale takes from the contract's balance.  *)
(***************************************************************************)
Ex == INSTANCE Exchange WITH
    holder <- [id \in Ids |-> IF idxOf[id] = None THEN None ELSE Owner(idxOf[id])],
    ask <- [id \in Ids |-> IF idxOf[id] # None /\ ForSale(idxOf[id])
                           THEN saleInfo[idxOf[id]].price ELSE None],
    listed <- forSale,
    cash <- treasury,
    Asks <- Prices \cup {0},
    NoHolder <- None,
    NoAsk <- None,
    MayDestroyOffered <- BurnIsEnabled

ImplementsExchange == Ex!Spec

(* Claims of the documentation that the code does not keep.                 *)

\* Royalties and fee are deducted from the price (README): a sale never
\* leaves the contract with less than it had.
SalesNeverDrain == [][saleInfo' # saleInfo => treasury' >= treasury]_vars
=============================================================================

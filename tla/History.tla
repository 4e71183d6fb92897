------------------------------- MODULE History -------------------------------
(***************************************************************************)
(* The transaction history: every mint, transfer and burn of Snip721.tla   *)
(* is stored once and listed for the addresses that took part, and a       *)
(* client reads its own list in pages, newest first, while more comes in.  *)
(***************************************************************************)
EXTENDS Snip721, Sequences

CONSTANTS
    PageSize,       \* the page_size a client asks for
    MaxTxs,         \* bound: transactions of a run
    MaxPages        \* bound: pages the client asks for

VARIABLES
    txs,            \* PREFIX_TXS; Config.tx_cnt is its length
    txIds,          \* PREFIX_TX_IDS: the list of an address, oldest first
    reader,         \* the client that reads its history
    page,           \* the page it asks for next
    seen,           \* the transactions its pages showed
    wanted,         \* those it had when it asked for the first page
    done            \* the last page was short

txVars == <<txs, txIds>>
readVars == <<reader, page, seen, wanted, done>>
vars == <<snipVars, txVars, readVars>>

ASSUME HistoryAssumption ==
    /\ PageSize \in Nat \ {0} /\ MaxTxs \in Nat /\ MaxPages \in Nat
    /\ None \notin {"Mint", "Transfer", "Burn"}

-----------------------------------------------------------------------------
(* Storing.                                                                 *)

TxCnt == Len(txs)

\* as StoredTx; from is the minter or the owner, by whoever acted if not from
Tx(kind, id, from, by, to) ==
    [tx_id |-> TxCnt, kind |-> kind, token |-> id, from |-> from, by |-> by, to |-> to,
     height |-> block.height, time |-> block.time]

\* append_tx_for_addr for each of a list of addresses
AppendFor(list) ==
    [a \in Addr |-> txIds[a] \o
        [i \in 1 .. Cardinality({j \in DOMAIN list : list[j] = a}) |-> TxCnt]]

Store(tx, list) ==
    /\ TxCnt < MaxTxs
    /\ txs' = Append(txs, tx)
    /\ txIds' = AppendFor(list)

OtherThan(s, owner) == IF s = owner THEN None ELSE s

\* mutant of TransferFor: an operator that takes the token is listed twice
MutTransferFor(from, by, to) == IF by = None THEN <<from, to>> ELSE <<from, to, by>>

TransferFor(from, by, to) ==
    IF by = None \/ by = to THEN <<from, to>> ELSE <<from, to, by>>

\* store_transfer
StoreTransfer(s, id, from, to) ==
    Store(Tx("Transfer", id, from, OtherThan(s, from), to),
          TransferFor(from, OtherThan(s, from), to))

\* store_mint
StoreMint(s, id, to) ==
    Store(Tx("Mint", id, s, None, to), IF to = s THEN <<to>> ELSE <<to, s>>)

\* store_burn
StoreBurn(s, id, from) ==
    Store(Tx("Burn", id, from, OtherThan(s, from), None),
          IF s = from THEN <<from>> ELSE <<from, s>>)

\* the handlers of Snip721 with what they store
Mints(s, given, new) ==
    Mint(s, given, new) /\ StoreMint(s, MintId(given), new.owner)

\* mutant of TransferredFrom: the sender stands for the owner
MutTransferredFrom(s, id) == s

TransferredFrom(s, id) == Owner(idxOf[id])

Transfers(s, id, to) ==
    TransferNft(s, id, to) /\ StoreTransfer(s, id, TransferredFrom(s, id), to)

Burns(s, id) == BurnNft(s, id) /\ StoreBurn(s, id, Owner(idxOf[id]))

-----------------------------------------------------------------------------
(* get_txs.                                                                 *)

\* mutant of Skipped: the first page counts as one
MutSkipped(p, size) == (p + 1) * size

Skipped(p, size) == p * size

\* the ids of page p of a's list, from the newest
GetTxs(a, p, size) ==
    LET last == Len(txIds[a]) - Skipped(p, size)
    IN  {txIds[a][i] : i \in {j \in DOMAIN txIds[a] : j <= last /\ j > last - size}}

AllOf(a) == {txIds[a][i] : i \in DOMAIN txIds[a]}

\* the client (external) asks for page after page until one is short
ReadPage ==
    LET shown == GetTxs(reader, page, PageSize) IN
    /\ ~done /\ page < MaxPages
    /\ seen' = seen \cup shown
    /\ wanted' = IF page = 0 THEN AllOf(reader) ELSE wanted
    /\ page' = page + 1
    /\ done' = (Cardinality(shown) < PageSize)
    /\ UNCHANGED <<snipVars, txVars, reader>>

HistoryInit ==
    /\ SnipInit
    /\ txs = <<>>
    /\ txIds = [a \in Addr |-> <<>>]
    /\ reader \in Addr
    /\ page = 0 /\ seen = {} /\ wanted = {} /\ done = FALSE

Handle ==
    \/ \E s \in Addr :
          \/ \E given \in MintIds, new \in MintChoices : Mints(s, given, new)
          \/ \E id \in Ids, to \in Addr : Transfers(s, id, to)
          \/ \E id \in Ids : Burns(s, id)
    \/ ApprovalNext /\ UNCHANGED txVars
    \/ NewBlock /\ UNCHANGED txVars

HistoryNext == ReadPage \/ (Handle /\ UNCHANGED readVars)

HistorySpec == HistoryInit /\ [][HistoryNext]_vars

-----------------------------------------------------------------------------
(* Properties.                                                              *)

TookPart(a, tx) == a \in {tx.from, tx.by, tx.to}

(***************************************************************************)
(* The list of an address holds exactly the transactions it took part in,  *)
(* as minter, owner, recipient, operator or burner, each once and in order:*)
(* also when one address plays two of these parts.                         *)
(***************************************************************************)
ListsExact ==
    /\ \A i \in DOMAIN txs : txs[i].tx_id = i - 1
    /\ \A a \in Addr :
          /\ AllOf(a) = {txs[i].tx_id : i \in {j \in DOMAIN txs : TookPart(a, txs[j])}}
          /\ \A i \in 1 .. Len(txIds[a]) - 1 : txIds[a][i] < txIds[a][i + 1]

\* the last of the first n transactions that is about id; 0 if there is none
LastTx(id, n) ==
    LET custody == {i \in 1 .. n : txs[i].token = id}
    IN  IF custody = {} THEN 0 ELSE CHOOSE i \in custody : \A j \in custody : j <= i

(***************************************************************************)
(* The history is a chain of custody: an id's transactions begin with a    *)
(* mint, each transfer and burn names the owner that the one before it     *)
(* left, a mint comes only after a burn, blocks do not go back, and the    *)
(* last one names today's owner.                                           *)
(***************************************************************************)
CustodyChain ==
    \A id \in Ids :
        LET last == LastTx(id, Len(txs)) IN
        /\ \A i \in {j \in DOMAIN txs : txs[j].token = id} :
              LET before == LastTx(id, i - 1) IN
              IF before = 0 THEN txs[i].kind = "Mint"
              ELSE /\ txs[i].kind = "Mint" <=> txs[before].to = None
                   /\ txs[i].kind # "Mint" => txs[i].from = txs[before].to
                   /\ txs[i].height >= txs[before].height
        /\ IF Exists(idxOf[id]) THEN last # 0 /\ txs[last].to = Owner(idxOf[id])
           ELSE last # 0 => txs[last].kind = "Burn"

(***************************************************************************)
(* A client that reads page after page until one is short has seen all it  *)
(* had when it began, though the pages move while transactions come in.    *)
(***************************************************************************)
ReadingIsComplete == done => wanted \subseteq seen
=============================================================================

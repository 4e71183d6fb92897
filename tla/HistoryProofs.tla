---------------------------- MODULE HistoryProofs ----------------------------
(***************************************************************************)
(* Proofs about the transaction history, for any number of transactions,   *)
(* addresses and ids and any page size.                                    *)
(***************************************************************************)
EXTENDS History, Snip721Proofs, SequenceTheorems

\* what a token id stands for: its owner, or nobody
OwnerOf(id) == IF Exists(idxOf[id]) THEN Owner(idxOf[id]) ELSE None

TxType ==
    [tx_id : Nat, kind : {"Mint", "Transfer", "Burn"}, token : Ids,
     from : Addr, by : Addr \cup {None}, to : Addr \cup {None}, height : Nat, time : Nat]

Distinct(list) ==
    /\ list \in Seq(Addr)
    /\ \A i, j \in DOMAIN list : list[i] = list[j] => i = j

Lists(list, a) == \E j \in DOMAIN list : list[j] = a

\* what a handler stores when it does something to the token id
Stored(id, tx, list) ==
    /\ Store(tx, list)
    /\ tx \in TxType /\ tx.token = id /\ tx.tx_id = TxCnt /\ tx.height = block.height
    /\ Distinct(list)
    /\ \A a \in Addr : TookPart(a, tx) <=> Lists(list, a)

\* what it does to the token is what the transaction says
Tells(id, tx) ==
    /\ tx.kind = "Mint" <=> OwnerOf(id) = None
    /\ tx.kind # "Mint" => tx.from = OwnerOf(id)
    /\ tx.kind = "Burn" <=> tx.to = None
    /\ tx.to = OwnerOf(id)'
    /\ \A other \in Ids : other # id => OwnerOf(other)' = OwnerOf(other)
    /\ block' = block

\* Lists of one, two and three different addresses.
LEMMA ShortLists ==
    ASSUME NEW a \in Addr, NEW b \in Addr, NEW c \in Addr
    PROVE  /\ Distinct(<<a>>) /\ \A x : Lists(<<a>>, x) <=> x = a
           /\ a # b => /\ Distinct(<<a, b>>)
                       /\ \A x : Lists(<<a, b>>, x) <=> x \in {a, b}
           /\ a # b /\ c \notin {a, b} =>
                  /\ Distinct(<<a, b, c>>)
                  /\ \A x : Lists(<<a, b, c>>, x) <=> x \in {a, b, c}
<1>1. Distinct(<<a>>) /\ \A x : Lists(<<a>>, x) <=> x = a
    BY DEF Distinct, Lists
<1>2. ASSUME a # b
      PROVE  Distinct(<<a, b>>) /\ \A x : Lists(<<a, b>>, x) <=> x \in {a, b}
    <2>1. <<a, b>> \in Seq(Addr) /\ DOMAIN <<a, b>> = {1, 2}
        OBVIOUS
    <2> QED
        BY <1>2, <2>1 DEF Distinct, Lists
<1>3. ASSUME a # b, c \notin {a, b}
      PROVE  Distinct(<<a, b, c>>) /\ \A x : Lists(<<a, b, c>>, x) <=> x \in {a, b, c}
    <2>1. <<a, b, c>> \in Seq(Addr) /\ DOMAIN <<a, b, c>> = {1, 2, 3}
        OBVIOUS
    <2> QED
        BY <1>3, <2>1 DEF Distinct, Lists
<1> QED
    BY <1>1, <1>2, <1>3

\* The token of an id is no other id's.
LEMMA IdsApart ==
    ASSUME IInv, NEW id \in Ids, NEW other \in Ids, id # other, Exists(idxOf[id])
    PROVE  idxOf[other] # idxOf[id]
BY DEF IInv, IdsExact, Exists

\* A mint is stored once for the new owner and once for another minter.
LEMMA MintStored ==
    ASSUME IInv, TxCnt \in Nat, NEW s \in Addr, NEW given \in MintIds, NEW new \in MintChoices,
           Mints(s, given, new)
    PROVE  \E id \in Ids : \E tx, list : Stored(id, tx, list) /\ Tells(id, tx)
<1>1. PICK id \in Ids : id = MintId(given)
    BY SnipAssumption DEF Mints, Mint, BelowLimit, MintId, IInv, TypeOK, Idx
<1>2. PICK tx : tx = Tx("Mint", id, s, None, new.owner)
    OBVIOUS
<1>3. PICK list : list = IF new.owner = s THEN <<new.owner>> ELSE <<new.owner, s>>
    OBVIOUS
<1>4. PICK n : n = mintCnt
    OBVIOUS
<1>5. new.owner \in Addr /\ new # None
    BY SnipAssumption
<1>6. Stored(id, tx, list)
    <2>1. Store(tx, list)
        BY <1>1, <1>2, <1>3 DEF Mints, StoreMint
    <2>2. tx \in TxType /\ tx.token = id /\ tx.tx_id = TxCnt /\ tx.height = block.height
        BY <1>2, <1>5 DEF Tx, TxType, IInv, TypeOK, BlockInfo
    <2>3. Distinct(list) /\ \A a \in Addr : Lists(list, a) <=> a \in {s, new.owner}
        <3>1. CASE new.owner = s
            <4>1. Distinct(<<s>>) /\ \A a : Lists(<<s>>, a) <=> a = s
                BY ShortLists
            <4>2. list = <<s>>
                BY <1>3, <3>1
            <4> QED
                BY <3>1, <4>1, <4>2
        <3>2. CASE new.owner # s
            <4>1. /\ Distinct(<<new.owner, s>>)
                  /\ \A a : Lists(<<new.owner, s>>, a) <=> a \in {new.owner, s}
                BY <1>5, <3>2, ShortLists
            <4>2. list = <<new.owner, s>>
                BY <1>3, <3>2
            <4> QED
                BY <4>1, <4>2
        <3> QED
            BY <3>1, <3>2
    <2>4. \A a \in Addr : TookPart(a, tx) <=> a \in {s, new.owner}
        BY <1>2, SnipAssumption DEF TookPart, Tx
    <2> QED
        BY <2>1, <2>2, <2>3, <2>4 DEF Stored
<1>7. Tells(id, tx)
    <2>1. idxOf[id] = None /\ MintEffect(s, id, new)
        BY <1>1 DEF Mints, Mint, MayMint
    <2>2. n \in Idx /\ ~Exists(n) /\ token'[n] = new
        <3>1. n \in Idx
            BY <1>4, SnipAssumption DEF Mints, Mint, BelowLimit, IInv, TypeOK, Idx
        <3> QED
            BY <3>1, <1>4, MintTokens DEF Mints
    <2>3. idxOf'[id] = n /\ block' = block
        BY <2>1, <1>4 DEF MintEffect, NextIdx, Handled, IInv, TypeOK
    <2>4. OwnerOf(id) = None /\ OwnerOf(id)' = new.owner
        BY <2>1, <2>2, <2>3, <1>5, SnipAssumption DEF OwnerOf, Exists, Owner
    <2>5. ASSUME NEW other \in Ids, other # id PROVE OwnerOf(other)' = OwnerOf(other)
        <3>1. idxOf'[other] = idxOf[other]
            BY <2>1, <2>5 DEF MintEffect, IInv, TypeOK
        <3>2. idxOf[other] # n
            BY <2>2, SnipAssumption DEF IInv, IdsExact
        <3>3. idxOf[other] \in Idx => token'[idxOf[other]] = token[idxOf[other]]
            BY <2>1, <3>2, <1>4 DEF MintEffect, NextIdx, IInv, TypeOK
        <3> QED
            BY <3>1, <3>3 DEF OwnerOf, Exists, Owner
    <2> QED
        BY <2>3, <2>4, <2>5, <1>2, <1>5, SnipAssumption DEF Tells, Tx
<1> QED
    BY <1>6, <1>7

\* A transfer is stored once for each of owner, recipient and operator.
LEMMA TransferStored ==
    ASSUME IInv, TxCnt \in Nat, NEW s \in Addr, NEW id \in Ids, NEW to \in Addr,
           Transfers(s, id, to)
    PROVE  \E tx, list : Stored(id, tx, list) /\ Tells(id, tx)
<1>1. PICK t : t = idxOf[id]
    OBVIOUS
<1>2. PICK from : from = Owner(t)
    OBVIOUS
<1>3. PICK by : by = OtherThan(s, from)
    OBVIOUS
<1>4. PICK tx : tx = Tx("Transfer", id, from, by, to)
    OBVIOUS
<1>5. PICK list : list = TransferFor(from, by, to)
    OBVIOUS
<1>6. Exists(t) /\ MayMove(s, t, to) /\ TransferEffect(t, to) /\ Handled
    BY <1>1 DEF Transfers, TransferNft
<1>7. from \in Addr /\ from # to
    BY <1>2, <1>6, OwnerType DEF IInv, MayMove
<1>8. Stored(id, tx, list)
    <2>1. Store(tx, list)
        BY <1>1, <1>2, <1>3, <1>4, <1>5 DEF Transfers, StoreTransfer, TransferredFrom
    <2>2. by \in Addr \cup {None} /\ (by # None => by = s /\ s # from)
        BY <1>3 DEF OtherThan
    <2>3. tx \in TxType /\ tx.token = id /\ tx.tx_id = TxCnt /\ tx.height = block.height
        BY <1>4, <1>7, <2>2 DEF Tx, TxType, IInv, TypeOK, BlockInfo
    <2>4. CASE by = None \/ by = to
        <3>1. list = <<from, to>>
            BY <2>4, <1>5 DEF TransferFor
        <3>2. Distinct(list) /\ \A a \in Addr : Lists(list, a) <=> a \in {from, to}
            BY <3>1, <1>7, ShortLists
        <3>3. \A a \in Addr : TookPart(a, tx) <=> a \in {from, to}
            BY <2>4, <1>4, SnipAssumption DEF TookPart, Tx
        <3> QED
            BY <2>1, <2>3, <3>2, <3>3 DEF Stored
    <2>5. CASE by # None /\ by # to
        <3>1. list = <<from, to, by>>
            BY <2>5, <1>5 DEF TransferFor
        <3>2. by \in Addr /\ by \notin {from, to}
            BY <2>2, <2>5
        <3>3. Distinct(list) /\ \A a \in Addr : Lists(list, a) <=> a \in {from, to, by}
            <4>1. /\ Distinct(<<from, to, by>>)
                  /\ \A a : Lists(<<from, to, by>>, a) <=> a \in {from, to, by}
                BY <3>2, <1>7, ShortLists
            <4> QED
                BY <3>1, <4>1
        <3>4. \A a \in Addr : TookPart(a, tx) <=> a \in {from, to, by}
            BY <1>4 DEF TookPart, Tx
        <3> QED
            BY <2>1, <2>3, <3>3, <3>4 DEF Stored
    <2> QED
        BY <2>4, <2>5
<1>9. Tells(id, tx)
    <2>1. idxOf' = idxOf /\ block' = block
        BY <1>6 DEF TransferEffect, Handled
    <2>2. \A u \in Idx : u # t => token'[u] = token[u]
        BY <1>6, TransferTokens
    <2>3. Exists(t)' /\ Owner(t)' = to
        BY <1>6, TransferTokens, OwnerType DEF IInv
    <2>4. OwnerOf(id) = from /\ OwnerOf(id)' = to
        BY <1>1, <1>2, <1>6, <2>1, <2>3 DEF OwnerOf, Owner, Exists
    <2>5. ASSUME NEW other \in Ids, other # id PROVE OwnerOf(other)' = OwnerOf(other)
        <3>1. idxOf[other] # t
            BY <1>1, <1>6, <2>5, IdsApart
        <3> QED
            BY <2>1, <2>2, <3>1 DEF OwnerOf, Exists, Owner
    <2> QED
        BY <2>1, <2>4, <2>5, <1>4, <1>7, SnipAssumption DEF Tells, Tx
<1> QED
    BY <1>8, <1>9

\* A burn is stored once for the owner and once for another burner.
LEMMA BurnStored ==
    ASSUME IInv, TxCnt \in Nat, NEW s \in Addr, NEW id \in Ids, Burns(s, id)
    PROVE  \E tx, list : Stored(id, tx, list) /\ Tells(id, tx)
<1>1. PICK t : t = idxOf[id]
    OBVIOUS
<1>2. PICK from : from = Owner(t)
    OBVIOUS
<1>3. PICK by : by = OtherThan(s, from)
    OBVIOUS
<1>4. PICK tx : tx = Tx("Burn", id, from, by, None)
    OBVIOUS
<1>5. PICK list : list = IF s = from THEN <<from>> ELSE <<from, s>>
    OBVIOUS
<1>6. Exists(t) /\ BurnEffect(t, id) /\ Handled
    BY <1>1 DEF Burns, BurnNft
<1>7. from \in Addr
    BY <1>2, <1>6, OwnerType DEF IInv
<1>8. Stored(id, tx, list)
    <2>1. Store(tx, list)
        BY <1>1, <1>2, <1>3, <1>4, <1>5 DEF Burns, StoreBurn
    <2>2. tx \in TxType /\ tx.token = id /\ tx.tx_id = TxCnt /\ tx.height = block.height
        BY <1>3, <1>4, <1>7 DEF Tx, TxType, OtherThan, IInv, TypeOK, BlockInfo
    <2>3. Distinct(list) /\ \A a \in Addr : Lists(list, a) <=> a \in {from, s}
        BY <1>5, <1>7, ShortLists
    <2>4. \A a \in Addr : TookPart(a, tx) <=> a \in {from, s}
        BY <1>3, <1>4, SnipAssumption DEF TookPart, Tx, OtherThan
    <2> QED
        BY <2>1, <2>2, <2>3, <2>4 DEF Stored
<1>9. Tells(id, tx)
    <2>1. idxOf'[id] = None /\ block' = block
          /\ \A other \in Ids : other # id => idxOf'[other] = idxOf[other]
        BY <1>6 DEF BurnEffect, BurnedIds, Handled, IInv, TypeOK
    <2>2. \A u \in Idx : u # t => token'[u] = token[u]
        BY <1>6, BurnTokens
    <2>3. OwnerOf(id) = from /\ OwnerOf(id)' = None
        BY <1>1, <1>2, <1>6, <2>1, SnipAssumption DEF OwnerOf, Exists
    <2>4. ASSUME NEW other \in Ids, other # id PROVE OwnerOf(other)' = OwnerOf(other)
        <3>1. idxOf[other] # t
            BY <1>1, <1>6, <2>4, IdsApart
        <3> QED
            BY <2>1, <2>2, <2>4, <3>1 DEF OwnerOf, Exists, Owner
    <2> QED
        BY <2>1, <2>3, <2>4, <1>4, <1>7, SnipAssumption DEF Tells, Tx
<1> QED
    BY <1>8, <1>9

\* Every handler stores what it does; what stores nothing leaves the tokens alone.
LEMMA StepStores ==
    ASSUME IInv, TxCnt \in Nat, Handle
    PROVE  \/ \E id \in Ids : \E tx, list : Stored(id, tx, list) /\ Tells(id, tx)
           \/ /\ UNCHANGED txVars
              /\ \A id \in Ids : OwnerOf(id)' = OwnerOf(id)
              /\ block'.height >= block.height
<1>1. ASSUME UNCHANGED <<idxOf, token>> PROVE \A id \in Ids : OwnerOf(id)' = OwnerOf(id)
    BY <1>1 DEF OwnerOf, Exists, Owner
<1>2. CASE ApprovalNext /\ UNCHANGED txVars
    BY <1>1, <1>2, ApprovalFrame DEF ledgerVars, Handled, IInv, TypeOK, BlockInfo
<1>3. CASE NewBlock /\ UNCHANGED txVars
    BY <1>1, <1>3 DEF NewBlock, ledgerVars, IInv, TypeOK, BlockInfo
<1> QED
    BY <1>2, <1>3, MintStored, TransferStored, BurnStored DEF Handle

-----------------------------------------------------------------------------
(* The list of an address: what it took part in, each once, oldest first.   *)

Typed ==
    /\ txs \in Seq(TxType)
    /\ txIds \in [Addr -> Seq(Nat)]

Numbered == \A i \in DOMAIN txs : txs[i].tx_id = i - 1

\* the list of a points to transactions a took part in, in order
PointsTo(a) ==
    /\ \A i \in DOMAIN txIds[a] : txIds[a][i] + 1 \in DOMAIN txs /\ TookPart(a, txs[txIds[a][i] + 1])
    /\ \A i, j \in DOMAIN txIds[a] : i < j => txIds[a][i] < txIds[a][j]

\* and to all of them
HasAll(a) ==
    \A k \in DOMAIN txs :
        TookPart(a, txs[k]) => \E i \in DOMAIN txIds[a] : txIds[a][i] = k - 1

ListInv ==
    /\ IInv
    /\ Typed
    /\ Numbered
    /\ \A a \in Addr : PointsTo(a) /\ HasAll(a)

\* Storing appends one transaction.
LEMMA TxsGrow ==
    ASSUME Typed, NEW id, NEW tx, NEW list, Stored(id, tx, list)
    PROVE  /\ txs' \in Seq(TxType)
           /\ Len(txs) \in Nat /\ Len(txs') = Len(txs) + 1
           /\ DOMAIN txs = 1 .. Len(txs) /\ DOMAIN txs' = 1 .. Len(txs) + 1
           /\ \A i \in 1 .. Len(txs) : txs'[i] = txs[i]
           /\ txs'[Len(txs) + 1] = tx
<1>1. txs \in Seq(TxType) /\ tx \in TxType /\ txs' = Append(txs, tx)
    <2>1. Store(tx, list) /\ tx \in TxType
        BY DEF Stored
    <2>2. txs \in Seq(TxType)
        BY DEF Typed
    <2>3. txs' = Append(txs, tx)
        BY <2>1, Zenon DEF Store
    <2> QED
        BY <2>1, <2>2, <2>3
<1> QED
    BY <1>1, LenProperties, AppendProperties

\* Storing appends the number of the transaction to the lists of those who took part.
LEMMA IdsGrow ==
    ASSUME Typed, NEW id, NEW tx, NEW list, Stored(id, tx, list), NEW a \in Addr
    PROVE  /\ txIds' \in [Addr -> Seq(Nat)]
           /\ Len(txIds[a]) \in Nat /\ DOMAIN txIds[a] = 1 .. Len(txIds[a])
           /\ DOMAIN txIds'[a] = 1 .. Len(txIds'[a])
           /\ \A i \in 1 .. Len(txIds[a]) : txIds'[a][i] = txIds[a][i]
           /\ TookPart(a, tx) => /\ Len(txIds'[a]) = Len(txIds[a]) + 1
                                 /\ txIds'[a][Len(txIds[a]) + 1] = Len(txs)
           /\ ~TookPart(a, tx) => Len(txIds'[a]) = Len(txIds[a])
<1> DEFINE Times(b) == Cardinality({j \in DOMAIN list : list[j] = b})
           More(b) == [i \in 1 .. Times(b) |-> TxCnt]
<1>1. txIds' = [b \in Addr |-> txIds[b] \o More(b)]
    BY DEF Stored, Store, AppendFor
<1>2. TxCnt = Len(txs) /\ TxCnt \in Nat
    BY LenProperties DEF TxCnt, Typed
<1>3. ASSUME NEW b \in Addr
      PROVE  Times(b) = IF TookPart(b, tx) THEN 1 ELSE 0
    <2> DEFINE where == {j \in DOMAIN list : list[j] = b}
    <2>1. CASE TookPart(b, tx)
        <3>1. PICK j \in DOMAIN list : list[j] = b
            BY <2>1 DEF Stored, Lists
        <3>2. where = {j}
            BY <3>1 DEF Stored, Distinct
        <3> QED
            BY <2>1, <3>2, FS_Singleton
    <2>2. CASE ~TookPart(b, tx)
        <3>1. where = {}
            BY <2>2 DEF Stored, Lists
        <3> QED
            BY <2>2, <3>1, FS_EmptySet
    <2> QED
        BY <2>1, <2>2
<1>4. ASSUME NEW b \in Addr
      PROVE  /\ More(b) \in Seq(Nat) /\ Len(More(b)) = Times(b)
             /\ Times(b) = 1 => More(b)[1] = TxCnt
    <2>1. Times(b) \in Nat
        BY <1>3
    <2> QED
        BY <2>1, <1>2
<1>5. ASSUME NEW b \in Addr
      PROVE  /\ txIds[b] \in Seq(Nat) /\ txIds'[b] \in Seq(Nat)
             /\ Len(txIds'[b]) = Len(txIds[b]) + Times(b)
             /\ \A i \in 1 .. Len(txIds[b]) + Times(b) : txIds'[b][i] =
                    IF i <= Len(txIds[b]) THEN txIds[b][i] ELSE More(b)[i - Len(txIds[b])]
    <2>1. PICK e \in Seq(Nat) : e = More(b) /\ Len(e) = Times(b)
        BY <1>4
    <2>2. txIds[b] \in Seq(Nat) /\ txIds'[b] = txIds[b] \o e
        BY <1>1, <2>1 DEF Typed
    <2> HIDE DEF More, Times
    <2>3. /\ txIds[b] \o e \in Seq(Nat)
          /\ Len(txIds[b] \o e) = Len(txIds[b]) + Len(e)
          /\ \A i \in 1 .. Len(txIds[b]) + Len(e) : (txIds[b] \o e)[i] =
                 IF i <= Len(txIds[b]) THEN txIds[b][i] ELSE e[i - Len(txIds[b])]
        BY <2>2, ConcatProperties
    <2> QED
        BY <2>1, <2>2, <2>3
<1>6. txIds' \in [Addr -> Seq(Nat)]
    BY <1>1, <1>5
<1>7. /\ Len(txIds[a]) \in Nat /\ DOMAIN txIds[a] = 1 .. Len(txIds[a])
      /\ DOMAIN txIds'[a] = 1 .. Len(txIds'[a])
    BY <1>5, LenProperties
<1>8. Times(a) = IF TookPart(a, tx) THEN 1 ELSE 0
    BY <1>3
<1> HIDE DEF More, Times
<1>9. \A i \in 1 .. Len(txIds[a]) : txIds'[a][i] = txIds[a][i]
    BY <1>5, <1>7, <1>8
<1>10. ASSUME TookPart(a, tx)
       PROVE  /\ Len(txIds'[a]) = Len(txIds[a]) + 1
              /\ txIds'[a][Len(txIds[a]) + 1] = Len(txs)
    <2>1. Times(a) = 1 /\ More(a)[1] = Len(txs)
        BY <1>2, <1>4, <1>8, <1>10
    <2>2. PICK k : k = Len(txIds[a]) + 1
        OBVIOUS
    <2>3. /\ k \in 1 .. Len(txIds[a]) + Times(a)
          /\ ~(k <= Len(txIds[a])) /\ k - Len(txIds[a]) = 1
        BY <2>1, <2>2, <1>7
    <2>4. txIds'[a][k] = More(a)[1]
        BY <2>3, <1>5
    <2> QED
        BY <2>1, <2>2, <2>4, <1>5
<1>11. ~TookPart(a, tx) => Len(txIds'[a]) = Len(txIds[a])
    BY <1>5, <1>7, <1>8
<1> QED
    BY <1>6, <1>7, <1>9, <1>10, <1>11

\* Storing keeps an address's list exact.
LEMMA ListStep ==
    ASSUME ListInv, NEW id, NEW tx, NEW list, Stored(id, tx, list), NEW a \in Addr
    PROVE  PointsTo(a)' /\ HasAll(a)'
<1>1. /\ Len(txs) \in Nat
      /\ DOMAIN txs = 1 .. Len(txs) /\ DOMAIN txs' = 1 .. Len(txs) + 1
      /\ \A i \in 1 .. Len(txs) : txs'[i] = txs[i]
      /\ txs'[Len(txs) + 1] = tx
    BY TxsGrow DEF ListInv
<1>2. PICK old : old = txIds[a]
    OBVIOUS
<1>3. PICK new : new = txIds'[a]
    OBVIOUS
<1>4. PICK n \in Nat, m \in Nat :
          /\ DOMAIN old = 1 .. n /\ DOMAIN new = 1 .. m
          /\ m = IF TookPart(a, tx) THEN n + 1 ELSE n
          /\ \A i \in 1 .. n : new[i] = old[i] /\ old[i] \in Nat
          /\ TookPart(a, tx) => new[n + 1] = Len(txs)
    <2>1. Typed
        BY DEF ListInv
    <2>2. \A i \in 1 .. Len(old) : old[i] \in Nat
        BY <2>1, <1>2, ElementOfSeq DEF Typed
    <2>3. PICK n \in Nat : n = Len(old)
        BY <2>1, <1>2, IdsGrow
    <2>4. PICK m \in Nat : m = Len(new) /\ m = IF TookPart(a, tx) THEN n + 1 ELSE n
        BY <2>1, <2>3, <1>2, <1>3, IdsGrow
    <2> QED
        BY <2>1, <2>2, <2>3, <2>4, <1>2, <1>3, IdsGrow
<1>5. ASSUME NEW i \in 1 .. n
      PROVE  /\ old[i] + 1 \in 1 .. Len(txs) /\ TookPart(a, txs[old[i] + 1])
             /\ old[i] \in Nat /\ old[i] < Len(txs)
             /\ i \in DOMAIN new /\ new[i] = old[i]
    <2>1. i \in DOMAIN new /\ new[i] = old[i] /\ old[i] \in Nat
        BY <1>4
    <2>2. old[i] + 1 \in 1 .. Len(txs) /\ TookPart(a, txs[old[i] + 1])
        BY <1>1, <1>2, <1>4 DEF ListInv, PointsTo
    <2> QED
        BY <2>1, <2>2, <1>1
<1>6. ASSUME NEW i \in DOMAIN new
      PROVE  /\ i \in Nat /\ i <= n + 1
             /\ i \in 1 .. n \/ (TookPart(a, tx) /\ i = n + 1 /\ new[i] = Len(txs))
    <2>0. i \in 1 .. m
        BY <1>4
    <2>1. m = n \/ (m = n + 1 /\ TookPart(a, tx))
        BY <1>4
    <2>2. i \in Nat /\ i <= n + 1 /\ (i \in 1 .. n \/ i = n + 1)
        BY <2>0, <2>1
    <2>3. i = n + 1 => TookPart(a, tx)
        BY <2>0, <2>1
    <2>4. i = n + 1 => new[i] = Len(txs)
        BY <2>3, <1>4
    <2> QED
        BY <2>2, <2>3, <2>4
<1>7. ASSUME NEW i \in DOMAIN new
      PROVE  new[i] + 1 \in DOMAIN txs' /\ TookPart(a, txs'[new[i] + 1])
    <2>1. CASE i \in 1 .. n
        <3>1. new[i] + 1 \in 1 .. Len(txs) /\ TookPart(a, txs[new[i] + 1])
            BY <2>1, <1>5
        <3> QED
            BY <3>1, <1>1
    <2>2. CASE TookPart(a, tx) /\ i = n + 1 /\ new[i] = Len(txs)
        BY <2>2, <1>1
    <2> QED
        BY <2>1, <2>2, <1>6
<1>8. ASSUME NEW i \in DOMAIN new, NEW j \in DOMAIN new, i < j
      PROVE  new[i] < new[j]
    <2>1. i \in 1 .. n
        BY <1>6, <1>8
    <2>2. CASE j \in 1 .. n
        <3>1. old[i] < old[j]
            BY <2>1, <2>2, <1>2, <1>4, <1>8 DEF ListInv, PointsTo
        <3> QED
            BY <3>1, <2>1, <2>2, <1>5
    <2>3. CASE new[j] = Len(txs)
        BY <2>1, <2>3, <1>5
    <2> QED
        BY <2>2, <2>3, <1>6
<1>9. ASSUME NEW k \in DOMAIN txs', TookPart(a, txs'[k])
      PROVE  \E i \in DOMAIN new : new[i] = k - 1
    <2>1. CASE k \in 1 .. Len(txs)
        <3>1. PICK i \in DOMAIN old : old[i] = k - 1
            BY <2>1, <1>1, <1>2, <1>9 DEF ListInv, HasAll
        <3> QED
            BY <3>1, <1>4, <1>5
    <2>2. CASE k = Len(txs) + 1
        <3>1. TookPart(a, tx) /\ k - 1 = Len(txs)
            BY <2>2, <1>1, <1>9
        <3> QED
            BY <3>1, <1>4
    <2> QED
        BY <2>1, <2>2, <1>1
<1> QED
    BY <1>3, <1>7, <1>8, <1>9 DEF PointsTo, HasAll, TookPart

\* What stores nothing keeps the lists.
LEMMA ListQuiet ==
    ASSUME ListInv, IInv', UNCHANGED txVars
    PROVE  ListInv'
BY DEF ListInv, Typed, Numbered, PointsTo, HasAll, TookPart, txVars

\* A step of the history is one of the ledger.
LEMMA HistorySnipStep == [HistoryNext]_vars => [SnipNext]_snipVars
BY DEF HistoryNext, ReadPage, Handle, Mints, Transfers, Burns, SnipNext, LedgerNext,
       vars, snipVars

\* Every step keeps the lists exact.
LEMMA ListNextInv == ListInv /\ [HistoryNext]_vars => ListInv'
<1> SUFFICES ASSUME ListInv, [HistoryNext]_vars PROVE ListInv'
    OBVIOUS
<1>1. IInv'
    BY HistorySnipStep, NextInv DEF ListInv
<1>2. TxCnt \in Nat
    BY LenProperties DEF TxCnt, ListInv, Typed
<1>3. ASSUME NEW id \in Ids, NEW tx, NEW list, Stored(id, tx, list) PROVE ListInv'
    <2>1. Typed'
        <3>1. Addr # {} => txIds' \in [Addr -> Seq(Nat)]
            BY <1>3, IdsGrow DEF ListInv
        <3>2. txIds' \in [Addr -> Seq(Nat)]
            BY <1>3, <3>1 DEF Stored, Store, AppendFor
        <3> QED
            BY <1>3, <3>2, TxsGrow DEF ListInv, Typed
    <2>2. Numbered'
        <3>1. tx.tx_id = Len(txs)
            BY <1>3 DEF Stored, TxCnt
        <3>2. \A i \in 1 .. Len(txs) + 1 : i \in 1 .. Len(txs) \/ i = Len(txs) + 1
            BY <1>2 DEF TxCnt
        <3> QED
            BY <1>2, <1>3, <3>1, <3>2, TxsGrow DEF ListInv, Numbered, TxCnt
    <2> QED
        BY <1>1, <1>3, <2>1, <2>2, ListStep DEF ListInv
<1> QED
    BY <1>1, <1>2, <1>3, ListQuiet, StepStores
    DEF HistoryNext, ReadPage, vars, ListInv

\* At first there are no transactions.
LEMMA ListInvInit == HistoryInit => ListInv
<1> SUFFICES ASSUME HistoryInit PROVE ListInv
    OBVIOUS
<1>1. IInv
    BY InitInv DEF HistoryInit
<1>2. txs = <<>> /\ txIds = [a \in Addr |-> <<>>]
    BY DEF HistoryInit
<1>3. txs \in Seq(TxType) /\ \A a \in Addr : txIds[a] \in Seq(Nat) /\ DOMAIN txIds[a] = {}
    BY <1>2
<1>4. Typed /\ Numbered
    BY <1>2, <1>3 DEF Typed, Numbered
<1>5. \A a \in Addr : PointsTo(a) /\ HasAll(a)
    BY <1>2, <1>3 DEF PointsTo, HasAll
<1> QED
    BY <1>1, <1>4, <1>5 DEF ListInv

\* The invariant holds throughout.
LEMMA ListInvCorrect == HistorySpec => []ListInv
BY ListInvInit, ListNextInv, PTL DEF HistorySpec

(***************************************************************************)
(* The history of an address: whatever parts it played, its list holds the *)
(* transactions it took part in, each once and oldest first.               *)
(***************************************************************************)
THEOREM ListsCorrect == HistorySpec => []ListsExact
<1>1. ASSUME ListInv, NEW a \in Addr
      PROVE  /\ AllOf(a) = {txs[i].tx_id : i \in {j \in DOMAIN txs : TookPart(a, txs[j])}}
             /\ \A i \in 1 .. Len(txIds[a]) - 1 : txIds[a][i] < txIds[a][i + 1]
    <2>1. DOMAIN txIds[a] = 1 .. Len(txIds[a]) /\ Len(txIds[a]) \in Nat
          /\ \A i \in DOMAIN txIds[a] : txIds[a][i] \in Nat
        BY <1>1, LenProperties DEF ListInv, Typed
    <2>2. ASSUME NEW i \in DOMAIN txIds[a]
          PROVE  \E k \in DOMAIN txs : TookPart(a, txs[k]) /\ txs[k].tx_id = txIds[a][i]
        <3>1. PICK k \in DOMAIN txs : k = txIds[a][i] + 1 /\ TookPart(a, txs[k])
            BY <1>1 DEF ListInv, PointsTo
        <3>2. txs[k].tx_id = txIds[a][i]
            BY <1>1, <2>1, <3>1 DEF ListInv, Numbered
        <3> QED
            BY <3>1, <3>2
    <2>3. ASSUME NEW k \in DOMAIN txs, TookPart(a, txs[k])
          PROVE  \E i \in DOMAIN txIds[a] : txIds[a][i] = txs[k].tx_id
        <3>1. PICK i \in DOMAIN txIds[a] : txIds[a][i] = k - 1
            BY <1>1, <2>3 DEF ListInv, HasAll
        <3> QED
            BY <3>1, <1>1 DEF ListInv, Numbered
    <2>4. \A i \in 1 .. Len(txIds[a]) - 1 : txIds[a][i] < txIds[a][i + 1]
        BY <1>1, <2>1 DEF ListInv, PointsTo
    <2> QED
        BY <2>2, <2>3, <2>4 DEF AllOf
<1>2. ListInv => ListsExact
    BY <1>1 DEF ListsExact, ListInv, Numbered
<1> QED
    BY <1>2, ListInvCorrect, PTL

-----------------------------------------------------------------------------
(* The chain of custody of a token id.                                      *)

\* i is the number of the last of the first n transactions about id, or 0
IsLastTx(id, n, i) ==
    /\ i # 0 => i \in 1 .. n /\ txs[i].token = id
    /\ \A j \in 1 .. n : txs[j].token = id => i # 0 /\ j <= i

\* the i-th transaction takes the token from where the k-th left it
Follows(i, k) ==
    IF k = 0 THEN txs[i].kind = "Mint"
    ELSE /\ txs[i].kind = "Mint" <=> txs[k].to = None
         /\ txs[i].kind # "Mint" => txs[i].from = txs[k].to
         /\ txs[i].height >= txs[k].height

\* Inductive: the last transaction about an id names whom the id stands for.
CustodyInv ==
    /\ ListInv
    /\ \A i \in DOMAIN txs :
          /\ txs[i].height <= block.height
          /\ txs[i].kind = "Burn" <=> txs[i].to = None
    /\ \A id \in Ids : \E i \in 0 .. Len(txs) :
          /\ IsLastTx(id, Len(txs), i)
          /\ OwnerOf(id) = IF i = 0 THEN None ELSE txs[i].to
    /\ \A i \in DOMAIN txs : \E k \in 0 .. i - 1 :
          IsLastTx(txs[i].token, i - 1, k) /\ Follows(i, k)

\* LastTx finds the last transaction.
LEMMA LastTxIs ==
    ASSUME NEW id, NEW n \in Nat, NEW i \in Nat, IsLastTx(id, n, i)
    PROVE  LastTx(id, n) = i
<1> DEFINE custody == {j \in 1 .. n : txs[j].token = id}
<1>1. CASE i = 0
    <2>1. custody = {}
        BY <1>1 DEF IsLastTx
    <2> QED
        BY <1>1, <2>1 DEF LastTx
<1>2. CASE i # 0
    <2>1. i \in custody /\ \A j \in custody : j <= i /\ j \in Nat
        BY <1>2 DEF IsLastTx
    <2>2. LastTx(id, n) = CHOOSE k \in custody : \A j \in custody : j <= k
        BY <2>1 DEF LastTx
    <2> HIDE DEF custody
    <2>3. \A k \in custody : (\A j \in custody : j <= k) => k = i
        BY <2>1
    <2> QED
        BY <2>1, <2>2, <2>3
<1> QED
    BY <1>1, <1>2

\* A stored transaction becomes the last one about its token and about no other.
LEMMA LastStored ==
    ASSUME CustodyInv, NEW id \in Ids, NEW tx, NEW list, Stored(id, tx, list), Tells(id, tx),
           NEW other \in Ids, NEW n, n = Len(txs) + 1
    PROVE  \E i \in 0 .. n :
               /\ IsLastTx(other, n, i)'
               /\ OwnerOf(other)' = IF i = 0 THEN None ELSE txs'[i].to
<1>1. /\ Len(txs) \in Nat
      /\ \A i \in 1 .. Len(txs) : txs'[i] = txs[i]
      /\ txs'[n] = tx /\ tx.token = id
    BY TxsGrow DEF CustodyInv, ListInv, Stored
<1>2. \A j \in 1 .. n : j \in 1 .. Len(txs) \/ j = n
    BY <1>1
<1>3. CASE other = id
    <2>1. IsLastTx(other, n, n)'
        BY <1>1, <1>2, <1>3 DEF IsLastTx
    <2>2. OwnerOf(other)' = tx.to
        BY <1>3 DEF Tells
    <2> QED
        BY <2>1, <2>2, <1>1
<1>4. CASE other # id
    <2>1. PICK i \in 0 .. Len(txs) :
              /\ IsLastTx(other, Len(txs), i)
              /\ OwnerOf(other) = IF i = 0 THEN None ELSE txs[i].to
        BY DEF CustodyInv
    <2>2. OwnerOf(other)' = OwnerOf(other)
        BY <1>4 DEF Tells
    <2>3. i # 0 => i \in 1 .. Len(txs) /\ i \in 1 .. n
        BY <1>1
    <2>4. IsLastTx(other, n, i)'
        BY <1>1, <1>2, <1>4, <2>1, <2>3 DEF IsLastTx
    <2>5. i \in 0 .. n
        BY <1>1
    <2> QED
        BY <1>1, <2>1, <2>2, <2>3, <2>4, <2>5
<1> QED
    BY <1>3, <1>4

\* Storing what a handler did continues the chain.
LEMMA CustodyStored ==
    ASSUME CustodyInv, ListInv', NEW id \in Ids, NEW tx, NEW list,
           Stored(id, tx, list), Tells(id, tx)
    PROVE  CustodyInv'
<1>1. Typed /\ block.height \in Nat
    BY DEF CustodyInv, ListInv, IInv, TypeOK, BlockInfo
<1>2. /\ Len(txs) \in Nat /\ Len(txs') = Len(txs) + 1
      /\ DOMAIN txs = 1 .. Len(txs) /\ DOMAIN txs' = 1 .. Len(txs) + 1
      /\ \A i \in 1 .. Len(txs) : txs'[i] = txs[i]
      /\ txs'[Len(txs) + 1] = tx
    BY <1>1, TxsGrow
<1>3. PICK n \in Nat : n = Len(txs) + 1
    BY <1>2
<1>4. \A i \in DOMAIN txs' : i \in 1 .. Len(txs) \/ i = n
    BY <1>2, <1>3
<1>5. /\ block' = block /\ tx.height = block.height /\ tx.token = id
      /\ tx.kind = "Burn" <=> tx.to = None
    BY DEF Stored, Tells
<1>6. ASSUME NEW i \in DOMAIN txs'
      PROVE  txs'[i].height <= block'.height /\ (txs'[i].kind = "Burn" <=> txs'[i].to = None)
    <2>1. CASE i \in 1 .. Len(txs)
        BY <2>1, <1>2, <1>5 DEF CustodyInv
    <2>2. CASE i = n
        BY <2>2, <1>1, <1>2, <1>3, <1>5
    <2> QED
        BY <2>1, <2>2, <1>4
<1>7. ASSUME NEW other \in Ids
      PROVE  \E i \in 0 .. Len(txs') :
                 /\ IsLastTx(other, Len(txs), i)'
                 /\ OwnerOf(other)' = IF i = 0 THEN None ELSE txs'[i].to
    <2>1. PICK i \in 0 .. n :
              /\ IsLastTx(other, n, i)'
              /\ OwnerOf(other)' = IF i = 0 THEN None ELSE txs'[i].to
        BY <1>3, LastStored
    <2> QED
        BY <2>1, <1>2, <1>3 DEF IsLastTx
<1>8. ASSUME NEW i \in DOMAIN txs'
      PROVE  \E k \in 0 .. i - 1 : IsLastTx(txs[i].token, i - 1, k)' /\ Follows(i, k)'
    <2>1. CASE i \in 1 .. Len(txs)
        <3>1. PICK k \in 0 .. i - 1 : IsLastTx(txs[i].token, i - 1, k) /\ Follows(i, k)
            BY <2>1, <1>2 DEF CustodyInv
        <3>2. \A j \in 1 .. i - 1 : txs'[j] = txs[j]
            BY <2>1, <1>2
        <3>3. txs'[i] = txs[i] /\ (k # 0 => k \in 1 .. i - 1)
            BY <2>1, <1>2
        <3>4. IsLastTx(txs[i].token, i - 1, k)'
            BY <3>1, <3>2, <3>3 DEF IsLastTx
        <3>5. Follows(i, k)'
            BY <3>1, <3>2, <3>3 DEF Follows
        <3> QED
            BY <3>4, <3>5
    <2>2. CASE i = n
        <3>1. PICK k \in 0 .. Len(txs) :
                  /\ IsLastTx(id, Len(txs), k)
                  /\ OwnerOf(id) = IF k = 0 THEN None ELSE txs[k].to
            BY DEF CustodyInv
        <3>2. i - 1 = Len(txs) /\ txs'[i] = tx
            BY <2>2, <1>2, <1>3
        <3>3. k # 0 => k \in 1 .. Len(txs) /\ txs'[k] = txs[k] /\ txs[k].height <= block.height
            BY <1>2 DEF CustodyInv
        <3>4. IsLastTx(txs[i].token, i - 1, k)'
            BY <3>1, <3>2, <3>3, <1>2, <1>5 DEF IsLastTx
        <3>5. /\ tx.kind = "Mint" <=> OwnerOf(id) = None
              /\ tx.kind # "Mint" => tx.from = OwnerOf(id)
            BY DEF Tells
        <3>6. Follows(i, k)'
            <4>1. CASE k = 0
                BY <4>1, <3>1, <3>2, <3>5 DEF Follows
            <4>2. CASE k # 0
                BY <4>2, <3>1, <3>2, <3>3, <3>5, <1>5 DEF Follows
            <4> QED
                BY <4>1, <4>2
        <3> QED
            BY <3>2, <3>4, <3>6
    <2> QED
        BY <2>1, <2>2, <1>4
<1> QED
    BY <1>6, <1>7, <1>8 DEF CustodyInv

\* The chain stays as it is when nothing is stored.
LEMMA CustodyQuiet ==
    ASSUME CustodyInv, ListInv', UNCHANGED txVars,
           \A id \in Ids : OwnerOf(id)' = OwnerOf(id), block'.height >= block.height
    PROVE  CustodyInv'
<1>1. txs' = txs
    BY DEF txVars
<1>2. /\ block.height \in Nat /\ block'.height \in Nat
      /\ \A i \in DOMAIN txs : txs[i].height \in Nat
    <2>1. txs \in Seq(TxType)
        BY DEF CustodyInv, ListInv, Typed
    <2>2. \A i \in DOMAIN txs : txs[i] \in TxType
        BY <2>1, LenProperties
    <2>3. block \in BlockInfo /\ block' \in BlockInfo
        BY DEF CustodyInv, ListInv, IInv, TypeOK
    <2> QED
        BY <2>2, <2>3 DEF TxType, BlockInfo
<1>3. \A i \in DOMAIN txs' : /\ txs'[i].height <= block'.height
                             /\ txs'[i].kind = "Burn" <=> txs'[i].to = None
    BY <1>1, <1>2 DEF CustodyInv
<1>4. \A id \in Ids : \E i \in 0 .. Len(txs') :
          /\ IsLastTx(id, Len(txs), i)'
          /\ OwnerOf(id)' = IF i = 0 THEN None ELSE txs'[i].to
    BY <1>1 DEF CustodyInv, IsLastTx
<1>5. \A i \in DOMAIN txs' : \E k \in 0 .. i - 1 :
          IsLastTx(txs[i].token, i - 1, k)' /\ Follows(i, k)'
    BY <1>1 DEF CustodyInv, IsLastTx, Follows
<1> QED
    BY <1>3, <1>4, <1>5 DEF CustodyInv

\* The invariant holds throughout.
LEMMA CustodyInvCorrect == HistorySpec => []CustodyInv
<1>1. HistoryInit => CustodyInv
    <2> SUFFICES ASSUME HistoryInit, ListInv PROVE CustodyInv
        BY ListInvInit
    <2>1. txs = <<>> /\ DOMAIN txs = {} /\ Len(txs) = 0
        BY DEF HistoryInit
    <2>2. \A id \in Ids : IsLastTx(id, Len(txs), 0) /\ OwnerOf(id) = None
        BY <2>1, SnipAssumption DEF IsLastTx, OwnerOf, HistoryInit, SnipInit, Exists
    <2> QED
        BY <2>1, <2>2 DEF CustodyInv
<1>2. CustodyInv /\ [HistoryNext]_vars => CustodyInv'
    <2> SUFFICES ASSUME CustodyInv, [HistoryNext]_vars PROVE CustodyInv'
        OBVIOUS
    <2>1. ListInv'
        BY ListNextInv DEF CustodyInv
    <2>2. TxCnt \in Nat /\ IInv
        BY LenProperties DEF TxCnt, CustodyInv, ListInv, Typed
    <2>3. CASE Handle
        BY <2>1, <2>2, <2>3, StepStores, CustodyStored, CustodyQuiet
    <2>4. CASE ReadPage \/ UNCHANGED vars
        <3>1. UNCHANGED <<snipVars, txVars>>
            BY <2>4 DEF ReadPage, vars
        <3>2. /\ \A id \in Ids : OwnerOf(id)' = OwnerOf(id)
              /\ block'.height >= block.height
            BY <3>1, <2>2
            DEF snipVars, ledgerVars, OwnerOf, Exists, Owner, IInv, TypeOK, BlockInfo
        <3> QED
            BY <2>1, <3>1, <3>2, CustodyQuiet
    <2> QED
        BY <2>3, <2>4 DEF HistoryNext
<1> QED
    BY <1>1, <1>2, PTL DEF HistorySpec

(***************************************************************************)
(* The chain of custody: through any mints, transfers, burns and re-mints  *)
(* the transactions of an id hand the token on from each to the next, and  *)
(* the last one names the owner that the ledger has.                       *)
(***************************************************************************)
THEOREM CustodyCorrect == HistorySpec => []CustodyChain
<1>1. ASSUME CustodyInv PROVE CustodyChain
    <2>1. /\ Len(txs) \in Nat /\ DOMAIN txs = 1 .. Len(txs) /\ TypeOK
        BY <1>1, LenProperties DEF CustodyInv, ListInv, Typed, IInv
    <2>2. ASSUME NEW id \in Ids
          PROVE  IF Exists(idxOf[id])
                 THEN LastTx(id, Len(txs)) # 0 /\ txs[LastTx(id, Len(txs))].to = Owner(idxOf[id])
                 ELSE LastTx(id, Len(txs)) # 0 => txs[LastTx(id, Len(txs))].kind = "Burn"
        <3>1. PICK i \in 0 .. Len(txs) :
                  /\ IsLastTx(id, Len(txs), i)
                  /\ OwnerOf(id) = IF i = 0 THEN None ELSE txs[i].to
            BY <1>1 DEF CustodyInv
        <3>2. LastTx(id, Len(txs)) = i
            BY <2>1, <3>1, LastTxIs
        <3>3. i # 0 => i \in DOMAIN txs /\ (txs[i].kind = "Burn" <=> txs[i].to = None)
            BY <1>1, <2>1 DEF CustodyInv
        <3>4. Exists(idxOf[id]) => Owner(idxOf[id]) # None
            BY <2>1, OwnerType, SnipAssumption
        <3> QED
            BY <3>1, <3>2, <3>3, <3>4 DEF OwnerOf
    <2>3. ASSUME NEW id \in Ids, NEW i \in {j \in DOMAIN txs : txs[j].token = id}
          PROVE  Follows(i, LastTx(id, i - 1))
        <3>1. PICK k \in 0 .. i - 1 : IsLastTx(id, i - 1, k) /\ Follows(i, k)
            BY <1>1 DEF CustodyInv
        <3>2. i - 1 \in Nat /\ k \in Nat
            BY <2>1
        <3> QED
            BY <3>1, <3>2, LastTxIs
    <2> QED
        BY <2>2, <2>3 DEF CustodyChain, Follows
<1> QED
    BY <1>1, CustodyInvCorrect, PTL

-----------------------------------------------------------------------------
(* Reading page by page while transactions come in.                         *)

Mine == txIds[reader]

(***************************************************************************)
(* Inductive: when the client began its list had w entries, when it read   *)
(* last it had m; of the first w it has seen all but those that the next   *)
(* pages, counted from the m-th entry, would begin with.                   *)
(***************************************************************************)
ReadInv ==
    /\ ListInv
    /\ reader \in Addr /\ page \in Nat
    /\ \E w, m \in 0 .. Len(Mine) :
          /\ w <= m
          /\ wanted = {Mine[i] : i \in 1 .. w}
          /\ \A i \in 1 .. w : i > m - page * PageSize => Mine[i] \in seen
    /\ done => wanted \subseteq seen

\* The client's list is a list of different numbers.
LEMMA MineOrdered ==
    ASSUME ListInv, reader \in Addr
    PROVE  /\ Len(Mine) \in Nat /\ DOMAIN Mine = 1 .. Len(Mine)
           /\ \A i \in 1 .. Len(Mine) : Mine[i] \in Nat
           /\ \A i, j \in 1 .. Len(Mine) : i # j => Mine[i] # Mine[j]
<1>1. Mine \in Seq(Nat)
    BY DEF Mine, ListInv, Typed
<1>2. /\ Len(Mine) \in Nat /\ DOMAIN Mine = 1 .. Len(Mine)
      /\ \A i \in 1 .. Len(Mine) : Mine[i] \in Nat
    BY <1>1, LenProperties, ElementOfSeq
<1>3. ASSUME NEW i \in 1 .. Len(Mine), NEW j \in 1 .. Len(Mine), i # j
      PROVE  Mine[i] # Mine[j]
    <2>1. i < j \/ j < i
        BY <1>2, <1>3
    <2>2. \A k, l \in 1 .. Len(Mine) : k < l => Mine[k] < Mine[l]
        BY <1>2 DEF ListInv, PointsTo, Mine
    <2> QED
        BY <1>2, <2>1, <2>2
<1> QED
    BY <1>2, <1>3

\* A page that does not reach the beginning of the list is full.
LEMMA FullPage ==
    ASSUME ListInv, reader \in Addr, NEW last \in Int,
           last = Len(Mine) - Skipped(page, PageSize), page \in Nat, last >= PageSize
    PROVE  Cardinality(GetTxs(reader, page, PageSize)) = PageSize
<1>1. PageSize \in Nat \ {0}
    BY HistoryAssumption
<1>2. Skipped(page, PageSize) \in Nat
    BY <1>1 DEF Skipped
<1> DEFINE window == last - PageSize + 1 .. last
           shown == GetTxs(reader, page, PageSize)
           f == [i \in window |-> Mine[i]]
<1>3. window \subseteq 1 .. Len(Mine)
    BY <1>1, <1>2, MineOrdered
<1>4. \A i \in DOMAIN Mine : i <= last /\ i > last - PageSize <=> i \in window
    BY <1>1, MineOrdered
<1>5. shown = {Mine[i] : i \in window}
    <2>1. shown = {Mine[i] : i \in {j \in DOMAIN Mine : j <= last /\ j > last - PageSize}}
        BY DEF GetTxs, Mine
    <2>2. {j \in DOMAIN Mine : j <= last /\ j > last - PageSize} = window
        BY <1>3, <1>4, MineOrdered
    <2> HIDE DEF window, shown
    <2> QED
        BY <2>1, <2>2
<1>6. IsFiniteSet(window) /\ Cardinality(window) = PageSize
    <2>1. PICK a \in Int : a = last - PageSize + 1
        BY <1>1
    <2>2. /\ IsFiniteSet(a .. last)
          /\ Cardinality(a .. last) = IF a > last THEN 0 ELSE last - a + 1
        BY FS_Interval
    <2> QED
        BY <1>1, <2>1, <2>2
<1>7. f \in Bijection(window, shown)
    <2> HIDE DEF window, shown
    <2>1. f \in [window -> shown] /\ \A y \in shown : \E i \in window : f[i] = y
        BY <1>5
    <2>2. \A i, j \in window : f[i] = f[j] => i = j
        BY <1>3, MineOrdered
    <2> QED
        BY <2>1, <2>2 DEF Bijection, Injection, Surjection, IsInjective
<1> HIDE DEF window, shown, f
<1>8. Cardinality(shown) = PageSize
    BY <1>6, <1>7, FS_Bijection DEF ExistsBijection
<1> QED
    BY <1>8 DEF shown

\* Reading a page keeps the invariant.
LEMMA ReadStep ==
    ASSUME ReadInv, ReadPage
    PROVE  ReadInv'
<1>1. PICK size \in Nat \ {0} : size = PageSize
    BY HistoryAssumption
<1>2. PICK len \in Nat : len = Len(Mine)
    BY MineOrdered DEF ReadInv
<1>3. PICK skip \in Nat : skip = page * size
    BY <1>1 DEF ReadInv
<1>4. PICK last \in Int : last = len - skip
    OBVIOUS
<1>5. PICK shown : shown = GetTxs(reader, page, PageSize)
    OBVIOUS
<1>6. /\ seen' = seen \cup shown /\ page' = page + 1
      /\ wanted' = IF page = 0 THEN AllOf(reader) ELSE wanted
      /\ done' = (Cardinality(shown) < PageSize)
      /\ reader' = reader /\ txIds' = txIds /\ UNCHANGED <<snipVars, txVars>>
    BY <1>5 DEF ReadPage, txVars
<1>7. DOMAIN Mine = 1 .. len /\ Mine' = Mine
    BY <1>2, <1>6, MineOrdered DEF Mine, ReadInv
<1>8. \A i \in 1 .. len : i <= last /\ i > last - size => Mine[i] \in shown
    BY <1>1, <1>2, <1>3, <1>4, <1>5, <1>7 DEF GetTxs, Skipped, Mine
<1>9. PICK w \in 0 .. len :
          /\ wanted' = {Mine[i] : i \in 1 .. w}
          /\ \A i \in 1 .. w : i > last => Mine[i] \in seen
    <2>1. CASE page = 0
        <3>1. wanted' = {Mine[i] : i \in 1 .. len}
            BY <2>1, <1>6, <1>7 DEF AllOf, Mine
        <3>2. skip = 0 /\ last = len
            BY <2>1, <1>1, <1>3, <1>4
        <3>3. \A i \in 1 .. len : ~(i > last)
            BY <3>2
        <3> QED
            BY <3>1, <3>3
    <2>2. CASE page # 0
        <3>1. PICK w \in 0 .. len, m \in 0 .. len :
                  /\ w <= m
                  /\ wanted = {Mine[i] : i \in 1 .. w}
                  /\ \A i \in 1 .. w : i > m - page * PageSize => Mine[i] \in seen
            BY <1>2 DEF ReadInv
        <3>2. \A i \in 1 .. w : i > last => i > m - skip
            BY <1>4
        <3>3. m - page * PageSize = m - skip
            BY <1>1, <1>3
        <3>4. wanted' = wanted
            BY <2>2, <1>6
        <3> QED
            BY <3>1, <3>2, <3>3, <3>4
    <2> QED
        BY <2>1, <2>2
<1>10. page' * PageSize = skip + size /\ page' \in Nat
    BY <1>1, <1>3, <1>6 DEF ReadInv
<1>11. \A i \in 1 .. w : i > len - page' * PageSize => Mine[i] \in seen'
    <2> SUFFICES ASSUME NEW i \in 1 .. w, i > len - page' * PageSize
                 PROVE  Mine[i] \in seen'
        OBVIOUS
    <2>1. i \in 1 .. len /\ i > last - size
        BY <1>4, <1>10
    <2>2. CASE i > last
        BY <2>2, <1>6, <1>9
    <2>3. CASE i <= last
        BY <2>1, <2>3, <1>6, <1>8
    <2> QED
        BY <2>1, <2>2, <2>3
<1>12. ASSUME done' PROVE wanted' \subseteq seen'
    <2>1. Cardinality(shown) < size
        BY <1>1, <1>6, <1>12
    <2>2. ~(last >= size)
        <3>1. ASSUME last >= size PROVE Cardinality(shown) = size
            BY <3>1, <1>1, <1>2, <1>3, <1>4, <1>5, FullPage DEF Skipped, ReadInv
        <3> QED
            BY <3>1, <2>1, <1>1
    <2>3. len - page' * PageSize = last - size
        BY <1>4, <1>10
    <2>4. \A i \in 1 .. w : i > last - size
        BY <2>2
    <2> QED
        BY <2>3, <2>4, <1>9, <1>11
<1>13. ListInv'
    BY <1>6, ListQuiet, NextInv DEF ReadInv, ListInv
<1>14. Len(Mine') = len /\ w \in 0 .. Len(Mine') /\ len \in 0 .. Len(Mine') /\ w <= len
    BY <1>2, <1>7
<1>15. /\ wanted' = {Mine'[i] : i \in 1 .. w}
       /\ \A i \in 1 .. w : i > len - page' * PageSize => Mine'[i] \in seen'
    BY <1>7, <1>9, <1>11
<1>16. reader' \in Addr /\ page' \in Nat
    BY <1>6, <1>10 DEF ReadInv
<1> QED
    BY <1>12, <1>13, <1>14, <1>15, <1>16 DEF ReadInv

\* More transactions push the pages back, never forward.
LEMMA ReadWhileStored ==
    ASSUME ReadInv, ListInv', UNCHANGED readVars,
           \/ \E id \in Ids : \E tx, list : Stored(id, tx, list)
           \/ UNCHANGED txVars
    PROVE  ReadInv'
<1>1. UNCHANGED <<reader, page, seen, wanted, done>>
    BY DEF readVars
<1>2. PICK len \in Nat : len = Len(Mine)
    BY MineOrdered DEF ReadInv
<1>3. PICK more \in Nat : /\ more = Len(Mine') /\ more >= len
                          /\ \A i \in 1 .. len : Mine'[i] = Mine[i]
    <2>1. CASE UNCHANGED txVars
        BY <1>1, <1>2, <2>1 DEF Mine, txVars
    <2>2. ASSUME NEW id, NEW tx, NEW list, Stored(id, tx, list)
          PROVE  /\ Len(Mine') \in Nat /\ Len(Mine') >= len
                 /\ \A i \in 1 .. len : Mine'[i] = Mine[i]
        BY <1>1, <1>2, <2>2, IdsGrow DEF Mine, ReadInv, ListInv
    <2> QED
        BY <2>1, <2>2
<1>4. PICK w \in 0 .. len, m \in 0 .. len :
          /\ w <= m
          /\ wanted = {Mine[i] : i \in 1 .. w}
          /\ \A i \in 1 .. w : i > m - page * PageSize => Mine[i] \in seen
    BY <1>2 DEF ReadInv
<1>5. w \in 0 .. more /\ m \in 0 .. more /\ \A i \in 1 .. w : Mine'[i] = Mine[i]
    BY <1>3
<1>6. wanted' = {Mine'[i] : i \in 1 .. w}
    BY <1>1, <1>4, <1>5
<1> QED
    BY <1>1, <1>3, <1>4, <1>5, <1>6 DEF ReadInv

(***************************************************************************)
(* A client that pages through its history until a page is short has seen  *)
(* every transaction it had when it began, however many came in between.   *)
(***************************************************************************)
THEOREM ReadingCorrect == HistorySpec => []ReadingIsComplete
<1>1. HistoryInit => ReadInv
    <2> SUFFICES ASSUME HistoryInit, ListInv PROVE ReadInv
        BY ListInvInit
    <2>1. reader \in Addr /\ page = 0 /\ seen = {} /\ wanted = {} /\ ~done
        BY DEF HistoryInit
    <2>2. Len(Mine) \in Nat
        BY <2>1, MineOrdered
    <2>3. wanted = {Mine[i] : i \in 1 .. 0} /\ \A i \in 1 .. 0 : Mine[i] \in seen
        BY <2>1
    <2> QED
        BY <2>1, <2>2, <2>3 DEF ReadInv
<1>2. ReadInv /\ [HistoryNext]_vars => ReadInv'
    <2> SUFFICES ASSUME ReadInv, [HistoryNext]_vars PROVE ReadInv'
        OBVIOUS
    <2>1. ListInv'
        BY ListNextInv DEF ReadInv
    <2>2. TxCnt \in Nat /\ IInv
        BY LenProperties DEF TxCnt, ReadInv, ListInv, Typed
    <2>3. CASE Handle /\ UNCHANGED readVars
        BY <2>1, <2>2, <2>3, StepStores, ReadWhileStored
    <2>4. CASE UNCHANGED vars
        BY <2>1, <2>4, ReadWhileStored DEF vars
    <2> QED
        BY <2>3, <2>4, ReadStep DEF HistoryNext
<1>3. ReadInv => ReadingIsComplete
    BY DEF ReadInv, ReadingIsComplete
<1> QED
    BY <1>1, <1>2, <1>3, PTL DEF HistorySpec

-----------------------------------------------------------------------------
(* Storing transactions does not disturb the ledger.                        *)

(***************************************************************************)
(* The ledger with its transaction records implements the ledger: storing  *)
(* a record changes no message's effect and lets no other message through, *)
(* and the client that reads is not noticed.                               *)
(***************************************************************************)
THEOREM HistoryIsLedger == HistorySpec => SnipSpec
<1>1. HistoryInit => SnipInit
    BY DEF HistoryInit
<1>2. [HistoryNext]_vars => [SnipNext]_snipVars
    <2> SUFFICES ASSUME [HistoryNext]_vars PROVE [SnipNext]_snipVars
        OBVIOUS
    <2>1. CASE ReadPage \/ UNCHANGED vars
        BY <2>1 DEF ReadPage, vars
    <2>2. CASE Handle
        BY <2>2 DEF Handle, Mints, Transfers, Burns, SnipNext, LedgerNext
    <2> QED
        BY <2>1, <2>2 DEF HistoryNext
<1> QED
    BY <1>1, <1>2, PTL DEF HistorySpec, SnipSpec
=============================================================================

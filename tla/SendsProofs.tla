----------------------------- MODULE SendsProofs -----------------------------
(***************************************************************************)
(* Proofs about sends: the stores are exact whenever no handler is at      *)
(* work, what the chain would restore stays exact from one handler of a    *)
(* transaction to the next, and receivers are told of what they got in     *)
(* order.                                                                  *)
(***************************************************************************)
EXTENDS Sends, BatchProofs, SequenceTheorems, WellFoundedInduction

\* the types of what Batch adds to the ledger
RunTypes ==
    /\ runNum \in [RunIds -> Nat]
    /\ runInfo \in [Idx -> RunInfo \cup {None}]
    /\ ahead \in BOOLEAN
    /\ work # None /\ work.kind = "Clones" => work.left <= work.quantity

InTransaction == work # None \/ queue # <<>> \/ caller # None

\* what a transaction leaves as it is until it ends
Pending == undo \in Store /\ UndoExact /\ status = Normal /\ savedBlock = block

SendTypes ==
    /\ send # None => "contract" \in DOMAIN send /\ send.contract \in Addr
    /\ caller \in Addr \cup {None}

\* Inductive: a transaction that was begun can be undone until it is committed.
SendInv ==
    /\ BatchInv
    /\ RunTypes
    /\ SendTypes
    /\ undo # None => Pending
    /\ InTransaction => undo # None
    /\ work # None /\ work.kind # "Send" => queue = <<>> /\ caller = None

-----------------------------------------------------------------------------
(* What the chain puts aside and restores.                                  *)

\* What the chain puts aside when a message begins is a store.
LEMMA StoredType ==
    ASSUME TypeOK, RunTypes
    PROVE  Stored \in Store /\ Stored # None
<1>1. Stored \in Store
    BY DEF TypeOK, RunTypes, Stored, Store
<1> QED
    BY <1>1, SendAssumption

\* Putting it back restores the types of the stores.
LEMMA RestoredTypes == ASSUME undo \in Store, RollBack PROVE RunTypes' /\ undo' = None
BY DEF RollBack, RunTypes, Store

\* A handler at work keeps BatchInv, and with it what the chain would restore.
LEMMA PendingKept ==
    ASSUME Pending, UNCHANGED <<undo, status, admin, minters, allPerm, ownerPriv, block, savedBlock>>
    PROVE  Pending'
BY UndoKept DEF Pending, configVars

-----------------------------------------------------------------------------
(* The steps of a transaction that sends.                                   *)

\* A handler called by a receiver begins with nothing held; the chain would
\* still restore what was there before the first message.
LEMMA CallBackInv ==
    ASSUME SendInv, CallBack
    PROVE  SendInv'
<1>1. /\ work = None /\ caller \in Addr /\ undo # None /\ Pending /\ BatchInv
    BY DEF SendInv, SendTypes, CallBack, InTransaction
<1>2. /\ UNCHANGED <<snipVars, undo, runNum, runInfo, ahead>> /\ UNCHANGED send /\ caller' = None
    BY DEF CallBack
<1>3. IInv /\ SupplyExact /\ DefaultsAhead(ahead, mintCnt, idxOf)
    BY <1>1, BetweenInv DEF BatchInv
<1>4. /\ work' \in Work /\ work'.kind = "Send" /\ work'.operFor = {}
      /\ DOMAIN work'.invs = {} /\ DOMAIN work'.removed = {}
    BY <1>1, NothingIsHeld DEF CallBack, Start, Work
<1>5. /\ UNCHANGED <<status, admin, minters, allPerm, ownerPriv, block, savedBlock>>
      /\ UNCHANGED <<ledgerVars, permVars>>
    BY <1>2 DEF snipVars, configVars, permVars
<1>6. Pending'
    BY <1>1, <1>2, <1>5, PendingKept
<1>7. OperatorsHold'
    BY <1>4 DEF OperatorsHold
<1>8. Holding'
    BY <1>4, <1>6, <1>7 DEF Holding, Pending
<1>9. IInv' /\ SupplyExact'
    <2>1. TypeOK'
        BY <1>3, <1>5 DEF IInv, TypeOK, configVars, ledgerVars, permVars
    <2>2. IdsExact' /\ InventoryExact' /\ SupplyExact' /\ AuthListExact' /\ NoDoubleGrant'
        BY <1>3, <1>5 DEF IInv, IdsExact, InventoryExact, SupplyExact, AuthListExact,
           NoDoubleGrant, Exists, Owner, ledgerVars, permVars
    <2> QED
        BY <2>1, <2>2 DEF IInv
<1>10. \A a \in Addr : Inv(a)' = inventory'[a] /\ Lost(a)' = {}
    BY <1>4 DEF Inv, Lost
<1>11. DefaultsAhead(ahead, mintCnt, idxOf)'
    BY <1>2, <1>3, <1>5 DEF DefaultsAhead, ledgerVars
<1>12. BatchInv'
    BY <1>8, <1>9, <1>10, <1>11
    DEF BatchInv, IInv, HeldInventory, HeldAuthList, InventoryExact, AuthListExact
<1> QED
    BY <1>1, <1>2, <1>4, <1>6, <1>12 DEF SendInv, RunTypes, SendTypes, InTransaction

\* Opening the next Send of a message changes nothing in the stores.
LEMMA OpenSendInv ==
    ASSUME SendInv, NEW c \in SendTo, NEW info \in Supplied, OpenSend(c, info)
    PROVE  SendInv'
<1>1. /\ work # None /\ work \in Work /\ work.left > 0 /\ Holding /\ BatchInv
      /\ undo # None /\ Pending
    BY DEF SendInv, OpenSend, At, BatchInv, Holding, InTransaction
<1>2. /\ work' = [work EXCEPT !.left = @ - 1]
      /\ UNCHANGED <<snipVars, undo, runNum, runInfo, ahead>> /\ UNCHANGED <<queue, caller>>
      /\ send' = [contract |-> c, info |-> info, from |-> <<>>, no |-> work.left]
    BY DEF OpenSend
<1>3. /\ UNCHANGED <<status, admin, minters, allPerm, ownerPriv, block, savedBlock>>
      /\ UNCHANGED <<ledgerVars, permVars>>
    BY <1>2 DEF snipVars, configVars, permVars
<1>4. /\ work' \in Work /\ work'.invs = work.invs /\ work'.removed = work.removed
      /\ work'.operFor = work.operFor /\ work'.kind = work.kind /\ work'.sender = work.sender
      /\ work'.owner = work.owner
    BY <1>1, <1>2 DEF Work
<1>5. Pending'
    BY <1>1, <1>2, <1>3, PendingKept
<1>6. work' # None /\ \A a \in Addr : Inv(a)' = Inv(a) /\ Lost(a)' = Lost(a)
    BY <1>1, <1>3, <1>4, BatchAssumption DEF Inv, Lost, ledgerVars
<1>7. OperatorsHold'
    BY <1>1, <1>3, <1>4 DEF Holding, OperatorsHold
<1>8. Holding'
    BY <1>1, <1>3, <1>4, <1>5, <1>7 DEF Holding, Pending
<1>9. TypeOK'
    BY <1>1, <1>3 DEF BatchInv, TypeOK, configVars, ledgerVars, permVars
<1>10. IdsExact' /\ SupplyExact' /\ NoDoubleGrant'
    BY <1>1, <1>3 DEF BatchInv, IdsExact, SupplyExact, NoDoubleGrant, Exists, Owner,
       ledgerVars, permVars
<1>11. HeldInventory'
    BY <1>1, <1>3, <1>6 DEF BatchInv, HeldInventory, Exists, Owner, ledgerVars
<1>12. HeldAuthList'
    BY <1>1, <1>3, <1>6 DEF BatchInv, HeldAuthList, Exists, Owner, ledgerVars, permVars
<1>13. DefaultsAhead(ahead, mintCnt, idxOf)'
    BY <1>1, <1>2, <1>3 DEF BatchInv, DefaultsAhead, ledgerVars
<1>14. BatchInv'
    BY <1>8, <1>9, <1>10, <1>11, <1>12, <1>13 DEF BatchInv
<1>15. SendTypes'
    BY <1>2, SendAssumption DEF SendInv, SendTypes
<1> QED
    BY <1>1, <1>2, <1>4, <1>5, <1>14, <1>15 DEF SendInv, RunTypes, OpenSend, At

\* A token that is sent is moved as one that is transferred.
LEMMA SendItemInv ==
    ASSUME SendInv, NEW id \in Ids, SendItem(id)
    PROVE  SendInv'
<1>1. PICK t : t = idxOf[id]
    OBVIOUS
<1>2. PICK to : to = send.contract
    OBVIOUS
<1>3. /\ work # None /\ work.left > 0 /\ send # None /\ BatchInv /\ undo # None /\ Pending
      /\ to \in Addr
    BY <1>2 DEF SendInv, SendTypes, SendItem, At, InTransaction
<1>4. Exists(t) /\ Permitted(t) /\ Owner(t) # to /\ MoveItem(t, to)
    BY <1>1, <1>2 DEF SendItem, CanTransfer
<1>5. BatchInv'
    BY <1>3, <1>4, MoveInv
<1>6. /\ UNCHANGED <<status, admin, minters, allPerm, ownerPriv, block, savedBlock>>
      /\ UNCHANGED <<undo, runNum, runInfo, ahead>>
    BY <1>4 DEF MoveItem, configVars
<1>7. Pending'
    BY <1>3, <1>6, PendingKept
<1>8. SendTypes'
    BY <1>2, <1>3 DEF SendItem, SendInv, SendTypes
<1>9. work'.kind = "Send"
    BY <1>3, <1>4 DEF SendItem, At, MoveItem, BatchInv, Holding, Work
<1> QED
    BY <1>3, <1>5, <1>6, <1>7, <1>8, <1>9 DEF SendInv, RunTypes

\* The callbacks are with the chain, and the handler has written what it held.
LEMMA CommitSendInv == ASSUME SendInv, CommitSend PROVE SendInv'
<1>1. work # None /\ undo # None /\ Pending /\ BatchInv /\ WriteBack
    BY DEF SendInv, CommitSend, InTransaction
<1>2. BatchInv'
    BY <1>1, WriteInv
<1>3. /\ UNCHANGED <<status, admin, minters, allPerm, ownerPriv, block, savedBlock>>
      /\ UNCHANGED <<undo, runNum, runInfo, ahead, send, caller>> /\ work' = None
    BY <1>1 DEF WriteBack, CommitSend, configVars
<1>4. Pending'
    BY <1>1, <1>3, PendingKept
<1> QED
    BY <1>1, <1>2, <1>3, <1>4 DEF SendInv, RunTypes, SendTypes

\* Whatever has failed, the ledger is as it was before the transaction.
LEMMA UndoInv == ASSUME SendInv, undo # None, RollBack, Forget PROVE SendInv'
<1>1. UndoExact /\ undo \in Store
    BY DEF SendInv, Pending
<1>2. IInv' /\ SupplyExact' /\ DefaultsAhead(ahead, mintCnt, idxOf)'
    BY <1>1, UndoneInv
<1>3. work' = None /\ undo' = None /\ RunTypes'
    BY <1>1, RestoredTypes DEF RollBack
<1>4. \A a \in Addr : Inv(a)' = inventory'[a] /\ Lost(a)' = {}
    BY <1>3 DEF Inv, Lost
<1>5. BatchInv'
    BY <1>2, <1>3, <1>4
    DEF BatchInv, IInv, HeldInventory, HeldAuthList, InventoryExact, AuthListExact
<1> QED
    BY <1>3, <1>5 DEF SendInv, SendTypes, Forget, InTransaction

\* A step that leaves all stores alone keeps BatchInv.
LEMMA BatchInvKept == ASSUME BatchInv, UNCHANGED vars PROVE BatchInv'
BY BatchNextInv

\* What a receiver does within its callback is up to it; the stores stay.
LEMMA DeliverInv == ASSUME SendInv, Deliver PROVE SendInv'
<1>1. work = None /\ queue # <<>> /\ undo # None /\ Pending /\ BatchInv
    BY DEF SendInv, Deliver, ReceiverIsNext, InTransaction
<1>2. UNCHANGED vars /\ UNCHANGED <<receivers, send>>
    BY DEF Deliver
<1>3. /\ UNCHANGED <<status, admin, minters, allPerm, ownerPriv, block, savedBlock>>
      /\ UNCHANGED <<work, undo, runNum, runInfo, ahead>>
    BY <1>2 DEF vars, batchVars, snipVars, configVars, permVars
<1>4. Pending' /\ BatchInv'
    BY <1>1, <1>2, <1>3, PendingKept, BatchInvKept
<1>5. caller' \in Addr \cup {None}
    BY SendAssumption DEF Deliver, SendInv, SendTypes
<1> QED
    BY <1>1, <1>2, <1>3, <1>4, <1>5 DEF SendInv, RunTypes, SendTypes

\* A Send whose callbacks have been collected is closed.
LEMMA CloseSendInv == ASSUME SendInv, CloseSend PROVE SendInv'
<1>1. UNCHANGED vars /\ UNCHANGED <<queue, caller>> /\ send' = None
    BY DEF CloseSend
<1>2. /\ UNCHANGED <<status, admin, minters, allPerm, ownerPriv, block, savedBlock>>
      /\ UNCHANGED <<work, undo, runNum, runInfo, ahead>>
    BY <1>1 DEF vars, batchVars, snipVars, configVars, permVars
<1>3. undo # None => Pending'
    BY <1>2, PendingKept DEF SendInv
<1> QED
    BY <1>1, <1>2, <1>3, BatchInvKept DEF SendInv, RunTypes, SendTypes, InTransaction

\* The chain commits when nothing is left to deliver.
LEMMA CommitTxInv == ASSUME SendInv, CommitTx PROVE SendInv'
<1>1. /\ UNCHANGED snipVars /\ UNCHANGED <<work, runNum, runInfo, ahead>> /\ work = None
      /\ undo' = None /\ queue' = <<>> /\ caller' = None /\ send' = None
    BY DEF CommitTx, Settled, Forget
<1>2. BatchInv
    BY DEF SendInv
<1>3. IInv /\ SupplyExact /\ DefaultsAhead(ahead, mintCnt, idxOf)
    BY <1>1, <1>2, BetweenInv DEF BatchInv
<1>4. IInv' /\ SupplyExact' /\ DefaultsAhead(ahead, mintCnt, idxOf)'
    <2>1. [SnipNext]_snipVars
        BY <1>1
    <2>2. IInv' /\ SupplyExact'
        BY <1>3, <2>1, NextInv, SupplyStep
    <2> QED
        BY <1>1, <1>3, <2>2 DEF DefaultsAhead, snipVars, ledgerVars
<1>5. \A a \in Addr : Inv(a)' = inventory'[a] /\ Lost(a)' = {}
    BY <1>1 DEF Inv, Lost
<1>6. BatchInv'
    BY <1>1, <1>4, <1>5
    DEF BatchInv, IInv, HeldInventory, HeldAuthList, InventoryExact, AuthListExact
<1> QED
    BY <1>1, <1>6 DEF SendInv, RunTypes, SendTypes, InTransaction

-----------------------------------------------------------------------------
(* Messages begin, and those that do not send.                              *)

\* A message begins with the store put aside.
LEMMA BegunInv ==
    ASSUME SendInv, BatchInv', work = None, undo = None, work' # None, undo' = Stored,
           RunTypes', SendTypes', UNCHANGED <<queue, caller>>
    PROVE  SendInv'
<1>1. TypeOK /\ RunTypes /\ queue = <<>> /\ caller = None
    BY DEF SendInv, BatchInv, InTransaction, Pending
<1>2. undo' \in Store /\ undo' # None
    BY <1>1, StoredType
<1>3. Holding'
    BY DEF BatchInv
<1>4. Pending'
    BY <1>2, <1>3 DEF Holding, Pending
<1> QED
    BY <1>1, <1>2, <1>4 DEF SendInv

\* A message that sends begins like any other list.
LEMMA BeginSendInv == ASSUME SendInv, NEW s \in Addr, BeginSend(s) PROVE SendInv'
<1>1. /\ work = None /\ undo = None /\ CheckStatus(Normal)
      /\ Start("Send", s, MaxSend, None, None) /\ undo' = Stored /\ Handled
      /\ UNCHANGED <<configVars, ledgerVars, permVars, ownerPriv, runNum, runInfo, ahead>>
      /\ UNCHANGED <<send, queue, caller>>
    BY DEF BeginSend, BeginList
<1>2. MaxSend \in Nat /\ BatchInv
    BY BatchAssumption DEF SendInv
<1>3. BatchInv'
    BY <1>1, <1>2, StartInv
<1>4. work' \in Work /\ work' # None /\ work'.kind = "Send"
    BY <1>1, <1>2, NothingIsHeld, BatchAssumption DEF Start, Work
<1>5. RunTypes' /\ SendTypes'
    BY <1>1, <1>4 DEF SendInv, RunTypes, SendTypes
<1> QED
    BY <1>1, <1>3, <1>4, <1>5, BegunInv

\* A contract that registers itself changes no token.
LEMMA RegisterInv ==
    ASSUME SendInv, NEW s, NEW registration, RegisterReceiveNft(s, registration)
    PROVE  SendInv'
<1>1. /\ work = None /\ undo = None /\ work' = None /\ undo' = None /\ Handled
      /\ UNCHANGED <<configVars, ledgerVars, permVars, ownerPriv, runNum, runInfo, ahead>>
      /\ UNCHANGED <<send, queue, caller>>
    BY DEF RegisterReceiveNft, batchVars
<1>2. IInv /\ SupplyExact /\ DefaultsAhead(ahead, mintCnt, idxOf)
    BY <1>1, BetweenInv DEF SendInv, BatchInv
<1>3. TypeOK'
    BY <1>1, <1>2 DEF Handled, IInv, TypeOK, configVars, ledgerVars, permVars
<1>4. IdsExact' /\ InventoryExact' /\ SupplyExact' /\ AuthListExact' /\ NoDoubleGrant'
    BY <1>1, <1>2 DEF IInv, IdsExact, InventoryExact, SupplyExact, AuthListExact,
       NoDoubleGrant, Exists, Owner, ledgerVars, permVars
<1>5. DefaultsAhead(ahead, mintCnt, idxOf)'
    BY <1>1, <1>2 DEF DefaultsAhead, ledgerVars
<1>6. \A a \in Addr : Inv(a)' = inventory'[a] /\ Lost(a)' = {}
    BY <1>1 DEF Inv, Lost
<1>7. BatchInv'
    BY <1>1, <1>3, <1>4, <1>5, <1>6
    DEF BatchInv, IInv, HeldInventory, HeldAuthList, InventoryExact, AuthListExact
<1> QED
    BY <1>1, <1>7 DEF SendInv, RunTypes, SendTypes, InTransaction

\* So do messages with another list, and runs of clones.
LEMMA OtherBeginInv ==
    ASSUME SendInv, work # None \/ undo = None, Begin, UNCHANGED sendVars
    PROVE  SendInv'
<1>1. BatchInv' /\ UNCHANGED <<send, queue, caller>>
    BY BeginInv DEF SendInv, sendVars
<1>2. ASSUME NEW s \in Addr, NEW kind \in {"Transfer", "Burn", "Mint"}, BeginList(s, kind)
      PROVE  SendInv'
    <2>1. /\ work = None /\ undo = None /\ Start(kind, s, MaxBatch, None, None)
          /\ undo' = Stored /\ UNCHANGED <<runNum, runInfo, ahead>>
        BY <1>2 DEF BeginList
    <2>2. work' \in Work /\ work' # None /\ work'.kind = kind
        BY <2>1, NothingIsHeld, BatchAssumption DEF Start, Work
    <2>3. RunTypes' /\ SendTypes'
        BY <1>1, <2>1, <2>2 DEF SendInv, RunTypes, SendTypes
    <2> QED
        BY <1>1, <2>1, <2>2, <2>3, BegunInv
<1>3. ASSUME NEW s \in Addr, NEW r \in RunIds \cup {None}, NEW quantity \in 0 .. MaxBatch,
             NEW new \in MintChoices, BeginClones(s, r, quantity, new.owner)
      PROVE  SendInv'
    <2>1. /\ work = None /\ undo = None /\ Start("Clones", s, quantity, r, new.owner)
          /\ undo' = Stored /\ UNCHANGED <<runInfo, ahead>>
          /\ runNum' = IF r = None THEN runNum ELSE [runNum EXCEPT ![r] = @ + 1]
        BY <1>3 DEF BeginClones
    <2>2. quantity \in Nat /\ new.owner \in Addr
        BY BatchAssumption, SnipAssumption
    <2>3. /\ work' \in Work /\ work' # None /\ work'.left = work'.quantity
        BY <2>1, <2>2, NothingIsHeld, BatchAssumption DEF Start, Work
    <2>4. runNum' \in [RunIds -> Nat]
        BY <2>1 DEF SendInv, RunTypes
    <2>5. RunTypes' /\ SendTypes'
        BY <1>1, <2>1, <2>2, <2>3, <2>4 DEF SendInv, RunTypes, SendTypes, Start
    <2> QED
        BY <1>1, <2>1, <2>3, <2>5, BegunInv
<1> QED
    BY <1>2, <1>3 DEF Begin, BeginMint

\* The items of lists that send nothing.
LEMMA OtherItemInv ==
    ASSUME SendInv, Item, UNCHANGED sendVars
    PROVE  SendInv'
<1>1. /\ BatchInv /\ BatchInv' /\ work # None /\ work \in Work /\ work.left > 0
      /\ work.kind # "Send" /\ undo # None /\ Pending /\ RunTypes
    <2>1. work # None /\ work.left > 0 /\ work.kind # "Send"
        BY DEF Item, TransferItem, BurnItem, MintItem, CloneItem, At
    <2> QED
        BY <2>1, ItemInv DEF SendInv, InTransaction, BatchInv, Holding
<1>2. /\ UNCHANGED <<status, admin, minters, allPerm, ownerPriv, block, savedBlock>>
      /\ UNCHANGED <<undo, runNum>> /\ UNCHANGED <<send, queue, caller>>
    BY DEF Item, TransferItem, MoveItem, BurnItem, MintItem, CloneItem, MintOne, configVars, sendVars
<1>3. Pending'
    BY <1>1, <1>2, PendingKept
<1>4. /\ work'.kind = work.kind /\ work'.quantity = work.quantity
      /\ work'.left = work.left - 1
    BY <1>1 DEF Item, TransferItem, MoveItem, BurnItem, MintItem, CloneItem, MintOne, Work
<1>5. runInfo' \in [Idx -> RunInfo \cup {None}]
    <2>1. ASSUME NEW i, NEW info \in RunInfo \cup {None}, runInfo' = [runInfo EXCEPT ![i] = info]
          PROVE  runInfo' \in [Idx -> RunInfo \cup {None}]
        BY <1>1, <2>1 DEF RunTypes
    <2>2. CASE \E id \in Ids, to \in Addr : TransferItem(id, to)
        BY <1>1, <2>2 DEF TransferItem, MoveItem, RunTypes
    <2>3. CASE \E id \in Ids : BurnItem(id)
        BY <2>1, <2>3 DEF BurnItem
    <2>4. CASE \E given \in MintIds, new \in MintChoices, info \in Serials :
                   MintItem(given, new, info)
        BY <2>1, <2>4, BatchAssumption DEF MintItem, MintOne
    <2>5. CASE CloneItem
        <3>1. work.quantity - work.left + 1 \in Nat
            BY <1>1, <2>5 DEF RunTypes, Work, CloneItem, At
        <3>2. work.run # None => runNum[work.run] \in Nat
            BY <1>1 DEF RunTypes, Work
        <3>3. CloneInfo \in RunInfo
            BY <1>1, <3>1, <3>2 DEF CloneInfo, Serial, RunInfo, Work
        <3> QED
            BY <2>1, <2>5, <3>3 DEF CloneItem, MintOne
    <2> QED
        BY <2>2, <2>3, <2>4, <2>5 DEF Item
<1>6. ahead' \in BOOLEAN
    <2>1. ahead' = ahead \/ ahead' \in BOOLEAN
        BY DEF Item, TransferItem, MoveItem, BurnItem, MintItem, CloneItem, MintOne
    <2> QED
        BY <1>1, <2>1 DEF RunTypes
<1>7. work'.kind = "Clones" => work'.left <= work'.quantity
    BY <1>1, <1>4 DEF RunTypes, Work
<1> QED
    BY <1>1, <1>2, <1>3, <1>4, <1>5, <1>6, <1>7 DEF SendInv, RunTypes, SendTypes

\* A list that fails is undone, and no callback was waiting.
LEMMA OtherFailsInv == ASSUME SendInv, Fails, UNCHANGED sendVars PROVE SendInv'
<1>1. work # None /\ RollBack /\ undo # None
    BY FailsRollsBack DEF SendInv, InTransaction
<1>2. work.kind # "Send"
    BY DEF Fails, TransferFails, BurnFails, MintFails, CloneFails, At
<1>3. queue' = <<>> /\ caller' = None /\ send' = send /\ BatchInv'
    BY <1>1, <1>2, FailInv DEF SendInv, sendVars
<1>4. work' = None /\ undo' = None /\ RunTypes'
    BY <1>1, RestoredTypes DEF SendInv, Pending, RollBack
<1> QED
    BY <1>3, <1>4 DEF SendInv, SendTypes, InTransaction

\* A list that ends ends its transaction.
LEMMA OtherCommitInv == ASSUME SendInv, Commit, UNCHANGED sendVars PROVE SendInv'
<1>1. /\ work # None /\ work.kind # "Send" /\ WriteBack /\ undo' = None
    BY DEF Commit
<1>2. queue' = <<>> /\ caller' = None /\ send' = send /\ BatchInv'
    BY <1>1, WriteInv DEF SendInv, sendVars
<1>3. work' = None /\ UNCHANGED <<runNum, runInfo, ahead>>
    BY <1>1 DEF WriteBack
<1> QED
    BY <1>1, <1>2, <1>3 DEF SendInv, RunTypes, SendTypes, InTransaction

\* Messages without a list come between transactions.
LEMMA OtherMessageInv ==
    ASSUME SendInv, work # None \/ undo = None, BetweenMessages, UNCHANGED sendVars
    PROVE  SendInv'
<1>1. BatchInv' /\ work = None /\ undo = None
    BY MessageInv DEF SendInv
<1>2. /\ UNCHANGED <<work, undo, runNum, runInfo, ahead>>
      /\ UNCHANGED <<send, queue, caller>>
    BY DEF BetweenMessages, batchVars, sendVars
<1> QED
    BY <1>1, <1>2 DEF SendInv, RunTypes, SendTypes, InTransaction

\* Every step keeps SendInv: one case per kind of action.
LEMMA SendsNextInv == SendInv /\ [SendsNext]_allVars => SendInv'
<1> SUFFICES ASSUME SendInv, [SendsNext]_allVars PROVE SendInv'
    OBVIOUS
<1>1. CASE \E s \in Addr : BeginSend(s)
    BY <1>1, BeginSendInv
<1>2. CASE \E r \in Registered : RegisterReceiveNft(r[1], r[2])
    BY <1>2, RegisterInv
<1>3. CASE TxStep
    <2>1. CASE \E c \in SendTo, info \in Supplied : OpenSend(c, info)
        BY <2>1, OpenSendInv
    <2>2. CASE \E id \in Ids : SendItem(id)
        BY <2>2, SendItemInv
    <2>3. CASE \E id \in Ids : SendFails(id)
        BY <2>3, UndoInv DEF SendFails, At, SendInv, InTransaction
    <2>4. CASE ReceiverFails
        BY <2>4, UndoInv DEF ReceiverFails, ReceiverIsNext, SendInv, InTransaction
    <2> QED
        BY <1>3, <2>1, <2>2, <2>3, <2>4, CloseSendInv, CommitSendInv, DeliverInv, CallBackInv,
           CommitTxInv DEF TxStep
<1>4. CASE OtherMessages
    BY <1>4, OtherBeginInv, OtherItemInv, OtherFailsInv, OtherCommitInv, OtherMessageInv
    DEF OtherMessages
<1>5. CASE UNCHANGED allVars
    <2>1. UNCHANGED vars /\ UNCHANGED <<send, queue, caller>>
        BY <1>5 DEF allVars, sendVars
    <2>2. /\ UNCHANGED <<status, admin, minters, allPerm, ownerPriv, block, savedBlock>>
          /\ UNCHANGED <<work, undo, runNum, runInfo, ahead>>
        BY <2>1 DEF vars, batchVars, snipVars, configVars, permVars
    <2>3. undo # None => Pending'
        BY <2>2, PendingKept DEF SendInv
    <2> QED
        BY <2>1, <2>2, <2>3, BatchInvKept DEF SendInv, RunTypes, SendTypes, InTransaction
<1> QED
    BY <1>1, <1>2, <1>3, <1>4, <1>5 DEF SendsNext

\* SendInv holds in every state of a run with sends.
LEMMA SendInvCorrect == SendsSpec => []SendInv
<1>1. SendsInit => SendInv
    <2> SUFFICES ASSUME SendsInit PROVE SendInv
        OBVIOUS
    <2>1. BatchInit /\ queue = <<>> /\ caller = None /\ send = None
        BY DEF SendsInit
    <2>2. BatchInv
        BY <2>1, BatchInitInv
    <2>3. RunTypes /\ SendTypes
        BY <2>1 DEF BatchInit, RunTypes, SendTypes
    <2> QED
        BY <2>1, <2>2, <2>3 DEF BatchInit, SendInv, InTransaction
<1> QED
    BY <1>1, SendsNextInv, PTL DEF SendsSpec

(***************************************************************************)
(* Whenever no handler is at work, between the callbacks of a transaction  *)
(* too, ids, inventories, supply and AuthLists are exact: a receiver's     *)
(* handler starts from what the handler before it has written, and what a  *)
(* failure deep in a nest of sends restores is exact as well.              *)
(***************************************************************************)
THEOREM SettledCorrect == SendsSpec => []SettledStoresExact
<1>1. SendInv => SettledStoresExact
    BY BetweenInv DEF SendInv, SettledStoresExact, IInv
<1> QED
    BY <1>1, SendInvCorrect, PTL

-----------------------------------------------------------------------------
(* Which callback tells of which token.                                     *)

OwedType ==
    [id : Ids, from : Addr, by : Addr, to : Addr, calls : Nat, no : Nat, left : Nat]
CallbackType ==
    [to : Addr, sender : Addr \cup {None}, from : Addr, ids : Seq(Ids)]

SameSend(e, d) == e.calls = d.calls /\ e.no = d.no

\* the Send of e is told of before that of d
Before(e, d) == e.calls < d.calls \/ (e.calls = d.calls /\ e.no > d.no)

\* g is the order in which ids names the tokens T
InOrder(ids, T, g) ==
    /\ g \in [1 .. Len(ids) -> T]
    /\ \A e \in T : \E n \in 1 .. Len(ids) : g[n] = e
    /\ \A n \in 1 .. Len(ids) : g[n].id = ids[n]
    /\ \A n, k \in 1 .. Len(ids) : n < k => Earlier(g[n], g[k])

Lists(ids, T) == \E g : InOrder(ids, T, g)

\* f[e] is the callback of q that tells of e
TellsBy(q, S, f) ==
    /\ f \in [S -> 1 .. Len(q)]
    /\ \A i \in 1 .. Len(q) :
          /\ q[i].ids # <<>>
          /\ Lists(q[i].ids, {e \in S : f[e] = i})
          /\ q[i].sender = None => Len(q[i].ids) = 1
    /\ \A e \in S : q[f[e]].from = e.from /\ q[f[e]].to = e.to
    /\ \A e, d \in S :
          /\ Before(e, d) => f[e] < f[d]
          /\ SameSend(e, d) /\ e.from = d.from =>
                /\ Earlier(e, d) => f[e] <= f[d]
                /\ q[f[e]].sender # None => f[d] = f[e] /\ q[f[e]].sender = e.by

\* the callbacks q tell of the tokens S: those of a Send before those of the next
Tells(q, S) == \E f : TellsBy(q, S, f)

\* No callbacks tell of no tokens.
LEMMA NothingToTell == Tells(<<>>, {})
<1>1. TellsBy(<<>>, {}, [e \in {} |-> 1])
    BY DEF TellsBy
<1> QED
    BY <1>1 DEF Tells

\* and of no others.
LEMMA NobodyTold == ASSUME NEW S, Tells(<<>>, S) PROVE S = {}
<1>1. PICK f : f \in [S -> 1 .. Len(<<>>)]
    BY DEF Tells, TellsBy
<1> QED
    BY <1>1

(***************************************************************************)
(* Callbacks of earlier Sends, or about other owners of the same Send, may *)
(* go first.                                                               *)
(***************************************************************************)
LEMMA JoinedTells ==
    ASSUME NEW q \in Seq(CallbackType), NEW r \in Seq(CallbackType),
           NEW S \in SUBSET OwedType, NEW T \in SUBSET OwedType,
           Tells(q, S), Tells(r, T),
           \A e \in S, d \in T : ~Before(d, e) /\ ~(SameSend(e, d) /\ e.from = d.from)
    PROVE  q \o r \in Seq(CallbackType) /\ Tells(q \o r, S \cup T)
<1>1. PICK m \in Nat : m = Len(q)
    BY LenProperties
<1>2. PICK n \in Nat : n = Len(r)
    BY LenProperties
<1>3. PICK s : s = q \o r
    OBVIOUS
<1>4. /\ s \in Seq(CallbackType) /\ Len(s) = m + n
      /\ \A i \in 1 .. m : s[i] = q[i]
      /\ \A i \in 1 .. n : s[m + i] = r[i]
    BY <1>1, <1>2, <1>3, ConcatProperties
<1>5. PICK f : TellsBy(q, S, f)
    BY DEF Tells
<1>6. PICK g : TellsBy(r, T, g)
    BY DEF Tells
<1>7. S \cap T = {}
    BY DEF SameSend
<1> DEFINE h == [e \in S \cup T |-> IF e \in S THEN f[e] ELSE m + g[e]]
<1>8. /\ f \in [S -> 1 .. m] /\ g \in [T -> 1 .. n]
    BY <1>1, <1>2, <1>5, <1>6 DEF TellsBy
<1>9. /\ \A e \in S : h[e] = f[e] /\ h[e] \in 1 .. m /\ s[h[e]] = q[f[e]]
      /\ \A e \in T : h[e] = m + g[e] /\ h[e] \in m + 1 .. m + n /\ s[h[e]] = r[g[e]]
    BY <1>4, <1>7, <1>8
<1>10. h \in [S \cup T -> 1 .. m + n]
    BY <1>9
<1> HIDE DEF h
<1>11. ASSUME NEW i \in 1 .. m + n
       PROVE  /\ s[i].ids # <<>> /\ Lists(s[i].ids, {e \in S \cup T : h[e] = i})
              /\ s[i].sender = None => Len(s[i].ids) = 1
    <2>1. CASE i \in 1 .. m
        <3>1. {e \in S \cup T : h[e] = i} = {e \in S : f[e] = i}
            BY <1>8, <1>9, <2>1
        <3> QED
            BY <1>1, <1>4, <1>5, <2>1, <3>1 DEF TellsBy
    <2>2. CASE i \notin 1 .. m
        <3>1. PICK k \in 1 .. n : i = m + k
            BY <2>2
        <3>2. {e \in S \cup T : h[e] = i} = {e \in T : g[e] = k}
            BY <1>8, <1>9, <2>2, <3>1
        <3>3. s[i] = r[k]
            BY <1>4, <3>1
        <3> QED
            BY <1>2, <1>6, <3>2, <3>3 DEF TellsBy
    <2> QED
        BY <2>1, <2>2
<1>12. \A e \in S \cup T : s[h[e]].from = e.from /\ s[h[e]].to = e.to
    <2>1. \A e \in S : q[f[e]].from = e.from /\ q[f[e]].to = e.to
        BY <1>5 DEF TellsBy
    <2>2. \A e \in T : r[g[e]].from = e.from /\ r[g[e]].to = e.to
        BY <1>6 DEF TellsBy
    <2> QED
        BY <1>9, <2>1, <2>2
<1>13. ASSUME NEW e \in S \cup T, NEW d \in S \cup T
       PROVE  /\ Before(e, d) => h[e] < h[d]
              /\ SameSend(e, d) /\ e.from = d.from =>
                    /\ Earlier(e, d) => h[e] <= h[d]
                    /\ s[h[e]].sender # None => h[d] = h[e] /\ s[h[e]].sender = e.by
    <2>1. CASE e \in S /\ d \in S
        <3>1. /\ Before(e, d) => f[e] < f[d]
              /\ SameSend(e, d) /\ e.from = d.from =>
                    /\ Earlier(e, d) => f[e] <= f[d]
                    /\ q[f[e]].sender # None => f[d] = f[e] /\ q[f[e]].sender = e.by
            BY <1>5, <2>1 DEF TellsBy
        <3>2. h[e] = f[e] /\ h[d] = f[d] /\ s[h[e]] = q[f[e]]
            BY <1>9, <2>1
        <3> QED
            BY <3>1, <3>2
    <2>2. CASE e \in T /\ d \in T
        <3>1. /\ Before(e, d) => g[e] < g[d]
              /\ SameSend(e, d) /\ e.from = d.from =>
                    /\ Earlier(e, d) => g[e] <= g[d]
                    /\ r[g[e]].sender # None => g[d] = g[e] /\ r[g[e]].sender = e.by
            BY <1>6, <2>2 DEF TellsBy
        <3>2. /\ h[e] = m + g[e] /\ h[d] = m + g[d] /\ s[h[e]] = r[g[e]]
              /\ g[e] \in 1 .. n /\ g[d] \in 1 .. n
            BY <1>8, <1>9, <2>2
        <3> QED
            BY <3>1, <3>2
    <2>3. CASE e \in S /\ d \in T
        BY <1>9, <2>3
    <2>4. CASE e \in T /\ d \in S
        <3>1. ~Before(e, d) /\ ~(SameSend(e, d) /\ e.from = d.from)
            BY <2>4 DEF SameSend
        <3> QED
            BY <3>1
    <2> QED
        BY <2>1, <2>2, <2>3, <2>4
<1>14. TellsBy(s, S \cup T, h)
    BY <1>4, <1>10, <1>11, <1>12, <1>13 DEF TellsBy
<1> QED
    BY <1>3, <1>4, <1>14 DEF Tells

\* One batch tells of all its owner's tokens.
LEMMA BatchTells ==
    ASSUME NEW T \in SUBSET OwedType, NEW m \in CallbackType, m.ids # <<>>, Lists(m.ids, T),
           m.sender # None,
           \A e \in T : e.from = m.from /\ e.to = m.to /\ e.by = m.sender,
           \A e, d \in T : SameSend(e, d)
    PROVE  <<m>> \in Seq(CallbackType) /\ Tells(<<m>>, T)
<1>1. PICK q : q = <<m>>
    OBVIOUS
<1>2. q \in Seq(CallbackType) /\ Len(q) = 1 /\ q[1] = m
    BY <1>1
<1>3. PICK f : f = [e \in T |-> 1]
    OBVIOUS
<1>4. f \in [T -> 1 .. Len(q)] /\ {e \in T : f[e] = 1} = T
    BY <1>2, <1>3
<1>5. \A e \in T : f[e] = 1 /\ q[f[e]] = m
    BY <1>2, <1>3
<1>6. ASSUME NEW i \in 1 .. Len(q)
      PROVE  /\ q[i].ids # <<>> /\ Lists(q[i].ids, {e \in T : f[e] = i})
             /\ q[i].sender = None => Len(q[i].ids) = 1
    <2>1. i = 1 /\ q[i] = m
        BY <1>2
    <2>2. Lists(q[1].ids, {e \in T : f[e] = 1})
        BY <1>2, <1>4
    <2> QED
        BY <1>2, <2>1, <2>2
<1>7. ASSUME NEW e \in T PROVE q[f[e]].from = e.from /\ q[f[e]].to = e.to
    BY <1>5
<1>8. ASSUME NEW e \in T, NEW d \in T
      PROVE  /\ Before(e, d) => f[e] < f[d]
             /\ SameSend(e, d) /\ e.from = d.from =>
                   /\ Earlier(e, d) => f[e] <= f[d]
                   /\ q[f[e]].sender # None => f[d] = f[e] /\ q[f[e]].sender = e.by
    <2>1. ~Before(e, d)
        BY DEF Before, SameSend, OwedType
    <2> QED
        BY <1>5, <2>1
<1>9. TellsBy(q, T, f)
    BY <1>4, <1>6, <1>7, <1>8 DEF TellsBy
<1> QED
    BY <1>1, <1>2, <1>9 DEF Tells

\* One callback per token tells of them one by one.
LEMMA OneByOneTells ==
    ASSUME NEW T \in SUBSET OwedType, NEW q \in Seq(CallbackType), NEW ids \in Seq(Ids),
           Len(q) = Len(ids), Lists(ids, T),
           \A i \in 1 .. Len(q) : q[i].ids = <<ids[i]>> /\ q[i].sender = None,
           \A i \in 1 .. Len(q), e \in T : e.from = q[i].from /\ e.to = q[i].to,
           \A e, d \in T : SameSend(e, d)
    PROVE  Tells(q, T)
<1>1. PICK n \in Nat : n = Len(q) /\ n = Len(ids)
    BY LenProperties
<1>2. PICK g : InOrder(ids, T, g)
    BY DEF Lists
<1>3. /\ g \in [1 .. n -> T] /\ \A e \in T : \E i \in 1 .. n : g[i] = e
      /\ \A i \in 1 .. n : g[i].id = ids[i]
      /\ \A i, k \in 1 .. n : i < k => g[i].left > g[k].left
    BY <1>1, <1>2 DEF InOrder, Earlier
<1>4. \A i, k \in 1 .. n : g[i] = g[k] => i = k
    <2> SUFFICES ASSUME NEW i \in 1 .. n, NEW k \in 1 .. n, g[i] = g[k] PROVE i = k
        OBVIOUS
    <2>1. g[i].left \in Nat /\ g[i].left = g[k].left
        BY <1>3 DEF OwedType
    <2>2. ~(i < k) /\ ~(k < i)
        BY <1>3, <2>1
    <2> QED
        BY <2>2
<1> DEFINE f == [e \in T |-> CHOOSE i \in 1 .. n : g[i] = e]
<1>5. \A e \in T : f[e] \in 1 .. n /\ g[f[e]] = e
    BY <1>3
<1>6. f \in [T -> 1 .. n]
    BY <1>5
<1> HIDE DEF f
<1>7. \A i \in 1 .. n : f[g[i]] = i
    BY <1>3, <1>4, <1>5
<1>8. ASSUME NEW i \in 1 .. n
      PROVE  q[i].ids # <<>> /\ Len(q[i].ids) = 1 /\ Lists(q[i].ids, {e \in T : f[e] = i})
    <2>1. {e \in T : f[e] = i} = {g[i]}
        BY <1>3, <1>5, <1>7
    <2>2. PICK one : one = <<ids[i]>>
        OBVIOUS
    <2>3. one # <<>> /\ Len(one) = 1 /\ one[1] = g[i].id
        BY <1>3, <2>2
    <2>4. InOrder(one, {g[i]}, [k \in 1 .. 1 |-> g[i]])
        BY <2>3 DEF InOrder
    <2> QED
        BY <1>1, <2>1, <2>2, <2>3, <2>4 DEF Lists
<1>9. \A e, d \in T : ~Before(e, d)
    BY DEF Before, SameSend, OwedType
<1>10. ASSUME NEW e \in T, NEW d \in T, Earlier(e, d) PROVE f[e] <= f[d]
    <2>1. f[e] \in 1 .. n /\ f[d] \in 1 .. n /\ g[f[e]] = e /\ g[f[d]] = d
        BY <1>5
    <2>2. ~(e.left < d.left) /\ e.left \in Nat /\ d.left \in Nat
        BY <1>10 DEF Earlier, OwedType
    <2>3. ~(f[d] < f[e])
        BY <1>3, <2>1, <2>2
    <2> QED
        BY <2>1, <2>3
<1>11. \A e \in T : q[f[e]].from = e.from /\ q[f[e]].to = e.to /\ q[f[e]].sender = None
    BY <1>1, <1>5
<1>12. TellsBy(q, T, f)
    BY <1>1, <1>6, <1>8, <1>9, <1>10, <1>11 DEF TellsBy
<1> QED
    BY <1>12 DEF Tells

\* the tokens of a Send differ, and each has its place
Distinct == \A e, d \in owed : SameSend(e, d) /\ (e.id = d.id \/ e.left = d.left) => e = d

\* what TellsInOrder says of a callback
ToldInOrder(m) ==
    LET tokens == OwedBy(m.from) IN
    \E told \in [DOMAIN m.ids -> tokens] :
        /\ m.ids # <<>>
        /\ \A i \in DOMAIN m.ids : told[i].id = m.ids[i] /\ told[i].to = m.to
        /\ \A i, j \in DOMAIN m.ids : i < j => Earlier(told[i], told[j])
        /\ \A e \in tokens : (\E i \in DOMAIN m.ids : told[i] = e)
                           \/ \A i \in DOMAIN m.ids : Earlier(told[i], e)
        /\ IF m.sender = None THEN Len(m.ids) = 1
           ELSE \A e \in tokens : e.by = m.sender /\ \E i \in DOMAIN m.ids : told[i] = e

(***************************************************************************)
(* If the callbacks tell of what is owed, the first of them is about the   *)
(* Send whose turn it is, and the others tell of the rest.                 *)
(***************************************************************************)
LEMMA FirstTold ==
    ASSUME queue \in Seq(CallbackType), queue # <<>>, owed \subseteq OwedType, Distinct,
           Tells(queue, owed), NEW m, m = Head(queue)
    PROVE  ToldInOrder(m) /\ Tells(Tail(queue), {e \in owed : ~IsTold(m, e)})
<1>1. PICK n \in Nat : n = Len(queue)
    BY LenProperties
<1>2. PICK rest : rest = Tail(queue)
    OBVIOUS
<1>3. /\ n >= 1 /\ m = queue[1] /\ m \in CallbackType
      /\ rest \in Seq(CallbackType) /\ Len(rest) = n - 1
      /\ \A i \in 1 .. n - 1 : rest[i] = queue[i + 1]
    <2>1. n # 0
        BY <1>1, EmptySeq
    <2> QED
        BY <1>1, <1>2, <2>1, HeadTailProperties, ElementOfSeq
<1>4. PICK f : TellsBy(queue, owed, f)
    BY DEF Tells
<1>5. f \in [owed -> 1 .. n]
    BY <1>1, <1>4 DEF TellsBy
<1>6. \A e \in owed : queue[f[e]].from = e.from /\ queue[f[e]].to = e.to
    BY <1>4 DEF TellsBy
<1>7. \A e, d \in owed :
          /\ Before(e, d) => f[e] < f[d]
          /\ SameSend(e, d) /\ e.from = d.from =>
                /\ Earlier(e, d) => f[e] <= f[d]
                /\ queue[f[e]].sender # None => f[d] = f[e] /\ queue[f[e]].sender = e.by
    BY <1>4 DEF TellsBy
<1>8. /\ m.ids # <<>> /\ Lists(m.ids, {e \in owed : f[e] = 1})
      /\ m.sender = None => Len(m.ids) = 1
    <2>1. 1 \in 1 .. Len(queue)
        BY <1>1, <1>3
    <2>2. /\ queue[1].ids # <<>> /\ Lists(queue[1].ids, {e \in owed : f[e] = 1})
          /\ queue[1].sender = None => Len(queue[1].ids) = 1
        BY <1>4, <2>1 DEF TellsBy
    <2> QED
        BY <1>3, <2>2
<1>9. PICK T : T = {e \in owed : f[e] = 1}
    OBVIOUS
<1>10. PICK k \in Nat : k = Len(m.ids) /\ k >= 1 /\ DOMAIN m.ids = 1 .. k
    <2>1. m.ids \in Seq(Ids)
        BY <1>3 DEF CallbackType
    <2> QED
        BY <1>8, <2>1, LenProperties, EmptySeq
<1>11. PICK g : InOrder(m.ids, T, g)
    BY <1>8, <1>9 DEF Lists
<1>12. /\ g \in [1 .. k -> T] /\ \A e \in T : \E i \in 1 .. k : g[i] = e
       /\ \A i \in 1 .. k : g[i].id = m.ids[i]
       /\ \A i, j \in 1 .. k : i < j => Earlier(g[i], g[j])
    BY <1>10, <1>11 DEF InOrder
<1>13. ASSUME NEW e \in T PROVE e \in OwedBy(m.from) /\ e.to = m.to
    <2>1. e \in owed /\ f[e] = 1 /\ e.from = m.from /\ e.to = m.to
        BY <1>3, <1>6, <1>9
    <2>2. ASSUME NEW d \in owed PROVE e.calls < d.calls \/ (e.calls = d.calls /\ e.no >= d.no)
        <3>1. ~Before(d, e)
            BY <1>5, <1>7, <2>1
        <3> QED
            BY <2>1, <3>1 DEF Before, OwedType
    <2> QED
        BY <2>1, <2>2 DEF OwedBy, FrontSend
<1>14. ASSUME NEW from, NEW e \in OwedBy(from), NEW d \in OwedBy(from)
       PROVE  SameSend(e, d) /\ e \in owed /\ e.from = from /\ d.from = from
    BY DEF OwedBy, FrontSend, SameSend, OwedType
<1>15. ASSUME NEW e \in owed PROVE IsTold(m, e) <=> e \in T
    <2>1. ASSUME e \in T PROVE IsTold(m, e)
        BY <1>10, <1>12, <1>13, <2>1 DEF IsTold
    <2>2. ASSUME IsTold(m, e) PROVE e \in T
        <3>1. PICK i \in 1 .. k : m.ids[i] = e.id
            BY <1>10, <2>2 DEF IsTold
        <3>2. g[i] \in T /\ g[i] \in owed /\ g[i].id = e.id
            BY <1>9, <1>12, <3>1
        <3>3. SameSend(g[i], e)
            BY <1>13, <1>14, <2>2, <3>2 DEF IsTold
        <3> QED
            BY <3>2, <3>3 DEF Distinct
    <2> QED
        BY <2>1, <2>2
<1>16. ASSUME NEW e \in OwedBy(m.from), NEW i \in 1 .. k
       PROVE  /\ e \in T \/ Earlier(g[i], e)
              /\ m.sender # None => e \in T /\ e.by = m.sender
    <2>1. g[i] \in T /\ g[i] \in owed /\ f[g[i]] = 1
        BY <1>9, <1>12
    <2>2. SameSend(g[i], e) /\ SameSend(e, g[i]) /\ e \in owed /\ e.from = g[i].from
        BY <1>13, <1>14, <2>1
    <2>3. Earlier(e, g[i]) => f[e] <= 1
        BY <1>7, <2>1, <2>2
    <2>4. f[e] \in 1 .. n /\ g[i].left \in Nat /\ e.left \in Nat
        BY <1>5, <2>1, <2>2 DEF OwedType
    <2>5. e.left = g[i].left => e = g[i]
        BY <2>1, <2>2 DEF Distinct
    <2>6. e \in T \/ Earlier(g[i], e)
        BY <1>9, <2>1, <2>2, <2>3, <2>4, <2>5 DEF Earlier
    <2>7. m.sender # None => f[e] = 1
        BY <1>3, <1>7, <2>1, <2>2
    <2>8. m.sender # None => e.by = m.sender
        BY <1>3, <1>7, <2>1, <2>2, <2>7
    <2> QED
        BY <1>9, <2>2, <2>6, <2>7, <2>8
<1>17. ToldInOrder(m)
    <2>1. g \in [DOMAIN m.ids -> OwedBy(m.from)]
        BY <1>10, <1>12, <1>13
    <2>2. \A i \in DOMAIN m.ids : g[i].id = m.ids[i] /\ g[i].to = m.to
        BY <1>10, <1>12, <1>13
    <2>3. \A i, j \in DOMAIN m.ids : i < j => Earlier(g[i], g[j])
        BY <1>10, <1>12
    <2>4. \A e \in OwedBy(m.from) : (\E i \in DOMAIN m.ids : g[i] = e)
                                 \/ \A i \in DOMAIN m.ids : Earlier(g[i], e)
        BY <1>10, <1>12, <1>16
    <2>5. m.sender # None => \A e \in OwedBy(m.from) :
              e.by = m.sender /\ \E i \in DOMAIN m.ids : g[i] = e
        BY <1>10, <1>12, <1>16
    <2> QED
        BY <1>8, <2>1, <2>2, <2>3, <2>4, <2>5 DEF ToldInOrder
<1>18. PICK S : S = {e \in owed : ~IsTold(m, e)}
    OBVIOUS
<1>19. /\ S \subseteq owed /\ \A e \in S : f[e] \in 2 .. n
       /\ \A e \in owed : f[e] >= 2 => e \in S
    BY <1>5, <1>9, <1>15, <1>18
<1>20. PICK h : h = [e \in S |-> f[e] - 1]
    OBVIOUS
<1>21. /\ h \in [S -> 1 .. n - 1]
       /\ \A e \in S : h[e] = f[e] - 1 /\ rest[h[e]] = queue[f[e]]
    BY <1>3, <1>19, <1>20
<1>22. ASSUME NEW i \in 1 .. n - 1
       PROVE  /\ rest[i].ids # <<>> /\ Lists(rest[i].ids, {e \in S : h[e] = i})
              /\ rest[i].sender = None => Len(rest[i].ids) = 1
    <2>1. i + 1 \in 1 .. n /\ rest[i] = queue[i + 1]
        BY <1>3
    <2>2. {e \in S : h[e] = i} = {e \in owed : f[e] = i + 1}
        BY <1>5, <1>19, <1>21
    <2> QED
        BY <1>1, <1>4, <2>1, <2>2 DEF TellsBy
<1>23. \A e \in S : rest[h[e]].from = e.from /\ rest[h[e]].to = e.to
    BY <1>6, <1>19, <1>21
<1>24. ASSUME NEW e \in S, NEW d \in S
       PROVE  /\ Before(e, d) => h[e] < h[d]
              /\ SameSend(e, d) /\ e.from = d.from =>
                    /\ Earlier(e, d) => h[e] <= h[d]
                    /\ rest[h[e]].sender # None => h[d] = h[e] /\ rest[h[e]].sender = e.by
    <2>1. /\ e \in owed /\ d \in owed /\ f[e] \in 2 .. n /\ f[d] \in 2 .. n
          /\ h[e] = f[e] - 1 /\ h[d] = f[d] - 1 /\ rest[h[e]] = queue[f[e]]
        BY <1>19, <1>21
    <2>2. /\ Before(e, d) => f[e] < f[d]
          /\ SameSend(e, d) /\ e.from = d.from =>
                /\ Earlier(e, d) => f[e] <= f[d]
                /\ queue[f[e]].sender # None => f[d] = f[e] /\ queue[f[e]].sender = e.by
        BY <1>7, <2>1
    <2> QED
        BY <2>1, <2>2
<1>25. TellsBy(rest, S, h)
    BY <1>3, <1>21, <1>22, <1>23, <1>24 DEF TellsBy
<1> QED
    BY <1>2, <1>17, <1>18, <1>25 DEF Tells

\* There is a least number in a set of them.
LEMMA LeastOf ==
    ASSUME NEW S \in SUBSET Nat, S # {}
    PROVE  \E m \in S : \A n \in S : m <= n
<1>1. PICK m \in S : \A n \in S : <<n, m>> \notin OpToRel(<, Nat)
    BY NatLessThanWellFounded, WFMin
<1>2. \A n \in S : ~(n < m)
    BY <1>1 DEF OpToRel
<1> QED
    BY <1>2

\* all is the callbacks of the first owners of list, for n of them
Unfolds(batch, list, n, all) ==
    all = [i \in 0 .. n |-> IF i = 0 THEN <<>>
                            ELSE all[i - 1] \o OwnerCallbacks(batch, list[i])]

\* There are such callbacks: otherwise for a least number of owners there are none.
LEMMA UnfoldsExists ==
    ASSUME NEW batch, NEW list, NEW n \in Nat
    PROVE  \E all : Unfolds(batch, list, n, all)
<1> DEFINE Bad == {k \in Nat : ~ \E all : Unfolds(batch, list, k, all)}
<1> SUFFICES ASSUME Bad # {} PROVE FALSE
    OBVIOUS
<1>1. PICK k \in Bad : \A j \in Bad : k <= j
    BY LeastOf
<1>2. k # 0
    <2>1. Unfolds(batch, list, 0, [i \in 0 .. 0 |-> <<>>])
        BY DEF Unfolds
    <2> QED
        BY <2>1
<1>3. k - 1 \in Nat /\ k - 1 \notin Bad
    BY <1>1, <1>2
<1>4. PICK all : Unfolds(batch, list, k - 1, all)
    BY <1>3
<1>5. PICK more : more = [i \in 0 .. k |-> IF i = k THEN all[k - 1] \o OwnerCallbacks(batch, list[k])
                                         ELSE all[i]]
    OBVIOUS
<1>6. ASSUME NEW i \in 0 .. k
      PROVE  more[i] = IF i = 0 THEN <<>> ELSE more[i - 1] \o OwnerCallbacks(batch, list[i])
    <2>1. CASE i = k
        <3>1. k - 1 \in 0 .. k /\ k - 1 # k
            BY <1>3
        <3>2. more[k - 1] = all[k - 1]
            BY <1>5, <3>1
        <3> QED
            BY <1>2, <1>5, <2>1, <3>2
    <2>2. CASE i # k
        <3>1. i \in 0 .. k - 1 /\ (i # 0 => i - 1 \in 0 .. k /\ i - 1 # k)
            BY <1>3, <2>2
        <3>2. all[i] = IF i = 0 THEN <<>> ELSE all[i - 1] \o OwnerCallbacks(batch, list[i])
            BY <1>4, <3>1 DEF Unfolds
        <3>3. more[i] = all[i] /\ (i # 0 => more[i - 1] = all[i - 1])
            BY <1>5, <2>2, <3>1
        <3> QED
            BY <3>2, <3>3
    <2> QED
        BY <2>1, <2>2
<1>7. Unfolds(batch, list, k, more)
    <2>1. DOMAIN more = 0 .. k /\ more = [i \in DOMAIN more |-> more[i]]
        BY <1>5
    <2> QED
        BY <1>6, <2>1 DEF Unfolds
<1> QED
    BY <1>1, <1>7

\* callbacks is those of the n owners of list one after the other
OneAfterOther(callbacks, batch, list, n, all) ==
    /\ callbacks = all[n]
    /\ all[0] = <<>>
    /\ \A i \in 1 .. n : all[i] = all[i - 1] \o OwnerCallbacks(batch, list[i])

\* The callbacks of a list are those of its owners one after the other.
LEMMA CallbacksUnfold ==
    ASSUME NEW batch, NEW list, NEW n \in Nat, n = Len(list)
    PROVE  \E all : OneAfterOther(CallbacksFor(batch, list), batch, list, n, all)
<1>1. PICK all : all = CHOOSE f : Unfolds(batch, list, n, f)
    OBVIOUS
<1>2. CallbacksFor(batch, list) = all[n]
    BY <1>1 DEF CallbacksFor, Unfolds
<1>3. Unfolds(batch, list, n, all)
    BY <1>1, UnfoldsExists
<1>4. \A i \in 0 .. n : all[i] = IF i = 0 THEN <<>> ELSE all[i - 1] \o OwnerCallbacks(batch, list[i])
    BY <1>3 DEF Unfolds
<1>5. 0 \in 0 .. n /\ \A i \in 1 .. n : i \in 0 .. n /\ i # 0
    OBVIOUS
<1> QED
    BY <1>2, <1>4, <1>5 DEF OneAfterOther

\* What is owed for a token comes last if its place is after that of the others.
LEMMA AddedLists ==
    ASSUME NEW ids \in Seq(Ids), NEW T \in SUBSET OwedType, NEW e \in OwedType,
           Lists(ids, T), \A d \in T : Earlier(d, e)
    PROVE  Append(ids, e.id) \in Seq(Ids) /\ Lists(Append(ids, e.id), T \cup {e})
<1>1. PICK n \in Nat : n = Len(ids)
    BY LenProperties
<1>2. PICK more : more = Append(ids, e.id)
    OBVIOUS
<1>3. e.id \in Ids
    BY DEF OwedType
<1>4. /\ more \in Seq(Ids) /\ Len(more) = n + 1 /\ more[n + 1] = e.id
      /\ \A i \in 1 .. n : more[i] = ids[i]
    BY <1>1, <1>2, <1>3, AppendProperties
<1>5. PICK g : InOrder(ids, T, g)
    BY DEF Lists
<1>6. /\ g \in [1 .. n -> T] /\ \A d \in T : \E i \in 1 .. n : g[i] = d
      /\ \A i \in 1 .. n : g[i].id = ids[i]
      /\ \A i, k \in 1 .. n : i < k => Earlier(g[i], g[k])
    BY <1>1, <1>5 DEF InOrder
<1>7. PICK h : h = [i \in 1 .. n + 1 |-> IF i = n + 1 THEN e ELSE g[i]]
    OBVIOUS
<1>8. h \in [1 .. n + 1 -> T \cup {e}] /\ h[n + 1] = e /\ \A i \in 1 .. n : h[i] = g[i]
    BY <1>6, <1>7
<1>9. \A d \in T \cup {e} : \E i \in 1 .. n + 1 : h[i] = d
    BY <1>6, <1>8
<1>10. \A i \in 1 .. n + 1 : h[i].id = more[i]
    BY <1>4, <1>6, <1>8
<1>11. ASSUME NEW i \in 1 .. n + 1, NEW k \in 1 .. n + 1, i < k PROVE Earlier(h[i], h[k])
    <2>1. i \in 1 .. n /\ h[i] = g[i] /\ g[i] \in T
        BY <1>6, <1>8, <1>11
    <2>2. CASE k = n + 1
        <3>1. h[k] = e
            BY <1>8, <2>2
        <3> QED
            BY <2>1, <3>1
    <2>3. CASE k # n + 1
        <3>1. k \in 1 .. n
            BY <2>3
        <3>2. h[k] = g[k] /\ Earlier(g[i], g[k])
            BY <1>6, <1>8, <1>11, <2>1, <3>1
        <3> QED
            BY <2>1, <3>2
    <2> QED
        BY <2>2, <2>3
<1>12. InOrder(more, T \cup {e}, h)
    BY <1>4, <1>8, <1>9, <1>10, <1>11 DEF InOrder
<1> QED
    BY <1>2, <1>4, <1>12 DEF Lists

\* the callbacks still to be collected from list tell of the tokens S
OpenLists(list, S) ==
    /\ list \in Seq([owner : Addr, ids : Seq(Ids)])
    /\ \A i, j \in 1 .. Len(list) : list[i].owner = list[j].owner => i = j
    /\ \A i \in 1 .. Len(list) :
          list[i].ids # <<>> /\ Lists(list[i].ids, {e \in S : e.from = list[i].owner})
    /\ \A e \in S : \E i \in 1 .. Len(list) : list[i].owner = e.from

\* Nothing is collected at first.
LEMMA EmptyLists == OpenLists(<<>>, {})
<1>1. PICK list : list = <<>>
    OBVIOUS
<1>2. list \in Seq([owner : Addr, ids : Seq(Ids)]) /\ Len(list) = 0
    BY <1>1
<1>3. OpenLists(list, {})
    BY <1>2 DEF OpenLists
<1> QED
    BY <1>1, <1>3

\* A token goes to the end of its owner's list, or begins one.
LEMMA AddToLists ==
    ASSUME NEW list, NEW S \in SUBSET OwedType, NEW e \in OwedType,
           OpenLists(list, S), \A d \in S : Earlier(d, e)
    PROVE  OpenLists(AddTo(list, e.from, e.id), S \cup {e})
<1>1. list \in Seq([owner : Addr, ids : Seq(Ids)])
    BY DEF OpenLists
<1>2. PICK n \in Nat : n = Len(list) /\ DOMAIN list = 1 .. n
    BY <1>1, LenProperties
<1>3. PICK new : new = AddTo(list, e.from, e.id)
    OBVIOUS
<1>4. PICK all : all = S \cup {e}
    OBVIOUS
<1>5. /\ \A i \in 1 .. n : list[i].owner \in Addr /\ list[i].ids \in Seq(Ids)
      /\ e.id \in Ids /\ e.from \in Addr
    <2>1. ASSUME NEW i \in 1 .. n PROVE list[i].owner \in Addr /\ list[i].ids \in Seq(Ids)
        <3>1. list[i] \in [owner : Addr, ids : Seq(Ids)]
            BY <1>1, <1>2, ElementOfSeq
        <3> QED
            BY <3>1
    <2>2. e.id \in Ids /\ e.from \in Addr
        BY DEF OwedType
    <2> QED
        BY <2>1, <2>2
<1>6. /\ \A i, j \in 1 .. n : list[i].owner = list[j].owner => i = j
      /\ \A i \in 1 .. n :
            list[i].ids # <<>> /\ Lists(list[i].ids, {d \in S : d.from = list[i].owner})
      /\ \A d \in S : \E i \in 1 .. n : list[i].owner = d.from
    BY <1>2 DEF OpenLists
<1>7. CASE \E i \in 1 .. n : list[i].owner = e.from
    <2>1. new = [i \in 1 .. n |-> IF list[i].owner # e.from THEN list[i]
                    ELSE [owner |-> e.from, ids |-> Append(list[i].ids, e.id)]]
        BY <1>2, <1>3, <1>7 DEF AddTo
    <2>2. ASSUME NEW i \in 1 .. n
          PROVE  /\ new[i] \in [owner : Addr, ids : Seq(Ids)]
                 /\ new[i].owner = list[i].owner
                 /\ new[i].ids # <<>> /\ Lists(new[i].ids, {d \in all : d.from = new[i].owner})
        <3>1. CASE list[i].owner # e.from
            <4>1. new[i] = list[i]
                BY <2>1, <3>1
            <4>2. {d \in all : d.from = list[i].owner} = {d \in S : d.from = list[i].owner}
                BY <1>4, <3>1
            <4>3. list[i] \in [owner : Addr, ids : Seq(Ids)]
                BY <1>1, <1>2, ElementOfSeq
            <4> QED
                BY <1>6, <4>1, <4>2, <4>3
        <3>2. CASE list[i].owner = e.from
            <4>1. PICK T : T = {d \in S : d.from = e.from}
                OBVIOUS
            <4>2. PICK ids : ids = list[i].ids
                OBVIOUS
            <4>3. ids \in Seq(Ids) /\ T \in SUBSET OwedType /\ Lists(ids, T)
                  /\ \A d \in T : Earlier(d, e)
                <5>1. ids \in Seq(Ids)
                    BY <1>5, <4>2
                <5>2. Lists(ids, {d \in S : d.from = list[i].owner})
                    BY <1>6, <4>2
                <5> QED
                    BY <3>2, <4>1, <5>1, <5>2
            <4>4. Append(ids, e.id) \in Seq(Ids) /\ Lists(Append(ids, e.id), T \cup {e})
                BY <4>3, AddedLists
            <4>5. Append(ids, e.id) # <<>>
                BY <1>5, <4>3, AppendProperties
            <4>6. new[i] = [owner |-> e.from, ids |-> Append(ids, e.id)]
                BY <2>1, <3>2, <4>2
            <4>7. {d \in all : d.from = e.from} = T \cup {e}
                BY <1>4, <4>1
            <4> QED
                <5>1. new[i].owner = e.from /\ new[i].ids = Append(ids, e.id)
                    BY <4>6
                <5>2. new[i] \in [owner : Addr, ids : Seq(Ids)]
                    BY <1>5, <4>4, <4>6
                <5>3. Lists(new[i].ids, {d \in all : d.from = new[i].owner})
                    BY <4>4, <4>7, <5>1
                <5> QED
                    BY <3>2, <4>5, <5>1, <5>2, <5>3
        <3> QED
            BY <3>1, <3>2
    <2>3. new \in Seq([owner : Addr, ids : Seq(Ids)]) /\ Len(new) = n
        <3>1. new \in [1 .. n -> [owner : Addr, ids : Seq(Ids)]]
            BY <2>1, <2>2
        <3>2. new \in Seq([owner : Addr, ids : Seq(Ids)])
            <4>1. PICK X : X = [owner : Addr, ids : Seq(Ids)]
                OBVIOUS
            <4>2. new \in [1 .. n -> X]
                BY <3>1, <4>1
            <4>3. Seq(X) = UNION {[1 .. m -> X] : m \in Nat}
                BY SeqDef
            <4>4. new \in Seq(X)
                BY <4>2, <4>3, Zenon
            <4> QED
                BY <4>1, <4>4
        <3>3. DOMAIN new = 1 .. n
            BY <2>1
        <3> QED
            BY <3>2, <3>3
    <2>4. \A i, j \in 1 .. n : new[i].owner = new[j].owner => i = j
        BY <1>6, <2>2
    <2>5. \A d \in all : \E i \in 1 .. n : new[i].owner = d.from
        BY <1>4, <1>6, <1>7, <2>2
    <2>6. OpenLists(new, all)
        BY <2>2, <2>3, <2>4, <2>5 DEF OpenLists
    <2> QED
        BY <1>3, <1>4, <2>6
<1>8. CASE ~ \E i \in 1 .. n : list[i].owner = e.from
    <2>1. PICK entry : entry = [owner |-> e.from, ids |-> <<e.id>>]
        OBVIOUS
    <2>2. new = Append(list, entry)
        BY <1>2, <1>3, <1>8, <2>1 DEF AddTo
    <2>3. entry \in [owner : Addr, ids : Seq(Ids)]
        BY <1>5, <2>1
    <2>4. /\ new \in Seq([owner : Addr, ids : Seq(Ids)]) /\ Len(new) = n + 1
          /\ new[n + 1] = entry /\ \A i \in 1 .. n : new[i] = list[i]
        BY <1>1, <1>2, <2>2, <2>3, AppendProperties
    <2>5. ASSUME NEW i \in 1 .. n + 1
          PROVE  new[i].ids # <<>> /\ Lists(new[i].ids, {d \in all : d.from = new[i].owner})
        <3>1. CASE i \in 1 .. n
            <4>1. {d \in all : d.from = list[i].owner} = {d \in S : d.from = list[i].owner}
                BY <1>4, <1>8, <3>1
            <4> QED
                BY <1>6, <2>4, <3>1, <4>1
        <3>2. CASE i = n + 1
            <4>1. {d \in all : d.from = e.from} = {e}
                BY <1>4, <1>6, <1>8
            <4>2. PICK one : one = <<e.id>>
                OBVIOUS
            <4>3. one # <<>> /\ Len(one) = 1 /\ one[1] = e.id
                BY <4>2
            <4>4. InOrder(one, {e}, [k \in 1 .. 1 |-> e])
                BY <4>3 DEF InOrder
            <4>5. new[i].owner = e.from /\ new[i].ids = one
                BY <2>1, <2>4, <3>2, <4>2
            <4> QED
                BY <4>1, <4>3, <4>4, <4>5 DEF Lists
        <3> QED
            BY <3>1, <3>2
    <2>6. ASSUME NEW i \in 1 .. n + 1, NEW j \in 1 .. n + 1, new[i].owner = new[j].owner
          PROVE  i = j
        <3>1. /\ new[n + 1].owner = e.from
              /\ \A k \in 1 .. n : new[k].owner = list[k].owner /\ new[k].owner # e.from
            BY <1>8, <2>1, <2>4
        <3>2. CASE i = n + 1 \/ j = n + 1
            BY <2>6, <3>1, <3>2
        <3>3. CASE i \in 1 .. n /\ j \in 1 .. n
            BY <1>6, <2>6, <3>1, <3>3
        <3> QED
            BY <3>2, <3>3
    <2>7. \A d \in all : \E i \in 1 .. n + 1 : new[i].owner = d.from
        BY <1>4, <1>6, <2>1, <2>4
    <2>8. OpenLists(new, all)
        BY <2>4, <2>5, <2>6, <2>7 DEF OpenLists
    <2> QED
        BY <1>3, <1>4, <2>8
<1> QED
    BY <1>7, <1>8

\* The callbacks for one owner tell of that owner's tokens.
LEMMA OwnerTells ==
    ASSUME NEW batch, NEW entry \in [owner : Addr, ids : Seq(Ids)], NEW T \in SUBSET OwedType,
           entry.ids # <<>>, Lists(entry.ids, T), send.contract \in Addr, work.sender \in Addr,
           \A e \in T : e.from = entry.owner /\ e.to = send.contract /\ e.by = work.sender,
           \A e, d \in T : SameSend(e, d)
    PROVE  /\ OwnerCallbacks(batch, entry) \in Seq(CallbackType)
           /\ Tells(OwnerCallbacks(batch, entry), T)
<1>1. entry.owner \in Addr /\ entry.ids \in Seq(Ids) /\ None \notin Addr
    BY SnipAssumption
<1>2. CASE batch
    <2>1. PICK m : m = Callback(work.sender, entry.owner, entry.ids)
        OBVIOUS
    <2>2. /\ m.to = send.contract /\ m.sender = work.sender /\ m.from = entry.owner
          /\ m.ids = entry.ids /\ m \in CallbackType
        BY <1>1, <2>1 DEF Callback, CallbackType
    <2>3. m.ids # <<>> /\ Lists(m.ids, T) /\ m.sender # None
        BY <1>1, <2>2
    <2>4. \A e \in T : e.from = m.from /\ e.to = m.to /\ e.by = m.sender
        BY <2>2
    <2>5. <<m>> \in Seq(CallbackType) /\ Tells(<<m>>, T)
        BY <2>2, <2>3, <2>4, BatchTells
    <2> QED
        BY <1>2, <2>1, <2>5 DEF OwnerCallbacks
<1>3. CASE ~batch
    <2>1. PICK ids \in Seq(Ids) : ids = entry.ids
        BY <1>1
    <2>2. PICK n \in Nat : n = Len(ids) /\ DOMAIN ids = 1 .. n
        BY LenProperties
    <2>3. PICK q : q = OwnerCallbacks(batch, entry)
        OBVIOUS
    <2>4. q = [k \in 1 .. n |-> Callback(None, entry.owner, <<ids[k]>>)]
        BY <1>3, <2>1, <2>2, <2>3 DEF OwnerCallbacks
    <2>5. ASSUME NEW k \in 1 .. n
          PROVE  /\ q[k].ids = <<ids[k]>> /\ q[k].sender = None
                 /\ q[k].from = entry.owner /\ q[k].to = send.contract
                 /\ q[k] \in CallbackType
        <3>1. ids[k] \in Ids
            BY <2>2, ElementOfSeq
        <3>2. PICK one : one = <<ids[k]>>
            OBVIOUS
        <3>3. one \in Seq(Ids)
            BY <3>1, <3>2
        <3>4. q[k] = [to |-> send.contract, sender |-> None, from |-> entry.owner, ids |-> one]
            BY <2>4, <3>2 DEF Callback
        <3> QED
            BY <1>1, <3>2, <3>3, <3>4 DEF CallbackType
    <2>6. q \in Seq(CallbackType) /\ Len(q) = n
        <3>1. q \in [1 .. n -> CallbackType] /\ DOMAIN q = 1 .. n
            BY <2>4, <2>5
        <3>2. PICK X : X = CallbackType
            OBVIOUS
        <3>3. Seq(X) = UNION {[1 .. k -> X] : k \in Nat}
            BY SeqDef
        <3>4. q \in Seq(X)
            BY <3>1, <3>2, <3>3, Zenon
        <3> QED
            BY <3>1, <3>2, <3>4
    <2>7. Tells(q, T)
        <3>1. Len(q) = Len(ids) /\ Lists(ids, T)
            BY <2>1, <2>2, <2>6
        <3>2. \A i \in 1 .. Len(q) : q[i].ids = <<ids[i]>> /\ q[i].sender = None
            BY <2>5, <2>6
        <3>3. \A i \in 1 .. Len(q), e \in T : e.from = q[i].from /\ e.to = q[i].to
            BY <2>5, <2>6
        <3> QED
            BY <2>6, <3>1, <3>2, <3>3, OneByOneTells
    <2> QED
        BY <2>3, <2>6, <2>7
<1> QED
    BY <1>2, <1>3

(***************************************************************************)
(* The callbacks of a Send tell of its tokens: otherwise there is a least  *)
(* number of owners whose callbacks do not tell of theirs.                 *)
(***************************************************************************)
LEMMA CallbacksTell ==
    ASSUME NEW batch, NEW list, NEW S \in SUBSET OwedType, OpenLists(list, S),
           send.contract \in Addr, work.sender \in Addr,
           \A e \in S : e.to = send.contract /\ e.by = work.sender,
           \A e, d \in S : SameSend(e, d)
    PROVE  CallbacksFor(batch, list) \in Seq(CallbackType) /\ Tells(CallbacksFor(batch, list), S)
<1>1. list \in Seq([owner : Addr, ids : Seq(Ids)])
    BY DEF OpenLists
<1>2. PICK n \in Nat : n = Len(list)
    BY <1>1, LenProperties
<1>3. PICK all : /\ CallbacksFor(batch, list) = all[n]
                 /\ all[0] = <<>>
                 /\ \A i \in 1 .. n : all[i] = all[i - 1] \o OwnerCallbacks(batch, list[i])
    <2>1. \E all : OneAfterOther(CallbacksFor(batch, list), batch, list, n, all)
        BY <1>2, CallbacksUnfold
    <2> QED
        BY <2>1 DEF OneAfterOther
<1>4. /\ \A i, j \in 1 .. n : list[i].owner = list[j].owner => i = j
      /\ \A i \in 1 .. n :
            list[i].ids # <<>> /\ Lists(list[i].ids, {e \in S : e.from = list[i].owner})
      /\ \A e \in S : \E i \in 1 .. n : list[i].owner = e.from
    BY <1>2 DEF OpenLists
<1> DEFINE First(k) == {e \in S : \E i \in 1 .. k : list[i].owner = e.from}
           Good(k) == all[k] \in Seq(CallbackType) /\ Tells(all[k], First(k))
           Bad == {k \in 0 .. n : ~Good(k)}
<1>5. First(0) = {} /\ First(n) = S
    BY <1>4
<1>6. Good(0)
    BY <1>3, <1>5, NothingToTell, EmptySeq
<1>7. ASSUME NEW k \in 1 .. n, Good(k - 1) PROVE Good(k)
    <2>1. PICK T : T = {e \in S : e.from = list[k].owner}
        OBVIOUS
    <2>2. PICK r : r = OwnerCallbacks(batch, list[k])
        OBVIOUS
    <2>3. r \in Seq(CallbackType) /\ Tells(r, T)
        <3>1. PICK entry : entry = list[k]
            OBVIOUS
        <3>2. entry \in [owner : Addr, ids : Seq(Ids)]
            BY <1>1, <1>2, <3>1, ElementOfSeq
        <3>3. entry.ids # <<>> /\ Lists(entry.ids, T)
            BY <1>4, <2>1, <3>1
        <3>4. \A e \in T : e.from = entry.owner /\ e.to = send.contract /\ e.by = work.sender
            BY <2>1, <3>1
        <3>5. T \in SUBSET OwedType /\ \A e, d \in T : SameSend(e, d)
            BY <2>1
        <3> QED
            BY <2>2, <3>1, <3>2, <3>3, <3>4, <3>5, OwnerTells
    <2>4. PICK U : U = First(k - 1)
        OBVIOUS
    <2>5. PICK q : q = all[k - 1]
        OBVIOUS
    <2>6. q \in Seq(CallbackType) /\ Tells(q, U)
        BY <1>7, <2>4, <2>5
    <2>7. ASSUME NEW e \in U, NEW d \in T
          PROVE  ~Before(d, e) /\ ~(SameSend(e, d) /\ e.from = d.from)
        <3>1. SameSend(d, e)
            BY <2>1, <2>4, <2>7
        <3>2. d \in OwedType /\ e \in OwedType
            BY <2>1, <2>4, <2>7
        <3>3. ~Before(d, e)
            BY <3>1, <3>2 DEF Before, SameSend, OwedType
        <3>4. PICK i \in 1 .. k - 1 : list[i].owner = e.from
            BY <2>4, <2>7
        <3>5. e.from # d.from
            BY <1>4, <2>1, <2>7, <3>4
        <3> QED
            BY <3>3, <3>5
    <2>8. U \in SUBSET OwedType /\ T \in SUBSET OwedType
        BY <2>1, <2>4
    <2>9. q \o r \in Seq(CallbackType) /\ Tells(q \o r, U \cup T)
        BY <2>3, <2>6, <2>7, <2>8, JoinedTells
    <2>10. First(k) = U \cup T
        BY <2>1, <2>4
    <2>11. all[k] = q \o r
        BY <1>3, <2>2, <2>5
    <2> QED
        BY <2>9, <2>10, <2>11
<1>8. Bad = {}
    <2> SUFFICES ASSUME Bad # {} PROVE FALSE
        OBVIOUS
    <2>1. Bad \in SUBSET Nat
        OBVIOUS
    <2>2. PICK k \in Bad : \A j \in Bad : k <= j
        BY <2>1, LeastOf
    <2>3. k \in 0 .. n /\ ~Good(k)
        OBVIOUS
    <2>4. k \in 1 .. n
        <3>1. CASE k = 0
            BY <1>6, <2>3, <3>1, Zenon
        <3> QED
            BY <2>3, <3>1
    <2>5. k - 1 \in 0 .. n /\ ~(k <= k - 1)
        BY <2>4
    <2>6. k - 1 \notin Bad
        BY <2>2, <2>5, Zenon
    <2>7. Good(k - 1)
        BY <2>5, <2>6, Zenon
    <2> QED
        BY <1>7, <2>3, <2>4, <2>7, Zenon
<1>9. Good(n)
    <2>1. n \in 0 .. n
        OBVIOUS
    <2> QED
        BY <1>8, <2>1, Zenon
<1> QED
    BY <1>3, <1>5, <1>9

\* What is owed for a token comes to the end of its owner's list, whoever that is.
LEMMA AddToType ==
    ASSUME NEW list \in Seq([owner : Addr, ids : Seq(Ids)]), NEW owner \in Addr, NEW id \in Ids
    PROVE  AddTo(list, owner, id) \in Seq([owner : Addr, ids : Seq(Ids)])
<1>1. PICK n \in Nat : n = Len(list) /\ DOMAIN list = 1 .. n
    BY LenProperties
<1>2. PICK new : new = AddTo(list, owner, id)
    OBVIOUS
<1>3. PICK X : X = [owner : Addr, ids : Seq(Ids)]
    OBVIOUS
<1>4. CASE \E i \in 1 .. n : list[i].owner = owner
    <2>1. new = [i \in 1 .. n |-> IF list[i].owner # owner THEN list[i]
                    ELSE [owner |-> owner, ids |-> Append(list[i].ids, id)]]
        BY <1>1, <1>2, <1>4 DEF AddTo
    <2>2. ASSUME NEW i \in 1 .. n PROVE new[i] \in X
        <3>1. list[i] \in [owner : Addr, ids : Seq(Ids)]
            BY <1>1, ElementOfSeq
        <3>2. list[i].ids \in Seq(Ids)
            BY <3>1
        <3>3. Append(list[i].ids, id) \in Seq(Ids)
            BY <3>2, AppendProperties
        <3> QED
            BY <1>3, <2>1, <3>1, <3>3
    <2>3. new \in [1 .. n -> X]
        BY <2>1, <2>2
    <2>4. Seq(X) = UNION {[1 .. k -> X] : k \in Nat}
        BY SeqDef
    <2>5. new \in Seq(X)
        BY <2>3, <2>4, Zenon
    <2> QED
        BY <1>2, <1>3, <2>5
<1>5. CASE ~ \E i \in 1 .. n : list[i].owner = owner
    <2>1. PICK entry : entry = [owner |-> owner, ids |-> <<id>>]
        OBVIOUS
    <2>2. entry \in [owner : Addr, ids : Seq(Ids)]
        BY <2>1
    <2>3. new = Append(list, entry)
        BY <1>1, <1>2, <1>5, <2>1 DEF AddTo
    <2> QED
        BY <1>2, <2>2, <2>3, AppendProperties
<1> QED
    BY <1>4, <1>5

-----------------------------------------------------------------------------
(* What is owed is told of by the callbacks queued, collected or to be      *)
(* collected.                                                               *)

Sending == work # None /\ work.kind = "Send"

\* owed by the handler at work, and for the Send it is working on
Current == {e \in owed : Sending /\ e.calls = calls}
Open == {e \in Current : send # None /\ e.no = send.no}

TellTypes ==
    /\ owed \subseteq OwedType
    /\ messages \in Seq(CallbackType)
    /\ queue \in Seq(CallbackType)
    /\ calls \in Nat
    /\ send # None => send \in SendType

\* a handler at work is the only one, and has the registrations there are
OneHandler ==
    /\ Sending => caller = None
    /\ ~Sending => send = None /\ messages = <<>> /\ DOMAIN cached = {}
    /\ \A c \in DOMAIN cached : cached[c] = receivers[c]

\* handlers, Sends and tokens count down
CountedDown ==
    /\ \A e \in owed : e.calls >= calls /\ (caller # None => e.calls > calls)
    /\ \A e \in Current : e.no > work.left /\ e.left > work.left
    /\ send # None => send.no > work.left /\ \A e \in Current : e.no >= send.no

\* the tokens of the open Send are with the receiver
OpenIsListed ==
    /\ IF KnownOf(send).hash THEN OpenLists(send.from, Open) ELSE Open = {}
    /\ \A e \in Open :
          /\ e.to = send.contract /\ e.by = work.sender
          /\ Exists(idxOf[e.id]) /\ Owner(idxOf[e.id]) = send.contract

TellInv ==
    /\ TellTypes
    /\ OneHandler
    /\ Distinct
    /\ CountedDown
    /\ Tells(queue, owed \ Current)
    /\ Tells(messages, Current \ Open)
    /\ send # None => OpenIsListed

\* as it is between transactions, and in those that do not send
Quiet ==
    /\ owed = {} /\ queue = <<>> /\ messages = <<>> /\ send = None /\ DOMAIN cached = {}
    /\ calls \in Nat

\* When nothing is owed, no callback need tell of anything.
LEMMA QuietTells == Quiet /\ (Sending => caller = None) => TellInv
<1> SUFFICES ASSUME Quiet, Sending => caller = None PROVE TellInv
    OBVIOUS
<1>1. TellTypes
    BY EmptySeq DEF Quiet, TellTypes
<1>2. OneHandler /\ Distinct
    BY DEF Quiet, OneHandler, Distinct
<1>3. owed \ Current = {} /\ Current \ Open = {} /\ Current = {}
    BY DEF Quiet, Current
<1>4. Tells(queue, owed \ Current) /\ Tells(messages, Current \ Open)
    BY <1>3, NothingToTell DEF Quiet
<1>5. CountedDown
    BY <1>3 DEF CountedDown, Quiet
<1> QED
    BY <1>1, <1>2, <1>4, <1>5 DEF TellInv, Quiet

\* When no callback is queued and nothing is sent, nothing is owed.
LEMMA NotSendingIsQuiet == ASSUME TellInv, ~Sending, queue = <<>> PROVE Quiet
<1>1. Tells(<<>>, owed)
    <2>1. owed \ Current = owed
        BY DEF Current
    <2> QED
        BY <2>1 DEF TellInv
<1>2. owed = {}
    BY <1>1, NobodyTold
<1> QED
    BY <1>2 DEF TellInv, OneHandler, TellTypes, Quiet

\* Between transactions nothing is queued.
LEMMA BetweenIsQuiet == ASSUME SendInv, TellInv, undo = None PROVE Quiet /\ caller = None
<1>1. work = None /\ queue = <<>> /\ caller = None
    BY DEF SendInv, InTransaction
<1> QED
    BY <1>1, NotSendingIsQuiet DEF Sending

\* A message that sends begins with nothing owed.
LEMMA BeginSendTells == ASSUME SendInv, TellInv, NEW s \in Addr, BeginSend(s) PROVE TellInv'
<1>1. Quiet /\ caller = None
    BY BetweenIsQuiet DEF BeginSend
<1>2. Quiet' /\ (Sending => caller = None)'
    BY <1>1, SendAssumption DEF BeginSend, Quiet
<1> QED
    BY <1>2, QuietTells, PTL

\* A contract registers itself when no handler has cached what it registered.
LEMMA RegisterTells ==
    ASSUME SendInv, TellInv, NEW s, NEW registration, RegisterReceiveNft(s, registration)
    PROVE  TellInv'
<1>1. Quiet /\ caller = None
    BY BetweenIsQuiet DEF RegisterReceiveNft
<1>2. Quiet' /\ (Sending => caller = None)'
    BY <1>1 DEF RegisterReceiveNft, Quiet
<1> QED
    BY <1>2, QuietTells, PTL

\* Messages that do not send find nothing owed.
LEMMA OtherMessagesTell == ASSUME SendInv, TellInv, OtherMessages PROVE TellInv'
<1>1. UNCHANGED sendVars
    BY DEF OtherMessages
<1>2. ~Sending /\ queue = <<>> /\ caller = None
    <2>1. CASE work # None /\ work.kind # "Send"
        BY <2>1 DEF SendInv, Sending
    <2>2. CASE work = None /\ undo = None
        BY <2>2 DEF SendInv, Sending, InTransaction
    <2>3. Begin \/ BetweenMessages => work = None
        BY DEF Begin, BeginList, BeginMint, BeginClones, BetweenMessages
    <2>4. Item \/ Fails \/ Commit => work # None /\ work.kind # "Send"
        BY DEF Item, TransferItem, BurnItem, MintItem, CloneItem, Fails, TransferFails,
           BurnFails, MintFails, CloneFails, Commit, At
    <2> QED
        BY <2>1, <2>2, <2>3, <2>4 DEF OtherMessages
<1>3. Quiet
    BY <1>2, NotSendingIsQuiet
<1>4. Quiet' /\ (Sending => caller = None)'
    BY <1>1, <1>2, <1>3 DEF sendVars, Quiet
<1> QED
    BY <1>4, QuietTells, PTL

\* When a transaction is undone, nothing is owed for it.
LEMMA ForgetTells == ASSUME Forget, owed' = {} PROVE TellInv'
<1>1. Quiet' /\ (Sending => caller = None)'
    BY NothingIsHeld DEF Forget, Quiet
<1> QED
    BY <1>1, QuietTells, PTL

\* A transaction is committed when all has been told.
LEMMA CommitTxTells == ASSUME SendInv, TellInv, CommitTx PROVE TellInv'
<1>1. Quiet
    BY NotSendingIsQuiet DEF CommitTx, Settled, Sending
<1>2. Forget /\ owed' = {}
    BY <1>1 DEF CommitTx, Quiet
<1> QED
    BY <1>2, ForgetTells

\* The next Send of a message has the last place so far, and no tokens yet.
LEMMA OpenSendTells ==
    ASSUME SendInv, TellInv, NEW c \in SendTo, NEW info \in Supplied, OpenSend(c, info)
    PROVE  TellInv'
<1>1. /\ work # None /\ work.kind = "Send" /\ work.left > 0 /\ send = None /\ work \in Work
    BY DEF OpenSend, At, SendInv, BatchInv, Holding
<1>2. /\ work' = [work EXCEPT !.left = @ - 1]
      /\ send' = [contract |-> c, info |-> info, from |-> <<>>, no |-> work.left]
      /\ UNCHANGED <<snipVars, receivers, cached, messages, queue, caller, calls, owed>>
    BY DEF OpenSend
<1>3. /\ work' \in Work /\ work' # None /\ work'.kind = "Send" /\ work'.left = work.left - 1
      /\ work.left \in Nat /\ work'.left \in Nat
    BY <1>1, <1>2, BatchAssumption DEF Work
<1>4. Sending /\ Sending'
    BY <1>1, <1>3 DEF Sending
<1>5. Current' = Current
    BY <1>2, <1>4 DEF Current
<1>6. TellTypes /\ OneHandler /\ CountedDown /\ Distinct
    BY DEF TellInv
<1>7. \A e \in Current : e.no > work.left /\ e.left > work.left /\ e \in OwedType
    BY <1>6 DEF CountedDown, Current, TellTypes
<1>8. send' \in SendType /\ send' # None /\ send'.no = work.left /\ send'.from = <<>>
    <2>1. c \in Addr /\ info \in Registration \cup {None}
        BY SendAssumption
    <2>2. PICK none : none = <<>> /\ none \in Seq([owner : Addr, ids : Seq(Ids)])
        BY EmptySeq
    <2>3. send' = [contract |-> c, info |-> info, from |-> none, no |-> work.left]
        BY <1>2, <2>2
    <2>4. send' \in SendType
        BY <1>3, <2>1, <2>2, <2>3 DEF SendType
    <2> QED
        BY <2>2, <2>3, <2>4, SendAssumption
<1>9. Open = {} /\ Open' = {}
    <2>1. ASSUME NEW e \in Current PROVE e.no # work.left
        BY <1>3, <1>7 DEF OwedType
    <2>2. Open' = {e \in Current : e.no = send'.no}
        BY <1>5, <1>8 DEF Open
    <2> QED
        BY <1>1, <1>8, <2>1, <2>2 DEF Open
<1>10. TellTypes'
    BY <1>2, <1>6, <1>8 DEF TellTypes
<1>11. OneHandler'
    BY <1>2, <1>4, <1>6 DEF OneHandler
<1>12. CountedDown'
    <2>1. \A e \in owed' : e.calls >= calls' /\ (caller' # None => e.calls > calls')
        BY <1>2, <1>6 DEF CountedDown
    <2>2. ASSUME NEW e \in Current
          PROVE  e.no > work'.left /\ e.left > work'.left /\ e.no >= send'.no
        BY <1>3, <1>7, <1>8 DEF OwedType
    <2>3. send'.no > work'.left
        BY <1>3, <1>8
    <2> QED
        BY <1>5, <2>1, <2>2, <2>3 DEF CountedDown
<1>13. Distinct' /\ Tells(queue, owed \ Current)' /\ Tells(messages, Current \ Open)'
    <2>1. Distinct'
        BY <1>2, <1>6 DEF Distinct
    <2>2. /\ queue' = queue /\ messages' = messages /\ owed' \ Current' = owed \ Current
          /\ Current' \ Open' = Current \ Open
        BY <1>2, <1>5, <1>9
    <2> QED
        BY <2>1, <2>2 DEF TellInv
<1>14. OpenIsListed'
    <2>1. OpenLists(<<>>, {})
        BY EmptyLists
    <2>2. OpenLists(send.from, Open)'
        BY <1>8, <1>9, <2>1
    <2> QED
        BY <1>9, <2>2 DEF OpenIsListed
<1> QED
    BY <1>10, <1>11, <1>12, <1>13, <1>14 DEF TellInv

\* A token that is sent comes last among those of its Send, and nothing was
\* owed for it yet: those are with the receiver.
LEMMA SendItemTells ==
    ASSUME SendInv, TellInv, NEW id \in Ids, SendItem(id)
    PROVE  TellInv'
<1>1. PICK t : t = idxOf[id]
    OBVIOUS
<1>2. PICK to : to = send.contract
    OBVIOUS
<1>3. /\ work # None /\ work.kind = "Send" /\ work.left > 0 /\ send # None /\ work \in Work
      /\ TypeOK
    BY DEF SendItem, At, SendInv, BatchInv, Holding
<1>4. TellTypes /\ OneHandler /\ CountedDown /\ Distinct /\ OpenIsListed
    BY <1>3 DEF TellInv
<1>5. /\ Exists(t) /\ t \in Idx /\ Owner(t) # to /\ Owner(t) \in Addr
    BY <1>1, <1>2, <1>3, OwnerType DEF SendItem, CanTransfer
<1>6. /\ token' = [token EXCEPT ![t] = [owner |-> to, transferable |-> @.transferable]]
      /\ idxOf' = idxOf
      /\ send' = [send EXCEPT !.from = AddTo(@, Owner(t), id)]
      /\ UNCHANGED <<receivers, cached, messages, queue, caller, calls>>
    BY <1>1, <1>2 DEF SendItem, MoveItem
<1>7. /\ work'.kind = "Send" /\ work'.left = work.left - 1 /\ work'.sender = work.sender
      /\ work.left \in Nat /\ work.sender \in Addr /\ work' # None
    <2>1. /\ work'.kind = work.kind /\ work'.left = work.left - 1 /\ work'.sender = work.sender
        BY <1>1, <1>3 DEF SendItem, MoveItem, Work
    <2>2. MoveItem(t, to)
        BY <1>1, <1>2 DEF SendItem
    <2>3. to \in Addr
        BY <1>2, <1>3 DEF SendInv, SendTypes
    <2>4. work' \in Work
        BY <1>3, <1>5, <2>2, <2>3, MoveHeld
    <2> QED
        BY <1>3, <2>1, <2>4, BatchAssumption DEF Work
<1>8. Sending /\ Sending'
    BY <1>3, <1>7 DEF Sending
<1>9. /\ send \in SendType /\ send' \in SendType /\ send' # None
      /\ send'.contract = to /\ send'.info = send.info /\ send'.no = send.no
      /\ send'.from = AddTo(send.from, Owner(t), id) /\ to \in Addr /\ send.no \in Nat
    <2>1. send \in SendType
        BY <1>3, <1>4 DEF TellTypes
    <2>2. AddTo(send.from, Owner(t), id) \in Seq([owner : Addr, ids : Seq(Ids)])
        BY <1>5, <2>1, AddToType DEF SendType
    <2> QED
        BY <1>2, <1>6, <2>1, <2>2, SendAssumption DEF SendType
<1>10. KnownOf(send)' = KnownOf(send)
    BY <1>2, <1>6, <1>9 DEF KnownOf
<1>11. \A e \in Open : /\ e.to = to /\ e.by = work.sender
                       /\ Exists(idxOf[e.id]) /\ Owner(idxOf[e.id]) = to
    BY <1>2, <1>4 DEF OpenIsListed
<1>12. \A e \in Open : Exists(idxOf[e.id])' /\ Owner(idxOf[e.id])' = to
    <2>1. to \in Addr /\ token \in [Idx -> TokenInfo \cup {None}] /\ token[t] \in TokenInfo
        <3>1. token[t] \in TokenInfo
            BY <1>3, <1>5, OwnerType
        <3> QED
            BY <1>3, <1>9, <3>1 DEF TypeOK, TokenInfo
    <2>2. /\ token'[t].owner = to /\ token'[t] # None
          /\ \A i \in Idx : i # t => token'[i] = token[i]
        <3>1. token'[t] = [owner |-> to, transferable |-> token[t].transferable]
            BY <1>5, <1>6, <2>1
        <3>2. token'[t] \in [owner : Addr, transferable : BOOLEAN]
            BY <2>1, <3>1 DEF TokenInfo
        <3> QED
            BY <1>6, <2>1, <3>1, <3>2, SnipAssumption
    <2> QED
        BY <1>6, <1>11, <2>2 DEF Exists, Owner
<1>13. PICK new : new = OwedFor(id)
    OBVIOUS
<1>14. /\ new.id = id /\ new.from = Owner(t) /\ new.by = work.sender /\ new.to = to
       /\ new.calls = calls /\ new.no = send.no /\ new.left = work.left
       /\ new \in OwedType
    BY <1>1, <1>2, <1>4, <1>5, <1>7, <1>9, <1>13 DEF OwedFor, OwedType, TellTypes
<1>15. TellTypes' /\ OneHandler'
    <2>1. owed' \subseteq OwedType
        BY <1>4, <1>13, <1>14 DEF SendItem, TellTypes
    <2> QED
        BY <1>4, <1>6, <1>8, <1>9, <2>1 DEF TellTypes, OneHandler
<1>16. CASE ~KnownOf(send).hash
    <2>1. owed' = owed
        BY <1>16 DEF SendItem
    <2>2. Current' = Current /\ Open' = Open /\ Open = {}
        BY <1>3, <1>4, <1>6, <1>8, <1>9, <1>16, <2>1 DEF Current, Open, OpenIsListed
    <2>3. CountedDown'
        <3>1. \A e \in owed' : e.calls >= calls' /\ (caller' # None => e.calls > calls')
            BY <1>4, <1>6, <2>1 DEF CountedDown
        <3>2. ASSUME NEW e \in Current
              PROVE  e.no > work'.left /\ e.left > work'.left /\ e.no >= send'.no
            <4>1. e.no > work.left /\ e.left > work.left /\ e.no >= send.no /\ e \in OwedType
                BY <1>3, <1>4, <3>2 DEF CountedDown, Current, TellTypes
            <4> QED
                BY <1>7, <1>9, <4>1 DEF OwedType
        <3>3. send'.no > work'.left
            BY <1>3, <1>4, <1>7, <1>9 DEF CountedDown
        <3> QED
            BY <2>2, <3>1, <3>2, <3>3 DEF CountedDown
    <2>4. Distinct' /\ Tells(queue, owed \ Current)' /\ Tells(messages, Current \ Open)'
        <3>1. /\ queue' = queue /\ messages' = messages /\ owed' \ Current' = owed \ Current
              /\ Current' \ Open' = Current \ Open
            BY <1>6, <2>1, <2>2
        <3> QED
            BY <1>4, <2>1, <3>1 DEF TellInv, Distinct
    <2>5. OpenIsListed'
        BY <1>10, <1>16, <2>2 DEF OpenIsListed
    <2> QED
        BY <1>15, <2>3, <2>4, <2>5 DEF TellInv
<1>17. CASE KnownOf(send).hash
    <2>1. owed' = owed \cup {new}
        BY <1>13, <1>17 DEF SendItem
    <2>2. Current' = Current \cup {new} /\ Open' = Open \cup {new}
        BY <1>3, <1>6, <1>8, <1>9, <1>14, <2>1 DEF Current, Open
    <2>3. ASSUME NEW e \in Current
          PROVE  e \in owed /\ e.no > work.left /\ e.left > work.left /\ e.no >= send.no
                 /\ e \in OwedType
        BY <1>3, <1>4, <2>3 DEF CountedDown, Current, TellTypes
    <2>4. CountedDown'
        <3>1. ASSUME NEW e \in owed'
              PROVE  e.calls >= calls' /\ (caller' # None => e.calls > calls')
            <4>1. caller' = None
                BY <1>4, <1>6, <1>8 DEF OneHandler
            <4>2. CASE e \in owed
                BY <1>4, <1>6, <4>1, <4>2 DEF CountedDown
            <4>3. CASE e = new
                BY <1>4, <1>6, <1>14, <4>1, <4>3 DEF TellTypes
            <4> QED
                BY <2>1, <4>2, <4>3
        <3>2. ASSUME NEW e \in Current'
              PROVE  e.no > work'.left /\ e.left > work'.left /\ e.no >= send'.no
            <4>1. CASE e \in Current
                BY <1>7, <1>9, <2>3, <4>1 DEF OwedType
            <4>2. CASE e = new
                <5>1. send.no > work.left
                    BY <1>3, <1>4 DEF CountedDown
                <5> QED
                    BY <1>7, <1>9, <1>14, <4>2, <5>1
            <4> QED
                BY <2>2, <4>1, <4>2
        <3>3. send'.no > work'.left
            BY <1>3, <1>4, <1>7, <1>9 DEF CountedDown
        <3> QED
            BY <3>1, <3>2, <3>3 DEF CountedDown
    <2>5. Distinct'
        <3>1. ASSUME NEW e \in owed, SameSend(e, new)
              PROVE  e.id # new.id /\ e.left # new.left
            <4>1. e \in Current /\ e \in Open
                BY <1>3, <1>8, <1>14, <3>1 DEF SameSend, Current, Open
            <4>2. e.id # id
                BY <1>1, <1>5, <1>11, <4>1
            <4>3. e.left > work.left /\ e.left \in Nat
                BY <2>3, <4>1 DEF OwedType
            <4> QED
                BY <1>7, <1>14, <4>2, <4>3
        <3>2. ASSUME NEW e \in owed', NEW d \in owed', SameSend(e, d),
                     e.id = d.id \/ e.left = d.left
              PROVE  e = d
            <4>1. CASE e \in owed /\ d \in owed
                BY <1>4, <3>2, <4>1 DEF Distinct
            <4>2. CASE e \in owed /\ d = new
                BY <3>1, <3>2, <4>2
            <4>3. CASE e = new /\ d \in owed
                <5>1. SameSend(d, new)
                    BY <3>2, <4>3 DEF SameSend
                <5> QED
                    BY <3>1, <3>2, <4>3, <5>1
            <4> QED
                BY <2>1, <4>1, <4>2, <4>3
        <3> QED
            BY <3>2 DEF Distinct
    <2>6. Tells(queue, owed \ Current)' /\ Tells(messages, Current \ Open)'
        <3>1. owed' \ Current' = owed \ Current
            BY <1>8, <1>14, <2>1, <2>2 DEF Current
        <3>2. Current' \ Open' = Current \ Open
            BY <1>3, <1>14, <2>2 DEF Open
        <3>3. queue' = queue /\ messages' = messages
            BY <1>6
        <3> QED
            BY <3>1, <3>2, <3>3 DEF TellInv
    <2>7. OpenIsListed'
        <3>1. OpenLists(send.from, Open)
            BY <1>4, <1>17 DEF OpenIsListed
        <3>2. Open \in SUBSET OwedType /\ \A d \in Open : Earlier(d, new)
            BY <1>14, <2>3 DEF Open, Earlier
        <3>3. OpenLists(AddTo(send.from, new.from, new.id), Open \cup {new})
            BY <1>14, <3>1, <3>2, AddToLists
        <3>4. OpenLists(send.from, Open)'
            BY <1>9, <1>14, <2>2, <3>3
        <3>5. ASSUME NEW e \in Open'
              PROVE  /\ e.to = to /\ e.by = work'.sender
                     /\ Exists(idxOf[e.id])' /\ Owner(idxOf[e.id])' = to
            <4>1. CASE e \in Open
                BY <1>7, <1>11, <1>12, <4>1
            <4>2. CASE e = new
                <5>1. e.to = to /\ e.by = work'.sender /\ idxOf'[e.id] = t
                    BY <1>1, <1>6, <1>7, <1>14, <4>2
                <5>2. token'[t] = [owner |-> to, transferable |-> token[t].transferable]
                    BY <1>3, <1>5, <1>6 DEF TypeOK
                <5>3. token'[t] \in [owner : Addr, transferable : BOOLEAN]
                    BY <1>3, <1>5, <1>9, <5>2, OwnerType DEF TokenInfo
                <5> QED
                    BY <1>5, <5>1, <5>2, <5>3, SnipAssumption DEF Exists, Owner
            <4> QED
                BY <2>2, <4>1, <4>2
        <3> QED
            BY <1>9, <1>10, <1>17, <3>4, <3>5 DEF OpenIsListed
    <2> QED
        BY <1>15, <2>4, <2>5, <2>6, <2>7 DEF TellInv
<1> QED
    BY <1>16, <1>17

\* The callbacks of a Send go after those of the Sends before it.
LEMMA CloseSendTells == ASSUME SendInv, TellInv, CloseSend PROVE TellInv'
<1>1. /\ send # None /\ UNCHANGED vars /\ UNCHANGED <<receivers, queue, caller, calls, owed>>
      /\ messages' = messages \o ReceiverCallbackMsgs /\ cached' = CachedAfter /\ send' = None
    BY DEF CloseSend, Collected
<1>2. UNCHANGED <<work, token, idxOf>>
    BY <1>1 DEF vars, batchVars, snipVars, ledgerVars
<1>3. TellTypes /\ OneHandler /\ CountedDown /\ Distinct /\ OpenIsListed
    BY <1>1 DEF TellInv
<1>4. Sending /\ Sending' /\ work \in Work
    BY <1>1, <1>2, <1>3 DEF OneHandler, Sending, SendInv, BatchInv, Holding
<1>5. Current' = Current /\ Open' = {}
    BY <1>1, <1>2, <1>4 DEF Current, Open
<1>6. send \in SendType /\ send.contract \in Addr /\ send.no \in Nat /\ work.sender \in Addr
    BY <1>1, <1>3, <1>4 DEF TellTypes, SendType, Work
<1>7. RegistrationOf = KnownOf(send)
    BY <1>3 DEF RegistrationOf, KnownOf, OneHandler
<1>8. Open \in SUBSET OwedType /\ Current \ Open \in SUBSET OwedType
    BY <1>3 DEF Open, Current, TellTypes
<1>9. \A e, d \in Open : SameSend(e, d)
    BY DEF SameSend, Open, Current
<1>10. PICK r : r = ReceiverCallbackMsgs
    OBVIOUS
<1>11. r \in Seq(CallbackType) /\ Tells(r, Open)
    <2>1. CASE KnownOf(send).hash
        <3>1. OpenLists(send.from, Open)
            BY <1>3, <2>1 DEF OpenIsListed
        <3>2. \A e \in Open : e.to = send.contract /\ e.by = work.sender
            BY <1>3 DEF OpenIsListed
        <3>3. PICK batch : batch = KnownOf(send).batch
            OBVIOUS
        <3>4. PICK list : list = send.from
            OBVIOUS
        <3>5. PICK S \in SUBSET OwedType : S = Open
            BY <1>8
        <3>6. /\ CallbacksFor(batch, list) \in Seq(CallbackType)
              /\ Tells(CallbacksFor(batch, list), S)
            <4>1. OpenLists(list, S)
                BY <3>1, <3>4, <3>5
            <4>2. /\ \A e \in S : e.to = send.contract /\ e.by = work.sender
                  /\ \A e, d \in S : SameSend(e, d)
                BY <1>9, <3>2, <3>5
            <4> QED
                BY <1>6, <4>1, <4>2, CallbacksTell
        <3>7. r = CallbacksFor(batch, list)
            BY <1>7, <1>10, <2>1, <3>3, <3>4 DEF ReceiverCallbackMsgs
        <3> QED
            BY <3>5, <3>6, <3>7
    <2>2. CASE ~KnownOf(send).hash
        <3>1. r = <<>> /\ Open = {}
            BY <1>3, <1>7, <1>10, <2>2 DEF ReceiverCallbackMsgs, OpenIsListed
        <3> QED
            BY <3>1, NothingToTell, EmptySeq
    <2> QED
        BY <2>1, <2>2
<1>12. ASSUME NEW e \in Current \ Open, NEW d \in Open
       PROVE  ~Before(d, e) /\ ~(SameSend(e, d) /\ e.from = d.from)
    <2>1. e.calls = d.calls /\ d.no = send.no /\ e.no # send.no
        BY <1>1, <1>12 DEF Open, Current
    <2>2. e.no >= send.no /\ e.no \in Nat /\ d.no \in Nat /\ e.calls \in Nat /\ d.calls \in Nat
        BY <1>1, <1>3, <1>8, <1>12 DEF CountedDown, OwedType
    <2> QED
        BY <2>1, <2>2 DEF Before, SameSend
<1>13. messages' \in Seq(CallbackType) /\ Tells(messages', Current)
    <2>1. PICK q : q = messages /\ q \in Seq(CallbackType) /\ Tells(q, Current \ Open)
        BY <1>3 DEF TellInv, TellTypes
    <2>2. PICK S : S = Current \ Open
        OBVIOUS
    <2>3. PICK T : T = Open
        OBVIOUS
    <2>4. q \o r \in Seq(CallbackType) /\ Tells(q \o r, S \cup T)
        <3>1. S \in SUBSET OwedType /\ T \in SUBSET OwedType
            BY <1>8, <2>2, <2>3
        <3>2. Tells(q, S) /\ Tells(r, T)
            BY <1>11, <2>1, <2>2, <2>3
        <3>3. \A e \in S, d \in T : ~Before(d, e) /\ ~(SameSend(e, d) /\ e.from = d.from)
            BY <1>12, <2>2, <2>3
        <3> QED
            BY <1>11, <2>1, <3>1, <3>2, <3>3, JoinedTells
    <2>5. S \cup T = Current
        BY <2>2, <2>3 DEF Open
    <2> QED
        BY <1>1, <1>10, <2>1, <2>4, <2>5
<1>14. TellTypes'
    BY <1>1, <1>3, <1>13 DEF TellTypes
<1>15. OneHandler'
    <2>1. ASSUME NEW c \in DOMAIN cached' PROVE cached'[c] = receivers[c]
        <3>1. CASE cached' = cached
            BY <1>3, <2>1, <3>1 DEF OneHandler
        <3>2. CASE cached' = Put(cached, send.contract, receivers[send.contract])
            BY <1>3, <2>1, <3>2 DEF OneHandler, Put
        <3> QED
            BY <1>1, <3>1, <3>2 DEF CachedAfter
    <2> QED
        BY <1>1, <1>3, <1>4, <2>1 DEF OneHandler
<1>16. CountedDown' /\ Distinct'
    BY <1>1, <1>2, <1>3, <1>5 DEF CountedDown, Distinct
<1>17. Tells(queue, owed \ Current)' /\ Tells(messages, Current \ Open)'
    <2>1. queue' = queue /\ owed' \ Current' = owed \ Current /\ Current' \ Open' = Current
        BY <1>1, <1>5
    <2> QED
        BY <1>13, <2>1 DEF TellInv
<1> QED
    BY <1>1, <1>14, <1>15, <1>16, <1>17 DEF TellInv

\* The chain puts the callbacks of the handler before those that wait.
LEMMA CommitSendTells == ASSUME SendInv, TellInv, CommitSend PROVE TellInv'
<1>1. /\ work # None /\ work.kind = "Send" /\ send = None /\ work' = None
      /\ queue' = messages \o queue /\ messages' = <<>> /\ cached' = NothingHeld
      /\ UNCHANGED <<receivers, send, caller, calls, owed>>
    BY DEF CommitSend, WriteBack, Queued
<1>2. TellTypes /\ OneHandler /\ CountedDown /\ Distinct
    BY DEF TellInv
<1>3. Sending /\ ~Sending' /\ caller = None
    BY <1>1, <1>2 DEF Sending, OneHandler
<1>4. Open = {} /\ Current' = {} /\ Open' = {}
    BY <1>1, <1>3 DEF Open, Current
<1>5. ASSUME NEW e \in Current, NEW d \in owed \ Current
      PROVE  ~Before(d, e) /\ ~(SameSend(e, d) /\ e.from = d.from)
    <2>1. e.calls = calls /\ d.calls # calls
        BY <1>3, <1>5 DEF Current
    <2>2. d.calls >= calls /\ d.calls \in Nat /\ calls \in Nat
        BY <1>2, <1>5 DEF CountedDown, TellTypes, OwedType
    <2> QED
        BY <2>1, <2>2 DEF Before, SameSend
<1>6. queue' \in Seq(CallbackType) /\ Tells(queue', owed)
    <2>1. PICK q : q = messages /\ q \in Seq(CallbackType) /\ Tells(q, Current \ Open)
        BY <1>2 DEF TellInv, TellTypes
    <2>2. PICK r : r = queue /\ r \in Seq(CallbackType) /\ Tells(r, owed \ Current)
        BY <1>2 DEF TellInv, TellTypes
    <2>3. PICK S : S = Current
        OBVIOUS
    <2>4. PICK T : T = owed \ Current
        OBVIOUS
    <2>5. q \o r \in Seq(CallbackType) /\ Tells(q \o r, S \cup T)
        <3>1. S \in SUBSET OwedType /\ T \in SUBSET OwedType
            BY <1>2, <2>3, <2>4 DEF TellTypes, Current
        <3>2. Tells(q, S) /\ Tells(r, T)
            <4>1. Current \ Open = S
                BY <1>4, <2>3
            <4> QED
                BY <2>1, <2>2, <2>4, <4>1
        <3>3. \A e \in S, d \in T : ~Before(d, e) /\ ~(SameSend(e, d) /\ e.from = d.from)
            BY <1>5, <2>3, <2>4
        <3> QED
            BY <2>1, <2>2, <3>1, <3>2, <3>3, JoinedTells
    <2>6. S \cup T = owed
        BY <2>3, <2>4 DEF Current
    <2> QED
        BY <1>1, <2>1, <2>2, <2>5, <2>6
<1>7. TellTypes'
    BY <1>1, <1>2, <1>6, EmptySeq DEF TellTypes
<1>8. OneHandler'
    BY <1>1, <1>3, NothingIsHeld DEF OneHandler
<1>9. Distinct' /\ CountedDown'
    BY <1>1, <1>2, <1>4 DEF Distinct, CountedDown
<1>10. Tells(queue, owed \ Current)' /\ Tells(messages, Current \ Open)'
    <2>1. owed' \ Current' = owed /\ Current' \ Open' = {}
        BY <1>1, <1>4
    <2> QED
        BY <1>1, <1>6, <2>1, NothingToTell
<1> QED
    BY <1>1, <1>7, <1>8, <1>9, <1>10 DEF TellInv

\* What is delivered is told as it should be, and the rest still tells of the rest.
LEMMA DeliverTells == ASSUME SendInv, TellInv, Deliver PROVE ToldInOrder(Head(queue)) /\ TellInv'
<1>1. /\ work = None /\ caller = None /\ queue # <<>> /\ queue' = Tail(queue)
      /\ owed' = {e \in owed : ~IsTold(Head(queue), e)}
      /\ \/ UNCHANGED <<calls, caller>>
         \/ calls > 0 /\ calls' = calls - 1
      /\ UNCHANGED vars /\ UNCHANGED <<receivers, send, cached, messages>>
    BY DEF Deliver, ReceiverIsNext
<1>2. work' = None
    BY <1>1 DEF vars, batchVars
<1>3. TellTypes /\ OneHandler /\ CountedDown /\ Distinct
    BY DEF TellInv
<1>4. ~Sending /\ ~Sending' /\ Current = {} /\ Current' = {} /\ Open' = {}
    BY <1>1, <1>2 DEF Sending, Current, Open
<1>5. Tells(queue, owed)
    <2>1. owed \ Current = owed
        BY <1>4
    <2> QED
        BY <2>1 DEF TellInv
<1>6. ToldInOrder(Head(queue)) /\ Tells(Tail(queue), owed')
    BY <1>1, <1>3, <1>5, FirstTold DEF TellTypes
<1>7. send = None /\ send' = None /\ messages' = <<>> /\ DOMAIN cached' = {}
    BY <1>1, <1>3, <1>4 DEF OneHandler
<1>8. TellTypes'
    <2>1. Tail(queue) \in Seq(CallbackType)
        BY <1>1, <1>3, HeadTailProperties DEF TellTypes
    <2>2. calls' \in Nat
        BY <1>1, <1>3 DEF TellTypes
    <2> QED
        BY <1>1, <1>3, <1>7, <2>1, <2>2 DEF TellTypes
<1>9. OneHandler'
    BY <1>4, <1>7 DEF OneHandler
<1>10. CountedDown'
    <2>1. ASSUME NEW e \in owed'
          PROVE  e.calls >= calls' /\ (caller' # None => e.calls > calls')
        <3>1. e.calls >= calls /\ e.calls \in Nat /\ calls \in Nat
            BY <1>1, <1>3, <2>1 DEF CountedDown, TellTypes, OwedType
        <3> QED
            BY <1>1, <3>1
    <2> QED
        BY <1>4, <1>7, <2>1 DEF CountedDown
<1>11. Distinct'
    BY <1>1, <1>3 DEF Distinct
<1>12. Tells(queue, owed \ Current)' /\ Tells(messages, Current \ Open)'
    <2>1. owed' \ Current' = owed' /\ Current' \ Open' = {}
        BY <1>4
    <2> QED
        BY <1>1, <1>6, <1>7, <2>1, NothingToTell
<1> QED
    BY <1>6, <1>7, <1>8, <1>9, <1>10, <1>11, <1>12 DEF TellInv

\* A handler that a receiver calls owes nothing yet.
LEMMA CallBackTells == ASSUME SendInv, TellInv, CallBack PROVE TellInv'
<1>1. /\ work = None /\ caller # None /\ caller' = None
      /\ UNCHANGED <<receivers, send, cached, messages, queue, calls, owed>>
    BY DEF CallBack
<1>2. TellTypes /\ OneHandler /\ CountedDown /\ Distinct
    BY DEF TellInv
<1>3. ~Sending
    BY <1>1 DEF Sending
<1>4. Current = {} /\ Current' = {} /\ Open' = {}
    <2>1. ASSUME NEW e \in owed PROVE e.calls # calls
        BY <1>1, <1>2, <2>1 DEF CountedDown, TellTypes, OwedType
    <2> QED
        BY <1>1, <1>3, <2>1 DEF Current, Open
<1>5. send' = None /\ messages' = <<>> /\ DOMAIN cached' = {}
    BY <1>1, <1>2, <1>3 DEF OneHandler
<1>6. TellTypes' /\ OneHandler' /\ Distinct'
    BY <1>1, <1>2, <1>5 DEF TellTypes, OneHandler, Distinct
<1>7. CountedDown'
    BY <1>1, <1>2, <1>4, <1>5 DEF CountedDown
<1>8. Tells(queue, owed \ Current)' /\ Tells(messages, Current \ Open)'
    <2>1. owed' \ Current' = owed \ Current /\ Current' \ Open' = {}
        BY <1>1, <1>4
    <2> QED
        BY <1>1, <1>5, <2>1, NothingToTell DEF TellInv
<1> QED
    BY <1>5, <1>6, <1>7, <1>8 DEF TellInv

\* Stuttering changes nothing.
LEMMA UnchangedTells == ASSUME TellInv, UNCHANGED allVars PROVE TellInv'
<1>1. /\ UNCHANGED <<work, token, idxOf>>
      /\ UNCHANGED <<receivers, send, cached, messages, queue, caller, calls, owed>>
    BY DEF allVars, sendVars, vars, batchVars, snipVars, ledgerVars
<1>2. Current' = Current /\ Open' = Open
    BY <1>1 DEF Current, Open, Sending
<1>3. TellTypes' /\ OneHandler' /\ CountedDown' /\ Distinct'
    BY <1>1, <1>2 DEF TellInv, TellTypes, OneHandler, CountedDown, Distinct, Sending
<1>4. send # None => OpenIsListed'
    BY <1>1, <1>2 DEF TellInv, OpenIsListed, KnownOf, Exists, Owner
<1>5. Tells(queue, owed \ Current)' /\ Tells(messages, Current \ Open)'
    BY <1>1, <1>2 DEF TellInv
<1> QED
    BY <1>1, <1>3, <1>4, <1>5 DEF TellInv

\* Every step keeps TellInv: one case per kind of action.
LEMMA SendsNextTells == SendInv /\ TellInv /\ [SendsNext]_allVars => TellInv'
<1> SUFFICES ASSUME SendInv, TellInv, [SendsNext]_allVars PROVE TellInv'
    OBVIOUS
<1>1. CASE \E s \in Addr : BeginSend(s)
    BY <1>1, BeginSendTells
<1>2. CASE \E r \in Registered : RegisterReceiveNft(r[1], r[2])
    BY <1>2, RegisterTells
<1>3. CASE TxStep
    <2>1. CASE \E c \in SendTo, info \in Supplied : OpenSend(c, info)
        BY <2>1, OpenSendTells
    <2>2. CASE \E id \in Ids : SendItem(id)
        BY <2>2, SendItemTells
    <2>3. CASE \E id \in Ids : SendFails(id)
        BY <2>3, ForgetTells DEF SendFails
    <2>4. CASE ReceiverFails
        BY <2>4, ForgetTells DEF ReceiverFails
    <2> QED
        BY <1>3, <2>1, <2>2, <2>3, <2>4, CloseSendTells, CommitSendTells, DeliverTells,
           CallBackTells, CommitTxTells DEF TxStep
<1>4. CASE OtherMessages
    BY <1>4, OtherMessagesTell
<1>5. CASE UNCHANGED allVars
    BY <1>5, UnchangedTells
<1> QED
    BY <1>1, <1>2, <1>3, <1>4, <1>5 DEF SendsNext

\* TellInv holds in every state of a run with sends.
LEMMA TellInvCorrect == SendsSpec => []TellInv
<1>1. SendsInit => TellInv
    <2> SUFFICES ASSUME SendsInit PROVE TellInv
        OBVIOUS
    <2>1. Quiet /\ (Sending => caller = None)
        BY NothingIsHeld DEF SendsInit, Quiet
    <2> QED
        BY <2>1, QuietTells
<1> QED
    BY <1>1, SendInvCorrect, SendsNextTells, PTL DEF SendsSpec

(***************************************************************************)
(* A callback that is delivered is about the Send whose turn it is, names  *)
(* the tokens' previous owner, and lists that owner's tokens in the order  *)
(* of the message: all of them, or the next one.                           *)
(***************************************************************************)
THEOREM TellsCorrect == SendsSpec => TellsInOrder
<1> DEFINE Told ==
        Deliver =>
          LET m == Head(queue)
              tokens == OwedBy(m.from)
          IN  \E told \in [DOMAIN m.ids -> tokens] :
                /\ m.ids # <<>>
                /\ \A i \in DOMAIN m.ids : told[i].id = m.ids[i] /\ told[i].to = m.to
                /\ \A i, j \in DOMAIN m.ids : i < j => Earlier(told[i], told[j])
                /\ \A e \in tokens : (\E i \in DOMAIN m.ids : told[i] = e)
                                   \/ \A i \in DOMAIN m.ids : Earlier(told[i], e)
                /\ IF m.sender = None THEN Len(m.ids) = 1
                   ELSE \A e \in tokens : e.by = m.sender /\ \E i \in DOMAIN m.ids : told[i] = e
<1>1. SendInv /\ TellInv => Told
    BY DeliverTells DEF ToldInOrder
<1> HIDE DEF Told
<1>2. SendInv /\ TellInv /\ [SendsNext]_allVars => [Told]_allVars
    BY <1>1
<1>3. SendsSpec => [][Told]_allVars
    BY <1>2, SendInvCorrect, TellInvCorrect, PTL DEF SendsSpec
<1> QED
    BY <1>3 DEF Told, TellsInOrder
-----------------------------------------------------------------------------
(* A Send is its items one by one.                                          *)

\* Opening a Send changes nothing in the ledger as the handler sees it.
LEMMA OpenIsSilent ==
    ASSUME SendInv, NEW c, NEW info, OpenSend(c, info)
    PROVE  UNCHANGED View!snipVars
<1>1. work # None /\ work \in Work
    BY DEF OpenSend, At, SendInv, BatchInv, Holding
<1>2. work' = [work EXCEPT !.left = @ - 1] /\ UNCHANGED snipVars
    BY DEF OpenSend
<1>3. work' \in Work /\ work'.invs = work.invs /\ work'.removed = work.removed
    <2>1. work.left \in Nat /\ work.left > 0
        BY <1>1 DEF OpenSend, At, Work
    <2> QED
        BY <1>1, <1>2, <2>1 DEF Work
<1>4. work' # None /\ UNCHANGED <<inventory, authList>>
    BY <1>2, <1>3, BatchAssumption DEF snipVars, ledgerVars, permVars
<1>5. \A a : Inv(a)' = Inv(a) /\ Lost(a)' = Lost(a)
    BY <1>1, <1>3, <1>4 DEF Inv, Lost
<1>6. WrittenInventory' = WrittenInventory /\ WrittenAuthList' = WrittenAuthList
    BY <1>4, <1>5 DEF WrittenInventory, WrittenAuthList
<1> QED
    BY <1>2, <1>6 DEF View!snipVars, View!configVars, View!ledgerVars, View!permVars,
       snipVars, configVars, ledgerVars, permVars

(***************************************************************************)
(* Sending a list is transferring its tokens one by one, also from within  *)
(* the callback of a receiver: each step of a handler does to the ledger   *)
(* what the message for one token does, or nothing, or undoes it all.      *)
(***************************************************************************)
THEOREM SendListCorrect == SendsSpec => ListIsOneByOne
<1> DEFINE OneMessage ==
              \/ UNCHANGED View!snipVars
              \/ \E id \in Ids, to \in Addr : View!TransferNft(work.sender, id, to)
              \/ \E id \in Ids : View!BurnNft(work.sender, id)
              \/ \E given \in MaybeId, new \in [owner : Addr, transferable : BOOLEAN] :
                     View!Mint(work.sender, given, new)
<1>1. SendInv /\ [SendsNext]_allVars => [work # None /\ ~RollBack => OneMessage]_vars
    <2> SUFFICES ASSUME SendInv, SendsNext, work # None, ~RollBack, ~UNCHANGED vars
                 PROVE  OneMessage
        BY DEF allVars
    <2>1. BatchInv
        BY DEF SendInv
    <2>2. CASE \E s \in Addr : BeginSend(s)
        BY <2>2 DEF BeginSend, BeginList
    <2>3. CASE \E r \in Registered : RegisterReceiveNft(r[1], r[2])
        BY <2>3 DEF RegisterReceiveNft
    <2>4. CASE OtherMessages
        <3>1. ~Begin
            BY DEF Begin, BeginMint, BeginList, BeginClones
        <3>2. ~BetweenMessages
            BY DEF BetweenMessages
        <3>3. ~Fails
            BY FailsRollsBack
        <3> QED
            BY <2>1, <2>4, <3>1, <3>2, <3>3, ItemIsMessage, WriteIsSilent
            DEF OtherMessages, Commit
    <2>5. CASE TxStep
        <3>1. CASE \E c \in SendTo, info \in Supplied : OpenSend(c, info)
            BY <3>1, OpenIsSilent
        <3>2. CASE \E id \in Ids : SendItem(id)
            <4>1. PICK id \in Ids : SendItem(id)
                BY <3>2
            <4>2. PICK to : to = send.contract
                OBVIOUS
            <4>3. /\ work # None /\ work.left > 0 /\ send # None
                  /\ CanTransfer(id, to) /\ MoveItem(idxOf[id], to)
                BY <4>1, <4>2 DEF SendItem, At
            <4>4. to \in Addr
                BY <4>2, <4>3 DEF SendInv, SendTypes
            <4> QED
                BY <2>1, <4>3, <4>4, MoveIsTransfer
        <3>3. CASE \E id \in Ids : SendFails(id)
            BY <3>3 DEF SendFails
        <3>4. CASE CommitSend
            BY <2>1, <3>4, WriteIsSilent DEF CommitSend
        <3>5. ~CloseSend /\ ~Deliver /\ ~CallBack /\ ~ReceiverFails /\ ~CommitTx
            BY DEF CloseSend, Deliver, CallBack, ReceiverFails, ReceiverIsNext, CommitTx, Settled
        <3> QED
            BY <2>5, <3>1, <3>2, <3>3, <3>4, <3>5 DEF TxStep
    <2> QED
        BY <2>2, <2>3, <2>4, <2>5 DEF SendsNext
<1>2. SendsSpec => [][work # None /\ ~RollBack => OneMessage]_vars
    BY <1>1, SendInvCorrect, PTL DEF SendsSpec
<1> QED
    BY <1>2 DEF ListIsOneByOne

(***************************************************************************)
(* When a transaction has been committed, every token it sent has been     *)
(* told to its receiver: callbacks are neither lost nor left over.         *)
(***************************************************************************)
THEOREM AllToldCorrect == SendsSpec => [](undo = None => owed = {})
<1>1. SendInv /\ TellInv => (undo = None => owed = {})
    BY BetweenIsQuiet DEF Quiet
<1> QED
    BY <1>1, SendInvCorrect, TellInvCorrect, PTL
=============================================================================

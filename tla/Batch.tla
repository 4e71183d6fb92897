-------------------------------- MODULE Batch --------------------------------
(***************************************************************************)
(* How a handler works through a list: send_list, burn_list and mint_list, *)
(* of which the messages about one token are lists of one.  A transaction  *)
(* is a sequence of steps here.  Tokens and id maps are stored at each     *)
(* item; inventories are loaded once per owner, kept by the handler, and   *)
(* written with the AuthLists after the last item.  When an item fails the *)
(* chain puts everything back.  Snip721.tla is what one item should do.    *)
(***************************************************************************)
EXTENDS Snip721

CONSTANTS
    MaxBatch,       \* bound: items of one message
    MaxSend,        \* bound: the same for messages that send, opening a Send included
    RunIds,         \* mint run ids of the MintNftClones messages
    Serials         \* bound: mint run, serial number, run size of a MintNft, or None

VARIABLES
    work,           \* what the running handler holds, None between messages
    undo,           \* the store before the message, for the chain to restore
    runNum,         \* PREFIX_MINT_RUN_NUM: the last run made with an id
    runInfo,        \* PREFIX_MINT_RUN, without the creator
    ahead           \* history: somebody named an id the mint counter had yet to reach

batchVars == <<work, undo, runNum, runInfo, ahead>>
vars == <<snipVars, batchVars>>

RunInfo == [run : Nat \cup {None}, serial : Nat, of : Nat \cup {None}]

\* inventories a handler holds, or tokens that left them, by owner
Held == UNION {[A -> SUBSET Idx] : A \in SUBSET Addr}

Work == [kind : {"Transfer", "Burn", "Send", "Mint", "Clones"}, sender : Addr, left : Nat,
         invs : Held, removed : Held, operFor : SUBSET Addr,
         run : RunIds \cup {None}, quantity : Nat, owner : Addr \cup {None}]

ASSUME BatchAssumption ==
    /\ MaxBatch \in Nat /\ MaxSend \in Nat
    /\ None \notin RunIds /\ None \notin Work
    /\ Serials \subseteq RunInfo \cup {None}
    /\ \A i, j \in Idx : DefaultId[i] = DefaultId[j] => i = j

-----------------------------------------------------------------------------
(* The inventories and AuthLists as the running handler sees them.          *)

\* mutant of Inv: the inventory is loaded anew for each item
MutReload(a) == inventory[a]

Inv(a) == IF work # None /\ a \in DOMAIN work.invs THEN work.invs[a] ELSE inventory[a]

Lost(a) == IF work # None /\ a \in DOMAIN work.removed THEN work.removed[a] ELSE {}

\* function f with key a set to v
Put(f, a, v) == [b \in DOMAIN f \cup {a} |-> IF b = a THEN v ELSE f[b]]

NothingHeld == [a \in {} |-> {}]

WrittenInventory == [a \in Addr |-> Inv(a)]
WrittenAuthList ==
    [a \in Addr |-> [g \in Grantee |-> [p \in PermTypes |-> authList[a][g][p] \ Lost(a)]]]

-----------------------------------------------------------------------------
(* A message begins, ends, or is rolled back.                               *)

Stored == [mintCnt |-> mintCnt, tokenCnt |-> tokenCnt, idxOf |-> idxOf, idOf |-> idOf,
           token |-> token, creator |-> creator, tokPerm |-> tokPerm,
           inventory |-> inventory, authList |-> authList, savedBlock |-> savedBlock,
           runNum |-> runNum, runInfo |-> runInfo, ahead |-> ahead]

Start(kind, s, quantity, run, owner) ==
    work' = [kind |-> kind, sender |-> s, left |-> quantity,
             invs |-> NothingHeld, removed |-> NothingHeld, operFor |-> {},
             run |-> run, quantity |-> quantity, owner |-> owner]

\* the lists of TransferNft, BatchTransferNft, BurnNft and BatchBurnNft
BeginList(s, kind) ==
    /\ work = None
    /\ CheckStatus(Normal)
    /\ Start(kind, s, IF kind = "Send" THEN MaxSend ELSE MaxBatch, None, None)
    /\ undo' = Stored
    /\ Handled
    /\ UNCHANGED <<configVars, ledgerVars, permVars, ownerPriv, runNum, runInfo, ahead>>

\* MintNft and BatchMintNft
BeginMint(s) == s \in minters /\ BeginList(s, "Mint")

\* MintNftClones: the run number is stored before the first clone is minted
BeginClones(s, r, quantity, owner) ==
    /\ work = None
    /\ CheckStatus(Normal)
    /\ s \in minters
    /\ quantity # 0
    /\ r # None => runNum[r] < MaxU32
    /\ Start("Clones", s, quantity, r, owner)
    /\ runNum' = IF r = None THEN runNum ELSE [runNum EXCEPT ![r] = @ + 1]
    /\ undo' = Stored
    /\ Handled
    /\ UNCHANGED <<configVars, ledgerVars, permVars, ownerPriv, runInfo, ahead>>

\* a list may be shorter than the bound, a run of clones may not
IsComplete == work.kind = "Clones" => work.left = 0

\* update_owner_inventory, and the saving of the inventories in mint_list
WriteBack ==
    /\ IsComplete
    /\ inventory' = WrittenInventory
    /\ authList' = WrittenAuthList
    /\ work' = None
    /\ UNCHANGED <<configVars, mintCnt, tokenCnt, idxOf, idOf, token, creator>>
    /\ UNCHANGED <<tokPerm, allPerm, ownerPriv, block, savedBlock, runNum, runInfo, ahead>>

\* a handler that returns no messages ends its transaction
Commit == work # None /\ work.kind # "Send" /\ WriteBack /\ undo' = None

\* the chain (external) undoes a transaction in which something failed
RollBack ==
    /\ mintCnt' = undo.mintCnt /\ tokenCnt' = undo.tokenCnt
    /\ idxOf' = undo.idxOf /\ idOf' = undo.idOf
    /\ token' = undo.token /\ creator' = undo.creator /\ tokPerm' = undo.tokPerm
    /\ inventory' = undo.inventory /\ authList' = undo.authList
    /\ savedBlock' = undo.savedBlock
    /\ runNum' = undo.runNum /\ runInfo' = undo.runInfo /\ ahead' = undo.ahead
    /\ work' = None
    /\ undo' = None
    /\ UNCHANGED <<configVars, allPerm, ownerPriv, block>>

-----------------------------------------------------------------------------
(* One item of a list.                                                      *)

\* check_perm_core with the owners whose ALL permission the sender has passed by
Permitted(t) ==
    Owner(t) \in work.operFor \/ CheckPermission(work.sender, t, "Transfer", block)

PassesByAll(t) ==
    /\ work.sender # Owner(t)
    /\ ~ \E g \in {work.sender, Public} : Live(tokPerm[t][g]["Transfer"], block)

\* mutant of OperForAfter: any check that passes is remembered
MutRememberAny(t) == work.operFor \cup {Owner(t)}

OperForAfter(t) == work.operFor \cup IF PassesByAll(t) THEN {Owner(t)} ELSE {}

LostAfter(t) == Put(work.removed, Owner(t), Lost(Owner(t)) \cup {t})

\* inventories after t went to a new owner
InvsAfterMove(t, to) ==
    LET added == Put(work.invs, to, Inv(to) \cup {t})
    IN  Put(added, Owner(t), Inv(Owner(t)) \ {t})

CanTransfer(id, to) ==
    LET t == idxOf[id] IN
    /\ Exists(t)
    /\ Permitted(t)
    /\ token[t].transferable
    /\ Owner(t) # to

\* transfer_impl
MoveItem(t, to) ==
    /\ token' = [token EXCEPT ![t] = [owner |-> to, transferable |-> @.transferable]]
    /\ tokPerm' = MovedPerms(t)
    /\ work' = [work EXCEPT !.left = @ - 1, !.operFor = OperForAfter(t),
                            !.removed = LostAfter(t), !.invs = InvsAfterMove(t, to)]
    /\ UNCHANGED <<configVars, mintCnt, tokenCnt, idxOf, idOf, creator, inventory>>
    /\ UNCHANGED <<allPerm, authList, ownerPriv, block, savedBlock>>
    /\ UNCHANGED <<undo, runNum, runInfo, ahead>>

At(kind) == work # None /\ work.kind = kind /\ work.left > 0

TransferItem(id, to) ==
    /\ At("Transfer")
    /\ CanTransfer(id, to)
    /\ MoveItem(idxOf[id], to)

TransferFails(id, to) == At("Transfer") /\ ~CanTransfer(id, to) /\ RollBack

CanBurn(id) ==
    LET t == idxOf[id] IN
    /\ Exists(t)
    /\ Permitted(t)
    /\ BurnIsEnabled \/ ~token[t].transferable

BurnItem(id) ==
    LET t == idxOf[id] IN
    /\ At("Burn")
    /\ CanBurn(id)
    /\ tokenCnt' = BurnedCount
    /\ idxOf' = BurnedIds(id)
    /\ idOf' = [idOf EXCEPT ![t] = None]
    /\ token' = [token EXCEPT ![t] = None]
    /\ tokPerm' = [tokPerm EXCEPT ![t] = NoGrants]
    /\ creator' = [creator EXCEPT ![t] = None]
    /\ runInfo' = [runInfo EXCEPT ![t] = None]
    /\ work' = [work EXCEPT !.left = @ - 1, !.operFor = OperForAfter(t),
                            !.removed = LostAfter(t),
                            !.invs = Put(@, Owner(t), Inv(Owner(t)) \ {t})]
    /\ UNCHANGED <<configVars, mintCnt, inventory, allPerm, authList, ownerPriv>>
    /\ UNCHANGED <<block, savedBlock, undo, runNum, ahead>>

BurnFails(id) == At("Burn") /\ ~CanBurn(id) /\ RollBack

CanMint(id) == BelowLimit /\ idxOf[id] = None

\* the id of a later mint that names none
IsAhead(id) == \E i \in Idx : i > mintCnt /\ DefaultId[i] = id

MintOne(id, new, info) ==
    /\ mintCnt' = mintCnt + 1
    /\ tokenCnt' = tokenCnt + 1
    /\ idxOf' = [idxOf EXCEPT ![id] = NextIdx]
    /\ idOf' = [idOf EXCEPT ![NextIdx] = id]
    /\ token' = [token EXCEPT ![NextIdx] = new]
    /\ creator' = [creator EXCEPT ![NextIdx] = work.sender]
    /\ runInfo' = [runInfo EXCEPT ![NextIdx] = info]
    /\ tokPerm' = [tokPerm EXCEPT ![NextIdx] = NoGrants]
    /\ work' = [work EXCEPT !.left = @ - 1,
                            !.invs = Put(@, new.owner, Inv(new.owner) \cup {NextIdx})]
    /\ UNCHANGED <<configVars, inventory, allPerm, authList, ownerPriv>>
    /\ UNCHANGED <<block, savedBlock, undo, runNum>>

MintItem(given, new, info) ==
    /\ At("Mint")
    /\ mintCnt < MaxU32 /\ CanMint(MintId(given))
    /\ MintOne(MintId(given), new, info)
    /\ ahead' = (ahead \/ IsAhead(MintId(given)))

MintFails(given) ==
    /\ At("Mint")
    /\ mintCnt < MaxU32 => ~CanMint(MintId(given))
    /\ RollBack

\* mutant of Serial: serial numbers start at zero
MutSerial == work.quantity - work.left

Serial == work.quantity - work.left + 1

CloneInfo == [run |-> IF work.run = None THEN None ELSE runNum[work.run],
              serial |-> Serial, of |-> work.quantity]

CloneItem ==
    /\ At("Clones")
    /\ mintCnt < MaxU32 /\ CanMint(MintId(None))
    /\ MintOne(MintId(None), [owner |-> work.owner, transferable |-> TRUE], CloneInfo)
    /\ UNCHANGED ahead

CloneFails ==
    /\ At("Clones")
    /\ mintCnt < MaxU32 => ~CanMint(MintId(None))
    /\ RollBack

Item ==
    \/ \E id \in Ids, to \in Addr : TransferItem(id, to)
    \/ \E id \in Ids : BurnItem(id)
    \/ \E given \in MintIds, new \in MintChoices, info \in Serials : MintItem(given, new, info)
    \/ CloneItem

Fails ==
    \/ \E id \in Ids, to \in Addr : TransferFails(id, to)
    \/ \E id \in Ids : BurnFails(id)
    \/ \E given \in MintIds : MintFails(given)
    \/ CloneFails

Begin == \E s \in Addr :
    \/ \E kind \in {"Transfer", "Burn"} : BeginList(s, kind)
    \/ BeginMint(s)
    \/ \E r \in RunIds \cup {None}, quantity \in 0 .. MaxBatch, new \in MintChoices :
           BeginClones(s, r, quantity, new.owner)

\* the messages without a list, which find no handler halfway
BetweenMessages ==
    /\ work = None
    /\ ApprovalNext \/ AdminNext \/ NewBlock
    /\ UNCHANGED batchVars

BatchInit ==
    /\ SnipInit
    /\ work = None /\ undo = None
    /\ runNum = [r \in RunIds |-> 0]
    /\ runInfo = [t \in Idx |-> None]
    /\ ahead = FALSE

BatchNext == Begin \/ Item \/ Fails \/ Commit \/ BetweenMessages

BatchSpec == BatchInit /\ [][BatchNext]_vars

-----------------------------------------------------------------------------
(* Properties.                                                              *)

(***************************************************************************)
(* What a transaction leaves is as exact as what single messages leave:    *)
(* tokens that go to and fro within one list, or are minted to the same    *)
(* owner, are in one inventory, and no AuthList keeps a token that left.   *)
(***************************************************************************)
StoresExact ==
    work = None => IdsExact /\ InventoryExact /\ SupplyExact /\ AuthListExact

\* the ledger as it would be if every item so far had been a message of its own
View == INSTANCE Snip721 WITH inventory <- WrittenInventory, authList <- WrittenAuthList

(***************************************************************************)
(* A list is its items one by one: each step of send_list, burn_list and   *)
(* mint_list does to the ledger what the message for that item alone does, *)
(* and writing the inventories and AuthLists at the end adds nothing.      *)
(***************************************************************************)
ListIsOneByOne ==
    [][ work # None /\ ~RollBack =>
          \/ UNCHANGED View!snipVars
          \/ \E id \in Ids, to \in Addr : View!TransferNft(work.sender, id, to)
          \/ \E id \in Ids : View!BurnNft(work.sender, id)
          \/ \E given \in MaybeId, new \in [owner : Addr, transferable : BOOLEAN] :
                 View!Mint(work.sender, given, new) ]_vars

\* the tokens a finished run of clones has added
Clones == {t \in Idx : token[t] # None /\ undo.token[t] = None}

(***************************************************************************)
(* A run of clones that succeeds has minted exactly the quantity asked for,*)
(* at consecutive indices and with the ids of those indices, numbered from *)
(* 1 without gap, under a run number one above the last run of that id;    *)
(* whatever was burned, minted or rolled back in between.                  *)
(***************************************************************************)
ClonesNumbered ==
    [][ Commit /\ work.kind = "Clones" =>
          /\ Clones = undo.mintCnt .. mintCnt - 1
          /\ Cardinality(Clones) = work.quantity
          /\ \A t \in Clones :
                /\ idOf[t] = DefaultId[t]
                /\ token[t].owner = work.owner
                /\ runInfo[t].serial = t - undo.mintCnt + 1
                /\ runInfo[t].of = work.quantity
                /\ runInfo[t].run = IF work.run = None THEN None
                                    ELSE undo.runNum[work.run] + 1 ]_vars

(***************************************************************************)
(* A mint that names no id takes the mint counter for an id.  Unless a     *)
(* minter has named the id of a mint yet to come, that id is free: burns   *)
(* and re-mints do not bring a default id back.                            *)
(***************************************************************************)
DefaultIdFree == mintCnt < MaxU32 /\ idxOf[MintId(None)] # None => ahead
=============================================================================

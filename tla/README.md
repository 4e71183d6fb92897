# A TLA+ model of the secret marketplace contract

The repository is one CosmWasm contract: the SNIP-721 reference implementation (a private NFT
ledger) extended with a marketplace. These modules model its state changes, check them with TLC
on small instances, and prove with TLAPS all the safety properties TLC checks, for every instance.

The contract runs inside a chain: each message is one transaction, handlers never run at the same
time, and a handler that returns an error, or whose outgoing bank message fails, leaves no trace.
So an *action* here is one successful message, and what is hard is not threads but long
sequences of legal messages by several users over stores that are meant to agree: a token's
permissions, the owner's ALL permissions, the AuthLists, the inventories, the id maps, the list of
tokens for sale, the sale records, the royalties and the balance.

## Inventory

| Component | State | Operations | What makes it correct |
|---|---|---|---|
| Token ledger (`contract.rs`, `state.rs`, `token.rs`) | id maps, token infos, creators, inventories, two counters | mint, transfer, burn (and their batches) | an id names one token, an index is never reused, each token is in its owner's inventory only |
| Approvals (`process_accesses`, `alter_perm_list`) | token permissions, ALL permissions, AuthLists | Approve, Revoke, ApproveAll, RevokeAll, SetWhitelistedApproval, SetGlobalApproval, MakeOwnershipPrivate | the stores agree; a message changes what it names and nothing else |
| Permission check (`check_permission`, `check_perm_core`) | the above, the block | called by handlers and queries | lets through exactly who holds a live permission |
| Administration | Config, minters | minters, admin, contract status | only the admin |
| Marketplace (`set_sale_status`, `set_price`, `buy_token`) | sale records, list of tokens for sale, sale counts | list, price, buy | what is for sale is listed and can be bought, the price is split right |
| Royalties (`royalties.rs`, `store_royalties`) | per token, default | set for token or contract, given or inherited at mint, removed at burn | a later sale pays the right recipient the right amount |
| Treasury | the contract's `uscrt` balance | sales, `withdraw_funds` | a sale never costs the contract money |
| Inventory (`inventory.rs`) | cells, free stack, map, stored info | insert, remove, save, iterate | map, cells and stack agree; paging misses nothing |
| Batches (`send_list`, `burn_list`, `mint_list`) | inventories and an operator cache held while a handler runs | BatchTransferNft, BatchBurnNft, BatchMintNft, MintNftClones | a list does what its items do one by one; what is written back at the end is exact |
| Sends (`receiver.rs`, `receiver_callback_msgs`) | registrations, callbacks | SendNft, BatchSendNft, RegisterReceiveNft | each token sent is told to its receiver, in order, or the send is undone |
| Metadata | public and private metadata, the unwrapped flag, four settings | mint, SetMetadata, Reveal, burn | a sealed secret is intact and shown to nobody; nothing is lost or left behind |
| Transaction history (`state.rs`) | records, a list of ids per address | written by mint, transfer, burn; paged by `get_txs` | everyone has his transactions once; records form a chain of custody |
| Queries | none of their own | about 30 | counts, flags and batches agree with the permission check, by the stored block |
| Viewing keys and permits (`viewing_key.rs`) | keys, revoked permit names, seed | CreateViewingKey, SetViewingKey, RevokePermit, authentication of queries | a key proves its latest holder; a revoked permit stays revoked |

How they interact: every handler of `handle` stores the block, loads the Config and calls one of
the operations. `buy_token` calls the ledger (`send_list`) in the name of the seller, then pays
through bank messages which the chain carries out with the handler. Mint and burn touch sale
counts and royalties. Approvals load the inventory when they expand an ALL permission. Transfers
and burns clean the AuthLists when they write inventories back. Queries run between transactions
and see the stored block, not the chain's.

`PROJECT.json` lists the hazards this leads to, each at its line.

## Modules

| Module | Models | Correspondence |
|---|---|---|
| `Snip721` | the ledger, approvals, permission check, administration | one variable per store (`tokPerm`, `allPerm`, `authList`, `inventory`, ...), one action per message |
| `Metadata` | `Snip721` composed with the metadata stores | EXTENDS the ledger; `MintWithMetadata`, `BurnWithMetadata`, `SetMetadata`, `Reveal` |
| `Queries` | what queries answer about tokens, owners, approvals and supply | operators of the stores of `Metadata`, no variables; `Passes` is the permission check by the stored block |
| `History` | `Snip721` composed with the transaction records and a client that reads its own, page by page | `StoreTransfer`, `StoreMint` and `StoreBurn` are parts of the ledger's actions; `GetTxs` is `get_txs` |
| `Batch` | how a handler works through a list, item by item | a transaction is several steps; `work` is what the handler holds (inventories loaded, tokens removed, owners the sender is operator of), `undo` is what the chain restores |
| `Sends` | `Batch` composed with receivers and their callbacks | `queue` is the chain's: callbacks are delivered in order, those of a nested send first; `caller` is a receiver that is about to send on |
| `Access` | viewing keys, permits, who a query comes from | hashes and signatures abstract: a key is the entropy, address and block it was made from |
| `Marketplace` | `Snip721` composed with sales, royalties, balance | EXTENDS the ledger and reuses its guards and effects: `BuyToken` contains `TransferEffect`, `MintNft` contains `Mint` |
| `Exchange` | what the marketplace promises: holders, asks, a list, cash | abstract; `Marketplace` implements it under a refinement mapping |
| `Inventory` | one owner's inventory with its cells and a paging client | detailed version of the set `inventory[o]` of `Snip721` |
| `Scenarios` | replays scripts of messages on `Metadata` | a step of a script is a `handle` call of a test with its block, its outcome and the facts asserted after it |
| `UnitTests` | the scripts: 28 contracts set up by tests of `unittest_handles.rs` | one script per contract of a test |
| `MCMetadata`, `MCQueries`, `MCHistory`, `MCBatch`, `MCSends`, `MCMarketplace`, `MCInventory` | small constants for TLC | |
| `Snip721Proofs` | proofs about `SnipSpec` | the ledger's inductive invariant, one lemma per action, which the next five extend |
| `QueriesProofs` | proofs about `MetaSpec` | the metadata and what the queries answer |
| `HistoryProofs`, `BatchProofs`, `MarketplaceProofs` | proofs about `History`, `Batch`, `Marketplace` | `MarketplaceProofs` has the refinement of `Exchange` |
| `SendsProofs` | proofs about `Sends` | EXTENDS `BatchProofs` |
| `AccessProofs`, `InventoryProofs` | proofs about `Access`, `Inventory` | |

Points of the translation:

- A permission list (`Vec<Permission>`) is a function from grantees and permission types to an
  expiration or `None`. The lists keep one entry per address (`alter_perm_list`), and the order
  of entries changes nothing that the handlers decide. The pseudo address `public` is `Public`.
- `process_accesses` walks the permission types and fills tables of what to alter. Each table is
  an operator of the type: `Skips` (nothing to do), `Alters`, `Expands` (a live ALL becomes token
  permissions), `LoadList` (the other tokens touched), and `NewAll`, `NewNamed`, `NewLoaded`,
  `NewAuth` for what is stored. A request carries an access level for each type at once.
- `CheckPermCore` keeps the early exit of the code: when the token permissions of both the sender
  and the public have lapsed, ALL permissions are not looked at. The same operator serves handlers
  (`block`) and queries (`savedBlock`).
- Mint indices live in `0 .. MaxU32 - 1`; both counters stop at `MaxU32`. `DefaultId` is the
  decimal rendering of the counter, which shares its strings with explicit ids.
- The chain rolls back a failed handler together with its messages, so `BuyToken` and `Withdraw`
  are one step with their bank sends and are enabled only if the bank accepts them all
  (`BankAccepts`, external; `ZeroSendFails` says that the bank refuses a zero amount).
- Prices are multiplied by `Decimal`s of 18 digits and rounded down twice; `DecFrac` stands for
  10^18. `MaxPowDigits` and `MaxU256Digits` are the largest powers of ten of a `u128` and a `U256`.
- `BuyToken`'s guards include `CheckStatus(StopTransactions)`, the level `handle` gives it.
- `sent` holds the bank messages of the last handler, so that properties can speak of them.

- In `Snip721` an action is a message about one token. `Batch` shows the lists such messages are a
  special case of, with the order in which the code stores things: tokens and id maps at each item,
  inventories and AuthLists once at the end. Its property `ListIsOneByOne` is what ties the two:
  each item does to the stores, as the handler sees them, what the message of `Snip721` would.
- A `Send` moves its tokens as `Batch` does and collects `send_from_list`; `TxStep` is whatever the
  chain does next in the transaction it has begun: the next item, the write-back, the next
  callback, a receiver's nested message, or the failure that undoes all.
- Metadata values are model values; whether one has both a `token_uri` and an `extension` is the
  only thing about them the code looks at.
- `secret`, `published`, `updated`, `ahead`, `owed`, `handed` and the variables of the paging clients are
  history: no guard of the contract reads them. An entry of `owed` carries the handler and the `Send`
  that owe it and its place there, so that the order of what is owed can be spoken of.

## Runs

Deadlock is not checked, since a run may exhaust its bounds (all indices minted, say) and stop.

| Run | Shows |
|---|---|
| `ledger` | `TypeOK`, `IdsExact`, `InventoryExact`, `SupplyExact` through mints, transfers, burns and re-mints; `SealedIsIntact`, `SecretSurvives`, `NothingLeft`: metadata under three configurations; `NewOwnerDecides`: nothing the old owner allowed opens the new owner's token |
| `history` | `ListsExact`, `CustodyChain`, `ReadingIsComplete`: records per party, chain of custody, paging while records come in |
| `approvals` | `NoDoubleGrant`; `OneTokenOrAll`: an approval changes one token or all the owner's tokens, per type; `ApprovalTakesEffect`: a successful Approve or Revoke changes what its spender may do; `VerifyIsExact`: what VerifyTransferApproval says of a list of tokens |
| `viewing` | `AuthListExact`, `CheckIsExact`, `QueriesNotStricter`, with all three types, up to two in one message, and tokens with and without metadata; `CountsAgree`, `PublicFlagsExact`, `BatchIsSingle`: counts and supply, public flags and batched dossiers agree with the checks of single tokens; `OwnerSeesApprovals`: what OwnerOf and the approval queries show the owner, with grants to the public beside others |
| `batches` | `StoresExact`, `ListIsOneByOne`, `ClonesNumbered`, `DefaultIdFree` for lists of up to three items and clones |
| `sends` | `SettledStoresExact`, `TellsInOrder` and the liveness property `SentIsTold`, with receivers that send on or fail |
| `keys` | `KeyFindsQuerier`, `RevokedForGood` |
| `pages` | `MapMatchesCells`, `FreeStackExact`, `PagesComplete` |
| `sales` | `ForSaleIsListed`; `PriceDecides`: what is for sale can be bought, but for prices, rates and decimals that leave nothing to send or cannot be computed, and for these it cannot; `SaleSplit`, `FreshStart`, `ImplementsExchange`, with burning and a re-minted id |
| `tests` | `Conforms`: the messages of 28 contracts of the unit tests answer and leave the stores as the tests assert |

Two more runs find a documented claim violated; each checks that one claim.

| Run | Claim | What the code does |
|---|---|---|
| `drain` | royalties and fee come out of the price (`README.md:8`) | with two royalties the seller's payment is repeated per royalty, and the response sends more than the price |
| `burned` | TokensForSale returns what is for sale (`README.md:11`) | burning leaves the id in the list |

`sales` therefore has single royalties, and speaks of the list only in the
direction that burning leaves intact (what is for sale is listed). Its balance is bounded by
`MaxTreasury` and coins arrive unasked (`Receive`), so that the treasury is not just the sum of
fees.

Divergences that show in the modules without a run of their own:

- `StopTransactions` is documented as stopping transfers (`msg.rs:417`); `handle` admits `BuyToken`
  at that level (`contract.rs:477`), and so does the model. `StopsCorrect` is what is left of the
  documented claim: while stopped, a token moves only by being bought.
- With royalty information that lists nobody, the loop at `contract.rs:678` runs no time and a
  resale pays nobody (`RoyaltySends`).
- "Anyone can buy the token if it is up for sale and if correct amount has been provided"
  (`README.md:8`). `store_royalties` accepts up to 77 decimals, `buy_token` (`contract.rs:684`) raises
  ten to them in 128 bits, which is exact up to 38 (`Computable`): with more, a resale fails. And a
  bank that refuses a zero amount fails every purchase that sends one (`contract.rs:693`): at the
  price 1, with a share that rounds to zero, or with a rate that leaves the seller less than 2.
  `PriceDecides` states exactly this, in both directions, and `sales` has each of the cases.
- A send to a contract without a known code hash succeeds without a callback (`contract.rs:4751`).

### Replaying the unit tests

The other runs ask whether the model's stores make sense; `tests` asks whether they are the
program's. `UnitTests` holds what tests of `unittest_handles.rs` do: the configuration of
`init_helper`, each `handle` call with its sender, its message and its block, whether it succeeds,
and what the test then reads back from storage. `Scenarios` executes a script with the actions of
`Snip721` and `Metadata`: a message succeeds if its action is enabled and otherwise changes
nothing. Facts about grants are compared with all of the owner's stores (ALL permissions, token
permissions and AuthLists), so an entry too many is noticed as well as one too few. A stranger whom
no test mentions grants and withdraws an ALL permission between the steps (`Interlude`).

Left out are the tests' assertions on transaction lists, on the wording of errors and on the
numbering of the permission array, and the contracts with public ownership or with burning
disabled, which are constants of `Snip721` and TRUE or FALSE for all scripts.

### Liveness and fairness

Users are free to send nothing, so no message is assumed to come. What must happen is within a
transaction: the chain never leaves one half done. `SendsSpec` has weak fairness of `TxStep` alone,
which is the chain's promise that a transaction that was begun reaches its end. Under it
`SentIsTold`: each token sent to a contract whose code hash is known is told to it, or the send is
undone. Weak fairness is enough, because between its steps nothing else is enabled. A transaction
ends since each list and each nest of sends is bounded (`MaxBatch`, `MaxSend`, `MaxCalls`), as gas
bounds them.

### Bounds

- Two or three addresses: an owner, a grantee or buyer, and in `sales` a third for a royalty's
  recipient, in `sends` two receiving contracts. Approvals relate one owner and one grantee (and
  the public), so two addresses meet all the cases; in `history` three let owner, operator and
  recipient differ.
- One to three ids. Expanding an ALL distinguishes the named token from the others, three let two
  others differ. Two ids and two indices let a burned id come back under a new index.
- `RequestTypes` are the sets of permission types that a run's messages mention together,
  `Granters` and `Granted` who approves whom. The types are treated alike except that the load list
  is shared, which two types in one message (`viewing`) cover, and that the queries keep a cache of
  operators per type, for which `viewing` has all three; `tests` sends all three at once.
- `MaxPerms` limits the permissions on record at a time. In `viewing` it is 2: a cache that takes one
  permission for another, an early exit that overlooks one, a public flag that hides one, each needs
  two. The other runs are bounded by their addresses and types and have it out of reach.
- `MintMetas` are the pairs of public and private metadata that mints carry: in `viewing` none or
  both, so that each answer about metadata is of something that is there; in `ledger` any of them.
- `Expirations` are Never and one limit that the chain reaches within the run: a height in
  `viewing`, a time in `approvals`; the proofs hold for any set of both, and `tests` mixes them.
  `MaxHeight` and `MaxTime` bound the blocks; `sales` has a second block only so that handlers meet
  a store saved in an earlier one.
- `Lists` are the pairs of ids: the queries about lists remember operators from one token to a
  later one, and two positions, with the same or another token, are where that can go wrong.
- `MaxBatch` 3: what an item finds in the handler's hands was put there by one or two before it.
  `MaxSend` 4 counts opening a `Send`, so a message holds two sends of a token each or one of
  three; `MaxCalls` 1 lets one receiver send on from within its callback.
- `MaxTxs` 4 with pages of two and `MaxPages` 3: the reader needs two full pages and the records
  that arrive meanwhile push one across a boundary.
- `MaxHanded` 3 keys, two users, two entropies, two blocks and a string set by hand: enough for a
  key to be replaced, set to another's string, and made twice from the same entropy.
- `Prices` 1 and 14 with royalties of 20 percent, of 100 percent, and of 10 percent in more decimals
  than can be computed with: shares that are rounded, that are zero and that are the whole price,
  and each way in which a purchase fails. Whether the chain refuses a zero send is outside the
  repository (`ZeroSendFails`, TRUE in `sales`; the proofs hold for both). If it does, the price 1,
  which the repository's procedure uses, cannot be paid out, as 98 percent of 1 rounds to 0.
- The two powers of ten are scaled from 38 and 77 to 2 and 4.
- The inventory has three cells and four interchangeable tokens (symmetry), pages of two, and a
  client that gives up after six tokens: enough to fill, free two cells, and page over the change.

## Proofs

TLC checks each property on a small instance; TLAPS proves it for every value of the constants
that the named assumptions allow. All the safety properties that the passing runs check are
theorems; the one invariant that is not is `Conforms`, which replays given tests. The theorems that
name no property of a run say more about the same modules.

| Module | Theorem | States |
|---|---|---|
| `Snip721Proofs` | `TypeCorrect`, `IdsCorrect`, `InventoryCorrect`, `AuthListCorrect`, `GrantsCorrect` | `TypeOK`, `IdsExact`, `InventoryExact`, `AuthListExact`, `NoDoubleGrant` |
| | `CheckCorrect` | `CheckIsExact`: the early exit of `check_perm_core` overlooks nobody |
| | `SupplyCorrect` | `SupplyExact`: the counter is the number of tokens |
| | `QueriesNotStricterCorrect` | `QueriesNotStricter`: who passes a check at the chain's block passes it at the stored one |
| | `ApprovalTakesEffectCorrect`, `OneTokenOrAllCorrect` | the action properties of that name: what an approval message changes, and all it changes |
| `QueriesProofs` | `SealedIsIntactCorrect`, `SecretSurvivesCorrect`, `NothingLeftCorrect`, `NewOwnerDecidesCorrect` | the properties of `Metadata` |
| | `OwnerSeesCorrect`, `VerifyCorrect`, `CountsCorrect`, `PublicFlagsCorrect`, `BatchIsSingleCorrect` | the properties of `Queries` |
| | `MetaLedgerCorrect` | the ledger's invariants hold under messages about metadata too |
| `HistoryProofs` | `ListsCorrect`, `CustodyCorrect`, `ReadingCorrect` | `ListsExact`, `CustodyChain`, `ReadingIsComplete` |
| | `HistoryIsLedger` | the refinement `HistorySpec => SnipSpec`: storing records changes no message's effect and lets no other message through |
| `BatchProofs` | `StoresCorrect`, `DefaultIdCorrect` | `StoresExact`, `DefaultIdFree` |
| | `ListCorrect`, `ClonesCorrect` | the action properties `ListIsOneByOne`, `ClonesNumbered` |
| `SendsProofs` | `SettledCorrect`, `SendListCorrect` | `SettledStoresExact`: ids, inventories, counter and AuthLists whenever no handler is at work; `ListIsOneByOne` for sends, nested ones included |
| | `TellsCorrect` | the action property `TellsInOrder`: whom a callback tells, of which tokens, in which order |
| | `AllToldCorrect` | a committed transaction leaves no token untold, the safety half of `SentIsTold` |
| `AccessProofs` | `KeysCorrect`, `RevocationCorrect` | `KeyFindsQuerier`, `RevokedForGood` |
| `MarketplaceProofs` | `ForSaleIsListedCorrect`, `FreshStartCorrect` | `ForSaleIsListed`, `FreshStart` |
| | `ExchangeCorrect`, `SalesCoverCorrect` | if `OneRecipient`: `ImplementsExchange` (the refinement of `Exchange`), `SalesNeverDrain` |
| | `SaleSplitCorrect` | if `ExactRates`: `SaleSplit` |
| | `PriceDecidesCorrect` | if `OneRecipient`: `PriceDecides`, when a purchase goes through and when it cannot |
| | `MarketLedgerCorrect` | the ledger's invariants hold in the whole contract |
| | `StopsCorrect` | `StopsAllButSales`: what each contract status stops, and that purchases go on where transfers do not |
| `InventoryProofs` | `MapCorrect`, `StackCorrect`, `PagesCorrect` | `MapMatchesCells`, `FreeStackExact`, `PagesComplete` |
| | `RoomCorrect` | an owner can be given tokens until there are `MaxU32`, whatever came and went before |
| | `InventoryIsSet` | cells, map and stack implement the set `inventory[o]` of `Snip721` |

### The inductive invariants

Few of the properties are inductive as they stand. What each proof carries along, and why:

- `IInv` (`Snip721Proofs`) is the ledger's: `TypeOK`, `IdsExact`, `InventoryExact`,
  `AuthListExact` and `NoDoubleGrant` together. A mint reuses no index because `IdsExact` keeps every
  existing index below the counter; a transfer or burn takes the right entry out because
  `InventoryExact` ties inventories to owners; expanding an ALL loads the inventory, so
  `AuthListExact` after it needs `InventoryExact`; clearing all token permissions loads the
  AuthList, so `NoDoubleGrant` after an ApproveAll needs `AuthListExact` (a token missing from the
  list would keep its permission next to ALL). There is one lemma per action, and
  `ProcessAccesses`, shared by three actions, is proved once. `CheckIsExact` follows from
  `NoDoubleGrant`: when a token permission of the sender has lapsed, the sender has no ALL permission
  that the early exit could overlook.
- `BlockOrder` says that the stored block is not ahead of the chain's; `NoPublicTransfer` that the
  public never gets a transfer permission, which is why what an approval does to its spender is all
  that decides whether the spender may transfer.
- `MetaInv` adds `SecretKept`: where what a token was minted with is now, by its seal and the
  configuration, and that the public metadata is the one last given. It needs `IInv` because a burnt id may come back, under a new index.
- `QueryInv` adds the supply and `NoPublicTransfer`. The queries on lists remember whether they
  found an operator for an owner; that this is true of the owner's other tokens rests on
  `NoDoubleGrant`.
- `ListInv`, `CustodyInv` and `ReadInv` are about transactions: an address's list points to what it
  took part in, oldest first; the last transaction about an id names whom the id stands for; of the
  entries the client's list had when it began, what it has not seen yet lies before the place where
  its next page begins, however many have been appended since.
- `BatchInv` is `IInv` read through the handler's hands: inventories with those it has loaded,
  AuthLists without what it is going to take out. With it come `UndoExact`, the same of the store
  the chain would restore, and `OperatorsHold`: whoever the handler remembers as an owner's operator
  does hold a live ALL permission, which no item of the list takes away. `RunInv` counts the clones.
- `SendInv` adds `Pending`: from the first handler of a transaction until it is committed there is
  an exact store to go back to, since a receiver may fail after other handlers have written.
- `TellInv` is about callbacks. `owed` is the history of tokens sent and not yet told of, each with
  the handler, the `Send` of it and the place in that `Send` (`OwedFor`). The invariant says where what
  is owed will be told: what finished handlers sent, by the callbacks the chain has queued; what the
  running handler has sent in the `Send`s it has closed, by the callbacks it has collected; and what the
  open `Send` has moved, in the lists it has collected (`OpenIsListed`). The numbers of handlers,
  `Send`s and places count down, as the model's bounds do, so of what is owed the next to be told
  belongs to the latest handler (`calls`, since nested sends go first), there to the earliest `Send`
  (`no`), and in it comes in the order of the places (`left`): `CountedDown`. `Tells` then says that
  a list of callbacks tells a set of entries one `Send` after the other, which opening, collecting,
  queueing before the rest, and delivering each preserve. The callbacks of a `Send` are joined over its previous owners by a
  recursive function; a lemma reads it as a list of parts (`OneAfterOther`), by taking a least
  counterexample, so no induction over data is needed.
- `KeyInv` says what is stored of the history of keys: the hash of the latest.
- `MarketInv` is `IInv` with the types of the sale stores, `ForSaleIsListed`, and `UnusedUnsold`: an
  index that is yet to be given out has no sale record, so a mint cannot put up for sale what
  nobody listed. The theorems about money add `Solvent` (the balance is a natural number) and
  `SaleCounted` (each token's sales are counted from its mint).
- `CellInv` carries the free stack as a sequence of cells, which every insert into a freed cell
  pops and every remove pushes; that no cell is lost or handed out twice is then that the sequence has
  each freed cell once. `PageInv` adds: a token that has stayed is shown once if the pages have come
  to its cell, and not at all if not. A page is a run of the used cells (`NthIsThere` and
  `NthGrows` give positions to the cells of a finite set, by their rank).

The modules that extend the ledger have specifications of their own, under which `IInv` is proved
again (`MetaLedgerInv`, `MarketLedgerInv`, the steps of `BatchInv`): what they add to a message leaves
the ledger alone, and the lemmas about the ledger's actions apply.

### What is assumed

Each module has one named assumption on its constants, which TLC evaluates on every run of it. They give the
constants their types and say that `None`, the stand-in for Rust's `Option::None`, is not among
the values it is mixed with, records included. The other conjuncts:

- `BatchAssumption`: `DefaultId` is injective, since it is the decimal rendering of a number.
- `MarketAssumption`: `Prices` are positive, since `set_price` and `buy_token` refuse 0
  (`SetSaleStatus` takes 0 as well, which is a listing without a price); and powers of ten are
  positive natural numbers, which the provers do not know of `^`.
- `AccessAssumption`: a user's string is not one that CreateViewingKey makes. Hashes are taken to be
  injective, which is in the module (`Hash`), not in the assumption.

The theorems on money hold under conditions on royalties that the code does not
enforce, so they are hypotheses of the theorems and not assumptions on the constants. The run `sales`
satisfies both:

- `OneRecipient`: no token has more than one recipient of royalties. With two the contract pays the
  seller once per recipient, which is what `drain` shows.
- `ExactRates`: one recipient per token, and rates a `Decimal` of 18 digits holds exactly, unless
  `buy_token` cannot compute with them anyway. A rate of 19 to 38 digits is rounded when it becomes a
  `Decimal`, and the share is then not the rounded share.

### What stays with TLC

- `SentIsTold` is liveness, which is out of the prover's reach. That nothing is left to tell once a
  transaction is over is proved (`AllToldCorrect`); that a transaction ends is what TLC adds.
- `Conforms` replays given scripts: there is no constant to generalise over.
- `SalesNeverDrain` without `OneRecipient`, and the converse of `ForSaleIsListed`, are false (runs
  `drain` and `burned`).

No module declares a recursive operator; the few recursions are functions.

## Not modelled

- Queries that only copy configuration out (ContractInfo, ContractConfig, Minters,
  RegisteredCodeHash, ContractCreator) and the royalty query beyond the rule that hides recipients.
- Hash and signature primitives of keys and permits; the seed of created keys is what they are made
  from.
- Error texts, padding, memos, serial number dates and descriptions, serialisation, scripts.
- The unit tests of queries, royalties, inventory and mint runs: they compare serialised answers,
  and what those say is checked by the invariants above in every reachable state.
- `BatchReceiveNft` and `RegisterContractWithSnip721` as messages to this contract, which the
  repository's README describes: no handler implements them.

A mint without an id takes the decimal counter as its id; if a minter has used that string
explicitly, the mint fails until somebody mints with an explicit id and moves the counter
(`DefaultIdFree` says that this is the only way). A listed token that is given away by TransferNft
stays listed at the old price; the abstract exchange allows this, because no document says
otherwise, and a buyer then pays the new owner. AllTokens continues after the index its cursor id
has *now*: a client whose cursor was burned and minted again between pages continues after the
newest token.

## Plan

Done: the ledger with approvals, metadata, history, batches, sends, access, queries, the
marketplace over the ledger, the inventory, the replay of the unit tests, and the proofs above.
What is left, in order:

1. More scripts: batches and sends of the unit tests on `Batch` and `Sends`, and the answers of
   `unittest_queries.rs` on `Queries`.
2. A run of `Marketplace` with several contract statuses, for `StopsAllButSales`, which is so far a
   theorem only: the status multiplies the states of `sales`.

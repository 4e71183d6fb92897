------------------------------ MODULE UnitTests ------------------------------
(***************************************************************************)
(* The unit tests of unittest_handles.rs that use only the ledger, its     *)
(* approvals, its metadata and its administration, as scripts.  Each new   *)
(* contract a test sets up begins a script; assertions about transaction   *)
(* lists and wording are left out.                                         *)
(***************************************************************************)
EXTENDS Scenarios, TLC

-----------------------------------------------------------------------------
(* Shorthands.                                                              *)

alice == "alice"
bob == "bob"
T == "Transfer"
VO == "ViewOwner"
VM == "ViewMetadata"

Settings(sealed, toPrivate, minterMay, ownerMay) ==
    [sealed |-> sealed, toPrivate |-> toPrivate, minterMay |-> minterMay, ownerMay |-> ownerMay]
DefaultConfig == Settings(FALSE, FALSE, TRUE, FALSE)
AllFalse == Settings(FALSE, FALSE, FALSE, FALSE)

With(config, steps) == [config |-> config, steps |-> steps]
Admin(msg) == Succeeds("admin", msg)
Alice(msg) == Succeeds(alice, msg)
Mints(id, pub, priv) == Admin(MintMsg(id, alice, pub, priv))

\* view_owner and transfer, or one of them
Both(viewOwner, transfer) == Levels(viewOwner, "Unset", transfer)
Whitelist(g, id, viewOwner, transfer, e) == WhitelistMsg(g, id, Both(viewOwner, transfer), e)
WhitelistMeta(g, id, level, e) == WhitelistMsg(g, id, Levels("Unset", level, "Unset"), e)
GlobalMeta(id, level, e) == GlobalMsg(id, Levels("Unset", level, "Unset"), e)

\* a step after which alice's permissions are these
Leaves(by, msg, all, tokens) == OnSuccess(by, msg, <<Grant(alice, all, tokens)>>)

-----------------------------------------------------------------------------
(* test_set_whitelisted_approval                                            *)

Four == {"NFT1", "NFT2", "NFT3", "NFT4"}
Intact == <<Holds(alice, Four),
            Shows("NFT1", "pub1", None), Shows("NFT2", "pub2", None),
            Shows("NFT3", "pub3", None), Shows("NFT4", "pub4", None)>>

T6 == AtTime(1000000)
BobAllAndToken == Whitelist("bob", "NFT1", "All", "ApproveToken", T6)

FourMinted ==
    <<Fails(alice, Whitelist(bob, "NFT1", "All", "ApproveToken", Never)),
      Mints("NFT1", "pub1", None), Mints("NFT2", "pub2", None),
      Mints("NFT3", "pub3", None),
      OnSuccess("admin", MintMsg("NFT4", alice, "pub4", None), Intact)>>

WhitelistRefused ==
    <<Admin(StatusMsg(StopAll)),
      Fails(alice, Whitelist(bob, "NFT1", "All", "ApproveToken", Never)),
      Admin(StatusMsg(StopTransactions)),
      Fails(bob, Whitelist(bob, "NFT1", "All", "ApproveToken", Never)),
      Fails(alice, Whitelist(bob, None, "All", "ApproveToken", Never)),
      Fails(alice, Whitelist(bob, None, "All", "RevokeToken", Never))>>

\* the same approval twice makes no second entry
AllAndToken ==
    LET all == All(bob, VO, T6)
        tokens == On({"NFT1"}, bob, T, T6)
    IN  <<Leaves(alice, BobAllAndToken, all, tokens), Leaves(alice, BobAllAndToken, all, tokens)>>

\* an ALL with the expiration asked for is left alone
SameExpiration ==
    <<InBlock(100, 1000,
        Leaves(alice, Whitelist(bob, "NFT2", "ApproveToken", "ApproveToken", T6),
               All(bob, VO, T6), On({"NFT1", "NFT2"}, bob, T, T6)))>>

NewAllExpiration ==
    <<Leaves(alice, Whitelist(bob, "NFT2", "All", "ApproveToken", AtHeight(1000)),
             All(bob, VO, AtHeight(1000)),
             On({"NFT1"}, bob, T, T6) \cup On({"NFT2"}, bob, T, AtHeight(1000)))>>

BobTwoTokens == On({"NFT1"}, bob, T, T6) \cup On({"NFT3"}, bob, T, Never)

\* Never is the default; revoking what never was is no error
NeverByDefault ==
    LET all == All(bob, VO, AtHeight(1000))
        tokens == BobTwoTokens \cup On({"NFT2"}, bob, T, AtHeight(1000))
    IN  <<Leaves(alice, Whitelist(bob, "NFT3", "Unset", "ApproveToken", Never), all, tokens),
          Leaves(alice, Whitelist(bob, "NFT4", "Unset", "RevokeToken", Never), all, tokens)>>

DavidAll == All("david", T, AtTime(1500000))
EdmundAll == All("edmund", T, AtHeight(2000))
CharlieToken == On({"NFT2"}, "charlie", T, Never)

RevokedToken ==
    <<Alice(Whitelist("charlie", "NFT2", "Unset", "ApproveToken", Never)),
      Alice(Whitelist("david", None, "Unset", "All", AtTime(1500000))),
      Alice(Whitelist("edmund", None, "Unset", "All", AtHeight(2000))),
      Leaves(alice, Whitelist(bob, "NFT2", "Unset", "RevokeToken", Never),
             All(bob, VO, AtHeight(1000)) \cup DavidAll \cup EdmundAll,
             BobTwoTokens \cup CharlieToken)>>

\* revoking one token of ALL leaves permissions on the others, with ALL's expiration
RevokedFromAll ==
    <<InBlock(100, 1000,
        Leaves(alice, Whitelist(bob, "NFT3", "RevokeToken", "Unset", Never),
               DavidAll \cup EdmundAll,
               BobTwoTokens \cup CharlieToken
                 \cup On({"NFT1", "NFT2", "NFT4"}, bob, VO, AtHeight(1000))))>>

RevokedViewing ==
    <<OnSuccess(alice, Whitelist(bob, "NFT4", "None", "Unset", Never),
        <<Grant(alice, DavidAll \cup EdmundAll, BobTwoTokens \cup CharlieToken)>> \o Intact)>>

\* approving what ALL covers until the same block does nothing
SameExpirationAgain ==
    <<InBlock(100, 1000,
        Leaves(alice, Whitelist("edmund", "NFT4", "Unset", "ApproveToken", AtHeight(2000)),
               DavidAll \cup EdmundAll, BobTwoTokens \cup CharlieToken))>>

EdmundTokens ==
    On({"NFT1", "NFT2", "NFT3"}, "edmund", T, AtHeight(2000))
        \cup On({"NFT4"}, "edmund", T, AtHeight(3000))
EarlyTokens == BobTwoTokens \cup CharlieToken \cup EdmundTokens

\* a new expiration for one token turns ALL into permissions by token
NewTokenExpiration ==
    <<InBlock(100, 1000,
        Leaves(alice, Whitelist("edmund", "NFT4", "Unset", "ApproveToken", AtHeight(3000)),
               DavidAll, EarlyTokens))>>

DavidToken == On({"NFT4"}, "david", T, Never)

\* an ALL that has lapsed is deleted and not turned into anything
LapsedAll ==
    <<InBlock(100, 2000000,
        Leaves(alice, Whitelist("david", "NFT4", "Unset", "ApproveToken", Never),
               {}, EarlyTokens \cup DavidToken))>>

FrankAll ==
    <<Leaves(alice, Whitelist("frank", "NFT4", "All", "Unset", AtHeight(5000)),
             All("frank", VO, AtHeight(5000)), EarlyTokens \cup DavidToken)>>

\* the same as RevokedFromAll for somebody who has no AuthList yet
RevokedWithoutList ==
    <<InBlock(100, 1000,
        OnSuccess(alice, Whitelist("frank", "NFT3", "RevokeToken", "Unset", Never),
          <<Grant(alice, {}, EarlyTokens \cup DavidToken
                    \cup On({"NFT1", "NFT2", "NFT4"}, "frank", VO, AtHeight(5000)))>> \o Intact))>>

AllReplacesTokens ==
    <<Leaves(alice, Whitelist("frank", None, "All", "Unset", AtHeight(2500)),
             All("frank", VO, AtHeight(2500)), EarlyTokens \cup DavidToken)>>

RevokedAll ==
    <<Leaves(alice, Whitelist("frank", None, "None", "Unset", Never),
             {}, EarlyTokens \cup DavidToken)>>

RevokedLast ==
    <<Leaves(alice, Whitelist("charlie", "NFT2", "Unset", "RevokeToken", Never),
             {}, (EarlyTokens \ CharlieToken) \cup DavidToken)>>

NothingIsLeft ==
    <<Alice(Whitelist(bob, None, "Unset", "None", Never)),
      Alice(Whitelist("david", None, "Unset", "None", Never)),
      Leaves(alice, Whitelist("edmund", None, "Unset", "None", Never), {}, {}),
      OnSuccess(alice, Whitelist("edmund", "NFT3", "RevokeToken", "None", Never),
                <<Grant(alice, {}, {})>> \o Intact)>>

Whitelisted ==
    FourMinted \o WhitelistRefused \o AllAndToken \o SameExpiration \o NewAllExpiration
      \o NeverByDefault \o RevokedToken \o RevokedFromAll \o RevokedViewing
      \o SameExpirationAgain \o NewTokenExpiration \o LapsedAll \o FrankAll
      \o RevokedWithoutList \o AllReplacesTokens \o RevokedAll \o RevokedLast \o NothingIsLeft

-----------------------------------------------------------------------------
(* test_cw721_approve and test_cw721_revoke                                 *)

BobUntil6 == All(bob, T, T6)
CharlieUntil5 == All("charlie", T, AtTime(500000))
OneIntact == <<Holds(alice, {"MyNFT"}), Shows("MyNFT", None, "priv")>>

ApproveRefused ==
    <<Fails(alice, ApproveMsg(bob, "MyNFT", Never)),
      Mints("MyNFT", None, "priv"),
      Admin(StatusMsg(StopAll)),
      Fails(alice, ApproveMsg(bob, "MyNFT", Never)),
      Admin(StatusMsg(Normal)),
      Fails("charlie", ApproveMsg(bob, "MyNFT", Never))>>

TwoOperators ==
    <<Alice(Whitelist(bob, None, "Unset", "All", T6)),
      Alice(Whitelist("charlie", "MyNFT", "Unset", "All", AtTime(500000)))>>

ApproveLapsed ==
    TwoOperators \o <<InBlock(100, 2000000, Fails(bob, ApproveMsg("charlie", "MyNFT", Never)))>>

\* an operator cannot give an operator less than it has
ApproveOperator ==
    <<InBlock(100, 1000,
        OnSuccess(bob, ApproveMsg("charlie", "MyNFT", Never),
                  <<Grant(alice, BobUntil6 \cup CharlieUntil5, {})>> \o OneIntact))>>

CharlieMyNFT == On({"MyNFT"}, "charlie", T, Never)

ApproveLapsedOperator ==
    <<InBlock(100, 750000,
        OnSuccess(bob, ApproveMsg("charlie", "MyNFT", Never),
                  <<Grant(alice, BobUntil6, CharlieMyNFT)>> \o OneIntact))>>

BobMyNFT == On({"MyNFT"}, bob, T, AtHeight(200))

OwnerApproves ==
    <<InBlock(100, 100,
        OnSuccess(alice, ApproveMsg(bob, "MyNFT", AtHeight(200)),
                  <<Grant(alice, {}, CharlieMyNFT \cup BobMyNFT)>> \o OneIntact))>>

OneOfThreeApproved ==
    <<Mints("MyNFT2", None, None), Mints("MyNFT3", None, None),
      Leaves(alice, Whitelist("david", None, "Unset", "All", T6),
             All("david", T, T6), CharlieMyNFT \cup BobMyNFT),
      InBlock(100, 100,
        Leaves(alice, ApproveMsg("david", "MyNFT2", AtHeight(300)), {},
               CharlieMyNFT \cup BobMyNFT \cup On({"MyNFT", "MyNFT3"}, "david", T, T6)
                 \cup On({"MyNFT2"}, "david", T, AtHeight(300))))>>

Approved ==
    ApproveRefused \o ApproveLapsed \o ApproveOperator \o ApproveLapsedOperator
      \o OwnerApproves \o OneOfThreeApproved

RevokeRefused ==
    <<Fails(alice, RevokeMsg(bob, "MyNFT")),
      Mints("MyNFT", None, "priv"),
      Admin(StatusMsg(StopAll)),
      Fails(alice, RevokeMsg(bob, "MyNFT")),
      Admin(StatusMsg(StopTransactions)),
      Fails("charlie", RevokeMsg(bob, "MyNFT"))>>

RevokeLapsed ==
    TwoOperators \o <<InBlock(100, 2000000, Fails(bob, RevokeMsg("charlie", "MyNFT")))>>

\* an operator cannot revoke an operator; one whose ALL has lapsed loses it
RevokeOperator ==
    <<InBlock(100, 1000, Fails(bob, RevokeMsg("charlie", "MyNFT"))),
      InBlock(100, 750000,
        OnSuccess(bob, RevokeMsg("charlie", "MyNFT"),
                  <<Grant(alice, BobUntil6, {})>> \o OneIntact))>>

OperatorApprovesAndRevokes ==
    <<InBlock(100, 100,
        OnSuccess(bob, ApproveMsg("charlie", "MyNFT", AtHeight(200)),
          <<Grant(alice, BobUntil6, On({"MyNFT"}, "charlie", T, AtHeight(200)))>> \o OneIntact)),
      InBlock(100, 100,
        OnSuccess(bob, RevokeMsg("charlie", "MyNFT"),
                  <<Grant(alice, BobUntil6, {})>> \o OneIntact))>>

OwnerRevokes ==
    <<OnSuccess(alice, RevokeMsg("charlie", "MyNFT"), <<Grant(alice, BobUntil6, {})>> \o OneIntact),
      InBlock(100, 100,
        OnSuccess(alice, RevokeMsg(bob, "MyNFT"), <<Grant(alice, {}, {})>> \o OneIntact))>>

OneOfThreeRevoked ==
    <<Admin(StatusMsg(Normal)), Mints("MyNFT2", None, None), Mints("MyNFT3", None, None),
      Leaves(alice, Whitelist("david", None, "Unset", "All", Never), All("david", T, Never), {}),
      InBlock(100, 100,
        Leaves(alice, RevokeMsg("david", "MyNFT2"), {},
               On({"MyNFT", "MyNFT3"}, "david", T, Never)))>>

Revoked ==
    RevokeRefused \o RevokeLapsed \o RevokeOperator \o OperatorApprovesAndRevokes
      \o OwnerRevokes \o OneOfThreeRevoked

-----------------------------------------------------------------------------
(* test_cw721_approve_all and test_cw721_revoke_all                         *)

Three == {"NFT1", "NFT2", "NFT3"}
ThreeMinted == <<Mints("NFT1", None, None), Mints("NFT2", None, None), Mints("NFT3", None, None)>>
BobViews == All(bob, VO, Never)
BobTransfers == All(bob, T, Never)

StoppedFor(msg) ==
    <<Admin(StatusMsg(StopAll)), Fails(alice, msg), Admin(StatusMsg(StopTransactions))>>

BobByToken ==
    <<Alice(Whitelist(bob, "NFT1", "Unset", "ApproveToken", Never)),
      Alice(Whitelist(bob, "NFT2", "Unset", "ApproveToken", Never)),
      Leaves(alice, Whitelist(bob, "NFT3", "All", "ApproveToken", Never),
             BobViews, On(Three, bob, T, Never))>>

ApprovedAll ==
    ThreeMinted \o StoppedFor(ApproveAllMsg(bob)) \o BobByToken
      \o <<Leaves(alice, ApproveAllMsg(bob), BobViews \cup BobTransfers, {})>>

RevokeAllRefused == ThreeMinted \o StoppedFor(RevokeAllMsg(bob))

\* neither touches the ALL permission to view
RevokedAllTransfers ==
    RevokeAllRefused \o BobByToken \o
    <<Leaves(alice, RevokeAllMsg(bob), BobViews, {}),
      Leaves(alice, ApproveAllMsg(bob), BobViews \cup BobTransfers, {}),
      Leaves(alice, RevokeAllMsg(bob), BobViews, {})>>

-----------------------------------------------------------------------------
(* test_set_global_approval, test_make_ownership_private                    *)

GlobalRefused ==
    <<Fails(alice, GlobalMsg("NFT1", Both("All", "Unset"), Never)),
      Mints("NFT1", "pub1", None),
      Admin(StatusMsg(StopAll)),
      Fails(alice, GlobalMsg("NFT1", Both("All", "Unset"), Never)),
      Admin(StatusMsg(StopTransactions)),
      Fails(bob, GlobalMsg("NFT1", Both("ApproveToken", "Unset"), Never)),
      Fails(alice, GlobalMsg(None, Both("ApproveToken", "Unset"), Never)),
      Fails(alice, GlobalMsg(None, Both("RevokeToken", "Unset"), Never))>>

AnyoneViews == All(Public, VO, T6)
AnyoneSees == On({"NFT1"}, Public, VM, T6)

GlobalGiven ==
    <<OnSuccess(alice, GlobalMsg("NFT1", Levels("All", "ApproveToken", "Unset"), T6),
        <<Grant(alice, AnyoneViews, AnyoneSees),
          Holds(alice, {"NFT1"}), Shows("NFT1", "pub1", None)>>)>>

\* an approval for one address leaves the public's alone
BobBesideGlobal ==
    <<Leaves(alice, Whitelist(bob, "NFT1", "All", "ApproveToken", T6),
             AnyoneViews \cup All(bob, VO, T6), AnyoneSees \cup On({"NFT1"}, bob, T, T6))>>

GlobalRevoked ==
    <<Leaves(alice, GlobalMsg("NFT1", Levels("All", "None", "Unset"), T6),
             AnyoneViews \cup All(bob, VO, T6), On({"NFT1"}, bob, T, T6))>>

GlobalApprovals == GlobalRefused \o GlobalGiven \o BobBesideGlobal \o GlobalRevoked

\* where ownership is private already there is nothing to store
StaysPrivate ==
    StoppedFor(PrivateMsg) \o <<OnSuccess(alice, PrivateMsg, <<Fact("NeverPrivate", alice)>>)>>

-----------------------------------------------------------------------------
(* test_check_permission, on contracts where ownership is private           *)

NotApproved ==
    <<Mints("NFT1", "pub1", None),
      OnSuccess("admin", MintMsg("NFT2", alice, "pub2", None),
                <<MayNot(bob, "NFT1", VO, 1)>>)>>

\* where both have a permission on the token or both on all, one live suffices
BobLapsed ==
    <<Mints("NFT1", "pub1", None), Mints("NFT2", "pub2", None),
      Alice(WhitelistMeta(bob, "NFT1", "ApproveToken", AtTime(10))),
      OnSuccess(alice, GlobalMeta("NFT1", "ApproveToken", AtTime(1000)),
                <<May(bob, "NFT1", VM, 100)>>),
      Alice(WhitelistMeta(bob, None, "All", AtTime(10))),
      OnSuccess(alice, GlobalMeta(None, "All", AtTime(1000)), <<May(bob, "NFT1", VM, 100)>>)>>

GlobalLapsed ==
    <<Alice(WhitelistMeta(bob, "NFT1", "ApproveToken", AtTime(1000))),
      OnSuccess(alice, GlobalMeta("NFT1", "ApproveToken", AtTime(10)),
                <<May(bob, "NFT1", VM, 100)>>),
      Alice(WhitelistMeta(bob, None, "All", AtTime(10))),
      OnSuccess(alice, GlobalMeta(None, "All", AtTime(1000)), <<May(bob, "NFT1", VM, 100)>>)>>

Crossed ==
    <<Mints("NFT1", "pub1", None), Mints("NFT2", "pub2", None),
      Alice(WhitelistMsg(bob, "NFT1", Levels("ApproveToken", "All", "Unset"), AtTime(100))),
      OnSuccess(alice, GlobalMsg("NFT1", Levels("All", "ApproveToken", "Unset"), AtTime(10)),
        <<MayNot(bob, "NFT1", T, 1), May(bob, "NFT1", VO, 1), May(bob, "NFT1", VM, 1),
          May(bob, "NFT1", VO, 50), May(bob, "NFT1", VM, 50)>>)>>

CharlieToo ==
    <<Alice(Whitelist("charlie", None, "Unset", "All", AtTime(100))),
      OnSuccess(alice, WhitelistMeta("charlie", "NFT1", "ApproveToken", AtTime(100)),
        <<May("charlie", "NFT1", T, 50), May("charlie", "NFT1", VM, 50)>>)>>

-----------------------------------------------------------------------------
(* test_mint, test_set_public_metadata, test_set_private_metadata and       *)
(* test_reveal                                                              *)

MintRefused ==
    <<Admin(StatusMsg(StopTransactions)),
      Fails("admin", MintMsg("MyNFT", alice, "pub", None)),
      Admin(StatusMsg(Normal)),
      Fails("admin", MintMsg("MyNFT", alice, "both", None)),
      Fails(alice, MintMsg("MyNFT", alice, "pub", None))>>

MintedMyNFT ==
    <<OnSuccess("admin", MintMsg("MyNFT", alice, "pub", "priv"),
        <<Holds(alice, {"MyNFT"}), Shows("MyNFT", "pub", "priv"), Grant(alice, {}, {})>>),
      Fails("admin", MintMsg("MyNFT", alice, "pub", "priv"))>>

\* without an id the mint counter gives it
MintedDefault ==
    <<OnSuccess("admin", MintMsg(None, "admin", "new", None),
        <<Holds("admin", {"1"}), Shows("1", "new", None), Holds(alice, {"MyNFT"})>>)>>

UpdateRefused ==
    <<Fails(bob, MetadataMsg("SNIP20", "new", None)),
      Admin(StatusMsg(StopAll)),
      Fails("admin", MetadataMsg("MyNFT", "new", None)),
      Admin(StatusMsg(Normal)),
      Mints("MyNFT", "pub", None),
      Fails(bob, MetadataMsg("MyNFT", "new", None)),
      Fails(alice, MetadataMsg("MyNFT", "new", None))>>

MinterMayNotUpdate == <<Mints("MyNFT", "pub", None), Fails("admin", MetadataMsg("MyNFT", "new", None))>>

MinterUpdates ==
    <<Mints("MyNFT", "pub", None),
      OnSuccess("admin", MetadataMsg("MyNFT", "new", None), <<Shows("MyNFT", "new", None)>>)>>

\* sealed, revealed by its owner and then set by a minter
SealedUpdate ==
    <<Mints("MyNFT", None, "priv"),
      Fails("admin", MetadataMsg("MyNFT", None, "newPriv")),
      Fails(bob, MetadataMsg("SNIP20", None, "newPriv")),
      OnSuccess(alice, RevealMsg("MyNFT"), <<Shows("MyNFT", None, "priv")>>),
      Fails("admin", MetadataMsg("MyNFT", None, "both")),
      OnSuccess("admin", MetadataMsg("MyNFT", "new", "newPriv"),
                <<Shows("MyNFT", "new", "newPriv")>>),
      Admin(StatusMsg(StopAll)),
      Fails("admin", MetadataMsg("MyNFT", None, "priv"))>>

OwnerMayNotUpdate ==
    <<Admin(StatusMsg(StopTransactions)), Fails(alice, MetadataMsg("MyNFT", None, "priv"))>>

OwnerUpdates ==
    <<Mints("MyNFT", "pub", None),
      OnSuccess(alice, MetadataMsg("MyNFT", None, "newPriv"), <<Shows("MyNFT", "pub", "newPriv")>>)>>

\* the mint of the test, its answer dropped, is stopped as well
NothingSealed ==
    <<Admin(StatusMsg(StopAll)),
      Fails("admin", MintMsg("MyNFT", alice, None, "priv")),
      Fails(alice, RevealMsg("MyNFT")),
      Admin(StatusMsg(StopTransactions)),
      Fails(alice, RevealMsg("MyNFT"))>>

RevealedToAll ==
    <<Fails(alice, RevealMsg("MyNFT")),
      Mints("MyNFT", None, "priv"),
      Fails("admin", RevealMsg("MyNFT")),
      OnSuccess(alice, RevealMsg("MyNFT"), <<Shows("MyNFT", "priv", None)>>),
      Fails("admin", RevealMsg("MyNFT"))>>

RevealedToOwner ==
    <<Mints("MyNFT", None, "priv"),
      OnSuccess(alice, RevealMsg("MyNFT"), <<Shows("MyNFT", None, "priv")>>)>>

-----------------------------------------------------------------------------
(* test_burn, with burning enabled, and test_transfer                       *)

BurnRefused ==
    <<Fails(alice, BurnMsg("MyNFT")),
      Mints("MyNFT", "pub", "priv"),
      Fails("admin", BurnMsg("MyNFT")),
      Alice(ApproveMsg("charlie", "MyNFT", AtHeight(10))),
      InBlock(100, 100, Fails("charlie", BurnMsg("MyNFT"))),
      Alice(WhitelistMsg(bob, None, TransferOnly("All"), AtHeight(10))),
      InBlock(100, 100, Fails(bob, BurnMsg("MyNFT")))>>

BobOperator == All(bob, T, AtHeight(10))

OperatorBurns ==
    <<InBlock(1, 100,
        OnSuccess(bob, BurnMsg("MyNFT"),
                  <<Gone("MyNFT", 0), Holds(alice, {}), Grant(alice, BobOperator, {})>>))>>

\* the token beside the burned one keeps its approval
ApprovedBurns ==
    <<Mints("MyNFT2", "pub2", "priv"), Mints("MyNFT3", "pub3", "newPriv"),
      Alice(ApproveMsg("charlie", "MyNFT2", AtHeight(10))),
      Alice(ApproveMsg("david", "MyNFT3", AtHeight(10))),
      InBlock(1, 100,
        OnSuccess("charlie", BurnMsg("MyNFT2"),
          <<Gone("MyNFT2", 1), Holds(alice, {"MyNFT3"}), Shows("MyNFT3", "pub3", "newPriv"),
            Grant(alice, BobOperator, On({"MyNFT3"}, "david", T, AtHeight(10)))>>))>>

OwnerBurns ==
    <<OnSuccess(alice, BurnMsg("MyNFT3"),
        <<Gone("MyNFT3", 2), Holds(alice, {}), Grant(alice, BobOperator, {})>>)>>

TransferStopped ==
    <<Mints("MyNFT", None, "priv"), Admin(StatusMsg(StopTransactions)),
      Fails(alice, TransferMsg(bob, "MyNFT"))>>

TransferRefused ==
    <<Fails(alice, TransferMsg(bob, "MyNFT")),
      Mints("MyNFT", "pub", "priv"),
      Alice(Whitelist(bob, "MyNFT", "ApproveToken", "Unset", Never)),
      Fails(bob, TransferMsg(bob, "MyNFT")),
      Alice(ApproveMsg("charlie", "MyNFT", AtHeight(10))),
      InBlock(100, 100, Fails("charlie", TransferMsg(bob, "MyNFT"))),
      Alice(WhitelistMsg(bob, None, TransferOnly("All"), AtHeight(10))),
      InBlock(100, 100, Fails(bob, TransferMsg("charlie", "MyNFT")))>>

\* the test drops the answer of a transfer to the owner; what it asserts after
TransferToOwner ==
    <<InBlock(1, 100,
        [Fails(bob, TransferMsg(alice, "MyNFT")) EXCEPT !.facts =
          <<Holds(alice, {"MyNFT"}), Shows("MyNFT", "pub", "priv"),
            Grant(alice, BobOperator,
                  On({"MyNFT"}, "charlie", T, AtHeight(10)) \cup On({"MyNFT"}, bob, VO, Never))>>])>>

OperatorTransfers ==
    <<InBlock(1, 100,
        OnSuccess(bob, TransferMsg("david", "MyNFT"),
          <<Holds("david", {"MyNFT"}), Holds(alice, {}), Shows("MyNFT", "pub", "priv"),
            Grant(alice, BobOperator, {}), Grant("david", {}, {})>>))>>

ApprovedTransfers ==
    <<Succeeds("david", ApproveMsg("charlie", "MyNFT", AtHeight(10))),
      InBlock(1, 100,
        OnSuccess("charlie", TransferMsg("charlie", "MyNFT"),
          <<Holds("charlie", {"MyNFT"}), Holds("david", {}), Shows("MyNFT", "pub", "priv"),
            Grant("charlie", {}, {}), Grant("david", {}, {})>>))>>

OwnerTransfers ==
    <<OnSuccess("charlie", TransferMsg(alice, "MyNFT"),
        <<Holds(alice, {"MyNFT"}), Holds("charlie", {}), Grant("charlie", {}, {}),
          Grant(alice, BobOperator, {})>>)>>

-----------------------------------------------------------------------------
(* test_add_minters, test_remove_minters, test_set_minters,                 *)
(* test_change_admin and test_set_contract_status                           *)

Few == {alice, bob}
More == {alice, bob, "charlie"}

Refused(msg) ==
    <<Admin(StatusMsg(StopAll)), Fails("admin", msg),
      Admin(StatusMsg(StopTransactions)), Fails(alice, msg)>>

MintersAre(msg, some) == OnSuccess("admin", msg, <<Fact("Minters", some)>>)

MintersAdded ==
    Refused(MintersMsg("AddMinters", Few)) \o
    <<MintersAre(MintersMsg("AddMinters", Few), Few \cup {"admin"}),
      MintersAre(MintersMsg("AddMinters", {}), Few \cup {"admin"})>>

MintersRemoved ==
    Refused(MintersMsg("RemoveMinters", More)) \o
    <<MintersAre(MintersMsg("AddMinters", More), More \cup {"admin"}),
      MintersAre(MintersMsg("RemoveMinters", {}), More \cup {"admin"}),
      MintersAre(MintersMsg("RemoveMinters", More), {"admin"}),
      MintersAre(MintersMsg("RemoveMinters", {"admin"}), {})>>

MintersSet ==
    Refused(MintersMsg("SetMinters", More)) \o
    <<MintersAre(MintersMsg("SetMinters", More), More),
      MintersAre(MintersMsg("SetMinters", {}), {})>>

AdminChanged ==
    Refused(AdminMsg(alice)) \o <<OnSuccess("admin", AdminMsg(alice), <<Fact("Admin", alice)>>)>>

StatusSet ==
    <<Fails(alice, StatusMsg(StopAll)),
      OnSuccess("admin", StatusMsg(StopAll), <<Fact("Status", StopAll)>>)>>

-----------------------------------------------------------------------------
(* The run.                                                                 *)

TestScripts ==
    [whitelisted |-> With(AllFalse, Whitelisted),
     approved |-> With(DefaultConfig, Approved),
     revoked |-> With(DefaultConfig, Revoked),
     approvedAll |-> With(DefaultConfig, ApprovedAll),
     revokedAll |-> With(DefaultConfig, RevokedAllTransfers),
     global |-> With(AllFalse, GlobalApprovals),
     private |-> With(DefaultConfig, StaysPrivate),
     notApproved |-> With(AllFalse, NotApproved),
     lapsed |-> With(DefaultConfig, BobLapsed \o GlobalLapsed),
     crossed |-> With(DefaultConfig, Crossed \o CharlieToo),
     mintRefused |-> With(DefaultConfig, MintRefused),
     minted |-> With(DefaultConfig, MintedMyNFT \o MintedDefault),
     updateRefused |-> With(DefaultConfig, UpdateRefused),
     minterMayNot |-> With(AllFalse, MinterMayNotUpdate),
     minterUpdates |-> With(DefaultConfig, MinterUpdates),
     sealed |-> With(Settings(TRUE, TRUE, TRUE, FALSE), SealedUpdate \o OwnerMayNotUpdate),
     ownerUpdates |-> With(Settings(FALSE, FALSE, FALSE, TRUE), OwnerUpdates),
     nothingSealed |-> With(AllFalse, NothingSealed),
     revealed |-> With(Settings(TRUE, FALSE, FALSE, FALSE), RevealedToAll),
     unwrapped |-> With(Settings(TRUE, TRUE, FALSE, FALSE), RevealedToOwner),
     burned |-> With(AllFalse, BurnRefused \o OperatorBurns \o ApprovedBurns \o OwnerBurns),
     transferStopped |-> With(AllFalse, TransferStopped),
     transferred |-> With(AllFalse, TransferRefused \o TransferToOwner \o OperatorTransfers
                                      \o ApprovedTransfers \o OwnerTransfers),
     mintersAdded |-> With(DefaultConfig, MintersAdded),
     mintersRemoved |-> With(DefaultConfig, MintersRemoved),
     mintersSet |-> With(DefaultConfig, MintersSet),
     adminChanged |-> With(DefaultConfig, AdminChanged),
     statusSet |-> With(DefaultConfig, StatusSet)]
TestConfigs == {s.config : s \in {TestScripts[n] : n \in DOMAIN TestScripts}}
TestMetas == {"pub1", "pub2", "pub3", "pub4", "pub", "priv", "new", "newPriv", "both"}
FirstNumbers == 0 :> "0" @@ 1 :> "1" @@ 2 :> "2" @@ 3 :> "3"
TestExpirations ==
    {Never} \cup [kind : {"AtHeight"}, at : {10, 200, 300, 1000, 2000, 2500, 3000, 5000}]
      \cup [kind : {"AtTime"}, at : {5, 7, 10, 100, 1000, 500000, 1000000, 1500000}]
=============================================================================

---------------------------- MODULE MCMarketplace ----------------------------
(* Small instances of Marketplace for TLC.                                   *)
EXTENDS Marketplace, TLC

CONSTANTS alice, bob, carol, id0, id1, id2

OnlyNever == {Never}

OneDefaultId == 0 :> id0
OneDefaultIdTwice == OneDefaultId @@ 1 :> id0

AnyMint == [owner : {alice}, transferable : BOOLEAN]
Transferable == [owner : Addr, transferable : {TRUE}]

NoTypes == {{}}

Royalties(decimals, shares) == [decimals |-> decimals, royalties |-> shares]
Share(who, rate) == [recipient |-> who, rate |-> rate]

\* 20 percent to alice, 10 percent to carol in more decimals than buy_token
\* computes with, or all to carol
SingleRoyalties == {Royalties(2, <<Share(alice, 20)>>), Royalties(3, <<Share(carol, 100)>>),
                    Royalties(0, <<Share(carol, 1)>>)}

\* 10 percent each to carol and alice
TwoRoyalties == {Royalties(1, <<Share(carol, 1), Share(alice, 1)>>)}

NoInfos == {}
=============================================================================

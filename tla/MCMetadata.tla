------------------------------ MODULE MCMetadata ------------------------------
(* Small instances of Metadata for TLC.                                      *)
EXTENDS Metadata, TLC

CONSTANTS alice, bob, id0, id1, card, back, both

TwoDefaultIds == 0 :> id0 @@ 1 :> id1
OnlyNever == {Never}
Transferable == [owner : Addr, transferable : {TRUE}]
ViewMeta == SUBSET {"ViewMetadata"}
AnyMetas == [pub : MaybeMeta, priv : MaybeMeta]

Config(sealed, toPrivate, minterMay, ownerMay) ==
    [sealed |-> sealed, toPrivate |-> toPrivate, minterMay |-> minterMay, ownerMay |-> ownerMay]

\* never sealed; sealed and revealed to the public, or to those who may view
ThreeConfigs == {Config(FALSE, FALSE, TRUE, TRUE), Config(TRUE, FALSE, TRUE, FALSE),
                 Config(TRUE, TRUE, FALSE, TRUE)}
=============================================================================

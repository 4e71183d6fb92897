------------------------------- MODULE MCSends -------------------------------
(* Small instances of Sends for TLC: two contracts and a user.               *)
EXTENDS Sends, TLC

CONSTANTS alice, shop, vault, id0, id1

OnlyNever == {Never}
TwoDefaultIds == 0 :> id0 @@ 1 :> id1
ForAliceOrShop == [owner : {alice, shop}, transferable : {TRUE}]
TransferType == SUBSET {"Transfer"}
NoSerial == {None}

OneByOne == [hash |-> TRUE, batch |-> FALSE]
InBatches == [hash |-> TRUE, batch |-> TRUE]
MaybeSupplied == {None, InBatches}
OneKind == {<<vault, OneByOne>>}
=============================================================================

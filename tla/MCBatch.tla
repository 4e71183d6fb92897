------------------------------- MODULE MCBatch -------------------------------
(* Small instances of Batch for TLC.                                         *)
EXTENDS Batch, TLC

CONSTANTS alice, bob, carol, id0, id1, id2

OnlyNever == {Never}

TwoDefaultIds == 0 :> id0 @@ 1 :> id1
ThreeDefaultIds == TwoDefaultIds @@ 2 :> id2

ForAlice == [owner : {alice}, transferable : {TRUE}]

TransferType == SUBSET {"Transfer"}

NoSerial == {None}
=============================================================================

------------------------------ MODULE MCHistory ------------------------------
(* Small instances of History for TLC.                                       *)
EXTENDS History, TLC

CONSTANTS alice, bob, carol, id0, id1

OnlyNever == {Never}
TwoDefaultIds == 0 :> id0 @@ 1 :> id1
ForAliceOrBob == [owner : {alice, bob}, transferable : {TRUE}]
TransferType == SUBSET {"Transfer"}
=============================================================================

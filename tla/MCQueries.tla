------------------------------ MODULE MCQueries ------------------------------
(* Small instances of Queries for TLC.                                       *)
EXTENDS Queries, TLC

CONSTANTS alice, bob, carol, id0, id1, id2, card, back

TwoDefaultIds == 0 :> id0 @@ 1 :> id1
ThreeDefaultIds == TwoDefaultIds @@ 2 :> id2
NeverOrHeight == {Never, [kind |-> "AtHeight", at |-> 1]}
NeverOrTime == {Never, [kind |-> "AtTime", at |-> 1]}
ForAlice == [owner : {alice}, transferable : {TRUE}]
TransferType == SUBSET {"Transfer"}
\* requests for one or two of the three types
OneOrTwoTypes == {types \in SUBSET PermTypes : Cardinality(types) <= 2}
\* a public and a private metadata with every mint, or none
BothMetas == {[pub |-> card, priv |-> back]}
NoMetas == {[pub |-> None, priv |-> None]}
Pairs == [1 .. 2 -> Ids]
NeverSealed == {[sealed |-> FALSE, toPrivate |-> FALSE, minterMay |-> FALSE, ownerMay |-> FALSE]}
=============================================================================

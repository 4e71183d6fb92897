----------------------------- MODULE MCInventory -----------------------------
(* A small instance of Inventory for TLC; the tokens are interchangeable.     *)
EXTENDS Inventory, TLC

AnyToken == Permutations(Tokens)
=============================================================================

------------------------------ MODULE Exchange ------------------------------
(***************************************************************************)
(* What the marketplace promises, token ids and money only: every token    *)
(* has one holder, only tokens with an ask are listed, a token trades at a *)
(* positive ask to somebody else and leaves the trade unlisted, and the    *)
(* house never pays for a trade out of its own cash.                       *)
(***************************************************************************)
EXTENDS Naturals

CONSTANTS
    Ids, Addr, Asks, NoHolder, NoAsk,
    MayDestroyOffered   \* whether a token that is for sale may disappear

VARIABLES
    holder,     \* Ids -> Addr, or NoHolder for an id that is not in use
    ask,        \* Ids -> price, or NoAsk for a token that is not for sale
    listed,     \* the ids shown as for sale
    cash        \* what the house holds

vars == <<holder, ask, listed, cash>>

Held(id) == holder[id] # NoHolder

Init ==
    /\ holder = [id \in Ids |-> NoHolder]
    /\ ask = [id \in Ids |-> NoAsk]
    /\ listed = {}
    /\ cash = 0

Create(id, a) ==
    /\ ~Held(id)
    /\ holder' = [holder EXCEPT ![id] = a]
    /\ UNCHANGED <<ask, listed, cash>>

Give(id, a) ==
    /\ Held(id) /\ holder[id] # a
    /\ holder' = [holder EXCEPT ![id] = a]
    /\ UNCHANGED <<ask, listed, cash>>

\* the ask goes with the token; the id stays listed if it was
Destroy(id) ==
    /\ Held(id) /\ (ask[id] = NoAsk \/ MayDestroyOffered)
    /\ holder' = [holder EXCEPT ![id] = NoHolder]
    /\ ask' = [ask EXCEPT ![id] = NoAsk]
    /\ UNCHANGED <<listed, cash>>

Offer(id, price) ==
    /\ Held(id)
    /\ ask' = [ask EXCEPT ![id] = price]
    /\ listed' = listed \cup {id}
    /\ UNCHANGED <<holder, cash>>

Retract(id) ==
    /\ Held(id)
    /\ ask' = [ask EXCEPT ![id] = NoAsk]
    /\ listed' = listed \ {id}
    /\ UNCHANGED <<holder, cash>>

Trade(id, buyer) ==
    /\ Held(id) /\ holder[id] # buyer
    /\ id \in listed /\ ask[id] \in Nat \ {0}
    /\ holder' = [holder EXCEPT ![id] = buyer]
    /\ ask' = [ask EXCEPT ![id] = NoAsk]
    /\ listed' = listed \ {id}
    /\ cash' \in Nat /\ cash' >= cash

\* money comes in unasked, or the house takes all it has
Bank ==
    /\ cash' \in Nat /\ (cash' >= cash \/ cash' = 0)
    /\ UNCHANGED <<holder, ask, listed>>

Next ==
    \/ \E id \in Ids :
        \/ \E a \in Addr : Create(id, a) \/ Give(id, a) \/ Trade(id, a)
        \/ Destroy(id) \/ Retract(id)
        \/ \E price \in Asks : Offer(id, price)
    \/ Bank

Spec == Init /\ [][Next]_vars
=============================================================================

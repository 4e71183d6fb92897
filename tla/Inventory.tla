------------------------------ MODULE Inventory ------------------------------
(***************************************************************************)
(* The inventory of one owner: an array of cells with a free stack threaded *)
(* through the cells of tokens that left, a map from a token to its cell,  *)
(* and the iterator behind the Tokens query.  The set of tokens kept here  *)
(* is what Snip721.tla calls inventory[o].                                 *)
(***************************************************************************)
EXTENDS Naturals, Sequences, FiniteSets

Seqs == INSTANCE SequencesExt

CONSTANTS
    Tokens,         \* token indices that come and go
    None,           \* Rust's Option::None
    MaxU32,         \* u32::MAX, the limit of InventoryInfo.top
    Limit,          \* the limit a client gives to the Tokens query
    MaxShown        \* bound: after so many tokens a client gives up

VARIABLES
    cell,           \* PREFIX_INVENTORY_CELL
    place,          \* PREFIX_INVENTORY_MAP
    info, saved,    \* InventoryInfo of the running handler, and the stored one
    after,          \* the token a client's next page starts after
    shown,          \* what the client's pages held so far
    steady,         \* tokens that have stayed since the client's first page
    cursorStayed,   \* no cursor has left since
    done            \* the last page was short

invVars == <<cell, place, info, saved>>
pageVars == <<after, shown, steady, cursorStayed, done>>
vars == <<invVars, pageVars>>

Cells == 0 .. MaxU32 - 1
Free(next) == [isFree |-> TRUE, index |-> next]
Occupied(t) == [isFree |-> FALSE, index |-> t]

ASSUME InventoryAssumption ==
    /\ MaxU32 \in Nat /\ Limit \in Nat \ {0} /\ MaxShown \in Nat
    /\ None \notin Tokens /\ None \notin Cells
    /\ None \notin [isFree : BOOLEAN, index : Tokens \cup Cells \cup {None}]

-----------------------------------------------------------------------------
Contains(t) == place[t] # None

InUse == {c \in Cells : c < info.top /\ ~cell[c].isFree}

\* to_set
ToSetOf == {cell[c].index : c \in InUse}

NextTop == info.top + 1

\* pops the free stack, else takes the cell at the top
Insert(t) ==
    LET at == IF info.free # None THEN info.free ELSE info.top IN
    /\ ~ Contains(t)
    /\ IF info.free # None THEN cell[info.free].isFree ELSE info.top < MaxU32
    /\ cell' = [cell EXCEPT ![at] = Occupied(t)]
    /\ place' = [place EXCEPT ![t] = at]
    /\ info' = [top |-> IF info.free = None THEN NextTop ELSE info.top,
                count |-> info.count + 1,
                free |-> IF info.free = None THEN None ELSE cell[info.free].index]
    /\ UNCHANGED <<saved, pageVars>>

\* mutant of Freed: the free stack below the new cell is forgotten
MutFreed == Free(None)

Freed == Free(info.free)

\* mutant of Unplaced: the token stays in the map
MutUnplaced(t) == place

Unplaced(t) == [place EXCEPT ![t] = None]

\* saturating_sub
Remove(t) ==
    /\ Contains(t)
    /\ place' = Unplaced(t)
    /\ cell' = [cell EXCEPT ![place[t]] = Freed]
    /\ info' = [top |-> info.top,
                count |-> IF info.count = 0 THEN 0 ELSE info.count - 1,
                free |-> place[t]]
    /\ steady' = steady \ {t}
    /\ cursorStayed' = (cursorStayed /\ t # after)
    /\ UNCHANGED <<saved, after, shown, done>>

\* the end of a handler; the next one loads what is stored
Save ==
    /\ info # saved
    /\ saved' = info
    /\ UNCHANGED <<cell, place, info, pageVars>>

-----------------------------------------------------------------------------
(* Paging through the inventory; queries run between the transactions.      *)

\* mutant of StartAfter: the page begins with the token it should follow
MutStartAt(t) == place[t]

StartAfter(t) == place[t] + 1

\* the i-th cell of a set
Nth(used, i) == CHOOSE c \in used : Cardinality({d \in used : d < c}) = i - 1

Smaller(m, n) == IF m <= n THEN m ELSE n

\* the tokens next() returns from cell curr on, at most count of them
Page(curr) ==
    LET used == {c \in InUse : c >= curr}
        size == Smaller(Limit, Smaller(saved.count, Cardinality(used)))
    IN  [i \in 1 .. size |-> cell[Nth(used, i)].index]

\* what a page tells the client
Shows(page) ==
    /\ Len(shown) + Len(page) <= MaxShown
    /\ shown' = shown \o page
    /\ after' = IF page = <<>> THEN after ELSE Seqs!Last(page)
    /\ done' = (Len(page) < Limit)
    /\ UNCHANGED invVars

FirstPage ==
    /\ after = None /\ ~done /\ info = saved
    /\ Shows(Page(0))
    /\ steady' = ToSetOf
    /\ UNCHANGED cursorStayed

\* a cursor that is not in the inventory is an error
NextPage ==
    /\ after # None /\ ~done /\ info = saved
    /\ Contains(after)
    /\ Shows(Page(StartAfter(after)))
    /\ UNCHANGED <<steady, cursorStayed>>

Init ==
    /\ cell = [c \in Cells |-> None]
    /\ place = [t \in Tokens |-> None]
    /\ info = [top |-> 0, count |-> 0, free |-> None]
    /\ saved = info
    /\ after = None /\ shown = <<>> /\ steady = {}
    /\ cursorStayed = TRUE /\ done = FALSE

Next ==
    \/ \E t \in Tokens : Insert(t) \/ Remove(t)
    \/ Save \/ FirstPage \/ NextPage

Spec == Init /\ [][Next]_vars

-----------------------------------------------------------------------------
(* Properties.                                                              *)

(***************************************************************************)
(* The map and the cells hold the same tokens, each in one cell, and count *)
(* is their number: contains, owns and to_set agree.                       *)
(***************************************************************************)
MapMatchesCells ==
    /\ \A t \in Tokens, c \in Cells : place[t] = c <=> cell[c] = Occupied(t)
    /\ info.count = Cardinality(ToSetOf)

\* popping the free stack yields these cells, one after the other
Pops(stack) ==
    /\ info.free = IF stack = <<>> THEN None ELSE stack[1]
    /\ \A i \in DOMAIN stack :
          cell[stack[i]].index = IF i = Len(stack) THEN None ELSE stack[i + 1]

(***************************************************************************)
(* Exactly the cells below the top have been stored, and the free stack    *)
(* holds every freed one exactly once: no token's cell is handed out again *)
(* and no freed cell is lost.                                              *)
(***************************************************************************)
FreeStackExact ==
    LET freed == {c \in Cells : c < info.top /\ cell[c].isFree} IN
    /\ \A c \in Cells : cell[c] # None <=> c < info.top
    /\ \E stack \in [1 .. Cardinality(freed) -> freed] :
          (\A c \in freed : \E i \in DOMAIN stack : stack[i] = c) /\ Pops(stack)

(***************************************************************************)
(* A client that pages to the end while tokens come and go has seen every  *)
(* token that stayed all the while exactly once, as long as no token it    *)
(* used as a cursor left in between.                                       *)
(***************************************************************************)
PagesComplete ==
    done /\ cursorStayed =>
        \A t \in steady : Cardinality({i \in DOMAIN shown : shown[i] = t}) = 1
=============================================================================

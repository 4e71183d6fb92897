---------------------------- MODULE InventoryProofs ----------------------------
(***************************************************************************)
(* Proofs about one owner's inventory, for any number of tokens and cells: *)
(* the stack threaded through the freed cells is carried along as a        *)
(* sequence that every insert pops and every remove pushes. A page is a    *)
(* run of the used cells, so pages that follow each other leave none out.  *)
(***************************************************************************)
EXTENDS Inventory, FiniteSetTheorems, SequenceTheorems, TLAPS

CellKind == [isFree : BOOLEAN, index : Tokens \cup Cells \cup {None}]

IsFreed(c) == cell[c] # None /\ cell[c].isFree

Held == {t \in Tokens : Contains(t)}

\* the free stack, as a sequence of the freed cells, each once
IsStack(stack) ==
    /\ stack \in Seq(Cells)
    /\ \A i, j \in DOMAIN stack : stack[i] = stack[j] => i = j
    /\ \A c \in Cells : IsFreed(c) <=> \E i \in DOMAIN stack : stack[i] = c
    /\ Pops(stack)

CellsTyped ==
    /\ cell \in [Cells -> CellKind \cup {None}]
    /\ place \in [Tokens -> Cells \cup {None}]
    /\ info \in [top : 0 .. MaxU32, count : Nat, free : Cells \cup {None}]

BelowTop == \A c \in Cells : cell[c] # None <=> c < info.top

Placed ==
    /\ \A t \in Tokens, c \in Cells : place[t] = c <=> cell[c] = Occupied(t)
    /\ \A c \in Cells : cell[c] # None /\ ~cell[c].isFree => cell[c].index \in Tokens

Counted == IsFiniteSet(Held) /\ info.count = Cardinality(Held)

\* Inductive: map, cells, counter and stack describe the same set of tokens.
CellInv ==
    /\ CellsTyped
    /\ BelowTop
    /\ Placed
    /\ Counted
    /\ \E stack : IsStack(stack)

\* The cell of a token is not that of another, nor free, nor unused.
LEMMA OccupiedKind ==
    ASSUME NEW t \in Tokens
    PROVE  /\ Occupied(t) \in CellKind /\ Occupied(t) # None
           /\ ~Occupied(t).isFree /\ Occupied(t).index = t
<1>1. Occupied(t) \in CellKind
    BY DEF Occupied, CellKind
<1>2. None \notin CellKind
    BY InventoryAssumption DEF CellKind
<1> QED
    BY <1>1, <1>2 DEF Occupied

\* A sequence of cells that is not empty has a first one.
LEMMA FirstCell ==
    ASSUME NEW stack \in Seq(Cells)
    PROVE  /\ DOMAIN stack = 1 .. Len(stack) /\ Len(stack) \in Nat
           /\ \A i \in DOMAIN stack : stack[i] \in Cells
           /\ stack # <<>> => Len(stack) # 0 /\ 1 \in DOMAIN stack
<1>1. DOMAIN stack = 1 .. Len(stack) /\ Len(stack) \in Nat
    BY LenProperties
<1>2. stack # <<>> => Len(stack) # 0
    BY EmptySeq
<1> QED
    BY <1>1, <1>2, ElementOfSeq

\* An empty inventory has no cells.
LEMMA EmptyInventory == Init => CellInv
<1> SUFFICES ASSUME Init PROVE CellInv
    OBVIOUS
<1>1. CellsTyped
    BY InventoryAssumption DEF Init, CellsTyped
<1>2. BelowTop
    BY InventoryAssumption DEF Init, BelowTop, Cells
<1>3. Placed
    <2>1. \A t \in Tokens : Occupied(t) # None
        BY OccupiedKind
    <2> QED
        BY <2>1, InventoryAssumption DEF Init, Placed
<1>4. Counted
    <2>1. Held = {}
        BY DEF Init, Held, Contains
    <2> QED
        BY <2>1, FS_EmptySet DEF Init, Counted
<1>5. IsStack(<<>>)
    BY DEF Init, IsStack, IsFreed, Pops
<1> QED
    BY <1>1, <1>2, <1>3, <1>4, <1>5 DEF CellInv

\* The cell an insert fills is free or the first unused one, and holds no token.
LEMMA InsertAt ==
    ASSUME CellInv, NEW t \in Tokens, Insert(t),
           NEW stack, IsStack(stack),
           NEW at, at = IF info.free # None THEN info.free ELSE info.top
    PROVE  /\ at \in Cells
           /\ cell[at] = None \/ cell[at].isFree
           /\ info.free # None => stack # <<>> /\ stack[1] = at
           /\ info.free = None => stack = <<>> /\ at = info.top /\ cell[at] = None
           /\ cell' = [cell EXCEPT ![at] = Occupied(t)]
           /\ place' = [place EXCEPT ![t] = at]
           /\ place[t] = None
<1>1. info.free # None => stack # <<>> /\ stack[1] = info.free
    BY DEF IsStack, Pops
<1>2. info.free = None => stack = <<>>
    <2> SUFFICES ASSUME stack # <<>> PROVE info.free # None
        OBVIOUS
    <2>1. stack[1] \in Cells
        BY DEF IsStack
    <2> QED
        BY <2>1, InventoryAssumption DEF IsStack, Pops
<1>3. info.free = None => info.top \in Cells /\ cell[info.top] = None
    BY InventoryAssumption DEF Insert, CellInv, CellsTyped, BelowTop, Cells
<1>4. info.free # None => info.free \in Cells /\ cell[info.free].isFree
    BY DEF Insert, CellInv, CellsTyped
<1> QED
    BY <1>1, <1>2, <1>3, <1>4 DEF Insert, Contains

\* Inserting a token keeps the invariant.
LEMMA InsertStep ==
    ASSUME CellInv, NEW t \in Tokens, Insert(t)
    PROVE  CellInv'
<1>1. PICK stack : IsStack(stack)
    BY DEF CellInv
<1>2. PICK at : at = IF info.free # None THEN info.free ELSE info.top
    OBVIOUS
<1>3. /\ at \in Cells
      /\ cell[at] = None \/ cell[at].isFree
      /\ info.free # None => stack # <<>> /\ stack[1] = at
      /\ info.free = None => stack = <<>> /\ at = info.top /\ cell[at] = None
      /\ cell' = [cell EXCEPT ![at] = Occupied(t)]
      /\ place' = [place EXCEPT ![t] = at]
      /\ place[t] = None
    BY <1>1, <1>2, InsertAt
<1>4. info' = [top |-> IF info.free = None THEN info.top + 1 ELSE info.top,
               count |-> info.count + 1,
               free |-> IF info.free = None THEN None ELSE cell[info.free].index]
    BY DEF Insert, NextTop
<1>5. info.free # None => cell[at] # None /\ cell[at].isFree /\ at = info.free /\ info.free \in Cells
    BY <1>1, <1>2, <1>3 DEF Insert, IsStack, IsFreed, CellInv, CellsTyped
<1>6. info.free # None => cell[at].index \in Cells \cup {None}
    <2> SUFFICES ASSUME info.free # None PROVE cell[at].index \in Cells \cup {None}
        OBVIOUS
    <2> stack \in Seq(Cells)
        BY <1>1 DEF IsStack
    <2>0. DOMAIN stack = 1 .. Len(stack) /\ Len(stack) \in Nat /\ 1 \in DOMAIN stack
        BY <1>3, FirstCell
    <2>1. 1 \in DOMAIN stack /\ (1 # Len(stack) => 1 + 1 \in DOMAIN stack)
        BY <2>0
    <2>2. cell[stack[1]].index = IF 1 = Len(stack) THEN None ELSE stack[1 + 1]
        BY <2>1, <1>1 DEF IsStack, Pops
    <2>3. 1 # Len(stack) => stack[1 + 1] \in Cells
        BY <2>1, <1>1, FirstCell DEF IsStack
    <2> QED
        BY <1>3, <2>2, <2>3
<1>7. Occupied(t) \in CellKind /\ Occupied(t) # None /\ ~Occupied(t).isFree
      /\ \A u \in Tokens : Occupied(t) = Occupied(u) => t = u
    BY OccupiedKind
<1>8. CellsTyped'
    <2>1. cell' \in [Cells -> CellKind \cup {None}] /\ place' \in [Tokens -> Cells \cup {None}]
        BY <1>3, <1>7 DEF CellInv, CellsTyped
    <2>2. info.free = None => info.top + 1 \in 0 .. MaxU32
        BY <1>3, InventoryAssumption DEF Cells
    <2> QED
        BY <2>1, <2>2, <1>4, <1>5, <1>6 DEF CellInv, CellsTyped
<1>9. BelowTop'
    <2>1. \A c \in Cells : cell'[c] # None <=> cell[c] # None \/ c = at
        BY <1>3, <1>7 DEF CellInv, CellsTyped
    <2>2. CASE info.free # None
        BY <2>1, <2>2, <1>4, <1>5 DEF CellInv, BelowTop
    <2>3. CASE info.free = None
        <3>1. info'.top = info.top + 1 /\ at = info.top
            BY <2>3, <1>3, <1>4
        <3>2. \A c \in Cells : c < info'.top <=> c < info.top \/ c = at
            BY <3>1, InventoryAssumption DEF CellInv, CellsTyped, Cells
        <3> QED
            BY <2>1, <3>2 DEF CellInv, BelowTop
    <2> QED
        BY <2>2, <2>3
<1>10. Placed'
    <2>1. \A c \in Cells : cell'[c] = IF c = at THEN Occupied(t) ELSE cell[c]
        BY <1>3 DEF CellInv, CellsTyped
    <2>2. \A u \in Tokens : place'[u] = IF u = t THEN at ELSE place[u]
        BY <1>3 DEF CellInv, CellsTyped
    <2>3. \A c \in Cells : cell[c] # Occupied(t)
        BY <1>3, InventoryAssumption DEF CellInv, Placed
    <2>4. \A u \in Tokens : cell[at] # Occupied(u)
        BY <1>3, OccupiedKind
    <2>5. \A u \in Tokens, c \in Cells : place'[u] = c <=> cell'[c] = Occupied(u)
        BY <2>1, <2>2, <2>3, <2>4, <1>3, <1>7 DEF CellInv, Placed
    <2>6. \A c \in Cells : cell'[c] # None /\ ~cell'[c].isFree => cell'[c].index \in Tokens
        BY <2>1 DEF CellInv, Placed, Occupied
    <2> QED
        BY <2>5, <2>6 DEF Placed, Occupied
<1>11. Counted'
    <2>1. Held' = Held \cup {t} /\ t \notin Held
        BY <1>3, InventoryAssumption DEF Held, Contains, CellInv, CellsTyped
    <2> QED
        BY <2>1, <1>4, FS_AddElement DEF CellInv, Counted
<1>12. \E s : IsStack(s)'
    <2>1. \A c \in Cells : IsFreed(c)' <=> IsFreed(c) /\ c # at
        BY <1>3, <1>7 DEF IsFreed, CellInv, CellsTyped
    <2>2. CASE info.free # None
        <3>1. PICK s : s = Tail(stack)
            OBVIOUS
        <3>2. /\ s \in Seq(Cells) /\ Len(s) = Len(stack) - 1
              /\ DOMAIN s = 1 .. Len(stack) - 1
              /\ DOMAIN stack = 1 .. Len(stack) /\ Len(stack) \in Nat \ {0}
              /\ \A i \in DOMAIN s : i + 1 \in DOMAIN stack /\ s[i] = stack[i + 1]
              /\ 1 \in DOMAIN stack
              /\ DOMAIN s \subseteq Nat
            BY <3>1, <2>2, <1>1, <1>3, HeadTailProperties DEF IsStack
        <3>3. ASSUME NEW i \in DOMAIN s, NEW j \in DOMAIN s, s[i] = s[j] PROVE i = j
            <4>1. i + 1 = j + 1
                BY <3>2, <3>3, <1>1 DEF IsStack
            <4> QED
                BY <4>1, <3>2
        <3>4. ASSUME NEW i \in DOMAIN s PROVE s[i] # at
            <4>1. i + 1 # 1
                BY <3>2
            <4> QED
                BY <4>1, <3>2, <2>2, <1>1, <1>3 DEF IsStack
        <3>5. ASSUME NEW c \in Cells PROVE IsFreed(c)' <=> \E i \in DOMAIN s : s[i] = c
            <4>1. ASSUME IsFreed(c), c # at PROVE \E i \in DOMAIN s : s[i] = c
                <5>1. PICK j \in DOMAIN stack : stack[j] = c
                    BY <4>1, <1>1 DEF IsStack
                <5>2. j # 1
                    BY <5>1, <4>1, <2>2, <1>3
                <5>3. j - 1 \in DOMAIN s /\ s[j - 1] = c
                    BY <5>1, <5>2, <3>2
                <5> QED
                    BY <5>3
            <4>2. ASSUME NEW i \in DOMAIN s, s[i] = c PROVE IsFreed(c)
                BY <4>2, <3>2, <1>1 DEF IsStack
            <4> QED
                BY <4>1, <4>2, <2>1, <3>4
        <3>6. Pops(s)'
            <4>1. info'.free = IF Len(stack) = 1 THEN None ELSE stack[2]
                BY <1>1, <1>3, <1>4, <1>5, <2>2, <3>2 DEF IsStack, Pops
            <4>2. info'.free = IF s = <<>> THEN None ELSE s[1]
                BY <4>1, <3>2
            <4>3. ASSUME NEW i \in DOMAIN s
                  PROVE  cell'[s[i]].index = IF i = Len(s) THEN None ELSE s[i + 1]
                <5>1. cell'[s[i]] = cell[stack[i + 1]] /\ i + 1 \in DOMAIN stack
                    BY <3>2, <3>4, <1>3 DEF CellInv, CellsTyped
                <5>2. cell[stack[i + 1]].index =
                          IF i + 1 = Len(stack) THEN None ELSE stack[i + 1 + 1]
                    BY <5>1, <1>1 DEF IsStack, Pops
                <5> QED
                    BY <5>1, <5>2, <3>2
            <4> QED
                BY <4>2, <4>3 DEF Pops
        <3>7. IsStack(s)'
            BY <3>2, <3>3, <3>5, <3>6 DEF IsStack
        <3> QED
            BY <3>7
    <2>3. CASE info.free = None
        <3>1. stack = <<>> /\ \A c \in Cells : ~IsFreed(c)
            BY <2>3, <1>1, <1>3 DEF IsStack
        <3>2. info'.free = None
            BY <2>3, <1>4
        <3>3. IsStack(<<>>)'
            BY <3>1, <3>2, <2>1 DEF IsStack, Pops
        <3> QED
            BY <3>3
    <2> QED
        BY <2>2, <2>3
<1> QED
    BY <1>8, <1>9, <1>10, <1>11, <1>12 DEF CellInv

\* Removing a token pushes its cell and keeps the invariant.
LEMMA RemoveStep ==
    ASSUME CellInv, NEW t \in Tokens, Remove(t)
    PROVE  CellInv'
<1>1. PICK stack : IsStack(stack)
    BY DEF CellInv
<1>2. PICK at : at = place[t]
    OBVIOUS
<1>3. /\ at \in Cells /\ cell[at] = Occupied(t)
      /\ cell' = [cell EXCEPT ![at] = Free(info.free)]
      /\ place' = [place EXCEPT ![t] = None]
    BY <1>2 DEF Remove, Contains, Freed, Unplaced, CellInv, CellsTyped, Placed
<1>4. info' = [top |-> info.top,
               count |-> IF info.count = 0 THEN 0 ELSE info.count - 1,
               free |-> at]
    BY <1>2 DEF Remove
<1>5. /\ Free(info.free) \in CellKind /\ Free(info.free) # None /\ Free(info.free).isFree
      /\ Free(info.free).index = info.free
      /\ \A u \in Tokens : Free(info.free) # Occupied(u)
    <2>1. Free(info.free) \in CellKind
        BY DEF Free, CellKind, CellInv, CellsTyped
    <2>2. None \notin CellKind
        BY InventoryAssumption DEF CellKind
    <2>3. Free(info.free).isFree /\ Free(info.free).index = info.free
        BY DEF Free
    <2> QED
        BY <2>1, <2>2, <2>3, OccupiedKind
<1>6. \A c \in Cells : cell'[c] = IF c = at THEN Free(info.free) ELSE cell[c]
    BY <1>3 DEF CellInv, CellsTyped
<1>7. CellsTyped'
    <2>1. cell' \in [Cells -> CellKind \cup {None}] /\ place' \in [Tokens -> Cells \cup {None}]
        BY <1>3, <1>5 DEF CellInv, CellsTyped
    <2> QED
        BY <2>1, <1>3, <1>4 DEF CellInv, CellsTyped
<1>8. BelowTop'
    BY <1>3, <1>4, <1>5, <1>6, OccupiedKind DEF CellInv, BelowTop
<1>9. Placed'
    <2>1. \A u \in Tokens : place'[u] = IF u = t THEN None ELSE place[u]
        BY <1>3 DEF CellInv, CellsTyped
    <2>2. \A u \in Tokens : u # t => place[u] # at
        BY <1>3, OccupiedKind DEF CellInv, Placed
    <2>3. \A c \in Cells : c # at => cell[c] # Occupied(t)
        BY <1>2 DEF CellInv, Placed
    <2>4. \A u \in Tokens, c \in Cells : place'[u] = c <=> cell'[c] = Occupied(u)
        BY <2>1, <2>2, <2>3, <1>5, <1>6, InventoryAssumption DEF CellInv, Placed
    <2>5. \A c \in Cells : cell'[c] # None /\ ~cell'[c].isFree => cell'[c].index \in Tokens
        BY <1>5, <1>6 DEF CellInv, Placed
    <2> QED
        BY <2>4, <2>5 DEF Placed, Occupied
<1>10. Counted'
    <2>1. Held' = Held \ {t} /\ t \in Held
        BY <1>2, <1>3, InventoryAssumption DEF Held, Contains, CellInv, CellsTyped
    <2>2. Cardinality(Held) # 0
        BY <2>1, FS_EmptySet DEF CellInv, Counted
    <2> QED
        BY <2>1, <2>2, <1>4, FS_RemoveElement DEF CellInv, Counted
<1>11. \E s : IsStack(s)'
    <2> stack \in Seq(Cells)
        BY <1>1 DEF IsStack
    <2>1. PICK s : s = <<at>> \o stack
        OBVIOUS
    <2>2. /\ s \in Seq(Cells) /\ Len(s) = Len(stack) + 1
          /\ DOMAIN s = 1 .. Len(stack) + 1
          /\ DOMAIN stack = 1 .. Len(stack) /\ Len(stack) \in Nat
          /\ s # <<>> /\ s[1] = at
          /\ \A i \in DOMAIN stack : i + 1 \in DOMAIN s /\ s[i + 1] = stack[i]
        <3>1. <<at>> \in Seq(Cells) /\ Len(<<at>>) = 1 /\ <<at>>[1] = at
            BY <1>3
        <3>2. /\ s \in Seq(Cells) /\ Len(s) = 1 + Len(stack)
              /\ \A i \in 1 .. 1 + Len(stack) :
                    s[i] = IF i <= 1 THEN <<at>>[i] ELSE stack[i - 1]
            BY <2>1, <3>1, ConcatProperties
        <3>3. DOMAIN s = 1 .. Len(s) /\ DOMAIN stack = 1 .. Len(stack) /\ Len(stack) \in Nat
            BY <3>2, LenProperties
        <3> QED
            BY <3>1, <3>2, <3>3
    <2>3. ASSUME NEW i \in DOMAIN s, i # 1
          PROVE  i - 1 \in DOMAIN stack /\ s[i] = stack[i - 1]
        <3>1. PICK k \in DOMAIN stack : k + 1 = i /\ k = i - 1
            BY <2>2, <2>3
        <3> QED
            BY <3>1, <2>2
    <2>4. \A i \in DOMAIN stack : stack[i] # at
        BY <1>1, <1>3, OccupiedKind DEF IsStack, IsFreed
    <2>5. ASSUME NEW i \in DOMAIN s, NEW j \in DOMAIN s, s[i] = s[j] PROVE i = j
        <3>1. CASE i = 1 \/ j = 1
            BY <3>1, <2>2, <2>3, <2>4, <2>5
        <3>2. CASE i # 1 /\ j # 1
            <4>1. i - 1 = j - 1
                BY <3>2, <2>3, <2>5, <1>1 DEF IsStack
            <4> QED
                BY <4>1, <2>2
        <3> QED
            BY <3>1, <3>2
    <2>6. ASSUME NEW c \in Cells PROVE IsFreed(c)' <=> \E i \in DOMAIN s : s[i] = c
        <3>1. IsFreed(c)' <=> IsFreed(c) \/ c = at
            BY <1>5, <1>6 DEF IsFreed
        <3>2. IsFreed(c) <=> \E i \in DOMAIN stack : stack[i] = c
            BY <1>1 DEF IsStack
        <3>3. 1 \in DOMAIN s
            BY <2>2
        <3> QED
            BY <3>1, <3>2, <3>3, <2>2, <2>3
    <2>7. Pops(s)'
        <3>1. info'.free = IF s = <<>> THEN None ELSE s[1]
            BY <1>4, <2>2
        <3>2. cell'[s[1]].index = IF 1 = Len(s) THEN None ELSE s[1 + 1]
            <4>1. cell'[s[1]].index = info.free
                BY <1>3, <1>5, <1>6, <2>2
            <4>2. info.free = IF stack = <<>> THEN None ELSE stack[1]
                BY <1>1 DEF IsStack, Pops
            <4>3. stack = <<>> <=> Len(stack) = 0
                BY EmptySeq, FirstCell
            <4> QED
                BY <4>1, <4>2, <4>3, <2>2
        <3>3. ASSUME NEW i \in DOMAIN s, i # 1
              PROVE  cell'[s[i]].index = IF i = Len(s) THEN None ELSE s[i + 1]
            <4>1. PICK k \in DOMAIN stack : k = i - 1 /\ s[i] = stack[k]
                BY <2>3, <3>3
            <4>2. cell'[s[i]] = cell[stack[k]]
                BY <4>1, <1>6, <2>4, FirstCell
            <4>3. cell[stack[k]].index = IF k = Len(stack) THEN None ELSE stack[k + 1]
                BY <1>1 DEF IsStack, Pops
            <4>4. k # Len(stack) => s[i + 1] = stack[k + 1]
                BY <4>1, <2>2
            <4> QED
                BY <4>1, <4>2, <4>3, <4>4, <2>2
        <3> QED
            BY <3>1, <3>2, <3>3 DEF Pops
    <2>8. IsStack(s)'
        BY <2>2, <2>5, <2>6, <2>7 DEF IsStack
    <2> QED
        BY <2>8
<1> QED
    BY <1>7, <1>8, <1>9, <1>10, <1>11 DEF CellInv

\* The invariant holds throughout.
LEMMA CellInvCorrect == Spec => []CellInv
<1>1. CellInv /\ [Next]_vars => CellInv'
    <2> SUFFICES ASSUME CellInv, [Next]_vars PROVE CellInv'
        OBVIOUS
    <2>1. ASSUME UNCHANGED <<cell, place, info>> PROVE CellInv'
        BY <2>1 DEF CellInv, CellsTyped, BelowTop, Placed, Counted, Held, Contains, Occupied,
                    IsStack, IsFreed, Pops
    <2>2. Save \/ FirstPage \/ NextPage \/ UNCHANGED vars => UNCHANGED <<cell, place, info>>
        BY DEF Save, FirstPage, NextPage, Shows, vars, invVars
    <2> QED
        BY <2>1, <2>2, InsertStep, RemoveStep DEF Next
<1> QED
    BY <1>1, EmptyInventory, PTL DEF Spec

\* The cells in use and the tokens of the map belong together.
LEMMA UsedCell ==
    ASSUME CellInv
    PROVE  /\ \A c \in InUse : cell[c].index \in Held /\ place[cell[c].index] = c
           /\ \A t \in Held : place[t] \in InUse /\ cell[place[t]].index = t
<1>1. ASSUME NEW c \in InUse PROVE cell[c].index \in Held /\ place[cell[c].index] = c
    <2>1. c \in Cells /\ cell[c] # None /\ ~cell[c].isFree /\ cell[c] \in CellKind
        BY DEF InUse, CellInv, CellsTyped, BelowTop
    <2>2. cell[c].index \in Tokens /\ cell[c] = Occupied(cell[c].index)
        BY <2>1 DEF CellInv, Placed, Occupied, CellKind
    <2>3. place[cell[c].index] = c
        BY <2>1, <2>2 DEF CellInv, Placed
    <2> QED
        BY <2>1, <2>2, <2>3, InventoryAssumption DEF Held, Contains
<1>2. ASSUME NEW t \in Held PROVE place[t] \in InUse /\ cell[place[t]].index = t
    <2>1. PICK c \in Cells : c = place[t]
        BY DEF Held, Contains, CellInv, CellsTyped
    <2>2. cell[c] = Occupied(t)
        BY <2>1 DEF Held, CellInv, Placed
    <2>3. c < info.top
        BY <2>2, OccupiedKind DEF Held, CellInv, BelowTop
    <2> QED
        BY <2>1, <2>2, <2>3, OccupiedKind DEF InUse, Held
<1> QED
    BY <1>1, <1>2

\* to_set returns the tokens that the map has.
LEMMA ToSetIsHeld ==
    ASSUME CellInv
    PROVE  ToSetOf = Held
BY UsedCell DEF ToSetOf

(***************************************************************************)
(* The map, the cells and the counter agree through any inserts and        *)
(* removes: contains, owns and to_set answer alike.                        *)
(***************************************************************************)
THEOREM MapCorrect == Spec => []MapMatchesCells
<1>1. CellInv => MapMatchesCells
    BY ToSetIsHeld DEF CellInv, Placed, Counted, MapMatchesCells
<1> QED
    BY <1>1, CellInvCorrect, PTL

(***************************************************************************)
(* The free stack of the running handler pops every freed cell exactly     *)
(* once before new cells are taken at the top.                             *)
(***************************************************************************)
THEOREM StackCorrect == Spec => []FreeStackExact
<1> DEFINE freed == {c \in Cells : c < info.top /\ cell[c].isFree}
<1>1. ASSUME CellInv PROVE FreeStackExact
    <2>1. PICK stack : IsStack(stack)
        BY <1>1 DEF CellInv
    <2> stack \in Seq(Cells)
        BY <2>1 DEF IsStack
    <2>2. \A c \in Cells : c \in freed <=> IsFreed(c)
        BY <1>1 DEF CellInv, BelowTop, IsFreed
    <2>3. stack \in [1 .. Len(stack) -> freed] /\ Len(stack) \in Nat
        BY <2>1, <2>2, FirstCell, LenProperties DEF IsStack
    <2>4. \A c \in freed : \E i \in 1 .. Len(stack) : stack[i] = c
        BY <2>1, <2>2, FirstCell DEF IsStack
    <2>5. Cardinality(freed) = Len(stack)
        <3> HIDE DEF freed
        <3>1. stack \in Bijection(1 .. Len(stack), freed)
            BY <2>1, <2>3, <2>4, FirstCell
            DEF IsStack, Bijection, Injection, Surjection, IsInjective
        <3>2. IsFiniteSet(1 .. Len(stack)) /\ Cardinality(1 .. Len(stack)) = Len(stack)
            <4>1. 1 \in Int /\ Len(stack) \in Int /\ Len(stack) >= 0
                BY <2>3
            <4>2. /\ IsFiniteSet(1 .. Len(stack))
                  /\ Cardinality(1 .. Len(stack)) =
                        IF 1 > Len(stack) THEN 0 ELSE Len(stack) - 1 + 1
                BY <4>1, FS_Interval
            <4> QED
                BY <4>1, <4>2
        <3> QED
            BY <3>1, <3>2, FS_Bijection DEF ExistsBijection
    <2>6. \A c \in Cells : cell[c] # None <=> c < info.top
        BY <1>1 DEF CellInv, BelowTop
    <2>7. DOMAIN stack = 1 .. Len(stack) /\ Pops(stack)
        BY <2>1, FirstCell DEF IsStack
    <2> QED
        BY <2>3, <2>4, <2>5, <2>6, <2>7 DEF FreeStackExact
<1> QED
    BY <1>1, CellInvCorrect, PTL

-----------------------------------------------------------------------------
(* What a page holds.                                                       *)

CellsBefore(used, c) == {d \in used : d < c}

\* Fewer cells come before a smaller cell.
LEMMA BeforeGrows ==
    ASSUME NEW used \in SUBSET Nat, IsFiniteSet(used), NEW c \in used, NEW e \in used, c < e
    PROVE  /\ Cardinality(CellsBefore(used, c)) \in Nat
           /\ Cardinality(CellsBefore(used, e)) \in Nat
           /\ Cardinality(used) \in Nat
           /\ Cardinality(CellsBefore(used, c)) < Cardinality(CellsBefore(used, e))
<1> DEFINE low == CellsBefore(used, c)
           high == CellsBefore(used, e)
<1>1. low \subseteq high /\ high \subseteq used /\ c \in high /\ c \notin low
    <2>1. c \in Nat /\ e \in Nat /\ \A d \in used : d \in Nat
        OBVIOUS
    <2>2. \A d \in used : d < c => d < e
        BY <2>1
    <2>3. ~(c < c)
        BY <2>1
    <2> QED
        BY <2>2, <2>3 DEF CellsBefore
<1> HIDE DEF low, high
<1>2. IsFiniteSet(high) /\ IsFiniteSet(low)
    BY <1>1, FS_Subset
<1>3. /\ Cardinality(low) \in Nat /\ Cardinality(high) \in Nat
      /\ Cardinality(used) \in Nat
    BY <1>2, FS_CardinalityType
<1>4. Cardinality(low) <= Cardinality(high) /\ Cardinality(low) # Cardinality(high)
    BY <1>1, <1>2, FS_Subset
<1> QED
    BY <1>3, <1>4 DEF low, high

\* Every position of a finite set of cells has its cell, every cell its position.
LEMMA NthIsThere ==
    ASSUME NEW used \in SUBSET Nat, IsFiniteSet(used), NEW n, n = Cardinality(used)
    PROVE  /\ n \in Nat
           /\ \A i \in 1 .. n : /\ Nth(used, i) \in used
                                /\ Cardinality(CellsBefore(used, Nth(used, i))) = i - 1
           /\ \A c \in used : \E i \in 1 .. n : Nth(used, i) = c
<1> DEFINE pos(c) == Cardinality(CellsBefore(used, c)) + 1
           rank == [c \in used |-> pos(c)]
<1>0. n \in Nat
    BY FS_CardinalityType
<1>1. \A c \in used : CellsBefore(used, c) \subseteq used /\ c \notin CellsBefore(used, c)
    BY DEF CellsBefore
<1>2. \A c \in used : /\ Cardinality(CellsBefore(used, c)) \in Nat
                      /\ Cardinality(CellsBefore(used, c)) < n
    <2> TAKE c \in used
    <2>1. IsFiniteSet(CellsBefore(used, c)) /\ Cardinality(CellsBefore(used, c)) <= n
        BY <1>1, FS_Subset
    <2>2. Cardinality(CellsBefore(used, c)) # n
        BY <1>1, FS_Subset
    <2>3. Cardinality(CellsBefore(used, c)) \in Nat
        BY <2>1, FS_CardinalityType
    <2> QED
        BY <1>0, <2>1, <2>2, <2>3
<1>3. \A c, e \in used : pos(c) = pos(e) => c = e
    <2> SUFFICES ASSUME NEW c \in used, NEW e \in used, pos(c) = pos(e), c # e PROVE FALSE
        OBVIOUS
    <2>1. c < e \/ e < c
        OBVIOUS
    <2> QED
        BY <1>2, <2>1, BeforeGrows
<1>4. rank \in Injection(used, 1 .. n)
    <2>1. \A c \in used : pos(c) \in 1 .. n
        BY <1>0, <1>2
    <2> HIDE DEF pos
    <2>2. rank \in [used -> 1 .. n]
        BY <2>1
    <2>3. \A c, e \in used : rank[c] = rank[e] => c = e
        BY <1>3
    <2> HIDE DEF rank
    <2> QED
        BY <2>2, <2>3 DEF Injection, IsInjective
<1>5. IsFiniteSet(1 .. n) /\ Cardinality(1 .. n) = n
    <2>0. 1 \in Int /\ n \in Int
        BY <1>0
    <2>1. Cardinality(1 .. n) = IF 1 > n THEN 0 ELSE n - 1 + 1
        BY <2>0, FS_Interval
    <2>2. IsFiniteSet(1 .. n)
        BY <2>0, FS_Interval
    <2> QED
        BY <1>0, <2>1, <2>2
<1>6. rank \in Surjection(used, 1 .. n)
    <2> HIDE DEF rank
    <2> QED
        BY <1>4, <1>5, FS_Injection
<1>7. \A i \in 1 .. n : \E c \in used : pos(c) = i
    <2> HIDE DEF pos
    <2>1. \A i \in 1 .. n : \E c \in used : rank[c] = i
        BY <1>6 DEF Surjection
    <2> QED
        BY <2>1
<1>8. ASSUME NEW i \in 1 .. n
      PROVE  Nth(used, i) \in used /\ Cardinality(CellsBefore(used, Nth(used, i))) = i - 1
    <2>1. PICK c \in used : pos(c) = i
        BY <1>7
    <2>2. Cardinality(CellsBefore(used, c)) = i - 1
        BY <1>2, <2>1
    <2>3. Nth(used, i) = CHOOSE d \in used : Cardinality(CellsBefore(used, d)) = i - 1
        BY DEF Nth, CellsBefore
    <2> QED
        BY <2>2, <2>3
<1>9. ASSUME NEW c \in used PROVE \E i \in 1 .. n : Nth(used, i) = c
    <2>1. PICK i \in 1 .. n : i = pos(c)
        BY <1>0, <1>2
    <2>2. Nth(used, i) \in used /\ pos(Nth(used, i)) = pos(c)
        BY <1>2, <1>8, <2>1
    <2> QED
        BY <1>3, <2>2
<1> QED
    BY <1>0, <1>8, <1>9

\* Every used cell has its position.
LEMMA EachHasPosition ==
    ASSUME NEW used \in SUBSET Nat, IsFiniteSet(used), NEW c \in used
    PROVE  \E i \in 1 .. Cardinality(used) : Nth(used, i) = c
BY NthIsThere

\* The cells at two positions are as the positions are.
LEMMA NthGrows ==
    ASSUME NEW used \in SUBSET Nat, IsFiniteSet(used), NEW n, n = Cardinality(used),
           NEW i \in 1 .. n, NEW j \in 1 .. n, i < j
    PROVE  Nth(used, i) < Nth(used, j)
<1>1. PICK c \in used : c = Nth(used, i) /\ Cardinality(CellsBefore(used, c)) = i - 1
    BY NthIsThere
<1>2. PICK e \in used : e = Nth(used, j) /\ Cardinality(CellsBefore(used, e)) = j - 1
    BY NthIsThere
<1>3. n \in Nat /\ c \in Nat /\ e \in Nat
    BY NthIsThere
<1>4. ~(e < c)
    <2> SUFFICES ASSUME e < c PROVE FALSE
        OBVIOUS
    <2>1. j - 1 < i - 1
        BY <1>1, <1>2, BeforeGrows
    <2> QED
        BY <1>3, <2>1
<1>5. c # e
    <2> SUFFICES ASSUME c = e PROVE FALSE
        OBVIOUS
    <2>1. i - 1 = j - 1
        BY <1>1, <1>2
    <2> QED
        BY <1>3, <2>1
<1> QED
    BY <1>1, <1>2, <1>3, <1>4, <1>5

\* There are no more cells in use than tokens.
LEMMA UsedFrom ==
    ASSUME CellInv, NEW used \in SUBSET InUse
    PROVE  /\ used \in SUBSET Nat /\ IsFiniteSet(used)
           /\ Cardinality(used) \in Nat /\ info.count \in Nat
           /\ Cardinality(used) <= info.count
<1> DEFINE f == [c \in used |-> cell[c].index]
<1>1. used \subseteq InUse /\ InUse \subseteq Cells /\ Cells \subseteq Nat
    BY DEF InUse, Cells
<1>2. f \in Injection(used, Held)
    <2>1. f \in [used -> Held]
        BY <1>1, UsedCell
    <2>2. \A c, e \in used : f[c] = f[e] => c = e
        BY <1>1, UsedCell
    <2> HIDE DEF f
    <2> QED
        BY <2>1, <2>2 DEF Injection, IsInjective
<1> HIDE DEF f
<1>3. IsFiniteSet(Held) /\ info.count = Cardinality(Held) /\ info.count \in Nat
    BY DEF CellInv, Counted, CellsTyped
<1>4. IsFiniteSet(used) /\ Cardinality(used) <= Cardinality(Held)
    BY <1>2, <1>3, FS_Injection
<1> QED
    BY <1>1, <1>3, <1>4, FS_CardinalityType

\* A page lists tokens in the order of their cells and passes none over; it is
\* short only if it reaches the last one.
LEMMA PageExact ==
    ASSUME CellInv, info = saved, NEW curr \in Nat, NEW page, page = Page(curr),
           NEW k, k = Len(page)
    PROVE  /\ page \in Seq(Tokens) /\ k \in Nat /\ k <= Limit
           /\ \A i \in 1 .. k : page[i] \in Held /\ place[page[i]] >= curr
           /\ \A i, j \in 1 .. k : i < j => place[page[i]] < place[page[j]]
           /\ \A t \in Held : place[t] >= curr =>
                 \/ \E i \in 1 .. k : page[i] = t
                 \/ k = Limit /\ place[t] > place[page[k]]
<1> PICK used : used = {c \in InUse : c >= curr}
    OBVIOUS
<1> DEFINE size == Smaller(Limit, Smaller(saved.count, Cardinality(used)))
<1>0. /\ used \in SUBSET Nat /\ IsFiniteSet(used)
      /\ Cardinality(used) \in Nat /\ info.count \in Nat
      /\ Cardinality(used) <= info.count
    BY UsedFrom
<1>1. PICK n \in Nat : n = Cardinality(used)
    BY <1>0
<1>2. used \in SUBSET Nat /\ IsFiniteSet(used) /\ saved.count \in Nat /\ n <= saved.count
    BY <1>0, <1>1
<1>3. size \in Nat /\ size <= Limit /\ size <= n /\ (size = Limit \/ size = n)
    BY <1>1, <1>2, InventoryAssumption DEF Smaller
<1>4. page = [i \in 1 .. size |-> cell[Nth(used, i)].index]
    BY DEF Page
<1>5. \A c \in used : c \in InUse /\ c >= curr
    OBVIOUS
<1>6. \A t \in Held : place[t] >= curr => place[t] \in used
    BY UsedCell
<1> HIDE DEF size
<1>7. ASSUME NEW i \in 1 .. size
      PROVE  /\ i \in 1 .. n /\ page[i] \in Held
             /\ place[page[i]] = Nth(used, i) /\ Nth(used, i) >= curr
    <2>1. i \in 1 .. n
        BY <1>3
    <2>2. Nth(used, i) \in used
        BY <1>1, <1>2, <2>1, NthIsThere
    <2> QED
        BY <1>4, <1>5, <2>1, <2>2, UsedCell
<1>8. page \in Seq(Tokens) /\ k = size
    <2>1. page \in [1 .. size -> Tokens]
        BY <1>4, <1>7 DEF Held
    <2> QED
        BY <1>3, <2>1
<1>9. ASSUME NEW i \in 1 .. size, NEW j \in 1 .. size, i < j
      PROVE  place[page[i]] < place[page[j]]
    BY <1>1, <1>2, <1>7, <1>9, NthGrows
<1>10. ASSUME NEW t \in Held, place[t] >= curr, ~ \E i \in 1 .. size : page[i] = t
       PROVE  size = Limit /\ place[t] > place[page[size]]
    <2>0. place[t] \in used
        BY <1>6, <1>10
    <2>1. PICK i \in 1 .. n : Nth(used, i) = place[t]
        BY <1>1, <1>2, <2>0, EachHasPosition
    <2>2. ~(i \in 1 .. size)
        <3> SUFFICES ASSUME i \in 1 .. size PROVE FALSE
            OBVIOUS
        <3>1. page[i] = cell[Nth(used, i)].index
            BY <1>4
        <3>2. page[i] = t
            BY <2>1, <3>1, UsedCell
        <3> QED
            BY <1>10, <3>2
    <2>3. size < i /\ size = Limit /\ size \in 1 .. n /\ size \in 1 .. size
        BY <1>3, <2>2, InventoryAssumption
    <2>4. Nth(used, size) < Nth(used, i)
        BY <1>1, <1>2, <2>3, NthGrows
    <2>5. place[page[size]] = Nth(used, size) /\ Nth(used, size) \in Nat /\ Nth(used, i) \in Nat
        BY <1>1, <1>2, <1>7, <2>3, NthIsThere
    <2> QED
        BY <2>1, <2>3, <2>4, <2>5
<1> QED
    BY <1>3, <1>7, <1>8, <1>9, <1>10

-----------------------------------------------------------------------------
(* Paging to the end.                                                       *)

OnceIn(list, t) == \E i \in DOMAIN list : \A j \in DOMAIN list : list[j] = t <=> j = i
NeverIn(list, t) == \A j \in DOMAIN list : list[j] # t

\* the client's pages have come to where t is
Reached(t) == done \/ (after # None /\ place[t] <= place[after])

\* Inductive over CellInv: what has stayed is shown once if the pages have
\* come to its cell, and not at all if they have not.
PageInv ==
    /\ shown \in Seq(Tokens) /\ after \in Tokens \cup {None}
    /\ done \in BOOLEAN /\ cursorStayed \in BOOLEAN
    /\ steady \subseteq Held
    /\ after = None /\ ~done => shown = <<>>
    /\ cursorStayed =>
         /\ after # None => Contains(after)
         /\ \A t \in steady : IF Reached(t) THEN OnceIn(shown, t) ELSE NeverIn(shown, t)

\* Where a token is in two lists one after the other.
LEMMA JoinedLists ==
    ASSUME NEW s \in Seq(Tokens), NEW p \in Seq(Tokens), NEW t
    PROVE  /\ NeverIn(s, t) /\ NeverIn(p, t) => NeverIn(s \o p, t)
           /\ OnceIn(s, t) /\ NeverIn(p, t) => OnceIn(s \o p, t)
           /\ NeverIn(s, t) /\ OnceIn(p, t) => OnceIn(s \o p, t)
<1>1. PICK n \in Nat : n = Len(s) /\ DOMAIN s = 1 .. n
    BY LenProperties
<1>2. PICK k \in Nat : k = Len(p) /\ DOMAIN p = 1 .. k
    BY LenProperties
<1>3. PICK q \in Seq(Tokens) : q = s \o p
    BY ConcatProperties
<1>4. DOMAIN q = 1 .. n + k
    BY <1>1, <1>2, <1>3, ConcatProperties, LenProperties
<1>5. \A i \in 1 .. n + k : q[i] = IF i <= n THEN s[i] ELSE p[i - n]
    BY <1>1, <1>2, <1>3, ConcatProperties
<1>6. \A j \in 1 .. n + k : IF j <= n THEN j \in 1 .. n ELSE j - n \in 1 .. k
    OBVIOUS
<1>7. NeverIn(s, t) /\ NeverIn(p, t) => NeverIn(q, t)
    BY <1>1, <1>2, <1>4, <1>5, <1>6 DEF NeverIn
<1>8. ASSUME OnceIn(s, t), NeverIn(p, t) PROVE OnceIn(q, t)
    <2>1. PICK i \in DOMAIN s : \A j \in DOMAIN s : s[j] = t <=> j = i
        BY <1>8 DEF OnceIn
    <2>2. \A j \in 1 .. n + k : q[j] = t <=> j = i
        <3> TAKE j \in 1 .. n + k
        <3>1. CASE j <= n
            BY <1>1, <1>5, <1>6, <2>1, <3>1
        <3>2. CASE ~(j <= n)
            <4>1. q[j] # t
                BY <1>2, <1>5, <1>6, <1>8, <3>2 DEF NeverIn
            <4>2. j # i
                BY <1>1, <2>1, <3>2
            <4> QED
                BY <4>1, <4>2
        <3> QED
            BY <3>1, <3>2
    <2>3. i \in 1 .. n + k
        BY <1>1, <2>1
    <2> QED
        BY <1>4, <2>2, <2>3 DEF OnceIn
<1>9. ASSUME NeverIn(s, t), OnceIn(p, t) PROVE OnceIn(q, t)
    <2>1. PICK i \in DOMAIN p : \A j \in DOMAIN p : p[j] = t <=> j = i
        BY <1>9 DEF OnceIn
    <2>2. \A j \in 1 .. n + k : q[j] = t <=> j = n + i
        <3> TAKE j \in 1 .. n + k
        <3>1. CASE j <= n
            BY <1>1, <1>5, <1>6, <1>9, <3>1 DEF NeverIn
        <3>2. CASE ~(j <= n)
            <4>1. q[j] = p[j - n] /\ j - n \in 1 .. k
                BY <1>5, <1>6, <3>2
            <4>2. q[j] = t <=> j - n = i
                BY <1>2, <2>1, <4>1
            <4>3. i \in Nat
                BY <1>2, <2>1
            <4> QED
                BY <4>2, <4>3
        <3> QED
            BY <3>1, <3>2
    <2>3. n + i \in 1 .. n + k
        BY <1>2, <2>1
    <2> QED
        BY <1>4, <2>2, <2>3 DEF OnceIn
<1> QED
    BY <1>3, <1>7, <1>8, <1>9

\* A page shows a token once or never.
LEMMA PageShows ==
    ASSUME CellInv, info = saved, NEW curr \in Nat, NEW page, page = Page(curr),
           NEW k, k = Len(page), NEW t \in Held
    PROVE  /\ place[t] < curr => NeverIn(page, t)
           /\ place[t] >= curr =>
                \/ OnceIn(page, t) /\ k # 0 /\ place[t] <= place[page[k]]
                \/ NeverIn(page, t) /\ k = Limit /\ ~(place[t] <= place[page[k]])
<1>1. /\ page \in Seq(Tokens) /\ k \in Nat /\ k <= Limit
      /\ \A i \in 1 .. k : page[i] \in Held /\ place[page[i]] >= curr
      /\ \A i, j \in 1 .. k : i < j => place[page[i]] < place[page[j]]
      /\ place[t] >= curr =>
           \/ \E i \in 1 .. k : page[i] = t
           \/ k = Limit /\ place[t] > place[page[k]]
    BY PageExact
<1>2. DOMAIN page = 1 .. k
    BY <1>1, LenProperties
<1>3. \A u \in Held : place[u] \in Nat
    BY UsedCell DEF InUse, Cells
<1>4. \A i \in 1 .. k : k \in 1 .. k /\ place[page[i]] <= place[page[k]] /\ place[page[i]] \in Nat
    <2> TAKE i \in 1 .. k
    <2>1. k \in 1 .. k /\ (i < k \/ i = k)
        BY <1>1
    <2>2. place[page[i]] \in Nat /\ place[page[k]] \in Nat
        BY <1>1, <1>3, <2>1
    <2> QED
        BY <1>1, <2>1, <2>2
<1>5. ASSUME place[t] < curr PROVE NeverIn(page, t)
    BY <1>1, <1>2, <1>3, <1>5 DEF NeverIn
<1>6. ASSUME NEW i \in 1 .. k, page[i] = t
      PROVE  OnceIn(page, t) /\ k # 0 /\ place[t] <= place[page[k]]
    <2>1. \A j \in 1 .. k : page[j] = t <=> j = i
        <3> SUFFICES ASSUME NEW j \in 1 .. k, page[j] = t, j # i PROVE FALSE
            BY <1>6
        <3>1. i < j \/ j < i
            OBVIOUS
        <3>2. place[t] < place[t]
            BY <1>1, <1>6, <3>1
        <3> QED
            BY <1>3, <3>2
    <2>2. OnceIn(page, t)
        <3>1. i \in DOMAIN page /\ \A j \in DOMAIN page : page[j] = t <=> j = i
            BY <1>2, <2>1
        <3> QED
            BY <3>1 DEF OnceIn
    <2>3. k # 0 /\ place[t] <= place[page[k]]
        BY <1>4, <1>6
    <2> QED
        BY <2>2, <2>3
<1>7. ASSUME k = Limit, place[t] > place[page[k]]
      PROVE  NeverIn(page, t) /\ ~(place[t] <= place[page[k]])
    <2>1. k \in 1 .. k
        BY <1>1, <1>7, InventoryAssumption
    <2>2. place[t] \in Nat /\ place[page[k]] \in Nat
        BY <1>1, <1>3, <2>1
    <2> QED
        BY <1>2, <1>4, <1>7, <2>2 DEF NeverIn
<1> QED
    BY <1>1, <1>5, <1>6, <1>7

\* A page keeps PageInv if what it shows begins where the pages before ended.
LEMMA ShowsStep ==
    ASSUME CellInv, PageInv, ~done, info = saved, NEW curr \in Nat,
           Shows(Page(curr)), UNCHANGED cursorStayed, steady' \subseteq Held,
           after # None => Contains(after) /\ curr = place[after] + 1,
           cursorStayed => \A t \in steady' : IF place[t] < curr THEN OnceIn(shown, t)
                                              ELSE NeverIn(shown, t)
    PROVE  PageInv'
<1>1. PICK page : page = Page(curr)
    OBVIOUS
<1>2. PICK k : k = Len(page)
    OBVIOUS
<1>3. /\ page \in Seq(Tokens) /\ k \in Nat /\ k <= Limit
      /\ \A i \in 1 .. k : page[i] \in Held /\ place[page[i]] >= curr
    BY <1>1, <1>2, PageExact
<1>4. /\ shown' = shown \o page /\ done' = (k < Limit)
      /\ UNCHANGED <<cell, place, info, saved>>
      /\ after' = IF k = 0 THEN after ELSE page[k]
    BY <1>1, <1>2, <1>3, EmptySeq DEF Shows, invVars, Seqs!Last
<1>5. k # 0 => k \in 1 .. k /\ page[k] \in Held /\ place[page[k]] >= curr
    BY <1>3
<1>6. \A u \in Held : place[u] \in Nat /\ u \in Tokens /\ u # None /\ Contains(u)
    BY UsedCell, InventoryAssumption DEF InUse, Cells, Held
<1>7. shown' \in Seq(Tokens)
    BY <1>3, <1>4, ConcatProperties DEF PageInv
<1>8. /\ after' \in Tokens \cup {None} /\ done' \in BOOLEAN /\ cursorStayed' \in BOOLEAN
      /\ after' # None => Contains(after')
    BY <1>4, <1>5, <1>6 DEF PageInv
<1>9. (after' = None => done') /\ (k = 0 => done')
    <2>1. k = 0 => k < Limit
        BY InventoryAssumption
    <2>2. k = 0 => done'
        BY <1>4, <2>1
    <2>3. k # 0 => after' # None
        BY <1>4, <1>5, <1>6
    <2> QED
        BY <2>2, <2>3
<1>10. ASSUME cursorStayed, NEW t \in steady'
       PROVE  LET reached == done' \/ (after' # None /\ place[t] <= place[after'])
              IN  IF reached THEN OnceIn(shown \o page, t) ELSE NeverIn(shown \o page, t)
    <2>1. t \in Held /\ place[t] \in Nat /\ shown \in Seq(Tokens)
        BY <1>6 DEF PageInv
    <2>2. CASE place[t] < curr
        <3>1. OnceIn(shown \o page, t)
            BY <1>1, <1>2, <1>3, <1>10, <2>1, <2>2, PageShows, JoinedLists
        <3>2. CASE k = 0
            BY <1>9, <3>1, <3>2
        <3>3. CASE k # 0
            <4>1. place[t] <= place[page[k]] /\ page[k] # None
                BY <1>5, <1>6, <2>1, <2>2, <3>3
            <4> QED
                BY <1>4, <3>1, <3>3, <4>1
        <3> QED
            BY <3>2, <3>3
    <2>3. CASE ~(place[t] < curr)
        <3>1. place[t] >= curr /\ NeverIn(shown, t)
            BY <1>10, <2>1, <2>3
        <3>2. CASE OnceIn(page, t) /\ k # 0 /\ place[t] <= place[page[k]]
            <4>1. OnceIn(shown \o page, t)
                BY <1>3, <2>1, <3>1, <3>2, JoinedLists
            <4> QED
                BY <1>4, <1>5, <1>6, <3>2, <4>1
        <3>3. CASE NeverIn(page, t) /\ k = Limit /\ ~(place[t] <= place[page[k]])
            <4>1. NeverIn(shown \o page, t)
                BY <1>3, <2>1, <3>1, <3>3, JoinedLists
            <4>2. k # 0 /\ ~(k < Limit)
                BY <1>3, <3>3, InventoryAssumption
            <4> QED
                BY <1>4, <3>3, <4>1, <4>2
        <3> QED
            BY <1>1, <1>2, <2>1, <3>1, <3>2, <3>3, PageShows
    <2> QED
        BY <2>2, <2>3
<1> QED
    BY <1>4, <1>7, <1>8, <1>9, <1>10 DEF PageInv, Reached, Held, Contains

\* Tokens that come and go between the pages keep PageInv.
LEMMA MovesKeepPages ==
    ASSUME CellInv, PageInv, UNCHANGED <<after, shown, done>>, NEW t \in Tokens,
           \/ /\ ~Contains(t) /\ \E at \in Cells : place' = [place EXCEPT ![t] = at]
              /\ UNCHANGED <<steady, cursorStayed>>
           \/ /\ place' = [place EXCEPT ![t] = None] /\ steady' = steady \ {t}
              /\ cursorStayed' = (cursorStayed /\ t # after)
    PROVE  PageInv'
<1>1. PICK at \in Cells \cup {None} : place' = [place EXCEPT ![t] = at]
    OBVIOUS
<1>2. \A u \in Tokens : u # t => place'[u] = place[u]
    BY <1>1 DEF CellInv, CellsTyped
<1>3. steady' \subseteq steady /\ \A u \in steady' : u \in Held /\ u # t
    BY DEF PageInv, Held
<1>4. cursorStayed' => cursorStayed /\ (after # None => after # t)
    BY DEF PageInv
<1>5. cursorStayed' \in BOOLEAN
    BY DEF PageInv
<1>6. steady' \subseteq Held'
    BY <1>2, <1>3 DEF Held, Contains
<1>7. ASSUME cursorStayed', after # None
      PROVE  after \in Tokens /\ place'[after] = place[after] /\ Contains(after)
    BY <1>2, <1>4, <1>7 DEF PageInv
<1>8. ASSUME cursorStayed', NEW u \in steady'
      PROVE  /\ Reached(u)' <=> Reached(u)
             /\ IF Reached(u) THEN OnceIn(shown, u) ELSE NeverIn(shown, u)
    <2>1. place'[u] = place[u] /\ u \in steady
        BY <1>2, <1>3 DEF Held
    <2>2. Reached(u)' <=> Reached(u)
        BY <1>7, <1>8, <2>1 DEF Reached
    <2> QED
        BY <1>4, <1>8, <2>1, <2>2 DEF PageInv
<1>9. ASSUME cursorStayed', after' # None PROVE Contains(after)'
    <2>1. after \in Tokens /\ place'[after] = place[after] /\ Contains(after)
        BY <1>7, <1>9
    <2> QED
        BY <2>1 DEF Contains
<1>10. ASSUME cursorStayed', NEW u \in steady'
       PROVE  IF Reached(u)' THEN OnceIn(shown', u) ELSE NeverIn(shown', u)
    BY <1>8, <1>10
<1>11. /\ shown' \in Seq(Tokens) /\ after' \in Tokens \cup {None}
       /\ done' \in BOOLEAN /\ (after' = None /\ ~done' => shown' = <<>>)
    BY DEF PageInv
<1> QED
    BY <1>5, <1>6, <1>9, <1>10, <1>11 DEF PageInv, OnceIn, NeverIn

\* Nothing has been shown at first, and every step keeps track.
LEMMA PageInvCorrect == Spec => [](CellInv /\ PageInv)
<1>1. Init => PageInv
    <2> SUFFICES ASSUME Init PROVE PageInv
        OBVIOUS
    <2>1. <<>> \in Seq(Tokens)
        BY EmptySeq
    <2>2. after = None /\ ~done /\ shown = <<>> /\ steady = {} /\ done \in BOOLEAN
        BY DEF Init
    <2>3. cursorStayed \in BOOLEAN
        BY DEF Init
    <2> QED
        BY <2>1, <2>2, <2>3 DEF PageInv
<1>2. CellInv /\ PageInv /\ [Next]_vars => PageInv'
    <2> SUFFICES ASSUME CellInv, PageInv, [Next]_vars PROVE PageInv'
        OBVIOUS
    <2>1. ASSUME NEW t \in Tokens, Insert(t) PROVE PageInv'
        <3>1. PICK stack : IsStack(stack)
            BY DEF CellInv
        <3>2. PICK at : at = IF info.free # None THEN info.free ELSE info.top
            OBVIOUS
        <3>3. at \in Cells /\ place' = [place EXCEPT ![t] = at]
            BY <2>1, <3>1, <3>2, InsertAt
        <3> QED
            BY <2>1, <3>3, MovesKeepPages DEF Insert, pageVars
    <2>2. ASSUME NEW t \in Tokens, Remove(t) PROVE PageInv'
        BY <2>2, MovesKeepPages DEF Remove, Unplaced
    <2>3. CASE Save \/ UNCHANGED vars
        BY <2>3 DEF Save, vars, invVars, pageVars, PageInv, Reached, Held, Contains
    <2>4. CASE FirstPage
        <3>1. /\ after = None /\ ~done /\ info = saved /\ Shows(Page(0))
              /\ UNCHANGED cursorStayed /\ steady' = ToSetOf
            BY <2>4 DEF FirstPage
        <3>2. steady' = Held /\ shown = <<>>
            BY <3>1, ToSetIsHeld DEF PageInv
        <3>3. \A u \in steady' : ~(place[u] < 0) /\ NeverIn(shown, u)
            <4>1. \A u \in Held : place[u] \in Nat
                BY UsedCell DEF InUse, Cells
            <4> QED
                BY <3>2, <4>1 DEF NeverIn
        <3> QED
            BY <3>1, <3>2, <3>3, ShowsStep
    <2>5. CASE NextPage
        <3>1. PICK p : p = place[after]
            OBVIOUS
        <3>2. /\ after # None /\ ~done /\ info = saved /\ Contains(after)
              /\ Shows(Page(p + 1)) /\ UNCHANGED <<steady, cursorStayed>>
            BY <2>5, <3>1 DEF NextPage, StartAfter
        <3>3. \A u \in Held : place[u] \in Nat
            BY UsedCell DEF InUse, Cells
        <3>4. p \in Nat /\ p + 1 \in Nat
            BY <3>1, <3>2, <3>3 DEF PageInv, Held
        <3>5. ASSUME cursorStayed, NEW u \in steady'
              PROVE  IF place[u] < p + 1 THEN OnceIn(shown, u) ELSE NeverIn(shown, u)
            <4>1. u \in steady /\ place[u] \in Nat
                BY <3>2, <3>3, <3>5 DEF PageInv
            <4>2. Reached(u) <=> place[u] < p + 1
                BY <3>1, <3>2, <3>4, <4>1 DEF Reached
            <4> QED
                BY <3>5, <4>1, <4>2 DEF PageInv
        <3>6. steady' \subseteq Held
            BY <3>2 DEF PageInv
        <3> QED
            BY <3>1, <3>2, <3>4, <3>5, <3>6, ShowsStep
    <2> QED
        BY <2>1, <2>2, <2>3, <2>4, <2>5 DEF Next
<1> QED
    BY <1>1, <1>2, CellInvCorrect, PTL DEF Spec

(***************************************************************************)
(* A client that pages to the end while tokens come and go has seen every  *)
(* token that stayed exactly once, however many free cells were filled and *)
(* emptied before or behind it, if the cursors it used stayed.             *)
(***************************************************************************)
THEOREM PagesCorrect == Spec => []PagesComplete
<1>1. PageInv => PagesComplete
    <2> SUFFICES ASSUME PageInv, done, cursorStayed, NEW t \in steady
                 PROVE  Cardinality({i \in DOMAIN shown : shown[i] = t}) = 1
        BY DEF PagesComplete
    <2>1. PICK i \in DOMAIN shown : \A j \in DOMAIN shown : shown[j] = t <=> j = i
        BY DEF PageInv, Reached, OnceIn
    <2>2. {j \in DOMAIN shown : shown[j] = t} = {i}
        BY <2>1
    <2> QED
        BY <2>2, FS_Singleton
<1> QED
    BY <1>1, PageInvCorrect, PTL

-----------------------------------------------------------------------------
(* The inventory as the set it stands for.                                  *)

(***************************************************************************)
(* insert refuses a new token only if there are MaxU32 of them: a freed    *)
(* cell is found again, it is never "corrupt" or "occupied", and the count *)
(* fits a u32 before the token is added as well as after it.               *)
(***************************************************************************)
RoomForMore ==
    /\ info.free # None => cell[info.free] # None /\ cell[info.free].isFree
    /\ info.count <= info.top /\ info.top <= MaxU32
    /\ Cardinality(ToSetOf) < MaxU32 =>
          /\ info.free # None \/ info.top < MaxU32
          /\ info.count + 1 <= MaxU32

\* The cells below the top: the map places each token in one of its own, and,
\* when none is free, fills them all.
LEMMA HeldBelowTop ==
    ASSUME CellInv
    PROVE  /\ info.count <= info.top
           /\ info.free = None => info.count = info.top
<1>1. info.top \in 0 .. MaxU32 /\ info.top \in Nat /\ IsFiniteSet(Held) /\ info.count = Cardinality(Held)
    BY InventoryAssumption DEF CellInv, CellsTyped, Counted
<1>2. PICK top \in Nat : top = info.top
    BY <1>1
<1>3. PICK f : f = [t \in Held |-> place[t]]
    OBVIOUS
<1>4. f \in Injection(Held, 0 .. top - 1)
    <2>1. \A t \in Held : f[t] \in 0 .. top - 1
        BY <1>2, <1>3, UsedCell, InventoryAssumption DEF InUse, Cells
    <2>2. \A s, t \in Held : f[s] = f[t] => s = t
        BY <1>3, UsedCell
    <2> QED
        BY <1>3, <2>1, <2>2 DEF Injection, IsInjective
<1>5. IsFiniteSet(0 .. top - 1) /\ Cardinality(0 .. top - 1) = top
    <2>1. 0 \in Int /\ top - 1 \in Int
        OBVIOUS
    <2>2. /\ IsFiniteSet(0 .. top - 1)
          /\ Cardinality(0 .. top - 1) = IF 0 > top - 1 THEN 0 ELSE (top - 1) - 0 + 1
        BY <2>1, FS_Interval
    <2> QED
        BY <2>2
<1>6. info.count <= info.top
    BY <1>1, <1>2, <1>4, <1>5, FS_Injection
<1>7. ASSUME info.free = None PROVE info.count = info.top
    <2>1. PICK stack : IsStack(stack)
        BY DEF CellInv
    <2>2. stack = <<>>
        <3> SUFFICES ASSUME stack # <<>> PROVE FALSE
            OBVIOUS
        <3>1. info.free = stack[1] /\ stack[1] \in Cells
            BY <2>1, FirstCell DEF IsStack, Pops
        <3> QED
            BY <1>7, <3>1, InventoryAssumption
    <2>3. \A c \in Cells : ~IsFreed(c)
        BY <2>1, <2>2 DEF IsStack
    <2>4. ASSUME NEW c \in 0 .. top - 1 PROVE \E t \in Held : f[t] = c
        <3>1. c \in InUse
            BY <1>1, <1>2, <2>3, <2>4, InventoryAssumption
            DEF InUse, Cells, IsFreed, CellInv, BelowTop
        <3> QED
            BY <1>3, <3>1, UsedCell
    <2>5. f \in Surjection(Held, 0 .. top - 1)
        BY <1>4, <2>4 DEF Surjection, Injection
    <2> QED
        BY <1>1, <1>2, <1>4, <1>5, <2>5, FS_Injection
<1> QED
    BY <1>6, <1>7

(***************************************************************************)
(* An owner can be given a token until MaxU32 are there, however many came *)
(* and went before.                                                        *)
(***************************************************************************)
THEOREM RoomCorrect == Spec => []RoomForMore
<1>1. ASSUME CellInv PROVE RoomForMore
    <2>1. info.free # None => cell[info.free] # None /\ cell[info.free].isFree
        <3> SUFFICES ASSUME info.free # None
                     PROVE  cell[info.free] # None /\ cell[info.free].isFree
            OBVIOUS
        <3>1. PICK stack : IsStack(stack)
            BY <1>1 DEF CellInv
        <3>2. stack # <<>> /\ info.free = stack[1]
            BY <3>1 DEF IsStack, Pops
        <3>3. 1 \in DOMAIN stack /\ stack[1] \in Cells
            BY <3>1, <3>2, FirstCell DEF IsStack
        <3> QED
            BY <3>1, <3>2, <3>3 DEF IsStack, IsFreed
    <2>2. /\ info.top \in 0 .. MaxU32 /\ info.count \in Nat
          /\ info.count = Cardinality(ToSetOf)
        BY <1>1, ToSetIsHeld DEF CellInv, CellsTyped, Counted
    <2> QED
        BY <1>1, <2>1, <2>2, HeldBelowTop, InventoryAssumption DEF RoomForMore
<1> QED
    BY <1>1, CellInvCorrect, PTL

(***************************************************************************)
(* What Snip721.tla says of inventory[o], read from the cells as to_set    *)
(* reads them: a set that starts empty, to which insert adds its token and *)
(* from which remove takes its token, and which nothing else changes.      *)
(***************************************************************************)
IsTokenSet ==
    /\ ToSetOf = {}
    /\ [][ \E t \in Tokens :
              \/ Insert(t) /\ t \notin ToSetOf /\ ToSetOf' = ToSetOf \cup {t}
              \/ Remove(t) /\ t \in ToSetOf /\ ToSetOf' = ToSetOf \ {t}
         ]_ToSetOf

(***************************************************************************)
(* Cells, map and free stack implement the set that the ledger's model has *)
(* in their place.                                                         *)
(***************************************************************************)
THEOREM InventoryIsSet == Spec => IsTokenSet
<1> DEFINE Change == \E t \in Tokens :
              \/ Insert(t) /\ t \notin ToSetOf /\ ToSetOf' = ToSetOf \cup {t}
              \/ Remove(t) /\ t \in ToSetOf /\ ToSetOf' = ToSetOf \ {t}
<1>1. Init => ToSetOf = {}
    <2> SUFFICES ASSUME Init PROVE ToSetOf = {}
        OBVIOUS
    <2>1. Held = {}
        BY DEF Init, Held, Contains
    <2> QED
        BY <2>1, EmptyInventory, ToSetIsHeld
<1>2. ASSUME CellInv, ToSetOf = Held, (ToSetOf = Held)', [Next]_vars
      PROVE  [Change]_ToSetOf
    <2>1. ToSetOf = Held
        BY <1>2
    <2>2. ToSetOf' = Held'
        BY <1>2
    <2>3. ASSUME NEW t \in Tokens, Insert(t)
          PROVE  t \notin Held /\ Held' = Held \cup {t}
        <3>1. PICK stack : IsStack(stack)
            BY <1>2 DEF CellInv
        <3>2. PICK at : at = IF info.free # None THEN info.free ELSE info.top
            OBVIOUS
        <3>3. /\ place' = [place EXCEPT ![t] = at] /\ place[t] = None
              /\ at \in Cells
            BY <1>2, <2>3, <3>1, <3>2, InsertAt
        <3> QED
            BY <1>2, <3>3, InventoryAssumption DEF Held, Contains, CellInv, CellsTyped
    <2>4. ASSUME NEW t \in Tokens, Remove(t)
          PROVE  t \in Held /\ Held' = Held \ {t}
        BY <1>2, <2>4 DEF Remove, Unplaced, Held, Contains, CellInv, CellsTyped
    <2>5. ASSUME Save \/ FirstPage \/ NextPage \/ UNCHANGED vars PROVE UNCHANGED Held
        BY <2>5 DEF Save, FirstPage, NextPage, Shows, vars, invVars, Held, Contains
    <2> QED
        BY <1>2, <2>1, <2>2, <2>3, <2>4, <2>5 DEF Next
<1>3. CellInv => ToSetOf = Held
    BY ToSetIsHeld
<1> QED
    BY <1>1, <1>2, <1>3, CellInvCorrect, PTL DEF Spec, IsTokenSet
=============================================================================

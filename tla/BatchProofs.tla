----------------------------- MODULE BatchProofs -----------------------------
(***************************************************************************)
(* Proofs about lists of tokens: while a handler works through one, the    *)
(* inventories and AuthLists it holds are as exact as those it would have  *)
(* stored after each item, and what the chain would restore is exact too.  *)
(***************************************************************************)
EXTENDS Batch, Snip721Proofs

\* the ledger that the chain would restore
Undone == INSTANCE Snip721 WITH
    mintCnt <- undo.mintCnt, tokenCnt <- undo.tokenCnt, idxOf <- undo.idxOf,
    idOf <- undo.idOf, token <- undo.token, creator <- undo.creator,
    tokPerm <- undo.tokPerm, inventory <- undo.inventory, authList <- undo.authList,
    savedBlock <- undo.savedBlock

HeldInventory ==
    \A a \in Addr, t \in Idx : t \in Inv(a) <=> Exists(t) /\ Owner(t) = a

HeldAuthList ==
    \A o \in Addr, g \in Grantee, p \in PermTypes, t \in Idx :
        t \in authList[o][g][p] \ Lost(o) <=>
            Exists(t) /\ Owner(t) = o /\ tokPerm[t][g][p] # None

\* the default ids of the tokens to come are free unless somebody named one
DefaultsAhead(taken, cnt, ids) ==
    taken \/ \A i \in Idx : i >= cnt => ids[DefaultId[i]] = None

UndoneTokens == {t \in Undone!Idx : Undone!Exists(t)}

UndoExact ==
    /\ Undone!TypeOK
    /\ Undone!IdsExact
    /\ Undone!InventoryExact
    /\ undo.tokenCnt = Cardinality(UndoneTokens)
    /\ Undone!AuthListExact
    /\ Undone!NoDoubleGrant
    /\ DefaultsAhead(undo.ahead, undo.mintCnt, undo.idxOf)

\* whoever is remembered as operator holds a live permission on all of the owner's tokens
OperatorsHold ==
    \A o \in work.operFor :
        \E g \in {work.sender, Public} : Live(allPerm[o][g]["Transfer"], block)

Holding ==
    /\ work \in Work
    /\ status = Normal
    /\ savedBlock = block
    /\ work.kind \in {"Mint", "Clones"} => work.sender \in minters
    /\ work.kind = "Clones" => work.owner \in Addr
    /\ OperatorsHold
    /\ UndoExact

\* Inductive: the ledger as the running handler sees it is exact.
BatchInv ==
    /\ TypeOK
    /\ IdsExact
    /\ SupplyExact
    /\ NoDoubleGrant
    /\ HeldInventory
    /\ HeldAuthList
    /\ DefaultsAhead(ahead, mintCnt, idxOf)
    /\ work # None => Holding

-----------------------------------------------------------------------------
(* What the running handler holds.                                          *)

\* One more inventory, or set of tokens that left, is held.
LEMMA PutHeld ==
    ASSUME NEW f \in Held, NEW a \in Addr, NEW v \in SUBSET Idx
    PROVE  /\ Put(f, a, v) \in Held
           /\ DOMAIN Put(f, a, v) = DOMAIN f \cup {a}
           /\ Put(f, a, v)[a] = v
           /\ \A b \in DOMAIN f : b # a => Put(f, a, v)[b] = f[b]
<1>1. PICK A \in SUBSET Addr : f \in [A -> SUBSET Idx]
    BY DEF Held
<1>2. Put(f, a, v) \in [A \cup {a} -> SUBSET Idx] /\ (A \cup {a}) \in SUBSET Addr
    BY <1>1 DEF Put
<1>3. Put(f, a, v) \in Held
    BY <1>2 DEF Held
<1> QED
    BY <1>3 DEF Put

\* A handler begins with nothing held.
LEMMA NothingIsHeld == NothingHeld \in Held /\ DOMAIN NothingHeld = {}
<1>1. NothingHeld \in [{} -> SUBSET Idx] /\ {} \in SUBSET Addr
    BY DEF NothingHeld
<1> QED
    BY <1>1 DEF Held, NothingHeld

\* Inventories are sets of indices, held or stored.
LEMMA InvTypes ==
    ASSUME TypeOK, work # None => work \in Work, NEW a \in Addr
    PROVE  Inv(a) \in SUBSET Idx /\ Lost(a) \in SUBSET Idx
<1>1. inventory[a] \in SUBSET Idx
    BY DEF TypeOK
<1>2. ASSUME NEW f \in Held, a \in DOMAIN f PROVE f[a] \in SUBSET Idx
    BY <1>2 DEF Held
<1> QED
    BY <1>1, <1>2 DEF Inv, Lost, Work

\* A step of a handler on the inventories it holds.
LEMMA HeldStep ==
    ASSUME work \in Work, work # None, work' \in Work, UNCHANGED <<inventory, authList>>,
           NEW a \in Addr, NEW v \in SUBSET Idx, work'.invs = Put(work.invs, a, v)
    PROVE  \A b \in Addr : Inv(b)' = IF b = a THEN v ELSE Inv(b)
<1>1. work.invs \in Held /\ work' # None
    BY BatchAssumption DEF Work
<1>2. /\ DOMAIN work'.invs = DOMAIN work.invs \cup {a}
      /\ work'.invs[a] = v
      /\ \A b \in DOMAIN work.invs : b # a => work'.invs[b] = work.invs[b]
    BY DEF Put
<1> QED
    BY <1>1, <1>2 DEF Inv

\* The same for the tokens a handler took away: only the list of a changes.
LEMMA LostStep ==
    ASSUME work \in Work, work # None, work' \in Work,
           NEW a \in Addr, NEW v \in SUBSET Idx, work'.removed = Put(work.removed, a, v)
    PROVE  \A b \in Addr : Lost(b)' = IF b = a THEN v ELSE Lost(b)
<1>1. work.removed \in Held /\ work' # None
    BY BatchAssumption DEF Work
<1>2. /\ DOMAIN work'.removed = DOMAIN work.removed \cup {a}
      /\ work'.removed[a] = v
      /\ \A b \in DOMAIN work.removed : b # a => work'.removed[b] = work.removed[b]
    BY DEF Put
<1> QED
    BY <1>1, <1>2 DEF Lost

-----------------------------------------------------------------------------
(* The items of a list.                                                     *)

\* What a transferred item does to what is held.
LEMMA MoveHeld ==
    ASSUME TypeOK, work \in Work, work # None, work.left > 0,
           NEW t, Exists(t), NEW to \in Addr, Owner(t) # to, MoveItem(t, to)
    PROVE  /\ work' \in Work
           /\ work' = [work EXCEPT !.left = @ - 1, !.operFor = OperForAfter(t),
                                   !.removed = LostAfter(t), !.invs = InvsAfterMove(t, to)]
           /\ \A a \in Addr : Inv(a)' = IF a = Owner(t) THEN Inv(a) \ {t}
                                       ELSE IF a = to THEN Inv(a) \cup {t} ELSE Inv(a)
           /\ \A a \in Addr : Lost(a)' = IF a = Owner(t) THEN Lost(a) \cup {t} ELSE Lost(a)
<1>1. PICK o : o = Owner(t)
    OBVIOUS
<1>2. t \in Idx /\ o \in Addr
    BY <1>1, OwnerType
<1>3. \A a \in Addr : Inv(a) \in SUBSET Idx /\ Lost(a) \in SUBSET Idx
    BY InvTypes
<1>4. /\ work.invs \in Held /\ work.removed \in Held /\ work.operFor \in SUBSET Addr
      /\ work.left \in Nat
    BY DEF Work
<1>5. Put(work.invs, to, Inv(to) \cup {t}) \in Held
    BY <1>2, <1>3, <1>4, PutHeld
<1>6. InvsAfterMove(t, to) \in Held /\ LostAfter(t) \in Held
    <2>1. (Inv(o) \ {t}) \in SUBSET Idx /\ (Lost(o) \cup {t}) \in SUBSET Idx
        BY <1>2, <1>3
    <2>2. Put(Put(work.invs, to, Inv(to) \cup {t}), o, Inv(o) \ {t}) \in Held
        BY <1>2, <1>5, <2>1, PutHeld
    <2>3. Put(work.removed, o, Lost(o) \cup {t}) \in Held
        BY <1>2, <1>4, <2>1, PutHeld
    <2> QED
        BY <1>1, <2>2, <2>3 DEF InvsAfterMove, LostAfter
<1>7. OperForAfter(t) \in SUBSET Addr
    BY <1>1, <1>2, <1>4 DEF OperForAfter
<1>8. work' = [work EXCEPT !.left = @ - 1, !.operFor = OperForAfter(t),
                          !.removed = LostAfter(t), !.invs = InvsAfterMove(t, to)]
    BY DEF MoveItem
<1>9. work' \in Work /\ work'.invs = InvsAfterMove(t, to) /\ work'.removed = LostAfter(t)
    <2>1. work.left - 1 \in Nat
        BY <1>4
    <2> QED
        BY <1>6, <1>7, <1>8, <2>1 DEF Work
<1>10. work' # None
    BY <1>9, BatchAssumption
<1>11. \A a \in Addr : Lost(a)' = IF a = o THEN Lost(a) \cup {t} ELSE Lost(a)
    BY <1>1, <1>2, <1>3, <1>9, LostStep DEF LostAfter
<1>12. \A a \in Addr : Inv(a)' = IF a = o THEN Inv(a) \ {t}
                                 ELSE IF a = to THEN Inv(a) \cup {t} ELSE Inv(a)
    <2>1. work'.invs = Put(Put(work.invs, to, Inv(to) \cup {t}), o, Inv(o) \ {t})
        BY <1>1, <1>9 DEF InvsAfterMove
    <2>2. /\ DOMAIN work'.invs = DOMAIN work.invs \cup {to, o}
          /\ work'.invs[o] = Inv(o) \ {t}
          /\ work'.invs[to] = Inv(to) \cup {t}
          /\ \A b \in DOMAIN work.invs : b # o /\ b # to => work'.invs[b] = work.invs[b]
        BY <1>1, <2>1 DEF Put
    <2>3. inventory' = inventory
        BY DEF MoveItem
    <2> QED
        BY <1>1, <1>2, <1>10, <2>2, <2>3 DEF Inv
<1> QED
    BY <1>1, <1>8, <1>9, <1>11, <1>12

\* What the chain would restore stays as it is until the message ends.
LEMMA UndoKept ==
    ASSUME UndoExact, UNCHANGED <<undo, configVars, allPerm, ownerPriv, block>>
    PROVE  UndoExact'
<1>1. Undone!TypeOK'
    BY DEF UndoExact, Undone!TypeOK, configVars
<1>2. Undone!IdsExact' /\ Undone!InventoryExact' /\ UndoneTokens' = UndoneTokens
    BY DEF UndoExact, Undone!IdsExact, Undone!InventoryExact, UndoneTokens,
           Undone!Exists, Undone!Owner
<1>3. Undone!AuthListExact' /\ Undone!NoDoubleGrant'
    BY DEF UndoExact, Undone!AuthListExact, Undone!NoDoubleGrant,
           Undone!Exists, Undone!Owner
<1> QED
    BY <1>1, <1>2, <1>3 DEF UndoExact, DefaultsAhead

\* An owner is remembered for an ALL permission that the sender has passed by.
LEMMA OperatorsKept ==
    ASSUME OperatorsHold, NEW t, Permitted(t), UNCHANGED <<allPerm, block>>,
           work'.operFor = OperForAfter(t), work'.sender = work.sender
    PROVE  OperatorsHold'
<1>1. ASSUME PassesByAll(t), Owner(t) \notin work.operFor
      PROVE  \E g \in {work.sender, Public} : Live(allPerm[Owner(t)][g]["Transfer"], block)
    BY <1>1 DEF PassesByAll, Permitted, CheckPermission, CheckPermCore
<1> QED
    BY <1>1 DEF OperatorsHold, OperForAfter, Live

\* A transferred item keeps the ledger exact.
LEMMA MoveInv ==
    ASSUME BatchInv, work # None, work.left > 0,
           NEW t, Exists(t), NEW to \in Addr, Owner(t) # to,
           Permitted(t), MoveItem(t, to)
    PROVE  BatchInv'
<1>1. PICK o : o = Owner(t)
    OBVIOUS
<1>2. /\ TypeOK /\ work \in Work /\ Holding
      /\ t \in Idx /\ o \in Addr /\ o # to /\ token[t] \in TokenInfo
    BY <1>1, OwnerType DEF BatchInv, Holding
<1>3. /\ work' \in Work
      /\ work' = [work EXCEPT !.left = @ - 1, !.operFor = OperForAfter(t),
                              !.removed = LostAfter(t), !.invs = InvsAfterMove(t, to)]
      /\ \A a \in Addr : Inv(a)' = IF a = o THEN Inv(a) \ {t}
                                  ELSE IF a = to THEN Inv(a) \cup {t} ELSE Inv(a)
      /\ \A a \in Addr : Lost(a)' = IF a = o THEN Lost(a) \cup {t} ELSE Lost(a)
    BY <1>1, <1>2, MoveHeld
<1>4. \A u \in Idx : /\ Exists(u)' <=> Exists(u)
                     /\ u # t => Owner(u)' = Owner(u)
                     /\ tokPerm'[u] = IF u = t THEN NoGrants ELSE tokPerm[u]
    BY <1>2, SnipAssumption DEF MoveItem, MovedPerms, Exists, Owner, TypeOK, TokenInfo
<1>5. Owner(t)' = to
    BY <1>2 DEF MoveItem, Owner, TypeOK
<1>6. \A g \in Grantee, p \in PermTypes : NoGrants[g][p] = None
    BY DEF NoGrants, NoPerms
<1>7. UNCHANGED <<configVars, mintCnt, tokenCnt, idxOf, idOf, creator, inventory>>
      /\ UNCHANGED <<allPerm, authList, ownerPriv, block, savedBlock>>
      /\ UNCHANGED <<undo, runNum, runInfo, ahead>>
    BY DEF MoveItem
<1>8. TypeOK'
    <2>1. token' \in [Idx -> TokenInfo \cup {None}]
        <3>1. [owner |-> to, transferable |-> token[t].transferable] \in TokenInfo
            BY <1>2 DEF TokenInfo
        <3>2. token' = [token EXCEPT ![t] = [owner |-> to, transferable |-> token[t].transferable]]
            BY DEF MoveItem
        <3> QED
            BY <1>2, <3>1, <3>2 DEF TypeOK, TokenInfo
    <2>2. tokPerm' \in [Idx -> PermMap]
        BY <1>2, GrantTypes DEF MoveItem, MovedPerms, TypeOK, PermMap
    <2> QED
        BY <1>2, <1>7, <2>1, <2>2 DEF TypeOK, TokenInfo, PermMap, configVars
<1>9. IdsExact'
    BY <1>4, <1>7 DEF BatchInv, IdsExact
<1>10. SupplyExact'
    BY <1>4, <1>7 DEF BatchInv, SupplyExact
<1>11. NoDoubleGrant'
    <2>1. \A u \in Idx : u # t /\ Exists(u)' => Owner(u)' = Owner(u) /\ tokPerm'[u] = tokPerm[u]
        BY <1>4
    <2> QED
        BY <1>2, <1>4, <1>6, <1>7, <2>1 DEF BatchInv, NoDoubleGrant
<1>12. HeldInventory'
    <2> SUFFICES ASSUME NEW a \in Addr, NEW u \in Idx
                 PROVE  u \in Inv(a)' <=> Exists(u)' /\ Owner(u)' = a
        BY DEF HeldInventory
    <2>1. u \in Inv(a) <=> Exists(u) /\ Owner(u) = a
        BY DEF BatchInv, HeldInventory
    <2> QED
        BY <1>1, <1>2, <1>3, <1>4, <1>5, <2>1
<1>13. HeldAuthList'
    <2> SUFFICES ASSUME NEW a \in Addr, NEW g \in Grantee, NEW p \in PermTypes, NEW u \in Idx
                 PROVE  u \in authList'[a][g][p] \ Lost(a)' <=>
                            Exists(u)' /\ Owner(u)' = a /\ tokPerm'[u][g][p] # None
        BY DEF HeldAuthList
    <2>1. u \in authList[a][g][p] \ Lost(a) <=>
              Exists(u) /\ Owner(u) = a /\ tokPerm[u][g][p] # None
        BY DEF BatchInv, HeldAuthList
    <2>2. CASE u = t
        BY <1>1, <1>3, <1>4, <1>5, <1>6, <1>7, <2>1, <2>2
    <2>3. CASE u # t
        BY <1>3, <1>4, <1>7, <2>1, <2>3
    <2> QED
        BY <2>2, <2>3
<1>14. Holding'
    <2>1. OperatorsHold'
        <3>1. work'.operFor = OperForAfter(t) /\ work'.sender = work.sender
            BY <1>2, <1>3 DEF Work
        <3> QED
            BY <1>2, <1>7, <3>1, OperatorsKept DEF Holding
    <2>2. UndoExact'
        BY <1>2, <1>7, UndoKept DEF Holding
    <2> QED
        BY <1>2, <1>3, <1>7, <2>1, <2>2 DEF Holding, configVars
<1> QED
    BY <1>7, <1>8, <1>9, <1>10, <1>11, <1>12, <1>13, <1>14 DEF BatchInv, DefaultsAhead

\* What a burned item does to what is held.
LEMMA BurnHeld ==
    ASSUME TypeOK, work \in Work, NEW id, BurnItem(id), NEW t, t = idxOf[id], Exists(t)
    PROVE  /\ work' \in Work
           /\ work'.operFor = OperForAfter(t) /\ work'.sender = work.sender
           /\ work'.kind = work.kind /\ work'.owner = work.owner
           /\ \A a \in Addr : Inv(a)' = IF a = Owner(t) THEN Inv(a) \ {t} ELSE Inv(a)
           /\ \A a \in Addr : Lost(a)' = IF a = Owner(t) THEN Lost(a) \cup {t} ELSE Lost(a)
<1>1. PICK o : o = Owner(t)
    OBVIOUS
<1>2. t \in Idx /\ o \in Addr
    BY <1>1, OwnerType
<1>3. \A a \in Addr : Inv(a) \in SUBSET Idx /\ Lost(a) \in SUBSET Idx
    BY InvTypes
<1>4. /\ work.invs \in Held /\ work.removed \in Held /\ work.operFor \in SUBSET Addr
      /\ work.left \in Nat /\ work.left > 0 /\ work # None
    BY DEF Work, BurnItem, At
<1>5. (Inv(o) \ {t}) \in SUBSET Idx /\ (Lost(o) \cup {t}) \in SUBSET Idx
    BY <1>2, <1>3
<1>6. Put(work.invs, o, Inv(o) \ {t}) \in Held /\ LostAfter(t) \in Held
    BY <1>1, <1>2, <1>4, <1>5, PutHeld DEF LostAfter
<1>7. OperForAfter(t) \in SUBSET Addr
    BY <1>1, <1>2, <1>4 DEF OperForAfter
<1>8. work' = [work EXCEPT !.left = @ - 1, !.operFor = OperForAfter(t),
                          !.removed = LostAfter(t), !.invs = Put(@, o, Inv(o) \ {t})]
    BY <1>1 DEF BurnItem
<1>9. /\ work' \in Work
      /\ work'.invs = Put(work.invs, o, Inv(o) \ {t}) /\ work'.removed = LostAfter(t)
      /\ work'.operFor = OperForAfter(t) /\ work'.sender = work.sender
      /\ work'.kind = work.kind /\ work'.owner = work.owner
    <2>1. work.left - 1 \in Nat
        BY <1>4
    <2> QED
        BY <1>6, <1>7, <1>8, <2>1 DEF Work
<1>10. UNCHANGED <<inventory, authList>>
    BY DEF BurnItem
<1>11. \A a \in Addr : Lost(a)' = IF a = o THEN Lost(o) \cup {t} ELSE Lost(a)
    BY <1>1, <1>2, <1>4, <1>5, <1>9, LostStep DEF LostAfter
<1>12. \A a \in Addr : Inv(a)' = IF a = o THEN Inv(o) \ {t} ELSE Inv(a)
    BY <1>2, <1>4, <1>5, <1>9, <1>10, HeldStep
<1> QED
    BY <1>1, <1>9, <1>11, <1>12

\* A burned item keeps the ledger exact.
LEMMA BurnItemInv ==
    ASSUME BatchInv, NEW id \in Ids, BurnItem(id)
    PROVE  BatchInv'
<1>1. PICK t : t = idxOf[id]
    OBVIOUS
<1>2. PICK o : o = Owner(t)
    OBVIOUS
<1>3. /\ TypeOK /\ IdsExact /\ work \in Work /\ Holding
      /\ Exists(t) /\ t \in Idx /\ o \in Addr /\ token[t] \in TokenInfo /\ Permitted(t)
    BY <1>1, <1>2, OwnerType DEF BatchInv, Holding, BurnItem, CanBurn, At
<1>4. /\ work' \in Work
      /\ work'.operFor = OperForAfter(t) /\ work'.sender = work.sender
      /\ work'.kind = work.kind /\ work'.owner = work.owner
      /\ \A a \in Addr : Inv(a)' = IF a = o THEN Inv(a) \ {t} ELSE Inv(a)
      /\ \A a \in Addr : Lost(a)' = IF a = o THEN Lost(a) \cup {t} ELSE Lost(a)
    BY <1>1, <1>2, <1>3, BurnHeld
<1>5. /\ tokenCnt' = BurnedCount
      /\ idxOf' = [idxOf EXCEPT ![id] = None] /\ idOf' = [idOf EXCEPT ![t] = None]
      /\ token' = [token EXCEPT ![t] = None] /\ creator' = [creator EXCEPT ![t] = None]
      /\ tokPerm' = [tokPerm EXCEPT ![t] = NoGrants]
    BY <1>1 DEF BurnItem, BurnedIds
<1>6. UNCHANGED <<configVars, mintCnt, inventory, allPerm, authList, ownerPriv>>
      /\ UNCHANGED <<block, savedBlock, undo, runNum, ahead>>
    BY DEF BurnItem
<1>7. \A u \in Idx : /\ Exists(u)' <=> Exists(u) /\ u # t
                     /\ u # t => Owner(u)' = Owner(u) /\ tokPerm'[u] = tokPerm[u]
    BY <1>3, <1>5 DEF Exists, Owner, TypeOK
<1>8. idOf[t] = id
    BY <1>1, <1>3 DEF IdsExact
<1>9. TypeOK'
    <2>1. tokenCnt' \in 0 .. MaxU32
        <3>1. tokenCnt \in 0 .. MaxU32 /\ MaxU32 \in Nat
            BY <1>3, SnipAssumption DEF TypeOK
        <3> QED
            BY <1>5, <3>1 DEF BurnedCount
    <2>2. /\ idxOf' \in [Ids -> Idx \cup {None}] /\ idOf' \in [Idx -> Ids \cup {None}]
          /\ token' \in [Idx -> TokenInfo \cup {None}] /\ creator' \in [Idx -> Addr \cup {None}]
        BY <1>3, <1>5 DEF TypeOK, TokenInfo
    <2>3. tokPerm' \in [Idx -> PermMap]
        BY <1>3, <1>5, GrantTypes DEF TypeOK, PermMap
    <2> QED
        BY <1>3, <1>6, <2>1, <2>2, <2>3 DEF TypeOK, TokenInfo, PermMap, configVars
<1>10. IdsExact'
    <2>1. \A i \in Ids : idxOf'[i] = IF i = id THEN None ELSE idxOf[i]
        BY <1>3, <1>5 DEF TypeOK
    <2>2. \A u \in Idx : /\ idOf'[u] = IF u = t THEN None ELSE idOf[u]
                         /\ creator'[u] = IF u = t THEN None ELSE creator[u]
        BY <1>3, <1>5 DEF TypeOK
    <2> QED
        BY <1>1, <1>3, <1>6, <1>7, <1>8, <2>1, <2>2, SnipAssumption DEF IdsExact
<1>11. SupplyExact'
    <2>1. Tokens' = Tokens \ {t} /\ t \in Tokens
        BY <1>3, <1>7 DEF Tokens
    <2>2. Cardinality(Tokens \ {t}) = Cardinality(Tokens) - 1 /\ Cardinality(Tokens) # 0
        BY <2>1, TokensFinite, FS_RemoveElement, FS_EmptySet
    <2>3. tokenCnt = Cardinality(Tokens)
        BY DEF BatchInv, SupplyExact, Tokens
    <2> QED
        BY <1>5, <2>1, <2>2, <2>3, TokensFinite DEF SupplyExact, Tokens, BurnedCount
<1>12. NoDoubleGrant'
    BY <1>3, <1>6, <1>7 DEF BatchInv, NoDoubleGrant
<1>13. HeldInventory'
    <2> SUFFICES ASSUME NEW a \in Addr, NEW u \in Idx
                 PROVE  u \in Inv(a)' <=> Exists(u)' /\ Owner(u)' = a
        BY DEF HeldInventory
    <2>1. u \in Inv(a) <=> Exists(u) /\ Owner(u) = a
        BY DEF BatchInv, HeldInventory
    <2> QED
        BY <1>2, <1>4, <1>7, <2>1
<1>14. HeldAuthList'
    <2> SUFFICES ASSUME NEW a \in Addr, NEW g \in Grantee, NEW p \in PermTypes, NEW u \in Idx
                 PROVE  u \in authList'[a][g][p] \ Lost(a)' <=>
                            Exists(u)' /\ Owner(u)' = a /\ tokPerm'[u][g][p] # None
        BY DEF HeldAuthList
    <2>1. u \in authList[a][g][p] \ Lost(a) <=>
              Exists(u) /\ Owner(u) = a /\ tokPerm[u][g][p] # None
        BY DEF BatchInv, HeldAuthList
    <2> QED
        BY <1>2, <1>4, <1>6, <1>7, <2>1
<1>15. Holding'
    <2>1. OperatorsHold' /\ UndoExact'
        BY <1>3, <1>4, <1>6, OperatorsKept, UndoKept DEF Holding
    <2> QED
        BY <1>3, <1>4, <1>6, <2>1 DEF Holding, configVars
<1>16. DefaultsAhead(ahead, mintCnt, idxOf)'
    <2>1. \A i \in Idx : DefaultId[i] \in Ids
        BY SnipAssumption
    <2> QED
        BY <1>3, <1>5, <1>6, <2>1 DEF BatchInv, DefaultsAhead, TypeOK
<1> QED
    BY <1>9, <1>10, <1>11, <1>12, <1>13, <1>14, <1>15, <1>16 DEF BatchInv

\* A minted item keeps the ledger exact.
LEMMA MintItemInv ==
    ASSUME BatchInv, NEW id \in Ids, NEW new \in TokenInfo, NEW runOf,
           At("Mint") \/ At("Clones"), mintCnt < MaxU32, CanMint(id), MintOne(id, new, runOf),
           ahead' <=> ahead \/ IsAhead(id)
    PROVE  BatchInv'
<1>1. PICK n : n = mintCnt
    OBVIOUS
<1>2. PICK o : o = new.owner
    OBVIOUS
<1>3. /\ TypeOK /\ IdsExact /\ work \in Work /\ Holding /\ work # None
      /\ work.left \in Nat /\ work.left > 0 /\ work.sender \in Addr /\ work.invs \in Held
      /\ n \in Idx /\ ~Exists(n) /\ idxOf[id] = None /\ o \in Addr /\ tokenCnt < MaxU32
    <2>1. Holding /\ work # None /\ work.left > 0 /\ tokenCnt < MaxU32 /\ idxOf[id] = None
        BY DEF BatchInv, At, CanMint, BelowLimit
    <2>2. n \in Idx /\ ~Exists(n)
        BY <1>1, SnipAssumption DEF BatchInv, TypeOK, IdsExact, Idx, Exists
    <2> QED
        BY <1>2, <2>1, <2>2 DEF BatchInv, Holding, Work, TokenInfo
<1>4. /\ mintCnt' = n + 1 /\ tokenCnt' = tokenCnt + 1
      /\ idxOf' = [idxOf EXCEPT ![id] = n] /\ idOf' = [idOf EXCEPT ![n] = id]
      /\ token' = [token EXCEPT ![n] = new] /\ creator' = [creator EXCEPT ![n] = work.sender]
      /\ tokPerm' = [tokPerm EXCEPT ![n] = NoGrants]
      /\ work' = [work EXCEPT !.left = @ - 1, !.invs = Put(@, o, Inv(o) \cup {n})]
    BY <1>1, <1>2 DEF MintOne, NextIdx
<1>5. UNCHANGED <<configVars, inventory, allPerm, authList, ownerPriv>>
      /\ UNCHANGED <<block, savedBlock, undo>>
    BY DEF MintOne
<1>6. (Inv(o) \cup {n}) \in SUBSET Idx
    BY <1>3, InvTypes
<1>7. /\ work' \in Work /\ work'.invs = Put(work.invs, o, Inv(o) \cup {n})
      /\ work'.removed = work.removed /\ work'.operFor = work.operFor
      /\ work'.sender = work.sender /\ work'.kind = work.kind /\ work'.owner = work.owner
    <2>1. Put(work.invs, o, Inv(o) \cup {n}) \in Held
        BY <1>3, <1>6, PutHeld
    <2>2. work.left - 1 \in Nat
        BY <1>3
    <2> QED
        BY <1>3, <1>4, <2>1, <2>2 DEF Work
<1>8. \A a \in Addr : Inv(a)' = IF a = o THEN Inv(o) \cup {n} ELSE Inv(a)
    BY <1>3, <1>5, <1>6, <1>7, HeldStep
<1>9. \A a \in Addr : Lost(a)' = Lost(a)
    BY <1>3, <1>7, BatchAssumption DEF Lost
<1>10. new # None
    BY SnipAssumption DEF TokenInfo
<1>11. \A u \in Idx : /\ Exists(u)' <=> Exists(u) \/ u = n
                      /\ u # n => Owner(u)' = Owner(u) /\ tokPerm'[u] = tokPerm[u]
    BY <1>3, <1>4, <1>10 DEF Exists, Owner, TypeOK
<1>12. Owner(n)' = o /\ tokPerm'[n] = NoGrants
    BY <1>2, <1>3, <1>4 DEF Owner, TypeOK
<1>13. \A g \in Grantee, p \in PermTypes : NoGrants[g][p] = None
    BY DEF NoGrants, NoPerms
<1>14. TypeOK'
    <2>1. mintCnt' \in 0 .. MaxU32 /\ tokenCnt' \in 0 .. MaxU32
        BY <1>1, <1>3, <1>4, SnipAssumption DEF TypeOK
    <2>2. /\ idxOf' \in [Ids -> Idx \cup {None}] /\ idOf' \in [Idx -> Ids \cup {None}]
          /\ token' \in [Idx -> TokenInfo \cup {None}] /\ creator' \in [Idx -> Addr \cup {None}]
        BY <1>3, <1>4 DEF TypeOK, TokenInfo
    <2>3. tokPerm' \in [Idx -> PermMap]
        BY <1>3, <1>4, GrantTypes DEF TypeOK, PermMap
    <2> QED
        BY <1>3, <1>5, <2>1, <2>2, <2>3 DEF TypeOK, TokenInfo, PermMap, configVars
<1>15. IdsExact'
    <2>1. \A i \in Ids : idxOf'[i] = IF i = id THEN n ELSE idxOf[i]
        BY <1>3, <1>4 DEF TypeOK
    <2>2. \A u \in Idx : /\ idOf'[u] = IF u = n THEN id ELSE idOf[u]
                         /\ creator'[u] = IF u = n THEN work.sender ELSE creator[u]
        BY <1>3, <1>4 DEF TypeOK
    <2>3. \A u \in Idx : Exists(u)' => u < mintCnt'
        BY <1>1, <1>3, <1>4, <1>11, SnipAssumption DEF IdsExact, Idx
    <2>4. \A i \in Ids, u \in Idx : idxOf'[i] = u <=> idOf'[u] = i
        BY <1>3, <2>1, <2>2, SnipAssumption DEF IdsExact
    <2>5. \A u \in Idx : /\ Exists(u)' <=> idOf'[u] # None
                         /\ Exists(u)' <=> creator'[u] # None
        BY <1>3, <1>11, <2>2, SnipAssumption DEF IdsExact
    <2> QED
        BY <2>3, <2>4, <2>5 DEF IdsExact
<1>16. SupplyExact'
    <2>1. Tokens' = Tokens \cup {n} /\ n \notin Tokens
        BY <1>3, <1>11 DEF Tokens
    <2>2. Cardinality(Tokens \cup {n}) = Cardinality(Tokens) + 1
        BY <2>1, TokensFinite, FS_AddElement
    <2>3. tokenCnt = Cardinality(Tokens)
        BY DEF BatchInv, SupplyExact, Tokens
    <2> QED
        BY <1>4, <2>1, <2>2, <2>3 DEF SupplyExact, Tokens
<1>17. NoDoubleGrant'
    <2>1. \A u \in Idx : u # n /\ Exists(u)' => Exists(u)
        BY <1>11
    <2> QED
        BY <1>5, <1>11, <1>12, <1>13, <2>1 DEF BatchInv, NoDoubleGrant
<1>18. HeldInventory'
    <2> SUFFICES ASSUME NEW a \in Addr, NEW u \in Idx
                 PROVE  u \in Inv(a)' <=> Exists(u)' /\ Owner(u)' = a
        BY DEF HeldInventory
    <2>1. u \in Inv(a) <=> Exists(u) /\ Owner(u) = a
        BY DEF BatchInv, HeldInventory
    <2> QED
        BY <1>3, <1>8, <1>11, <1>12, <2>1
<1>19. HeldAuthList'
    <2> SUFFICES ASSUME NEW a \in Addr, NEW g \in Grantee, NEW p \in PermTypes, NEW u \in Idx
                 PROVE  u \in authList'[a][g][p] \ Lost(a)' <=>
                            Exists(u)' /\ Owner(u)' = a /\ tokPerm'[u][g][p] # None
        BY DEF HeldAuthList
    <2>1. u \in authList[a][g][p] \ Lost(a) <=>
              Exists(u) /\ Owner(u) = a /\ tokPerm[u][g][p] # None
        BY DEF BatchInv, HeldAuthList
    <2> QED
        BY <1>3, <1>5, <1>9, <1>11, <1>12, <1>13, <2>1
<1>20. Holding'
    <2>1. OperatorsHold' /\ UndoExact'
        BY <1>3, <1>5, <1>7, UndoKept DEF Holding, OperatorsHold
    <2> QED
        BY <1>3, <1>5, <1>7, <2>1 DEF Holding, configVars
<1>21. DefaultsAhead(ahead, mintCnt, idxOf)'
    <2> SUFFICES ASSUME ~ahead', NEW i \in Idx, i >= n + 1
                 PROVE  idxOf'[DefaultId[i]] = None
        BY <1>4 DEF DefaultsAhead
    <2>1. DefaultId[i] \in Ids /\ i # n /\ i > n /\ i >= n
        BY <1>1, <1>3, SnipAssumption DEF Idx
    <2>2. ~ahead /\ ~IsAhead(id)
        OBVIOUS
    <2>3. idxOf[DefaultId[i]] = None
        BY <1>1, <2>1, <2>2 DEF BatchInv, DefaultsAhead
    <2>4. id # DefaultId[i]
        BY <1>1, <2>1, <2>2 DEF IsAhead
    <2> QED
        BY <1>3, <1>4, <2>1, <2>3, <2>4 DEF TypeOK
<1> QED
    BY <1>14, <1>15, <1>16, <1>17, <1>18, <1>19, <1>20, <1>21 DEF BatchInv

-----------------------------------------------------------------------------
(* A message begins, ends, or is undone.                                    *)

\* Between messages what is held is what is stored.
LEMMA BetweenInv ==
    ASSUME BatchInv, work = None
    PROVE  IInv /\ SupplyExact
BY DEF BatchInv, IInv, HeldInventory, HeldAuthList, InventoryExact, AuthListExact, Inv, Lost

\* A ledger that is stored as it is held is exact.
LEMMA StoredInv ==
    ASSUME IInv, SupplyExact, DefaultsAhead(ahead, mintCnt, idxOf),
           \A a \in Addr : Inv(a) = inventory[a] /\ Lost(a) = {},
           work # None => Holding
    PROVE  BatchInv
BY DEF BatchInv, IInv, HeldInventory, HeldAuthList, InventoryExact, AuthListExact

\* The chain keeps the ledger as it was when the message began.
LEMMA UndoStored ==
    ASSUME IInv, SupplyExact, DefaultsAhead(ahead, mintCnt, idxOf),
           undo' = Stored, UNCHANGED <<configVars, allPerm, ownerPriv, block>>
    PROVE  UndoExact'
<1>1. /\ undo'.mintCnt = mintCnt /\ undo'.tokenCnt = tokenCnt /\ undo'.idxOf = idxOf
      /\ undo'.idOf = idOf /\ undo'.token = token /\ undo'.creator = creator
      /\ undo'.tokPerm = tokPerm /\ undo'.inventory = inventory
      /\ undo'.authList = authList /\ undo'.savedBlock = savedBlock /\ undo'.ahead = ahead
    BY DEF Stored
<1>2. Undone!TypeOK'
    BY <1>1 DEF IInv, TypeOK, Undone!TypeOK, configVars, Undone!Idx, Undone!Grantee, Idx, Grantee,
       Undone!PermTypes, PermTypes, Undone!PermSet, PermSet, Undone!BlockInfo, BlockInfo,
       Undone!Normal, Normal, Undone!StopAll, StopAll
<1>3. Undone!IdsExact' /\ Undone!InventoryExact' /\ (undo.tokenCnt = Cardinality(UndoneTokens))'
    <2>1. Undone!IdsExact'
        BY <1>1 DEF IInv, IdsExact, Exists, Idx, Undone!IdsExact, Undone!Exists, Undone!Idx
    <2>2. Undone!InventoryExact'
        BY <1>1 DEF IInv, InventoryExact, Exists, Owner, Idx,
           Undone!InventoryExact, Undone!Exists, Undone!Owner, Undone!Idx
    <2>3. UndoneTokens' = Tokens
        BY <1>1 DEF Tokens, UndoneTokens, Exists, Idx, Undone!Exists, Undone!Idx
    <2>4. (undo.tokenCnt = Cardinality(UndoneTokens))'
        BY <1>1, <2>3 DEF SupplyExact, Tokens
    <2> QED
        BY <2>1, <2>2, <2>4
<1>4. Undone!AuthListExact' /\ Undone!NoDoubleGrant'
    BY <1>1 DEF IInv, AuthListExact, NoDoubleGrant, Exists, Owner, Idx, Grantee, PermTypes,
       Undone!AuthListExact, Undone!NoDoubleGrant, Undone!Exists, Undone!Owner,
       Undone!Idx, Undone!Grantee, Undone!PermTypes
<1> QED
    BY <1>1, <1>2, <1>3, <1>4 DEF UndoExact, DefaultsAhead

\* What the chain restores is the ledger it kept.
LEMMA UndoneInv ==
    ASSUME UndoExact, RollBack
    PROVE  IInv' /\ SupplyExact' /\ DefaultsAhead(ahead, mintCnt, idxOf)'
<1>1. /\ mintCnt' = undo.mintCnt /\ tokenCnt' = undo.tokenCnt
      /\ idxOf' = undo.idxOf /\ idOf' = undo.idOf
      /\ token' = undo.token /\ creator' = undo.creator /\ tokPerm' = undo.tokPerm
      /\ inventory' = undo.inventory /\ authList' = undo.authList
      /\ savedBlock' = undo.savedBlock /\ ahead' = undo.ahead
      /\ UNCHANGED <<configVars, allPerm, ownerPriv, block>>
    BY DEF RollBack
<1>2. TypeOK'
    BY <1>1 DEF UndoExact, TypeOK, Undone!TypeOK, configVars, Undone!Idx, Undone!Grantee, Idx,
       Grantee, Undone!PermTypes, PermTypes, Undone!PermSet, PermSet, Undone!BlockInfo, BlockInfo,
       Undone!Normal, Normal, Undone!StopAll, StopAll
<1>3. IdsExact' /\ InventoryExact' /\ SupplyExact'
    <2>1. IdsExact'
        BY <1>1 DEF UndoExact, IdsExact, Exists, Idx, Undone!IdsExact, Undone!Exists, Undone!Idx
    <2>2. InventoryExact'
        BY <1>1 DEF UndoExact, InventoryExact, Exists, Owner, Idx,
           Undone!InventoryExact, Undone!Exists, Undone!Owner, Undone!Idx
    <2>3. Tokens' = UndoneTokens
        BY <1>1 DEF Tokens, UndoneTokens, Exists, Idx, Undone!Exists, Undone!Idx
    <2>4. SupplyExact'
        BY <1>1, <2>3 DEF UndoExact, SupplyExact, Tokens
    <2> QED
        BY <2>1, <2>2, <2>4
<1>4. AuthListExact' /\ NoDoubleGrant'
    BY <1>1 DEF UndoExact, AuthListExact, NoDoubleGrant, Exists, Owner, Idx, Grantee, PermTypes,
       Undone!AuthListExact, Undone!NoDoubleGrant, Undone!Exists, Undone!Owner,
       Undone!Idx, Undone!Grantee, Undone!PermTypes
<1> QED
    BY <1>1, <1>2, <1>3, <1>4 DEF IInv, UndoExact, DefaultsAhead

\* A message begins with nothing held, and with the ledger kept for the chain.
LEMMA StartInv ==
    ASSUME BatchInv, work = None, CheckStatus(Normal), NEW s \in Addr, NEW quantity \in Nat,
           NEW kind \in {"Transfer", "Burn", "Send", "Mint", "Clones"},
           kind \in {"Mint", "Clones"} => s \in minters,
           NEW r \in RunIds \cup {None}, NEW owner \in Addr \cup {None},
           kind = "Clones" => owner \in Addr,
           Start(kind, s, quantity, r, owner), undo' = Stored, Handled,
           UNCHANGED <<configVars, ledgerVars, permVars, ownerPriv, ahead>>
    PROVE  BatchInv'
<1>1. IInv /\ SupplyExact /\ DefaultsAhead(ahead, mintCnt, idxOf)
    BY BetweenInv DEF BatchInv
<1>2. /\ work' \in Work /\ work'.kind = kind /\ work'.sender = s /\ work'.owner = owner
      /\ work'.operFor = {} /\ DOMAIN work'.invs = {} /\ DOMAIN work'.removed = {}
    BY NothingIsHeld DEF Start, Work
<1>3. UndoExact'
    BY <1>1, UndoStored DEF Handled, permVars
<1>4. status' = Normal /\ savedBlock' = block' /\ minters' = minters
    BY <1>1 DEF CheckStatus, IInv, TypeOK, Normal, StopAll, Handled, configVars
<1>5. OperatorsHold'
    BY <1>2 DEF OperatorsHold
<1>6. Holding'
    BY <1>2, <1>3, <1>4, <1>5 DEF Holding
<1>7. IInv' /\ SupplyExact'
    <2>1. UNCHANGED <<configVars, ledgerVars, permVars, ownerPriv>> /\ savedBlock' \in BlockInfo
          /\ block' = block
        BY <1>1 DEF Handled, IInv, TypeOK
    <2>2. TypeOK'
        BY <1>1, <2>1 DEF IInv, TypeOK, configVars, ledgerVars, permVars
    <2>3. IdsExact' /\ InventoryExact' /\ SupplyExact' /\ AuthListExact' /\ NoDoubleGrant'
        BY <1>1, <2>1 DEF IInv, IdsExact, InventoryExact, SupplyExact, AuthListExact,
           NoDoubleGrant, Exists, Owner, ledgerVars, permVars
    <2> QED
        BY <2>2, <2>3 DEF IInv
<1>8. \A a \in Addr : Inv(a)' = inventory'[a] /\ Lost(a)' = {}
    BY <1>2 DEF Inv, Lost
<1>9. DefaultsAhead(ahead, mintCnt, idxOf)'
    BY <1>1 DEF DefaultsAhead, ledgerVars
<1> QED
    BY <1>6, <1>7, <1>8, <1>9
    DEF BatchInv, IInv, HeldInventory, HeldAuthList, InventoryExact, AuthListExact

\* A message that fails leaves the ledger as it was before.
LEMMA FailInv == ASSUME BatchInv, work # None, RollBack PROVE BatchInv'
<1>1. IInv' /\ SupplyExact' /\ DefaultsAhead(ahead, mintCnt, idxOf)'
    BY UndoneInv DEF BatchInv, Holding
<1>2. work' = None
    BY DEF RollBack
<1>3. \A a \in Addr : Inv(a)' = inventory'[a] /\ Lost(a)' = {}
    BY <1>2 DEF Inv, Lost
<1> QED
    BY <1>1, <1>2, <1>3
    DEF BatchInv, IInv, HeldInventory, HeldAuthList, InventoryExact, AuthListExact

\* What is written back is what was held.
LEMMA WriteInv == ASSUME BatchInv, work # None, WriteBack PROVE BatchInv'
<1>1. TypeOK /\ work \in Work
    BY DEF BatchInv, Holding
<1>2. /\ work' = None
      /\ inventory' = [a \in Addr |-> Inv(a)]
      /\ authList' = [a \in Addr |-> [g \in Grantee |-> [p \in PermTypes |->
                         authList[a][g][p] \ Lost(a)]]]
    BY DEF WriteBack, WrittenInventory, WrittenAuthList
<1>3. /\ UNCHANGED <<configVars, mintCnt, tokenCnt, idxOf, idOf, token, creator>>
      /\ UNCHANGED <<tokPerm, allPerm, ownerPriv, block, savedBlock, ahead>>
    BY DEF WriteBack
<1>4. \A a \in Addr : Inv(a)' = Inv(a) /\ Lost(a)' = {}
    BY <1>2 DEF Inv, Lost
<1>5. TypeOK'
    <2>1. inventory' \in [Addr -> SUBSET Idx]
        <3>1. \A a \in Addr : Inv(a) \in SUBSET Idx
            BY <1>1, InvTypes
        <3> QED
            BY <1>2, <3>1
    <2>2. authList' \in [Addr -> [Grantee -> [PermTypes -> SUBSET Idx]]]
        <3>1. \A a \in Addr, g \in Grantee, p \in PermTypes :
                  authList[a][g][p] \ Lost(a) \in SUBSET Idx
            BY <1>1 DEF TypeOK
        <3> QED
            BY <1>2, <3>1
    <2> QED
        BY <1>1, <1>3, <2>1, <2>2 DEF TypeOK, configVars
<1>6. IdsExact' /\ SupplyExact' /\ NoDoubleGrant' /\ DefaultsAhead(ahead, mintCnt, idxOf)'
    BY <1>3 DEF BatchInv, IdsExact, SupplyExact, NoDoubleGrant, DefaultsAhead, Exists, Owner
<1>7. HeldInventory'
    BY <1>3, <1>4 DEF BatchInv, HeldInventory, Exists, Owner
<1>8. HeldAuthList'
    BY <1>2, <1>3, <1>4 DEF BatchInv, HeldAuthList, Exists, Owner
<1> QED
    BY <1>2, <1>5, <1>6, <1>7, <1>8 DEF BatchInv

\* Messages without a list find no handler halfway and are messages of the ledger.
LEMMA MessageInv ==
    ASSUME BatchInv, BetweenMessages
    PROVE  BatchInv' /\ work = None /\ work' = None /\ [SnipNext]_snipVars
<1>1. work = None /\ work' = None /\ ahead' = ahead
    BY DEF BetweenMessages, batchVars
<1>2. IInv /\ SupplyExact
    BY <1>1, BetweenInv
<1>3. [SnipNext]_snipVars
    BY DEF BetweenMessages, SnipNext
<1>4. IInv' /\ SupplyExact'
    BY <1>2, <1>3, NextInv, SupplyStep
<1>5. UNCHANGED <<mintCnt, idxOf>>
    <2>1. CASE ApprovalNext
        BY <2>1, ApprovalFrame DEF ledgerVars
    <2>2. CASE AdminNext
        BY <2>2, AdminFrame DEF ledgerVars
    <2>3. CASE NewBlock
        BY <2>3 DEF NewBlock, ledgerVars
    <2> QED
        BY <2>1, <2>2, <2>3 DEF BetweenMessages
<1>6. DefaultsAhead(ahead, mintCnt, idxOf)'
    BY <1>1, <1>5 DEF BatchInv, DefaultsAhead
<1>7. \A a \in Addr : Inv(a)' = inventory'[a] /\ Lost(a)' = {}
    BY <1>1 DEF Inv, Lost
<1> QED
    BY <1>1, <1>3, <1>4, <1>6, <1>7
    DEF BatchInv, IInv, HeldInventory, HeldAuthList, InventoryExact, AuthListExact

-----------------------------------------------------------------------------
(* The steps together.                                                      *)

\* An id that a mint takes is an id of the contract's.
LEMMA MintIdType ==
    ASSUME mintCnt \in Idx, NEW given \in MintIds \cup {None}
    PROVE  MintId(given) \in Ids
BY SnipAssumption DEF MintId

\* Every item of a list keeps the ledger exact.
LEMMA ItemInv == ASSUME BatchInv, Item PROVE BatchInv'
<1>1. ASSUME NEW id \in Ids, NEW to \in Addr, TransferItem(id, to) PROVE BatchInv'
    <2>1. PICK t : t = idxOf[id]
        OBVIOUS
    <2>2. /\ work # None /\ work.left > 0
          /\ Exists(t) /\ Permitted(t) /\ Owner(t) # to /\ MoveItem(t, to)
        BY <1>1, <2>1 DEF TransferItem, CanTransfer, At
    <2> QED
        BY <2>2, MoveInv
<1>2. ASSUME mintCnt < MaxU32 PROVE mintCnt \in Idx
    BY <1>2, SnipAssumption DEF BatchInv, TypeOK, Idx
<1>3. ASSUME NEW given \in MintIds, NEW new \in MintChoices, NEW info \in Serials,
             MintItem(given, new, info)
      PROVE  BatchInv'
    <2>1. PICK id : id = MintId(given)
        OBVIOUS
    <2>2. /\ At("Mint") /\ mintCnt < MaxU32 /\ CanMint(id) /\ MintOne(id, new, info)
          /\ ahead' = (ahead \/ IsAhead(id))
        BY <1>3, <2>1 DEF MintItem
    <2>3. id \in Ids /\ new \in TokenInfo
        BY <1>2, <2>1, <2>2, MintIdType, SnipAssumption DEF TokenInfo
    <2> QED
        BY <2>2, <2>3, MintItemInv
<1>4. ASSUME CloneItem PROVE BatchInv'
    <2>1. PICK id : id = MintId(None)
        OBVIOUS
    <2>2. PICK new : new = [owner |-> work.owner, transferable |-> TRUE]
        OBVIOUS
    <2>3. At("Clones") /\ mintCnt < MaxU32 /\ CanMint(id) /\ MintOne(id, new, CloneInfo)
        BY <1>4, <2>1, <2>2 DEF CloneItem
    <2>4. work.owner \in Addr
        BY <2>3 DEF BatchInv, Holding, At
    <2>5. id \in Ids /\ new \in TokenInfo
        BY <1>2, <2>1, <2>2, <2>3, <2>4, MintIdType DEF TokenInfo
    <2>6. ~IsAhead(id)
        <3>1. id = DefaultId[mintCnt]
            BY <2>1 DEF MintId
        <3>2. \A i \in Idx : i > mintCnt => i # mintCnt
            BY <1>2, <2>3, SnipAssumption DEF Idx
        <3> QED
            BY <1>2, <2>3, <3>1, <3>2, BatchAssumption DEF IsAhead
    <2>7. ahead' <=> ahead \/ IsAhead(id)
        BY <1>4, <2>6 DEF CloneItem
    <2> QED
        BY <2>3, <2>5, <2>7, MintItemInv
<1> QED
    BY <1>1, <1>3, <1>4, BurnItemInv DEF Item

\* A message that begins keeps the ledger exact.
LEMMA BeginInv == ASSUME BatchInv, Begin PROVE BatchInv'
<1>1. ASSUME NEW s \in Addr, NEW kind \in {"Transfer", "Burn", "Mint"},
             kind = "Mint" => s \in minters, BeginList(s, kind)
      PROVE  BatchInv'
    <2>1. /\ work = None /\ CheckStatus(Normal) /\ Start(kind, s, MaxBatch, None, None)
          /\ undo' = Stored /\ Handled
          /\ UNCHANGED <<configVars, ledgerVars, permVars, ownerPriv, ahead>>
        BY <1>1 DEF BeginList
    <2>2. MaxBatch \in Nat
        BY BatchAssumption
    <2> QED
        BY <1>1, <2>1, <2>2, StartInv
<1>2. ASSUME NEW s \in Addr, NEW r \in RunIds \cup {None}, NEW quantity \in 0 .. MaxBatch,
             NEW new \in MintChoices, BeginClones(s, r, quantity, new.owner)
      PROVE  BatchInv'
    <2>1. /\ work = None /\ CheckStatus(Normal) /\ s \in minters
          /\ Start("Clones", s, quantity, r, new.owner)
          /\ undo' = Stored /\ Handled
          /\ UNCHANGED <<configVars, ledgerVars, permVars, ownerPriv, ahead>>
        BY <1>2 DEF BeginClones
    <2>2. quantity \in Nat /\ new.owner \in Addr
        BY BatchAssumption, SnipAssumption
    <2> QED
        BY <2>1, <2>2, StartInv
<1> QED
    BY <1>1, <1>2 DEF Begin, BeginMint

\* A message fails only while it runs, and all of it is undone.
LEMMA FailsRollsBack == Fails => work # None /\ RollBack
BY DEF Fails, TransferFails, BurnFails, MintFails, CloneFails, At

\* Every step keeps BatchInv: one case per kind of action.
LEMMA BatchNextInv == BatchInv /\ [BatchNext]_vars => BatchInv'
<1> SUFFICES ASSUME BatchInv, [BatchNext]_vars PROVE BatchInv'
    OBVIOUS
<1>1. CASE Begin
    BY <1>1, BeginInv
<1>2. CASE Item
    BY <1>2, ItemInv
<1>3. CASE Fails
    BY <1>3, FailsRollsBack, FailInv
<1>4. CASE Commit
    BY <1>4, WriteInv DEF Commit
<1>5. CASE BetweenMessages
    BY <1>5, MessageInv
<1>6. CASE UNCHANGED vars
    <2>1. UNCHANGED <<snipVars, work, undo, ahead>>
        BY <1>6 DEF vars, batchVars
    <2>2. UNCHANGED <<configVars, ledgerVars, permVars, ownerPriv, block, savedBlock>>
        BY <2>1 DEF snipVars
    <2>3. TypeOK'
        BY <2>2 DEF BatchInv, TypeOK, configVars, ledgerVars, permVars
    <2>4. IdsExact' /\ SupplyExact' /\ NoDoubleGrant' /\ DefaultsAhead(ahead, mintCnt, idxOf)'
        BY <2>1, <2>2 DEF BatchInv, IdsExact, SupplyExact, NoDoubleGrant, DefaultsAhead,
           Exists, Owner, ledgerVars, permVars
    <2>5. \A a \in Addr : Inv(a)' = Inv(a) /\ Lost(a)' = Lost(a)
        BY <2>1, <2>2 DEF Inv, Lost, ledgerVars
    <2>6. HeldInventory' /\ HeldAuthList'
        BY <2>2, <2>5 DEF BatchInv, HeldInventory, HeldAuthList, Exists, Owner, ledgerVars, permVars
    <2>7. work # None => Holding'
        BY <2>1, <2>2, UndoKept DEF BatchInv, Holding, OperatorsHold, configVars, permVars
    <2> QED
        BY <2>1, <2>3, <2>4, <2>6, <2>7 DEF BatchInv
<1> QED
    BY <1>1, <1>2, <1>3, <1>4, <1>5, <1>6 DEF BatchNext

\* Nothing is held before the first message.
LEMMA BatchInitInv == BatchInit => BatchInv
<1> SUFFICES ASSUME BatchInit PROVE BatchInv
    OBVIOUS
<1>1. SnipInit /\ work = None
    BY DEF BatchInit
<1>2. IInv
    BY <1>1, InitInv
<1>3. SupplyExact
    <2>1. Tokens = {}
        BY <1>1 DEF SnipInit, Tokens, Exists
    <2> QED
        BY <1>1, <2>1, FS_EmptySet DEF SnipInit, SupplyExact, Tokens
<1>4. DefaultsAhead(ahead, mintCnt, idxOf)
    BY <1>1, SnipAssumption DEF SnipInit, DefaultsAhead
<1>5. \A a \in Addr : Inv(a) = inventory[a] /\ Lost(a) = {}
    BY <1>1 DEF Inv, Lost
<1> QED
    BY <1>1, <1>2, <1>3, <1>4, <1>5, StoredInv

\* BatchInv holds throughout.
LEMMA BatchInvCorrect == BatchSpec => []BatchInv
BY BatchInitInv, BatchNextInv, PTL DEF BatchSpec

(***************************************************************************)
(* Once a message with a list is done, with success or not, id maps,       *)
(* inventories, supply and AuthLists are exact, though the handler stores  *)
(* tokens item by item and inventories and AuthLists only at the end.      *)
(***************************************************************************)
THEOREM StoresCorrect == BatchSpec => []StoresExact
<1>1. BatchInv => StoresExact
    BY BetweenInv DEF StoresExact, IInv
<1> QED
    BY <1>1, BatchInvCorrect, PTL

(***************************************************************************)
(* The id that a mint takes when none is given is free, unless a minter    *)
(* has named the id of a mint to come.                                     *)
(***************************************************************************)
THEOREM DefaultIdCorrect == BatchSpec => []DefaultIdFree
<1>1. BatchInv => DefaultIdFree
    <2> SUFFICES ASSUME BatchInv, mintCnt < MaxU32, ~ahead PROVE idxOf[MintId(None)] = None
        BY DEF DefaultIdFree
    <2>1. mintCnt \in Idx /\ mintCnt >= mintCnt
        BY SnipAssumption DEF BatchInv, TypeOK, Idx
    <2> QED
        BY <2>1 DEF BatchInv, DefaultsAhead, MintId
<1> QED
    BY <1>1, BatchInvCorrect, PTL

-----------------------------------------------------------------------------
(* A list is its items one by one.                                          *)

\* What is remembered of an owner lets pass only whom the check would.
LEMMA PermittedIsCheck ==
    ASSUME BatchInv, work # None, NEW t, Exists(t), Permitted(t)
    PROVE  CheckPermission(work.sender, t, "Transfer", block)
<1>1. CASE Owner(t) \in work.operFor
    <2>1. /\ Holding /\ work \in Work /\ NoDoubleGrant /\ t \in Idx
        BY OwnerType DEF BatchInv, Holding
    <2>2. PICK g \in {work.sender, Public} : Live(allPerm[Owner(t)][g]["Transfer"], block)
        BY <1>1, <2>1 DEF Holding, OperatorsHold
    <2>3. g \in Grantee /\ "Transfer" \in PermTypes
        BY <2>1, <2>2 DEF Work, Grantee, PermTypes
    <2>4. tokPerm[t][g]["Transfer"] = None
        BY <2>1, <2>2, <2>3 DEF NoDoubleGrant, Live
    <2> QED
        BY <2>2, <2>4 DEF CheckPermission, CheckPermCore, Lapsed
<1>2. CASE Owner(t) \notin work.operFor
    BY <1>2 DEF Permitted
<1> QED
    BY <1>1, <1>2

\* The check does not look at what the handler holds.
LEMMA ViewCheck ==
    ASSUME NEW s, NEW t
    PROVE  /\ View!CheckPermission(s, t, "Transfer", block)
                  <=> CheckPermission(s, t, "Transfer", block)
           /\ View!Exists(t) <=> Exists(t)
           /\ View!Owner(t) = Owner(t)
<1>1. \A p, b : /\ View!Live(p, b) <=> Live(p, b)
                /\ View!Lapsed(p, b) <=> Lapsed(p, b)
    BY DEF View!Live, Live, View!Lapsed, Lapsed, View!IsExpired, IsExpired
<1>2. (View!Exists(t) <=> Exists(t)) /\ View!Owner(t) = Owner(t)
    BY DEF View!Exists, Exists, View!Idx, Idx, View!Owner, Owner
<1> QED
    BY <1>1, <1>2 DEF View!CheckPermission, CheckPermission, View!CheckPermCore, CheckPermCore

\* The AuthLists as held, when a token has left.
LEMMA LeftAuthList ==
    ASSUME NEW o \in Addr, NEW t, authList' = authList,
           \A a \in Addr : Lost(a)' = IF a = o THEN Lost(a) \cup {t} ELSE Lost(a)
    PROVE  WrittenAuthList' = View!DropToken(o, t)
<1>1. \A a \in Addr, g \in Grantee, p \in PermTypes :
          authList'[a][g][p] \ Lost(a)' =
              IF a = o THEN (authList[a][g][p] \ Lost(a)) \ {t} ELSE authList[a][g][p] \ Lost(a)
    OBVIOUS
<1>2. Grantee = View!Grantee /\ PermTypes = View!PermTypes
    BY DEF Grantee, View!Grantee, PermTypes, View!PermTypes
<1>3. WrittenAuthList' = [a \in Addr |-> [g \in Grantee |-> [p \in PermTypes |->
          authList'[a][g][p] \ Lost(a)']]]
    BY DEF WrittenAuthList
<1>4. View!DropToken(o, t) = [a \in Addr |-> [g \in Grantee |-> [p \in PermTypes |->
          IF a = o THEN (authList[a][g][p] \ Lost(a)) \ {t} ELSE authList[a][g][p] \ Lost(a)]]]
    BY <1>2 DEF View!DropToken, WrittenAuthList
<1> QED
    BY <1>1, <1>3, <1>4

\* A token that is transferred, or sent, is a TransferNft.
LEMMA MoveIsTransfer ==
    ASSUME BatchInv, NEW id \in Ids, NEW to \in Addr, work # None, work.left > 0,
           CanTransfer(id, to), MoveItem(idxOf[id], to)
    PROVE  View!TransferNft(work.sender, id, to)
<1>1. PICK t : t = idxOf[id]
    OBVIOUS
<1>2. PICK o : o = Owner(t)
    OBVIOUS
<1>3. /\ work # None /\ work.left > 0 /\ Exists(t) /\ Permitted(t) /\ Owner(t) # to
      /\ token[t].transferable /\ MoveItem(t, to)
    BY <1>1 DEF CanTransfer
<1>4. TypeOK /\ Holding /\ work \in Work /\ o \in Addr
    BY <1>2, <1>3, OwnerType DEF BatchInv, Holding
<1>5. /\ \A a \in Addr : Inv(a)' = IF a = o THEN Inv(a) \ {t}
                                   ELSE IF a = to THEN Inv(a) \cup {t} ELSE Inv(a)
      /\ \A a \in Addr : Lost(a)' = IF a = o THEN Lost(a) \cup {t} ELSE Lost(a)
    BY <1>2, <1>3, <1>4, MoveHeld
<1>6. View!Exists(t) /\ View!Owner(t) = o
    BY <1>2, <1>3, ViewCheck
<1>7. View!CheckPermission(work.sender, t, "Transfer", block)
    BY <1>3, PermittedIsCheck, ViewCheck
<1>8. WrittenInventory' = View!MovedInventory(t, to)
    <2>1. WrittenInventory' = [a \in Addr |-> Inv(a)']
        BY DEF WrittenInventory
    <2>2. View!MovedInventory(t, to) =
              [a \in Addr |-> IF a = o THEN Inv(a) \ {t}
                              ELSE IF a = to THEN Inv(a) \cup {t} ELSE Inv(a)]
        BY <1>2, <1>3, <1>4, <1>6 DEF View!MovedInventory, WrittenInventory
    <2> QED
        BY <1>5, <2>1, <2>2
<1>9. WrittenAuthList' = View!DropToken(o, t)
    BY <1>3, <1>4, <1>5, LeftAuthList DEF MoveItem
<1>10. /\ token' = [token EXCEPT ![t] = [owner |-> to, transferable |-> @.transferable]]
       /\ tokPerm' = View!MovedPerms(t)
       /\ UNCHANGED <<configVars, mintCnt, tokenCnt, idxOf, idOf, creator, allPerm, ownerPriv>>
       /\ UNCHANGED <<block, savedBlock>>
    BY <1>3 DEF MoveItem, MovedPerms, View!MovedPerms, NoGrants, View!NoGrants, NoPerms,
       View!NoPerms, Grantee, View!Grantee, PermTypes, View!PermTypes
<1>11. View!TransferEffect(t, to)
    BY <1>6, <1>8, <1>9, <1>10 DEF View!TransferEffect, View!configVars, configVars
<1>12. View!CheckStatus(View!Normal) /\ View!Handled
    BY <1>4, <1>10 DEF Holding, View!CheckStatus, View!Normal, Normal, View!Handled
<1> QED
    BY <1>1, <1>2, <1>3, <1>6, <1>7, <1>11, <1>12 DEF View!TransferNft, View!MayMove

\* A burned item is a BurnNft.
LEMMA BurnIsBurn ==
    ASSUME BatchInv, NEW id \in Ids, BurnItem(id)
    PROVE  View!BurnNft(work.sender, id)
<1>1. PICK t : t = idxOf[id]
    OBVIOUS
<1>2. PICK o : o = Owner(t)
    OBVIOUS
<1>3. /\ work # None /\ Exists(t) /\ Permitted(t)
      /\ BurnIsEnabled \/ ~token[t].transferable
    BY <1>1 DEF BurnItem, CanBurn, At
<1>4. TypeOK /\ Holding /\ work \in Work /\ o \in Addr
    BY <1>2, <1>3, OwnerType DEF BatchInv, Holding
<1>5. /\ \A a \in Addr : Inv(a)' = IF a = o THEN Inv(a) \ {t} ELSE Inv(a)
      /\ \A a \in Addr : Lost(a)' = IF a = o THEN Lost(a) \cup {t} ELSE Lost(a)
    BY <1>1, <1>2, <1>3, <1>4, BurnHeld
<1>6. View!Exists(t) /\ View!Owner(t) = o
    BY <1>2, <1>3, ViewCheck
<1>7. View!CheckPermission(work.sender, t, "Transfer", block)
    BY <1>3, PermittedIsCheck, ViewCheck
<1>8. WrittenInventory' = [WrittenInventory EXCEPT ![o] = @ \ {t}]
    <2>1. WrittenInventory' = [a \in Addr |-> Inv(a)']
        BY DEF WrittenInventory
    <2>2. [WrittenInventory EXCEPT ![o] = @ \ {t}] =
              [a \in Addr |-> IF a = o THEN Inv(a) \ {t} ELSE Inv(a)]
        BY <1>4 DEF WrittenInventory
    <2> QED
        BY <1>5, <2>1, <2>2
<1>9. WrittenAuthList' = View!DropToken(o, t)
    BY <1>4, <1>5, LeftAuthList DEF BurnItem
<1>10. /\ tokenCnt' = View!BurnedCount /\ idxOf' = View!BurnedIds(id)
       /\ idOf' = [idOf EXCEPT ![t] = None] /\ token' = [token EXCEPT ![t] = None]
       /\ creator' = [creator EXCEPT ![t] = None]
       /\ tokPerm' = [tokPerm EXCEPT ![t] = View!NoGrants]
       /\ UNCHANGED <<configVars, mintCnt, allPerm, ownerPriv, block, savedBlock>>
    BY <1>1 DEF BurnItem, BurnedCount, View!BurnedCount, BurnedIds, View!BurnedIds, NoGrants,
       View!NoGrants, NoPerms, View!NoPerms, Grantee, View!Grantee, PermTypes, View!PermTypes
<1>11. View!BurnEffect(t, id)
    BY <1>6, <1>8, <1>9, <1>10 DEF View!BurnEffect, View!configVars, configVars
<1>12. View!CheckStatus(View!Normal) /\ View!Handled
    BY <1>4, <1>10 DEF Holding, View!CheckStatus, View!Normal, Normal, View!Handled
<1> QED
    BY <1>1, <1>3, <1>6, <1>7, <1>11, <1>12 DEF View!BurnNft

\* A minted item or clone is a mint.
LEMMA OneIsMint ==
    ASSUME BatchInv, At("Mint") \/ At("Clones"), NEW given \in MaybeId, NEW new \in TokenInfo,
           NEW runOf, mintCnt < MaxU32, CanMint(MintId(given)), MintOne(MintId(given), new, runOf)
    PROVE  View!Mint(work.sender, given, new)
<1>1. PICK id : id = MintId(given)
    OBVIOUS
<1>2. PICK n : n = mintCnt
    OBVIOUS
<1>3. /\ Holding /\ work \in Work /\ work # None /\ work.sender \in minters
      /\ work.invs \in Held /\ work.left > 0 /\ work.left \in Nat
      /\ BelowLimit /\ idxOf[id] = None /\ new.owner \in Addr /\ n \in Idx /\ TypeOK
    <2>1. Holding /\ work # None /\ TypeOK /\ work.kind \in {"Mint", "Clones"} /\ work.left > 0
        BY DEF BatchInv, At
    <2>2. n \in Idx
        BY <1>2, <2>1, SnipAssumption DEF TypeOK, Idx
    <2> QED
        BY <1>1, <2>1, <2>2 DEF Holding, Work, CanMint, TokenInfo
<1>4. /\ mintCnt' = n + 1 /\ tokenCnt' = tokenCnt + 1
      /\ idxOf' = [idxOf EXCEPT ![id] = n] /\ idOf' = [idOf EXCEPT ![n] = id]
      /\ token' = [token EXCEPT ![n] = new] /\ creator' = [creator EXCEPT ![n] = work.sender]
      /\ tokPerm' = [tokPerm EXCEPT ![n] = View!NoGrants]
      /\ work' = [work EXCEPT !.left = @ - 1, !.invs = Put(@, new.owner, Inv(new.owner) \cup {n})]
    BY <1>1, <1>2 DEF MintOne, NextIdx, NoGrants,
       View!NoGrants, NoPerms, View!NoPerms, Grantee, View!Grantee, PermTypes, View!PermTypes
<1>5. UNCHANGED <<configVars, inventory, allPerm, authList, ownerPriv, block, savedBlock>>
    BY DEF MintOne
<1>6. (Inv(new.owner) \cup {n}) \in SUBSET Idx
    BY <1>3, InvTypes
<1>7. /\ work' \in Work /\ work'.removed = work.removed
      /\ work'.invs = Put(work.invs, new.owner, Inv(new.owner) \cup {n})
    <2>1. Put(work.invs, new.owner, Inv(new.owner) \cup {n}) \in Held
        BY <1>3, <1>6, PutHeld
    <2>2. work.left - 1 \in Nat
        BY <1>3
    <2> QED
        BY <1>3, <1>4, <2>1, <2>2 DEF Work
<1>8. \A a \in Addr : Inv(a)' = IF a = new.owner THEN Inv(new.owner) \cup {n} ELSE Inv(a)
    BY <1>3, <1>5, <1>6, <1>7, HeldStep
<1>9. \A a \in Addr : Lost(a)' = Lost(a)
    BY <1>3, <1>7, BatchAssumption DEF Lost
<1>10. WrittenInventory' = [WrittenInventory EXCEPT ![new.owner] = @ \cup {n}]
    <2>1. WrittenInventory' = [a \in Addr |-> Inv(a)']
        BY DEF WrittenInventory
    <2>2. [WrittenInventory EXCEPT ![new.owner] = @ \cup {n}] =
              [a \in Addr |-> IF a = new.owner THEN Inv(new.owner) \cup {n} ELSE Inv(a)]
        BY <1>3 DEF WrittenInventory
    <2> QED
        BY <1>8, <2>1, <2>2
<1>11. WrittenAuthList' = WrittenAuthList
    BY <1>5, <1>9 DEF WrittenAuthList
<1>12. View!MintId(given) = id /\ View!NextIdx = n
    BY <1>1, <1>2 DEF View!MintId, MintId, View!NextIdx
<1>13. View!MintEffect(work.sender, id, new)
    <2>1. View!Handled
        BY <1>3, <1>5 DEF Holding, View!Handled
    <2> QED
        BY <1>2, <1>4, <1>5, <1>10, <1>11, <1>12, <2>1
        DEF View!MintEffect, View!configVars, configVars
<1>14. View!CheckStatus(View!Normal) /\ View!BelowLimit /\ View!MayMint(work.sender, id)
    BY <1>3 DEF Holding, View!CheckStatus, View!Normal, Normal, View!BelowLimit, BelowLimit,
       View!MayMint
<1> QED
    BY <1>12, <1>13, <1>14 DEF View!Mint

\* Every item is the message of the ledger for one token.
LEMMA ItemIsMessage ==
    ASSUME BatchInv, Item
    PROVE  \/ \E id \in Ids, to \in Addr : View!TransferNft(work.sender, id, to)
           \/ \E id \in Ids : View!BurnNft(work.sender, id)
           \/ \E given \in MaybeId, new \in [owner : Addr, transferable : BOOLEAN] :
                  View!Mint(work.sender, given, new)
<1>1. ASSUME NEW given \in MintIds, NEW new \in MintChoices, NEW info \in Serials,
             MintItem(given, new, info)
      PROVE  \E g \in MaybeId, x \in [owner : Addr, transferable : BOOLEAN] :
                 View!Mint(work.sender, g, x)
    <2>1. given \in MaybeId /\ new \in TokenInfo
        BY SnipAssumption DEF MaybeId, TokenInfo
    <2>2. View!Mint(work.sender, given, new)
        BY <1>1, <2>1, OneIsMint DEF MintItem
    <2> QED
        BY <2>1, <2>2 DEF TokenInfo
<1>2. ASSUME CloneItem
      PROVE  \E g \in MaybeId, x \in [owner : Addr, transferable : BOOLEAN] :
                 View!Mint(work.sender, g, x)
    <2>1. PICK new : new = [owner |-> work.owner, transferable |-> TRUE]
        OBVIOUS
    <2>2. /\ At("Clones") /\ mintCnt < MaxU32 /\ CanMint(MintId(None))
          /\ MintOne(MintId(None), new, CloneInfo)
        BY <1>2, <2>1 DEF CloneItem
    <2>3. work.owner \in Addr
        BY <2>2 DEF BatchInv, Holding, At
    <2>4. None \in MaybeId /\ new \in TokenInfo
        BY <2>1, <2>3 DEF MaybeId, TokenInfo
    <2>5. View!Mint(work.sender, None, new)
        BY <2>2, <2>4, OneIsMint
    <2> QED
        BY <2>4, <2>5 DEF TokenInfo
<1>3. ASSUME NEW id \in Ids, NEW to \in Addr, TransferItem(id, to)
      PROVE  View!TransferNft(work.sender, id, to)
    BY <1>3, MoveIsTransfer DEF TransferItem, At
<1> QED
    BY <1>1, <1>2, <1>3, BurnIsBurn DEF Item

\* Writing back what is held changes nothing in the ledger as the handler sees it.
LEMMA WriteIsSilent == ASSUME BatchInv, work # None, WriteBack PROVE UNCHANGED View!snipVars
<1>1. /\ work' = None
      /\ inventory' = [a \in Addr |-> Inv(a)]
      /\ authList' = [a \in Addr |-> [g \in Grantee |-> [p \in PermTypes |->
                         authList[a][g][p] \ Lost(a)]]]
      /\ UNCHANGED <<configVars, mintCnt, tokenCnt, idxOf, idOf, token, creator>>
      /\ UNCHANGED <<tokPerm, allPerm, ownerPriv, block, savedBlock>>
    BY DEF WriteBack, WrittenInventory, WrittenAuthList
<1>2. \A a \in Addr : Inv(a)' = Inv(a) /\ Lost(a)' = {}
    BY <1>1 DEF Inv, Lost
<1>3. WrittenInventory' = WrittenInventory
    BY <1>2 DEF WrittenInventory
<1>4. WrittenAuthList' = WrittenAuthList
    <2>1. \A a \in Addr, g \in Grantee, p \in PermTypes :
              authList'[a][g][p] \ Lost(a)' = authList[a][g][p] \ Lost(a)
        BY <1>1, <1>2
    <2> QED
        BY <2>1 DEF WrittenAuthList
<1> QED
    BY <1>1, <1>3, <1>4
    DEF View!snipVars, View!configVars, View!ledgerVars, View!permVars, configVars

(***************************************************************************)
(* A list is its items one by one: each step of send_list, burn_list and   *)
(* mint_list does to the ledger as the handler sees it what the message    *)
(* for that item does, and would have been allowed as a message.           *)
(***************************************************************************)
THEOREM ListCorrect == BatchSpec => ListIsOneByOne
<1>1. BatchInv /\ [BatchNext]_vars =>
          [ work # None /\ ~RollBack =>
              \/ UNCHANGED View!snipVars
              \/ \E id \in Ids, to \in Addr : View!TransferNft(work.sender, id, to)
              \/ \E id \in Ids : View!BurnNft(work.sender, id)
              \/ \E given \in MaybeId, new \in [owner : Addr, transferable : BOOLEAN] :
                     View!Mint(work.sender, given, new) ]_vars
    <2> SUFFICES ASSUME BatchInv, BatchNext, work # None, ~RollBack
                 PROVE  \/ UNCHANGED View!snipVars
                        \/ \E id \in Ids, to \in Addr : View!TransferNft(work.sender, id, to)
                        \/ \E id \in Ids : View!BurnNft(work.sender, id)
                        \/ \E given \in MaybeId,
                              new \in [owner : Addr, transferable : BOOLEAN] :
                               View!Mint(work.sender, given, new)
        OBVIOUS
    <2>1. ~Begin
        BY DEF Begin, BeginMint, BeginList, BeginClones
    <2>2. ~BetweenMessages
        BY DEF BetweenMessages
    <2>3. ~Fails
        BY FailsRollsBack
    <2> QED
        BY <2>1, <2>2, <2>3, ItemIsMessage, WriteIsSilent DEF BatchNext, Commit
<1> QED
    BY <1>1, BatchInvCorrect, PTL DEF BatchSpec, ListIsOneByOne

-----------------------------------------------------------------------------
(* Runs of clones.                                                          *)

\* the clones that a run has made so far
Numbered ==
    /\ work.left \in 0 .. work.quantity
    /\ mintCnt + work.left = undo.mintCnt + work.quantity
    /\ \A t \in Idx : t < undo.mintCnt => token[t] = undo.token[t]
    /\ \A t \in Idx : undo.mintCnt <= t /\ t < mintCnt =>
          /\ token[t] = [owner |-> work.owner, transferable |-> TRUE]
          /\ idOf[t] = DefaultId[t]
          /\ runInfo[t] = [run |-> IF work.run = None THEN None ELSE runNum[work.run],
                           serial |-> t - undo.mintCnt + 1, of |-> work.quantity]
    /\ work.run # None => runNum[work.run] = undo.runNum[work.run] + 1

\* Inductive, with BatchInv: a run of clones has the numbers it should.
RunInv ==
    /\ DOMAIN runNum = RunIds /\ DOMAIN runInfo = Idx
    /\ work # None => DOMAIN undo.runNum = RunIds /\ DOMAIN undo.runInfo = Idx
    /\ work # None /\ work.kind = "Clones" => Numbered

\* One more clone gets the next number.
LEMMA CloneNumbered == ASSUME BatchInv, RunInv, CloneItem PROVE RunInv'
<1>1. PICK n : n = mintCnt
    OBVIOUS
<1>2. PICK new : new = [owner |-> work.owner, transferable |-> TRUE]
    OBVIOUS
<1>3. PICK first : first = undo.mintCnt
    OBVIOUS
<1>4. /\ work # None /\ work.kind = "Clones" /\ work.left > 0 /\ Holding /\ work \in Work
      /\ TypeOK /\ Numbered /\ n \in Idx /\ n + 1 \in Nat
    BY <1>1, SnipAssumption DEF CloneItem, At, BatchInv, Holding, RunInv, TypeOK, Idx
<1>5. /\ mintCnt' = n + 1 /\ token' = [token EXCEPT ![n] = new]
      /\ idOf' = [idOf EXCEPT ![n] = DefaultId[n]]
      /\ runInfo' = [runInfo EXCEPT ![n] = CloneInfo]
      /\ work' = [work EXCEPT !.left = @ - 1,
                              !.invs = Put(@, work.owner, Inv(work.owner) \cup {n})]
      /\ UNCHANGED <<undo, runNum>>
    BY <1>1, <1>2 DEF CloneItem, MintOne, NextIdx, MintId
<1>6. /\ work'.left = work.left - 1 /\ work'.quantity = work.quantity
      /\ work'.run = work.run /\ work'.owner = work.owner /\ work'.kind = work.kind
    BY <1>4, <1>5 DEF Work
<1>7. /\ first \in Nat /\ work.quantity \in Nat /\ work.left \in Nat /\ n \in Nat
      /\ n + work.left = first + work.quantity /\ work.left <= work.quantity
    BY <1>1, <1>3, <1>4, SnipAssumption
    DEF Work, Numbered, Holding, UndoExact, Undone!TypeOK, TypeOK
<1>8. CloneInfo = [run |-> IF work.run = None THEN None ELSE runNum[work.run],
                   serial |-> n - first + 1, of |-> work.quantity]
    <2>1. work.quantity - work.left + 1 = n - first + 1
        BY <1>7
    <2> QED
        BY <2>1 DEF CloneInfo, Serial
<1>9. /\ work'.left \in 0 .. work'.quantity
      /\ mintCnt' + work'.left = first + work'.quantity
    BY <1>4, <1>5, <1>6, <1>7
<1>10. \A t \in Idx : t < first => token'[t] = undo.token[t]
    <2>1. \A t \in Idx : t < first => t # n
        BY <1>7 DEF Idx
    <2> QED
        BY <1>3, <1>4, <1>5, <2>1 DEF Numbered, TypeOK
<1>11. \A t \in Idx : first <= t /\ t < n + 1 =>
          /\ token'[t] = new
          /\ idOf'[t] = DefaultId[t]
          /\ runInfo'[t] = [run |-> IF work.run = None THEN None ELSE runNum[work.run],
                            serial |-> t - first + 1, of |-> work.quantity]
    <2> SUFFICES ASSUME NEW t \in Idx, first <= t, t < n + 1
                 PROVE  /\ token'[t] = new
                        /\ idOf'[t] = DefaultId[t]
                        /\ runInfo'[t] = [run |-> IF work.run = None THEN None ELSE runNum[work.run],
                                          serial |-> t - first + 1, of |-> work.quantity]
        OBVIOUS
    <2>1. CASE t = n
        BY <1>4, <1>5, <1>8, <2>1 DEF TypeOK, RunInv
    <2>2. CASE t # n
        <3>1. t < n
            BY <1>7, <2>2, SnipAssumption DEF Idx
        <3>2. token'[t] = token[t] /\ idOf'[t] = idOf[t] /\ runInfo'[t] = runInfo[t]
            BY <1>4, <1>5, <2>2 DEF TypeOK, RunInv
        <3> QED
            BY <1>1, <1>2, <1>3, <1>4, <3>1, <3>2 DEF Numbered
    <2> QED
        BY <2>1, <2>2
<1>12. undo'.mintCnt = first /\ undo'.token = undo.token /\ undo'.runNum = undo.runNum
    BY <1>3, <1>5
<1>13. \A t \in Idx : undo'.mintCnt <= t /\ t < mintCnt' =>
          /\ token'[t] = [owner |-> work'.owner, transferable |-> TRUE]
          /\ idOf'[t] = DefaultId[t]
          /\ runInfo'[t] = [run |-> IF work'.run = None THEN None ELSE runNum'[work'.run],
                            serial |-> t - undo'.mintCnt + 1, of |-> work'.quantity]
    <2> SUFFICES ASSUME NEW t \in Idx, undo'.mintCnt <= t, t < mintCnt'
                 PROVE  /\ token'[t] = [owner |-> work'.owner, transferable |-> TRUE]
                        /\ idOf'[t] = DefaultId[t]
                        /\ runInfo'[t] =
                              [run |-> IF work'.run = None THEN None ELSE runNum'[work'.run],
                               serial |-> t - undo'.mintCnt + 1, of |-> work'.quantity]
        OBVIOUS
    <2>1. first <= t /\ t < n + 1
        BY <1>5, <1>12
    <2>2. /\ token'[t] = new /\ idOf'[t] = DefaultId[t]
          /\ runInfo'[t] = [run |-> IF work.run = None THEN None ELSE runNum[work.run],
                            serial |-> t - first + 1, of |-> work.quantity]
        BY <1>11, <2>1
    <2>3. new = [owner |-> work'.owner, transferable |-> TRUE]
        BY <1>2, <1>6
    <2>4. work'.run = work.run /\ work'.quantity = work.quantity /\ undo'.mintCnt = first
          /\ runNum' = runNum
        BY <1>5, <1>6, <1>12
    <2> QED
        BY <2>2, <2>3, <2>4
<1>14. work'.run # None => runNum'[work'.run] = undo'.runNum[work'.run] + 1
    BY <1>4, <1>5, <1>6, <1>12 DEF Numbered
<1>15. Numbered'
    BY <1>9, <1>10, <1>12, <1>13, <1>14 DEF Numbered
<1> QED
    BY <1>4, <1>5, <1>15 DEF RunInv

\* Every step keeps RunInv: only a minted clone changes what it is about.
LEMMA RunStep == BatchInv /\ RunInv /\ [BatchNext]_vars => RunInv'
<1> SUFFICES ASSUME BatchInv, RunInv, [BatchNext]_vars PROVE RunInv'
    OBVIOUS
<1>1. ASSUME NEW s \in Addr, NEW kind \in {"Transfer", "Burn", "Mint"}, BeginList(s, kind)
      PROVE  RunInv'
    <2>1. undo' = Stored /\ UNCHANGED <<runNum, runInfo>> /\ work'.kind = kind
        BY <1>1 DEF BeginList, Start
    <2> QED
        BY <2>1 DEF RunInv, Stored
<1>2. ASSUME NEW s \in Addr, NEW r \in RunIds \cup {None}, NEW quantity \in 0 .. MaxBatch,
             NEW new \in MintChoices, BeginClones(s, r, quantity, new.owner)
      PROVE  RunInv'
    <2>1. /\ undo' = Stored /\ UNCHANGED <<ledgerVars, runInfo>>
          /\ runNum' = IF r = None THEN runNum ELSE [runNum EXCEPT ![r] = @ + 1]
          /\ work'.left = quantity /\ work'.quantity = quantity
          /\ work'.run = r /\ work'.owner = new.owner
        BY <1>2 DEF BeginClones, Start
    <2>2. undo'.mintCnt = mintCnt /\ undo'.token = token /\ undo'.runNum = runNum
          /\ undo'.runInfo = runInfo
        BY <2>1 DEF Stored
    <2>3. quantity \in Nat /\ mintCnt \in Nat
        BY BatchAssumption, SnipAssumption DEF BatchInv, TypeOK
    <2>4. r # None => runNum'[r] = runNum[r] + 1
        BY <2>1 DEF RunInv
    <2>5. Numbered'
        <3>1. \A t \in Idx : ~(mintCnt <= t /\ t < mintCnt)
            BY <2>3 DEF Idx
        <3> QED
            BY <2>1, <2>2, <2>3, <2>4, <3>1 DEF Numbered, ledgerVars
    <2> QED
        BY <2>1, <2>2, <2>5 DEF RunInv
<1>3. ASSUME Item, ~CloneItem PROVE RunInv'
    <2>1. work # None /\ work \in Work /\ work.kind # "Clones"
        BY <1>3 DEF Item, TransferItem, BurnItem, MintItem, At, BatchInv, Holding
    <2>2. /\ work'.kind = work.kind /\ UNCHANGED <<undo, runNum>>
          /\ DOMAIN runInfo' = DOMAIN runInfo
        <3>1. ASSUME NEW id \in Ids, NEW to \in Addr, TransferItem(id, to)
              PROVE  work'.kind = work.kind /\ UNCHANGED <<undo, runNum, runInfo>>
            BY <2>1, <3>1 DEF TransferItem, MoveItem, Work
        <3>2. ASSUME NEW id \in Ids, BurnItem(id)
              PROVE  /\ work'.kind = work.kind /\ UNCHANGED <<undo, runNum>>
                     /\ DOMAIN runInfo' = DOMAIN runInfo
            BY <2>1, <3>2 DEF BurnItem, Work
        <3>3. ASSUME NEW given \in MintIds, NEW new \in MintChoices, NEW info \in Serials,
                     MintItem(given, new, info)
              PROVE  /\ work'.kind = work.kind /\ UNCHANGED <<undo, runNum>>
                     /\ DOMAIN runInfo' = DOMAIN runInfo
            BY <2>1, <3>3 DEF MintItem, MintOne, Work
        <3> QED
            BY <1>3, <3>1, <3>2, <3>3 DEF Item
    <2> QED
        BY <2>1, <2>2 DEF RunInv
<1>4. ASSUME work # None, RollBack PROVE RunInv'
    BY <1>4 DEF RollBack, RunInv
<1>5. CASE Commit
    BY <1>5 DEF Commit, WriteBack, RunInv
<1>6. CASE BetweenMessages
    BY <1>6 DEF BetweenMessages, batchVars, RunInv
<1>7. CASE UNCHANGED vars
    BY <1>7 DEF vars, batchVars, snipVars, ledgerVars, RunInv, Numbered
<1> QED
    BY <1>1, <1>2, <1>3, <1>4, <1>5, <1>6, <1>7, CloneNumbered, FailsRollsBack
    DEF BatchNext, Begin, BeginMint

(***************************************************************************)
(* A run of clones that succeeds has minted the quantity asked for, at     *)
(* consecutive indices with the ids of those indices, numbered from 1      *)
(* without gap, under a run number one above the last run of that id.      *)
(***************************************************************************)
THEOREM ClonesCorrect == BatchSpec => ClonesNumbered
<1>1. BatchInit => RunInv
    BY DEF BatchInit, RunInv
<1>2. BatchInv /\ RunInv /\ [BatchNext]_vars =>
          [ Commit /\ work.kind = "Clones" =>
              /\ Clones = undo.mintCnt .. mintCnt - 1
              /\ Cardinality(Clones) = work.quantity
              /\ \A t \in Clones :
                    /\ idOf[t] = DefaultId[t]
                    /\ token[t].owner = work.owner
                    /\ runInfo[t].serial = t - undo.mintCnt + 1
                    /\ runInfo[t].of = work.quantity
                    /\ runInfo[t].run = IF work.run = None THEN None
                                        ELSE undo.runNum[work.run] + 1 ]_vars
    <2> SUFFICES ASSUME BatchInv, RunInv, Commit, work.kind = "Clones"
                 PROVE  /\ Clones = undo.mintCnt .. mintCnt - 1
                        /\ Cardinality(Clones) = work.quantity
                        /\ \A t \in Clones :
                              /\ idOf[t] = DefaultId[t]
                              /\ token[t].owner = work.owner
                              /\ runInfo[t].serial = t - undo.mintCnt + 1
                              /\ runInfo[t].of = work.quantity
                              /\ runInfo[t].run = IF work.run = None THEN None
                                                  ELSE undo.runNum[work.run] + 1
        OBVIOUS
    <2>1. PICK first : first = undo.mintCnt
        OBVIOUS
    <2>2. Numbered /\ Holding /\ work.left = 0
        BY DEF RunInv, BatchInv, Commit, WriteBack, IsComplete
    <2>3. /\ first \in Nat /\ mintCnt \in Nat /\ mintCnt <= MaxU32 /\ work.quantity \in Nat
          /\ mintCnt = first + work.quantity
        BY <2>1, <2>2, SnipAssumption
        DEF BatchInv, TypeOK, Holding, UndoExact, Undone!TypeOK, Numbered, Work
    <2>4. \A t \in Idx : t \in Clones <=> first <= t /\ t < mintCnt
        <3> SUFFICES ASSUME NEW t \in Idx PROVE t \in Clones <=> first <= t /\ t < mintCnt
            OBVIOUS
        <3>1. t \in Nat
            BY SnipAssumption DEF Idx
        <3>2. t < first => token[t] = undo.token[t]
            BY <2>1, <2>2 DEF Numbered
        <3>3. first <= t => undo.token[t] = None
            BY <2>1, <2>2, <2>3, <3>1
            DEF Holding, UndoExact, Undone!IdsExact, Undone!Exists, Undone!Idx, Idx
        <3>4. first <= t /\ t < mintCnt => token[t] # None
            <4>1. [owner |-> work.owner, transferable |-> TRUE] \in [owner : Addr, transferable : BOOLEAN]
                BY <2>2 DEF Holding
            <4>2. [owner |-> work.owner, transferable |-> TRUE] # None
                BY <4>1, SnipAssumption
            <4> QED
                BY <2>1, <2>2, <4>2 DEF Numbered
        <3>5. token[t] # None => t < mintCnt
            BY DEF BatchInv, IdsExact, Exists
        <3> QED
            BY <2>3, <3>1, <3>2, <3>3, <3>4, <3>5 DEF Clones
    <2>5. Clones = first .. mintCnt - 1
        <3>1. \A t \in first .. mintCnt - 1 : t \in Idx
            BY <2>3, SnipAssumption DEF Idx
        <3>2. \A t \in Idx : first <= t /\ t < mintCnt <=> t \in first .. mintCnt - 1
            BY <2>3, SnipAssumption DEF Idx
        <3> QED
            BY <2>4, <3>1, <3>2 DEF Clones
    <2>6. Cardinality(first .. mintCnt - 1) = work.quantity
        <3>1. first \in Int /\ mintCnt - 1 \in Int
            BY <2>3
        <3>2. Cardinality(first .. mintCnt - 1) =
                  IF first > mintCnt - 1 THEN 0 ELSE mintCnt - 1 - first + 1
            BY <3>1, FS_Interval
        <3> QED
            BY <2>3, <3>2
    <2>7. \A t \in Clones : t \in Idx /\ first <= t /\ t < mintCnt
        BY <2>4 DEF Clones
    <2>8. ASSUME NEW t \in Clones
          PROVE  /\ idOf[t] = DefaultId[t]
                 /\ token[t].owner = work.owner
                 /\ runInfo[t].serial = t - undo.mintCnt + 1
                 /\ runInfo[t].of = work.quantity
                 /\ runInfo[t].run = IF work.run = None THEN None
                                     ELSE undo.runNum[work.run] + 1
        <3>1. t \in Idx /\ undo.mintCnt <= t /\ t < mintCnt
            BY <2>1, <2>7
        <3>2. /\ token[t] = [owner |-> work.owner, transferable |-> TRUE]
              /\ idOf[t] = DefaultId[t]
              /\ runInfo[t] = [run |-> IF work.run = None THEN None ELSE runNum[work.run],
                               serial |-> t - undo.mintCnt + 1, of |-> work.quantity]
            BY <2>2, <3>1 DEF Numbered
        <3> QED
            BY <2>2, <3>2 DEF Numbered
    <2> QED
        BY <2>1, <2>5, <2>6, <2>8
<1> QED
    BY <1>1, <1>2, BatchInvCorrect, RunStep, PTL DEF BatchSpec, ClonesNumbered
=============================================================================

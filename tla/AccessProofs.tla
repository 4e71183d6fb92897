----------------------------- MODULE AccessProofs -----------------------------
(***************************************************************************)
(* Proofs about viewing keys and permits, for any addresses, keys, names   *)
(* and lengths of runs.                                                    *)
(***************************************************************************)
EXTENDS Access, TLAPS

\* the last key that was set is a's i-th entry
IsLatest(a, i) ==
    /\ i \in DOMAIN handed /\ handed[i].addr = a
    /\ \A j \in DOMAIN handed : handed[j].addr = a => j <= i

\* what the contract stores of the history of keys
Stores(a) ==
    IF \A i \in DOMAIN handed : handed[i].addr # a THEN viewKey[a] = Zeros
    ELSE \E i \in DOMAIN handed : IsLatest(a, i) /\ viewKey[a] = Hash(handed[i].key)

\* Inductive: for every address the hash of its latest key is stored.
KeyInv ==
    /\ handed \in Seq([addr : Addr, key : Key])
    /\ DOMAIN viewKey = Addr
    /\ height \in 0 .. MaxHeight
    /\ \A a \in Addr : Stores(a)

\* A hash is not that of another key and is never all zeros.
LEMMA HashesDiffer ==
    \A k, l : (Hash(k) = Hash(l) <=> k = l) /\ Hash(k) # Zeros
BY DEF Hash, Zeros

\* Setting a key stores its hash and makes it the latest of its address only.
LEMMA KeepKeyStep ==
    ASSUME KeyInv, NEW s \in Addr, NEW key \in Key, KeepKey(s, key)
    PROVE  KeyInv'
<1>1. /\ handed' = Append(handed, [addr |-> s, key |-> key])
      /\ handed' \in Seq([addr : Addr, key : Key])
      /\ DOMAIN handed = 1 .. Len(handed) /\ Len(handed) \in Nat
      /\ DOMAIN handed' = 1 .. Len(handed) + 1
      /\ \A i \in DOMAIN handed : handed'[i] = handed[i]
      /\ handed'[Len(handed) + 1] = [addr |-> s, key |-> key]
    BY DEF KeyInv, KeepKey
<1>2. DOMAIN viewKey' = Addr /\ viewKey'[s] = Hash(key)
      /\ \A a \in Addr \ {s} : viewKey'[a] = viewKey[a]
    BY DEF KeyInv, KeepKey, StoredKey
<1>3. Stores(s)'
    <2>1. PICK n \in DOMAIN handed' : n = Len(handed) + 1
        BY <1>1
    <2>2. IsLatest(s, n)' /\ handed'[n].key = key
        BY <2>1, <1>1 DEF IsLatest
    <2> QED
        BY <2>2, <1>2 DEF Stores, IsLatest, Hash
<1>4. ASSUME NEW a \in Addr \ {s} PROVE Stores(a)'
    <2>1. CASE \A i \in DOMAIN handed : handed[i].addr # a
        <3>1. viewKey'[a] = Zeros /\ \A i \in DOMAIN handed' : handed'[i].addr # a
            BY <2>1, <1>1, <1>2 DEF KeyInv, Stores
        <3> QED
            BY <3>1 DEF Stores, Zeros
    <2>2. CASE ~ \A i \in DOMAIN handed : handed[i].addr # a
        <3>1. PICK i \in DOMAIN handed :
                  IsLatest(a, i) /\ viewKey[a] = Hash(handed[i].key)
            BY <2>2 DEF KeyInv, Stores
        <3>2. i \in DOMAIN handed' /\ handed'[i] = handed[i] /\ handed[i].addr = a
            BY <3>1, <1>1 DEF IsLatest
        <3>3. ASSUME NEW j \in DOMAIN handed', handed'[j].addr = a PROVE j <= i
            BY <3>1, <3>3, <1>1 DEF IsLatest
        <3>4. viewKey'[a] = Hash(handed'[i].key)
            BY <3>1, <3>2, <1>2
        <3> QED
            BY <3>2, <3>3, <3>4 DEF Stores, IsLatest, Hash
    <2> QED
        BY <2>1, <2>2
<1> QED
    BY <1>1, <1>2, <1>3, <1>4 DEF KeyInv, KeepKey

\* What does not set a key keeps the invariant.
LEMMA KeysStay ==
    ASSUME KeyInv, UNCHANGED <<viewKey, handed>>, height' \in 0 .. MaxHeight
    PROVE  KeyInv'
BY DEF KeyInv, Stores, IsLatest, Hash, Zeros

\* The invariant holds throughout.
LEMMA KeyInvCorrect == Spec => []KeyInv
<1>1. Init => KeyInv
    BY AccessAssumption DEF Init, KeyInv, Stores
<1>2. KeyInv /\ [Next]_vars => KeyInv'
    <2> SUFFICES ASSUME KeyInv, [Next]_vars PROVE KeyInv'
        OBVIOUS
    <2>1. ASSUME NEW s \in Addr, NEW entropy \in Entropies, CreateViewingKey(s, entropy)
          PROVE  KeyInv'
        <3>1. NewKey(s, entropy) \in Key
            BY DEF NewKey, Key, Created, KeyInv
        <3> QED
            BY <2>1, <3>1, KeepKeyStep DEF CreateViewingKey
    <2>2. ASSUME NEW s \in Addr, NEW key \in Strings, SetViewingKey(s, key)
          PROVE  KeyInv'
        BY <2>2, KeepKeyStep DEF SetViewingKey, Key
    <2>3. ASSUME NEW s \in Addr, NEW name \in Names, RevokePermit(s, name)
          PROVE  KeyInv'
        BY <2>3, KeysStay DEF RevokePermit, KeyInv
    <2>4. CASE NewBlock
        BY <2>4, KeysStay, AccessAssumption DEF NewBlock, KeyInv
    <2>5. CASE UNCHANGED vars
        BY <2>5, KeysStay DEF vars, KeyInv
    <2> QED
        BY <2>1, <2>2, <2>3, <2>4, <2>5 DEF Next
<1> QED
    BY <1>1, <1>2, PTL DEF Spec

\* A key passes the check of an address exactly if it is its latest.
LEMMA CheckIsLatest ==
    ASSUME KeyInv, NEW a \in Addr, NEW key \in Key
    PROVE  CheckKey(a, key) <=> LatestKey(a) = key
<1> DEFINE mine == {i \in DOMAIN handed : handed[i].addr = a}
<1>1. Stores(a)
    BY DEF KeyInv
<1>2. CASE mine = {}
    <2>1. viewKey[a] = Zeros
        BY <1>1, <1>2 DEF Stores
    <2>2. LatestKey(a) = None
        BY <1>2 DEF LatestKey
    <2> QED
        BY <2>1, <2>2, HashesDiffer, AccessAssumption DEF CheckKey
<1>3. CASE mine # {}
    <2>1. PICK i \in DOMAIN handed : IsLatest(a, i) /\ viewKey[a] = Hash(handed[i].key)
        BY <1>1, <1>3 DEF Stores
    <2>2. i \in mine /\ i \in Nat /\ mine \subseteq Nat /\ \A j \in mine : j <= i
        BY <2>1 DEF IsLatest, KeyInv
    <2>3. (CHOOSE k \in mine : \A j \in mine : j <= k) = i
        <3> HIDE DEF mine
        <3>1. \A k \in mine : (\A j \in mine : j <= k) => k = i
            BY <2>2
        <3> QED
            BY <2>2, <3>1
    <2>4. LatestKey(a) = handed[i].key
        BY <1>3, <2>3 DEF LatestKey
    <2> QED
        BY <2>1, <2>4, HashesDiffer DEF CheckKey
<1> QED
    BY <1>2, <1>3

(***************************************************************************)
(* Keys find their querier: whatever keys were set and replaced, a query   *)
(* is answered as the viewer or the owner whose latest key it carries, and *)
(* as nobody else.                                                         *)
(***************************************************************************)
THEOREM KeysCorrect == Spec => []KeyFindsQuerier
<1>1. KeyInv => KeyFindsQuerier
    <2> SUFFICES ASSUME KeyInv,
                        NEW owner \in Addr, NEW viewer \in Addr \cup {None}, NEW key \in Key
                 PROVE  LET IsViewers == viewer # None /\ LatestKey(viewer) = key IN
                        /\ TokensQuerier(owner, viewer, key) =
                              IF IsViewers THEN viewer
                              ELSE IF LatestKey(owner) = key THEN owner ELSE Refused
                        /\ viewer # None =>
                              GetQuerier(viewer, key) = IF IsViewers THEN viewer ELSE Refused
        BY DEF KeyFindsQuerier
    <2>1. CheckKey(owner, key) <=> LatestKey(owner) = key
        BY CheckIsLatest
    <2>2. viewer # None => (CheckKey(viewer, key) <=> LatestKey(viewer) = key)
        BY CheckIsLatest
    <2> QED
        BY <2>1, <2>2, AccessAssumption DEF TokensQuerier, GetQuerier
<1> QED
    BY <1>1, KeyInvCorrect, PTL

(***************************************************************************)
(* Revocation is final and hits the permits of the sender with that name,  *)
(* no others: nothing but revoke_permit changes what a permit yields.      *)
(***************************************************************************)
THEOREM RevocationCorrect == Spec => RevokedForGood
<1> DEFINE OnlyRevoked ==
        \A p \in Permit :
            /\ PermitQuerier(p) = Refused => PermitQuerier(p)' = Refused
            /\ PermitQuerier(p)' # PermitQuerier(p) => RevokePermit(p.owner, p.name)
            /\ RevokePermit(p.owner, p.name) => PermitQuerier(p)' = Refused
<1>1. ASSUME [Next]_vars, NEW p \in Permit
      PROVE  /\ PermitQuerier(p) = Refused => PermitQuerier(p)' = Refused
             /\ PermitQuerier(p)' # PermitQuerier(p) => RevokePermit(p.owner, p.name)
             /\ RevokePermit(p.owner, p.name) => PermitQuerier(p)' = Refused
    <2>1. p.owner \in Addr /\ p.owner # Refused
        BY AccessAssumption DEF Permit
    <2>2. \/ revoked' = revoked
          \/ \E s \in Addr, name \in Names : RevokePermit(s, name)
        BY <1>1 DEF Next, vars, CreateViewingKey, SetViewingKey, KeepKey, NewBlock
    <2>3. CASE revoked' = revoked
        BY <2>1, <2>3 DEF PermitQuerier, RevokePermit
    <2>4. ASSUME NEW s \in Addr, NEW name \in Names, RevokePermit(s, name)
          PROVE  /\ PermitQuerier(p) = Refused => PermitQuerier(p)' = Refused
                 /\ PermitQuerier(p)' # PermitQuerier(p) => RevokePermit(p.owner, p.name)
                 /\ RevokePermit(p.owner, p.name) => PermitQuerier(p)' = Refused
        <3>1. revoked' = revoked \cup {<<s, name>>}
            BY <2>4 DEF RevokePermit
        <3>2. CASE <<s, name>> = <<p.owner, p.name>>
            <4>1. s = p.owner /\ name = p.name
                BY <3>2
            <4> QED
                BY <2>1, <2>4, <3>1, <4>1 DEF PermitQuerier
        <3>3. CASE <<s, name>> # <<p.owner, p.name>>
            BY <2>1, <3>1, <3>3 DEF PermitQuerier, RevokePermit
        <3> QED
            BY <3>2, <3>3
    <2> QED
        BY <2>2, <2>3, <2>4
<1>2. [Next]_vars => [OnlyRevoked]_vars
    BY <1>1
<1> QED
    BY <1>2, PTL DEF Spec, RevokedForGood
=============================================================================

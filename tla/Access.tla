-------------------------------- MODULE Access --------------------------------
(***************************************************************************)
(* Who a query comes from: viewing keys and permits.  The contract keeps   *)
(* the hash of one key per address and the names of revoked permits; the   *)
(* address it finds here is the querier of the operators in Queries.tla.   *)
(***************************************************************************)
EXTENDS Naturals, Sequences

CONSTANTS
    Addr,           \* canonical addresses
    Public,         \* stands for a querier who proves no address
    None,           \* Rust's Option::None
    Refused,        \* stands for a query that fails
    Strings,        \* bound: keys users choose themselves
    Entropies,      \* bound: the entropy of CreateViewingKey
    Names,          \* bound: permit names
    MaxHeight,      \* bound: blocks of a run
    MaxHanded,      \* bound: keys that are set in a run
    Levels          \* bound: contract status, fixed in a run

Created == [height : 0 .. MaxHeight, sender : Addr, entropy : Entropies]
Key == Strings \cup Created
Permit == [owner : Addr, name : Names, for_me : BOOLEAN, owner_permission : BOOLEAN]

ASSUME AccessAssumption ==
    /\ Public \notin Addr /\ None \notin Addr \cup Key /\ Refused \notin Addr \cup {Public}
    /\ Strings \cap Created = {}
    /\ MaxHeight \in Nat /\ MaxHanded \in Nat /\ Levels \subseteq 0 .. 3

VARIABLES
    status,         \* Config.status
    viewKey,        \* PREFIX_VIEW_KEY: hashes
    revoked,        \* PREFIX_REVOKED_PERMITS
    height,         \* the chain's block
    handed          \* history: the keys set, with their addresses, in order

vars == <<status, viewKey, revoked, height, handed>>

-----------------------------------------------------------------------------
(* Viewing keys.                                                            *)

\* sha256 (external), taken to be injective and never all zeros
Hash(key) == <<"sha256", key>>
Zeros == <<"zeros">>

\* ViewingKey::new: what the contract's seed, the block and the sender's input yield
NewKey(s, entropy) == [height |-> height, sender |-> s, entropy |-> entropy]

StoredKey(s, key) == [viewKey EXCEPT ![s] = Hash(key)]

KeepKey(s, key) ==
    /\ status <= 1
    /\ Len(handed) < MaxHanded
    /\ viewKey' = StoredKey(s, key)
    /\ handed' = Append(handed, [addr |-> s, key |-> key])
    /\ UNCHANGED <<status, revoked, height>>

CreateViewingKey(s, entropy) == KeepKey(s, NewKey(s, entropy))

SetViewingKey(s, key) == KeepKey(s, key)

\* any status lets a permit be revoked
RevokePermit(s, name) ==
    /\ revoked' = revoked \cup {<<s, name>>}
    /\ UNCHANGED <<status, viewKey, height, handed>>

CheckKey(a, key) == Hash(key) = viewKey[a]

-----------------------------------------------------------------------------
(* The querier.  An error is Refused.                                       *)

\* get_querier without a permit
GetQuerier(viewer, key) ==
    IF viewer = None THEN Public
    ELSE IF CheckKey(viewer, key) THEN viewer ELSE Refused

\* mutant of TokensQuerier: with a viewer the owner's key is not tried
MutTokensQuerier(owner, viewer, key) ==
    IF key = None THEN Public
    ELSE IF viewer = None THEN IF CheckKey(owner, key) THEN owner ELSE Refused
    ELSE IF CheckKey(viewer, key) THEN owner ELSE Refused

\* query_tokens and query_num_owner_tokens: one key, the viewer's or the owner's
TokensQuerier(owner, viewer, key) ==
    IF key = None THEN Public
    ELSE IF viewer # None /\ CheckKey(viewer, key) THEN viewer
    ELSE IF CheckKey(owner, key) THEN owner
    ELSE Refused

\* mutant of PermitQuerier: the revoked names are not looked up
MutPermitQuerier(p) == IF p.for_me /\ p.owner_permission THEN p.owner ELSE Refused

\* permit_queries, after validate (external) has checked signature and contract
PermitQuerier(p) ==
    IF p.for_me /\ <<p.owner, p.name>> \notin revoked /\ p.owner_permission
    THEN p.owner ELSE Refused

-----------------------------------------------------------------------------
Init ==
    /\ status \in Levels
    /\ viewKey = [a \in Addr |-> Zeros]
    /\ revoked = {}
    /\ height = 0
    /\ handed = <<>>

\* the chain (external)
NewBlock ==
    /\ height < MaxHeight
    /\ height' = height + 1
    /\ UNCHANGED <<status, viewKey, revoked, handed>>

Next ==
    \/ \E s \in Addr :
          \/ \E entropy \in Entropies : CreateViewingKey(s, entropy)
          \/ \E key \in Strings : SetViewingKey(s, key)
          \/ \E name \in Names : RevokePermit(s, name)
    \/ NewBlock

Spec == Init /\ [][Next]_vars

-----------------------------------------------------------------------------
(* Properties.                                                              *)

\* the key the address set last
LatestKey(a) ==
    LET mine == {i \in DOMAIN handed : handed[i].addr = a}
    IN  IF mine = {} THEN None
        ELSE handed[CHOOSE i \in mine : \A j \in mine : j <= i].key

(***************************************************************************)
(* A query for an owner's tokens that carries a key is answered as the     *)
(* viewer it names or as the owner it asks about, whoever's latest key it  *)
(* is, the viewer first: naming a viewer does not make the owner's own key *)
(* useless, and nobody else's key gets an answer.  Other queries take the  *)
(* key of the viewer they name only.                                       *)
(***************************************************************************)
KeyFindsQuerier ==
    \A owner \in Addr, viewer \in Addr \cup {None}, key \in Key :
        LET IsViewers == viewer # None /\ LatestKey(viewer) = key IN
        /\ TokensQuerier(owner, viewer, key) =
              IF IsViewers THEN viewer
              ELSE IF LatestKey(owner) = key THEN owner ELSE Refused
        /\ viewer # None =>
              GetQuerier(viewer, key) = IF IsViewers THEN viewer ELSE Refused

(***************************************************************************)
(* Revoking a permit's name stops every permit of that signer with that    *)
(* name for good, and nobody else's.                                       *)
(***************************************************************************)
RevokedForGood ==
    [][\A p \in Permit :
         /\ PermitQuerier(p) = Refused => PermitQuerier(p)' = Refused
         /\ PermitQuerier(p)' # PermitQuerier(p) => RevokePermit(p.owner, p.name)
         /\ RevokePermit(p.owner, p.name) => PermitQuerier(p)' = Refused
      ]_vars
=============================================================================

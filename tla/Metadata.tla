------------------------------- MODULE Metadata -------------------------------
(***************************************************************************)
(* Public, private and sealed metadata.  A private metadata that is minted *)
(* sealed is shown to nobody until the owner reveals it; revealing makes   *)
(* it public or, if the contract is so configured, lets those who may view *)
(* private metadata see it.                                                *)
(***************************************************************************)
EXTENDS Snip721

CONSTANTS
    Metas,              \* bound: the Metadata values messages carry
    TwoFieldMetas,      \* those with both a token_uri and an extension
    MintMetas,          \* bound: the public and the private metadata a mint carries
    MetaConfigs         \* bound: the settings a contract is instantiated with

VARIABLES
    metaConfig,         \* Config: the settings about metadata
    pubMeta,            \* PREFIX_PUB_META
    privMeta,           \* PREFIX_PRIV_META
    unwrapped,          \* Token.unwrapped
    secret,             \* history: the private metadata a token was minted with
    published,          \* history: the public metadata last given for a token
    updated             \* history: tokens updated after they were unwrapped

metaVars == <<metaConfig, pubMeta, privMeta, unwrapped>>
metaHistory == <<secret, published, updated>>
allMetaVars == <<snipVars, metaVars, metaHistory>>

MaybeMeta == Metas \cup {None}

\* sealed_metadata_is_enabled, unwrap_to_private, {minter,owner}_may_update_metadata
MetaConfig == [sealed : BOOLEAN, toPrivate : BOOLEAN, minterMay : BOOLEAN, ownerMay : BOOLEAN]

ASSUME MetadataAssumption ==
    /\ TwoFieldMetas \subseteq Metas /\ None \notin Metas
    /\ MetaConfigs \subseteq MetaConfig
    /\ MintMetas \subseteq [pub : MaybeMeta, priv : MaybeMeta]

SealedIsEnabled == metaConfig.sealed
UnwrapToPrivate == metaConfig.toPrivate
MinterMayUpdate == metaConfig.minterMay
OwnerMayUpdate == metaConfig.ownerMay

-----------------------------------------------------------------------------
(* Handlers.                                                                *)

\* enforce_metadata_field_exclusion
OneField(meta) == meta \notin TwoFieldMetas

\* what is stored at t after an optional metadata was saved
Saved(store, t, meta) == IF meta = None THEN store ELSE [store EXCEPT ![t] = meta]

MintedUnwrapped == ~SealedIsEnabled

MintWithMetadata(s, given, new, pub, priv) ==
    /\ Mint(s, given, new)
    /\ OneField(pub) /\ OneField(priv)
    /\ pubMeta' = Saved(pubMeta, NextIdx, pub)
    /\ privMeta' = Saved(privMeta, NextIdx, priv)
    /\ unwrapped' = [unwrapped EXCEPT ![NextIdx] = MintedUnwrapped]
    /\ secret' = [secret EXCEPT ![NextIdx] = priv]
    /\ published' = [published EXCEPT ![NextIdx] = pub]
    /\ updated' = updated \ {NextIdx}
    /\ UNCHANGED metaConfig

\* mutant of Cleared: the private metadata of a burned token stays
MutCleared(t) == [pub |-> [pubMeta EXCEPT ![t] = None], priv |-> privMeta]

Cleared(t) ==
    [pub |-> [pubMeta EXCEPT ![t] = None], priv |-> [privMeta EXCEPT ![t] = None]]

BurnWithMetadata(s, id) ==
    LET t == idxOf[id] IN
    /\ BurnNft(s, id)
    /\ pubMeta' = Cleared(t).pub
    /\ privMeta' = Cleared(t).priv
    /\ UNCHANGED <<metaConfig, unwrapped, metaHistory>>

TransferWithMetadata(s, id, to) ==
    TransferNft(s, id, to) /\ UNCHANGED <<metaVars, metaHistory>>

MayUpdate(s, t) ==
    \/ s = Owner(t) /\ OwnerMayUpdate
    \/ s \in minters /\ MinterMayUpdate

\* mutant of IsAlterable: the seal of a token is not looked at
MutIgnoreSeal(t, priv) == OneField(priv)

\* set_metadata_impl: a sealed private metadata is not altered
IsAlterable(t, priv) == priv # None => unwrapped[t] /\ OneField(priv)

\* one failing part fails the message, the public part that was written too
SetMetadata(s, id, pub, priv) ==
    LET t == idxOf[id] IN
    /\ CheckStatus(StopTransactions)
    /\ Exists(t)
    /\ MayUpdate(s, t)
    /\ OneField(pub)
    /\ IsAlterable(t, priv)
    /\ pubMeta' = Saved(pubMeta, t, pub)
    /\ privMeta' = Saved(privMeta, t, priv)
    /\ published' = Saved(published, t, pub)
    /\ updated' = IF unwrapped[t] THEN updated \cup {t} ELSE updated
    /\ UNCHANGED <<configVars, ledgerVars, permVars, ownerPriv, metaConfig, unwrapped, secret>>
    /\ Handled

\* mutant of Revealed: a token without private metadata loses its public metadata
MutWipesPublic(t) ==
    IF UnwrapToPrivate THEN [pub |-> pubMeta, priv |-> privMeta]
    ELSE [pub |-> [pubMeta EXCEPT ![t] = privMeta[t]], priv |-> [privMeta EXCEPT ![t] = None]]

Revealed(t) ==
    IF UnwrapToPrivate THEN [pub |-> pubMeta, priv |-> privMeta]
    ELSE [pub |-> Saved(pubMeta, t, privMeta[t]), priv |-> [privMeta EXCEPT ![t] = None]]

Reveal(s, id) ==
    LET t == idxOf[id] IN
    /\ CheckStatus(StopTransactions)
    /\ SealedIsEnabled
    /\ Exists(t)
    /\ ~unwrapped[t]
    /\ Owner(t) = s
    /\ unwrapped' = [unwrapped EXCEPT ![t] = TRUE]
    /\ pubMeta' = Revealed(t).pub
    /\ privMeta' = Revealed(t).priv
    /\ UNCHANGED <<configVars, ledgerVars, permVars, ownerPriv, metaConfig, metaHistory>>
    /\ Handled

-----------------------------------------------------------------------------
(* Queries.  s is Public for a querier who proves no address.               *)

\* NftInfo: also AllNftInfo and NftDossier show the public metadata to all
NftInfo(id) == IF idxOf[id] = None THEN None ELSE pubMeta[idxOf[id]]

MaySeePrivate(s, t) ==
    /\ CheckPermCore(s, t, "ViewMetadata", savedBlock)
    /\ unwrapped[t]

PrivateMetadata(s, t) == IF MaySeePrivate(s, t) THEN privMeta[t] ELSE None

-----------------------------------------------------------------------------
MetaInit ==
    /\ SnipInit
    /\ metaConfig \in MetaConfigs
    /\ pubMeta = [t \in Idx |-> None]
    /\ privMeta = [t \in Idx |-> None]
    /\ unwrapped = [t \in Idx |-> FALSE]
    /\ secret = [t \in Idx |-> None]
    /\ published = [t \in Idx |-> None]
    /\ updated = {}

MetaSteps == \E s \in Addr :
    \/ \E given \in MintIds, new \in MintChoices, meta \in MintMetas :
           MintWithMetadata(s, given, new, meta.pub, meta.priv)
    \/ \E id \in Ids, to \in Addr : TransferWithMetadata(s, id, to)
    \/ \E id \in Ids :
          \/ BurnWithMetadata(s, id)
          \/ \E pub, priv \in MaybeMeta : SetMetadata(s, id, pub, priv)
          \/ Reveal(s, id)

MetaNext ==
    \/ MetaSteps
    \/ (ApprovalNext \/ AdminNext \/ NewBlock) /\ UNCHANGED <<metaVars, metaHistory>>

MetaSpec == MetaInit /\ [][MetaNext]_allMetaVars

-----------------------------------------------------------------------------
(* Properties.                                                              *)

(***************************************************************************)
(* While a token is sealed its private metadata is what it was minted      *)
(* with, through transfers and updates of its public metadata, and nobody, *)
(* the owner included, is shown it (msg.rs on enable_sealed_metadata).     *)
(***************************************************************************)
SealedIsIntact ==
    \A t \in Idx : Exists(t) /\ SealedIsEnabled /\ ~unwrapped[t] =>
        /\ privMeta[t] = secret[t]
        /\ \A s \in Grantee : PrivateMetadata(s, t) = None

(***************************************************************************)
(* Revealing loses nothing: until somebody updates the unwrapped token,    *)
(* the owner is shown the private metadata it was minted with, as private  *)
(* or as public metadata as configured.  The public metadata stays what    *)
(* was last given for the token, before and after the reveal: it gives way *)
(* only to a private metadata that there is and that is to become public.  *)
(***************************************************************************)
SecretSurvives ==
    \A t \in Idx : Exists(t) /\ t \notin updated =>
        IF unwrapped[t] /\ SealedIsEnabled /\ ~UnwrapToPrivate
        THEN /\ privMeta[t] = None
             /\ pubMeta[t] = IF secret[t] = None THEN published[t] ELSE secret[t]
        ELSE /\ pubMeta[t] = published[t]
             /\ unwrapped[t] => PrivateMetadata(Owner(t), t) = secret[t]

(***************************************************************************)
(* A burn leaves no metadata under the token's index: a mint that carries  *)
(* none writes nothing, and would show what lies there.                    *)
(***************************************************************************)
NothingLeft == \A t \in Idx : ~Exists(t) => pubMeta[t] = None /\ privMeta[t] = None

(***************************************************************************)
(* When a token changes hands, or its id is burned and minted again, the   *)
(* new owner decides who sees its private metadata: nobody does on account *)
(* of what an earlier owner allowed.                                       *)
(***************************************************************************)
NewOwnerDecides ==
    [][\A t \in Idx : Exists(t)' /\ (~Exists(t) \/ Owner(t)' # Owner(t)) =>
         \A s \in Grantee : MaySeePrivate(s, t)' =>
             \/ s = Owner(t)'
             \/ \E g \in {s, Public} : Live(allPerm'[Owner(t)'][g]["ViewMetadata"], savedBlock')
      ]_allMetaVars
=============================================================================

---------------------------- MODULE QueriesProofs ----------------------------
(***************************************************************************)
(* Proofs about metadata and about what the queries answer.  The ledger's  *)
(* invariant holds under MetaSpec too: what Metadata.tla adds to the       *)
(* ledger's messages leaves the ledger alone.  Most of the answers rest on *)
(* one fact: nobody holds a permission on a token and one on all the owner *)
(* has, so what a query remembers of one token of an owner is true of the  *)
(* others.                                                                 *)
(***************************************************************************)
EXTENDS Queries, Snip721Proofs, WellFoundedInduction

MetaTypeOK ==
    /\ metaConfig \in MetaConfig
    /\ pubMeta \in [Idx -> MaybeMeta]
    /\ privMeta \in [Idx -> MaybeMeta]
    /\ unwrapped \in [Idx -> BOOLEAN]
    /\ secret \in [Idx -> MaybeMeta]
    /\ published \in [Idx -> MaybeMeta]

\* What a token was minted with is where its seal and the configuration say.
SecretKept(t) ==
    Exists(t) =>
        /\ SealedIsEnabled /\ ~unwrapped[t] => privMeta[t] = secret[t]
        /\ ~unwrapped[t] => pubMeta[t] = published[t]
        /\ unwrapped[t] /\ t \notin updated =>
               IF SealedIsEnabled /\ ~UnwrapToPrivate
               THEN /\ privMeta[t] = None
                    /\ pubMeta[t] = IF secret[t] = None THEN published[t] ELSE secret[t]
               ELSE privMeta[t] = secret[t] /\ pubMeta[t] = published[t]

MetaInv ==
    /\ IInv
    /\ MetaTypeOK
    /\ NothingLeft
    /\ \A t \in Idx : SecretKept(t)

\* No token exists yet, and no metadata.
LEMMA MetaInitInv == MetaInit => MetaInv
<1> SUFFICES ASSUME MetaInit PROVE MetaInv
    OBVIOUS
<1>1. IInv
    BY InitInv DEF MetaInit
<1>2. MetaTypeOK
    BY MetadataAssumption DEF MetaInit, MetaTypeOK, MaybeMeta
<1>3. NothingLeft /\ \A t \in Idx : SecretKept(t)
    BY DEF MetaInit, SnipInit, NothingLeft, SecretKept, Exists
<1> QED
    BY <1>1, <1>2, <1>3 DEF MetaInv

\* Saving an optional metadata changes one entry or none.
LEMMA SavedEntry ==
    ASSUME NEW store \in [Idx -> MaybeMeta], NEW n, NEW meta \in MaybeMeta
    PROVE  /\ Saved(store, n, meta) \in [Idx -> MaybeMeta]
           /\ \A t \in Idx : Saved(store, n, meta)[t] =
                  IF t = n /\ meta # None THEN meta ELSE store[t]
BY DEF Saved

\* Under a fresh index lies nothing that a mint without metadata could show.
LEMMA MetaMintInv ==
    ASSUME MetaInv, NEW s \in Addr, NEW given \in MintIds, NEW new \in MintChoices,
           NEW pub \in MaybeMeta, NEW priv \in MaybeMeta,
           NEW n, n = mintCnt, MintWithMetadata(s, given, new, pub, priv), IInv'
    PROVE  MetaInv'
<1>0. IInv /\ MetaTypeOK /\ NothingLeft
    BY DEF MetaInv
<1>1. n \in Idx /\ ~Exists(n) /\ Mint(s, given, new)
    BY <1>0, SnipAssumption
    DEF MintWithMetadata, Mint, BelowLimit, IInv, TypeOK, IdsExact, Idx
<1>2. /\ pubMeta' = Saved(pubMeta, n, pub) /\ privMeta' = Saved(privMeta, n, priv)
      /\ unwrapped' = [unwrapped EXCEPT ![n] = MintedUnwrapped]
      /\ secret' = [secret EXCEPT ![n] = priv] /\ published' = [published EXCEPT ![n] = pub]
      /\ updated' = updated \ {n} /\ metaConfig' = metaConfig
    BY DEF MintWithMetadata, NextIdx
<1>3. MetaTypeOK'
    BY <1>0, <1>1, <1>2, SavedEntry DEF MetaTypeOK, MintedUnwrapped
<1>4. \A t \in Idx : t # n => (Exists(t)' <=> Exists(t))
    BY <1>0, <1>1, MintTokens DEF Exists
<1>5. Exists(n)'
    BY <1>0, <1>1, MintTokens
<1>6. \A t \in Idx : t # n =>
          /\ pubMeta'[t] = pubMeta[t] /\ privMeta'[t] = privMeta[t]
          /\ unwrapped'[t] = unwrapped[t] /\ secret'[t] = secret[t]
          /\ published'[t] = published[t]
          /\ t \in updated' <=> t \in updated
    BY <1>0, <1>1, <1>2, SavedEntry DEF MetaTypeOK
<1>7. NothingLeft'
    BY <1>0, <1>4, <1>5, <1>6 DEF NothingLeft
<1>8. ASSUME NEW t \in Idx PROVE SecretKept(t)'
    <2>1. CASE t # n
        BY <1>2, <1>4, <1>6, <2>1
        DEF MetaInv, SecretKept, SealedIsEnabled, UnwrapToPrivate
    <2>2. CASE t = n
        <3>1. /\ privMeta'[n] = IF priv = None THEN privMeta[n] ELSE priv
              /\ pubMeta'[n] = IF pub = None THEN pubMeta[n] ELSE pub
            BY <1>0, <1>1, <1>2, SavedEntry DEF MetaTypeOK
        <3>2. privMeta[n] = None /\ pubMeta[n] = None
            BY <1>0, <1>1 DEF NothingLeft
        <3>3. secret'[n] = priv /\ published'[n] = pub
            BY <1>0, <1>1, <1>2 DEF MetaTypeOK
        <3>4. unwrapped'[n] <=> ~SealedIsEnabled
            BY <1>0, <1>1, <1>2 DEF MetaTypeOK, MintedUnwrapped
        <3> QED
            BY <1>2, <2>2, <3>1, <3>2, <3>3, <3>4 DEF SecretKept, SealedIsEnabled
    <2> QED
        BY <2>1, <2>2
<1> QED
    BY <1>3, <1>7, <1>8 DEF MetaInv

\* A step of the ledger alone that creates no token leaves metadata in place.
LEMMA MetaKeepInv ==
    ASSUME MetaInv, IInv', UNCHANGED <<metaVars, metaHistory>>,
           \A t \in Idx : Exists(t)' <=> Exists(t)
    PROVE  MetaInv'
<1>1. MetaTypeOK'
    BY DEF MetaInv, MetaTypeOK, metaVars, metaHistory
<1> QED
    BY <1>1
    DEF MetaInv, NothingLeft, SecretKept, SealedIsEnabled, UnwrapToPrivate, metaVars, metaHistory

\* A burn clears what lies under the index.
LEMMA MetaBurnInv ==
    ASSUME MetaInv, NEW s \in Addr, NEW id \in Ids, NEW n, n = idxOf[id],
           BurnWithMetadata(s, id), IInv'
    PROVE  MetaInv'
<1>1. n \in Idx /\ Exists(n) /\ BurnEffect(n, id)
    BY DEF BurnWithMetadata, BurnNft, Exists
<1>2. /\ pubMeta' = [pubMeta EXCEPT ![n] = None]
      /\ privMeta' = [privMeta EXCEPT ![n] = None]
      /\ UNCHANGED <<metaConfig, unwrapped, metaHistory>>
    BY DEF BurnWithMetadata, Cleared
<1>0. IInv /\ MetaTypeOK /\ NothingLeft
    BY DEF MetaInv
<1>3. MetaTypeOK'
    BY <1>0, <1>2 DEF MetaTypeOK, MaybeMeta, metaHistory
<1>4. ~Exists(n)'
    BY <1>0, <1>1, BurnTokens
<1>5. \A t \in Idx : t # n => (Exists(t)' <=> Exists(t))
    BY <1>0, <1>1, BurnTokens DEF Exists
<1>6. \A t \in Idx :
          /\ pubMeta'[t] = IF t = n THEN None ELSE pubMeta[t]
          /\ privMeta'[t] = IF t = n THEN None ELSE privMeta[t]
    BY <1>0, <1>2 DEF MetaTypeOK
<1>7. NothingLeft'
    BY <1>0, <1>5, <1>6 DEF NothingLeft
<1>8. \A t \in Idx : SecretKept(t)'
    BY <1>2, <1>4, <1>5, <1>6
    DEF MetaInv, SecretKept, SealedIsEnabled, UnwrapToPrivate, metaHistory
<1> QED
    BY <1>3, <1>7, <1>8 DEF MetaInv

\* An update of a sealed token leaves the private metadata alone.
LEMMA MetaUpdateInv ==
    ASSUME MetaInv, NEW s \in Addr, NEW id \in Ids,
           NEW n, n = idxOf[id],
           NEW pub \in MaybeMeta, NEW priv \in MaybeMeta, SetMetadata(s, id, pub, priv), IInv'
    PROVE  MetaInv'
<1>0. MetaTypeOK
    BY DEF MetaInv
<1>1. n \in Idx /\ Exists(n) /\ UNCHANGED <<token, metaConfig, unwrapped, secret>>
    BY DEF SetMetadata, Exists, ledgerVars
<1>2. /\ pubMeta' = Saved(pubMeta, n, pub) /\ privMeta' = Saved(privMeta, n, priv)
      /\ published' = Saved(published, n, pub)
      /\ updated' = IF unwrapped[n] THEN updated \cup {n} ELSE updated
      /\ priv # None => unwrapped[n]
    BY DEF SetMetadata, IsAlterable
<1>3. MetaTypeOK'
    BY <1>0, <1>1, <1>2, SavedEntry DEF MetaTypeOK
<1>4. \A t \in Idx : t # n => /\ pubMeta'[t] = pubMeta[t] /\ privMeta'[t] = privMeta[t]
                               /\ published'[t] = published[t]
    BY <1>0, <1>1, <1>2, SavedEntry DEF MetaTypeOK
<1>5. /\ ~unwrapped[n] => privMeta'[n] = privMeta[n]
      /\ pubMeta[n] = published[n] => pubMeta'[n] = published'[n]
    BY <1>0, <1>1, <1>2, SavedEntry DEF MetaTypeOK
<1>6. \A t \in Idx : Exists(t)' <=> Exists(t)
    BY <1>1 DEF Exists
<1>7. NothingLeft'
    BY <1>1, <1>4, <1>6 DEF MetaInv, NothingLeft
<1>8. \A t \in Idx : SecretKept(t)'
    BY <1>1, <1>2, <1>4, <1>5, <1>6
    DEF MetaInv, SecretKept, SealedIsEnabled, UnwrapToPrivate
<1> QED
    BY <1>3, <1>7, <1>8 DEF MetaInv

\* Revealing puts the metadata where the configuration says.
LEMMA MetaRevealInv ==
    ASSUME MetaInv, NEW s \in Addr, NEW id \in Ids, NEW n, n = idxOf[id],
           Reveal(s, id), IInv'
    PROVE  MetaInv'
<1>0. MetaTypeOK
    BY DEF MetaInv
<1>1. /\ n \in Idx /\ Exists(n) /\ SealedIsEnabled /\ ~unwrapped[n]
      /\ UNCHANGED <<token, metaConfig, secret, published, updated>>
    BY DEF Reveal, Exists, ledgerVars, metaHistory
<1>2. /\ unwrapped' = [unwrapped EXCEPT ![n] = TRUE]
      /\ pubMeta' = IF UnwrapToPrivate THEN pubMeta ELSE Saved(pubMeta, n, privMeta[n])
      /\ privMeta' = IF UnwrapToPrivate THEN privMeta ELSE [privMeta EXCEPT ![n] = None]
    BY DEF Reveal, Revealed
<1>3. privMeta[n] \in MaybeMeta /\ None \in MaybeMeta
    BY <1>1 DEF MetaInv, MetaTypeOK, MaybeMeta
<1>4. MetaTypeOK'
    BY <1>0, <1>1, <1>2, <1>3, SavedEntry DEF MetaTypeOK
<1>5. /\ \A t \in Idx : t # n => /\ pubMeta'[t] = pubMeta[t] /\ privMeta'[t] = privMeta[t]
                                 /\ unwrapped'[t] = unwrapped[t]
      /\ ~UnwrapToPrivate => /\ privMeta'[n] = None
                             /\ pubMeta'[n] = IF privMeta[n] = None THEN pubMeta[n]
                                              ELSE privMeta[n]
    BY <1>0, <1>1, <1>2, <1>3, SavedEntry DEF MetaTypeOK
<1>6. \A t \in Idx : Exists(t)' <=> Exists(t)
    BY <1>1 DEF Exists
<1>7. NothingLeft'
    BY <1>1, <1>5, <1>6 DEF MetaInv, NothingLeft
<1>8. ASSUME NEW t \in Idx PROVE SecretKept(t)'
    <2>1. CASE t # n
        BY <1>1, <1>5, <1>6, <2>1
        DEF MetaInv, SecretKept, SealedIsEnabled, UnwrapToPrivate
    <2>2. CASE t = n
        <3>1. privMeta[n] = secret[n] /\ pubMeta[n] = published[n]
            BY <1>1 DEF MetaInv, SecretKept
        <3>2. unwrapped'[n] = TRUE
            BY <1>1, <1>2 DEF MetaInv, MetaTypeOK
        <3> QED
            BY <1>1, <1>2, <1>5, <2>2, <3>1, <3>2
            DEF SecretKept, SealedIsEnabled, UnwrapToPrivate
    <2> QED
        BY <2>1, <2>2
<1> QED
    BY <1>4, <1>7, <1>8 DEF MetaInv

\* A step is one of the ledger's, or changes metadata and nothing of the ledger.
LEMMA MetaSnipStep ==
    [MetaNext]_allMetaVars =>
        \/ [SnipNext]_snipVars
        \/ UNCHANGED <<configVars, ledgerVars, permVars, ownerPriv>> /\ Handled
<1>1. ASSUME NEW s, NEW id, NEW pub, NEW priv, SetMetadata(s, id, pub, priv) \/ Reveal(s, id)
      PROVE  UNCHANGED <<configVars, ledgerVars, permVars, ownerPriv>> /\ Handled
    BY <1>1 DEF SetMetadata, Reveal
<1> QED
    BY <1>1
    DEF MetaNext, MetaSteps, MintWithMetadata, TransferWithMetadata, BurnWithMetadata,
        SnipNext, LedgerNext, allMetaVars

\* Every step keeps the ledger's invariant.
LEMMA MetaLedgerInv == IInv /\ [MetaNext]_allMetaVars => IInv'
BY MetaSnipStep, NextInv, QuietInv

\* A step that changes no token changes no index either.
LEMMA SameTokens ==
    UNCHANGED token => \A t \in Idx : Exists(t)' <=> Exists(t)
BY DEF Exists

\* Every step keeps the metadata where it belongs.
LEMMA MetaNextInv == MetaInv /\ [MetaNext]_allMetaVars => MetaInv'
<1> SUFFICES ASSUME MetaInv, [MetaNext]_allMetaVars PROVE MetaInv'
    OBVIOUS
<1>1. IInv /\ IInv'
    BY MetaLedgerInv DEF MetaInv
<1>2. CASE MetaSteps
    <2>1. ASSUME NEW s \in Addr, NEW id \in Ids, NEW to \in Addr, TransferWithMetadata(s, id, to)
          PROVE  MetaInv'
        <3>1. Exists(idxOf[id]) /\ TransferEffect(idxOf[id], to)
            BY <2>1 DEF TransferWithMetadata, TransferNft
        <3>2. \A t \in Idx : Exists(t)' <=> Exists(t)
            BY <1>1, <3>1, TransferTokens
        <3> QED
            BY <1>1, <2>1, <3>2, MetaKeepInv DEF TransferWithMetadata
    <2>2. \A meta \in MintMetas : meta.pub \in MaybeMeta /\ meta.priv \in MaybeMeta
        BY MetadataAssumption
    <2> QED
        BY <1>1, <1>2, <2>1, <2>2, MetaMintInv, MetaBurnInv, MetaUpdateInv, MetaRevealInv
        DEF MetaSteps
<1>3. CASE (ApprovalNext \/ AdminNext \/ NewBlock) /\ UNCHANGED <<metaVars, metaHistory>>
    <2>1. UNCHANGED token
        BY <1>3, ApprovalFrame, AdminFrame DEF NewBlock, ledgerVars
    <2> QED
        BY <1>1, <1>3, <2>1, SameTokens, MetaKeepInv
<1>4. CASE UNCHANGED allMetaVars
    <2>1. UNCHANGED <<token, metaVars, metaHistory>>
        BY <1>4 DEF allMetaVars, snipVars, ledgerVars
    <2> QED
        BY <1>1, <2>1, SameTokens, MetaKeepInv
<1> QED
    BY <1>2, <1>3, <1>4 DEF MetaNext

\* MetaInv holds in every reachable state.
LEMMA MetaInvCorrect == MetaSpec => []MetaInv
BY MetaInitInv, MetaNextInv, PTL DEF MetaSpec

(***************************************************************************)
(* A sealed token keeps the private metadata it was minted with and shows  *)
(* it to nobody, whoever updates or moves it.                              *)
(***************************************************************************)
THEOREM SealedIsIntactCorrect == MetaSpec => []SealedIsIntact
<1>1. MetaInv => SealedIsIntact
    BY DEF MetaInv, SecretKept, SealedIsIntact, PrivateMetadata, MaySeePrivate
<1> QED
    BY <1>1, MetaInvCorrect, PTL

(***************************************************************************)
(* Until somebody updates a token, its owner sees what it was minted with  *)
(* once it is revealed, and so does everybody if reveals are public; the   *)
(* public metadata stays unless a private one replaces it.                 *)
(***************************************************************************)
THEOREM SecretSurvivesCorrect == MetaSpec => []SecretSurvives
<1>1. \A t \in Idx : unwrapped[t] => PrivateMetadata(Owner(t), t) = privMeta[t]
    BY DEF PrivateMetadata, MaySeePrivate, CheckPermCore
<1>2. MetaInv => SecretSurvives
    BY <1>1 DEF MetaInv, SecretKept, SecretSurvives
<1> QED
    BY <1>2, MetaInvCorrect, PTL

(***************************************************************************)
(* Nothing lies under the index of a burned token, nor under one to come.  *)
(***************************************************************************)
THEOREM NothingLeftCorrect == MetaSpec => []NothingLeft
<1>1. MetaInv => NothingLeft
    BY DEF MetaInv
<1> QED
    BY <1>1, MetaInvCorrect, PTL

(***************************************************************************)
(* Whoever may see the private metadata of a token that has just changed   *)
(* hands, or was just minted under a used id, may so by what the new owner *)
(* allowed.                                                                *)
(***************************************************************************)
THEOREM NewOwnerDecidesCorrect == MetaSpec => NewOwnerDecides
<1>1. IInv /\ [MetaNext]_allMetaVars =>
          [\A t \in Idx : Exists(t)' /\ (~Exists(t) \/ Owner(t)' # Owner(t)) =>
             \A s \in Grantee : MaySeePrivate(s, t)' =>
                 \/ s = Owner(t)'
                 \/ \E g \in {s, Public} :
                        Live(allPerm'[Owner(t)'][g]["ViewMetadata"], savedBlock')
          ]_allMetaVars
    <2> SUFFICES ASSUME IInv, [MetaNext]_allMetaVars, NEW t \in Idx,
                        Exists(t)', ~Exists(t) \/ Owner(t)' # Owner(t),
                        NEW s \in Grantee, MaySeePrivate(s, t)'
                 PROVE  \/ s = Owner(t)'
                        \/ \E g \in {s, Public} :
                               Live(allPerm'[Owner(t)'][g]["ViewMetadata"], savedBlock')
        OBVIOUS
    <2>1. [SnipNext]_snipVars
        BY MetaSnipStep DEF ledgerVars, Exists, Owner
    <2>2. tokPerm'[t] = NoGrants
        BY <2>1, FreshPerms
    <2>3. \A g \in {s, Public} : ~Live(tokPerm'[t][g]["ViewMetadata"], savedBlock')
        BY <2>2 DEF NoGrants, NoPerms, PermTypes, Grantee, Live
    <2> QED
        BY <2>3 DEF MaySeePrivate, CheckPermCore
<1>2. MetaInv => IInv
    BY DEF MetaInv
<1> QED
    BY <1>1, <1>2, MetaInvCorrect, PTL DEF MetaSpec, NewOwnerDecides

-----------------------------------------------------------------------------
(* Queries.                                                                 *)

\* Inductive: what the answers are computed from
QueryInv ==
    /\ MetaInv
    /\ SupplyExact
    /\ NoPublicTransfer

\* Metadata messages leave the supply and the public's permissions alone.
LEMMA QueryInvCorrect == MetaSpec => []QueryInv
<1>1. MetaInit => QueryInv
    <2> SUFFICES ASSUME MetaInit PROVE QueryInv
        OBVIOUS
    <2>1. {t \in Idx : Exists(t)} = {}
        BY DEF MetaInit, SnipInit, Exists
    <2>2. SupplyExact
        BY <2>1, FS_EmptySet DEF MetaInit, SnipInit, SupplyExact
    <2>3. NoPublicTransfer
        BY DEF MetaInit, SnipInit, NoPublicTransfer, NoGrants, NoPerms, Grantee, PermTypes
    <2> QED
        BY <2>2, <2>3, MetaInitInv DEF QueryInv
<1>2. QueryInv /\ [MetaNext]_allMetaVars => QueryInv'
    <2> SUFFICES ASSUME QueryInv, [MetaNext]_allMetaVars PROVE QueryInv'
        OBVIOUS
    <2>1. MetaInv /\ IInv /\ SupplyExact /\ NoPublicTransfer
        BY DEF QueryInv, MetaInv
    <2>2. MetaInv'
        BY <2>1, MetaNextInv
    <2>3. CASE [SnipNext]_snipVars
        BY <2>1, <2>2, <2>3, SupplyStep, PublicStep DEF QueryInv
    <2>4. CASE UNCHANGED <<configVars, ledgerVars, permVars, ownerPriv>> /\ Handled
        <3>1. SupplyExact' /\ NoPublicTransfer'
            BY <2>1, <2>4 DEF SupplyExact, NoPublicTransfer, Exists, ledgerVars, permVars
        <3> QED
            BY <2>2, <3>1 DEF QueryInv
    <2> QED
        BY <2>3, <2>4, MetaSnipStep
<1> QED
    BY <1>1, <1>2, PTL DEF MetaSpec

\* The check that a query makes finds the permissions that have not expired.
LEMMA PassesByGrant ==
    ASSUME IInv, NEW t \in Idx, Exists(t), NEW s \in Grantee, NEW p \in PermTypes
    PROVE  PassesCore(s, t, p) <=>
               \/ s = Owner(t)
               \/ \E g \in {s, Public} : Live(tokPerm[t][g][p], savedBlock)
               \/ \E g \in {s, Public} : Live(allPerm[Owner(t)][g][p], savedBlock)
BY CoreIsAccess DEF PassesCore, MayAccess

\* Whoever is found to be an operator may see all the owner's tokens.
LEMMA FoundPasses ==
    ASSUME IInv, NEW t \in Idx, Exists(t), NEW u \in Idx, Exists(u), Owner(u) = Owner(t),
           NEW s \in Grantee, NEW p \in PermTypes, FoundOperator(s, u, p)
    PROVE  PassesCore(s, t, p)
BY PassesByGrant DEF FoundOperator

\* What is remembered of a list lets no other token pass.
LEMMA NthPasses ==
    ASSUME IInv, NEW s \in Grantee, NEW ids, NEW n, NEW p \in PermTypes,
           idxOf[ids[n]] \in Idx, Exists(idxOf[ids[n]])
    PROVE  PassesNth(s, ids, n, p) <=> PassesCore(s, idxOf[ids[n]], p)
<1>1. ASSUME Owner(idxOf[ids[n]]) \in OperFor(s, ids, n, p)
      PROVE  PassesCore(s, idxOf[ids[n]], p)
    <2>1. PICK j \in 1 .. n - 1 : /\ Exists(idxOf[ids[j]])
                                  /\ RemembersFor(s, idxOf[ids[j]], p)
                                  /\ Owner(idxOf[ids[j]]) = Owner(idxOf[ids[n]])
        BY <1>1 DEF OperFor
    <2>2. idxOf[ids[j]] \in Idx
        BY <2>1 DEF Exists
    <2> QED
        BY <2>1, <2>2, FoundPasses DEF RemembersFor
<1> QED
    BY <1>1 DEF PassesNth

(***************************************************************************)
(* BatchNftDossier shows of each token what NftDossier shows of it alone,  *)
(* and what the queries for its owner and metadata show, and hides the     *)
(* addresses in its royalties from all who may not transfer it.            *)
(***************************************************************************)
THEOREM BatchIsSingleCorrect == MetaSpec => []BatchIsSingle
<1>1. QueryInv => BatchIsSingle
    <2> SUFFICES ASSUME IInv, NEW s \in Grantee, NEW ids \in Lists,
                        BatchNftDossier(s, ids, FALSE) # None, NEW n \in DOMAIN ids
                 PROVE  LET t == idxOf[ids[n]]
                            batch == BatchNftDossier(s, ids, FALSE)
                        IN  /\ batch[n] = NftDossier(s, ids[n], FALSE)
                            /\ batch[n].owner = OwnerOf(s, t, FALSE).owner
                            /\ batch[n].public_metadata = NftInfo(ids[n])
                            /\ batch[n].private_metadata = PrivateMetadata(s, t)
                            /\ batch[n].hide_addr <=> ~PassesCore(s, t, "Transfer")
        BY DEF BatchIsSingle, QueryInv, MetaInv
    <2>1. PICK t : t = idxOf[ids[n]]
        OBVIOUS
    <2>2. Exists(t) /\ BatchNftDossier(s, ids, FALSE)[n] = Dossier(s, ids, n, FALSE)
        BY <2>1 DEF BatchNftDossier
    <2>3. t \in Idx /\ t # None
        BY <2>2, SnipAssumption DEF Exists
    <2>4. NftDossier(s, ids[n], FALSE) = Dossier(s, <<ids[n]>>, 1, FALSE)
        <3> DEFINE one == <<ids[n]>>
                   batch == [i \in DOMAIN one |-> Dossier(s, one, i, FALSE)]
        <3>1. DOMAIN one = {1} /\ one[1] = ids[n]
            OBVIOUS
        <3>2. batch[1] = Dossier(s, one, 1, FALSE)
            BY <3>1
        <3>3. BatchNftDossier(s, one, FALSE) = batch
            BY <2>1, <2>2, <3>1 DEF BatchNftDossier
        <3> QED
            BY <2>1, <2>2, <3>2, <3>3 DEF NftDossier
    <2>5. \A p \in PermTypes : /\ PassesNth(s, ids, n, p) <=> PassesCore(s, t, p)
                               /\ PassesNth(s, <<ids[n]>>, 1, p) <=> PassesCore(s, t, p)
        BY <2>1, <2>2, <2>3, NthPasses
    <2>6. Dossier(s, <<ids[n]>>, 1, FALSE) = Dossier(s, ids, n, FALSE)
        BY <2>1, <2>5 DEF Dossier, PermTypes
    <2>7. Dossier(s, ids, n, FALSE).owner = OwnerOf(s, t, FALSE).owner
        BY <2>1, <2>5 DEF Dossier, OwnerOf, Passes, PassesCore, CheckPermission, PermTypes
    <2>8. /\ Dossier(s, ids, n, FALSE).public_metadata = NftInfo(ids[n])
          /\ Dossier(s, ids, n, FALSE).private_metadata = PrivateMetadata(s, t)
        BY <2>1, <2>3, <2>5
        DEF Dossier, NftInfo, PrivateMetadata, MaySeePrivate, PassesCore, PermTypes
    <2>9. Dossier(s, ids, n, FALSE).hide_addr <=> ~PassesCore(s, t, "Transfer")
        BY <2>5 DEF Dossier, PermTypes
    <2> QED
        BY <2>1, <2>2, <2>4, <2>6, <2>7, <2>8, <2>9
<1> QED
    BY <1>1, QueryInvCorrect, PTL

-----------------------------------------------------------------------------
(* What the owner is shown.                                                 *)

\* A permission on a token excludes one on all, and both have types.
LEMMA GrantPair ==
    ASSUME IInv, NEW t \in Idx, Exists(t), NEW g \in Grantee, NEW p \in PermTypes
    PROVE  /\ Owner(t) \in Addr
           /\ tokPerm[t][g][p] \in PermSet /\ allPerm[Owner(t)][g][p] \in PermSet
           /\ tokPerm[t][g][p] # None => allPerm[Owner(t)][g][p] = None
<1>1. Owner(t) \in Addr
    BY OwnerType DEF IInv
<1> QED
    BY <1>1 DEF IInv, TypeOK, NoDoubleGrant

\* The public's check and the expiration shown agree until then.
LEMMA PublicUntil ==
    ASSUME IInv, NEW t \in Idx, Exists(t), NEW p \in PermTypes, NEW b \in BlockInfo,
           savedBlock.height <= b.height, savedBlock.time <= b.time
    PROVE  LET shown == IF PublicExp(tokPerm[t], p) # None THEN PublicExp(tokPerm[t], p)
                        ELSE PublicExp(allPerm[Owner(t)], p)
           IN  CheckPermCore(Public, t, p, b) <=> shown # None /\ ~IsExpired(shown, b)
<1> DEFINE tok == tokPerm[t][Public][p]
           all == allPerm[Owner(t)][Public][p]
<1>1. Public \in Grantee /\ savedBlock \in BlockInfo
    BY DEF Grantee, IInv, TypeOK
<1>2. /\ Owner(t) \in Addr /\ tok \in PermSet /\ all \in PermSet
      /\ tok # None => all = None
    BY <1>1, GrantPair
<1>3. Public # Owner(t)
    BY <1>2, SnipAssumption
<1>4. CheckPermCore(Public, t, p, b) <=> Live(tok, b) \/ Live(all, b)
    BY <1>1, <1>3, CoreIsAccess DEF MayAccess
<1> HIDE DEF tok, all
<1>5. /\ Live(tok, b) => Live(tok, savedBlock)
      /\ Live(all, b) => Live(all, savedBlock)
    BY <1>1, <1>2, LiveEarlier
<1>6. /\ PublicExp(tokPerm[t], p) = IF Live(tok, savedBlock) THEN tok ELSE None
      /\ PublicExp(allPerm[Owner(t)], p) = IF Live(all, savedBlock) THEN all ELSE None
    BY DEF PublicExp, tok, all
<1> QED
    BY <1>2, <1>4, <1>5, <1>6 DEF Live

(***************************************************************************)
(* A token's public flags and expirations tell the truth until a message   *)
(* changes them: a querier without an address passes exactly until the     *)
(* expiration that is shown.                                               *)
(***************************************************************************)
THEOREM PublicFlagsCorrect == MetaSpec => []PublicFlagsExact
<1>1. QueryInv => PublicFlagsExact
    <2> SUFFICES ASSUME IInv, NEW t \in Idx, Exists(t)
                 PROVE  LET answer == TokenApprovals(t, FALSE)
                            ofOwner == InventoryApprovals(Owner(t), FALSE)
                        IN
                        /\ answer.owner_is_public <=> Passes(Public, t, "ViewOwner")
                        /\ answer.private_metadata_is_public
                               <=> PassesCore(Public, t, "ViewMetadata")
                        /\ ofOwner.public_ownership_expiration # None
                               => answer.owner_is_public
                        /\ \A h \in savedBlock.height .. MaxHeight + 1 :
                            LET b == [savedBlock EXCEPT !.height = h]
                                Holds(exp) == exp # None /\ ~IsExpired(exp, b)
                            IN  /\ CheckPermission(Public, t, "ViewOwner", b) <=>
                                      Holds(answer.public_ownership_expiration)
                                /\ CheckPermCore(Public, t, "ViewMetadata", b) <=>
                                      Holds(answer.private_metadata_is_public_expiration)
        BY DEF PublicFlagsExact, QueryInv, MetaInv
    <2>1. /\ savedBlock \in BlockInfo
          /\ savedBlock.height \in Nat /\ savedBlock.time \in Nat
        BY DEF IInv, TypeOK, BlockInfo
    <2>2. Never # None /\ \A b : ~IsExpired(Never, b)
        BY SnipAssumption DEF Never, IsExpired
    <2>3. \A b \in BlockInfo :
              savedBlock.height <= b.height /\ savedBlock.time <= b.time =>
              /\ CheckPermission(Public, t, "ViewOwner", b) <=>
                     PublicOwnershipExp(t) # None /\ ~IsExpired(PublicOwnershipExp(t), b)
              /\ CheckPermCore(Public, t, "ViewMetadata", b) <=>
                     PublicMetadataExp(t) # None /\ ~IsExpired(PublicMetadataExp(t), b)
        <3> TAKE b \in BlockInfo
        <3> HAVE savedBlock.height <= b.height /\ savedBlock.time <= b.time
        <3>1. "ViewOwner" \in PermTypes /\ "ViewMetadata" \in PermTypes
            BY DEF PermTypes
        <3> QED
            BY <2>2, <3>1, PublicUntil
            DEF CheckPermission, PublicOwnershipExp, PublicMetadataExp
    <2>4. /\ PublicOwnershipExp(t) # None => ~IsExpired(PublicOwnershipExp(t), savedBlock)
          /\ PublicMetadataExp(t) # None => ~IsExpired(PublicMetadataExp(t), savedBlock)
        BY <2>2 DEF PublicOwnershipExp, PublicMetadataExp, PublicExp, Live
    <2>5. /\ PublicOwnershipExp(t) # None <=> Passes(Public, t, "ViewOwner")
          /\ PublicMetadataExp(t) # None <=> PassesCore(Public, t, "ViewMetadata")
        BY <2>1, <2>3, <2>4 DEF Passes, PassesCore
    <2>6. InventoryApprovals(Owner(t), FALSE).public_ownership_expiration # None
              => PublicOwnershipExp(t) # None
        BY <2>2 DEF InventoryApprovals, PublicOwnershipExp
    <2>7. \A h \in savedBlock.height .. MaxHeight + 1 :
              LET b == [savedBlock EXCEPT !.height = h] IN
              b \in BlockInfo /\ savedBlock.height <= b.height /\ savedBlock.time <= b.time
        BY <2>1 DEF BlockInfo
    <2> QED
        BY <2>3, <2>5, <2>6, <2>7 DEF TokenApprovals
<1> QED
    BY <1>1, QueryInvCorrect, PTL

(***************************************************************************)
(* OwnerOf shows the owner every other address that may move the token,    *)
(* and no one else, each once; the approvals of token and inventory name   *)
(* everybody who passes a check by a permission of their own.              *)
(***************************************************************************)
THEOREM OwnerSeesCorrect == MetaSpec => []OwnerSeesApprovals
<1>1. QueryInv => OwnerSeesApprovals
    <2> SUFFICES ASSUME IInv, NoPublicTransfer, NEW t \in Idx, Exists(t)
                 PROVE  LET answer == OwnerOf(Owner(t), t, FALSE) IN
                        /\ answer.owner = Owner(t)
                        /\ answer.spenders \cap answer.operators = {}
                        /\ answer.operators = ApprovedForAll(Owner(t), FALSE)
                        /\ \A a \in Addr \ {Owner(t)}, p \in PermTypes :
                              (PassesCore(a, t, p) /\ ~PassesCore(Public, t, p)) =>
                                  \E entry \in TokenApprovals(t, FALSE).token_approvals
                                     \cup InventoryApprovals(Owner(t), FALSE).inventory_approvals :
                                      entry.address = a /\ entry.expirations[p] # None
                        /\ \A a \in Addr \ {Owner(t)} :
                              a \in answer.spenders \cup answer.operators
                                  <=> PassesCore(a, t, "Transfer")
        BY DEF OwnerSeesApprovals, QueryInv, MetaInv
    <2>1. Addr \subseteq Grantee /\ Public \in Grantee /\ "Transfer" \in PermTypes
        BY DEF Grantee, PermTypes
    <2>2. Owner(t) \in Addr /\ Owner(t) # Public
        BY <2>1, GrantPair, SnipAssumption
    <2>3. \A perm : Shown(perm, FALSE) <=> Live(perm, savedBlock)
        BY DEF Shown, Live
    <2>4. /\ OwnerOf(Owner(t), t, FALSE).owner = Owner(t)
          /\ OwnerOf(Owner(t), t, FALSE).operators = ApprovedForAll(Owner(t), FALSE)
        BY DEF OwnerOf, Passes, CheckPermission, CheckPermCore, ApprovedForAll
    <2>5. \A a \in Addr :
              /\ a \in OwnerOf(Owner(t), t, FALSE).spenders
                    <=> Live(tokPerm[t][a]["Transfer"], savedBlock)
              /\ a \in OwnerOf(Owner(t), t, FALSE).operators
                    <=> Live(allPerm[Owner(t)][a]["Transfer"], savedBlock)
        BY <2>3 DEF OwnerOf, Spenders, Operators, Approvals721
    <2>6. OwnerOf(Owner(t), t, FALSE).spenders \subseteq Addr
        BY DEF OwnerOf, Spenders, Approvals721
    <2>7. OwnerOf(Owner(t), t, FALSE).spenders \cap OwnerOf(Owner(t), t, FALSE).operators = {}
        <3>1. \A a \in Addr : Live(tokPerm[t][a]["Transfer"], savedBlock)
                               => ~Live(allPerm[Owner(t)][a]["Transfer"], savedBlock)
            BY <2>1, GrantPair DEF Live
        <3> QED
            BY <2>5, <2>6, <3>1
    <2>8. ASSUME NEW a \in Addr \ {Owner(t)}
          PROVE  a \in OwnerOf(Owner(t), t, FALSE).spenders \cup OwnerOf(Owner(t), t, FALSE).operators
                     <=> PassesCore(a, t, "Transfer")
        <3>1. /\ ~Live(tokPerm[t][Public]["Transfer"], savedBlock)
              /\ ~Live(allPerm[Owner(t)][Public]["Transfer"], savedBlock)
            BY <2>2 DEF NoPublicTransfer, Live
        <3> QED
            BY <2>1, <2>5, <3>1, PassesByGrant
    <2>9. ASSUME NEW a \in Addr \ {Owner(t)}, NEW p \in PermTypes,
                 PassesCore(a, t, p), ~PassesCore(Public, t, p)
          PROVE  \E entry \in TokenApprovals(t, FALSE).token_approvals
                    \cup InventoryApprovals(Owner(t), FALSE).inventory_approvals :
                     entry.address = a /\ entry.expirations[p] # None
        <3>1. \/ Live(tokPerm[t][a][p], savedBlock)
              \/ Live(allPerm[Owner(t)][a][p], savedBlock)
            BY <2>1, <2>9, PassesByGrant
        <3>2. ASSUME NEW perms, Live(perms[a][p], savedBlock)
              PROVE  \E entry \in Approvals(perms, FALSE) :
                         entry.address = a /\ entry.expirations[p] # None
            <4> DEFINE entry == [address |-> a, expirations |-> [q \in PermTypes |->
                           IF Shown(perms[a][q], FALSE) THEN perms[a][q] ELSE None]]
            <4>1. Shown(perms[a][p], FALSE) /\ perms[a][p] # None
                BY <2>3, <3>2 DEF Live
            <4>2. entry \in Approvals(perms, FALSE)
                BY <4>1 DEF Approvals
            <4>3. entry.address = a /\ entry.expirations[p] = perms[a][p]
                BY <4>1
            <4> QED
                BY <4>1, <4>2, <4>3
        <3>3. /\ TokenApprovals(t, FALSE).token_approvals = Approvals(tokPerm[t], FALSE)
              /\ InventoryApprovals(Owner(t), FALSE).inventory_approvals
                    = Approvals(allPerm[Owner(t)], FALSE)
            BY DEF TokenApprovals, InventoryApprovals
        <3>4. CASE Live(tokPerm[t][a][p], savedBlock)
            BY <3>2, <3>3, <3>4
        <3>5. CASE Live(allPerm[Owner(t)][a][p], savedBlock)
            BY <3>2, <3>3, <3>5
        <3> QED
            BY <3>1, <3>4, <3>5
    <2> QED
        BY <2>4, <2>7, <2>8, <2>9
<1> QED
    BY <1>1, QueryInvCorrect, PTL

-----------------------------------------------------------------------------
(* Counts.                                                                  *)

\* The tokens of an owner, however they are found, are those the querier may see.
LEMMA OwnerCounts ==
    ASSUME IInv, NEW o \in Addr, NEW s \in Grantee
    PROVE  /\ \A t \in inventory[o] : \A before \in SUBSET (inventory[o] \ {t}) :
                 ListsToken(o, s, t, before) <=> Passes(s, t, "ViewOwner")
           /\ NumTokensOfOwner(o, s) =
                 Cardinality({t \in inventory[o] : Passes(s, t, "ViewOwner")})
<1>1. /\ "ViewOwner" \in PermTypes /\ Public \in Grantee
      /\ inventory[o] \subseteq Idx
      /\ \A t \in Idx : t \in inventory[o] <=> Exists(t) /\ Owner(t) = o
    BY DEF PermTypes, Grantee, IInv, TypeOK, InventoryExact
<1>2. \A t \in inventory[o] :
          Passes(s, t, "ViewOwner") <=> OwnershipIsOpen(o) \/ PassesCore(s, t, "ViewOwner")
    BY <1>1 DEF Passes, PassesCore, CheckPermission
<1>3. \A t \in inventory[o] :
          PassesCore(s, t, "ViewOwner") <=>
              \/ s = o
              \/ \E g \in {s, Public} : Live(tokPerm[t][g]["ViewOwner"], savedBlock)
              \/ HoldsAll(o, s)
    BY <1>1, PassesByGrant DEF HoldsAll
<1>4. ASSUME NEW t \in inventory[o], NEW before \in SUBSET (inventory[o] \ {t})
      PROVE  ListsToken(o, s, t, before) <=> Passes(s, t, "ViewOwner")
    <2>1. \A u \in before : FoundOperator(s, u, "ViewOwner") => PassesCore(s, t, "ViewOwner")
        BY <1>1, FoundPasses
    <2>2. KnownPass(o, s) => Passes(s, t, "ViewOwner")
        BY <1>2, <1>3 DEF KnownPass
    <2> QED
        BY <1>2, <2>1, <2>2 DEF ListsToken, KnownPass
<1>5. CASE KnownPass(o, s) \/ HoldsAll(o, s)
    <2>1. {t \in inventory[o] : Passes(s, t, "ViewOwner")} = inventory[o]
        BY <1>2, <1>3, <1>5 DEF KnownPass
    <2> QED
        BY <1>4, <1>5, <2>1 DEF NumTokensOfOwner
<1>6. CASE ~(KnownPass(o, s) \/ HoldsAll(o, s))
    <2>1. \A t : t \in CountedTokens(o, s) <=>
                    /\ t \in inventory[o]
                    /\ \E g \in {s, Public} : Live(tokPerm[t][g]["ViewOwner"], savedBlock)
        <3> TAKE t
        <3>1. \A g \in {s, Public} : t \in Idx =>
                  (t \in authList[o][g]["ViewOwner"]
                      <=> t \in inventory[o] /\ tokPerm[t][g]["ViewOwner"] # None)
            BY <1>1 DEF IInv, AuthListExact
        <3>2. \A g \in {s, Public} : authList[o][g]["ViewOwner"] \subseteq Idx
            BY <1>1 DEF IInv, TypeOK
        <3> QED
            BY <1>1, <3>1, <3>2 DEF CountedTokens, Live
    <2>2. CountedTokens(o, s) = {t \in inventory[o] : Passes(s, t, "ViewOwner")}
        BY <1>2, <1>3, <1>6, <2>1 DEF KnownPass
    <2> QED
        BY <1>4, <1>6, <2>2 DEF NumTokensOfOwner
<1> QED
    BY <1>5, <1>6

\* A set of numbers has a least one.
LEMMA LeastOf ==
    ASSUME NEW S \in SUBSET Nat, S # {}
    PROVE  \E m \in S : \A n \in S : m <= n
<1>1. PICK m \in S : \A n \in S : <<n, m>> \notin OpToRel(<, Nat)
    BY NatLessThanWellFounded, WFMin
<1>2. \A n \in S : ~(n < m)
    BY <1>1 DEF OpToRel
<1> QED
    BY <1>2

(***************************************************************************)
(* VerifyTransferApproval says yes to a list exactly if a transfer of each *)
(* of its tokens would be allowed, and otherwise names the first that      *)
(* would not.                                                              *)
(***************************************************************************)
THEOREM VerifyCorrect == MetaSpec => []VerifyIsExact
<1>1. QueryInv => VerifyIsExact
    <2> SUFFICES ASSUME IInv, NEW s \in Addr, NEW ids \in Lists
                 PROVE  LET Movable(n) ==
                                LET t == idxOf[ids[n]] IN
                                /\ Exists(t)
                                /\ MayAccess(s, t, "Transfer", savedBlock)
                                /\ token[t].transferable
                            first == FirstUnapproved(s, ids)
                        IN  IF first = None THEN \A n \in DOMAIN ids : Movable(n)
                            ELSE ~Movable(first) /\ \A n \in 1 .. first - 1 : Movable(n)
        BY DEF VerifyIsExact, QueryInv, MetaInv
    <2> DEFINE Movable(n) ==
                   LET t == idxOf[ids[n]] IN
                   /\ Exists(t)
                   /\ MayAccess(s, t, "Transfer", savedBlock)
                   /\ token[t].transferable
               bad == {n \in DOMAIN ids : ~(/\ Exists(idxOf[ids[n]])
                                            /\ PassesNth(s, ids, n, "Transfer")
                                            /\ token[idxOf[ids[n]]].transferable)}
    <2>1. "Transfer" \in PermTypes /\ s \in Grantee
        BY DEF PermTypes, Grantee
    <2>2. DOMAIN ids = 1 .. Len(ids) /\ Len(ids) \in Nat
        BY QueryAssumption
    <2>3. \A n : Movable(n) <=> /\ Exists(idxOf[ids[n]])
                               /\ PassesNth(s, ids, n, "Transfer")
                               /\ token[idxOf[ids[n]]].transferable
        <3> TAKE n
        <3>1. Exists(idxOf[ids[n]]) => idxOf[ids[n]] \in Idx
            BY DEF Exists
        <3> QED
            BY <2>1, <3>1, NthPasses, CoreIsAccess DEF PassesCore
    <2>4. FirstUnapproved(s, ids) =
              IF bad = {} THEN None ELSE CHOOSE n \in bad : \A m \in bad : n <= m
        BY DEF FirstUnapproved
    <2>5. bad \in SUBSET Nat
        BY <2>2
    <2> HIDE DEF Movable
    <2>6. \A n : n \in bad <=> n \in DOMAIN ids /\ ~Movable(n)
        BY <2>3
    <2> HIDE DEF bad
    <2>7. CASE bad = {}
        BY <2>4, <2>7, <2>6 DEF Movable
    <2>8. CASE bad # {}
        <3>1. PICK n \in bad : \A m \in bad : n <= m
            BY <2>5, <2>8, LeastOf
        <3>2. /\ FirstUnapproved(s, ids) \in bad
              /\ \A m \in bad : FirstUnapproved(s, ids) <= m
            BY <2>4, <2>8, <3>1
        <3> DEFINE first == FirstUnapproved(s, ids)
        <3> HIDE DEF first
        <3>3. first \in 1 .. Len(ids) /\ first # None /\ ~Movable(first)
            BY <2>2, <2>5, <2>6, <3>2, QueryAssumption DEF first
        <3>4. \A m \in 1 .. first - 1 : m \in DOMAIN ids /\ ~(first <= m)
            BY <2>2, <3>3
        <3>5. \A m \in 1 .. first - 1 : Movable(m)
            BY <2>6, <3>2, <3>4 DEF first
        <3> QED
            BY <3>3, <3>5 DEF first, Movable
    <2> QED
        BY <2>7, <2>8
<1> QED
    BY <1>1, QueryInvCorrect, PTL

-----------------------------------------------------------------------------
(* The token supply.                                                        *)

\* A set with at most one element has no other.
LEMMA AtMostOne ==
    ASSUME NEW S, IsFiniteSet(S), NEW a \in S, Cardinality(S) <= 1
    PROVE  \A b \in S : b = a
<1> SUFFICES ASSUME NEW b \in S, b # a PROVE FALSE
    OBVIOUS
<1>1. IsFiniteSet({a}) /\ Cardinality({a}) = 1
    BY FS_Singleton
<1>2. IsFiniteSet({a} \cup {b}) /\ Cardinality({a} \cup {b}) = 2
    BY <1>1, FS_AddElement
<1>3. ({a} \cup {b}) \in SUBSET S
    OBVIOUS
<1>4. Cardinality({a} \cup {b}) <= Cardinality(S) /\ Cardinality(S) \in Nat
    BY <1>3, FS_Subset, FS_CardinalityType
<1> QED
    BY <1>2, <1>4

\* AllTokens goes through the tokens that exist, from an index on.
LEMMA UpcomingTokens ==
    ASSUME IInv, NEW i
    PROVE  Upcoming(i) = {t \in Tokens : t >= i} /\ IsFiniteSet(Upcoming(i))
<1>1. Upcoming(i) = {t \in Tokens : t >= i}
    BY DEF Upcoming, Tokens, IInv, IdsExact
<1>2. {t \in Tokens : t >= i} \in SUBSET Tokens
    OBVIOUS
<1> QED
    BY <1>1, <1>2, TokensFinite, FS_Subset

\* A page of one token shows the first one that is left.
LEMMA PageOfOne ==
    ASSUME IInv, NEW i, NEW t
    PROVE  AllTokensPage(i, 1) = {t} <=>
               t \in Upcoming(i) /\ \A u \in Upcoming(i) : t <= u
<1> DEFINE upTo(u) == {v \in Upcoming(i) : v <= u}
<1>1. \A u : IsFiniteSet(upTo(u))
    BY UpcomingTokens, FS_Subset
<1>2. \A u \in Upcoming(i) : u \in Int
    BY SnipAssumption DEF Upcoming, Idx
<1>3. \A u : u \in AllTokensPage(i, 1) <=> u \in Upcoming(i) /\ Cardinality(upTo(u)) <= 1
    BY DEF AllTokensPage
<1>4. ASSUME NEW u \in Upcoming(i)
      PROVE  Cardinality(upTo(u)) <= 1 <=> \A v \in Upcoming(i) : u <= v
    <2>1. u \in upTo(u)
        BY <1>2
    <2>2. ASSUME Cardinality(upTo(u)) <= 1, NEW v \in Upcoming(i)
          PROVE  u <= v
        <3>1. v \in upTo(u) => v = u
            BY <1>1, <2>1, <2>2, AtMostOne
        <3> QED
            BY <1>2, <3>1
    <2>3. ASSUME \A v \in Upcoming(i) : u <= v
          PROVE  Cardinality(upTo(u)) <= 1
        <3>1. upTo(u) = {u}
            BY <1>2, <2>3
        <3>2. Cardinality({u}) = 1
            BY FS_Singleton
        <3> HIDE DEF upTo
        <3> QED
            BY <3>1, <3>2
    <2> QED
        BY <2>2, <2>3
<1> HIDE DEF upTo
<1>5. \A u : u \in AllTokensPage(i, 1) <=>
                 u \in Upcoming(i) /\ \A v \in Upcoming(i) : u <= v
    BY <1>3, <1>4
<1>6. ASSUME AllTokensPage(i, 1) = {t}
      PROVE  t \in Upcoming(i) /\ \A u \in Upcoming(i) : t <= u
    BY <1>5, <1>6
<1>7. ASSUME t \in Upcoming(i), \A u \in Upcoming(i) : t <= u
      PROVE  AllTokensPage(i, 1) = {t}
    <2>1. \A u \in AllTokensPage(i, 1) : u = t
        BY <1>2, <1>5, <1>7
    <2>2. t \in AllTokensPage(i, 1)
        BY <1>5, <1>7
    <2> QED
        BY <2>1, <2>2
<1> QED
    BY <1>6, <1>7

\* There are as many ids of tokens as tokens.
LEMMA IdsCounted ==
    ASSUME IInv
    PROVE  Cardinality({id \in Ids : Exists(idxOf[id])}) = Cardinality(Tokens)
<1> DEFINE ids == {id \in Ids : Exists(idxOf[id])}
           name == [t \in Tokens |-> idOf[t]]
<1>1. \A t \in Tokens : idOf[t] \in Ids /\ idxOf[idOf[t]] = t
    BY DEF Tokens, IInv, TypeOK, IdsExact
<1>2. name \in [Tokens -> ids]
    BY <1>1 DEF Tokens
<1>3. \A a, b \in Tokens : name[a] = name[b] => a = b
    BY <1>1
<1>4. \A id \in ids : \E t \in Tokens : name[t] = id
    <2> SUFFICES ASSUME NEW id \in ids PROVE \E t \in Tokens : name[t] = id
        OBVIOUS
    <2>1. idxOf[id] \in Tokens /\ idOf[idxOf[id]] = id
        BY DEF Tokens, Exists, IInv, IdsExact
    <2> QED
        BY <2>1
<1> HIDE DEF name, ids
<1>5. DOMAIN name = Tokens
    BY <1>2
<1>6. name \in Bijection(Tokens, ids)
    BY <1>2, <1>3, <1>4, <1>5 DEF Bijection, Injection, Surjection, IsInjective
<1>7. ExistsBijection(Tokens, ids)
    BY <1>6 DEF ExistsBijection
<1>8. Cardinality(ids) = Cardinality(Tokens)
    BY <1>7, TokensFinite, FS_Bijection
<1> QED
    BY <1>8 DEF ids

\* In the pages of AllTokens, a token follows the beginning or one other token.
LEMMA OnePredecessor ==
    ASSUME IInv, NEW t \in Idx, Exists(t)
    PROVE  \E x : {after \in {None} \cup {id \in Ids : Exists(idxOf[id])} :
                       AllTokensPage(StartAfter(after), 1) = {t}} = {x}
<1> DEFINE afters == {None} \cup {id \in Ids : Exists(idxOf[id])}
           below == {u \in Tokens : u < t}
<1>1. t \in Tokens /\ Tokens \subseteq Nat
    BY SnipAssumption DEF Tokens, Idx
<1>2. \A i \in Nat : AllTokensPage(i, 1) = {t} <=>
                         t >= i /\ \A u \in Tokens : u >= i => t <= u
    <2> TAKE i \in Nat
    <2>1. AllTokensPage(i, 1) = {t} <=>
              t \in Upcoming(i) /\ \A u \in Upcoming(i) : t <= u
        BY PageOfOne
    <2>2. Upcoming(i) = {u \in Tokens : u >= i}
        BY UpcomingTokens
    <2> QED
        BY <1>1, <2>1, <2>2
<1>3. StartAfter(None) = 0 /\ None \notin Ids
    BY SnipAssumption DEF StartAfter
<1>4. \A id \in Ids : Exists(idxOf[id]) =>
          /\ StartAfter(id) = idxOf[id] + 1
          /\ idxOf[id] \in Tokens
          /\ idOf[idxOf[id]] = id
    BY <1>3 DEF StartAfter, Tokens, Exists, IInv, IdsExact
<1>5. \A u \in Tokens : idOf[u] \in Ids /\ Exists(idxOf[idOf[u]]) /\ idxOf[idOf[u]] = u
    BY DEF Tokens, IInv, TypeOK, IdsExact
<1>6. AllTokensPage(StartAfter(None), 1) = {t} <=> below = {}
    <2>1. \A u \in Tokens : u >= 0 /\ (t <= u <=> u \notin below)
        BY <1>1
    <2>2. AllTokensPage(0, 1) = {t} <=> t >= 0 /\ \A u \in Tokens : u >= 0 => t <= u
        BY <1>2
    <2>3. t >= 0
        BY <1>1
    <2>4. (\A u \in Tokens : u \notin below) <=> below = {}
        OBVIOUS
    <2> QED
        BY <1>3, <2>1, <2>2, <2>3, <2>4
<1>7. \A id \in Ids : Exists(idxOf[id]) =>
          (AllTokensPage(StartAfter(id), 1) = {t} <=>
               idxOf[id] \in below /\ \A u \in below : u <= idxOf[id])
    <2> SUFFICES ASSUME NEW id \in Ids, Exists(idxOf[id])
                 PROVE  AllTokensPage(StartAfter(id), 1) = {t} <=>
                            idxOf[id] \in below /\ \A u \in below : u <= idxOf[id]
        OBVIOUS
    <2>1. PICK w : w = idxOf[id]
        OBVIOUS
    <2>2. w \in Tokens /\ StartAfter(id) = w + 1
        BY <1>4, <2>1
    <2>3. w \in Nat /\ w + 1 \in Nat
        BY <1>1, <2>2
    <2>4. AllTokensPage(w + 1, 1) = {t} <=>
              t >= w + 1 /\ \A u \in Tokens : u >= w + 1 => t <= u
        BY <1>2, <2>3
    <2>5. t >= w + 1 <=> w \in below
        BY <1>1, <2>2, <2>3
    <2>6. (\A u \in Tokens : u >= w + 1 => t <= u) <=> \A u \in below : u <= w
        <3>1. \A u \in Tokens : (u >= w + 1 => t <= u) <=> (u < t => u <= w)
            BY <1>1, <2>2, <2>3
        <3> QED
            BY <3>1
    <2> QED
        BY <2>1, <2>2, <2>4, <2>5, <2>6
<1>8. CASE below = {}
    <2>1. {after \in afters : AllTokensPage(StartAfter(after), 1) = {t}} = {None}
        BY <1>3, <1>6, <1>7, <1>8
    <2> QED
        BY <2>1
<1>9. CASE below # {}
    <2>1. PICK w \in below : \A u \in below : u <= w
        <3> DEFINE gaps == {t - u : u \in below}
        <3>1. gaps \in SUBSET Nat /\ gaps # {}
            BY <1>1, <1>9
        <3>2. PICK m \in gaps : \A n \in gaps : m <= n
            BY <3>1, LeastOf
        <3>3. PICK w \in below : m = t - w
            BY <3>2
        <3>4. \A u \in below : t - w <= t - u /\ u \in Nat
            BY <1>1, <3>2, <3>3
        <3>5. w \in Nat /\ t \in Nat
            BY <1>1
        <3>6. \A u \in below : u <= w
            BY <3>4, <3>5
        <3> QED
            BY <3>3, <3>6
    <2>2. w \in Tokens /\ w \in Nat
        BY <1>1
    <2>3. \A u \in below : (\A v \in below : v <= u) => u = w
        BY <1>1, <2>1, <2>2
    <2>4. \A id \in Ids : Exists(idxOf[id]) =>
              (AllTokensPage(StartAfter(id), 1) = {t} <=> idxOf[id] = w)
        BY <1>7, <2>1, <2>3
    <2>5. \A id \in Ids : Exists(idxOf[id]) => (idxOf[id] = w <=> id = idOf[w])
        BY <1>4, <1>5, <2>2
    <2>6. {after \in afters : AllTokensPage(StartAfter(after), 1) = {t}} = {idOf[w]}
        <3> HIDE DEF below
        <3>1. idOf[w] \in afters /\ idOf[w] # None
            BY <1>3, <1>5, <2>2
        <3> QED
            BY <1>3, <1>5, <1>6, <1>9, <2>2, <2>4, <2>5, <3>1
    <2> QED
        BY <2>6
<1> QED
    BY <1>8, <1>9

(***************************************************************************)
(* The tokens counted for an owner are those that Tokens lists, and who is *)
(* told the supply is told how many tokens AllTokens lists, each of which  *)
(* comes after the beginning or after one other token.                     *)
(***************************************************************************)
THEOREM CountsCorrect == MetaSpec => []CountsAgree
<1>1. QueryInv => CountsAgree
    <2> SUFFICES ASSUME IInv, SupplyExact PROVE CountsAgree
        BY DEF QueryInv, MetaInv
    <2>1. tokenCnt = Cardinality({id \in Ids : Exists(idxOf[id])})
        BY IdsCounted DEF SupplyExact, Tokens
    <2>2. \A t \in Idx : Exists(t) =>
              Cardinality({after \in {None} \cup {id \in Ids : Exists(idxOf[id])} :
                               AllTokensPage(StartAfter(after), 1) = {t}}) = 1
        <3> SUFFICES ASSUME NEW t \in Idx, Exists(t)
                     PROVE  Cardinality({after \in {None} \cup {id \in Ids : Exists(idxOf[id])} :
                                             AllTokensPage(StartAfter(after), 1) = {t}}) = 1
            OBVIOUS
        <3>1. PICK x : {after \in {None} \cup {id \in Ids : Exists(idxOf[id])} :
                            AllTokensPage(StartAfter(after), 1) = {t}} = {x}
            BY OnePredecessor
        <3> QED
            BY <3>1, FS_Singleton
    <2>3. SupplyAgrees
        BY <2>1, <2>2 DEF SupplyAgrees, NumTokens
    <2> QED
        BY <2>3, OwnerCounts DEF CountsAgree
<1> QED
    BY <1>1, QueryInvCorrect, PTL

-----------------------------------------------------------------------------
(* Metadata and the ledger.                                                 *)

(***************************************************************************)
(* Messages about metadata leave the ledger sound: with them too an id     *)
(* names one token, inventories, AuthLists and supply are exact, nobody is *)
(* granted twice, and the permission check overlooks nobody.               *)
(***************************************************************************)
THEOREM MetaLedgerCorrect ==
    MetaSpec => []( /\ IdsExact /\ InventoryExact /\ AuthListExact /\ NoDoubleGrant
                    /\ SupplyExact /\ CheckIsExact )
<1>1. IInv => CheckIsExact
    BY CoreIsAccess DEF CheckIsExact
<1>2. QueryInv => /\ IdsExact /\ InventoryExact /\ AuthListExact /\ NoDoubleGrant
                  /\ SupplyExact /\ CheckIsExact
    BY <1>1 DEF QueryInv, MetaInv, IInv
<1> QED
    BY <1>2, QueryInvCorrect, PTL
=============================================================================

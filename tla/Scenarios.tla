------------------------------ MODULE Scenarios ------------------------------
(***************************************************************************)
(* Replays scripted sequences of messages on the ledger with metadata.  A  *)
(* script is what a unit test of the repository does: a step sends one     *)
(* message in a given block, says whether it succeeds, and states facts    *)
(* about the stores afterwards.  Between the steps a stranger, whom no     *)
(* test mentions, gives and withdraws approvals of its own.                *)
(***************************************************************************)
EXTENDS Metadata, Sequences

CONSTANTS
    Scripts,            \* the scripts: records of a config and steps
    Strangers           \* bound: addresses no script mentions

VARIABLES
    script,             \* which script is replayed
    played,             \* how many of its steps have been
    answer              \* whether the last one succeeded

replayVars == <<script, played, answer>>
scenarioVars == <<allMetaVars, replayVars>>

Steps == Scripts[script].steps
LastStep == Steps[played]
NextStep == Steps[played + 1]

-----------------------------------------------------------------------------
(* The vocabulary of the scripts: blocks, steps, messages and facts.        *)

TestBlock == [height |-> 12345, time |-> 1571797419]

OnSuccess(by, msg, facts) ==
    [by |-> by, msg |-> msg, at |-> TestBlock, succeeds |-> TRUE, facts |-> facts]
Succeeds(by, msg) == OnSuccess(by, msg, <<>>)
Fails(by, msg) == [Succeeds(by, msg) EXCEPT !.succeeds = FALSE]
InBlock(height, time, step) == [step EXCEPT !.at = [height |-> height, time |-> time]]

AtTime(t) == [kind |-> "AtTime", at |-> t]
AtHeight(h) == [kind |-> "AtHeight", at |-> h]

MintMsg(id, owner, pub, priv) ==
    [kind |-> "MintNft", id |-> id, owner |-> owner, pub |-> pub, priv |-> priv]
MetadataMsg(id, pub, priv) == [kind |-> "SetMetadata", id |-> id, pub |-> pub, priv |-> priv]
RevealMsg(id) == [kind |-> "Reveal", id |-> id]
TransferMsg(to, id) == [kind |-> "TransferNft", to |-> to, id |-> id]
BurnMsg(id) == [kind |-> "BurnNft", id |-> id]
ApproveMsg(g, id, e) == [kind |-> "Approve", to |-> g, id |-> id, expires |-> e]
RevokeMsg(g, id) == [kind |-> "Revoke", to |-> g, id |-> id]

\* view_owner, view_private_metadata and transfer of an approval message
Levels(viewOwner, viewMeta, transfer) ==
    [p \in PermTypes |-> CASE p = "ViewOwner" -> viewOwner
                           [] p = "ViewMetadata" -> viewMeta
                           [] p = "Transfer" -> transfer]
WhitelistMsg(g, id, levels, e) ==
    [kind |-> "SetWhitelistedApproval", to |-> g, id |-> id, levels |-> levels, expires |-> e]
ApproveAllMsg(g) == WhitelistMsg(g, None, TransferOnly("All"), Never)
RevokeAllMsg(g) == WhitelistMsg(g, None, TransferOnly("None"), Never)
GlobalMsg(id, levels, e) ==
    [kind |-> "SetGlobalApproval", id |-> id, levels |-> levels, expires |-> e]
PrivateMsg == [kind |-> "MakeOwnershipPrivate"]
MintersMsg(kind, some) == [kind |-> kind, minters |-> some]
AdminMsg(a) == [kind |-> "ChangeAdmin", to |-> a]
StatusMsg(level) == [kind |-> "SetContractStatus", level |-> level]

\* o's ALL permissions, its tokens' permissions and, told by these, its AuthLists
Grant(o, all, tokens) == [fact |-> "Grants", owner |-> o, all |-> all, tokens |-> tokens]
\* rows of Grant for the permissions of one grantee
All(g, p, e) == {<<g, p, e>>}
On(ids, g, p, e) == {<<id, g, p, e>> : id \in ids}
Holds(o, ids) == [fact |-> "Holds", owner |-> o, ids |-> ids]
Shows(id, pub, priv) == [fact |-> "Shows", id |-> id, pub |-> pub, priv |-> priv]
Gone(id, t) == [fact |-> "Gone", id |-> id, index |-> t]
May(s, id, p, time) == [fact |-> "May", by |-> s, id |-> id, perm |-> p, time |-> time]
MayNot(s, id, p, time) == [May(s, id, p, time) EXCEPT !.fact = "MayNot"]
Fact(name, value) == [fact |-> name, value |-> value]

-----------------------------------------------------------------------------
(* What messages do and what facts say.                                     *)

Plain(A) == A /\ UNCHANGED <<metaVars, metaHistory>>

Handle(s, m) ==
    \/ /\ m.kind = "MintNft"
       /\ MintWithMetadata(s, m.id, [owner |-> m.owner, transferable |-> TRUE], m.pub, m.priv)
    \/ m.kind = "SetMetadata" /\ SetMetadata(s, m.id, m.pub, m.priv)
    \/ m.kind = "Reveal" /\ Reveal(s, m.id)
    \/ m.kind = "TransferNft" /\ TransferWithMetadata(s, m.id, m.to)
    \/ m.kind = "BurnNft" /\ BurnWithMetadata(s, m.id)
    \/ m.kind = "Approve" /\ Plain(Approve(s, m.to, m.id, m.expires))
    \/ m.kind = "Revoke" /\ Plain(Revoke(s, m.to, m.id))
    \/ /\ m.kind = "SetWhitelistedApproval"
       /\ Plain(SetWhitelistedApproval(s, m.to, m.id, m.levels, m.expires))
    \/ m.kind = "SetGlobalApproval" /\ Plain(SetGlobalApproval(s, m.id, m.levels, m.expires))
    \/ m.kind = "MakeOwnershipPrivate" /\ Plain(MakeOwnershipPrivate(s))
    \/ m.kind = "AddMinters" /\ Plain(AddMinters(s, m.minters))
    \/ m.kind = "RemoveMinters" /\ Plain(RemoveMinters(s, m.minters))
    \/ m.kind = "SetMinters" /\ Plain(SetMinters(s, m.minters))
    \/ m.kind = "ChangeAdmin" /\ Plain(ChangeAdmin(s, m.to))
    \/ m.kind = "SetContractStatus" /\ Plain(SetContractStatus(s, m.level))

AllOf(o) ==
    {<<c[1], c[2], allPerm[o][c[1]][c[2]]>> :
        c \in {d \in Grantee \X PermTypes : allPerm[o][d[1]][d[2]] # None}}

TokensOf(o) ==
    {<<idOf[c[1]], c[2], c[3], tokPerm[c[1]][c[2]][c[3]]>> :
        c \in {d \in inventory[o] \X Grantee \X PermTypes : tokPerm[d[1]][d[2]][d[3]] # None}}

Listed(f, g, p) == {idxOf[r[1]] : r \in {q \in f.tokens : q[2] = g /\ q[3] = p}}

IsTrue(f) ==
    \/ /\ f.fact = "Grants"
       /\ AllOf(f.owner) = f.all
       /\ TokensOf(f.owner) = f.tokens
       /\ \A g \in Grantee, p \in PermTypes : authList[f.owner][g][p] = Listed(f, g, p)
    \/ /\ f.fact = "Holds"
       /\ inventory[f.owner] = {idxOf[id] : id \in f.ids}
       /\ \A id \in f.ids : Owner(idxOf[id]) = f.owner /\ idOf[idxOf[id]] = id
    \/ /\ f.fact = "Shows"
       /\ pubMeta[idxOf[f.id]] = f.pub /\ privMeta[idxOf[f.id]] = f.priv
       /\ unwrapped[idxOf[f.id]]
    \/ /\ f.fact = "Gone"
       /\ idxOf[f.id] = None /\ idOf[f.index] = None /\ token[f.index] = None
       /\ pubMeta[f.index] = None /\ privMeta[f.index] = None
    \/ f.fact \in {"May", "MayNot"} /\ (f.fact = "May" <=>
           CheckPermission(f.by, idxOf[f.id], f.perm, [height |-> 1, time |-> f.time]))
    \/ f.fact = "Minters" /\ minters = f.value
    \/ f.fact = "Admin" /\ admin = f.value
    \/ f.fact = "Status" /\ status = f.value
    \/ f.fact = "NeverPrivate" /\ f.value \notin ownerPriv

-----------------------------------------------------------------------------
ReplayInit ==
    /\ MetaInit
    /\ script \in DOMAIN Scripts
    /\ metaConfig = Scripts[script].config
    /\ played = 0
    /\ answer = TRUE

\* the env a test makes up: its blocks need not follow each other
EnvBlock ==
    /\ played < Len(Steps)
    /\ block # NextStep.at
    /\ block' = NextStep.at
    /\ UNCHANGED <<configVars, ledgerVars, permVars, ownerPriv, savedBlock,
                   metaVars, metaHistory, replayVars>>

\* a message that fails changes nothing
Play ==
    /\ played < Len(Steps)
    /\ block = NextStep.at
    /\ answer' = ENABLED Handle(NextStep.by, NextStep.msg)
    /\ IF answer' THEN Handle(NextStep.by, NextStep.msg) ELSE UNCHANGED allMetaVars
    /\ played' = played + 1
    /\ UNCHANGED script

Interlude == \E s \in Strangers, g \in Granted, level \in {"All", "None"} :
    /\ played < Len(Steps)
    /\ Plain(SetWhitelistedApproval(s, g, None, TransferOnly(level), Never))
    /\ UNCHANGED replayVars

ReplayNext == EnvBlock \/ Play \/ Interlude

ReplaySpec == ReplayInit /\ [][ReplayNext]_scenarioVars

-----------------------------------------------------------------------------
(***************************************************************************)
(* Each message of a unit test succeeds or fails as the test expects and   *)
(* leaves the stores as it asserts: ALL permissions, token permissions and *)
(* AuthLists to the last entry, inventories, metadata and checks; what a   *)
(* stranger does to its own approvals in between changes none of it.       *)
(***************************************************************************)
Conforms ==
    played > 0 =>
        /\ answer = LastStep.succeeds
        /\ \A i \in DOMAIN LastStep.facts : IsTrue(LastStep.facts[i])
=============================================================================

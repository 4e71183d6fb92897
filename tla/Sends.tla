-------------------------------- MODULE Sends --------------------------------
(***************************************************************************)
(* SendNft and BatchSendNft: send_list moves the tokens as Batch.tla shows *)
(* and returns callbacks for the receiving contracts, which the chain      *)
(* delivers one after the other in the same transaction.  A receiver may   *)
(* send tokens on, its own callbacks coming first, or fail, which undoes   *)
(* the whole transaction.                                                  *)
(***************************************************************************)
EXTENDS Batch, Sequences

CONSTANTS
    MaxCalls,       \* bound: sends that receivers start in one transaction
    Supplied,       \* bound: receiver_info of the messages, or None
    Registered,     \* bound: contracts and the registrations they make
    SendTo          \* bound: the contracts messages send to

VARIABLES
    receivers,      \* PREFIX_RECEIVERS
    send,           \* the Send being worked on, with its send_from_list
    cached,         \* the handler's list of receivers and their registrations
    messages,       \* callbacks the handler is going to return
    queue,          \* callbacks the chain is going to deliver
    caller,         \* a receiver about to send on from its callback, or None
    calls,          \* sends receivers may still start
    owed            \* history: the set of tokens sent that are yet to be told of

sendVars == <<receivers, send, cached, messages, queue, caller, calls, owed>>
allVars == <<vars, sendVars>>

\* whether a code hash is there, and whether BatchReceiveNft is implemented
Registration == [hash : BOOLEAN, batch : BOOLEAN]
Unregistered == [hash |-> FALSE, batch |-> FALSE]

\* a store that the chain has put aside
Store == [mintCnt : Nat, tokenCnt : Nat, idxOf : [Ids -> Idx \cup {None}],
          idOf : [Idx -> Ids \cup {None}], creator : [Idx -> Addr \cup {None}],
          token : [Idx -> [owner : Addr, transferable : BOOLEAN] \cup {None}],
          tokPerm : [Idx -> [Grantee -> [PermTypes -> PermSet]]],
          inventory : [Addr -> SUBSET Idx],
          authList : [Addr -> [Grantee -> [PermTypes -> SUBSET Idx]]],
          savedBlock : BlockInfo, runNum : [RunIds -> Nat],
          runInfo : [Idx -> RunInfo \cup {None}], ahead : BOOLEAN]

\* a Send, with the tokens sent so far by their previous owners
SendType == [contract : Addr, info : Registration \cup {None},
             from : Seq([owner : Addr, ids : Seq(Ids)]), no : Nat]

ASSUME SendAssumption ==
    /\ MaxCalls \in Nat
    /\ None \notin Store /\ None \notin SendType
    /\ Supplied \subseteq Registration \cup {None}
    /\ Registered \subseteq Addr \X Registration /\ SendTo \subseteq Addr

-----------------------------------------------------------------------------
\* the contract registers itself; an empty code hash takes it back
RegisterReceiveNft(s, registration) ==
    /\ work = None /\ undo = None
    /\ CheckStatus(StopTransactions)
    /\ receivers' = [receivers EXCEPT ![s] = registration]
    /\ Handled
    /\ UNCHANGED <<configVars, ledgerVars, permVars, ownerPriv, batchVars>>
    /\ UNCHANGED <<send, cached, messages, queue, caller, calls, owed>>

BeginSend(s) ==
    /\ undo = None
    /\ BeginList(s, "Send")
    /\ calls' = MaxCalls
    /\ UNCHANGED <<receivers, send, cached, messages, queue, caller, owed>>

\* the Sends of a message one after the other
OpenSend(c, info) ==
    /\ At("Send")
    /\ send = None
    /\ send' = [contract |-> c, info |-> info, from |-> <<>>, no |-> work.left]
    /\ work' = [work EXCEPT !.left = @ - 1]
    /\ UNCHANGED <<snipVars, undo, runNum, runInfo, ahead>>
    /\ UNCHANGED <<receivers, cached, messages, queue, caller, calls, owed>>

\* mutant of AddTo: a token is filed under the owner seen last
MutAddTo(list, owner, id) ==
    IF list = <<>> THEN <<[owner |-> owner, ids |-> <<id>>]>>
    ELSE [list EXCEPT ![Len(list)].ids = Append(@, id)]

\* send_from_list: owners in the order of their first token
AddTo(list, owner, id) ==
    IF \E i \in DOMAIN list : list[i].owner = owner
    THEN [i \in DOMAIN list |-> IF list[i].owner # owner THEN list[i]
             ELSE [owner |-> owner, ids |-> Append(list[i].ids, id)]]
    ELSE Append(list, [owner |-> owner, ids |-> <<id>>])

\* what is known of the receiver of a Send, apart from the cache
KnownOf(snd) == IF snd.info # None THEN snd.info ELSE receivers[snd.contract]

\* what is owed for a token: calls tells the handler, no the Send in it and
\* left the place among the handler's tokens, all counting down
OwedFor(id) == [id |-> id, from |-> Owner(idxOf[id]), by |-> work.sender,
                to |-> send.contract, calls |-> calls, no |-> send.no, left |-> work.left]

SendItem(id) ==
    /\ At("Send")
    /\ send # None
    /\ CanTransfer(id, send.contract)
    /\ MoveItem(idxOf[id], send.contract)
    /\ send' = [send EXCEPT !.from = AddTo(@, Owner(idxOf[id]), id)]
    /\ owed' = IF KnownOf(send).hash THEN owed \cup {OwedFor(id)} ELSE owed
    /\ UNCHANGED <<receivers, cached, messages, queue, caller, calls>>

\* the cache after this Send: supplied information is not kept
CachedAfter ==
    IF send.info # None \/ send.contract \in DOMAIN cached THEN cached
    ELSE Put(cached, send.contract, receivers[send.contract])

\* supplied information goes before what the handler has loaded before
RegistrationOf ==
    IF send.info # None THEN send.info
    ELSE IF send.contract \in DOMAIN cached THEN cached[send.contract]
    ELSE receivers[send.contract]

Callback(sender, from, ids) ==
    [to |-> send.contract, sender |-> sender, from |-> from, ids |-> ids]

\* one BatchReceiveNft per owner, or one ReceiveNft per token without the sender
OwnerCallbacks(batch, entry) ==
    IF batch THEN <<Callback(work.sender, entry.owner, entry.ids)>>
    ELSE [k \in DOMAIN entry.ids |-> Callback(None, entry.owner, <<entry.ids[k]>>)]

CallbacksFor(batch, list) ==
    LET all[i \in 0 .. Len(list)] ==
            IF i = 0 THEN <<>> ELSE all[i - 1] \o OwnerCallbacks(batch, list[i])
    IN  all[Len(list)]

\* receiver_callback_msgs
ReceiverCallbackMsgs ==
    IF RegistrationOf.hash THEN CallbacksFor(RegistrationOf.batch, send.from) ELSE <<>>

\* mutant of Collected: the callbacks of earlier Sends are lost
MutCollected == ReceiverCallbackMsgs

Collected == messages \o ReceiverCallbackMsgs

CloseSend ==
    /\ send # None
    /\ messages' = Collected
    /\ cached' = CachedAfter
    /\ send' = None
    /\ UNCHANGED <<vars, receivers, queue, caller, calls, owed>>

\* the chain (external) delivers the messages of the last handler first
Queued == messages \o queue

CommitSend ==
    /\ work # None
    /\ work.kind = "Send"
    /\ send = None
    /\ WriteBack
    /\ queue' = Queued
    /\ messages' = <<>>
    /\ cached' = NothingHeld
    /\ UNCHANGED <<undo, receivers, send, caller, calls, owed>>

-----------------------------------------------------------------------------
(* The chain and the receivers (external).                                  *)

ReceiverIsNext == work = None /\ caller = None /\ queue # <<>>

\* the tokens of the Send whose callbacks come first: of the latest handler
FrontSend ==
    {e \in owed : \A d \in owed : e.calls < d.calls \/ (e.calls = d.calls /\ e.no >= d.no)}

OwedBy(from) == {e \in FrontSend : e.from = from}

\* the tokens of one Send, in the order of the message
Earlier(e, d) == e.left > d.left

IsTold(m, e) == e \in OwedBy(m.from) /\ \E i \in DOMAIN m.ids : m.ids[i] = e.id

\* the receiver takes note, and may ask to send a token itself
Deliver ==
    /\ ReceiverIsNext
    /\ owed' = {e \in owed : ~IsTold(Head(queue), e)}
    /\ queue' = Tail(queue)
    /\ \/ UNCHANGED <<calls, caller>>
       \/ /\ calls > 0
          /\ calls' = calls - 1
          /\ \E c \in SendTo : c = Head(queue).to /\ caller' = c
    /\ UNCHANGED <<vars, receivers, send, cached, messages>>

\* SendNft called by a receiver within the transaction: a list of one
CallBack ==
    /\ work = None /\ caller # None
    /\ CheckStatus(Normal)
    /\ Start("Send", caller, 2, None, None)
    /\ caller' = None
    /\ UNCHANGED <<snipVars, undo, runNum, runInfo, ahead>>
    /\ UNCHANGED <<receivers, send, cached, messages, queue, calls, owed>>

Forget ==
    /\ send' = None /\ cached' = NothingHeld /\ messages' = <<>>
    /\ queue' = <<>> /\ caller' = None /\ calls' = 0
    /\ UNCHANGED receivers

SendFails(id) ==
    /\ At("Send")
    /\ send # None
    /\ ~CanTransfer(id, send.contract)
    /\ RollBack /\ Forget /\ owed' = {}

ReceiverFails == ReceiverIsNext /\ RollBack /\ Forget /\ owed' = {}

Settled == undo # None /\ work = None /\ caller = None /\ queue = <<>>

\* the chain commits the transaction
CommitTx ==
    /\ Settled
    /\ undo' = None
    /\ Forget
    /\ UNCHANGED <<snipVars, work, runNum, runInfo, ahead, owed>>

\* steps of a transaction that sends
TxStep ==
    \/ \E c \in SendTo, info \in Supplied : OpenSend(c, info)
    \/ \E id \in Ids : SendItem(id) \/ SendFails(id)
    \/ CloseSend
    \/ CommitSend
    \/ Deliver
    \/ CallBack
    \/ ReceiverFails
    \/ CommitTx

\* the messages that return no callbacks
OtherMessages ==
    /\ work # None \/ undo = None
    /\ Begin \/ Item \/ Fails \/ Commit \/ BetweenMessages
    /\ UNCHANGED sendVars

SendsInit ==
    /\ BatchInit
    /\ receivers = [a \in Addr |-> Unregistered]
    /\ send = None /\ cached = NothingHeld /\ messages = <<>>
    /\ queue = <<>> /\ caller = None /\ calls = 0 /\ owed = {}

SendsNext ==
    \/ \E s \in Addr : BeginSend(s)
    \/ \E r \in Registered : RegisterReceiveNft(r[1], r[2])
    \/ TxStep
    \/ OtherMessages

\* the chain runs a transaction it has begun to its end
SendsSpec == SendsInit /\ [][SendsNext]_allVars /\ WF_allVars(TxStep)

-----------------------------------------------------------------------------
(* Properties.                                                              *)

(***************************************************************************)
(* Whenever no handler is at work, between the callbacks of a transaction  *)
(* too, ids, inventories, supply and AuthLists are exact: a receiver's     *)
(* handler starts from what the handler before it has written, and what a  *)
(* failure deep in a nest of sends restores is exact as well.              *)
(***************************************************************************)
SettledStoresExact ==
    work = None => IdsExact /\ InventoryExact /\ SupplyExact /\ AuthListExact

(***************************************************************************)
(* The callback delivered next is about the Send whose turn it is: first   *)
(* the Sends of the latest handler, in the order of the message.  It tells *)
(* the contract that got the tokens, names their previous owner, and lists *)
(* the tokens of that owner in order: with BatchReceiveNft all of them and *)
(* who sent them, with ReceiveNft the next one.                            *)
(***************************************************************************)
TellsInOrder ==
    [][ Deliver =>
          LET m == Head(queue)
              tokens == OwedBy(m.from)
          IN  \E told \in [DOMAIN m.ids -> tokens] :
                /\ m.ids # <<>>
                /\ \A i \in DOMAIN m.ids : told[i].id = m.ids[i] /\ told[i].to = m.to
                /\ \A i, j \in DOMAIN m.ids : i < j => Earlier(told[i], told[j])
                /\ \A e \in tokens : (\E i \in DOMAIN m.ids : told[i] = e)
                                   \/ \A i \in DOMAIN m.ids : Earlier(told[i], e)
                /\ IF m.sender = None THEN Len(m.ids) = 1
                   ELSE \A e \in tokens : e.by = m.sender /\ \E i \in DOMAIN m.ids : told[i] = e
      ]_allVars

(***************************************************************************)
(* A token sent to a contract whose code hash is known is told to it in    *)
(* the end, or the send is undone.                                         *)
(***************************************************************************)
SentIsTold ==
    \A id \in Ids : (\E e \in owed : e.id = id) ~> ~ \E e \in owed : e.id = id
=============================================================================
